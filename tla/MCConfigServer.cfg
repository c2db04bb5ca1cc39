\* Two profiles, two bodies, a migration, two keys; two sign-ins at once; the files and
\* the profiles of MCConfigRules.  Three adapters and three changes from outside.
CONSTANTS
  n1 = n1
  n2 = n2
  b1 = b1
  b2 = b2
  m1 = m1
  e1 = e1
  Names = {n1, n2}
  Bodies = {b1, b2}
  Migrations = {m1}
  Bad = Bad
  Keys = {k1, k2}
  None = None
  Torn = Torn
  Operators = {o1}
  Submitted <- MCSubmitted
  Addresses = {a1}
  Passwords = {p1, p2}
  NoPassword = NoPassword
  Unreadable = Unreadable
  Tokens = {t1, t2}
  Calls = {c1, c2}
  MaxFails = 2
  udp = udp
  ours = ours
  theirs = theirs
  app = app
  net = net
  Apps = {app, net}
  Subnets = {net}
  Hosts = {ours, theirs}
  BadName = BadName
  Listed <- MCListed
  Switches = {udp}
  Prefs = {q1}
  Nil = Nil
  HandWritten <- MCHandWritten
  Profiles <- MCProfiles
  Adapters = {e1, e2, e3}
  NoPin = NoPin
  MaxChanges = 3
SYMMETRY Symmetry
SPECIFICATION MCSpec
INVARIANTS
  Types
  ServedIsVouched
  FewTries
  ReadsSettle
  FeedIsTaken
  OwnApps
  NoRestartLoop
PROPERTIES
  AnswerIsTrue
  KeepsLoading
  LocalFactsStay
CHECK_DEADLOCK FALSE
