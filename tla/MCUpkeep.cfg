\* A user who comes and goes, and as many listeners as can be referred to at a time.
\* One who applies, whose helpers may outlive his next apply; two calls that fail.  Two
\* intervals, the longer as long as the grace between automatic tries, and a clock that
\* reaches past both.  Three backups of two entries each, and entries enough to fill
\* the file and all of them.
CONSTANTS
  Users = {u1}
  Nobody = Nobody
  Unset = Unset
  Listeners = {l1, l2, l3}
  None = None
  Old = Old
  New = New
  Absent = Absent
  Torn = Torn
  Appliers = {a1}
  MaxFaults = 2
  Intervals = {1, 2}
  RetryGrace = 1
  AutoGrace = 2
  MaxVersion = 1
  MaxClock = 3
  MaxSize = 2
  MaxBackups = 3
  MaxEntries = 9
SPECIFICATION MCSpec
INVARIANTS
  Types
  ServeSurvives
  BindingIsTrue
  StaysReachable
  EndsSound
  LogKeepsOrder
PROPERTIES
  PipeFollowsUser
  KeepsSchedule
CHECK_DEADLOCK FALSE
