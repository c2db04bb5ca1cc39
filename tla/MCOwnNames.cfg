\* A channel that lists a name, and a command or a save of the panel.
CONSTANTS
  udp = udp
  ours = ours
  theirs = theirs
  app = app
  net = net
  Apps = {app, net}
  Subnets = {net}
  Hosts = {ours, theirs}
  BadName = BadName
  Listed <- MCListed
  Switches = {udp}
  Prefs = {q1}
  Nil = Nil
  HandWritten <- MCHandWritten
  Profiles <- MCProfiles
SPECIFICATION RulesSpec
INVARIANT OwnNames
CHECK_DEADLOCK FALSE
