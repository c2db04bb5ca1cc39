\* Three fast failures trip the breaker; four starts leave room for a healthy run
\* between failures and for a start after a cancel.  Two adapters, and three changes
\* from outside.  The settings of MCEngineRules.  Two trays at once.
CONSTANTS
  MaxFastFails = 3
  MinBackoff = 1
  MaxBackoff = 3
  MaxSpawns = 4
  Adapters = {a1, a2}
  NoPin = NoPin
  MaxChanges = 3
  Settings <- MCSettings
  Processes <- MCProcesses
  Lookups <- MCLookups
  Stores <- MCStores
  Off = Off
  Trays = {t1, t2}
  Before = Before
  After = After
  NoBuild = NoBuild
SPECIFICATION MCSpec
INVARIANTS
  Types
  NoPhantomRestart
  BackoffTracksStreak
  TableInRange
  RulesAsAsked
PROPERTIES
  ImplementsHandle
  ReadyIsReported
  CancelReturnsWhenKillable
  VerdictSettles
  LeavesDeadPin
  KeepsOneTray
CHECK_DEADLOCK FALSE
