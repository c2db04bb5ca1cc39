\* An edit and a change of what is served, with both fetches.
CONSTANTS
  home = home
  moved = moved
  k1 = k1
  k2 = k2
  b1 = b1
  b2 = b2
  mine = mine
  Urls = {home, moved}
  NoUrl = NoUrl
  Keys = {k1, k2}
  NoKey = NoKey
  Bodies = {b1, b2}
  NoFeed = NoFeed
  Valid = {b1, b2}
  Forcing = {b2}
  Locals = {mine}
  Forms <- MCForms
  Migrations <- MCMigrations
  FirstServed <- MCFirstServed
  FirstConfigs <- MCFirstConfigs
  Timer = Timer
  Panel = Panel
  MaxEdits = 1
  MaxServes = 1
SPECIFICATION FairSpec
INVARIANTS
  TrustedByUser
  OnlyVouched
  NotNagged
PROPERTIES
  KeepsLocal
  Converges
  DetachCleans
CHECK_DEADLOCK FALSE
