\* One request at a time over four file contents and one set of credentials.
CONSTANTS
  usable = usable
  left = left
  bootstrap = bootstrap
  k1 = k1
  Torn = Torn
  NoCreds = NoCreds
  Off = Off
  Invalid = Invalid
  Config <- MCConfig
  Parses <- MCParses
  Remnant <- MCRemnant
  Demoted <- MCDemoted
  Addressed <- MCAddressed
  Creds <- MCCreds
  Accepts <- MCAccepts
  Writers = {w1}
SPECIFICATION FairSpec
INVARIANTS
  NoLostReload
  EngineOnlyOnUsable
PROPERTIES
  RefinesReconciler
  Settles
  ShutdownReturns
CHECK_DEADLOCK FALSE
