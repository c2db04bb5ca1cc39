\* The engine gives up while the loop runs it.
CONSTANTS
  usable = usable
  left = left
  bootstrap = bootstrap
  k1 = k1
  Torn = Torn
  NoCreds = NoCreds
  Off = Off
  Invalid = Invalid
  Config <- MCConfig
  Parses <- MCParses
  Remnant <- MCRemnant
  Demoted <- MCDemoted
  Addressed <- MCAddressed
  Creds <- MCCreds
  Accepts <- MCAccepts
  Writers = {w1}
SPECIFICATION Spec
PROPERTIES
  FaultIsSurfaced
CHECK_DEADLOCK FALSE
