\* A cancel that falls between the check of the context and the publication of the
\* started child, with the killer run to its end in between.
CONSTANTS
  MaxFastFails = 3
  MinBackoff = 1
  MaxBackoff = 3
  MaxSpawns = 2
SPECIFICATION FairSpec
PROPERTIES
  CancelReturns
CHECK_DEADLOCK FALSE
