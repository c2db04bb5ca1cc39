\* The startup race: the user may change between Run's Rebind and the supervisor's
\* first look.
CONSTANTS
  Users = {u1}
  Nobody = Nobody
  Unset = Unset
  Listeners = {l1, l2, l3}
  None = None
SPECIFICATION FairSpec
PROPERTIES
  KeepsInStep
CHECK_DEADLOCK FALSE
