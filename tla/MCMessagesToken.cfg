CONSTANTS
  KindNames <- MCKindNames
  TypeMap <- IntendedTypeMap
  Malformed = Malformed

INIT Init
NEXT Next

INVARIANT WellFormedReachesKeeper
