CONSTANTS
  KindNames <- MCKindNames
  TypeMap <- ShippedTypeMap
  Malformed = Malformed

INIT Init
NEXT Next

INVARIANT ValidatedKindIsRoutable
