SPECIFICATION Spec
CONSTANTS
  Address <- MCAddress
  Place <- MCPlace
INVARIANTS
  TypeOK
  CardReadsImage
  DamageRejected
  DisplayNamesRoom
