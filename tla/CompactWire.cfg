SPECIFICATION Spec
CONSTANTS
  Fields = {f1, f2, f3}
  Names = {n1, n2}
  MaxPosition = 2
  MaxTime = 1
  Second = 2
  None = None
SYMMETRY Symmetry
INVARIANTS
  TypeOK
  DecodedAsMeant
  
  PublishedWhole
