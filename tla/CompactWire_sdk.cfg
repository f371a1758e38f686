SPECIFICATION Spec
CONSTANTS
  Fields = {f1, f2}
  Names = {n1, n2}
  MaxPosition = 2
  MaxTime = 1
  Second = 2
  None = None
INVARIANT FieldKept
