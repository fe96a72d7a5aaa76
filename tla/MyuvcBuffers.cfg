SPECIFICATION Spec
CONSTANTS
  MaxBufs = 3
  PageSize = 4
  SizeImage = 10
  Vmas = {v1, v2, v3, v4}
INVARIANTS
  TypeOK
  MappedIsFilled
  MappedFlagTrue
