\* One Bool column of up to 3 rows: a v2 payload of 1 to 3 bytes.
CONSTANTS
  MaxRows = 3
  MaxRowsMulti = 0
  MaxCols = 1
  Tys = {1}
  FixedVals = {1}
  StrLens = {1}
  Null = Null
SPECIFICATION Spec
INVARIANT V2FrameDispatch
CHECK_DEADLOCK FALSE
