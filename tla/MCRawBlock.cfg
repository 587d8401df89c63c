\* Blocks of one column of any type with up to 9 rows (a second bitmap
\* byte), and of two columns of any types with up to 3 rows, so that one
\* column's length moves the next; empty and two-byte strings.
CONSTANTS
  MaxRows = 9
  MaxRowsMulti = 3
  MaxCols = 2
  Tys = {1, 2, 3, 4, 5, 6, 7, 8, 9, 10, 11, 12, 13, 14, 15}
  FixedVals = {1}
  StrLens = {0, 2}
  Null = Null
SPECIFICATION Spec
INVARIANTS TypeOK V3RoundTrip V2MatchesV3 BitmapLayout TimestampRoundTrip
\* The blocks stop growing at their row bound; every state is a complete block.
CHECK_DEADLOCK FALSE
