\* Results of up to two blocks of one or two rows, with no failures: the
\* least that lets a second block be shorter (panic) or longer (skip) than
\* the first.
CONSTANTS
  MaxBlocks = 2
  MaxRows = 2
  CanFail = FALSE
  None = None
  Err = Err
SPECIFICATION Spec
INVARIANT ReadsAllRows
