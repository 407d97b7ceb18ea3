CONSTANTS
  Chars = {a, CR, LF}
  CR = CR
  LF = LF
  NUL = NUL
  Junk = Junk
  W = 4
  HeapLimit = 5
  MaxCap = 4
  RemoveCounts <- MCRemoveCountsMax
  NullNormalize = FALSE
SPECIFICATION Spec
INVARIANT MemorySafe
