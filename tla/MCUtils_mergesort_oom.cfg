\* tk_mergesort with merge's TKMEM_ALLOC allowed to fail: any of its merge
\* calls may find no memory.
CONSTANTS
  Keys = {1, 2, 3}
  MaxLen = 6
  MergeAllocMayFail = TRUE
  Letters = {a, b}
  NUL = NUL
  STAR = STAR
  QMARK = QMARK
  NULL = NULL
  MaxStr = 4
  IntValues <- MCIntValues
  MaxPixels = 10
  MemBytes <- MCMemBytes
  Bytes = {0, 90, 255}
  MaxCopy = 70
  NumChars = {" ", "-", "+", "1", "7", "9", "f", "F", "z"}
  LongNums <- MCLongNums
  LevelEntries <- MCLevelEntries
  ScanChars = {"1", "a", "-", ",", " "}
  Formats <- MCFormats
  LayoutParams <- MCLayoutParams
  LayoutSizes = {9, 20}
  KidSizes = {3, 5}
  MaxKids = 5
  JsonScalars <- MCJsonScalars
  JsonNames <- MCJsonNames
  JsonComments <- MCJsonComments
  Chars = {a, CR, LF}
  CR = CR
  LF = LF
  Junk = Junk
  W = 4
  HeapLimit = 5
  MaxCap = 4
  RemoveCounts <- MCWStrRemoveCounts
  NullNormalize = FALSE
SPECIFICATION UtilsOnlySpec
INVARIANT
  MergesortSortsStably
