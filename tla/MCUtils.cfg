\* Arrays of up to six elements over three keys (duplicates and every
\* partition shape); strings of up to four characters over two letters;
\* fills of up to ten pixels from each alignment, so that a 16-byte block
\* of memset16 and a 12-byte group of memset24 follow an unaligned start;
\* bit buffers of one and two bytes with indices past their end.  The wide
\* string: up to four elements of capacity and a heap granting five, the
\* characters a, '\r' and '\n', removes of one and two, a 4-bit uint32.
CONSTANTS
  Keys = {1, 2, 3}
  MaxLen = 6
  MergeAllocMayFail = FALSE
  Letters = {a, b}
  NUL = NUL
  STAR = STAR
  QMARK = QMARK
  NULL = NULL
  MaxStr = 4
  IntValues <- MCIntValues
  MaxPixels = 10
  MemBytes <- MCMemBytes
  Bytes = {0, 90, 255}
  MaxCopy = 70
  NumChars = {" ", "-", "+", "1", "7", "9", "f", "F", "z"}
  LongNums <- MCLongNums
  LevelEntries <- MCLevelEntries
  ScanChars = {"1", "a", "-", ",", " "}
  Formats <- MCFormats
  LayoutParams <- MCLayoutParams
  LayoutSizes = {9, 20}
  KidSizes = {3, 5}
  MaxKids = 5
  JsonScalars <- MCJsonScalars
  JsonNames <- MCJsonNames
  JsonComments <- MCJsonComments
  Chars = {a, CR, LF}
  CR = CR
  LF = LF
  Junk = Junk
  W = 4
  HeapLimit = 5
  MaxCap = 4
  RemoveCounts <- MCWStrRemoveCounts
  NullNormalize = FALSE
SPECIFICATION UtilsWStrSpec
INVARIANTS
  QsortSorts
  MergesortSortsStably
  BsearchFinds
  WildcardPrefixPatterns
  MemsetFillsExactly
  BitsStreamSemantics
  BitsRoundTrip
  MemcpyCopies
  TrimStrips
  AppendFits
  StrncpySTruncates
  LevelizeFindsLevel
  StrtolParses
  SscanfAgreesWithScanf
  BoxLayoutTiles
  GridCellsDisjoint
  MemorySafe
  WellFormed
PROPERTIES
  TextSemantics
