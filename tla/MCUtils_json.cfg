\* conf_doc_save_json(_ex) and conf_doc_load_json on every JSON document of
\* up to two members, each a simple value or a container of at most one:
\* integers -1 and INT_MAX, both booleans, strings with a quote and with a
\* backslash, member names a, '\' and '"', written at both indents and read
\* after each kind of comment.  The other constants are those of MCUtils.cfg.
CONSTANTS
  Keys = {1, 2, 3}
  MaxLen = 6
  MergeAllocMayFail = FALSE
  Letters = {a, b}
  NUL = NUL
  STAR = STAR
  QMARK = QMARK
  NULL = NULL
  MaxStr = 4
  IntValues <- MCIntValues
  MaxPixels = 10
  MemBytes <- MCMemBytes
  Bytes = {0, 90, 255}
  MaxCopy = 70
  NumChars = {" ", "-", "+", "1", "7", "9", "f", "F", "z"}
  LongNums <- MCLongNums
  LevelEntries <- MCLevelEntries
  ScanChars = {"1", "a", "-", ",", " "}
  Formats <- MCFormats
  LayoutParams <- MCLayoutParams
  LayoutSizes = {9, 20}
  KidSizes = {3, 5}
  MaxKids = 5
  JsonScalars <- MCJsonScalars
  JsonNames <- MCJsonNames
  JsonComments <- MCJsonComments
  Chars = {a, CR, LF}
  CR = CR
  LF = LF
  Junk = Junk
  W = 4
  HeapLimit = 5
  MaxCap = 4
  RemoveCounts <- MCWStrRemoveCounts
  NullNormalize = FALSE
SPECIFICATION JsonOnlySpec
INVARIANT JsonLoadsSaved
