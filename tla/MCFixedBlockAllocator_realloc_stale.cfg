\* Allocator created empty (create(size, 0)); the client holds up to 4
\* blocks, so the chain grows 0 -> 1 -> 2 -> 4 units over three pools and
\* merges happen among pools of sizes 1, 1 and 2.  New pools may fail to be
\* allocated; merge's realloc is taken to succeed (see merge_oom).
CONSTANTS
  PoolIds = {pa, pb, pc, pd}
  NULL = NULL
  Foreign = Foreign
  InitialNum = 0
  MaxLive = 4
  HeapMayFail = TRUE
  ReallocMayFail = FALSE
  ClientMisuse = TRUE
SYMMETRY PoolSymmetry
SPECIFICATION Spec
INVARIANT ReallocValidatesOwnership
CHECK_DEADLOCK FALSE
