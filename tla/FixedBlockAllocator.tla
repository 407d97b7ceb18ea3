------------------------- MODULE FixedBlockAllocator -------------------------
(***************************************************************************)
(* The fixed-block allocator of src/src/tkc/mem_allocator_fixed_block.c    *)
(* together with the client that calls it.                                *)
(*                                                                         *)
(* The allocator struct is the record variable `allocator`:                *)
(*   pools         the pool chain (pool->next), head first;                *)
(*   num           pool->num, 0 for an address that holds no pool;        *)
(*   used_units,   heads of each pool's two intrusive unit lists;         *)
(*   unused_units                                                          *)
(*   next, prev    the link fields of every unit.                          *)
(* A pool is a heap address from PoolIds; its units are the pairs          *)
(* <<pool, index>>, which are also the block addresses the client gets.    *)
(* Link fields of units outside any live pool buffer are kept at NULL:     *)
(* nothing reads them before pool_init writes them again.                  *)
(*                                                                         *)
(* Each helper below translates one C function (or one block of one) as  *)
(* a map from allocator record to allocator record, composed in the order *)
(* the C code runs them, so that every pointer store is seen by the reads *)
(* after it.                                                               *)
(***************************************************************************)
EXTENDS Naturals, FiniteSets, Sequences, SequencesExt

CONSTANTS
  PoolIds,        \* addresses TKMEM_ALLOC / TKMEM_REALLOC may return
  NULL,           \* the null pointer
  Foreign,        \* an address inside no pool of this allocator
  InitialNum,     \* num argument of mem_allocator_fixed_block_create
  MaxLive,        \* bound: blocks the client holds at once
  HeapMayFail,    \* TKMEM_ALLOC of a new pool may return NULL
  ReallocMayFail, \* TKMEM_REALLOC in pools_merge may return NULL
  ClientMisuse    \* the client may pass addresses it does not hold

ASSUME InitialNum \in Nat /\ MaxLive \in Nat \ {0}
ASSUME Cardinality(PoolIds) >= MaxLive
ASSUME {HeapMayFail, ReallocMayFail, ClientMisuse} \subseteq BOOLEAN

(* A "fault variant" precedes some helpers: what one plausible slip in    *)
(* the C code would compute instead.  Each property of the passing runs   *)
(* is confirmed to fail when such a variant replaces its helper.           *)

(* Fault variant of NumExtend: the "+ 1" dropped.                          *)
NumExtendNoIncrement(n) == (n \div 2) + n

(* MEM_ALLOCATOR_FIXED_BLOCK_NUM_EXTEND: the new total capacity.           *)
NumExtend(n) == (n \div 2) + n + 1

(* No pool ever holds more units than the largest capacity reachable:      *)
(* the initial pool, or an extension from a capacity below MaxLive.        *)
MaxUnits == Max({InitialNum} \cup {NumExtend(c) : c \in 0 .. MaxLive - 1})

Units == PoolIds \X (0 .. MaxUnits - 1)
Link == Units \cup {NULL}

(* The size argument of alloc/realloc: the allocator's size or another.    *)
SizeArgs == {"item", "other"}
HeapResults == IF HeapMayFail THEN {"ok", "failed"} ELSE {"ok"}
ReallocResults == IF ReallocMayFail THEN {"ok", "failed"} ELSE {"ok"}

VARIABLES
  allocator,   \* the mem_allocator_fixed_block_t and its pools
  held,        \* block addresses the client holds (returned, not freed)
  ret,         \* the last call: its arguments, result, ret_t and heap outcome
  alive        \* FALSE after mem_allocator_fixed_block_destroy

vars == <<allocator, held, ret, alive>>

-----------------------------------------------------------------------------
(* Queries over the chain (lines 87-153).                                  *)

InChain(s) == ToSet(s.pools)
PoolIsFull(s, p) == s.unused_units[p] = NULL
PoolIsEmpty(s, p) == s.used_units[p] = NULL
IsFull(s) == \A p \in InChain(s) : PoolIsFull(s, p)
EmptyPools(s) == {p \in InChain(s) : PoolIsEmpty(s, p)}
BlockNum(s, ps) == MapThenSumSet(LAMBDA p : s.num[p], ps)
Capacity(s) == BlockNum(s, InChain(s))

(* The units reached from head h by next links, cut off after MaxUnits+1  *)
(* steps so that a cyclic list yields an over-long walk.                   *)
RECURSIVE WalkFrom(_, _, _)
WalkFrom(s, h, fuel) ==
  IF h = NULL \/ fuel = 0 THEN <<>> ELSE <<h>> \o WalkFrom(s, s.next[h], fuel - 1)
Walk(s, h) == WalkFrom(s, h, MaxUnits + 1)

UsedUnits(s) == UNION {ToSet(Walk(s, s.used_units[p])) : p \in InChain(s)}

-----------------------------------------------------------------------------
(* mem_allocator_fixed_block_pool_init: chain units 0..num-1 of pool p    *)
(* into its unused list in address order (the branch that appends an      *)
(* existing unused list is dead: every caller clears unused_units first). *)
PoolInit(s, p) ==
  [s EXCEPT
     !.unused_units[p] = <<p, 0>>,
     !.next = [u \in Units |->
                 IF u[1] # p THEN s.next[u]
                 ELSE IF u[2] + 1 < s.num[p] THEN <<p, u[2] + 1>> ELSE NULL],
     !.prev = [u \in Units |->
                 IF u[1] # p THEN s.prev[u]
                 ELSE IF 0 < u[2] /\ u[2] < s.num[p] THEN <<p, u[2] - 1>> ELSE NULL]]

(* mem_allocator_fixed_block_pool_create, after TKMEM_ALLOC returned p.    *)
PoolCreate(s, p, n) ==
  PoolInit([s EXCEPT !.num[p] = n, !.used_units[p] = NULL,
                     !.unused_units[p] = NULL], p)

(* TKMEM_FREE of the pools ps: their memory no longer holds a pool.        *)
Release(s, ps) ==
  [s EXCEPT
     !.num = [p \in PoolIds |-> IF p \in ps THEN 0 ELSE s.num[p]],
     !.used_units = [p \in PoolIds |-> IF p \in ps THEN NULL ELSE s.used_units[p]],
     !.unused_units = [p \in PoolIds |-> IF p \in ps THEN NULL ELSE s.unused_units[p]],
     !.next = [u \in Units |-> IF u[1] \in ps THEN NULL ELSE s.next[u]],
     !.prev = [u \in Units |-> IF u[1] \in ps THEN NULL ELSE s.prev[u]]]

(* Fault variant of PoolsDestroy: only_empty ignored.                      *)
PoolsDestroyAll(s, onlyEmpty) ==
  [Release(s, InChain(s)) EXCEPT !.pools = <<>>]

(* mem_allocator_fixed_block_pools_destroy: free every pool (or every     *)
(* empty one) and relink the rest in their old order.                      *)
PoolsDestroy(s, onlyEmpty) ==
  LET dead == {p \in InChain(s) : ~onlyEmpty \/ PoolIsEmpty(s, p)}
  IN [Release(s, dead) EXCEPT !.pools = SelectSeq(s.pools, LAMBDA q : q \notin dead)]

(* Unlink pool p from the chain and push it at the head.                   *)
MoveToFront(s, p) ==
  [s EXCEPT !.pools = <<p>> \o SelectSeq(s.pools, LAMBDA q : q # p)]

(* The empty pool pools_merge keeps: the first one with the largest num.  *)
MergeTarget(s) ==
  LET big == {p \in EmptyPools(s) : \A q \in EmptyPools(s) : s.num[q] <= s.num[p]}
  IN s.pools[SelectInSeq(s.pools, LAMBDA q : q \in big)]

(* Fault variant of PoolsMerge: the kept pool is never grown.              *)
PoolsMergeNoGrow(s, grown) ==
  LET keep == MergeTarget(s)
      rest == PoolsDestroy([s EXCEPT !.pools = SelectSeq(@, LAMBDA q : q # keep)], TRUE)
  IN [rest EXCEPT !.pools = <<keep>> \o @]

(* mem_allocator_fixed_block_pools_merge: keep the largest empty pool,    *)
(* free the other empty pools, push the kept one at the head and grow it  *)
(* by TKMEM_REALLOC to their total capacity.  When the realloc fails the   *)
(* kept pool stays at the head as it was and RET_OOM is returned.          *)
PoolsMerge(s, grown) ==
  LET keep  == MergeTarget(s)
      total == BlockNum(s, EmptyPools(s))
      rest  == PoolsDestroy([s EXCEPT !.pools = SelectSeq(@, LAMBDA q : q # keep)], TRUE)
      s1    == [rest EXCEPT !.pools = <<keep>> \o @]
  IN IF grown = "ok"
       THEN PoolInit([s1 EXCEPT !.num[keep] = total, !.used_units[keep] = NULL,
                                !.unused_units[keep] = NULL], keep)
       ELSE s1

(* Fault variant of ExtendNum: NUM_EXTEND taken as the size of the new   *)
(* pool rather than the new total.                                         *)
ExtendNumWholeTotal(s) == NumExtend(Capacity(s))

(* mem_allocator_fixed_block_extend when the chain is full: a new pool p  *)
(* of NumExtend(total) - total units pushed at the head.                   *)
ExtendNum(s) == NumExtend(Capacity(s)) - Capacity(s)
Extend(s, p) ==
  [PoolCreate(s, p, ExtendNum(s)) EXCEPT !.pools = <<p>> \o s.pools]

(* The scan of mem_allocator_fixed_block_allocate: first non-full pool.   *)
FirstNonFull(s) == SelectInSeq(s.pools, LAMBDA q : ~PoolIsFull(s, q))

(* Fault variant of Take: the unused head is not advanced.                 *)
TakeKeepsHead(s, p) ==
  LET u  == s.unused_units[p]
      s3 == [s EXCEPT !.next[u] = s.used_units[p]]
      s4 == IF s3.used_units[p] # NULL
              THEN [s3 EXCEPT !.prev[s3.used_units[p]] = u] ELSE s3
  IN [s4 EXCEPT !.used_units[p] = u]

(* Move the head unit of p's unused list to the head of its used list.    *)
Take(s, p) ==
  LET u  == s.unused_units[p]
      s1 == [s EXCEPT !.unused_units[p] = s.next[u]]
      s2 == IF s1.unused_units[p] # NULL
              THEN [s1 EXCEPT !.prev[s1.unused_units[p]] = NULL] ELSE s1
      s3 == [s2 EXCEPT !.next[u] = s2.used_units[p]]
      s4 == IF s3.used_units[p] # NULL
              THEN [s3 EXCEPT !.prev[s3.used_units[p]] = u] ELSE s3
  IN [s4 EXCEPT !.used_units[p] = u]

(* Hot-pool promotion after an allocation from p.                          *)
PromoteAfterAlloc(s, p) ==
  IF s.pools[1] # p /\ ~PoolIsFull(s, p) THEN MoveToFront(s, p) ELSE s

(* mem_allocator_fixed_block_unit_find: ptr lies on a unit boundary of a  *)
(* pool in the chain (pools' unit arrays do not overlap).                  *)
Found(s, ptr) == ptr \in Units /\ ptr[1] \in InChain(s) /\ ptr[2] < s.num[ptr[1]]

(* Fault variant of Detach: the used head is not advanced.                 *)
DetachKeepsHead(s, p, u) == s

(* Deallocate, first step: advance the used head past the unit.           *)
Detach(s, p, u) ==
  IF s.used_units[p] = u THEN [s EXCEPT !.used_units[p] = s.next[u]] ELSE s

(* Fault variant of MergeNeeded: merge only at three empty pools.          *)
MergeNeededLate(s, p) == PoolIsEmpty(s, p) /\ Cardinality(EmptyPools(s)) > 2

(* The merge trigger of deallocate.                                        *)
MergeNeeded(s, p) == PoolIsEmpty(s, p) /\ Cardinality(EmptyPools(s)) > 1

(* Fault variant of Recycle: the successor's prev is not updated.          *)
RecycleNoBackLink(s, p, u) ==
  LET s1 == IF s.prev[u] # NULL THEN [s EXCEPT !.next[s.prev[u]] = s.next[u]] ELSE s
      s3 == [s1 EXCEPT !.prev[u] = NULL, !.next[u] = s1.unused_units[p]]
      s4 == IF s3.unused_units[p] # NULL
              THEN [s3 EXCEPT !.prev[s3.unused_units[p]] = u] ELSE s3
  IN [s4 EXCEPT !.unused_units[p] = u]

(* Deallocate, local path: unlink u from its neighbours and push it on    *)
(* p's unused list.                                                        *)
Recycle(s, p, u) ==
  LET s1 == IF s.prev[u] # NULL THEN [s EXCEPT !.next[s.prev[u]] = s.next[u]] ELSE s
      s2 == IF s1.next[u] # NULL THEN [s1 EXCEPT !.prev[s1.next[u]] = s1.prev[u]] ELSE s1
      s3 == [s2 EXCEPT !.prev[u] = NULL, !.next[u] = s2.unused_units[p]]
      s4 == IF s3.unused_units[p] # NULL
              THEN [s3 EXCEPT !.prev[s3.unused_units[p]] = u] ELSE s3
  IN [s4 EXCEPT !.unused_units[p] = u]

(* Full-pool promotion after a free into p.                                *)
PromoteAfterFree(s, p) ==
  IF s.pools[1] # p /\ PoolIsFull(s, s.pools[1]) THEN MoveToFront(s, p) ELSE s

(* mem_allocator_fixed_block_deallocate of a unit that unit_find found.   *)
Deallocate(s, u, grown) ==
  LET p  == u[1]
      s1 == Detach(s, p, u)
  IN IF MergeNeeded(s1, p) THEN PoolsMerge(s1, grown)
     ELSE PromoteAfterFree(Recycle(s1, p, u), p)

-----------------------------------------------------------------------------
(* The client's calls.                                                     *)

EmptyAllocator ==
  [pools |-> <<>>, num |-> [p \in PoolIds |-> 0],
   used_units |-> [p \in PoolIds |-> NULL], unused_units |-> [p \in PoolIds |-> NULL],
   next |-> [u \in Units |-> NULL], prev |-> [u \in Units |-> NULL]]

(* A call's record: pointer and size arguments, returned pointer, the    *)
(* ret_t of the code path taken, and whether a heap call failed in it.    *)
Result(call, ptr, size, val, code, heap) ==
  [call |-> call, ptr |-> ptr, size |-> size, val |-> val, code |-> code, heap |-> heap]

(* mem_allocator_fixed_block_create(size, InitialNum) that succeeded.      *)
Init ==
  /\ \/ InitialNum = 0 /\ allocator = EmptyAllocator
     \/ InitialNum > 0 /\ \E p \in PoolIds :
          allocator = [PoolCreate(EmptyAllocator, p, InitialNum) EXCEPT !.pools = <<p>>]
  /\ held = {}
  /\ ret = Result("create", NULL, "none", NULL, "ok", "ok")
  /\ alive = TRUE


(* Hand out the first non-full pool's head unit (allocate after extend).  *)
Grant(s, sz) ==
  LET i == FirstNonFull(s)
      p == s.pools[i]
  IN IF i = 0
       THEN /\ ret' = Result("alloc", NULL, sz, NULL, "ok", "ok")
            /\ UNCHANGED <<allocator, held>>
       ELSE /\ allocator' = PromoteAfterAlloc(Take(s, p), p)
            /\ held' = held \cup {s.unused_units[p]}
            /\ ret' = Result("alloc", NULL, sz, s.unused_units[p], "ok", "ok")

CanCall == alive /\ Cardinality(held) < MaxLive

(* alloc (and realloc with a NULL pointer) of a size that is not the      *)
(* allocator's: BadParams, NULL.                                           *)
AllocBadSize ==
  /\ CanCall
  /\ ret' = Result("alloc", NULL, "other", NULL, "bad_params", "ok")
  /\ UNCHANGED <<allocator, held, alive>>

(* alloc when some pool has a free unit: extend does nothing.              *)
AllocFromPool ==
  /\ CanCall
  /\ ~IsFull(allocator)
  /\ Grant(allocator, "item")
  /\ UNCHANGED alive

(* alloc when every pool is full: a new pool at a fresh address first.     *)
AllocExtend ==
  /\ CanCall
  /\ IsFull(allocator)
  /\ ExtendNum(allocator) > 0
  /\ \E p \in PoolIds \ InChain(allocator) : Grant(Extend(allocator, p), "item")
  /\ UNCHANGED alive

(* alloc when every pool is full and pool_create returns NULL: the heap   *)
(* failed, or it was asked for 0 units.  Nothing is linked; NULL.          *)
AllocExtendFails ==
  /\ CanCall
  /\ IsFull(allocator)
  /\ \E h \in HeapResults :
       /\ h = "failed" \/ ExtendNum(allocator) = 0
       /\ ret' = Result("alloc", NULL, "item", NULL, "oom", h)
  /\ UNCHANGED <<allocator, held, alive>>

(* Addresses the client may pass to free and realloc.                      *)
Passable == held \cup {Foreign} \cup (IF ClientMisuse THEN Units \ held ELSE {})

(* free of a pointer unit_find accepts.                                    *)
Free ==
  /\ alive
  /\ \E ptr \in Passable, g \in ReallocResults :
       /\ Found(allocator, ptr)
       /\ allocator' = Deallocate(allocator, ptr, g)
       /\ held' = held \ {ptr}
       /\ ret' = Result("free", ptr, "none", NULL, "ok", g)
  /\ UNCHANGED alive

(* free(NULL) returns at once; free of a pointer unit_find rejects        *)
(* returns RET_NOT_FOUND; neither touches the allocator.                   *)
FreeRejected ==
  /\ alive
  /\ \E ptr \in Passable \cup {NULL} :
       /\ ~Found(allocator, ptr)
       /\ ret' = Result("free", ptr, "none", NULL,
                         IF ptr = NULL THEN "ok" ELSE "not_found", "ok")
  /\ UNCHANGED <<allocator, held, alive>>

(* realloc of a non-NULL pointer: the same pointer back if the size is    *)
(* the allocator's and unit_find accepts the pointer, NULL otherwise.      *)
Realloc ==
  /\ alive
  /\ \E ptr \in Passable, sz \in SizeArgs :
       ret' = IF sz # "item"
                THEN Result("realloc", ptr, sz, NULL, "bad_params", "ok")
                ELSE IF Found(allocator, ptr)
                THEN Result("realloc", ptr, sz, ptr, "ok", "ok")
                ELSE Result("realloc", ptr, sz, NULL, "not_found", "ok")
  /\ UNCHANGED <<allocator, held, alive>>

(* mem_allocator_fixed_block_destroy: free every pool, then the struct.   *)
Destroy ==
  /\ alive
  /\ allocator' = PoolsDestroy(allocator, FALSE)
  /\ held' = {}
  /\ ret' = Result("destroy", NULL, "none", NULL, "ok", "ok")
  /\ alive' = FALSE

Next ==
  \/ AllocBadSize \/ AllocFromPool \/ AllocExtend \/ AllocExtendFails
  \/ Free \/ FreeRejected \/ Realloc \/ Destroy

Spec == Init /\ [][Next]_vars

-----------------------------------------------------------------------------
(* Properties.                                                             *)

UnitsOf(s, p) == {p} \X (0 .. s.num[p] - 1)

TypeOK ==
  /\ allocator \in [pools : Seq(PoolIds), num : [PoolIds -> 0 .. MaxUnits],
                    used_units : [PoolIds -> Link], unused_units : [PoolIds -> Link],
                    next : [Units -> Link], prev : [Units -> Link]]
  /\ held \subseteq Units
  /\ ret \in [call : {"create", "alloc", "free", "realloc", "destroy"},
             ptr : Link \cup {Foreign}, size : SizeArgs \cup {"none"}, val : Link,
             code : {"ok", "not_found", "bad_params", "oom"}, heap : {"ok", "failed"}]
  /\ alive \in BOOLEAN

(* A walk is a well-linked list: it ends at NULL without a cycle, its head *)
(* has no prev, and every other unit's prev is the unit before it.         *)
Linked(s, w) ==
  /\ Len(w) <= MaxUnits
  /\ w # <<>> => s.prev[w[1]] = NULL
  /\ \A i \in 2 .. Len(w) : s.prev[w[i]] = w[i - 1]

(* The pool chain holds each pool once, and every unit of every pool is on *)
(* exactly one of its pool's two lists, both doubly linked without cycles. *)
(* This is what allocate's and deallocate's pointer splices, the merge's   *)
(* re-initialisation and the promotions must all preserve.                 *)
WellFormed ==
  LET s == allocator
  IN /\ IsInjective(s.pools)
     /\ \A p \in InChain(s) :
          LET U == Walk(s, s.used_units[p])
              F == Walk(s, s.unused_units[p])
          IN /\ s.num[p] > 0
             /\ Linked(s, U) /\ Linked(s, F)
             /\ ToSet(U) \cap ToSet(F) = {}
             /\ ToSet(U) \cup ToSet(F) = UnitsOf(s, p)

(* The blocks on the allocator's used lists are exactly the blocks the     *)
(* client holds: no free leaves a block on a used list, no merge or        *)
(* promotion drops one the client still holds.                             *)
HeldAreUsed == alive => held = UsedUnits(allocator)

(* After every call at most one pool is empty: the merge in deallocate    *)
(* (trigger at more than one empty pool) bounds the chain.                 *)
AtMostOneEmptyPool == Cardinality(EmptyPools(allocator)) <= 1

(* alloc of the allocator's size returns NULL only when the heap failed:  *)
(* extend always leaves a pool with a free unit.                           *)
AllocFailsOnlyOnHeapFailure ==
  ret.call = "alloc" /\ ret.size = "item" /\ ret.val = NULL => ret.heap = "failed"

(* alloc never returns a block the client already holds.                   *)
NoAliasing ==
  [][ret'.call = "alloc" /\ ret'.val \in Units => ret'.val \notin held]_vars

(* A free, merging or not, leaves the total capacity of the chain as it   *)
(* was: merge re-creates exactly the units of the pools it frees.          *)
FreeKeepsCapacity ==
  [][ret'.call = "free" => Capacity(allocator') = Capacity(allocator)]_vars

(* The allocator implements BlockAllocator, its used units being the live *)
(* blocks: each call adds one unit that was not in use, removes one, or   *)
(* leaves the used units alone.                                            *)
Abstract == INSTANCE BlockAllocator
              WITH Handles <- Units, live <- UsedUnits(allocator), alive <- alive
ImplementsBlockAllocator == Abstract!Spec

(* spec.md 4.6: realloc of a non-NULL pointer returns it only when it is a *)
(* currently allocated unit.                                               *)
ReallocValidatesOwnership ==
  ret.call = "realloc" /\ ret.val # NULL => ret.val \in held

=============================================================================
