--------------------------- MODULE BlockAllocator ---------------------------
(***************************************************************************)
(* What a fixed-size block allocator promises its client, with pools,      *)
(* lists and addresses abstracted away: a set of blocks handed out and not *)
(* yet returned.  An allocation hands out one block that is not live, a    *)
(* free takes back exactly one live block, destroy ends the allocator.  A  *)
(* call that fails or changes nothing the client can see is a stutter.     *)
(***************************************************************************)
CONSTANT Handles          \* every block address the allocator can hand out

VARIABLES live,           \* blocks handed out and not yet freed
          alive           \* FALSE once the allocator has been destroyed

vars == <<live, alive>>

Init == live = {} /\ alive = TRUE

Alloc == /\ alive
         /\ \E h \in Handles \ live : live' = live \cup {h}
         /\ UNCHANGED alive

Free == /\ alive
        /\ \E h \in live : live' = live \ {h}
        /\ UNCHANGED alive

Destroy == /\ alive
           /\ alive' = FALSE
           /\ live' = {}

Next == Alloc \/ Free \/ Destroy

Spec == Init /\ [][Next]_vars
=============================================================================
