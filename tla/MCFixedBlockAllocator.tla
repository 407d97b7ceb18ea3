------------------------ MODULE MCFixedBlockAllocator ------------------------
(***************************************************************************)
(* FixedBlockAllocator instantiated for TLC.  Pool addresses are model     *)
(* values and interchangeable: nothing in the allocator compares or orders *)
(* two addresses, so permuting them is a sound symmetry.                   *)
(***************************************************************************)
EXTENDS FixedBlockAllocator, TLC

PoolSymmetry == Permutations(PoolIds)
=============================================================================
