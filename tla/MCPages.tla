------------------------------ MODULE MCPages ------------------------------
(* TLC instance of Pages: the constants are given in the .cfg files.       *)
EXTENDS Pages, TLC

PageSymmetry == Permutations(PageIds)
=============================================================================
