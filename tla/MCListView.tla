----------------------------- MODULE MCListView -----------------------------
(***************************************************************************)
(* TLC instance of the list view alone: two scroll views and three scroll  *)
(* bars, each added once and destroyed at most once, with list_view_reinit *)
(* at any time.                                                            *)
(***************************************************************************)
EXTENDS ListView
=============================================================================
