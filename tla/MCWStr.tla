------------------------------- MODULE MCWStr -------------------------------
(* Model values and bounds for checking WStr.                              *)
EXTENDS WStr

\* wstr_remove with 1 and with the largest uint32 ("everything from here").
MCRemoveCountsMax == {1, 2^W - 1}
====
