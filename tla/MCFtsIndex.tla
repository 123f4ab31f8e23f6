----------------------------- MODULE MCFtsIndex -----------------------------
(***************************************************************************)
(* Instances of FtsIndex: a dictionary that indexes its articles in        *)
(* increasing order (the default), and one in the order of their clusters  *)
(* (zim, slob).                                                            *)
(***************************************************************************)
EXTENDS FtsIndex

Ascending == <<0, 4, 7>>
ByCluster == <<4, 0, 7>>
=============================================================================
