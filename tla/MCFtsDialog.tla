----------------------------- MODULE MCFtsDialog -----------------------------
(* Two dictionaries that share a headword but for its case: the order in which *)
(* their answers are merged decides whether the two become one entry.          *)
EXTENDS FtsDialog

MCHits == <<<<"b", "a">>, <<"A">>>>
MCRank == [a |-> 1, A |-> 2, b |-> 3]
MCFold == [a |-> "a", A |-> "a", b |-> "b"]
=============================================================================
