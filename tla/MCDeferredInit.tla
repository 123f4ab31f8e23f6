--------------------------- MODULE MCDeferredInit ---------------------------
(* Two requests, the GUI thread and the runnable; the parts in the order in *)
(* which dsl.cc opens them.                                                 *)
EXTENDS DeferredInit, TLC

CONSTANTS u1, u2
MCUsers == {u1, u2}
MCSymmetry == Permutations(MCUsers)
=============================================================================
