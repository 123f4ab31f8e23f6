---------------------------- MODULE MCWordFinder ----------------------------
(***************************************************************************)
(* Small instances of WordFinder.  "A" and "a" differ in case only; "ab"   *)
(* continues "a".                                                          *)
(***************************************************************************)
EXTENDS WordFinder

MCWords == {"a", "A", "ab"}
MCFold == [w \in MCWords |-> IF w = "ab" THEN "ab" ELSE "a"]
MCRank == [t \in SearchTypes |-> [w \in MCWords |-> IF w = "ab" THEN 2 ELSE 1]]
MCLimit == [t \in SearchTypes |-> IF t = "StemmedMatch" THEN 1 ELSE 2]
MCPrefixed == {"ab"}
MCWritings == {}

Hit(w, s) == [word |-> w, suggested |-> s]
Reply(ms, e, u) == [matches |-> ms, error |-> e, uncertain |-> u]

MCAnswers ==
    {Reply({Hit("A", FALSE)}, FALSE, FALSE),
     Reply({Hit("a", TRUE), Hit("ab", TRUE)}, FALSE, TRUE),
     Reply({}, TRUE, FALSE)}

FewAnswers ==
    {Reply({Hit("a", TRUE)}, FALSE, FALSE), Reply({}, FALSE, FALSE)}
=============================================================================
