---------------------------- MODULE MCDictServer ----------------------------
(***************************************************************************)
(* Two databases and two strategies.  Two articles, or words of which one  *)
(* is found twice, and one more than the limit.                            *)
(***************************************************************************)
EXTENDS DictServer

MCAnswers == {<<>>, <<"b", "a">>, <<"a", "c">>}
=============================================================================
