--------------------------- MODULE MCFtsIndexing ---------------------------
(***************************************************************************)
(* Two dictionaries, of which the first in the list is big.                *)
(***************************************************************************)
EXTENDS FtsIndexing

MCList == <<"big", "small">>
MCDicts == {"big", "small"}
=============================================================================
