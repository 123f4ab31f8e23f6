---------------------------- MODULE MCNetReplies ----------------------------
(* Two requests at a time: two of one manager, each asking for several replies, *)
(* and each kind beside the one that may take its replies for its own.          *)
EXTENDS NetReplies

LOCAL Asks(k, n) == [kind |-> k, words |-> n]

MCSessions == {<<Asks("MediaWiki", 2), Asks("LinguaLibre", 1)>>,
               <<Asks("Forvo", 2), Asks("MediaWiki", 1)>>,
               <<Asks("Download", 1), Asks("Download", 1)>>}
=============================================================================
