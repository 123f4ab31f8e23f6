--------------------------- MODULE MCBtreeSearch ---------------------------
(***************************************************************************)
(* The words of up to three letters over two, in alphabetical order; every *)
(* selection of six of them as index, and larger ones; nodes of two        *)
(* elements, so that trees have up to three levels.  Every word is in its  *)
(* own chain and, as a middle match, in that of another.                   *)
(***************************************************************************)
EXTENDS BtreeSearch

Spelling ==
    <<<<>>, <<1>>, <<1, 1>>, <<1, 1, 1>>, <<1, 1, 2>>, <<1, 2>>, <<1, 2, 1>>, <<1, 2, 2>>,
      <<2>>, <<2, 1>>, <<2, 1, 1>>, <<2, 1, 2>>, <<2, 2>>, <<2, 2, 1>>, <<2, 2, 2>>>>

MCFolded == [r \in 0 .. 14 |-> Spelling[r + 1]]

Entry(w, m, a) == [word |-> w, middle |-> m, alias |-> a]

MCChains ==
    [k \in 1 .. 14 |-> <<Entry(k, FALSE, FALSE), Entry(((5 * k) % 14) + 1, TRUE, TRUE)>>]

Sorted(S) == SelectSeq([i \in 1 .. 14 |-> i], LAMBDA i : i \in S)

MCIndexes ==
    {Sorted(S) : S \in SUBSET {1, 2, 4, 5, 7, 8}}
    \cup {Sorted(1 .. 14), Sorted({2, 3, 4, 6, 7, 9, 10, 13}), Sorted({3, 4, 6, 10, 12, 14})}

MCTargets == DOMAIN MCFolded

Kind(minLength, variation, middle, max, pattern, articles) ==
    [minLength |-> minLength, maxSuffixVariation |-> variation, allowMiddleMatches |-> middle,
     maxResults |-> max, pattern |-> pattern, articles |-> articles]

MCSearches ==
    {Kind(0, -1, TRUE, 3, {}, FALSE), Kind(0, -1, TRUE, 20, {}, FALSE),
     Kind(0, 2, FALSE, 2, {}, FALSE), Kind(1, 1, FALSE, 20, {}, FALSE),
     Kind(0, -1, TRUE, 20, {2, 4, 8, 11}, FALSE), Kind(0, -1, TRUE, 20, {}, TRUE)}
=============================================================================
