--------------------------- MODULE SearchResults ---------------------------
(***************************************************************************)
(* The result list of a search: the duplicate merging and the cut-off of   *)
(* WordFinder::updateResults() (src/src/wordfinder.cc).                    *)
(*                                                                         *)
(* Dictionaries answer with matches (a word and a weight).  Words that     *)
(* differ in case only share one entry of resultsArray, found through      *)
(* resultsIndex by the case-folded word.  A word is a member of Words and  *)
(* Fold[w] is its folded form (Folding::applySimpleCaseOnly), itself a     *)
(* word.  The ranking of words by category or by common prefix is the      *)
(* constant Rank; the module keeps what decides which entries exist, what  *)
(* they say and which of them are shown.                                   *)
(***************************************************************************)
EXTENDS Integers, FiniteSets

CONSTANTS
    Words,      \* the words dictionaries answer with
    Fold,       \* Folding::applySimpleCaseOnly
    Rank,       \* position of a folded word in the sorted list, per search type
    Limit,      \* maxSearchResults, per search type
    Prefixed,   \* folded words that begin with the searched expression
    Writings    \* folded words that are an alternate writing of it

SearchTypes == {"PrefixMatch", "StemmedMatch", "ExpressionMatch"}

ASSUME FoldAssumption ==
    /\ Fold \in [Words -> Words]
    /\ \A w \in Words : Fold[Fold[w]] = Fold[w]

ASSUME RankAssumption ==
    /\ Rank \in [SearchTypes -> [Words -> Int]]
    /\ Limit \in [SearchTypes -> Nat \ {0}]
    /\ Prefixed \subseteq Words
    /\ Writings \subseteq Words

Keys == {Fold[w] : w \in Words}

\* One WordMatch; suggested stands for "weight # 0".
Match == [word : Words, suggested : BOOLEAN]

\* One OneResult of resultsArray; its rank is Rank of its key.
Entry == [word : Words, wasSuggested : BOOLEAN]

\* resultsArray together with resultsIndex.
ResultsTables == UNION {[K -> Entry] : K \in SUBSET Keys}

NoResults == [k \in {} |-> [word |-> k, wasSuggested |-> FALSE]]

(***************************************************************************)
(* ExpressionMatch keeps a match only if it continues the expression       *)
(* (weight 0) or equals one of its writings (weight # 0).                  *)
(***************************************************************************)
Kept(type, m) ==
    type = "ExpressionMatch" => Fold[m.word] \in Prefixed \cup Writings

Weighed(type, m) ==
    IF type = "ExpressionMatch"
    THEN [m EXCEPT !.suggested = Fold[m.word] \notin Prefixed]
    ELSE m

Usable(type, ms) == {Weighed(type, m) : m \in {x \in ms : Kept(type, x)}}

(***************************************************************************)
(* The body of the loop over the matches, for one match.                   *)
(***************************************************************************)
InsertMatch(table, m) ==
    LET k == Fold[m.word]
    IN  [x \in DOMAIN table \cup {k} |->
            IF x # k THEN table[x]
            ELSE IF k \in DOMAIN table
            THEN [word |-> IF table[k].word = m.word THEN m.word ELSE k,
                  wasSuggested |-> table[k].wasSuggested /\ m.suggested]
            ELSE [word |-> m.word, wasSuggested |-> m.suggested]]

(***************************************************************************)
(* What the loop makes of a set of matches, said without an order: the     *)
(* entry of a key has the word all its matches agree on, or else the       *)
(* folded word, and is a suggestion if all of them are.                    *)
(***************************************************************************)
\* Mutant: the index is keyed by the word as it is.
MergedUnfolded(ms) ==
    [k \in {m.word : m \in ms} |->
        [word |-> k, wasSuggested |-> \A m \in ms : m.word = k => m.suggested]]

Merged(ms) ==
    [k \in {Fold[m.word] : m \in ms} |->
        LET same == {m \in ms : Fold[m.word] = k}
        IN  [word |-> IF \E w \in Words : \A m \in same : m.word = w
                      THEN CHOOSE w \in Words : \A m \in same : m.word = w
                      ELSE k,
             wasSuggested |-> \A m \in same : m.suggested]]

(***************************************************************************)
(* The loop run over further matches, those of `fresh` = Merged(ms).       *)
(***************************************************************************)
\* Mutant: later matches replace the entry.
JoinedReplaces(table, fresh) ==
    [k \in DOMAIN table \cup DOMAIN fresh |->
        IF k \in DOMAIN fresh THEN fresh[k] ELSE table[k]]

Joined(table, fresh) ==
    [k \in DOMAIN table \cup DOMAIN fresh |->
        IF k \notin DOMAIN fresh THEN table[k]
        ELSE IF k \notin DOMAIN table THEN fresh[k]
        ELSE [word |-> IF table[k].word = fresh[k].word THEN fresh[k].word ELSE k,
              wasSuggested |-> table[k].wasSuggested /\ fresh[k].wasSuggested]]

(***************************************************************************)
(* Sorting and filling searchResults: at most Limit entries; a sorted list *)
(* drops the worst ranked ones, an expression search is not sorted and     *)
(* drops those that came last, that is, any.                               *)
(***************************************************************************)
Shown(table, type) ==
    {S \in SUBSET DOMAIN table :
        /\ Cardinality(S) <= Limit[type]
        /\ S = DOMAIN table \/ Cardinality(S) = Limit[type]
        /\ type # "ExpressionMatch" =>
              \A j \in S, k \in DOMAIN table \ S : Rank[type][j] <= Rank[type][k]}

=============================================================================
