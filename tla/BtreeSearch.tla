---------------------------- MODULE BtreeSearch ----------------------------
(***************************************************************************)
(* The searches made with the index of a dictionary (src/src/btreeidx.cc): *)
(* BtreeWordSearchRequest::findMatches(), which looks a word up            *)
(* (BtreeLookup) and walks over the chains that follow as long as they     *)
(* begin with it, chopping the word if stems are wanted; and               *)
(* BtreeIndex::findArticles(), which takes the chain of exactly the word.  *)
(*                                                                         *)
(* A word is its rank among Folded, which has its letters.  The worker of  *)
(* a request walks; the GUI thread may cancel it at any moment.            *)
(***************************************************************************)
EXTENDS BtreeLookup, FiniteSets, SequencesExt

CONSTANTS
    Letters,    \* by number
    Folded,     \* the letters of the folded words, by rank
    Chains,     \* the chain of each key: entries [word, middle, alias]
    Searches    \* the parameters of the searches

\* The order of the letters is that of std::u32string, and of the UTF-8 in IndexedWords.
Before(s, t) ==
    \E n \in 0 .. Len(s) :
        /\ n < Len(t)
        /\ \A i \in 1 .. n : s[i] = t[i]
        /\ n < Len(s) => s[n + 1] < t[n + 1]

\* Words have their ranks from their order, and every beginning of one is one.
ASSUME FoldedAssumption ==
    /\ Letters \subseteq Nat
    /\ Folded \in [Targets -> Seq(Letters)]
    /\ 0 \in Targets /\ Folded[0] = <<>>
    /\ \A r, s \in Targets : r < s <=> Before(Folded[r], Folded[s])
    /\ \A r \in Targets \ {0} : \E p \in Targets : Folded[p] = Front(Folded[r])
    /\ \A ks \in Indexes : \A i \in DOMAIN ks : ks[i] \in Targets

\* addWord(), addSingleWord(): a word is in the chain of its own folding, and in
\* those of its later parts as a middle match: what comes before it there does not
\* fold to nothing.
ASSUME ChainsAssumption ==
    /\ \A k \in Targets \ {0} : Chains[k] \in Seq([word : Nat, middle : BOOLEAN, alias : BOOLEAN])
    /\ \A k, l \in Targets \ {0} : \A i \in DOMAIN Chains[k], j \in DOMAIN Chains[l] :
           /\ Chains[k][i].word = Chains[l][j].word
           /\ ~Chains[k][i].middle /\ ~Chains[l][j].middle
           => k = l

\* Only a search that allows middle matches looks for wildcards.
ASSUME SearchesAssumption ==
    \A p \in Searches :
        /\ p.minLength \in Nat /\ p.maxSuffixVariation \in Int /\ p.maxResults \in Nat
        /\ p.allowMiddleMatches \in BOOLEAN /\ p.articles \in BOOLEAN
        /\ p.pattern # {} => p.allowMiddleMatches

VARIABLES
    str,                \* the word searched for
    search,             \* its other parameters
    place,              \* where the search is
    charsLeftToChop,
    at,                 \* the chain to be read
    matches,
    isCancelled

searchVars == <<str, search, place, charsLeftToChop, at, matches, isCancelled>>
allVars == <<vars, searchVars>>

SearchInit ==
    /\ Init
    /\ str = target
    /\ search \in Searches
    /\ place = "start"
    /\ charsLeftToChop = 0
    /\ at = None
    /\ matches = <<>>
    /\ isCancelled = FALSE

-----------------------------------------------------------------------------
folded == Folded[target]
initialFoldedSize == Len(Folded[str])

Begins(stem, k) == IsPrefix(stem, Folded[k])

\* Chops that stemmedMatch() allows: none for a prefix or a pattern.
ToChop ==
    LET most == initialFoldedSize - search.minLength
    IN  IF search.maxSuffixVariation < 0 \/ most < 0 THEN 0
        ELSE IF most > search.maxSuffixVariation THEN search.maxSuffixVariation ELSE most

\* Whether entry e of the chain of k is a match.
Takes(k, e) ==
    \/ search.pattern # {} /\ e.word \in search.pattern
    \/ /\ search.pattern = {}
       /\ search.allowMiddleMatches \/ ~e.middle
       /\ \/ search.maxSuffixVariation < 0
          \/ Len(Folded[k]) - initialFoldedSize <= search.maxSuffixVariation

addMatch(ms, w) == IF \E i \in DOMAIN ms : ms[i] = w THEN ms ELSE Append(ms, w)

\* The first m entries of the chain of k.
AddEntries(ms, k, m) ==
    LET added[n \in 0 .. m] ==
            IF n = 0 THEN ms
            ELSE IF Takes(k, Chains[k][n]) THEN addMatch(added[n - 1], Chains[k][n].word)
            ELSE added[n - 1]
    IN  added[m]

AddChain(ms, k) == AddEntries(ms, k, Len(Chains[k]))

\* antialias()
Articles(k) == SelectSeq(Chains[k], LAMBDA e : ~e.alias)

-----------------------------------------------------------------------------
Start ==
    /\ place = "start"
    /\ place' = IF isCancelled THEN "done" ELSE "lookup"
    /\ charsLeftToChop' = ToChop
    /\ UNCHANGED <<vars, str, search, at, matches, isCancelled>>

Lookup ==
    /\ place = "lookup"
    /\ Next
    /\ UNCHANGED searchVars

\* Mutant: a chain the word is only a prefix of is taken too.
FindArticlesOfPrefix ==
    /\ place = "lookup" /\ returned /\ search.articles
    /\ place' = "done"
    /\ matches' = IF chain # None THEN Articles(Key(chain)) ELSE <<>>
    /\ UNCHANGED <<vars, str, search, charsLeftToChop, at, isCancelled>>

FindArticles ==
    /\ place = "lookup" /\ returned /\ search.articles
    /\ place' = "done"
    /\ matches' = IF exactMatch THEN Articles(Key(chain)) ELSE <<>>
    /\ UNCHANGED <<vars, str, search, charsLeftToChop, at, isCancelled>>

StartWalk ==
    /\ place = "lookup" /\ returned /\ ~search.articles
    /\ place' = IF chain = None THEN "chop" ELSE "walk"
    /\ at' = chain
    /\ UNCHANGED <<vars, str, search, charsLeftToChop, matches, isCancelled>>

\* One chain.  The walk goes on in the next leaf when this one is read.
Walk ==
    /\ place = "walk"
    /\ IF ~isCancelled /\ Begins(folded, Key(at))
       THEN /\ matches' = AddChain(matches, Key(at))
            /\ IF Len(matches') >= search.maxResults \/ at + 1 = Total
               THEN place' = "chop" /\ UNCHANGED at
               ELSE at' = at + 1 /\ UNCHANGED place
       ELSE place' = "chop" /\ UNCHANGED <<at, matches>>
    /\ UNCHANGED <<vars, str, search, charsLeftToChop, isCancelled>>

\* The next lookup, from the root.
LookUp(r) ==
    /\ place' = "lookup"
    /\ target' = r
    /\ first' = 0 /\ size' = Total
    /\ window' = 0 /\ windowSize' = Elements(Total)
    /\ returned' = FALSE /\ chain' = None /\ exactMatch' = FALSE
    /\ UNCHANGED <<keys, str, search, at, matches, isCancelled>>

\* Mutant: the shortest stem is looked up at once.
ChopAll ==
    /\ place = "chop" /\ charsLeftToChop # 0 /\ ~isCancelled
    /\ charsLeftToChop' = 0
    /\ LookUp(CHOOSE r \in Targets :
                 Folded[r] = SubSeq(folded, 1, Len(folded) - charsLeftToChop))

\* The word without its last letter.
Chop ==
    /\ place = "chop" /\ charsLeftToChop # 0 /\ ~isCancelled
    /\ charsLeftToChop' = charsLeftToChop - 1
    /\ LookUp(CHOOSE r \in Targets : Folded[r] = Front(folded))

\* Mutant: the last stem is left out.
EndEarly ==
    /\ place = "chop" /\ (charsLeftToChop <= 1 \/ isCancelled)
    /\ place' = "done"
    /\ UNCHANGED <<vars, str, search, charsLeftToChop, at, matches, isCancelled>>

End ==
    /\ place = "chop" /\ (charsLeftToChop = 0 \/ isCancelled)
    /\ place' = "done"
    /\ UNCHANGED <<vars, str, search, charsLeftToChop, at, matches, isCancelled>>

\* A node or a chain cannot be read, or a word of it be decoded: what was found
\* stays found, except by findArticles(), and the request finishes all the same.
Fail ==
    /\ place \in {"lookup", "walk"}
    /\ place' = "failed"
    /\ \/ matches' = IF search.articles THEN <<>> ELSE matches
       \/ /\ place = "walk" /\ ~isCancelled /\ Begins(folded, Key(at))
          /\ \E e \in DOMAIN Chains[Key(at)] : matches' = AddEntries(matches, Key(at), e - 1)
    /\ UNCHANGED <<vars, str, search, charsLeftToChop, at, isCancelled>>

Cancel ==
    /\ ~isCancelled /\ ~search.articles
    /\ isCancelled' = TRUE
    /\ UNCHANGED <<vars, str, search, place, charsLeftToChop, at, matches>>

Worker == Start \/ Lookup \/ FindArticles \/ StartWalk \/ Walk \/ Chop \/ End
SearchNext == Worker \/ Fail \/ Cancel

SearchSpec == SearchInit /\ [][SearchNext]_allVars /\ WF_allVars(Worker)

-----------------------------------------------------------------------------
(***************************************************************************)
(* What a search wants, without the tree and the walk.                     *)
(***************************************************************************)
Keys == {keys[i] : i \in DOMAIN keys}
Stem(n) == SubSeq(Folded[str], 1, initialFoldedSize - n)

Taken(k) == {Chains[k][i].word : i \in {j \in DOMAIN Chains[k] : Takes(k, Chains[k][j])}}

\* With n letters chopped.
Words(n) == UNION {Taken(k) : k \in {k \in Keys : Begins(Stem(n), k)}}

Wanted == Words(ToChop)

(***************************************************************************)
(* A search that ended has no word but those that begin with what was      *)
(* asked, or with its shortest stem, and each once.  It has all of them,   *)
(* unless it was cancelled, failed, or has maxResults.  That holds         *)
(* wherever the word falls in the tree, however often it is chopped, and   *)
(* for words that stand in several chains.                                 *)
(***************************************************************************)
SearchComplete ==
    place \in {"done", "failed"} /\ ~search.articles =>
        LET found == {matches[i] : i \in DOMAIN matches}
        IN  /\ Cardinality(found) = Len(matches)
            /\ found \subseteq Wanted
            /\ \/ found = Wanted
               \/ isCancelled \/ place = "failed"
               \/ Len(matches) >= search.maxResults

(***************************************************************************)
(* The more letters a word shares with the one asked, the earlier it comes *)
(* in a search by stems, also when the results are cut off: what the user  *)
(* is shown first is what is nearest.                                      *)
(***************************************************************************)
Shared(w) ==
    Max({n \in 0 .. initialFoldedSize :
           \E k \in Keys : /\ Begins(SubSeq(Folded[str], 1, n), k)
                           /\ \E i \in DOMAIN Chains[k] :
                                 ~Chains[k][i].middle /\ Chains[k][i].word = w})

NearestFirst ==
    ~search.articles /\ ~search.allowMiddleMatches =>
        \A i, j \in DOMAIN matches : i < j => Shared(matches[i]) >= Shared(matches[j])

(***************************************************************************)
(* findArticles() gives the articles of exactly the word, although it is   *)
(* the same lookup that serves prefixes: nothing for a word that is only   *)
(* the beginning of others, and no entry that merely folds to it.          *)
(***************************************************************************)
ArticlesExact ==
    place = "done" /\ search.articles =>
        matches = IF str \in Keys THEN Articles(str) ELSE <<>>

(***************************************************************************)
(* The lookup serves both kinds of search: words that begin with what was  *)
(* asked, and the articles of one word.                                    *)
(***************************************************************************)
AnswerExact == TypeOK /\ SearchComplete /\ ArticlesExact

\* Every search ends, cancelled, failed or neither: the walk and the chopping run out.
SearchEnds == <>(place \in {"done", "failed"})
=============================================================================
