-------------------------- MODULE WordFinderProofs --------------------------
(***************************************************************************)
(* Proofs about the word search for any number of searches, dictionaries,  *)
(* writings and words: what RequestsAccountedFor and FinalResultsComplete  *)
(* say is true in every state, and WordFinder implements SearchService.    *)
(***************************************************************************)
EXTENDS WordFinder, TLAPS

-----------------------------------------------------------------------------
(***************************************************************************)
(* The loop of WordFinder::updateResults() reads the matches one at a      *)
(* time, in the order in which the dictionaries finish and repeat each     *)
(* other's words; WordFinder uses the order-free Merged and Joined for     *)
(* whole batches.  The two theorems are why it may, for any set of words   *)
(* and any folding: what one more match, or one more batch, makes of the   *)
(* table of the matches before is the table of all of them.                *)
(***************************************************************************)
\* The matches that fall into the entry of k.
Same(ms, k) == {m \in ms : Fold[m.word] = k}

Agree(S, w) == \A m \in S : m.word = w

\* Their word, if they agree on one.
Spelling(S, k) ==
    IF \E w \in Words : Agree(S, w) THEN CHOOSE w \in Words : Agree(S, w) ELSE k

LEMMA MergedByKey ==
    ASSUME NEW ms
    PROVE  /\ DOMAIN Merged(ms) = {Fold[m.word] : m \in ms}
           /\ \A k \in DOMAIN Merged(ms) :
                  /\ Merged(ms)[k].word = Spelling(Same(ms, k), k)
                  /\ Merged(ms)[k].wasSuggested = (\A m \in Same(ms, k) : m.suggested)
                  /\ Merged(ms)[k] = [word |-> Spelling(Same(ms, k), k),
                                      wasSuggested |-> \A m \in Same(ms, k) : m.suggested]
  BY DEF Merged, Spelling, Agree, Same

\* Matches that agree on a word have that one, others have the folded word.
LEMMA SpellingIs ==
    ASSUME NEW S, S \subseteq Match, NEW k, NEW x \in S
    PROVE  /\ Agree(S, x.word) => Spelling(S, k) = x.word
           /\ ~Agree(S, x.word) => Spelling(S, k) = k
  <1>1. x.word \in Words
    BY DEF Match
  <1>2. ASSUME Agree(S, x.word)
        PROVE  Spelling(S, k) = x.word
    <2>1. \A w \in Words : Agree(S, w) <=> w = x.word
      BY <1>2 DEF Agree
    <2> DEFINE W == CHOOSE w \in Words : Agree(S, w)
    <2>2. Spelling(S, k) = W
      BY <1>1, <1>2 DEF Spelling
    <2>3. W \in Words /\ Agree(S, W)
      BY <1>1, <1>2
    <2> HIDE DEF W
    <2> QED  BY <2>1, <2>2, <2>3
  <1>3. ASSUME ~Agree(S, x.word)
        PROVE  Spelling(S, k) = k
    <2>1. ~(\E w \in Words : Agree(S, w))
      BY <1>3 DEF Agree
    <2> QED  BY <2>1 DEF Spelling
  <1> QED  BY <1>2, <1>3

-----------------------------------------------------------------------------
(***************************************************************************)
(* Two sets of matches that meet in an entry: what the words of the two    *)
(* tables say of the word of the whole.                                    *)
(***************************************************************************)
LEMMA SpellingOfBoth ==
    ASSUME NEW S, NEW T, S \subseteq Match, T \subseteq Match, S # {}, T # {}, NEW k
    PROVE  Spelling(S \cup T, k) =
               IF Spelling(S, k) = Spelling(T, k) THEN Spelling(T, k) ELSE k
  <1>1. PICK a \in S, b \in T : TRUE
    OBVIOUS
  <1>2. b \in S \cup T /\ S \cup T \subseteq Match
    OBVIOUS
  <1>a. /\ Agree(S, a.word) => Spelling(S, k) = a.word
        /\ ~Agree(S, a.word) => Spelling(S, k) = k
    BY <1>1, <1>2, SpellingIs
  <1>b. /\ Agree(T, b.word) => Spelling(T, k) = b.word
        /\ ~Agree(T, b.word) => Spelling(T, k) = k
    BY <1>1, <1>2, SpellingIs
  <1>c. /\ Agree(S \cup T, b.word) => Spelling(S \cup T, k) = b.word
        /\ ~Agree(S \cup T, b.word) => Spelling(S \cup T, k) = k
    BY <1>1, <1>2, SpellingIs
  <1>3. CASE Agree(S \cup T, b.word)
    <2>1. Spelling(T, k) = b.word
      BY <1>3, <1>b DEF Agree
    <2>2. Spelling(S, k) = b.word
      BY <1>3, <1>a DEF Agree
    <2> QED  BY <1>3, <1>c, <2>1, <2>2
  <1>4. CASE ~Agree(S \cup T, b.word)
    <2>1. Spelling(S \cup T, k) = k
      BY <1>4, <1>c
    <2>2. ASSUME Spelling(S, k) = Spelling(T, k)
          PROVE  Spelling(T, k) = k
      <3>1. SUFFICES ASSUME Spelling(T, k) # k PROVE FALSE
        OBVIOUS
      <3>2. Agree(T, b.word) /\ Spelling(T, k) = b.word
        BY <3>1, <1>b
      <3>3. Agree(S, a.word) /\ Spelling(S, k) = a.word
        BY <3>1, <2>2, <1>a
      <3> QED  BY <3>2, <3>3, <2>2, <1>4 DEF Agree
    <2> QED  BY <2>1, <2>2
  <1> QED  BY <1>3, <1>4

(***************************************************************************)
(* A batch of matches merged into the table does what its matches would do *)
(* one by one: nothing depends on whether the timer or the last request    *)
(* ran updateResults(), nor on how many had answered by then.              *)
(***************************************************************************)
THEOREM JoinedIsMerged ==
    ASSUME NEW as \in SUBSET Match, NEW bs \in SUBSET Match
    PROVE  Joined(Merged(as), Merged(bs)) = Merged(as \cup bs)
  <1> DEFINE A == Merged(as)
             B == Merged(bs)
             J == Joined(A, B)
             M == Merged(as \cup bs)
  <1>1. DOMAIN A = {Fold[m.word] : m \in as} /\ DOMAIN B = {Fold[m.word] : m \in bs}
        /\ DOMAIN M = {Fold[m.word] : m \in as \cup bs}
    BY MergedByKey
  <1>2. DOMAIN J = DOMAIN A \cup DOMAIN B /\ DOMAIN M = DOMAIN J
    BY <1>1 DEF Joined
  <1>3. ASSUME NEW k \in DOMAIN J PROVE J[k] = M[k]
    <2>1. /\ M[k] = [word |-> Spelling(Same(as \cup bs, k), k),
                     wasSuggested |-> \A m \in Same(as \cup bs, k) : m.suggested]
      BY <1>2, MergedByKey
    <2>2. Same(as \cup bs, k) = Same(as, k) \cup Same(bs, k)
      BY DEF Same
    <2>3. CASE k \notin DOMAIN B
      <3>1. Same(as \cup bs, k) = Same(as, k)
        BY <2>2, <2>3, <1>1 DEF Same
      <3>2. J[k] = A[k] /\ k \in DOMAIN A
        BY <2>3, <1>2 DEF Joined
      <3>3. A[k] = [word |-> Spelling(Same(as, k), k),
                    wasSuggested |-> \A m \in Same(as, k) : m.suggested]
        BY <3>2, MergedByKey
      <3> QED  BY <3>1, <3>2, <3>3, <2>1
    <2>4. CASE k \in DOMAIN B /\ k \notin DOMAIN A
      <3>1. Same(as \cup bs, k) = Same(bs, k)
        BY <2>2, <2>4, <1>1 DEF Same
      <3>2. J[k] = B[k]
        BY <2>4, <1>2 DEF Joined
      <3>3. B[k] = [word |-> Spelling(Same(bs, k), k),
                    wasSuggested |-> \A m \in Same(bs, k) : m.suggested]
        BY <2>4, MergedByKey
      <3> QED  BY <3>1, <3>2, <3>3, <2>1
    <2>5. CASE k \in DOMAIN B /\ k \in DOMAIN A
      <3>1. /\ Same(as, k) # {} /\ Same(bs, k) # {}
            /\ Same(as, k) \subseteq Match /\ Same(bs, k) \subseteq Match
        BY <2>5, <1>1 DEF Same
      <3>2. Spelling(Same(as \cup bs, k), k) =
                IF Spelling(Same(as, k), k) = Spelling(Same(bs, k), k) THEN Spelling(Same(bs, k), k) ELSE k
        <4> DEFINE S == Same(as, k)
                   T == Same(bs, k)
        <4>1. S \subseteq Match /\ T \subseteq Match /\ S # {} /\ T # {}
          BY <3>1
        <4> HIDE DEF S, T
        <4>2. Spelling(S \cup T, k) = IF Spelling(S, k) = Spelling(T, k) THEN Spelling(T, k) ELSE k
          BY <4>1, SpellingOfBoth
        <4> QED  BY <4>2, <2>2 DEF S, T
      <3>3. /\ A[k].word = Spelling(Same(as, k), k) /\ B[k].word = Spelling(Same(bs, k), k)
            /\ A[k].wasSuggested = (\A m \in Same(as, k) : m.suggested)
            /\ B[k].wasSuggested = (\A m \in Same(bs, k) : m.suggested)
        BY <2>5, MergedByKey
      <3>4. J[k] = [word |-> IF A[k].word = B[k].word THEN B[k].word ELSE k,
                    wasSuggested |-> A[k].wasSuggested /\ B[k].wasSuggested]
        BY <2>5, <1>2 DEF Joined
      <3>5. (\A m \in Same(as \cup bs, k) : m.suggested)
                = ((\A m \in Same(as, k) : m.suggested) /\ (\A m \in Same(bs, k) : m.suggested))
        BY <2>2
      <3> QED  BY <3>2, <3>3, <3>4, <3>5, <2>1
    <2> QED  BY <2>3, <2>4, <2>5, <1>2
  <1>4. J = [k \in DOMAIN J |-> J[k]] /\ M = [k \in DOMAIN M |-> M[k]]
    BY ZenonT(30) DEF Joined, Merged
  <1> HIDE DEF J, M
  <1>5. J = M
    BY <1>2, <1>3, <1>4
  <1> QED  BY <1>5 DEF J, M

(***************************************************************************)
(* One turn of the loop: the entry of a key says the same whatever order   *)
(* its matches were read in (wordfinder.hh: "Duplicate matches from        *)
(* different dictionaries are merged together").                           *)
(***************************************************************************)
THEOREM InsertIsMerged ==
    ASSUME NEW ms \in SUBSET Match, NEW x \in Match
    PROVE  InsertMatch(Merged(ms), x) = Merged(ms \cup {x})
  <1> DEFINE k == Fold[x.word]
             T == Merged(ms)
             I == InsertMatch(T, x)
             J == Joined(T, Merged({x}))
  <1>1. x.word \in Words /\ x.suggested \in BOOLEAN
    BY DEF Match
  <1>2. DOMAIN Merged({x}) = {k} /\ Same({x}, k) = {x}
    <2>1. DOMAIN Merged({x}) = {Fold[m.word] : m \in {x}}
      BY MergedByKey
    <2> QED  BY <2>1 DEF Same
  <1>3. Spelling(Same({x}, k), k) = x.word
    <2>1. {x} \subseteq Match /\ x \in {x} /\ Agree({x}, x.word)
      BY DEF Agree
    <2>2. Spelling({x}, k) = x.word
      BY <2>1, SpellingIs
    <2> QED  BY <2>2, <1>2
  <1>4. Merged({x})[k] = [word |-> x.word, wasSuggested |-> x.suggested]
    <2>1. Merged({x})[k] = [word |-> Spelling(Same({x}, k), k),
                            wasSuggested |-> \A m \in Same({x}, k) : m.suggested]
      BY <1>2, MergedByKey
    <2>2. (\A m \in Same({x}, k) : m.suggested) = x.suggested
      BY <1>1, <1>2
    <2> QED  BY <2>1, <2>2, <1>3
  <1>5. I = J
    BY <1>2, <1>4 DEF InsertMatch, Joined
  <1>6. J = Merged(ms \cup {x})
    BY JoinedIsMerged
  <1> QED  BY <1>5, <1>6

-----------------------------------------------------------------------------
AnswerTable == [Request -> Answers \cup {NoAnswer}]

\* The table of everything the requests R have found.
TableOf(type, ans, R) == Merged(Usable(type, Found(ans, R)))

-----------------------------------------------------------------------------
(***************************************************************************)
(* The operators.                                                          *)
(***************************************************************************)
LEMMA UsableType ==
    ASSUME NEW type, NEW ms \in SUBSET Match
    PROVE  Usable(type, ms) \in SUBSET Match
  <1>1. ASSUME NEW m \in Match PROVE Weighed(type, m) \in Match
    BY DEF Weighed, Match
  <1> QED  BY <1>1 DEF Usable

LEMMA UsableUnion ==
    ASSUME NEW type, NEW as, NEW bs
    PROVE  Usable(type, as \cup bs) = Usable(type, as) \cup Usable(type, bs)
  BY DEF Usable

LEMMA UsableGrows ==
    ASSUME NEW type, NEW as, NEW bs, as \subseteq bs
    PROVE  Usable(type, as) \subseteq Usable(type, bs)
  BY DEF Usable

LEMMA FoundType ==
    ASSUME NEW ans \in AnswerTable, NEW R \in SUBSET Request
    PROVE  Found(ans, R) \in SUBSET Match
  <1>1. ASSUME NEW a \in Answers \cup {NoAnswer} PROVE a.matches \in SUBSET Match
    BY AnswersAssumption DEF NoAnswer
  <1>2. ASSUME NEW r \in R PROVE ans[r].matches \in SUBSET Match
    BY <1>1 DEF AnswerTable
  <1> QED  BY <1>2 DEF Found

LEMMA FoundUnion ==
    ASSUME NEW ans, NEW R, NEW S
    PROVE  Found(ans, R \cup S) = Found(ans, R) \cup Found(ans, S)
  BY DEF Found

LEMMA FoundGrows ==
    ASSUME NEW ans, NEW R, NEW S, R \subseteq S
    PROVE  Found(ans, R) \subseteq Found(ans, S)
  BY DEF Found

\* Requests without matches, and what is answered elsewhere, do not count.
LEMMA FoundSame ==
    ASSUME NEW f, NEW g, NEW R, NEW S,
           \A r \in R \cap S : f[r].matches = g[r].matches,
           \A r \in R \ S : f[r].matches = {},
           \A r \in S \ R : g[r].matches = {}
    PROVE  Found(f, R) = Found(g, S)
  BY DEF Found

LEMMA NothingFound ==
    ASSUME NEW type, NEW ans, NEW R, \A r \in R : ans[r].matches = {}
    PROVE  TableOf(type, ans, R) = NoResults
  <1>1. Usable(type, Found(ans, R)) = {}
    BY DEF Found, Usable
  <1>2. Merged({}) = NoResults
    BY DEF Merged, NoResults
  <1> QED  BY <1>1, <1>2 DEF TableOf

LEMMA MergedType ==
    ASSUME NEW ms \in SUBSET Match
    PROVE  Merged(ms) \in ResultsTables
  <1> DEFINE K == {Fold[m.word] : m \in ms}
  <1>1. K \in SUBSET Keys
    BY DEF Match, Keys
  <1>2. ASSUME NEW k \in K PROVE Merged(ms)[k] \in Entry
    <2>1. PICK x \in ms : Fold[x.word] = k
      OBVIOUS
    <2>2. /\ Merged(ms)[k].word = Spelling(Same(ms, k), k)
          /\ Merged(ms)[k].wasSuggested = (\A m \in Same(ms, k) : m.suggested)
          /\ Merged(ms)[k] = [word |-> Spelling(Same(ms, k), k),
                              wasSuggested |-> \A m \in Same(ms, k) : m.suggested]
      BY MergedByKey
    <2>3. x \in Same(ms, k) /\ Same(ms, k) \subseteq Match /\ x.word \in Words
      BY <2>1 DEF Same, Match
    <2>4. Spelling(Same(ms, k), k) \in {x.word, k}
      BY <2>3, SpellingIs
    <2>5. k \in Words
      BY <2>1, <2>3, FoldAssumption
    <2>6. (\A m \in Same(ms, k) : m.suggested) \in BOOLEAN
      OBVIOUS
    <2> QED  BY <2>2, <2>3, <2>4, <2>5, <2>6 DEF Entry
  <1>3. Merged(ms) = [k \in K |-> Merged(ms)[k]]
    BY DEF Merged
  <1>4. Merged(ms) \in [K -> Entry]
    BY <1>2, <1>3
  <1> QED  BY <1>1, <1>4 DEF ResultsTables

LEMMA ShownType ==
    ASSUME NEW table \in ResultsTables, NEW type, NEW S \in Shown(table, type)
    PROVE  [k \in S |-> table[k]] \in ResultsTables
  <1>1. PICK K \in SUBSET Keys : table \in [K -> Entry]
    BY DEF ResultsTables
  <1>2. S \in SUBSET K
    BY <1>1 DEF Shown
  <1>3. [k \in S |-> table[k]] \in [S -> Entry]
    BY <1>1, <1>2
  <1> QED  BY <1>1, <1>2, <1>3 DEF ResultsTables

LEMMA TableType ==
    ASSUME NEW type, NEW ans \in AnswerTable, NEW R \in SUBSET Request
    PROVE  TableOf(type, ans, R) \in ResultsTables
  BY FoundType, UsableType, MergedType DEF TableOf

LEMMA NoResultsType == NoResults \in ResultsTables
  <1>1. Merged({}) = NoResults
    BY DEF Merged, NoResults
  <1> QED  BY <1>1, MergedType

(***************************************************************************)
(* What finished requests found is merged into the table of the others.    *)
(***************************************************************************)
LEMMA TableOfMore ==
    ASSUME NEW type, NEW ans \in AnswerTable,
           NEW R \in SUBSET Request, NEW S \in SUBSET Request
    PROVE  Joined(TableOf(type, ans, R), TableOf(type, ans, S)) = TableOf(type, ans, R \cup S)
  <1> DEFINE A == Usable(type, Found(ans, R))
             B == Usable(type, Found(ans, S))
  <1>1. A \in SUBSET Match /\ B \in SUBSET Match
    BY FoundType, UsableType
  <1>2. Usable(type, Found(ans, R \cup S)) = A \cup B
    BY FoundUnion, UsableUnion
  <1> HIDE DEF A, B
  <1>3. Joined(Merged(A), Merged(B)) = Merged(A \cup B)
    BY <1>1, JoinedIsMerged
  <1> QED  BY <1>2, <1>3 DEF TableOf, A, B

-----------------------------------------------------------------------------
(***************************************************************************)
(* updateResults() and the end of requestFinished(), for a table that      *)
(* holds what every request outside the two lists has found: it still      *)
(* does for the lists they leave behind.                                   *)
(***************************************************************************)
LEMMA UpdateResultsMerges ==
    ASSUME NEW s \in Searches, NEW type \in SearchTypes, NEW ans \in AnswerTable,
           NEW queued \in SUBSET OfSearch(s), NEW finished \in SUBSET OfSearch(s),
           queued \cap finished = {}, NEW table,
           table = TableOf(type, ans, OfSearch(s) \ (queued \cup finished)),
           UpdateResults(queued, finished, table, type, ans, s)
    PROVE  /\ queuedRequests' = queued
           /\ finishedRequests' = {}
           /\ searchInProgress' = (queued # {})
           /\ finishedSignals' = IF queued = {} THEN [finishedSignals EXCEPT ![s] = @ + 1]
                                 ELSE finishedSignals
           /\ resultsArray' = TableOf(type, ans, OfSearch(s) \ queued)
           /\ resultsArray' \in ResultsTables
           /\ searchResults' \in ResultsTables
           /\ timerActive' = FALSE
  <1> DEFINE merged == Joined(table, Merged(Usable(type, Found(ans, finished))))
             R == OfSearch(s) \ (queued \cup finished)
  <1>1. /\ timerActive' = FALSE
        /\ resultsArray' = merged
        /\ \E S \in Shown(merged, type) : searchResults' = [k \in S |-> merged[k]]
        /\ queuedRequests' = queued
        /\ finishedRequests' = {}
        /\ IF queued # {}
           THEN searchInProgress' = TRUE /\ finishedSignals' = finishedSignals
           ELSE searchInProgress' = FALSE
                /\ finishedSignals' = [finishedSignals EXCEPT ![s] = @ + 1]
    BY DEF UpdateResults
  <1>2. R \in SUBSET Request /\ finished \in SUBSET Request
    BY DEF OfSearch
  <1>3. R \cup finished = OfSearch(s) \ queued
    OBVIOUS
  <1>4. merged = Joined(TableOf(type, ans, R), TableOf(type, ans, finished))
    BY DEF TableOf
  <1>5. merged = TableOf(type, ans, OfSearch(s) \ queued)
    BY <1>2, <1>3, <1>4, TableOfMore
  <1>6. merged \in ResultsTables
    <2>1. OfSearch(s) \ queued \in SUBSET Request
      BY DEF OfSearch
    <2> QED  BY <2>1, <1>5, TableType
  <1> HIDE DEF merged, R
  <1>7. searchResults' \in ResultsTables
    BY <1>1, <1>6, ShownType
  <1> QED  BY <1>1, <1>5, <1>6, <1>7

LEMMA ProgressMerges ==
    ASSUME NEW s \in Searches, NEW type \in SearchTypes, NEW ans \in AnswerTable,
           NEW queued \in SUBSET OfSearch(s), NEW finished \in SUBSET OfSearch(s),
           queued \cap finished = {}, NEW newResults \in BOOLEAN,
           NEW table, NEW shown \in ResultsTables, timerActive \in BOOLEAN,
           table = TableOf(type, ans, OfSearch(s) \ (queued \cup finished)),
           Progress(queued, finished, newResults, table, shown, type, ans, s)
    PROVE  /\ queuedRequests' = queued
           /\ finishedRequests' = IF queued = {} THEN {} ELSE finished
           /\ searchInProgress' = (queued # {})
           /\ finishedSignals' = IF queued = {} THEN [finishedSignals EXCEPT ![s] = @ + 1]
                                 ELSE finishedSignals
           /\ resultsArray' = TableOf(type, ans, OfSearch(s) \
                                                   (queuedRequests' \cup finishedRequests'))
           /\ resultsArray' \in ResultsTables
           /\ searchResults' \in ResultsTables
           /\ timerActive' \in BOOLEAN
  <1>1. CASE queued = {}
    <2>1. UpdateResults(queued, finished, table, type, ans, s)
      BY <1>1 DEF Progress
    <2>2. /\ queuedRequests' = queued
          /\ finishedRequests' = {}
          /\ searchInProgress' = (queued # {})
          /\ finishedSignals' = IF queued = {} THEN [finishedSignals EXCEPT ![s] = @ + 1]
                                ELSE finishedSignals
          /\ resultsArray' = TableOf(type, ans, OfSearch(s) \ queued)
          /\ resultsArray' \in ResultsTables
          /\ searchResults' \in ResultsTables
          /\ timerActive' = FALSE
      BY <2>1, UpdateResultsMerges
    <2>3. queuedRequests' \cup finishedRequests' = queued
      BY <2>2
    <2> QED  BY <1>1, <2>2, <2>3
  <1>2. CASE queued # {}
    <2>1. /\ timerActive' = (timerActive \/ newResults)
          /\ resultsArray' = table
          /\ searchResults' = shown
          /\ queuedRequests' = queued
          /\ finishedRequests' = finished
          /\ searchInProgress' = TRUE
          /\ finishedSignals' = finishedSignals
      BY <1>2 DEF Progress, ShowLater
    <2>2. OfSearch(s) \ (queued \cup finished) \in SUBSET Request
      BY DEF OfSearch
    <2>3. table \in ResultsTables
      BY <2>2, TableType
    <2> QED  BY <1>2, <2>1, <2>3
  <1> QED  BY <1>1, <1>2

-----------------------------------------------------------------------------
(***************************************************************************)
(* The inductive invariant.  Unmade(r): the search of r has not made its   *)
(* requests yet.  The lists are apart and hold only requests that exist; a *)
(* request has an answer only once it is finished; the last search is in   *)
(* progress, waits to start, has emitted finished() or was given up; and   *)
(* once it has emitted finished() both lists are empty, so that late       *)
(* events change nothing.                                                  *)
(***************************************************************************)
Unmade(r) == r[1] > asked \/ (searchQueued /\ r[1] = asked)

LifeInv ==
    /\ \A r \in Request : Unmade(r) => life[r] = "none"
    /\ \A r \in Request : life[r] \in {"none", "running"} => answer[r] = NoAnswer
    /\ \A r \in Listed : life[r] # "none"
    /\ queuedRequests \cap finishedRequests = {}
    /\ NoOrphanWorker

WaitInv == OnlyOwnRequests /\ NoLostWakeup

PhaseInv ==
    /\ searchInProgress \/ searchQueued => wanted
    /\ wanted => asked \in Searches
    /\ wanted /\ finishedSignals[asked] = 0 => searchInProgress \/ searchQueued
    /\ wanted /\ finishedSignals[asked] > 0 => ~searchInProgress /\ ~searchQueued

SignalInv ==
    /\ FinishedOnce
    /\ \A s \in Searches : s > asked => finishedSignals[s] = 0
    /\ \A s \in Searches : s = asked /\ finishedSignals[s] > 0 => Listed = {}

\* The flags that go with the results, for the requests R.
FlagsOf(R) ==
    /\ searchErrorString = \E r \in R : answer[r].error
    /\ searchResultsUncertain = \E r \in R : answer[r].uncertain

ResultsInv ==
    /\ NothingDropped
    /\ searchQueued => resultsArray = NoResults
    /\ searchInProgress => FlagsOf(OfSearch(asked) \ queuedRequests)

IInv ==
    /\ TypeOK
    /\ LifeInv
    /\ WaitInv
    /\ PhaseInv
    /\ SignalInv
    /\ ResultsInv
    /\ FinalResultsComplete

USE SearchesAssumption

\* In the words of the lemmas above.
LEMMA NothingDroppedIs ==
    NothingDropped <=>
        (searchInProgress => resultsArray = TableOf(searchType, answer, OfSearch(asked) \ Listed))
  BY DEF NothingDropped, TableOf

LEMMA FinalIs ==
    FinalResultsComplete <=>
        \A s \in Searches :
            (s = asked /\ finishedSignals[s] > 0) =>
                /\ \A r \in OfSearch(s) : life[r] \in {"none", "gone"}
                /\ resultsArray = TableOf(searchType, answer, OfSearch(s))
                /\ FlagsOf(OfSearch(s))
  BY DEF FinalResultsComplete, TableOf, FlagsOf

LEMMA InitInv == Init => IInv
  <1> SUFFICES ASSUME Init PROVE IInv
    OBVIOUS
  <1>1. TypeOK
    <2>1. asked \in 0 .. MaxSearches /\ searchType \in SearchTypes
      BY DEF Init, SearchTypes
    <2>2. resultsArray \in ResultsTables /\ searchResults \in ResultsTables
      BY NoResultsType DEF Init
    <2>3. life \in [Request -> Life] /\ answer \in [Request -> Answers \cup {NoAnswer}]
          /\ finishedSignals \in [Searches -> Nat]
      BY DEF Init, Life
    <2> QED  BY <2>1, <2>2, <2>3 DEF Init, TypeOK
  <1>2. LifeInv
    BY DEF Init, LifeInv, Listed, NoOrphanWorker, Unmade
  <1>3. WaitInv /\ PhaseInv /\ SignalInv
    BY DEF Init, WaitInv, OnlyOwnRequests, NoLostWakeup, PhaseInv, SignalInv, FinishedOnce,
           Listed, Searches
  <1>4. ResultsInv /\ FinalResultsComplete
    BY DEF Init, ResultsInv, NothingDropped, FinalResultsComplete
  <1> QED  BY <1>1, <1>2, <1>3, <1>4 DEF IInv

-----------------------------------------------------------------------------
(***************************************************************************)
(* What holds whenever a search is in progress, and once it is over.       *)
(***************************************************************************)
LEMMA InProgress ==
    ASSUME IInv, searchInProgress
    PROVE  /\ wanted /\ ~searchQueued /\ asked \in Searches
           /\ queuedRequests # {} /\ Listed \subseteq OfSearch(asked)
           /\ finishedSignals[asked] = 0
  <1>1. queuedRequests # {} /\ Listed \subseteq OfSearch(asked)
    BY DEF IInv, WaitInv, OnlyOwnRequests, NoLostWakeup
  <1>2. ~searchQueued
    BY <1>1 DEF IInv, WaitInv, OnlyOwnRequests, Listed
  <1>3. wanted /\ asked \in Searches /\ ~(finishedSignals[asked] > 0)
    BY DEF IInv, PhaseInv
  <1>4. finishedSignals[asked] \in Nat
    BY <1>3 DEF IInv, TypeOK
  <1> QED  BY <1>1, <1>2, <1>3, <1>4

LEMMA Over ==
    ASSUME IInv, asked \in Searches, Listed # {}
    PROVE  finishedSignals[asked] = 0
  <1>1. finishedSignals[asked] \in Nat
    BY DEF IInv, TypeOK
  <1>2. ~(finishedSignals[asked] > 0)
    BY DEF IInv, SignalInv
  <1> QED  BY <1>1, <1>2

-----------------------------------------------------------------------------
(***************************************************************************)
(* The workers and the timer.                                              *)
(***************************************************************************)
LEMMA WorkerFlagInv ==
    ASSUME IInv, NEW r \in Request, WorkerFlag(r)
    PROVE  IInv'
  <1>1. PICK a \in Answers : answer' = [answer EXCEPT ![r] = a]
    BY DEF WorkerFlag
  <1>2. /\ life[r] = "running" /\ life' = [life EXCEPT ![r] = "flagged"]
        /\ UNCHANGED <<asked, wanted, searchType, searchQueued, searchInProgress, queuedRequests,
                       finishedRequests, dataVars, timerVars, cancelled, posted, finishedSignals>>
    BY DEF WorkerFlag
  <1>3. r \in queuedRequests /\ r \in Listed /\ Listed' = Listed
    BY <1>2 DEF IInv, LifeInv, NoOrphanWorker, Listed
  <1>4. life \in [Request -> Life] /\ answer \in AnswerTable
    BY DEF IInv, TypeOK, AnswerTable
  <1>5. \A x \in Request : x # r => life'[x] = life[x] /\ answer'[x] = answer[x]
    BY <1>1, <1>2, <1>4 DEF AnswerTable
  <1>6. TypeOK'
    <2>1. life' \in [Request -> Life] /\ answer' \in [Request -> Answers \cup {NoAnswer}]
      BY <1>1, <1>2, <1>4 DEF AnswerTable, Life
    <2> QED  BY <1>2, <2>1 DEF IInv, TypeOK, dataVars, timerVars
  <1>7. LifeInv'
    <2>1. life'[r] = "flagged"
      BY <1>2, <1>4
    <2>2. \A x \in Request : (Unmade(x))' => life'[x] = "none"
      BY <1>2, <1>5, <2>1 DEF IInv, LifeInv, Unmade
    <2>3. \A x \in Request : life'[x] \in {"none", "running"} => answer'[x] = NoAnswer
      BY <1>5, <2>1 DEF IInv, LifeInv
    <2>4. Listed \subseteq Request
      BY DEF IInv, TypeOK, Listed
    <2>5. \A x \in Listed' : life'[x] # "none"
      BY <1>3, <1>5, <2>1, <2>4 DEF IInv, LifeInv
    <2>6. NoOrphanWorker'
      BY <1>2, <1>3, <1>5, <2>1 DEF IInv, LifeInv, NoOrphanWorker
    <2> QED  BY <1>2, <2>2, <2>3, <2>5, <2>6 DEF IInv, LifeInv
  <1>8. WaitInv'
    <2>1. OnlyOwnRequests'
      BY <1>2, <1>3 DEF IInv, WaitInv, OnlyOwnRequests, OfSearch
    <2>2. queuedRequests \subseteq Request /\ life'[r] # "gone"
      BY <1>2, <1>4 DEF IInv, TypeOK
    <2>3. NoLostWakeup'
      BY <1>2, <1>5, <2>2 DEF IInv, WaitInv, NoLostWakeup
    <2> QED  BY <2>1, <2>3 DEF WaitInv
  <1>9. PhaseInv'
    BY <1>2 DEF IInv, PhaseInv
  <1>10. SignalInv'
    BY <1>2, <1>3 DEF IInv, SignalInv, FinishedOnce
  <1>11. ResultsInv'
    <2>1. Found(answer', OfSearch(asked) \ Listed) = Found(answer, OfSearch(asked) \ Listed)
      BY <1>3, <1>5, FoundSame DEF OfSearch
    <2>2. NothingDropped'
      BY <1>2, <1>3, <2>1 DEF IInv, ResultsInv, NothingDropped, dataVars, OfSearch
    <2>3. \A x \in OfSearch(asked) \ queuedRequests : answer'[x] = answer[x]
      BY <1>3, <1>5 DEF OfSearch
    <2>4. searchInProgress => (FlagsOf(OfSearch(asked) \ queuedRequests))'
      BY <1>2, <2>3 DEF IInv, ResultsInv, FlagsOf, dataVars, OfSearch
    <2> QED  BY <1>2, <2>2, <2>4 DEF IInv, ResultsInv, dataVars
  <1>12. FinalResultsComplete'
    BY <1>2, <1>3, Over DEF FinalResultsComplete
  <1> QED  BY <1>6, <1>7, <1>8, <1>9, <1>10, <1>11, <1>12 DEF IInv

LEMMA WorkerEmitInv ==
    ASSUME IInv, NEW r \in Request, WorkerEmit(r)
    PROVE  IInv'
  <1>1. /\ life[r] = "flagged" /\ life' = [life EXCEPT ![r] = "gone"]
        /\ posted' = posted \cup {r}
        /\ UNCHANGED <<asked, wanted, searchType, searchQueued, searchInProgress, queuedRequests,
                       finishedRequests, dataVars, timerVars, cancelled, answer, finishedSignals>>
    BY DEF WorkerEmit
  <1>2. r \in Listed /\ Listed' = Listed
    BY <1>1 DEF IInv, LifeInv, NoOrphanWorker, Listed
  <1>3. life \in [Request -> Life] /\ posted \subseteq Request
    BY DEF IInv, TypeOK
  <1>4. life'[r] = "gone" /\ \A x \in Request : x # r => life'[x] = life[x]
    BY <1>1, <1>3
  <1>5. TypeOK'
    <2>1. life' \in [Request -> Life] /\ posted' \subseteq Request
      BY <1>1, <1>3 DEF Life
    <2> QED  BY <1>1, <2>1 DEF IInv, TypeOK, dataVars, timerVars
  <1>6. LifeInv'
    <2>1. \A x \in Request : (Unmade(x))' => life'[x] = "none"
      BY <1>1, <1>4 DEF IInv, LifeInv, Unmade
    <2>2. Listed \subseteq Request
      BY DEF IInv, TypeOK, Listed
    <2>3. NoOrphanWorker'
      BY <1>1, <1>2, <1>4 DEF IInv, LifeInv, NoOrphanWorker
    <2> QED  BY <1>1, <1>2, <1>4, <2>1, <2>2, <2>3 DEF IInv, LifeInv
  <1>7. WaitInv'
    <2>1. OnlyOwnRequests'
      BY <1>1, <1>2 DEF IInv, WaitInv, OnlyOwnRequests, OfSearch
    <2>2. queuedRequests \subseteq Request
      BY DEF IInv, TypeOK
    <2>3. NoLostWakeup'
      BY <1>1, <1>4, <2>2 DEF IInv, WaitInv, NoLostWakeup
    <2> QED  BY <2>1, <2>3 DEF WaitInv
  <1>8. PhaseInv'
    BY <1>1 DEF IInv, PhaseInv
  <1>9. SignalInv'
    BY <1>1, <1>2 DEF IInv, SignalInv, FinishedOnce
  <1>10. ResultsInv'
    BY <1>1, <1>2 DEF IInv, ResultsInv, NothingDropped, FlagsOf, dataVars, OfSearch
  <1>11. FinalResultsComplete'
    BY <1>1, <1>2, Over DEF FinalResultsComplete
  <1> QED  BY <1>5, <1>6, <1>7, <1>8, <1>9, <1>10, <1>11 DEF IInv

\* Steps that leave alone all that the invariant speaks of.
LEMMA TimerInv ==
    ASSUME IInv, timerActive' \in BOOLEAN, timeoutPosted' \in BOOLEAN,
           UNCHANGED <<asked, wanted, searchType, searchQueued, searchInProgress, queuedRequests,
                       finishedRequests, dataVars, requestVars, finishedSignals>>
    PROVE  IInv'
  <1>1. TypeOK'
    BY DEF IInv, TypeOK, dataVars, requestVars
  <1>2. LifeInv'
    BY DEF IInv, LifeInv, Listed, Unmade, NoOrphanWorker, requestVars
  <1>3. WaitInv'
    BY DEF IInv, WaitInv, OnlyOwnRequests, NoLostWakeup, Listed, OfSearch, requestVars
  <1>4. PhaseInv' /\ SignalInv'
    BY DEF IInv, PhaseInv, SignalInv, FinishedOnce, Listed
  <1>5. ResultsInv'
    BY DEF IInv, ResultsInv, NothingDropped, FlagsOf, Listed, OfSearch, dataVars, requestVars
  <1>6. FinalResultsComplete'
    BY DEF IInv, FinalResultsComplete, OfSearch, dataVars, requestVars
  <1> QED  BY <1>1, <1>2, <1>3, <1>4, <1>5, <1>6 DEF IInv

LEMMA TimerUpdateInv ==
    ASSUME IInv, TimerUpdate
    PROVE  IInv'
  <1>1. /\ timeoutPosted' = FALSE
        /\ UNCHANGED <<asked, wanted, searchType, searchQueued, searchErrorString,
                       searchResultsUncertain, cancelled, answer>>
    BY DEF TimerUpdate
  <1>2. CASE ~searchInProgress
    <2>1. UNCHANGED <<searchInProgress, queuedRequests, finishedRequests, resultsArray,
                      searchResults, timerActive, life, posted, finishedSignals>>
      BY <1>2 DEF TimerUpdate, UpdateOnTimeout
    <2>2. timerActive' \in BOOLEAN
      BY <2>1 DEF IInv, TypeOK
    <2>3. UNCHANGED <<dataVars, requestVars>>
      BY <1>1, <2>1 DEF dataVars, requestVars
    <2> QED  BY <1>1, <2>1, <2>2, <2>3, TimerInv
  <1>3. CASE searchInProgress
    <2>1. /\ life' = Released(life, finishedRequests)
          /\ posted' = posted \cup LateSignals(life, finishedRequests)
          /\ UpdateResults(queuedRequests, finishedRequests, resultsArray, searchType, answer, asked)
      BY <1>3 DEF TimerUpdate, UpdateOnTimeout, MergeFinished
    <2>2. /\ wanted /\ ~searchQueued /\ asked \in Searches
          /\ queuedRequests # {} /\ Listed \subseteq OfSearch(asked)
          /\ finishedSignals[asked] = 0
      BY <1>3, InProgress
    <2>3. /\ queuedRequests \in SUBSET OfSearch(asked)
          /\ finishedRequests \in SUBSET OfSearch(asked)
          /\ queuedRequests \cap finishedRequests = {}
          /\ answer \in AnswerTable /\ searchType \in SearchTypes
          /\ life \in [Request -> Life]
      BY <2>2 DEF IInv, LifeInv, TypeOK, AnswerTable, Listed
    <2>4. resultsArray =
              TableOf(searchType, answer, OfSearch(asked) \ (queuedRequests \cup finishedRequests))
      BY <1>3, NothingDroppedIs DEF IInv, ResultsInv, Listed
    <2>5. /\ queuedRequests' = queuedRequests
          /\ finishedRequests' = {}
          /\ searchInProgress' = (queuedRequests # {})
          /\ finishedSignals' = finishedSignals
          /\ resultsArray' = TableOf(searchType, answer, OfSearch(asked) \ queuedRequests)
          /\ resultsArray' \in ResultsTables
          /\ searchResults' \in ResultsTables
          /\ timerActive' = FALSE
      BY <2>1, <2>2, <2>3, <2>4, UpdateResultsMerges
    <2>6. searchInProgress' /\ Listed' = queuedRequests
      BY <2>2, <2>5 DEF Listed
    <2>7. \A x \in Request : life'[x] = IF x \in finishedRequests THEN "gone" ELSE life[x]
      BY <2>1 DEF Released
    <2>8. TypeOK'
      <3>1. life' \in [Request -> Life]
        BY <2>1, <2>3 DEF Released, Life
      <3>2. posted' \subseteq Request
        BY <2>1 DEF LateSignals, IInv, TypeOK
      <3> QED  BY <1>1, <2>5, <2>6, <3>1, <3>2 DEF IInv, TypeOK
    <2>9. LifeInv'
      <3>1. \A x \in finishedRequests : life[x] # "none"
        BY DEF IInv, LifeInv, Listed
      <3>2. \A x \in Request : (Unmade(x))' => life'[x] = "none"
        BY <1>1, <2>7, <3>1 DEF IInv, LifeInv, Unmade
      <3>3. \A x \in Request : life'[x] \in {"none", "running"} => answer'[x] = NoAnswer
        BY <1>1, <2>7 DEF IInv, LifeInv
      <3>4. \A x \in queuedRequests : x \in Request /\ x \notin finishedRequests
        BY <2>3 DEF OfSearch
      <3>5. \A x \in Listed' : life'[x] # "none"
        BY <2>6, <2>7, <3>4 DEF IInv, LifeInv, Listed
      <3>6. NoOrphanWorker'
        BY <2>5, <2>6, <2>7 DEF IInv, LifeInv, NoOrphanWorker, Listed
      <3> QED  BY <2>5, <3>2, <3>3, <3>5, <3>6 DEF LifeInv
    <2>10. WaitInv'
      <3>1. OnlyOwnRequests'
        BY <1>1, <2>2, <2>3, <2>6 DEF OnlyOwnRequests, OfSearch
      <3>2. \A x \in queuedRequests : x \in Request /\ x \notin finishedRequests
        BY <2>3 DEF OfSearch
      <3>3. NoLostWakeup'
        BY <1>1, <2>1, <2>2, <2>5, <2>7, <3>2 DEF IInv, WaitInv, NoLostWakeup
      <3> QED  BY <3>1, <3>3 DEF WaitInv
    <2>11. PhaseInv' /\ SignalInv'
      BY <1>1, <1>3, <2>2, <2>5, <2>6 DEF IInv, PhaseInv, SignalInv, FinishedOnce
    <2>12. ResultsInv'
      <3>1. resultsArray' = TableOf(searchType', answer', (OfSearch(asked) \ Listed)')
        BY <1>1, <2>5, <2>6 DEF OfSearch
      <3>2. NothingDropped'
        BY <3>1 DEF NothingDropped, TableOf
      <3>3. (FlagsOf(OfSearch(asked) \ queuedRequests))'
        BY <1>1, <1>3, <2>5 DEF IInv, ResultsInv, FlagsOf, OfSearch
      <3> QED  BY <1>1, <2>2, <3>2, <3>3 DEF ResultsInv
    <2>13. FinalResultsComplete'
      BY <1>1, <2>2, <2>5 DEF FinalResultsComplete
    <2> QED  BY <2>8, <2>9, <2>10, <2>11, <2>12, <2>13 DEF IInv
  <1> QED  BY <1>2, <1>3

-----------------------------------------------------------------------------
(***************************************************************************)
(* The calls of the user.                                                  *)
(***************************************************************************)
LEMMA CancelInv ==
    ASSUME IInv, Cancel
    PROVE  IInv'
  <1>1. /\ wanted' = FALSE /\ searchQueued' = FALSE /\ searchInProgress' = FALSE
        /\ cancelled' = cancelled \cup queuedRequests
        /\ UNCHANGED <<asked, searchType, queuedRequests, finishedRequests, dataVars,
                       timerVars, answer, finishedSignals>>
    BY DEF Cancel
  <1>2. PICK atOnce \in SUBSET {r \in queuedRequests : life[r] = "running"} :
           life' = Released(life, atOnce) /\ posted' = posted \cup atOnce
    BY DEF Cancel, CancelledAtOnce
  <1>3. /\ \A x \in Request : life'[x] = IF x \in atOnce THEN "gone" ELSE life[x]
        /\ \A x \in atOnce : x \in queuedRequests /\ life[x] = "running"
        /\ life' \in [Request -> Life]
        /\ queuedRequests \subseteq Request /\ finishedRequests \subseteq Request
        /\ Listed' = Listed
    BY <1>1, <1>2 DEF Released, IInv, TypeOK, Life, Listed
  <1>4. TypeOK'
    BY <1>1, <1>2, <1>3 DEF IInv, TypeOK, dataVars, timerVars
  <1>5. LifeInv'
    <2>1. \A x \in Request : (Unmade(x))' => life'[x] = "none"
      BY <1>1, <1>3 DEF IInv, LifeInv, Unmade
    <2>2. \A x \in Request : life'[x] \in {"none", "running"} => answer'[x] = NoAnswer
      BY <1>1, <1>3 DEF IInv, LifeInv
    <2>3. \A x \in Listed' : life'[x] # "none"
      BY <1>3 DEF IInv, LifeInv, Listed
    <2>4. NoOrphanWorker'
      BY <1>1, <1>3 DEF IInv, LifeInv, NoOrphanWorker
    <2> QED  BY <1>1, <2>1, <2>2, <2>3, <2>4 DEF IInv, LifeInv
  <1>6. WaitInv'
    BY <1>1, <1>2, <1>3 DEF IInv, WaitInv, OnlyOwnRequests, NoLostWakeup
  <1>7. PhaseInv' /\ SignalInv'
    BY <1>1, <1>3 DEF IInv, PhaseInv, SignalInv, FinishedOnce
  <1>8. ResultsInv'
    BY <1>1 DEF ResultsInv, NothingDropped
  <1>9. FinalResultsComplete'
    <2> SUFFICES ASSUME asked \in Searches, finishedSignals[asked] > 0
                 PROVE  FinalResultsComplete'
      BY <1>1 DEF FinalResultsComplete
    <2>1. atOnce = {}
      BY <1>3 DEF IInv, SignalInv, Listed
    <2>2. \A x \in Request : life'[x] = life[x]
      BY <1>3, <2>1
    <2> QED  BY <1>1, <2>2 DEF IInv, FinalResultsComplete, OfSearch, dataVars
  <1> QED  BY <1>4, <1>5, <1>6, <1>7, <1>8, <1>9 DEF IInv

LEMMA ClearInv ==
    ASSUME IInv, Clear
    PROVE  IInv'
  <1>1. /\ wanted' = FALSE /\ searchQueued' = FALSE /\ searchInProgress' = FALSE
        /\ queuedRequests' = {} /\ finishedRequests' = {}
        /\ cancelled' = cancelled \cup queuedRequests
        /\ life' = Released(life, Listed)
        /\ posted' = posted \cup LateSignals(life, Listed)
        /\ UNCHANGED <<asked, searchType, dataVars, timerVars, answer, finishedSignals>>
    BY DEF Clear, Listed
  <1>2. /\ \A x \in Request : life'[x] = IF x \in Listed THEN "gone" ELSE life[x]
        /\ life' \in [Request -> Life]
        /\ Listed \subseteq Request /\ posted' \subseteq Request
        /\ Listed' = {}
    BY <1>1 DEF Released, LateSignals, IInv, TypeOK, Life, Listed
  <1>3. TypeOK'
    BY <1>1, <1>2 DEF IInv, TypeOK, dataVars, timerVars
  <1>4. LifeInv'
    <2>1. \A x \in Request : (Unmade(x))' => life'[x] = "none"
      BY <1>1, <1>2 DEF IInv, LifeInv, Unmade
    <2>2. \A x \in Request : life'[x] \in {"none", "running"} => answer'[x] = NoAnswer
      BY <1>1, <1>2 DEF IInv, LifeInv
    <2>3. NoOrphanWorker'
      BY <1>1, <1>2 DEF IInv, LifeInv, NoOrphanWorker, Listed
    <2> QED  BY <1>1, <1>2, <2>1, <2>2, <2>3 DEF LifeInv
  <1>5. WaitInv'
    BY <1>1 DEF WaitInv, OnlyOwnRequests, NoLostWakeup
  <1>6. PhaseInv' /\ SignalInv'
    BY <1>1, <1>2 DEF IInv, PhaseInv, SignalInv, FinishedOnce
  <1>7. ResultsInv'
    BY <1>1 DEF ResultsInv, NothingDropped
  <1>8. FinalResultsComplete'
    <2> SUFFICES ASSUME asked \in Searches, finishedSignals[asked] > 0
                 PROVE  FinalResultsComplete'
      BY <1>1 DEF FinalResultsComplete
    <2>1. Listed = {}
      BY DEF IInv, SignalInv
    <2>2. \A x \in Request : life'[x] = life[x]
      BY <1>2, <2>1
    <2> QED  BY <1>1, <2>2 DEF IInv, FinalResultsComplete, OfSearch, dataVars
  <1> QED  BY <1>3, <1>4, <1>5, <1>6, <1>7, <1>8 DEF IInv

\* The search has to wait: its requests do not exist, those in the lists do.
LEMMA AskLaterInv ==
    ASSUME IInv, NEW type \in SearchTypes, Ask(type), AskLater(type)
    PROVE  IInv'
  <1>1. /\ asked < MaxSearches /\ asked' = asked + 1 /\ wanted' = TRUE /\ searchType' = type
        /\ cancelled' = cancelled \cup queuedRequests
        /\ UNCHANGED timeoutPosted
    BY DEF Ask
  <1>2. /\ queuedRequests # {} /\ searchQueued' = TRUE /\ searchInProgress' = FALSE
        /\ resultsArray' = NoResults /\ searchResults' = NoResults
        /\ UNCHANGED <<queuedRequests, finishedRequests, searchErrorString,
                       searchResultsUncertain, timerActive, answer, finishedSignals>>
    BY DEF AskLater
  <1>3. PICK atOnce \in SUBSET {r \in queuedRequests : life[r] = "running"} :
           life' = Released(life, atOnce) /\ posted' = posted \cup atOnce
    BY DEF AskLater, CancelledAtOnce
  <1>4. /\ \A x \in Request : life'[x] = IF x \in atOnce THEN "gone" ELSE life[x]
        /\ \A x \in atOnce : x \in queuedRequests /\ life[x] = "running"
        /\ life' \in [Request -> Life]
        /\ queuedRequests \subseteq Request /\ finishedRequests \subseteq Request
        /\ Listed' = Listed /\ Listed \subseteq Request
    BY <1>2, <1>3 DEF Released, IInv, TypeOK, Life, Listed
  <1>5. asked \in Nat /\ asked' \in Searches /\ asked' \in 0 .. MaxSearches
        /\ \A x \in Request : x[1] \in Nat
    BY <1>1 DEF IInv, TypeOK, Searches, Request
  <1>6. finishedSignals[asked'] = 0
    BY <1>1, <1>5 DEF IInv, SignalInv
  <1>7. TypeOK'
    BY <1>1, <1>2, <1>3, <1>4, <1>5, NoResultsType DEF IInv, TypeOK
  <1>8. ASSUME NEW x \in Request, (Unmade(x))'
        PROVE  life[x] = "none" /\ life'[x] = "none"
    <2>1. x[1] > asked
      BY <1>1, <1>5, <1>8 DEF Unmade
    <2> QED  BY <2>1, <1>4 DEF IInv, LifeInv, Unmade
  <1>9. LifeInv'
    <2>1. \A x \in Request : life'[x] \in {"none", "running"} => answer'[x] = NoAnswer
      BY <1>2, <1>4 DEF IInv, LifeInv
    <2>2. \A x \in Listed' : life'[x] # "none"
      BY <1>4 DEF IInv, LifeInv, Listed
    <2>3. NoOrphanWorker'
      BY <1>2, <1>4 DEF IInv, LifeInv, NoOrphanWorker
    <2> QED  BY <1>2, <1>8, <2>1, <2>2, <2>3 DEF IInv, LifeInv
  <1>10. WaitInv'
    <2>1. \A x \in Listed : x \notin (OfSearch(asked))'
      <3> SUFFICES ASSUME NEW x \in Listed, x[1] = asked', x \in Request PROVE FALSE
        BY DEF OfSearch
      <3>1. life[x] = "none"
        BY <1>2, <1>8 DEF Unmade
      <3> QED  BY <3>1 DEF IInv, LifeInv
    <2>2. OnlyOwnRequests'
      BY <1>2, <1>4, <2>1 DEF OnlyOwnRequests
    <2>3. NoLostWakeup'
      BY <1>1, <1>2, <1>3, <1>4 DEF IInv, WaitInv, NoLostWakeup
    <2> QED  BY <2>2, <2>3 DEF WaitInv
  <1>11. PhaseInv'
    BY <1>1, <1>2, <1>5, <1>6 DEF PhaseInv
  <1>12. SignalInv'
    <2>1. \A s \in Searches : s > asked' => s > asked
      BY <1>1, <1>5 DEF Searches
    <2> QED  BY <1>2, <1>4, <1>6, <2>1 DEF IInv, SignalInv, FinishedOnce
  <1>13. ResultsInv'
    BY <1>2 DEF ResultsInv, NothingDropped
  <1>14. FinalResultsComplete'
    BY <1>2, <1>6 DEF FinalResultsComplete
  <1> QED  BY <1>7, <1>9, <1>10, <1>11, <1>12, <1>13, <1>14 DEF IInv

-----------------------------------------------------------------------------
(***************************************************************************)
(* startSearch(), called when no queued request is still worked for: by    *)
(* prefixMatch() and its siblings for the next search, or by the last      *)
(* cancelled request for the search that waited.                           *)
(***************************************************************************)
\* What startSearch() does once the requests are made.
Made(s, type, shown, postedNow, New, Instant, ans) ==
    LET all == [r \in Request |-> IF r \in Instant THEN ans[r] ELSE answer[r]]
        withMatches == {r \in Instant : ans[r].matches # {}}
    IN  /\ searchQueued' = FALSE
        /\ life' = [r \in Request |->
                      IF r \in Instant THEN "gone"
                      ELSE IF r \in New THEN "running" ELSE Released(life, Listed)[r]]
        /\ answer' = all
        /\ posted' = postedNow \cup LateSignals(life, Listed)
        /\ searchErrorString' = (\E r \in Instant : ans[r].error)
        /\ searchResultsUncertain' = (\E r \in Instant : ans[r].uncertain)
        /\ Progress(New \ Instant, withMatches, withMatches # {}, NoResults, shown, type, all, s)

LEMMA StartSearchMakes ==
    ASSUME NEW s \in Searches, NEW type, NEW shown, NEW postedNow,
           StartSearch(s, type, NoResults, shown, life, postedNow)
    PROVE  \E New \in SUBSET ({s} \X Queries), Instant \in SUBSET Request :
               /\ Instant \subseteq New
               /\ \E ans \in [Instant -> Answers] :
                      Made(s, type, shown, postedNow, New, Instant, ans)
  <1>1. PICK New \in SUBSET ({s} \X Queries) : \E Instant \in SUBSET New :
           \E ans \in [Instant -> Answers] : Made(s, type, shown, postedNow, New, Instant, ans)
    BY DEF StartSearch, Made, Listed
  <1>2. PICK Instant \in SUBSET New :
           \E ans \in [Instant -> Answers] : Made(s, type, shown, postedNow, New, Instant, ans)
    BY <1>1
  <1>3. Instant \in SUBSET Request
    BY DEF Request
  <1> QED  BY <1>2, <1>3

LEMMA StartSearchInv ==
    ASSUME IInv, NEW s \in Searches, NEW type \in SearchTypes, NEW shown \in ResultsTables,
           NEW postedNow \in SUBSET Request,
           s >= asked, rest = {},
           \A r \in OfSearch(s) : life[r] = "none",
           \A t \in Searches : t >= s => finishedSignals[t] = 0,
           asked' = s, wanted' = TRUE, searchType' = type,
           cancelled' \in SUBSET Request, timeoutPosted' \in BOOLEAN,
           StartSearch(s, type, NoResults, shown, life, postedNow)
    PROVE  IInv'
  <1>1. PICK New \in SUBSET ({s} \X Queries), Instant \in SUBSET Request :
           /\ Instant \subseteq New
           /\ \E ans \in [Instant -> Answers] :
                  Made(s, type, shown, postedNow, New, Instant, ans)
    BY StartSearchMakes
  <1>a. PICK ans \in [Instant -> Answers] : Made(s, type, shown, postedNow, New, Instant, ans)
    BY <1>1
  <1> DEFINE hit == {r \in Instant : ans[r].matches # {}}
             queued == New \ Instant
  <1>2. /\ searchQueued' = FALSE
        /\ life' = [r \in Request |->
                       IF r \in Instant THEN "gone"
                       ELSE IF r \in New THEN "running" ELSE Released(life, Listed)[r]]
        /\ answer' = [r \in Request |-> IF r \in Instant THEN ans[r] ELSE answer[r]]
        /\ posted' = postedNow \cup LateSignals(life, Listed)
        /\ searchErrorString' = (\E r \in Instant : ans[r].error)
        /\ searchResultsUncertain' = (\E r \in Instant : ans[r].uncertain)
        /\ Progress(queued, hit, hit # {}, NoResults, shown, type, answer', s)
    BY <1>a DEF Made
  <1>3. /\ life \in [Request -> Life] /\ answer \in AnswerTable /\ timerActive \in BOOLEAN
        /\ finishedSignals \in [Searches -> Nat] /\ asked \in Nat /\ s \in Nat
        /\ Listed \subseteq Request
    BY DEF IInv, TypeOK, AnswerTable, Listed, Searches
  <1>4. New \subseteq OfSearch(s) /\ New \subseteq Request /\ Instant \subseteq New
    BY <1>1 DEF OfSearch, Request
  <1>5. \A r \in Request : life'[r] = IF r \in Instant THEN "gone"
                                      ELSE IF r \in New THEN "running"
                                      ELSE IF r \in Listed THEN "gone" ELSE life[r]
    BY <1>2 DEF Released
  <1>6. \A r \in Request : answer'[r] = IF r \in Instant THEN ans[r] ELSE answer[r]
    BY <1>2
  <1>7. \A r \in OfSearch(s) \ Instant : answer'[r] = NoAnswer
    BY <1>6 DEF IInv, LifeInv, OfSearch
  <1>8. answer' \in AnswerTable
    BY <1>2, <1>3 DEF AnswerTable
  <1>9. NoResults = TableOf(type, answer', OfSearch(s) \ (queued \cup hit))
    <2>1. ASSUME NEW r \in OfSearch(s) \ (queued \cup hit)
          PROVE  answer'[r].matches = {}
      <3>1. CASE r \in Instant
        BY <1>4, <1>6, <3>1
      <3>2. CASE r \notin Instant
        BY <1>7, <3>2 DEF NoAnswer
      <3> QED  BY <3>1, <3>2
    <2> QED  BY <2>1, NothingFound
  <1>10. /\ queued \in SUBSET OfSearch(s) /\ hit \in SUBSET OfSearch(s)
         /\ queued \cap hit = {} /\ (hit # {}) \in BOOLEAN
    BY <1>4
  <1> HIDE DEF hit
  <1>11. /\ queuedRequests' = queued
         /\ finishedRequests' = IF queued = {} THEN {} ELSE hit
         /\ searchInProgress' = (queued # {})
         /\ finishedSignals' = IF queued = {} THEN [finishedSignals EXCEPT ![s] = @ + 1]
                               ELSE finishedSignals
         /\ resultsArray' = TableOf(type, answer', OfSearch(s) \
                                                 (queuedRequests' \cup finishedRequests'))
         /\ resultsArray' \in ResultsTables
         /\ searchResults' \in ResultsTables
         /\ timerActive' \in BOOLEAN
    <2> HIDE DEF queued
    <2> QED  BY <1>2, <1>3, <1>8, <1>9, <1>10, ProgressMerges
  <1>12. hit \subseteq Instant
    BY DEF hit
  <1>13. /\ Listed' \subseteq New /\ (queued = {} => Listed' = {})
         /\ searchQueued' = FALSE /\ OfSearch(s) = (OfSearch(asked))'
         /\ Instant \subseteq New /\ Instant \subseteq Request
    BY <1>2, <1>4, <1>11, <1>12 DEF Listed, OfSearch
  <1>14. TypeOK'
    <2>1. life' \in [Request -> Life]
      <3>1. \A r \in Request : life'[r] \in Life
        BY <1>3, <1>5 DEF Life
      <3> QED  BY <1>2, <3>1
    <2>2. posted' \subseteq Request /\ queuedRequests' \subseteq Request
          /\ finishedRequests' \subseteq Request
      BY <1>2, <1>3, <1>4, <1>13 DEF LateSignals, Listed
    <2>3. finishedSignals' \in [Searches -> Nat]
      BY <1>3, <1>11
    <2>4. searchErrorString' \in BOOLEAN /\ searchResultsUncertain' \in BOOLEAN
          /\ searchInProgress' \in BOOLEAN
      BY <1>2, <1>11
    <2>5. asked' \in 0 .. MaxSearches /\ answer' \in [Request -> Answers \cup {NoAnswer}]
      BY <1>8 DEF AnswerTable, Searches
    <2> QED  BY <1>11, <1>13, <2>1, <2>2, <2>3, <2>4, <2>5 DEF TypeOK
  <1>15. LifeInv'
    <2>1. ASSUME NEW r \in Request, (Unmade(r))' PROVE life'[r] = "none"
      <3>1. r[1] > s
        BY <1>13, <2>1 DEF Unmade
      <3>2. r \notin New /\ r[1] > asked
        BY <1>3, <3>1 DEF Request, Searches
      <3>3. life[r] = "none"
        BY <3>2 DEF IInv, LifeInv, Unmade
      <3>4. r \notin Listed
        BY <3>3 DEF IInv, LifeInv
      <3> QED  BY <1>5, <1>13, <3>2, <3>3, <3>4
    <2>2. ASSUME NEW r \in Request, life'[r] \in {"none", "running"} PROVE answer'[r] = NoAnswer
      <3>1. r \notin Instant
        BY <1>5, <2>2
      <3>2. CASE r \in New
        BY <1>4, <1>7, <3>1, <3>2
      <3>3. CASE r \notin New
        <4>1. life[r] \in {"none", "running"}
          BY <1>5, <2>2, <3>1, <3>3
        <4> QED  BY <1>6, <3>1, <4>1 DEF IInv, LifeInv
      <3> QED  BY <3>2, <3>3
    <2>3. \A r \in Listed' : life'[r] # "none"
      BY <1>4, <1>5, <1>13
    <2>4. queuedRequests' \cap finishedRequests' = {}
      BY <1>11, <1>12
    <2>5. NoOrphanWorker'
      <3>1. ASSUME NEW r \in Request, life'[r] \in {"running", "flagged"}
            PROVE  r \in queued /\ life'[r] = "running"
        <4>1. r \notin Instant /\ (r \notin New => r \notin Listed /\ life'[r] = life[r])
          BY <1>5, <3>1
        <4>2. r \in New
          BY <3>1, <4>1 DEF IInv, LifeInv, NoOrphanWorker, Listed
        <4> QED  BY <1>5, <4>1, <4>2
      <3> QED  BY <1>11, <3>1 DEF NoOrphanWorker
    <2> QED  BY <2>1, <2>2, <2>3, <2>4, <2>5 DEF LifeInv
  <1>16. WaitInv'
    <2>1. OnlyOwnRequests'
      BY <1>4, <1>13 DEF OnlyOwnRequests
    <2>2. \A r \in queuedRequests' : life'[r] = "running"
      BY <1>4, <1>5, <1>11
    <2>3. NoLostWakeup'
      BY <1>11, <1>13, <2>2 DEF NoLostWakeup
    <2> QED  BY <2>1, <2>3 DEF WaitInv
  <1>17. finishedSignals[s] = 0 /\ finishedSignals'[s] = IF queued = {} THEN 1 ELSE 0
    BY <1>3, <1>11
  <1>18. PhaseInv'
    <2>1. searchInProgress' <=> queued # {}
      BY <1>11
    <2>2. finishedSignals'[asked'] = IF queued = {} THEN 1 ELSE 0
      BY <1>17
    <2> HIDE DEF queued
    <2>3. finishedSignals'[asked'] = 0 => searchInProgress'
      BY <2>1, <2>2
    <2>4. finishedSignals'[asked'] > 0 => ~searchInProgress'
      BY <2>1, <2>2
    <2> QED  BY <1>13, <2>3, <2>4 DEF PhaseInv
  <1>19. SignalInv'
    <2>1. ASSUME NEW t \in Searches PROVE finishedSignals'[t] = IF t = s /\ queued = {} THEN 1
                                                              ELSE finishedSignals[t]
      BY <1>3, <1>11, <1>17
    <2>2. \A t \in Searches : finishedSignals'[t] <= 1
      BY <2>1 DEF IInv, SignalInv, FinishedOnce
    <2>3. \A t \in Searches : t > asked' => finishedSignals'[t] = 0
      BY <1>3, <2>1 DEF Searches
    <2>4. \A t \in Searches : t = asked' /\ finishedSignals'[t] > 0 => Listed' = {}
      BY <1>13, <1>17
    <2> QED  BY <2>2, <2>3, <2>4 DEF SignalInv, FinishedOnce
  <1>20. resultsArray' = TableOf(searchType', answer', OfSearch(s) \ Listed')
    BY <1>11 DEF Listed
  <1>21. FlagsOf(OfSearch(s) \ queuedRequests)'
    <2>1. \A r \in Instant : r \in OfSearch(s) \ queuedRequests' /\ answer'[r] = ans[r]
      BY <1>4, <1>6, <1>11, <1>13
    <2>2. \A r \in OfSearch(s) \ queuedRequests' :
             r \notin Instant => ~answer'[r].error /\ ~answer'[r].uncertain
      BY <1>7 DEF NoAnswer
    <2>3. (\E r \in Instant : ans[r].error) <=>
          (\E r \in OfSearch(s) \ queuedRequests' : answer'[r].error)
      BY <2>1, <2>2
    <2>4. (\E r \in Instant : ans[r].uncertain) <=>
          (\E r \in OfSearch(s) \ queuedRequests' : answer'[r].uncertain)
      BY <2>1, <2>2
    <2> QED  BY <1>2, <1>13, <2>3, <2>4 DEF FlagsOf, OfSearch
  <1>22. ResultsInv'
    <2>1. NothingDropped'
      BY <1>13, <1>20 DEF NothingDropped, TableOf, OfSearch, Listed
    <2> QED  BY <1>13, <1>21, <2>1 DEF ResultsInv, FlagsOf, OfSearch
  <1>23. FinalResultsComplete'
    <2> SUFFICES ASSUME finishedSignals'[s] > 0
                 PROVE  /\ \A r \in OfSearch(s) : life'[r] \in {"none", "gone"}
                        /\ resultsArray' = TableOf(searchType', answer', OfSearch(s))
                        /\ FlagsOf(OfSearch(s))'
      BY DEF FinalResultsComplete, TableOf, FlagsOf, OfSearch
    <2>1. queued = {} /\ Listed' = {} /\ New = Instant /\ queuedRequests' = {}
      <3>1. queued = {}
        BY <1>17
      <3>2. New = Instant
        BY <1>13, <3>1
      <3> HIDE DEF queued
      <3> QED  BY <1>11, <1>13, <3>1, <3>2
    <2>2. ASSUME NEW r \in OfSearch(s) PROVE life'[r] \in {"none", "gone"}
      BY <1>5, <2>1 DEF OfSearch
    <2>3. OfSearch(s) \ Listed' = OfSearch(s) /\ OfSearch(s) \ queuedRequests' = OfSearch(s)
      BY <2>1
    <2>4. FlagsOf(OfSearch(s))'
      BY <1>21, <2>3 DEF FlagsOf, OfSearch
    <2> QED  BY <1>20, <2>2, <2>3, <2>4
  <1> QED  BY <1>14, <1>15, <1>16, <1>18, <1>19, <1>22, <1>23 DEF IInv

LEMMA AskInv ==
    ASSUME IInv, NEW type \in SearchTypes, Ask(type)
    PROVE  IInv'
  <1>1. /\ asked < MaxSearches /\ asked' = asked + 1 /\ wanted' = TRUE /\ searchType' = type
        /\ cancelled' = cancelled \cup queuedRequests
        /\ UNCHANGED timeoutPosted
    BY DEF Ask
  <1>2. CASE AskLater(type)
    BY <1>2, AskLaterInv
  <1>3. CASE AskNow(type)
    <2>1. /\ queuedRequests = {}
          /\ StartSearch(asked + 1, type, NoResults, NoResults, life, posted)
      BY <1>3 DEF AskNow
    <2>2. asked \in Nat /\ asked + 1 \in Searches /\ asked + 1 >= asked
      BY <1>1 DEF IInv, TypeOK, Searches
    <2>3. rest = {}
      BY <2>1 DEF rest
    <2>4. \A r \in OfSearch(asked + 1) : life[r] = "none"
      BY <2>2 DEF IInv, LifeInv, Unmade, OfSearch
    <2>5. \A t \in Searches : t >= asked + 1 => finishedSignals[t] = 0
      BY <2>2 DEF IInv, SignalInv, Searches
    <2>6. /\ posted \in SUBSET Request /\ cancelled' \in SUBSET Request
          /\ timeoutPosted' \in BOOLEAN
      BY <1>1 DEF IInv, TypeOK
    <2> DEFINE s == asked + 1
    <2>7. /\ s \in Searches /\ s >= asked /\ asked' = s
          /\ \A r \in OfSearch(s) : life[r] = "none"
          /\ \A t \in Searches : t >= s => finishedSignals[t] = 0
          /\ StartSearch(s, type, NoResults, NoResults, life, posted)
      BY <1>1, <2>1, <2>2, <2>4, <2>5
    <2> HIDE DEF s
    <2> QED  BY <1>1, <2>3, <2>6, <2>7, NoResultsType, StartSearchInv
  <1> QED  BY <1>2, <1>3 DEF Ask

-----------------------------------------------------------------------------
(***************************************************************************)
(* requestFinished().                                                      *)
(***************************************************************************)
\* The requests it erases, and what the lists become.
Erased == IF rest = {} THEN done \cup finishedRequests ELSE done \ hits

LEMMA EraseFacts ==
    ASSUME IInv, NEW e \in posted, Erase(e)
    PROVE  /\ rest \subseteq queuedRequests /\ hits \subseteq done /\ done \subseteq queuedRequests
           /\ done \cap rest = {} /\ queuedRequests = done \cup rest
           /\ Erased \subseteq Listed /\ Erased \cap rest = {} /\ Listed \subseteq Request
           /\ life' \in [Request -> Life] /\ posted' \subseteq Request
           /\ \A r \in Request : life'[r] = IF r \in Erased THEN "gone" ELSE life[r]
           /\ \A r \in Request : life'[r] = "running" => r \in rest
           /\ \A r \in Request : life'[r] = "flagged" =>
                                   r \in hits \cup finishedRequests /\ rest # {}
           /\ \A r \in rest : life'[r] = "running"
  <1>1. /\ life \in [Request -> Life] /\ posted \subseteq Request
        /\ queuedRequests \subseteq Request /\ finishedRequests \subseteq Request
    BY DEF IInv, TypeOK
  <1>2. /\ rest \subseteq queuedRequests /\ hits \subseteq done /\ done \subseteq queuedRequests
        /\ done \cap rest = {} /\ queuedRequests = done \cup rest
    BY DEF rest, hits, done
  <1>3. rest \cap finishedRequests = {}
    BY <1>2 DEF IInv, LifeInv
  <1>4. Erased \subseteq Listed /\ Erased \cap rest = {} /\ Listed \subseteq Request
    BY <1>1, <1>2, <1>3 DEF Erased, Listed
  <1>5. /\ life' = Released(life, Erased)
        /\ posted' = (posted \ {e}) \cup LateSignals(life, Erased)
    BY DEF Erase, Erased
  <1>6. \A r \in Request : life'[r] = IF r \in Erased THEN "gone" ELSE life[r]
    BY <1>5 DEF Released
  <1>7. life' \in [Request -> Life] /\ posted' \subseteq Request
    BY <1>1, <1>4, <1>5 DEF Released, LateSignals, Life
  <1>8. ASSUME NEW r \in rest PROVE life[r] = "running" /\ life'[r] = "running"
    <2>1. r \in queuedRequests /\ r \in Request /\ life[r] \notin {"flagged", "gone"}
      BY <1>1, <1>2 DEF rest, done, isFinished
    <2>2. life[r] # "none"
      BY <2>1 DEF IInv, LifeInv, Listed
    <2>3. life[r] = "running"
      BY <1>1, <2>1, <2>2 DEF Life
    <2> QED  BY <1>4, <1>6, <2>1, <2>3
  <1>9. ASSUME NEW r \in Request, life'[r] = "running" PROVE r \in rest
    <2>1. life[r] = "running" /\ r \in queuedRequests
      BY <1>6, <1>9 DEF IInv, LifeInv, NoOrphanWorker
    <2> QED  BY <2>1 DEF rest, done, isFinished
  <1>10. ASSUME NEW r \in Request, life'[r] = "flagged"
         PROVE  r \in hits \cup finishedRequests /\ rest # {}
    <2>1. life[r] = "flagged" /\ r \in Listed /\ r \notin Erased
      BY <1>6, <1>10 DEF IInv, LifeInv, NoOrphanWorker
    <2>2. r \in done \cup finishedRequests
      BY <2>1 DEF done, isFinished, Listed
    <2> QED  BY <2>1, <2>2 DEF Erased
  <1> QED  BY <1>2, <1>4, <1>6, <1>7, <1>8, <1>9, <1>10

\* The invariant's first part, for the lists as they become.
LEMMA EraseLife ==
    ASSUME IInv, NEW e \in posted, Erase(e), UNCHANGED <<asked, searchQueued, answer>>,
           queuedRequests' = rest,
           finishedRequests' = IF rest = {} THEN {} ELSE finishedRequests \cup hits
    PROVE  LifeInv' /\ Listed' \subseteq Listed
  <1>1. Listed' \subseteq Listed
    BY EraseFacts DEF Listed
  <1>2. ASSUME NEW r \in Request, (Unmade(r))' PROVE life'[r] = "none"
    <2>1. life[r] = "none"
      BY <1>2 DEF IInv, LifeInv, Unmade
    <2>2. r \notin Erased
      BY <2>1, EraseFacts DEF IInv, LifeInv
    <2> QED  BY <2>1, <2>2, EraseFacts
  <1>3. \A r \in Request : life'[r] \in {"none", "running"} => answer'[r] = NoAnswer
    BY EraseFacts DEF IInv, LifeInv
  <1>4. \A r \in Listed' : life'[r] # "none"
    BY <1>1, EraseFacts DEF IInv, LifeInv
  <1>5. queuedRequests' \cap finishedRequests' = {}
    BY EraseFacts DEF IInv, LifeInv
  <1>6. NoOrphanWorker'
    BY EraseFacts DEF NoOrphanWorker, Listed
  <1> QED  BY <1>1, <1>2, <1>3, <1>4, <1>5, <1>6 DEF LifeInv

\* A search in progress takes in what is finished.
LEMMA CollectInv ==
    ASSUME IInv, NEW e \in posted, Collect(e),
           UNCHANGED <<asked, wanted, searchType, timeoutPosted, cancelled>>
    PROVE  IInv'
  <1> DEFINE fin == finishedRequests \cup hits
             O == OfSearch(asked)
  <1>1. /\ searchInProgress /\ Erase(e)
        /\ searchErrorString' = (searchErrorString \/ \E r \in done : answer[r].error)
        /\ searchResultsUncertain' = (searchResultsUncertain \/ \E r \in done : answer[r].uncertain)
        /\ Progress(rest, fin, hits # {}, resultsArray, searchResults, searchType, answer, asked)
        /\ UNCHANGED <<searchQueued, answer>>
    BY DEF Collect, NoteUncertain
  <1>2. /\ wanted /\ ~searchQueued /\ asked \in Searches
        /\ queuedRequests # {} /\ Listed \subseteq O
        /\ finishedSignals[asked] = 0
    BY <1>1, InProgress
  <1>3. /\ answer \in AnswerTable /\ searchType \in SearchTypes /\ timerActive \in BOOLEAN
        /\ searchResults \in ResultsTables /\ finishedSignals \in [Searches -> Nat]
        /\ queuedRequests \cap finishedRequests = {}
    BY DEF IInv, TypeOK, AnswerTable, LifeInv
  <1>4. /\ rest \subseteq queuedRequests /\ hits \subseteq done /\ done \subseteq queuedRequests
        /\ done \cap rest = {} /\ queuedRequests = done \cup rest
    BY <1>1, EraseFacts
  <1>5. /\ rest \in SUBSET O /\ fin \in SUBSET O /\ rest \cap fin = {}
        /\ (hits # {}) \in BOOLEAN
    BY <1>2, <1>3, <1>4 DEF Listed
  <1>6. resultsArray = TableOf(searchType, answer, O \ (rest \cup fin))
    <2>1. resultsArray = TableOf(searchType, answer, O \ Listed)
      BY <1>1, NothingDroppedIs DEF IInv, ResultsInv
    <2>2. O \ Listed \subseteq O \ (rest \cup fin)
      BY <1>4 DEF Listed
    <2>3. \A r \in (O \ (rest \cup fin)) \ (O \ Listed) : answer[r].matches = {}
      BY <1>4 DEF Listed, hits
    <2>4. Found(answer, O \ Listed) = Found(answer, O \ (rest \cup fin))
      <3> HIDE DEF O, fin
      <3> QED  BY <2>2, <2>3, FoundSame
    <2> QED  BY <2>1, <2>4 DEF TableOf
  <1> HIDE DEF fin
  <1>7. /\ queuedRequests' = rest
        /\ finishedRequests' = IF rest = {} THEN {} ELSE fin
        /\ searchInProgress' = (rest # {})
        /\ finishedSignals' = IF rest = {} THEN [finishedSignals EXCEPT ![asked] = @ + 1]
                              ELSE finishedSignals
        /\ resultsArray' = TableOf(searchType, answer, O \ (queuedRequests' \cup finishedRequests'))
        /\ resultsArray' \in ResultsTables
        /\ searchResults' \in ResultsTables
        /\ timerActive' \in BOOLEAN
    BY <1>1, <1>2, <1>3, <1>5, <1>6, ProgressMerges
  <1>8. LifeInv' /\ Listed' \subseteq Listed
    BY <1>1, <1>7, EraseLife DEF fin
  <1>9. ~searchQueued' /\ O = (OfSearch(asked))' /\ (rest = {} => Listed' = {})
    BY <1>1, <1>2, <1>7 DEF OfSearch, Listed
  <1>10. finishedSignals'[asked] = IF rest = {} THEN 1 ELSE 0
    BY <1>2, <1>3, <1>7
  <1>11. TypeOK'
    <2>1. life' \in [Request -> Life] /\ posted' \subseteq Request /\ Listed \subseteq Request
      BY <1>1, EraseFacts
    <2>2. queuedRequests' \subseteq Request /\ finishedRequests' \subseteq Request
      BY <1>8, <2>1 DEF Listed
    <2>3. finishedSignals' \in [Searches -> Nat]
      BY <1>2, <1>3, <1>7
    <2>4. searchErrorString' \in BOOLEAN /\ searchResultsUncertain' \in BOOLEAN
          /\ searchInProgress' \in BOOLEAN
      BY <1>1, <1>7
    <2> QED  BY <1>1, <1>7, <2>1, <2>2, <2>3, <2>4 DEF IInv, TypeOK
  <1>12. WaitInv'
    <2>1. OnlyOwnRequests'
      BY <1>2, <1>8, <1>9 DEF OnlyOwnRequests
    <2>2. \A r \in rest : life'[r] = "running"
      BY <1>1, EraseFacts
    <2>3. NoLostWakeup'
      BY <1>7, <1>9, <2>2 DEF NoLostWakeup
    <2> QED  BY <2>1, <2>3 DEF WaitInv
  <1>13. PhaseInv'
    <2>1. finishedSignals'[asked] = 0 <=> rest # {}
      BY <1>10
    <2>2. finishedSignals'[asked] > 0 <=> rest = {}
      BY <1>10
    <2> QED  BY <1>2, <1>7, <1>9, <2>1, <2>2 DEF PhaseInv
  <1>14. SignalInv'
    <2>1. \A t \in Searches : finishedSignals'[t] = IF t = asked /\ rest = {} THEN 1
                                                  ELSE finishedSignals[t]
      BY <1>2, <1>3, <1>7, <1>10
    <2>2. asked \in Nat
      BY <1>2 DEF Searches
    <2>3. \A t \in Searches : finishedSignals'[t] <= 1
      BY <2>1 DEF IInv, SignalInv, FinishedOnce
    <2>4. \A t \in Searches : t > asked' => finishedSignals'[t] = 0
      BY <2>1, <2>2 DEF IInv, SignalInv, Searches
    <2>5. \A t \in Searches : t = asked' /\ finishedSignals'[t] > 0 => Listed' = {}
      BY <1>9, <1>10
    <2> QED  BY <2>3, <2>4, <2>5 DEF SignalInv, FinishedOnce
  <1>15. resultsArray' = TableOf(searchType', answer', O \ Listed')
    BY <1>1, <1>7 DEF Listed
  <1>16. FlagsOf(O \ queuedRequests)'
    <2>1. FlagsOf(O \ queuedRequests)
      BY <1>1 DEF IInv, ResultsInv
    <2>2. O \ rest = (O \ queuedRequests) \cup done
      BY <1>2, <1>4 DEF Listed
    <2>3. searchErrorString' <=> \E r \in O \ rest : answer[r].error
      BY <1>1, <2>1, <2>2 DEF FlagsOf
    <2>4. searchResultsUncertain' <=> \E r \in O \ rest : answer[r].uncertain
      BY <1>1, <2>1, <2>2 DEF FlagsOf
    <2>5. searchErrorString' \in BOOLEAN /\ searchResultsUncertain' \in BOOLEAN
      BY <1>11 DEF TypeOK
    <2> QED  BY <1>1, <1>7, <1>9, <2>3, <2>4, <2>5 DEF FlagsOf
  <1>17. ResultsInv'
    <2>1. NothingDropped'
      BY <1>9, <1>15 DEF NothingDropped, TableOf
    <2> QED  BY <1>9, <1>16, <2>1 DEF ResultsInv, FlagsOf
  <1>18. FinalResultsComplete'
    <2> SUFFICES ASSUME finishedSignals'[asked] > 0
                 PROVE  /\ \A r \in O : life'[r] \in {"none", "gone"}
                        /\ resultsArray' = TableOf(searchType', answer', O)
                        /\ FlagsOf(O)'
      BY DEF FinalResultsComplete, TableOf, FlagsOf, OfSearch
    <2>1. rest = {}
      BY <1>10
    <2>2. \A r \in O : life'[r] \in {"none", "gone"}
      BY <1>1, <2>1, EraseFacts DEF OfSearch, Life
    <2>3. O \ Listed' = O /\ O \ queuedRequests' = O
      BY <1>7, <1>9, <2>1
    <2>4. FlagsOf(O)'
      BY <1>9, <1>16, <2>3 DEF FlagsOf
    <2> QED  BY <1>15, <2>2, <2>3, <2>4
  <1> QED  BY <1>8, <1>11, <1>12, <1>13, <1>14, <1>17, <1>18 DEF IInv

\* A cancelled search drops what is finished.
LEMMA DiscardInv ==
    ASSUME IInv, NEW e \in posted, Discard(e),
           UNCHANGED <<asked, wanted, searchType, timeoutPosted, cancelled>>
    PROVE  IInv'
  <1>1. /\ ~searchInProgress /\ (rest # {} \/ ~searchQueued) /\ Erase(e)
        /\ queuedRequests' = rest
        /\ finishedRequests' = IF rest = {} THEN {} ELSE finishedRequests \cup hits
        /\ searchResultsUncertain' = (searchResultsUncertain \/ \E r \in done : answer[r].uncertain)
        /\ UNCHANGED <<searchQueued, searchInProgress, resultsArray, searchResults,
                       searchErrorString, timerActive, answer, finishedSignals>>
    BY DEF Discard, NoteUncertain
  <1>2. LifeInv' /\ Listed' \subseteq Listed
    BY <1>1, EraseLife
  <1>3. TypeOK'
    <2>1. life' \in [Request -> Life] /\ posted' \subseteq Request /\ Listed \subseteq Request
      BY <1>1, EraseFacts
    <2>2. queuedRequests' \subseteq Request /\ finishedRequests' \subseteq Request
      BY <1>2, <2>1 DEF Listed
    <2>3. searchResultsUncertain' \in BOOLEAN
      BY <1>1
    <2> QED  BY <1>1, <2>1, <2>2, <2>3 DEF IInv, TypeOK
  <1>4. WaitInv'
    <2>1. OnlyOwnRequests'
      BY <1>1, <1>2 DEF IInv, WaitInv, OnlyOwnRequests, OfSearch
    <2>2. \A r \in rest : life'[r] = "running" /\ r \in queuedRequests
      BY <1>1, EraseFacts
    <2>3. NoLostWakeup'
      BY <1>1, <2>2 DEF IInv, WaitInv, NoLostWakeup
    <2> QED  BY <2>1, <2>3 DEF WaitInv
  <1>5. PhaseInv' /\ SignalInv'
    BY <1>1, <1>2 DEF IInv, PhaseInv, SignalInv, FinishedOnce
  <1>6. ResultsInv'
    BY <1>1 DEF IInv, ResultsInv, NothingDropped
  <1>7. FinalResultsComplete'
    <2> SUFFICES ASSUME asked \in Searches, finishedSignals[asked] > 0
                 PROVE  FinalResultsComplete'
      BY <1>1 DEF FinalResultsComplete
    <2>1. Listed = {} /\ done = {}
      BY DEF IInv, SignalInv, Listed, done
    <2>2. \A r \in Request : life'[r] = life[r]
      BY <1>1, <2>1, EraseFacts
    <2>3. searchResultsUncertain' = searchResultsUncertain
      BY <1>1, <2>1 DEF IInv, TypeOK
    <2> QED  BY <1>1, <2>2, <2>3 DEF IInv, FinalResultsComplete, OfSearch
  <1> QED  BY <1>2, <1>3, <1>4, <1>5, <1>6, <1>7 DEF IInv

\* The last cancelled request starts the search that waited.
LEMMA StartQueuedInv ==
    ASSUME IInv, NEW e \in posted, StartQueued(e),
           UNCHANGED <<asked, wanted, searchType, timeoutPosted, cancelled>>
    PROVE  IInv'
  <1>1. /\ rest = {} /\ searchQueued
        /\ StartSearch(asked, searchType, resultsArray, searchResults, life, posted \ {e})
    BY DEF StartQueued
  <1>2. wanted /\ asked \in Searches /\ ~(finishedSignals[asked] > 0)
    BY <1>1 DEF IInv, PhaseInv
  <1>3. resultsArray = NoResults
    BY <1>1 DEF IInv, ResultsInv
  <1>4. \A r \in OfSearch(asked) : life[r] = "none"
    BY <1>1 DEF IInv, LifeInv, Unmade, OfSearch
  <1>5. asked >= asked /\ \A t \in Searches : t >= asked => finishedSignals[t] = 0
    <2>1. finishedSignals[asked] \in Nat /\ asked \in Int /\ Searches \subseteq Int
      BY <1>2 DEF IInv, TypeOK, Searches
    <2>2. finishedSignals[asked] = 0
      BY <1>2, <2>1
    <2>3. \A t \in Searches : t > asked => finishedSignals[t] = 0
      BY DEF IInv, SignalInv
    <2>4. \A t \in Searches : t >= asked => t = asked \/ t > asked
      BY <2>1
    <2> QED  BY <2>1, <2>2, <2>3, <2>4
  <1>6. /\ searchType \in SearchTypes /\ searchResults \in ResultsTables
        /\ posted \ {e} \in SUBSET Request /\ cancelled' \in SUBSET Request
        /\ timeoutPosted' \in BOOLEAN /\ wanted = TRUE
    BY <1>2 DEF IInv, TypeOK
  <1> QED  BY <1>1, <1>2, <1>3, <1>4, <1>5, <1>6, StartSearchInv

LEMMA NextInv == IInv /\ [Next]_vars => IInv'
  <1> SUFFICES ASSUME IInv, [Next]_vars PROVE IInv'
    OBVIOUS
  <1>1. ASSUME NEW type \in SearchTypes, Ask(type) PROVE IInv'
    BY <1>1, AskInv
  <1>2. CASE Cancel
    BY <1>2, CancelInv
  <1>3. CASE Clear
    BY <1>3, ClearInv
  <1>4. ASSUME NEW e \in Request, RequestFinished(e) PROVE IInv'
    BY <1>4, CollectInv, DiscardInv, StartQueuedInv DEF RequestFinished
  <1>5. CASE TimerUpdate
    BY <1>5, TimerUpdateInv
  <1>6. CASE TimerExpires
    BY <1>6, TimerInv DEF TimerExpires
  <1>7. ASSUME NEW r \in Request, Worker(r) PROVE IInv'
    BY <1>7, WorkerFlagInv, WorkerEmitInv DEF Worker
  <1>8. CASE UNCHANGED vars
    <2>1. timerActive' \in BOOLEAN /\ timeoutPosted' \in BOOLEAN
      BY <1>8 DEF vars, timerVars, IInv, TypeOK
    <2> QED  BY <1>8, <2>1, TimerInv DEF vars
  <1> QED  BY <1>1, <1>2, <1>3, <1>4, <1>5, <1>6, <1>7, <1>8 DEF Next, User, Gui

THEOREM Inductive == Spec => []IInv
  BY InitInv, NextInv, PTL DEF Spec

(***************************************************************************)
(* No request is lost between the lists, the workers and the event queue,  *)
(* for any number of searches and of requests (wordfinder.cc).             *)
(***************************************************************************)
THEOREM Accounted == Spec => []RequestsAccountedFor
  <1>1. IInv => RequestsAccountedFor
    BY DEF IInv, LifeInv, WaitInv, SignalInv, ResultsInv, RequestsAccountedFor
  <1> QED  BY <1>1, Inductive, PTL

(***************************************************************************)
(* What finished() announces is complete, for any answers in any order.    *)
(***************************************************************************)
THEOREM Complete == Spec => []FinalResultsComplete
  <1>1. IInv => FinalResultsComplete
    BY DEF IInv
  <1> QED  BY <1>1, Inductive, PTL

-----------------------------------------------------------------------------
(***************************************************************************)
(* WordFinder implements SearchService.  The state as the service sees it: *)
(***************************************************************************)
Phase ==
    IF \E s \in Searches : s = asked /\ finishedSignals[s] > 0 THEN "finished"
    ELSE IF wanted THEN "searching" ELSE "idle"

FoundNow == Usable(searchType, Found(answer, OfSearch(asked)))

Reported ==
    \/ resultsArray = Merged(FoundNow)
    \/ Phase # "finished" /\ \E some \in SUBSET FoundNow : resultsArray = Merged(some)

LEMMA FoundNowType == ASSUME IInv PROVE FoundNow \subseteq Match
  <1>1. answer \in AnswerTable /\ OfSearch(asked) \in SUBSET Request
    BY DEF IInv, TypeOK, AnswerTable, OfSearch
  <1> QED  BY <1>1, FoundType, UsableType DEF FoundNow

\* Whatever the lists hold, the table is made of what was found.
LEMMA AlwaysReported == IInv /\ Phase # "idle" => Reported
  <1> SUFFICES ASSUME IInv, Phase # "idle" PROVE Reported
    OBVIOUS
  <1>1. CASE Phase = "finished"
    <2>1. asked \in Searches /\ finishedSignals[asked] > 0
      BY <1>1 DEF Phase
    <2> QED  BY <2>1 DEF IInv, FinalResultsComplete, Reported, FoundNow
  <1>2. CASE Phase # "finished"
    <2>1. wanted /\ asked \in Searches /\ ~(finishedSignals[asked] > 0)
      BY <1>2 DEF Phase, IInv, PhaseInv
    <2>2. finishedSignals[asked] = 0
      BY <2>1 DEF IInv, TypeOK
    <2>3. CASE searchInProgress
      <3> DEFINE some == Usable(searchType, Found(answer, OfSearch(asked) \ Listed))
      <3>1. some \subseteq FoundNow
        BY FoundGrows, UsableGrows DEF FoundNow
      <3>2. resultsArray = Merged(some)
        BY <2>3 DEF IInv, ResultsInv, NothingDropped
      <3> QED  BY <1>2, <3>1, <3>2 DEF Reported
    <2>4. CASE searchQueued
      <3>1. resultsArray = Merged({})
        BY <2>4 DEF IInv, ResultsInv, Merged, NoResults
      <3> QED  BY <1>2, <3>1 DEF Reported
    <2> QED  BY <2>1, <2>2, <2>3, <2>4 DEF IInv, PhaseInv
  <1> QED  BY <1>1, <1>2

LEMMA ReportedNext == (IInv /\ Phase # "idle" => Reported)'
  BY AlwaysReported, PTL

\* The service's definitions in these words.
LEMMA ServiceIs ==
    /\ Abstract!Idle <=>
          asked = 0 /\ Phase = "idle" /\ FoundNow = {} /\ resultsArray = NoResults
    /\ (asked' \in 1 .. MaxSearches /\ asked' = asked + 1 /\ Phase' \in {"searching", "finished"}
        /\ FoundNow' \subseteq Match /\ Reported') => Abstract!SNext
    /\ (Phase = "searching" /\ Phase' \in {"searching", "finished"} /\ UNCHANGED asked
        /\ FoundNow \subseteq FoundNow' /\ FoundNow' \subseteq Match /\ Reported') => Abstract!SNext
    /\ (Phase = "searching" /\ Phase' = "idle"
        /\ UNCHANGED <<asked, FoundNow, resultsArray>>) => Abstract!SNext
    /\ (Phase = "idle" /\ FoundNow \subseteq FoundNow' /\ FoundNow' \subseteq Match
        /\ UNCHANGED <<asked, Phase, resultsArray>>) => Abstract!SNext
    /\ UNCHANGED <<asked, Phase, FoundNow, resultsArray>> => UNCHANGED Abstract!svars
  <1>1. Abstract!Idle <=>
          asked = 0 /\ Phase = "idle" /\ FoundNow = {} /\ resultsArray = NoResults
    BY DEF Abstract!Idle, Phase, FoundNow, NoResults, Abstract!NoResults
  <1>2. (asked' \in 1 .. MaxSearches /\ asked' = asked + 1 /\ Phase' \in {"searching", "finished"}
        /\ FoundNow' \subseteq Match /\ Reported') => Abstract!SNext
    BY DEF Abstract!SNext, Abstract!AskFor, Abstract!Reports, Abstract!Match, Abstract!Merged,
           Phase, FoundNow, Reported, Merged, Match
  <1>3. (Phase = "searching" /\ Phase' \in {"searching", "finished"} /\ UNCHANGED asked
        /\ FoundNow \subseteq FoundNow' /\ FoundNow' \subseteq Match /\ Reported') => Abstract!SNext
    BY DEF Abstract!SNext, Abstract!Go, Abstract!Reports, Abstract!Match, Abstract!Merged,
           Phase, FoundNow, Reported, Merged, Match
  <1>4. (Phase = "searching" /\ Phase' = "idle"
        /\ UNCHANGED <<asked, FoundNow, resultsArray>>) => Abstract!SNext
    BY DEF Abstract!SNext, Abstract!Stop, Phase, FoundNow
  <1>5. (Phase = "idle" /\ FoundNow \subseteq FoundNow' /\ FoundNow' \subseteq Match
        /\ UNCHANGED <<asked, Phase, resultsArray>>) => Abstract!SNext
    BY DEF Abstract!SNext, Abstract!Straggle, Abstract!Match, Match, Phase, FoundNow
  <1>6. UNCHANGED <<asked, Phase, FoundNow, resultsArray>> => UNCHANGED Abstract!svars
    BY DEF Abstract!svars, Phase, FoundNow
  <1> QED  BY <1>1, <1>2, <1>3, <1>4, <1>5, <1>6

SStep == Abstract!SNext \/ UNCHANGED Abstract!svars

(***************************************************************************)
(* A step within a search: answers come in, and the results change only    *)
(* while it is under way.                                                  *)
(***************************************************************************)
LEMMA WithinSearch ==
    ASSUME IInv, IInv', UNCHANGED <<asked, wanted, searchType>>,
           \A r \in Request : answer'[r] = answer[r] \/ answer[r] = NoAnswer,
           Phase # "searching" => UNCHANGED <<resultsArray, finishedSignals>>,
           Phase = "finished" => UNCHANGED answer
    PROVE  SStep
  <1>1. FoundNow' \subseteq Match
    <2>1. answer' \in AnswerTable /\ OfSearch(asked) \in SUBSET Request
      BY DEF IInv, TypeOK, AnswerTable, OfSearch
    <2>2. FoundNow' = Usable(searchType, Found(answer', OfSearch(asked)))
      BY DEF FoundNow, OfSearch
    <2> QED  BY <2>1, <2>2, FoundType, UsableType
  <1>2. FoundNow \subseteq FoundNow'
    <2>1. Found(answer, OfSearch(asked)) \subseteq Found(answer', OfSearch(asked))
      BY DEF Found, OfSearch, NoAnswer
    <2>2. FoundNow' = Usable(searchType, Found(answer', OfSearch(asked)))
      BY DEF FoundNow, OfSearch
    <2> QED  BY <2>1, <2>2, UsableGrows DEF FoundNow
  <1>3. CASE Phase = "searching"
    <2>1. Phase' \in {"searching", "finished"}
      BY <1>3 DEF Phase
    <2>2. Reported'
      BY <2>1, ReportedNext
    <2> QED  BY <1>1, <1>2, <1>3, <2>1, <2>2, ServiceIs DEF SStep
  <1>4. CASE Phase = "idle"
    <2>1. UNCHANGED <<asked, Phase, resultsArray>>
      BY <1>4 DEF Phase
    <2> QED  BY <1>1, <1>2, <1>4, <2>1, ServiceIs DEF SStep
  <1>5. CASE Phase = "finished"
    <2>1. UNCHANGED <<asked, Phase, FoundNow, resultsArray>>
      BY <1>5 DEF Phase, FoundNow, OfSearch
    <2> QED  BY <2>1, ServiceIs DEF SStep
  <1> QED  BY <1>3, <1>4, <1>5 DEF Phase

\* cancel() and clear() stop a search under way and touch nothing of the others.
LEMMA StopsSearch ==
    ASSUME wanted' = FALSE,
           UNCHANGED <<asked, searchType, resultsArray, answer, finishedSignals>>
    PROVE  SStep
  <1>1. UNCHANGED <<asked, FoundNow, resultsArray>>
    BY DEF FoundNow, OfSearch
  <1>2. CASE Phase = "searching"
    <2>1. Phase' = "idle"
      BY <1>2 DEF Phase
    <2> QED  BY <1>1, <1>2, <2>1, ServiceIs DEF SStep
  <1>3. CASE Phase # "searching"
    <2>1. UNCHANGED Phase
      BY <1>3 DEF Phase
    <2> QED  BY <1>1, <2>1, ServiceIs DEF SStep
  <1> QED  BY <1>2, <1>3

LEMMA AskStep ==
    ASSUME IInv, IInv', NEW type \in SearchTypes, Ask(type)
    PROVE  SStep
  <1>1. asked < MaxSearches /\ asked' = asked + 1 /\ wanted' = TRUE
    BY DEF Ask
  <1>2. asked' \in 1 .. MaxSearches
    BY <1>1 DEF IInv, TypeOK
  <1>3. Phase' \in {"searching", "finished"}
    BY <1>1 DEF Phase
  <1>4. Reported'
    BY <1>3, ReportedNext
  <1>5. FoundNow' \subseteq Match
    <2>1. answer' \in AnswerTable /\ (OfSearch(asked))' \in SUBSET Request
      BY DEF IInv, TypeOK, AnswerTable, OfSearch
    <2>2. FoundNow' = Usable(searchType', Found(answer', (OfSearch(asked))'))
      BY DEF FoundNow
    <2> QED  BY <2>1, <2>2, FoundType, UsableType
  <1> QED  BY <1>1, <1>2, <1>3, <1>4, <1>5, ServiceIs DEF SStep

\* startSearch() for the search that waited: nothing of it was answered yet.
LEMMA StartQueuedStep ==
    ASSUME IInv, IInv', NEW e \in posted, StartQueued(e),
           UNCHANGED <<asked, wanted, searchType, timeoutPosted, cancelled>>
    PROVE  SStep
  <1>1. wanted /\ asked \in Searches /\ ~(finishedSignals[asked] > 0)
    BY DEF StartQueued, IInv, PhaseInv
  <1>2. Phase = "searching"
    BY <1>1 DEF Phase
  <1>3. \A r \in Request : r[1] = asked => answer[r] = NoAnswer
    BY DEF StartQueued, IInv, LifeInv, Unmade
  <1>4. ASSUME NEW r \in Request PROVE answer'[r] = answer[r] \/ answer[r] = NoAnswer
    <2>1. StartSearch(asked, searchType, NoResults, searchResults, life, posted \ {e})
      BY DEF StartQueued, IInv, ResultsInv
    <2>2. PICK New \in SUBSET ({asked} \X Queries), Instant \in SUBSET Request :
             /\ Instant \subseteq New
             /\ \E ans \in [Instant -> Answers] :
                    Made(asked, searchType, searchResults, posted \ {e}, New, Instant, ans)
      BY <1>1, <2>1, StartSearchMakes
    <2>a. PICK ans \in [Instant -> Answers] :
             answer' = [x \in Request |-> IF x \in Instant THEN ans[x] ELSE answer[x]]
      BY <2>2 DEF Made
    <2>3. r \in Instant => r[1] = asked
      BY <2>2
    <2> QED  BY <1>3, <2>a, <2>3
  <1> QED  BY <1>2, <1>4, WithinSearch

LEMMA RequestFinishedStep ==
    ASSUME IInv, IInv', NEW e \in Request, RequestFinished(e)
    PROVE  SStep
  <1>1. e \in posted /\ UNCHANGED <<asked, wanted, searchType, timeoutPosted, cancelled>>
    BY DEF RequestFinished
  <1>2. CASE Collect(e)
    <2>1. searchInProgress /\ answer' = answer
      BY <1>2 DEF Collect
    <2>2. Phase = "searching"
      BY <2>1, InProgress DEF Phase
    <2> QED  BY <1>1, <2>1, <2>2, WithinSearch
  <1>3. CASE Discard(e)
    <2>1. UNCHANGED <<resultsArray, answer, finishedSignals>>
      BY <1>3 DEF Discard
    <2> QED  BY <1>1, <2>1, WithinSearch
  <1>4. CASE StartQueued(e)
    BY <1>1, <1>4, StartQueuedStep
  <1> QED  BY <1>2, <1>3, <1>4 DEF RequestFinished

LEMMA TimerUpdateStep ==
    ASSUME IInv, IInv', TimerUpdate
    PROVE  SStep
  <1>1. UNCHANGED <<asked, wanted, searchType, answer>>
    BY DEF TimerUpdate
  <1>2. CASE searchInProgress
    <2>1. Phase = "searching"
      BY <1>2, InProgress DEF Phase
    <2> QED  BY <1>1, <2>1, WithinSearch
  <1>3. CASE ~searchInProgress
    <2>1. UNCHANGED <<resultsArray, finishedSignals>>
      BY <1>3 DEF TimerUpdate, UpdateOnTimeout
    <2> QED  BY <1>1, <2>1, WithinSearch
  <1> QED  BY <1>2, <1>3

LEMMA WorkerStep ==
    ASSUME IInv, IInv', NEW r \in Request, Worker(r)
    PROVE  SStep
  <1>1. CASE WorkerEmit(r)
    BY <1>1, WithinSearch DEF WorkerEmit, dataVars
  <1>2. CASE WorkerFlag(r)
    <2>1. UNCHANGED <<asked, wanted, searchType, resultsArray, finishedSignals>>
      BY <1>2 DEF WorkerFlag, dataVars
    <2>2. answer[r] = NoAnswer /\ Listed # {}
      BY <1>2 DEF WorkerFlag, IInv, LifeInv, NoOrphanWorker, Listed
    <2>3. Phase # "finished"
      BY <2>2, Over DEF Phase
    <2>4. \A x \in Request : x # r => answer'[x] = answer[x]
      BY <1>2 DEF WorkerFlag, IInv, TypeOK
    <2> QED  BY <2>1, <2>2, <2>3, <2>4, WithinSearch
  <1> QED  BY <1>1, <1>2 DEF Worker

LEMMA NextStep == IInv /\ IInv' /\ [Next]_vars => SStep
  <1> SUFFICES ASSUME IInv, IInv', [Next]_vars PROVE SStep
    OBVIOUS
  <1>1. ASSUME NEW type \in SearchTypes, Ask(type) PROVE SStep
    BY <1>1, AskStep
  <1>2. CASE Cancel
    BY <1>2, StopsSearch DEF Cancel, dataVars
  <1>3. CASE Clear
    BY <1>3, StopsSearch DEF Clear, dataVars
  <1>4. ASSUME NEW e \in Request, RequestFinished(e) PROVE SStep
    BY <1>4, RequestFinishedStep
  <1>5. CASE TimerUpdate
    BY <1>5, TimerUpdateStep
  <1>6. CASE TimerExpires
    BY <1>6, WithinSearch DEF TimerExpires, dataVars, requestVars
  <1>7. ASSUME NEW r \in Request, Worker(r) PROVE SStep
    BY <1>7, WorkerStep
  <1>8. CASE UNCHANGED vars
    BY <1>8, WithinSearch DEF vars, dataVars, requestVars
  <1> QED  BY <1>1, <1>2, <1>3, <1>4, <1>5, <1>6, <1>7, <1>8 DEF Next, User, Gui

(***************************************************************************)
(* The promise of wordfinder.hh, for any dictionaries and any searches:    *)
(* results are made of what the dictionaries found for the search under    *)
(* way, final and complete at finished(), and nothing comes after          *)
(* cancel().                                                               *)
(***************************************************************************)
THEOREM Implements == Spec => ImplementsService
  <1>1. Init => Abstract!Idle
    <2> SUFFICES ASSUME Init PROVE Abstract!Idle
      OBVIOUS
    <2>1. asked = 0 /\ Phase = "idle" /\ resultsArray = NoResults
      BY DEF Init, Phase, Searches
    <2>2. FoundNow = {}
      BY DEF Init, FoundNow, Found, Usable, OfSearch, NoAnswer
    <2> QED  BY <2>1, <2>2, ServiceIs
  <1>2. IInv /\ IInv' /\ [Next]_vars => [Abstract!SNext]_(Abstract!svars)
    BY NextStep DEF SStep
  <1> QED  BY <1>1, <1>2, Inductive, PTL DEF Spec, ImplementsService, Abstract!Service
=============================================================================
