--------------------------- MODULE ArticleRequest ---------------------------
(***************************************************************************)
(* The request that makes an article page (ArticleRequest,                 *)
(* src/src/article_maker.cc): it asks every active dictionary for the main *)
(* forms of the word, then for its article, puts the articles together in  *)
(* the order of the dictionaries, and when there are none runs a stemmed   *)
(* search and a search for compound expressions.                           *)
(*                                                                         *)
(* All of it runs on the GUI thread, as slots of queued events; the        *)
(* dictionaries' requests are answered by workers.  The WordFinder it uses *)
(* is seen through its promise (module SearchService): a search asked for  *)
(* is answered by one queued finished() event.  The page is a sequence of  *)
(* pieces: what each piece of HTML is for, not its text.                   *)
(***************************************************************************)
EXTENDS Integers, Sequences, Functions, FiniteSetsExt

CONSTANTS
    Count,          \* activeDicts.size()
    MayThrow,       \* dictionaries whose getArticle() may throw
    WordCount       \* splitIntoWords( word ).first.size()

ASSUME CountAssumption ==
    /\ Count \in Nat
    /\ MayThrow \subseteq 1 .. Count
    /\ WordCount \in Nat \ {0}

Dicts == 1 .. Count

VARIABLES
    altSearches,            \* dictionaries whose main forms are awaited
    altsDone,
    bodyRequests,           \* dictionaries whose articles are awaited, in order
    bodyDone,
    life,                   \* of the request each dictionary works on now
    has,                    \* what a dictionary's article request holds
    posted,                 \* pending finished events of the dictionaries' requests
    data,                   \* the pieces of the page
    isFinishedFlag,
    finishedSignals,        \* how often finished() was emitted
    finder,                 \* the stemmed WordFinder
    lexicon,                \* what the dictionaries know of each word sequence
    wordStart, wordEnd,     \* currentSplittedWordStart, currentSplittedWordEnd
    lastGood,               \* lastGoodCompoundResult
    state                   \* of the ArticleRequest object

altVars == <<altSearches, altsDone>>
bodyVars == <<bodyRequests, bodyDone>>
workVars == <<life, has, posted>>
pageVars == <<data, isFinishedFlag, finishedSignals>>
wordVars == <<wordStart, wordEnd, lastGood>>
vars == <<altVars, bodyVars, workVars, pageVars, finder, lexicon, wordVars, state>>

(***************************************************************************)
(* Pieces of the page.                                                     *)
(***************************************************************************)
Header == <<"header">>
Section(head, body) == <<"section", head, body>>    \* dictionary named, article shown
NotFound == <<"not found">>
CloseWords == <<"close words">>
Compound(span) == <<"compound", span>>
IndividualWords == <<"individual words">>
End == <<"end">>

\* The positions of one kind of piece.
Where(page, kind) == {i \in DOMAIN page : page[i][1] = kind}

\* A sequence of the words, by its first and last, and what expressionMatch()
\* finds for it: nothing, something that begins with it, or the expression.
Span == {p \in (0 .. WordCount - 1) \X (0 .. WordCount - 1) : p[1] < p[2]}
Outcome == {"none", "prefix", "exact"}
NoSpan == <<-1, -1>>

Piece == {Header, NotFound, CloseWords, IndividualWords, End}
         \cup {Section(head, body) : head \in Dicts, body \in Dicts}
         \cup {Compound(span) : span \in Span}

Lives == {"none", "running", "flagged", "gone"}
Contents == {"nothing", "article", "error"}

TypeOK ==
    /\ altSearches \subseteq Dicts
    /\ altsDone \in BOOLEAN
    /\ bodyRequests \in Seq(Dicts)
    /\ bodyDone \in BOOLEAN
    /\ life \in [Dicts -> Lives]
    /\ has \in [Dicts -> Contents]
    /\ posted \subseteq {"alt", "body"} \X Dicts
    /\ data \in Seq(Piece)
    /\ isFinishedFlag \in BOOLEAN
    /\ finishedSignals \in Nat
    /\ finder \in {"none", "stemmed", "stemmedDone", "expression", "expressionDone"}
    /\ lexicon \in [Span -> Outcome]
    /\ wordStart \in -1 .. WordCount - 1
    /\ wordEnd \in -1 .. WordCount - 1
    /\ lastGood \in Span \cup {NoSpan}
    /\ state \in {"new", "live", "destroyed"}

Init ==
    /\ altSearches = {}
    /\ altsDone = FALSE
    /\ bodyRequests = <<>>
    /\ bodyDone = FALSE
    /\ life = [d \in Dicts |-> "none"]
    /\ has = [d \in Dicts |-> "nothing"]
    /\ posted = {}
    /\ data = <<>>
    /\ isFinishedFlag = FALSE
    /\ finishedSignals = 0
    /\ finder = "none"
    /\ lexicon = [span \in Span |-> "none"]
    /\ wordStart = -1
    /\ wordEnd = -1
    /\ lastGood = NoSpan
    /\ state = "new"

-----------------------------------------------------------------------------
Over(lives, d) == lives[d] \in {"flagged", "gone"}

\* Erased requests: the destructor waits for a worker that has set the flag and
\* is about to emit.
LateEvents(kind, lives, R) == {kind} \X {d \in R : lives[d] = "flagged"}

\* appendDataSlice() and finish(), which emits once.
Finish(page) ==
    /\ data' = page
    /\ isFinishedFlag' = TRUE
    /\ finishedSignals' = IF isFinishedFlag THEN finishedSignals ELSE finishedSignals + 1

\* appendDataSlice() and, for the reader, update().
Update(page) ==
    /\ data' = page
    /\ UNCHANGED <<isFinishedFlag, finishedSignals>>

(***************************************************************************)
(* bodyFinished() past its guard, on requests as the caller left them.     *)
(* They are taken from the front as long as they are finished; the         *)
(* dictionary an article is headed with is found by counting from the end. *)
(***************************************************************************)
\* The one sequence of the numbers in S from the least to the greatest.
Ascending(S) ==
    {q \in [1 .. Cardinality(S) -> S] :
        Range(q) = S /\ \A i, j \in DOMAIN q : i < j => q[i] < q[j]}

\* How many requests are finished at the front of the queue.  Mutant: one at most.
FirstFinished(queue, lives) ==
    {IF queue # <<>> /\ Over(lives, queue[1]) THEN 1 ELSE 0}

FinishedFront(queue, lives) ==
    {n \in 0 .. Len(queue) :
        /\ \A i \in 1 .. n : Over(lives, queue[i])
        /\ n < Len(queue) => ~Over(lives, queue[n + 1])}

\* The queue when they are popped.  Mutant: the last of them stays.
PoppedButOne(queue, taken) ==
    SubSeq(queue, IF taken = 0 THEN 1 ELSE taken, Len(queue))

Popped(queue, taken) == SubSeq(queue, taken + 1, Len(queue))

\* Mutant: the request is popped before it is counted.
HeadAfterPop(queue, j) == Count - Len(queue) + j + 1

HeadOf(queue, j) == Count - Len(queue) + j

\* Positions of those that have something to show.
WithContent(queue, taken, contents) ==
    {j \in 1 .. taken : contents[queue[j]] # "nothing"}

\* The page with their articles, each under the name that is found for it.
Grown(page, queue, shown) ==
    page \o [i \in DOMAIN shown |-> Section(HeadOf(queue, shown[i]), queue[shown[i]])]

BodyFinished(queue, lives, contents, page, postedNow) ==
    \E taken \in FinishedFront(queue, lives) :
    \E shown \in Ascending(WithContent(queue, taken, contents)) :
        LET gone == {queue[j] : j \in 1 .. taken}
            rest == Popped(queue, taken)
            grown == Grown(page, queue, shown)
        IN  /\ bodyRequests' = rest
            /\ bodyDone' = (rest = <<>>)
            /\ has' = contents
            /\ life' = [d \in Dicts |-> IF d \in gone THEN "gone" ELSE lives[d]]
            /\ posted' = postedNow \cup LateEvents("body", lives, gone)
            /\ \/ rest # <<>> /\ Update(grown) /\ UNCHANGED finder
               \/ /\ rest = <<>> /\ Where(grown, "section") # {}
                  /\ Finish(Append(grown, End))
                  /\ UNCHANGED finder
               \/ /\ rest = <<>> /\ Where(grown, "section") = {}
                  /\ Update(Append(grown, NotFound))
                  /\ finder' = "stemmed"        \* stemmedMatch()

(***************************************************************************)
(* altSearchFinished() past its guard.  When the last main forms are known *)
(* every dictionary is asked for its article, in order, and those that     *)
(* answer at once are handled.  A getArticle() that throws leaves its      *)
(* dictionary out.                                                         *)
(***************************************************************************)
AltsFinished(awaited, lives, page, postedNow) ==
    LET rest == {d \in awaited : ~Over(lives, d)}
        late == postedNow \cup LateEvents("alt", lives, awaited \ rest)
    IN  /\ altSearches' = rest
        /\ altsDone' = (rest = {})
        /\ IF rest # {}
           THEN /\ life' = [d \in Dicts |-> IF d \in awaited \ rest THEN "gone" ELSE lives[d]]
                /\ posted' = late
                /\ data' = page
                /\ UNCHANGED <<has, bodyVars, isFinishedFlag, finishedSignals, finder>>
           ELSE \E throws \in SUBSET MayThrow : \E atOnce \in SUBSET (Dicts \ throws) :
                \E queue \in Ascending(Dicts \ throws) : \E contents \in [Dicts -> Contents] :
                    /\ \A d \in Dicts \ atOnce : contents[d] = "nothing"
                    /\ BodyFinished(
                         queue,
                         [d \in Dicts |-> IF d \in throws THEN "none"
                                          ELSE IF d \in atOnce THEN "gone" ELSE "running"],
                         contents, page, late)

(***************************************************************************)
(* The constructor: the header, one search for main forms per dictionary,  *)
(* some finished when made.                                                *)
(***************************************************************************)
Construct ==
    /\ state = "new"
    /\ state' = "live"
    /\ \E atOnce \in SUBSET Dicts :
         AltsFinished(Dicts, [d \in Dicts |-> IF d \in atOnce THEN "gone" ELSE "running"],
                      <<Header>>, {})
    /\ UNCHANGED <<lexicon, wordVars>>

Live == state = "live"

AltSearchFinished(d) ==
    /\ Live
    /\ <<"alt", d>> \in posted
    /\ LET left == posted \ {<<"alt", d>>}
       IN  IF altsDone
           THEN /\ posted' = left
                /\ UNCHANGED <<altVars, bodyVars, life, has, pageVars, finder>>
           ELSE AltsFinished(altSearches, life, data, left)
    /\ UNCHANGED <<lexicon, wordVars, state>>

\* Mutant: the guard against late events is dropped.
BodyRequestFinishedAlways(d) ==
    /\ Live
    /\ <<"body", d>> \in posted
    /\ BodyFinished(bodyRequests, life, has, data, posted \ {<<"body", d>>})
    /\ UNCHANGED <<altVars, lexicon, wordVars, state>>

BodyRequestFinished(d) ==
    /\ Live
    /\ <<"body", d>> \in posted
    /\ LET left == posted \ {<<"body", d>>}
       IN  IF bodyDone
           THEN /\ posted' = left
                /\ UNCHANGED <<bodyVars, life, has, pageVars, finder>>
           ELSE BodyFinished(bodyRequests, life, has, data, left)
    /\ UNCHANGED <<altVars, lexicon, wordVars, state>>

-----------------------------------------------------------------------------
(***************************************************************************)
(* compoundSearchNextStep( false ): what the searches from this word came  *)
(* to is linked, and two words from the next one are looked up, or the     *)
(* individual words conclude the page.                                     *)
(***************************************************************************)
\* Mutant: one word too many is started from.
NextStartTooFar(page, good) ==
    LET linked == IF good = NoSpan THEN page ELSE Append(page, Compound(good))
    IN  /\ lastGood' = NoSpan
        /\ IF wordStart >= WordCount - 1
           THEN /\ Finish(Append(Append(linked, IndividualWords), End))
                /\ finder' = "none"
                /\ UNCHANGED <<wordStart, wordEnd>>
           ELSE /\ Update(linked)
                /\ wordStart' = wordStart + 1
                /\ wordEnd' = wordStart + 2
                /\ finder' = "expression"

\* Mutant: the expression found is not forgotten.
NextStartKeeps(page, good) ==
    LET linked == IF good = NoSpan THEN page ELSE Append(page, Compound(good))
    IN  /\ lastGood' = good
        /\ IF wordStart >= WordCount - 2
           THEN /\ Finish(Append(Append(linked, IndividualWords), End))
                /\ finder' = "none"
                /\ UNCHANGED <<wordStart, wordEnd>>
           ELSE /\ Update(linked)
                /\ wordStart' = wordStart + 1
                /\ wordEnd' = wordStart + 2
                /\ finder' = "expression"

NextStart(page, good) ==
    LET linked == IF good = NoSpan THEN page ELSE Append(page, Compound(good))
    IN  /\ lastGood' = NoSpan
        /\ IF wordStart >= WordCount - 2
           THEN /\ Finish(Append(Append(linked, IndividualWords), End))
                /\ finder' = "none"
                /\ UNCHANGED <<wordStart, wordEnd>>
           ELSE /\ Update(linked)
                /\ wordStart' = wordStart + 1
                /\ wordEnd' = wordStart + 2
                /\ finder' = "expression"

(***************************************************************************)
(* stemmedSearchFinished(): close words, if any, and the compound searches *)
(* if there is more than one word.  The lexicon they will meet is any.     *)
(***************************************************************************)
StemmedSearchFinished ==
    /\ Live
    /\ finder = "stemmedDone"
    /\ \E page \in {data, Append(data, CloseWords)} :
         IF WordCount > 1
         THEN NextStart(page, NoSpan)
         ELSE /\ Finish(Append(page, End))
              /\ finder' = "none"
              /\ UNCHANGED wordVars
    /\ lexicon' \in [Span -> Outcome]
    /\ UNCHANGED <<altVars, bodyVars, workVars, state>>

(***************************************************************************)
(* individualWordFinished() and compoundSearchNextStep(): a sequence that  *)
(* something begins with is tried with one more word, if there is one.     *)
(***************************************************************************)
IndividualWordFinished ==
    /\ Live
    /\ finder = "expressionDone"
    /\ LET span == <<wordStart, wordEnd>>
           good == IF lexicon[span] = "exact" THEN span ELSE lastGood
       IN  IF lexicon[span] # "none" /\ wordEnd < WordCount - 1
           THEN /\ lastGood' = good
                /\ wordEnd' = wordEnd + 1
                /\ finder' = "expression"
                /\ UNCHANGED <<wordStart, pageVars>>
           ELSE NextStart(data, good)
    /\ UNCHANGED <<altVars, bodyVars, workVars, lexicon, state>>

-----------------------------------------------------------------------------
(***************************************************************************)
(* cancel(), by the reply that owns the request and drops it then.  The    *)
(* searches and article requests still running are cancelled too, which    *)
(* they heed in their own time; the stemmed search emits nothing any more. *)
(***************************************************************************)
Cancel ==
    /\ state = "live"
    /\ ~isFinishedFlag
    /\ Finish(data)
    /\ state' = "destroyed"
    /\ finder' = IF finder \in {"stemmed", "expression"} THEN "none" ELSE finder
    /\ UNCHANGED <<altVars, bodyVars, workVars, lexicon, wordVars>>

-----------------------------------------------------------------------------
(***************************************************************************)
(* The workers and the stemmed WordFinder.                                 *)
(***************************************************************************)
WorkerFlag(d) ==
    /\ Live
    /\ life[d] = "running"
    /\ life' = [life EXCEPT ![d] = "flagged"]
    /\ IF altsDone
       THEN \E c \in Contents : has' = [has EXCEPT ![d] = c]
       ELSE UNCHANGED has
    /\ UNCHANGED <<altVars, bodyVars, posted, pageVars, finder, lexicon, wordVars, state>>

WorkerEmit(d) ==
    /\ Live
    /\ life[d] = "flagged"
    /\ life' = [life EXCEPT ![d] = "gone"]
    /\ posted' = posted \cup {<<IF altsDone THEN "body" ELSE "alt", d>>}
    /\ UNCHANGED <<altVars, bodyVars, has, pageVars, finder, lexicon, wordVars, state>>

FinderDone ==
    /\ Live
    /\ finder \in {"stemmed", "expression"}
    /\ finder' = IF finder = "stemmed" THEN "stemmedDone" ELSE "expressionDone"
    /\ UNCHANGED <<altVars, bodyVars, workVars, pageVars, lexicon, wordVars, state>>

-----------------------------------------------------------------------------
Slots ==
    \/ \E d \in Dicts : AltSearchFinished(d) \/ BodyRequestFinished(d)
    \/ StemmedSearchFinished
    \/ IndividualWordFinished

Others == (\E d \in Dicts : WorkerFlag(d) \/ WorkerEmit(d)) \/ FinderDone

Next == Construct \/ Slots \/ Cancel \/ Others

Spec == Init /\ [][Next]_vars

\* Every dictionary answers, every event is delivered; nobody has to cancel.
FairSpec == Spec /\ WF_vars(Construct) /\ WF_vars(Slots) /\ WF_vars(Others)

-----------------------------------------------------------------------------
Whole == isFinishedFlag /\ state = "live"

(***************************************************************************)
(* A finished page has the article of every dictionary that gave one, or   *)
(* an error to tell, once and in the order of the dictionaries, whatever   *)
(* order they answered in; so far as it goes an unfinished one does too.   *)
(***************************************************************************)
ArticlesInOrder ==
    LET shown == Where(data, "section")
    IN  /\ \A i, j \in shown : i < j => data[i][3] < data[j][3]
        /\ Whole => {data[i][3] : i \in shown} = {d \in Dicts : has[d] # "nothing"}

(***************************************************************************)
(* Every article stands under the name of the dictionary it is from.  The  *)
(* name is found by counting, which a getArticle() that threw puts out     *)
(* (README, Divergences): then the code does not keep it.                  *)
(***************************************************************************)
NoneThrew == altsDone => \A d \in Dicts : life[d] # "none"

HeadedByItsDictionary ==
    NoneThrew => \A i \in Where(data, "section") : data[i][2] = data[i][3]

(***************************************************************************)
(* The page is one well-formed document: the header first, the end of the  *)
(* body once and last, and there exactly when the request finished by      *)
(* itself; finished() is emitted once.                                     *)
(***************************************************************************)
OneDocument ==
    /\ finishedSignals <= 1
    /\ isFinishedFlag = (finishedSignals = 1)
    /\ data # <<>> => data[1] = Header
    /\ Whole => data[Len(data)] = End
    /\ \A i \in DOMAIN data : data[i] = End => Whole /\ i = Len(data)

(***************************************************************************)
(* So at every step of the three searches, those cancelled half way too.   *)
(***************************************************************************)
DocumentSound == TypeOK /\ OneDocument

(***************************************************************************)
(* The compound expressions on a page are, for each word in turn, the      *)
(* longest known expression from there that the search can reach: every    *)
(* shorter sequence from that word begins something known.                 *)
(***************************************************************************)
Reachable(lex, s, e) == \A k \in s + 1 .. e - 1 : lex[<<s, k>>] # "none"
Known(lex, s) ==
    {e \in s + 1 .. WordCount - 1 : Reachable(lex, s, e) /\ lex[<<s, e>>] = "exact"}

CompoundsListed ==
    (Whole /\ Where(data, "individual words") # {}) =>
        LET listed == Where(data, "compound")
        IN  /\ \A i, j \in listed : i < j => data[i][2][1] < data[j][2][1]
            /\ {data[i][2] : i \in listed} =
                   {<<s, Max(Known(lexicon, s))>> :
                       s \in {t \in 0 .. WordCount - 2 : Known(lexicon, t) # {}}}

(***************************************************************************)
(* The page is finished in the end if every dictionary answers.            *)
(***************************************************************************)
PageFinishes == <>isFinishedFlag
=============================================================================
