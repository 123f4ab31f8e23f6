----------------------------- MODULE WordFinder -----------------------------
(***************************************************************************)
(* The asynchronous word search (src/src/wordfinder.cc) with the requests  *)
(* it creates (Dictionary::Request, src/src/dict/dictionary.cc).           *)
(*                                                                         *)
(* WordFinder lives on the GUI thread.  A search creates one request per   *)
(* query, a (dictionary, writing of the word) pair; a request is answered  *)
(* by a worker thread, or on the GUI thread by the network, or is finished *)
(* when it is made.  Request::finished is connected with                   *)
(* Qt::QueuedConnection: it becomes an event of the GUI thread, `posted`   *)
(* until the slot runs.  One action is one event handled by the GUI thread *)
(* (with every call it makes), one step of a worker, or the timer's        *)
(* expiry.                                                                 *)
(***************************************************************************)
EXTENDS SearchResults

CONSTANTS
    Queries,        \* (dictionary, writing) pairs a search may query
    MaxSearches,    \* bound on the calls of prefixMatch() and its siblings
    Answers         \* what a request can have found when it finishes

ASSUME SearchesAssumption == MaxSearches \in Nat

ASSUME AnswersAssumption ==
    Answers \subseteq [matches : SUBSET Match, error : BOOLEAN, uncertain : BOOLEAN]

VARIABLES
    asked,                  \* which call set inputWord, searchType, ... last
    wanted,                 \* history: nobody called cancel() or clear() since
    searchType,
    searchQueued,
    searchInProgress,
    queuedRequests,
    finishedRequests,
    resultsArray,           \* with resultsIndex
    searchResults,
    searchErrorString,      \* TRUE when the string is not empty
    searchResultsUncertain,
    timerActive,            \* updateResultsTimer.isActive()
    timeoutPosted,          \* its queued timeout event
    life,                   \* of each request and its worker
    cancelled,              \* requests whose cancel() was called
    answer,                 \* what a finished request holds
    posted,                 \* requests whose queued finished event is pending
    finishedSignals         \* how often finished() was emitted for each search

dataVars == <<resultsArray, searchResults, searchErrorString, searchResultsUncertain>>
timerVars == <<timerActive, timeoutPosted>>
requestVars == <<life, cancelled, answer, posted>>
vars == <<asked, wanted, searchType, searchQueued, searchInProgress, queuedRequests,
          finishedRequests, dataVars, timerVars, requestVars, finishedSignals>>

Searches == 1 .. MaxSearches
Request == Searches \X Queries      \* the search that made it, the query

(***************************************************************************)
(* "running": created, isFinishedFlag clear.  "flagged": finish() has set  *)
(* the flag and not yet emitted finished().  "gone": the worker has left   *)
(* the request for good.                                                   *)
(***************************************************************************)
Life == {"none", "running", "flagged", "gone"}

NoAnswer == [matches |-> {}, error |-> FALSE, uncertain |-> FALSE]

TypeOK ==
    /\ asked \in 0 .. MaxSearches
    /\ wanted \in BOOLEAN
    /\ searchType \in SearchTypes
    /\ searchQueued \in BOOLEAN
    /\ searchInProgress \in BOOLEAN
    /\ queuedRequests \subseteq Request
    /\ finishedRequests \subseteq Request
    /\ resultsArray \in ResultsTables
    /\ searchResults \in ResultsTables
    /\ searchErrorString \in BOOLEAN
    /\ searchResultsUncertain \in BOOLEAN
    /\ timerActive \in BOOLEAN
    /\ timeoutPosted \in BOOLEAN
    /\ life \in [Request -> Life]
    /\ cancelled \subseteq Request
    /\ answer \in [Request -> Answers \cup {NoAnswer}]
    /\ posted \subseteq Request
    /\ finishedSignals \in [Searches -> Nat]

Init ==
    /\ asked = 0
    /\ wanted = FALSE
    /\ searchType = "PrefixMatch"
    /\ searchQueued = FALSE
    /\ searchInProgress = FALSE
    /\ queuedRequests = {}
    /\ finishedRequests = {}
    /\ resultsArray = NoResults
    /\ searchResults = NoResults
    /\ searchErrorString = FALSE
    /\ searchResultsUncertain = FALSE
    /\ timerActive = FALSE
    /\ timeoutPosted = FALSE
    /\ life = [r \in Request |-> "none"]
    /\ cancelled = {}
    /\ answer = [r \in Request |-> NoAnswer]
    /\ posted = {}
    /\ finishedSignals = [s \in Searches |-> 0]

-----------------------------------------------------------------------------
(***************************************************************************)
(* Requests.                                                               *)
(***************************************************************************)
isFinished(r) == life[r] \in {"flagged", "gone"}

Found(ans, R) == UNION {ans[r].matches : r \in R}

(***************************************************************************)
(* Request::finish() on a worker: the flag first, finished() next.         *)
(***************************************************************************)
WorkerFlag(r) ==
    /\ life[r] = "running"
    /\ life' = [life EXCEPT ![r] = "flagged"]
    /\ \E a \in Answers : answer' = [answer EXCEPT ![r] = a]
    /\ UNCHANGED <<asked, wanted, searchType, searchQueued, searchInProgress, queuedRequests,
                   finishedRequests, dataVars, timerVars, cancelled, posted, finishedSignals>>

WorkerEmit(r) ==
    /\ life[r] = "flagged"
    /\ life' = [life EXCEPT ![r] = "gone"]
    /\ posted' = posted \cup {r}
    /\ UNCHANGED <<asked, wanted, searchType, searchQueued, searchInProgress, queuedRequests,
                   finishedRequests, dataVars, timerVars, cancelled, answer, finishedSignals>>

(***************************************************************************)
(* Dropping the last reference to the requests R: a destructor cancels its *)
(* request and waits for the worker, which still finishes and emits.       *)
(***************************************************************************)
\* Mutant: the destructor does not wait.
ReleasedEarly(lifeNow, R) == lifeNow
Released(lifeNow, R) == [r \in Request |-> IF r \in R THEN "gone" ELSE lifeNow[r]]
LateSignals(lifeNow, R) == {r \in R : lifeNow[r] \in {"running", "flagged"}}

-----------------------------------------------------------------------------
(***************************************************************************)
(* updateResults() past its guard, with the lists as the caller left them. *)
(***************************************************************************)
UpdateResults(queued, finished, table, type, ans, search) ==
    LET merged == Joined(table, Merged(Usable(type, Found(ans, finished))))
    IN  /\ timerActive' = FALSE
        /\ resultsArray' = merged
        /\ \E S \in Shown(merged, type) : searchResults' = [k \in S |-> merged[k]]
        /\ queuedRequests' = queued
        /\ finishedRequests' = {}
        /\ IF queued # {}
           THEN /\ searchInProgress' = TRUE
                /\ UNCHANGED finishedSignals
           ELSE /\ searchInProgress' = FALSE
                /\ finishedSignals' = [finishedSignals EXCEPT ![search] = @ + 1]

(***************************************************************************)
(* The end of requestFinished() when a search is in progress: new results  *)
(* that do not conclude it start the timer.                                *)
(***************************************************************************)
\* Mutant: the timer is not started.
ShowLaterUntimed(queued, finished, newResults, table, shown) ==
    /\ resultsArray' = table
    /\ searchResults' = shown
    /\ queuedRequests' = queued
    /\ finishedRequests' = finished
    /\ searchInProgress' = TRUE
    /\ UNCHANGED <<timerActive, finishedSignals>>

ShowLater(queued, finished, newResults, table, shown) ==
    /\ timerActive' = (timerActive \/ newResults)
    /\ resultsArray' = table
    /\ searchResults' = shown
    /\ queuedRequests' = queued
    /\ finishedRequests' = finished
    /\ searchInProgress' = TRUE
    /\ UNCHANGED finishedSignals

\* Mutant: a last request without matches does not conclude the search.
ProgressOnHits(queued, finished, newResults, table, shown, type, ans, search) ==
    IF queued = {} /\ newResults
    THEN UpdateResults(queued, finished, table, type, ans, search)
    ELSE ShowLater(queued, finished, newResults, table, shown)

Progress(queued, finished, newResults, table, shown, type, ans, search) ==
    IF queued = {}
    THEN UpdateResults(queued, finished, table, type, ans, search)
    ELSE ShowLater(queued, finished, newResults, table, shown)

(***************************************************************************)
(* startSearch() past its guard, on tables already cleared by the caller.  *)
(* New are the requests made (a dictionary without the features, or whose  *)
(* prefixMatch() throws, makes none); Instant those finished when made.    *)
(* It ends with the call of requestFinished().                             *)
(***************************************************************************)
StartSearch(search, type, table, shown, lifeNow, postedNow) ==
    \E New \in SUBSET ({search} \X Queries) : \E Instant \in SUBSET New :
    \E ans \in [Instant -> Answers] :
        LET all == [r \in Request |-> IF r \in Instant THEN ans[r] ELSE answer[r]]
            hits == {r \in Instant : ans[r].matches # {}}
            dropped == queuedRequests \cup finishedRequests
        IN  /\ searchQueued' = FALSE
            /\ life' = [r \in Request |->
                          IF r \in Instant THEN "gone"
                          ELSE IF r \in New THEN "running" ELSE Released(lifeNow, dropped)[r]]
            /\ answer' = all
            /\ posted' = postedNow \cup LateSignals(lifeNow, dropped)
            /\ searchErrorString' = (\E r \in Instant : ans[r].error)
            /\ searchResultsUncertain' = (\E r \in Instant : ans[r].uncertain)
            /\ Progress(New \ Instant, hits, hits # {}, table, shown, type, all, search)

(***************************************************************************)
(* cancel() of every queued request.  A request answered on the GUI thread *)
(* finishes at once; a worker only learns of it.                           *)
(***************************************************************************)
CancelledAtOnce == SUBSET {r \in queuedRequests : life[r] = "running"}

(***************************************************************************)
(* prefixMatch(), stemmedMatch(), expressionMatch(): the search starts at  *)
(* once, or waits until the cancelled requests are over.                   *)
(***************************************************************************)
AskNow(type) ==
    /\ queuedRequests = {}
    /\ StartSearch(asked + 1, type, NoResults, NoResults, life, posted)

\* Mutant: searchInProgress is not reset.
AskLaterInProgress(type) ==
    /\ queuedRequests # {}
    /\ searchQueued' = TRUE
    /\ resultsArray' = NoResults /\ searchResults' = NoResults
    /\ \E atOnce \in CancelledAtOnce :
         life' = Released(life, atOnce) /\ posted' = posted \cup atOnce
    /\ UNCHANGED <<searchInProgress, queuedRequests, finishedRequests, searchErrorString,
                   searchResultsUncertain, timerActive, answer, finishedSignals>>

AskLater(type) ==
    /\ queuedRequests # {}
    /\ searchQueued' = TRUE
    /\ searchInProgress' = FALSE
    /\ resultsArray' = NoResults /\ searchResults' = NoResults
    /\ \E atOnce \in CancelledAtOnce :
         life' = Released(life, atOnce) /\ posted' = posted \cup atOnce
    /\ UNCHANGED <<queuedRequests, finishedRequests, searchErrorString,
                   searchResultsUncertain, timerActive, answer, finishedSignals>>

Ask(type) ==
    /\ asked < MaxSearches
    /\ asked' = asked + 1
    /\ wanted' = TRUE
    /\ searchType' = type
    /\ cancelled' = cancelled \cup queuedRequests
    /\ AskNow(type) \/ AskLater(type)
    /\ UNCHANGED timeoutPosted

\* Mutant: cancel() leaves the queued search in place.
CancelRunningOnly ==
    /\ wanted' = FALSE
    /\ searchInProgress' = FALSE
    /\ cancelled' = cancelled \cup queuedRequests
    /\ \E atOnce \in CancelledAtOnce :
         life' = Released(life, atOnce) /\ posted' = posted \cup atOnce
    /\ UNCHANGED <<asked, searchType, searchQueued, queuedRequests, finishedRequests,
                   dataVars, timerVars, answer, finishedSignals>>

\* cancel()
Cancel ==
    /\ wanted' = FALSE
    /\ searchQueued' = FALSE
    /\ searchInProgress' = FALSE
    /\ cancelled' = cancelled \cup queuedRequests
    /\ \E atOnce \in CancelledAtOnce :
         life' = Released(life, atOnce) /\ posted' = posted \cup atOnce
    /\ UNCHANGED <<asked, searchType, queuedRequests, finishedRequests, dataVars,
                   timerVars, answer, finishedSignals>>

\* clear()
Clear ==
    LET dropped == queuedRequests \cup finishedRequests
    IN  /\ wanted' = FALSE
        /\ searchQueued' = FALSE
        /\ searchInProgress' = FALSE
        /\ queuedRequests' = {}
        /\ finishedRequests' = {}
        /\ cancelled' = cancelled \cup queuedRequests
        /\ life' = Released(life, dropped)
        /\ posted' = posted \cup LateSignals(life, dropped)
        /\ UNCHANGED <<asked, searchType, dataVars, timerVars, answer, finishedSignals>>

(***************************************************************************)
(* The slot requestFinished(), run for the event posted by request e; it   *)
(* looks at every queued request and not at e.  Requests without matches   *)
(* are erased, the others once the list they wait in is cleared or merged. *)
(***************************************************************************)
done == {r \in queuedRequests : isFinished(r)}
hits == {r \in done : answer[r].matches # {}}
rest == queuedRequests \ done

Erase(e) ==
    LET R == IF rest = {} THEN done \cup finishedRequests ELSE done \ hits
    IN  /\ life' = Released(life, R)
        /\ posted' = (posted \ {e}) \cup LateSignals(life, R)

NoteUncertain ==
    searchResultsUncertain' = (searchResultsUncertain \/ \E r \in done : answer[r].uncertain)

\* Mutant: errors are not noted.
CollectSilently(e) ==
    /\ searchInProgress
    /\ Erase(e)
    /\ NoteUncertain
    /\ Progress(rest, finishedRequests \cup hits, hits # {}, resultsArray, searchResults,
                searchType, answer, asked)
    /\ UNCHANGED <<searchErrorString, searchQueued, answer>>

Collect(e) ==
    /\ searchInProgress
    /\ Erase(e)
    /\ searchErrorString' = (searchErrorString \/ \E r \in done : answer[r].error)
    /\ NoteUncertain
    /\ Progress(rest, finishedRequests \cup hits, hits # {}, resultsArray, searchResults,
                searchType, answer, asked)
    /\ UNCHANGED <<searchQueued, answer>>

\* Mutant: the last cancelled request does not start the queued search.
DiscardOnly(e) ==
    /\ ~searchInProgress
    /\ Erase(e)
    /\ queuedRequests' = rest
    /\ finishedRequests' = IF rest = {} THEN {} ELSE finishedRequests \cup hits
    /\ NoteUncertain
    /\ UNCHANGED <<searchQueued, searchInProgress, resultsArray, searchResults,
                   searchErrorString, timerActive, answer, finishedSignals>>

Discard(e) ==
    /\ ~searchInProgress
    /\ rest # {} \/ ~searchQueued
    /\ Erase(e)
    /\ queuedRequests' = rest
    /\ finishedRequests' = IF rest = {} THEN {} ELSE finishedRequests \cup hits
    /\ NoteUncertain
    /\ UNCHANGED <<searchQueued, searchInProgress, resultsArray, searchResults,
                   searchErrorString, timerActive, answer, finishedSignals>>

StartQueued(e) ==
    /\ ~searchInProgress
    /\ rest = {} /\ searchQueued
    /\ StartSearch(asked, searchType, resultsArray, searchResults, life, posted \ {e})

RequestFinished(e) ==
    /\ e \in posted
    /\ Collect(e) \/ Discard(e) \/ StartQueued(e)
    /\ UNCHANGED <<asked, wanted, searchType, timeoutPosted, cancelled>>

-----------------------------------------------------------------------------
\* The timer expires: one shot, and its timeout is a queued event.
TimerExpires ==
    /\ timerActive
    /\ ~timeoutPosted
    /\ timerActive' = FALSE
    /\ timeoutPosted' = TRUE
    /\ UNCHANGED <<asked, wanted, searchType, searchQueued, searchInProgress, queuedRequests,
                   finishedRequests, dataVars, requestVars, finishedSignals>>

(***************************************************************************)
(* The slot updateResults(), run for the timer's event.                    *)
(***************************************************************************)
\* Mutant: the finished requests are erased before they are read.
MergeErased ==
    /\ life' = Released(life, finishedRequests)
    /\ posted' = posted \cup LateSignals(life, finishedRequests)
    /\ UpdateResults(queuedRequests, {}, resultsArray, searchType, answer, asked)

\* updateResults() past its guard, with the requests it erases.
MergeFinished ==
    /\ life' = Released(life, finishedRequests)
    /\ posted' = posted \cup LateSignals(life, finishedRequests)
    /\ UpdateResults(queuedRequests, finishedRequests, resultsArray, searchType, answer, asked)

\* Mutant: the guard that recognises an old queued signal is dropped.
UpdateOnTimeoutAlways ==
    MergeFinished

UpdateOnTimeout ==
    IF searchInProgress
    THEN MergeFinished
    ELSE UNCHANGED <<searchInProgress, queuedRequests, finishedRequests, resultsArray,
                     searchResults, timerActive, life, posted, finishedSignals>>

TimerUpdate ==
    /\ timeoutPosted
    /\ timeoutPosted' = FALSE
    /\ UpdateOnTimeout
    /\ UNCHANGED <<asked, wanted, searchType, searchQueued, searchErrorString,
                   searchResultsUncertain, cancelled, answer>>

-----------------------------------------------------------------------------
User ==
    \/ \E type \in SearchTypes : Ask(type)
    \/ Cancel
    \/ Clear

Gui == (\E e \in Request : RequestFinished(e)) \/ TimerUpdate
Worker(r) == WorkerFlag(r) \/ WorkerEmit(r)

Next ==
    \/ User
    \/ Gui
    \/ TimerExpires
    \/ \E r \in Request : Worker(r)

Spec == Init /\ [][Next]_vars

-----------------------------------------------------------------------------
(***************************************************************************)
(* Fairness.  Qt's event loop delivers every posted event and runs every   *)
(* timer that has expired.  A worker that was asked to stop polls          *)
(* isCancelled and ends; whether a worker that nobody cancels ever ends is *)
(* up to the dictionary, so only SearchFinishes assumes it.  The user is   *)
(* never fair.                                                             *)
(***************************************************************************)
GuiFairness ==
    /\ \A e \in Request : WF_vars(RequestFinished(e))
    /\ WF_vars(TimerExpires)
    /\ WF_vars(TimerUpdate)
    /\ \A r \in Request : WF_vars(WorkerEmit(r))
    /\ \A r \in Request : WF_vars(r \in cancelled /\ WorkerFlag(r))

GuiSpec == Spec /\ GuiFairness
WorkersAnswer == \A r \in Request : WF_vars(WorkerFlag(r))

-----------------------------------------------------------------------------
OfSearch(s) == {r \in Request : r[1] = s}
Listed == queuedRequests \cup finishedRequests

(***************************************************************************)
(* A search only ever collects requests it made itself: what the cancelled *)
(* search before it still finds, or has left in finishedRequests, never    *)
(* shows among the new results (requestFinished(), startSearch()).         *)
(***************************************************************************)
OnlyOwnRequests ==
    /\ searchInProgress => Listed \subseteq OfSearch(asked)
    /\ searchQueued => Listed \cap OfSearch(asked) = {}

(***************************************************************************)
(* While a search goes on, resultsArray holds exactly what its requests    *)
(* found that are in neither list any more: no answer is dropped on the    *)
(* way through requestFinished() and updateResults(), and none comes from  *)
(* elsewhere.                                                              *)
(***************************************************************************)
NothingDropped ==
    searchInProgress =>
        resultsArray = Merged(Usable(searchType, Found(answer, OfSearch(asked) \ Listed)))

(***************************************************************************)
(* When finished() has been emitted for the last search, the results, the  *)
(* error flag and the uncertainty flag account for every request of it,    *)
(* whatever order they came in.                                            *)
(***************************************************************************)
FinalResultsComplete ==
    \A s \in Searches :
        (s = asked /\ finishedSignals[s] > 0) =>
            /\ \A r \in OfSearch(s) : life[r] \in {"none", "gone"}
            /\ resultsArray = Merged(Usable(searchType, Found(answer, OfSearch(s))))
            /\ searchErrorString = \E r \in OfSearch(s) : answer[r].error
            /\ searchResultsUncertain = \E r \in OfSearch(s) : answer[r].uncertain

(***************************************************************************)
(* finished() is emitted at most once for a search: the timer's event and  *)
(* the events of other requests that are still in the queue when it ends   *)
(* emit nothing more for it.                                               *)
(***************************************************************************)
FinishedOnce == \A s \in Searches : finishedSignals[s] <= 1

(***************************************************************************)
(* No worker outlives the lists: clear() "makes sure no pending requests   *)
(* exist, and hence no dictionaries are used anymore", and startSearch()   *)
(* never drops a request somebody still works for.                         *)
(***************************************************************************)
NoOrphanWorker ==
    \A r \in Request :
        /\ life[r] = "running" => r \in queuedRequests
        /\ life[r] = "flagged" => r \in Listed

(***************************************************************************)
(* No wake-up is lost.  A search that waits for the cancelled ones has a   *)
(* queued request left to wake it, all of them cancelled, and a queued     *)
(* request that is over has its event pending.                             *)
(***************************************************************************)
NoLostWakeup ==
    /\ searchQueued \/ searchInProgress => queuedRequests # {}
    /\ searchQueued => queuedRequests \subseteq cancelled
    /\ \A r \in queuedRequests : life[r] = "gone" => r \in posted

(***************************************************************************)
(* The account of the requests: each is in a list as long as somebody      *)
(* works for it, its answer goes into the results of its own search and of *)
(* no other, the search is ended once, and while it waits there is always  *)
(* an event on its way that takes it on.                                   *)
(***************************************************************************)
RequestsAccountedFor ==
    /\ TypeOK
    /\ OnlyOwnRequests
    /\ NothingDropped
    /\ FinishedOnce
    /\ NoOrphanWorker
    /\ NoLostWakeup

(***************************************************************************)
(* A search that had to wait for cancelled requests does start, even if    *)
(* dictionaries nobody cancels may take for ever.                          *)
(***************************************************************************)
QueuedSearchStarts == searchQueued ~> ~searchQueued

(***************************************************************************)
(* Results found so far are shown although another dictionary never        *)
(* answers: the one second timer works without the last request.           *)
(***************************************************************************)
PartialResultsShown ==
    (searchInProgress /\ finishedRequests # {}) ~> (~searchInProgress \/ finishedRequests = {})

(***************************************************************************)
(* If every dictionary answers, a search ends with finished() unless it is *)
(* cancelled or replaced.                                                  *)
(***************************************************************************)
SearchFinishes ==
    WorkersAnswer => \A s \in Searches :
        (asked = s /\ wanted) ~> (finishedSignals[s] = 1 \/ asked # s \/ ~wanted)

(***************************************************************************)
(* WordFinder implements the search service: a search is under way from    *)
(* the call that asks for it until finished() is emitted, unless cancel()  *)
(* or clear() is called before.                                            *)
(***************************************************************************)
Abstract ==
    INSTANCE SearchService WITH
        search <- asked,
        phase <- IF \E s \in Searches : s = asked /\ finishedSignals[s] > 0 THEN "finished"
                 ELSE IF wanted THEN "searching" ELSE "idle",
        found <- Usable(searchType, Found(answer, OfSearch(asked))),
        results <- resultsArray

(***************************************************************************)
(* The promise of wordfinder.hh holds of every behaviour of the code.      *)
(***************************************************************************)
ImplementsService == Abstract!Service

=============================================================================
