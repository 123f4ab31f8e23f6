------------------------------ MODULE FtsDialog ------------------------------
(***************************************************************************)
(* The full-text search dialog (FullTextSearchDialog in fulltextsearch.cc, *)
(* closeFullTextSearchDialog() in ui/mainwindow.cc) and the requests it    *)
(* makes, one worker thread each (FTSResultsRequest in ftshelpers.cc).     *)
(*                                                                         *)
(* A worker posts the number of its matches, then its answer, then that it *)
(* has finished; the dialog merges the answers into its list.  To stop a   *)
(* search the dialog cancels every request and runs an event loop until    *)
(* all of them are gone, so that slots, clicks and further stops run       *)
(* nested inside the stop: `frames' is the stack of the stops under way.   *)
(***************************************************************************)
EXTENDS Integers, FiniteSets, SequencesExt

CONSTANTS
    Dicts,          \* the active dictionaries, numbered in their order
    Hits,           \* Hits[d]: what dictionary d answers, in the order of the query
    Rank,           \* Rank[w]: place of headword w in the locale's order
    Fold,           \* Fold[w]: w without regard to case
    MaxRounds,      \* bound on the rounds: dialogs opened and clicks on OK
    MaxFrames       \* bound on the depth of nested stops

Words == DOMAIN Fold

ASSUME DictsAssumption ==
    /\ Dicts \in Nat
    /\ \A d \in 1..Dicts : d \in DOMAIN Hits /\ Hits[d] \in Seq(Words)

ASSUME BoundsAssumption == MaxRounds \in Nat /\ MaxFrames \in Nat

VARIABLES
    round,          \* the dialogs opened and the clicks on OK so far: the list is the last one's
    reqs,           \* searchReqs: <<round, dictionary>>, in the order of creation
    worker,         \* worker[r]: where the request's worker is
    isCancelled,    \* the requests told to stop
    found,          \* found[r]: the request's answer
    events,         \* the events posted to the dialog
    settled,        \* everything posted before the last event ended is delivered
    results,        \* the list: entries [word, dicts]
    matchedCount,
    okEnabled,      \* the OK button
    frames,         \* the stops under way, the innermost last
    dialog          \* "none", "open", "accepting" (inside accept()) or "deleted"

vars == <<round, reqs, worker, isCancelled, found, events, settled, results, matchedCount,
          okEnabled, frames, dialog>>
workerVars == <<worker, found>>
guiVars == <<round, reqs, isCancelled, settled, results, matchedCount, okEnabled, frames, dialog>>

Requests == (1..MaxRounds) \X (1..Dicts)

\* The dialog was deleted by a stop nested in another one, which goes on in it:
\* what follows is undefined.
Dangling == dialog = "deleted" /\ frames # <<>>

Init ==
    /\ round = 0
    /\ reqs = <<>>
    /\ worker = [r \in Requests |-> "none"]
    /\ isCancelled = {}
    /\ found = [r \in Requests |-> <<>>]
    /\ events = <<>>
    /\ settled = TRUE
    /\ results = <<>>
    /\ matchedCount = 0
    /\ okEnabled = FALSE
    /\ frames = <<>>
    /\ dialog = "none"

-----------------------------------------------------------------------------
(* addSortedHeadwords(): a merge by the locale's order, in which headwords *)
(* that differ in case only become one entry when they meet.               *)

Entries == [word : Words, dicts : SUBSET (1..Dicts)]
Entry(w, d) == [word |-> w, dicts |-> {d}]

Less(e, f) == Rank[e.word] < Rank[f.word]
Same(e, f) == Fold[e.word] = Fold[f.word]

\* Mutant: the dictionary of an equal headword is not taken over.
AddSortedDropsEqual(base, add) ==
    IF base = <<>> THEN add
    ELSE SortSeq(base \o SelectSeq(add, LAMBDA e : \A f \in ToSet(base) : ~Same(e, f)), Less)

\* A turn of the loop over both lists: what was not yet looked at of either, and the
\* list made so far.  An equal headword leaves its dictionaries with the one of base.
Merges == [base : Seq(Entries), add : Seq(Entries), list : Seq(Entries)]

MergeTurn[m \in Merges] ==
    IF m.base = <<>> /\ m.add = <<>> THEN m
    ELSE IF m.add # <<>> /\ (m.base = <<>> \/ Less(Head(m.add), Head(m.base)))
         THEN [m EXCEPT !.add = Tail(@), !.list = Append(@, Head(m.add))]
    ELSE IF m.add # <<>> /\ Same(Head(m.add), Head(m.base))
         THEN [m EXCEPT !.add = Tail(@), !.base[1].dicts = @ \cup Head(m.add).dicts]
    ELSE [m EXCEPT !.base = Tail(@), !.list = Append(@, Head(m.base))]

AddSortedHeadwords(base, add) ==
    LET after[k \in 0..Len(base) + Len(add)] ==
            IF k = 0 THEN [base |-> base, add |-> add, list |-> <<>>]
            ELSE MergeTurn[after[k - 1]]
    IN  IF base = <<>> THEN add ELSE after[Len(base) + Len(add)].list

\* list with e behind the entries that are not greater
Insert(list, e) ==
    LET n == Cardinality({i \in DOMAIN list : ~Less(e, list[i])})
    IN  [i \in 1..Len(list) + 1 |-> IF i <= n THEN list[i]
                                    ELSE IF i = n + 1 THEN e ELSE list[i - 1]]

\* std::sort of one request's answer
Sorted(r) ==
    LET first[n \in 0..Len(found[r])] ==
            IF n = 0 THEN <<>> ELSE Insert(first[n - 1], Entry(found[r][n], r[2]))
    IN  first[Len(found[r])]

\* The answers of several requests, merged one after the other
Together(done) ==
    LET first[n \in 0..Len(done)] ==
            IF n = 0 THEN <<>> ELSE AddSortedHeadwords(first[n - 1], Sorted(done[n]))
    IN  first[Len(done)]

-----------------------------------------------------------------------------
(* FTSResultsRequest::run() *)

Post(e) == events' = Append(events, e)

\* emit matchCount(): the query has been run
CountMatches(r) ==
    /\ worker[r] = "running"
    /\ worker' = [worker EXCEPT ![r] = "counted"]
    /\ Post([kind |-> "count", req |-> r])
    /\ UNCHANGED <<found, guiVars>>

\* The headwords of the matches, as far as it came when it is cancelled.
Answer(r) ==
    /\ worker[r] = "counted"
    /\ \E n \in 0..Len(Hits[r[2]]) :
           /\ r \notin isCancelled => n = Len(Hits[r[2]])
           /\ found' = [found EXCEPT ![r] = SubSeq(Hits[r[2]], 1, n)]
    /\ worker' = [worker EXCEPT ![r] = "flagged"]
    /\ UNCHANGED <<events, guiVars>>

\* ensureInitDone() failed, the index is not there or not readable, or a block is
\* damaged: no answer
Fail(r) ==
    /\ worker[r] \in {"running", "counted"}
    /\ worker' = [worker EXCEPT ![r] = "flagged"]
    /\ UNCHANGED <<found, events, guiVars>>

\* Mutant: a request that was told to stop ends without a word.
EmitUnlessCancelled(r) ==
    /\ worker[r] = "flagged"
    /\ worker' = [worker EXCEPT ![r] = "ended"]
    /\ IF r \in isCancelled THEN UNCHANGED events ELSE Post([kind |-> "finished", req |-> r])
    /\ UNCHANGED <<found, guiVars>>

\* the second half of finish()
EmitFinished(r) ==
    /\ worker[r] = "flagged"
    /\ worker' = [worker EXCEPT ![r] = "ended"]
    /\ Post([kind |-> "finished", req |-> r])
    /\ UNCHANGED <<found, guiVars>>

Worker(r) == CountMatches(r) \/ Answer(r) \/ Fail(r) \/ EmitFinished(r)

-----------------------------------------------------------------------------
(* searchReqFinished(): takes every request whose flag is up, in the order *)
(* of the list.  Erasing one waits for its worker, which has nothing left  *)
(* to do but to post the event.                                            *)

Flagged == {r \in Requests : worker[r] = "flagged"}
Finished == {r \in Requests : worker[r] \in {"flagged", "ended"}}

\* s without what is not in S
Members(s, S) ==
    LET kept[n \in 0..Len(s)] ==
            IF n = 0 THEN <<>>
            ELSE IF s[n] \in S THEN Append(kept[n - 1], s[n]) ELSE kept[n - 1]
    IN  kept[Len(s)]

\* Mutant: the button is enabled with the first request gone.
SearchReqFinishedEager(rest) ==
    LET done == Members(reqs, Finished)
    IN  /\ reqs' = Members(reqs, Requests \ Finished)
        /\ worker' = [r \in Requests |-> IF r \in ToSet(done) THEN "ended" ELSE worker[r]]
        /\ events' = rest
        /\ results' = AddSortedHeadwords(results, Together(done))
        /\ okEnabled' = TRUE
        /\ settled' = (events' = <<>>)
        /\ UNCHANGED <<round, isCancelled, found, matchedCount, frames>>

SearchReqFinished(rest) ==
    LET done == Members(reqs, Finished)
        late == Members(reqs, Flagged)
    IN  /\ reqs' = Members(reqs, Requests \ Finished)
        /\ worker' = [r \in Requests |-> IF r \in ToSet(late) THEN "ended" ELSE worker[r]]
        /\ events' = rest \o [i \in DOMAIN late |-> [kind |-> "finished", req |-> late[i]]]
        /\ results' = AddSortedHeadwords(results, Together(done))
        /\ okEnabled' = (reqs' = <<>> \/ okEnabled)
        /\ settled' = (events' = <<>>)
        /\ UNCHANGED <<round, isCancelled, found, matchedCount, frames>>

-----------------------------------------------------------------------------
(* What the user does.  Qt delivers everything posted before it looks at   *)
(* the mouse and the keyboard again.                                       *)

UserMayAct == dialog = "open" /\ settled

\* Mutant: the count goes on from the last search.
NewRoundKeepsCount(asked) ==
    /\ round < MaxRounds
    /\ round' = round + 1
    /\ results' = <<>>
    /\ matchedCount' = matchedCount
    /\ worker' = [r \in Requests |-> IF r \in asked THEN "running" ELSE "none"]
    /\ found' = [r \in Requests |-> <<>>]
    /\ isCancelled' = {}

\* A new list, for the answers of `asked'.  The requests erased before are destroyed,
\* and nothing is kept of them here.
NewRound(asked) ==
    /\ round < MaxRounds
    /\ round' = round + 1
    /\ results' = <<>>
    /\ matchedCount' = 0
    /\ worker' = [r \in Requests |-> IF r \in asked THEN "running"
                                     ELSE IF r \in ToSet(reqs) THEN worker[r] ELSE "none"]
    /\ found' = [r \in Requests |-> IF r \in ToSet(reqs) THEN found[r] ELSE <<>>]
    /\ isCancelled' = isCancelled \cap ToSet(reqs)

\* showFullTextSearchDialog(): a dialog with the OK button enabled
Open ==
    /\ dialog \in {"none", "deleted"}
    /\ frames = <<>>
    /\ NewRound({})
    /\ dialog' = "open"
    /\ okEnabled' = TRUE
    /\ settled' = TRUE
    /\ UNCHANGED <<reqs, frames, events>>

\* accept() up to its last line: the dictionaries that have an index are asked.
Accept ==
    /\ UserMayAct
    /\ okEnabled
    /\ \E indexed \in SUBSET (1..Dicts) :
           LET asked == Members([d \in 1..Dicts |-> <<round + 1, d>>],
                                 {<<round + 1, d>> : d \in indexed})
           IN  NewRound(ToSet(asked)) /\ reqs' = reqs \o asked
    /\ okEnabled' = FALSE
    /\ dialog' = "accepting"
    /\ UNCHANGED <<events, settled, frames>>

\* "Handle any ones which have already finished"
AcceptEnds ==
    /\ dialog = "accepting"
    /\ dialog' = "open"
    /\ SearchReqFinished(events)

\* accept() with nothing to search for or nowhere to search: a message box
AcceptRefused ==
    /\ UserMayAct
    /\ okEnabled
    /\ NewRound({})
    /\ UNCHANGED <<reqs, okEnabled, frames, dialog, settled, events>>

\* stopSearch() up to its loop, called by `caller'
StopSearch(caller) ==
    /\ Len(frames) < MaxFrames
    /\ isCancelled' = isCancelled \cup (ToSet(reqs) \ Finished)
    /\ frames' = Append(frames, caller)

\* What was posted to a dialog dies with it.
Delete ==
    /\ dialog' = "deleted"
    /\ events' = <<>>
    /\ settled' = TRUE

\* Mutant: the search is not waited for.
CloseAtOnce(rest) ==
    /\ Delete
    /\ UNCHANGED <<isCancelled, frames>>
    /\ UNCHANGED <<round, reqs, results, matchedCount, okEnabled, workerVars>>

\* closeFullTextSearchDialog(), with `rest' still posted
CloseFullTextSearchDialog(rest) ==
    /\ IF reqs = <<>>
       THEN Delete /\ UNCHANGED <<isCancelled, frames>>
       ELSE /\ StopSearch("close")
            /\ events' = rest
            /\ settled' = (rest = <<>>)
            /\ UNCHANGED dialog
    /\ UNCHANGED <<round, reqs, results, matchedCount, okEnabled, workerVars>>

\* reject(): a click stops the search; without a search it closes the dialog
Reject ==
    /\ UserMayAct
    /\ IF reqs # <<>>
       THEN StopSearch("reject") /\ UNCHANGED <<events, settled>>
       ELSE /\ Post([kind |-> "close", req |-> <<>>])
            /\ settled' = FALSE
            /\ UNCHANGED <<isCancelled, frames>>
    /\ UNCHANGED <<round, reqs, results, matchedCount, okEnabled, dialog, workerVars>>

\* The dictionaries or the preferences are edited, or the files rescanned.
Close == UserMayAct /\ CloseFullTextSearchDialog(events)

-----------------------------------------------------------------------------
(* The event loop, the outer one or that of the innermost stop *)

\* while( searchReqs.size() ) is looked at when the pending events are delivered.
StopReturns ==
    /\ dialog = "open"
    /\ frames # <<>>
    /\ reqs = <<>>
    /\ settled
    /\ frames' = Front(frames)
    /\ IF Last(frames) = "close" THEN Delete ELSE UNCHANGED <<dialog, events, settled>>
    /\ UNCHANGED <<round, reqs, isCancelled, results, matchedCount, okEnabled, workerVars>>

DeliverFinished ==
    /\ dialog = "open"
    /\ events # <<>> /\ Head(events).kind = "finished"
    /\ SearchReqFinished(Tail(events))
    /\ UNCHANGED dialog

\* matchCount( int )
DeliverCount ==
    /\ dialog = "open"
    /\ events # <<>> /\ Head(events).kind = "count"
    /\ matchedCount' = matchedCount + Len(Hits[Head(events).req[2]])
    /\ events' = Tail(events)
    /\ settled' = (events' = <<>>)
    /\ UNCHANGED <<round, reqs, isCancelled, results, okEnabled, frames, dialog, workerVars>>

\* closeDialog, queued to the main window
DeliverClose ==
    /\ dialog = "open"
    /\ events # <<>> /\ Head(events).kind = "close"
    /\ CloseFullTextSearchDialog(Tail(events))

-----------------------------------------------------------------------------
Loop == StopReturns \/ DeliverFinished \/ DeliverCount \/ DeliverClose \/ AcceptEnds
User == Open \/ Accept \/ AcceptRefused \/ Reject \/ Close

Next == User \/ Loop \/ \E r \in Requests : Worker(r)

Spec == Init /\ [][Next]_vars

\* The event loop runs, and so does every worker.  Nobody has to click.
FairSpec == Spec /\ WF_vars(Loop) /\ \A r \in Requests : WF_vars(Worker(r))

-----------------------------------------------------------------------------
TypeOK ==
    /\ round \in 0..MaxRounds
    /\ ToSet(reqs) \subseteq Requests
    /\ worker \in [Requests -> {"none", "running", "counted", "flagged", "ended"}]
    /\ isCancelled \subseteq Requests
    /\ \A r \in Requests : IsPrefix(found[r], Hits[r[2]])
    /\ \A i \in DOMAIN events : events[i].kind \in {"count", "finished", "close"}
    /\ settled \in BOOLEAN /\ okEnabled \in BOOLEAN
    /\ \A e \in ToSet(results) : e.dicts \subseteq 1..Dicts
    /\ frames \in UNION {[1..n -> {"reject", "close"}] : n \in 0..MaxFrames}
    /\ dialog \in {"none", "open", "accepting", "deleted"}

\* A new search may be started exactly when none runs: the OK button is disabled
\* while there is a request, and enabled again with the last one, however the
\* search ends.
OkMeansIdle == dialog = "open" => (okEnabled <=> reqs = <<>>)

\* The dictionaries whose answer to the current search has been handled.
Gone == {d \in 1..Dicts : /\ worker[<<round, d>>] # "none"
                          /\ <<round, d>> \notin ToSet(reqs)}

Shows(e, w) == Fold[e.word] = Fold[w]

\* The list is what the requests of the current search have answered: each headword
\* of an answer is there under the name of its dictionary, in whatever order the
\* dictionaries finish, and nothing of an earlier search is.
ResultsOfSearch ==
    dialog = "open" =>
        /\ \A d \in Gone : \A w \in ToSet(found[<<round, d>>]) :
               \E e \in ToSet(results) : Shows(e, w) /\ d \in e.dicts
        /\ \A e \in ToSet(results) : \A d \in e.dicts :
               d \in Gone /\ \E w \in ToSet(found[<<round, d>>]) : Shows(e, w)

\* The matches of some of the dictionaries
MatchesOf(S) ==
    LET sum[d \in 0..Dicts] ==
            IF d = 0 THEN 0 ELSE sum[d - 1] + (IF d \in S THEN Len(Hits[d]) ELSE 0)
    IN  sum[Dicts]

\* matchCount() adds up the matches of the current search only: no count of an
\* earlier one arrives after it was set to zero.
CountOfSearch ==
    dialog = "open" =>
        matchedCount <= MatchesOf({d \in 1..Dicts : worker[<<round, d>>] # "none"})

\* When the dialog is gone no worker is left that would use a dictionary: the
\* dictionaries are destroyed next.
NoOrphanSearch == dialog = "deleted" => \A r \in Requests : worker[r] \in {"none", "ended"}

\* The dialog's state as it is seen by whoever may act on it next: the user through
\* the OK button, the main window that closes it and frees the dictionaries.
DialogSound == TypeOK /\ OkMeansIdle /\ NoOrphanSearch

\* Every search ends, stopped or not, and stopSearch() returns although it blocks the
\* slot it was called from: what it waits for happens in its own event loop.
StopEnds ==
    /\ reqs # <<>> ~> reqs = <<>>
    /\ frames # <<>> ~> frames = <<>> \/ Dangling

=============================================================================
