---------------------------- MODULE FtsIndexing ----------------------------
(***************************************************************************)
(* The thread that builds the full-text indexes (FTS::FtsIndexing and      *)
(* FTS::Indexing, src/src/fulltextsearch.cc) and the main window that      *)
(* stops it, changes the dictionaries and starts it again                  *)
(* (src/src/ui/mainwindow.cc).                                             *)
(*                                                                         *)
(* The GUI thread and the indexing thread share the dictionary list, the   *)
(* isCancelled counter and the semaphore indexingExited; names to show go  *)
(* to the GUI thread through its event queue.  How one dictionary's index  *)
(* is built is module FtsIndex; here the work may leave the dictionary     *)
(* with or without its flag.                                               *)
(***************************************************************************)
EXTENDS Integers, Sequences, SequencesExt

CONSTANTS
    Dicts,      \* the dictionaries that can be searched in full text
    List,       \* their order
    Big,        \* those with more than MaxDictionarySizeForFastSearch articles
    MaxStarts,  \* bound on the calls of doIndexing()
    NoName      \* QString()

Tick == "tick"      \* the timer's event, for Indexing::timeout()

ASSUME ListAssumption ==
    /\ List \in Seq(Dicts)
    /\ Dicts = {List[i] : i \in DOMAIN List}
    /\ Big \subseteq Dicts
    /\ NoName \notin Dicts
    /\ Tick \notin Dicts \cup {NoName}
    /\ MaxStarts \in Nat

VARIABLES
    gui,            \* what the GUI thread does
    started,
    isCancelled,
    indexingExited, \* the semaphore's count
    dictionaries,   \* FtsIndexing::dictionaries
    haveFTSIndex,   \* flag of each dictionary
    touched,        \* dictionaries with some articles indexed and not all
    thread,         \* the Indexing runnable
    next,           \* the dictionary its loop is at
    tried,          \* dictionaries makeFTSIndex() worked on in this run
    events,         \* the GUI thread's queue: names to show and timer events
    nowIndexing,    \* the name shown
    starts

guiVars == <<gui, started, dictionaries, starts>>
threadVars == <<thread, next, tried>>
dictVars == <<haveFTSIndex, touched>>
vars == <<guiVars, isCancelled, indexingExited, dictVars, threadVars, events, nowIndexing>>

\* "edit" and "exit": the GUI waits in stopIndexing() before it edits or ends.
GuiStates == {"free", "edit", "exit", "editing", "closed"}

\* "first", "second": at the head of a loop; "busy1", "busy2": inside
\* makeFTSIndex(); "leaving": run() is over, the destructor is not.
ThreadStates == {"none", "created", "first", "busy1", "second", "busy2", "leaving"}

TypeOK ==
    /\ gui \in GuiStates
    /\ started \in BOOLEAN
    /\ isCancelled \in BOOLEAN
    /\ indexingExited \in Nat
    /\ dictionaries \in {List, <<>>}
    /\ haveFTSIndex \in [Dicts -> BOOLEAN]
    /\ touched \subseteq Dicts
    /\ thread \in ThreadStates
    /\ next \in 1 .. Len(List) + 1
    /\ tried \subseteq Dicts
    /\ events \in Seq(Dicts \cup {NoName, Tick})
    /\ nowIndexing \in Dicts \cup {NoName}
    /\ starts \in 0 .. MaxStarts

Init ==
    /\ gui = "editing"
    /\ started = FALSE
    /\ isCancelled = FALSE
    /\ indexingExited = 0
    /\ dictionaries = <<>>
    /\ haveFTSIndex \in [Dicts -> BOOLEAN]
    /\ touched = {}
    /\ thread = "none"
    /\ next = 1
    /\ tried = {}
    /\ events = <<>>
    /\ nowIndexing = NoName
    /\ starts = 0

Shared == <<isCancelled, indexingExited>>

-----------------------------------------------------------------------------
(***************************************************************************)
(* The main window.  makeDictionaries(), editDictionaries(),               *)
(* editPreferences() and the headword loader stop the indexing and clear   *)
(* its list, do their work, and set the list and start again.              *)
(***************************************************************************)
\* Mutant: the list is cleared before the thread has ended.
StopIndexingClears(why) ==
    /\ gui = "free"
    /\ gui' = why
    /\ isCancelled' = (isCancelled \/ started)
    /\ dictionaries' = <<>>
    /\ UNCHANGED <<started, starts, indexingExited, dictVars, threadVars, events, nowIndexing>>

StopIndexing(why) ==
    /\ gui = "free"
    /\ gui' = why
    /\ isCancelled' = (isCancelled \/ started)
    /\ UNCHANGED <<started, dictionaries, starts, indexingExited, dictVars, threadVars,
                   events, nowIndexing>>

\* stopIndexing() returns, at once if nothing was started, and the list is
\* cleared by clearDictionaries() or by the destructor.
\* Mutant: it does not wait.
StoppedAtOnce ==
    /\ gui \in {"edit", "exit"}
    /\ indexingExited' = IF started THEN indexingExited - 1 ELSE indexingExited
    /\ nowIndexing' = NoName
    /\ started' = FALSE
    /\ gui' = IF gui = "edit" THEN "editing" ELSE "closed"
    /\ dictionaries' = <<>>
    /\ UNCHANGED <<starts, isCancelled, dictVars, threadVars, events>>

Stopped ==
    /\ gui \in {"edit", "exit"}
    /\ IF started
       THEN /\ indexingExited > 0
            /\ indexingExited' = indexingExited - 1
            /\ nowIndexing' = NoName
       ELSE UNCHANGED <<indexingExited, nowIndexing>>
    /\ started' = FALSE
    /\ gui' = IF gui = "edit" THEN "editing" ELSE "closed"
    /\ dictionaries' = <<>>
    /\ UNCHANGED <<starts, isCancelled, dictVars, threadVars, events>>

(***************************************************************************)
(* setDictionaries() and doIndexing(): isCancelled is counted down to zero *)
(* and a new runnable is given to the thread pool.  The dictionaries are   *)
(* the ones there were or were loaded anew, with their indexes as found.   *)
(* doIndexing() would stop an indexing it finds started: the main window   *)
(* always stops it before (OneThread).                                     *)
(***************************************************************************)
\* Mutant: `started` is not set.
SetAndDoIndexingUnnoted ==
    /\ gui = "editing" /\ ~started
    /\ starts < MaxStarts
    /\ starts' = starts + 1
    /\ gui' = "free"
    /\ dictionaries' = List
    /\ isCancelled' = FALSE
    /\ thread' = "created"
    /\ UNCHANGED <<started, indexingExited, dictVars, next, tried, events, nowIndexing>>

SetAndDoIndexing ==
    /\ gui = "editing" /\ ~started
    /\ starts < MaxStarts
    /\ starts' = starts + 1
    /\ gui' = "free"
    /\ dictionaries' = List
    /\ \/ UNCHANGED dictVars
       \/ haveFTSIndex' \in [Dicts -> BOOLEAN] /\ touched' = {}
    /\ started' = TRUE
    /\ isCancelled' = FALSE
    /\ thread' = "created"
    /\ next' = 1
    /\ tried' = {}
    /\ UNCHANGED <<indexingExited, events, nowIndexing>>

(***************************************************************************)
(* The event loop: a name is stored by setNowIndexedName(); the timer's    *)
(* event makes timeout() show a dictionary that is partly indexed, unless  *)
(* the indexing is cancelled.                                              *)
(***************************************************************************)
HandleEvent ==
    /\ gui \in {"free", "editing"}
    /\ events # <<>>
    /\ events' = Tail(events)
    /\ IF Head(events) # Tick
       THEN nowIndexing' = Head(events)
       ELSE \/ nowIndexing' \in touched /\ ~isCancelled
            \/ UNCHANGED nowIndexing
    /\ UNCHANGED <<guiVars, Shared, dictVars, threadVars>>

-----------------------------------------------------------------------------
(***************************************************************************)
(* The indexing thread.                                                    *)
(***************************************************************************)
Begin ==
    /\ thread = "created"
    /\ thread' = "first"
    /\ next' = 1
    /\ UNCHANGED <<guiVars, Shared, dictVars, tried, events, nowIndexing>>

AtLoop == thread \in {"first", "second"}

\* The loop ends, or is left because the indexing is cancelled.
\* Mutant: there is no second iteration.
EndOnlyPass ==
    /\ AtLoop
    /\ next > Len(dictionaries) \/ isCancelled
    /\ next' = 1
    /\ thread' = "leaving"
    /\ events' = Append(events, NoName)
    /\ UNCHANGED <<guiVars, Shared, dictVars, tried, nowIndexing>>

EndPass ==
    /\ AtLoop
    /\ next > Len(dictionaries) \/ isCancelled
    /\ next' = 1
    /\ \/ thread = "first" /\ thread' = "second" /\ UNCHANGED events
       \/ /\ thread = "second"
          /\ thread' = "leaving"
          /\ events' = Append(events, NoName)
    /\ UNCHANGED <<guiVars, Shared, dictVars, tried, nowIndexing>>

\* Mutant: the loop does not go on.
PassOverStays ==
    /\ AtLoop
    /\ next <= Len(dictionaries) /\ ~isCancelled
    /\ haveFTSIndex[dictionaries[next]]
    /\ UNCHANGED vars

PassOver ==
    /\ AtLoop
    /\ next <= Len(dictionaries) /\ ~isCancelled
    /\ haveFTSIndex[dictionaries[next]]
    /\ next' = next + 1
    /\ UNCHANGED <<guiVars, Shared, dictVars, thread, tried, events, nowIndexing>>

\* Mutant: both iterations take every dictionary.
NotPostponed(d) == FALSE

\* The first iteration leaves big dictionaries alone.
Postponed(d) == thread = "first" /\ d \in Big

(***************************************************************************)
(* makeFTSIndex() is called: it returns at once for a big dictionary in    *)
(* the first iteration, and otherwise works on the index.                  *)
(***************************************************************************)
Make ==
    /\ AtLoop
    /\ next <= Len(dictionaries) /\ ~isCancelled
    /\ LET d == dictionaries[next]
       IN  /\ ~haveFTSIndex[d]
           /\ events' = Append(events, d)
           /\ IF Postponed(d)
              THEN /\ next' = next + 1
                   /\ UNCHANGED <<thread, tried, touched>>
              ELSE /\ thread' = IF thread = "first" THEN "busy1" ELSE "busy2"
                   /\ tried' = tried \cup {d}
                   /\ touched' = touched \cup {d}
                   /\ UNCHANGED next
    /\ UNCHANGED <<guiVars, Shared, haveFTSIndex, nowIndexing>>

\* makeFTSIndex() returns: the flag is set, or it failed or was cancelled.
Made ==
    /\ thread \in {"busy1", "busy2"}
    /\ thread' = IF thread = "busy1" THEN "first" ELSE "second"
    /\ next' = next + 1
    /\ LET d == dictionaries[next]
       IN  \/ /\ haveFTSIndex' = [haveFTSIndex EXCEPT ![d] = TRUE]
              /\ touched' \in {touched, touched \ {d}}
           \/ UNCHANGED dictVars
    /\ UNCHANGED <<guiVars, Shared, tried, events, nowIndexing>>

(***************************************************************************)
(* The two second timer of the thread posts an event; one is pending at    *)
(* most.  It runs from the start of run() until run() waits for it.        *)
(***************************************************************************)
\* Mutant: the timer outlives the run.
TimerTicksOn ==
    /\ \A i \in DOMAIN events : events[i] # Tick
    /\ events' = Append(events, Tick)
    /\ UNCHANGED <<guiVars, Shared, dictVars, threadVars, nowIndexing>>

TimerTicks ==
    /\ thread \in {"first", "busy1", "second", "busy2"}
    /\ \A i \in DOMAIN events : events[i] # Tick
    /\ events' = Append(events, Tick)
    /\ UNCHANGED <<guiVars, Shared, dictVars, threadVars, nowIndexing>>

\* The queue when the object goes that the timer's event is for, of which there
\* is one at most.
WithoutTick(queue) ==
    IF \E i \in DOMAIN queue : queue[i] = Tick
    THEN RemoveAt(queue, CHOOSE i \in DOMAIN queue : queue[i] = Tick)
    ELSE queue

\* ~Indexing(): its own pending events go, the name is cleared once more.
\* Mutant: the semaphore is not released.
ExitUnnoticed ==
    /\ thread = "leaving"
    /\ thread' = "none"
    /\ events' = Append(WithoutTick(events), NoName)
    /\ UNCHANGED <<guiVars, Shared, dictVars, next, tried, nowIndexing>>

Exit ==
    /\ thread = "leaving"
    /\ thread' = "none"
    /\ events' = Append(WithoutTick(events), NoName)
    /\ indexingExited' = indexingExited + 1
    /\ UNCHANGED <<guiVars, isCancelled, dictVars, next, tried, nowIndexing>>

-----------------------------------------------------------------------------
Window == (\E why \in {"edit", "exit"} : StopIndexing(why)) \/ SetAndDoIndexing
Thread == Begin \/ EndPass \/ PassOver \/ Make \/ Made \/ Exit

Next == Window \/ Stopped \/ HandleEvent \/ TimerTicks \/ Thread

Spec == Init /\ [][Next]_vars

\* The pool runs its thread, the GUI thread waits for the semaphore and
\* handles its events.  Nobody has to stop or start the indexing.
FairSpec ==
    /\ Spec
    /\ WF_vars(Stopped)
    /\ WF_vars(HandleEvent)
    /\ WF_vars(Thread)

-----------------------------------------------------------------------------
Alive == thread # "none"

(***************************************************************************)
(* The semaphore counts exactly the threads that ended and were not waited *)
(* for: stopIndexing() neither returns while the thread lives nor waits    *)
(* for one that is gone, and two threads never index at once.              *)
(***************************************************************************)
OneThread ==
    /\ started => indexingExited + (IF Alive THEN 1 ELSE 0) = 1
    /\ ~started => indexingExited = 0 /\ ~Alive
    /\ gui \in {"editing", "closed"} => ~started

(***************************************************************************)
(* The thread iterates over the list by reference: it is never changed     *)
(* under it, nor are the dictionaries replaced.                            *)
(***************************************************************************)
ListStable ==
    [][dictionaries' # dictionaries \/ gui' = "editing" => ~Alive]_vars

(***************************************************************************)
(* When the thread is gone and its events are handled, no name is shown as *)
(* being indexed, whatever was still in the queue when it was stopped.     *)
(***************************************************************************)
NameCleared == ~Alive /\ events = <<>> => nowIndexing = NoName

(***************************************************************************)
(* Big dictionaries wait for the small ones: when the thread works on one, *)
(* every small dictionary has been worked on or has its index.             *)
(***************************************************************************)
SmallFirst ==
    thread \in {"busy1", "busy2"} /\ dictionaries[next] \in Big =>
        \A d \in Dicts \ Big : haveFTSIndex[d] \/ d \in tried

(***************************************************************************)
(* A run that is not cancelled leaves out no dictionary.                   *)
(***************************************************************************)
NoneLeftOut ==
    thread = "leaving" /\ ~isCancelled =>
        \A d \in Dicts : haveFTSIndex[d] \/ d \in tried

(***************************************************************************)
(* The two passes keep their order and their events: small dictionaries    *)
(* first, and no event handled last that shows a name.                     *)
(***************************************************************************)
PassesInOrder == TypeOK /\ NameCleared /\ SmallFirst

(***************************************************************************)
(* The main window never hangs in stopIndexing(), and the indexing comes   *)
(* to an end of its own, its name gone from the status bar.                *)
(***************************************************************************)
IndexingEnds ==
    /\ (gui \in {"edit", "exit"}) ~> (gui \in {"editing", "closed"})
    /\ Alive ~> (~Alive /\ (nowIndexing = NoName \/ gui = "closed"))
=============================================================================
