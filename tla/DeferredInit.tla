---------------------------- MODULE DeferredInit ----------------------------
(***************************************************************************)
(* The deferred initialisation of a DSL dictionary (dict/dsl.cc; the MDX   *)
(* dictionary of dict/mdx.cc has the same code).  The constructor opens    *)
(* nothing but the index file's header.  The rest is opened by the first   *)
(* who comes: a runnable of the global thread pool, queued at the lowest   *)
(* priority when the dictionaries have been loaded, the worker thread of a *)
(* request, or the GUI thread, which asks whether the dictionary can be    *)
(* searched in full.  All of them go through doDeferredInit(), a           *)
(* double-checked lock around the opening of a fixed list of parts.        *)
(*                                                                         *)
(* The life of one dictionary is modelled, up to its destruction by the    *)
(* GUI thread.  Nothing that runs inside keeps it alive: a word search     *)
(* (btreeidx.hh:224) and a request for a resource (dsl.cc:1711) hold a     *)
(* bare reference, the runnable a bare `this'.  Only a page keeps the      *)
(* dictionaries of its articles.  WordFinder::clear() waits for the word   *)
(* searches when the dictionaries are edited; a rescan does not call it    *)
(* and nothing waits for the resources, so that the destructor may come at *)
(* any moment of theirs.                                                   *)
(***************************************************************************)
EXTENDS Integers

CONSTANTS
    Users,      \* the worker threads of requests
    Gui,        \* the GUI thread
    Pool,       \* the thread of the pool that takes the runnable
    NoThread,   \* what holds the mutex when nobody does
    Parts,      \* how many parts are opened: chunks, text, abbreviations, index, zip
    IndexPart   \* the place of the index among them

ASSUME ThreadsAssumption ==
    /\ Gui \notin Users /\ Pool \notin Users /\ Gui # Pool
    /\ NoThread \notin Users \cup {Gui, Pool}
ASSUME PartsAssumption == Parts \in Nat /\ IndexPart \in 1..Parts

VARIABLES
    deferredInitDone,   \* the atomic flag
    deferredInitMutex,  \* the thread that holds the mutex, or NoThread
    runnable,           \* "none", "queued", "running" or "over"
    deferCalled,        \* the loader has called deferredInit()
    opened,             \* how many of the parts are open
    initError,          \* initError is not empty
    pc                  \* where each thread is

vars == <<deferredInitDone, deferredInitMutex, runnable, deferCalled, opened, initError, pc>>

Threads == Users \cup {Gui, Pool}
Freed == pc[Gui] = "gone"

Goto(t, where) == pc' = [pc EXCEPT ![t] = where]

Init ==
    /\ deferredInitDone = FALSE
    /\ deferredInitMutex = NoThread
    /\ runnable = "none"
    /\ deferCalled = FALSE
    /\ opened = 0
    /\ initError = FALSE
    /\ pc = [t \in Threads |-> "idle"]

-----------------------------------------------------------------------------
(* QMutexLocker _( &deferredInitMutex ) *)

Lock(t, from, to) ==
    /\ pc[t] = from
    /\ deferredInitMutex = NoThread
    /\ deferredInitMutex' = t
    /\ Goto(t, to)
    /\ UNCHANGED <<deferredInitDone, runnable, deferCalled, opened, initError>>

-----------------------------------------------------------------------------
(* deferredInit(): called by the loader, once for a dictionary.  The       *)
(* runnable is started with the mutex held.                                *)

CallDeferredInit ==
    /\ pc[Gui] = "idle"
    /\ ~deferCalled
    /\ deferCalled' = TRUE
    /\ Goto(Gui, IF deferredInitDone THEN "idle" ELSE "deferLock")
    /\ UNCHANGED <<deferredInitDone, deferredInitMutex, runnable, opened, initError>>

LockDeferred == Lock(Gui, "deferLock", "deferRecheck")

StartRunnable ==
    /\ pc[Gui] = "deferRecheck"
    /\ runnable' = IF ~deferredInitDone /\ runnable = "none" THEN "queued" ELSE runnable
    /\ deferredInitMutex' = NoThread
    /\ Goto(Gui, "idle")
    /\ UNCHANGED <<deferredInitDone, deferCalled, opened, initError>>

\* A thread of the pool gets to the runnable, whatever has become of `this'.
RunRunnable ==
    /\ runnable = "queued"
    /\ runnable' = "running"
    /\ Goto(Pool, "test")
    /\ UNCHANGED <<deferredInitDone, deferredInitMutex, deferCalled, opened, initError>>

-----------------------------------------------------------------------------
(* ensureInitDone() and doDeferredInit() *)

\* run() of a request, or setFTSParameters() on the GUI thread
CallEnsureInitDone(t) ==
    /\ t # Pool
    /\ pc[t] = "idle"
    /\ ~Freed
    /\ Goto(t, "test")
    /\ UNCHANGED <<deferredInitDone, deferredInitMutex, runnable, deferCalled, opened, initError>>

\* the first check, with no lock
Test(t) ==
    /\ pc[t] = "test"
    /\ Goto(t, IF deferredInitDone THEN "return" ELSE "lock")
    /\ UNCHANGED <<deferredInitDone, deferredInitMutex, runnable, deferCalled, opened, initError>>

LockInit(t) == Lock(t, "lock", "recheck")

\* Mutant: the flag is not looked at again.
RecheckDropped(t) ==
    /\ pc[t] = "recheck"
    /\ Goto(t, "open")
    /\ opened' = 0
    /\ UNCHANGED <<deferredInitDone, deferredInitMutex, runnable, deferCalled, initError>>

\* Mutant: the flag is raised before the parts are opened.
RecheckPublishes(t) ==
    /\ pc[t] = "recheck"
    /\ deferredInitDone' = TRUE
    /\ IF deferredInitDone
       THEN Goto(t, "unlock") /\ UNCHANGED opened
       ELSE Goto(t, "open") /\ opened' = 0
    /\ UNCHANGED <<deferredInitMutex, runnable, deferCalled, initError>>

\* the second check: another thread may have opened everything meanwhile
Recheck(t) ==
    /\ pc[t] = "recheck"
    /\ IF deferredInitDone
       THEN Goto(t, "unlock") /\ UNCHANGED opened
       ELSE Goto(t, "open") /\ opened' = 0
    /\ UNCHANGED <<deferredInitDone, deferredInitMutex, runnable, deferCalled, initError>>

\* the next part, inside the try block
OpenPart(t) ==
    /\ pc[t] = "open"
    /\ opened < Parts
    /\ opened' = opened + 1
    /\ Goto(t, IF opened' = Parts THEN "publish" ELSE "open")
    /\ UNCHANGED <<deferredInitDone, deferredInitMutex, runnable, deferCalled, initError>>

\* an exception: the parts opened so far stay open, the next ones never are
OpenFails(t) ==
    /\ pc[t] = "open"
    /\ initError' = TRUE
    /\ Goto(t, "publish")
    /\ UNCHANGED <<deferredInitDone, deferredInitMutex, runnable, deferCalled, opened>>

Publish(t) ==
    /\ pc[t] = "publish"
    /\ deferredInitDone' = TRUE
    /\ Goto(t, "unlock")
    /\ UNCHANGED <<deferredInitMutex, runnable, deferCalled, opened, initError>>

\* Mutant: the mutex is not released after an error.
UnlockOnlyIfOpen(t) ==
    /\ pc[t] = "unlock"
    /\ deferredInitMutex' = IF initError THEN deferredInitMutex ELSE NoThread
    /\ Goto(t, "return")
    /\ UNCHANGED <<deferredInitDone, runnable, deferCalled, opened, initError>>

Unlock(t) ==
    /\ pc[t] = "unlock"
    /\ deferredInitMutex' = NoThread
    /\ Goto(t, "return")
    /\ UNCHANGED <<deferredInitDone, runnable, deferCalled, opened, initError>>

\* The caller looks at the error; the runnable has nothing more to do.
Return(t) ==
    /\ pc[t] = "return"
    /\ runnable' = IF t = Pool THEN "over" ELSE runnable
    /\ Goto(t, IF t = Pool \/ initError THEN "idle" ELSE "use")
    /\ UNCHANGED <<deferredInitDone, deferredInitMutex, deferCalled, opened, initError>>

\* findArticles(), loadArticle(), getResource() and the rest, to their end
Use(t) ==
    /\ pc[t] = "use"
    /\ Goto(t, "idle")
    /\ UNCHANGED <<deferredInitDone, deferredInitMutex, runnable, deferCalled, opened, initError>>

-----------------------------------------------------------------------------
(* The headwords of a dictionary may be listed from the dictionaries       *)
(* dialog, which has just loaded it: findNodes() takes the index as it is. *)

ListHeadwords ==
    /\ pc[Gui] = "idle"
    /\ Goto(Gui, "list")
    /\ UNCHANGED <<deferredInitDone, deferredInitMutex, runnable, deferCalled, opened, initError>>

HeadwordsListed ==
    /\ pc[Gui] = "list"
    /\ Goto(Gui, "idle")
    /\ UNCHANGED <<deferredInitDone, deferredInitMutex, runnable, deferCalled, opened, initError>>

-----------------------------------------------------------------------------
(* A rescan drops the last pointer to the dictionary, whoever is inside.   *)
(* ~DslDictionary() takes the mutex, and waits neither for the runnable    *)
(* nor for a request.                                                      *)

Destroy ==
    /\ pc[Gui] = "idle"
    /\ Goto(Gui, "destroyLock")
    /\ UNCHANGED <<deferredInitDone, deferredInitMutex, runnable, deferCalled, opened, initError>>

LockDestroy == Lock(Gui, "destroyLock", "closing")

\* the text is closed, the mutex released and every member destroyed
Close ==
    /\ pc[Gui] = "closing"
    /\ deferredInitMutex' = NoThread
    /\ Goto(Gui, "gone")
    /\ UNCHANGED <<deferredInitDone, runnable, deferCalled, opened, initError>>

-----------------------------------------------------------------------------
\* What a thread does by itself once it is inside the dictionary.  What a
\* thread does in a destroyed dictionary is undefined and not modelled.
Step(t) ==
    /\ ~Freed
    /\ \/ Test(t) \/ LockInit(t) \/ Recheck(t) \/ OpenPart(t) \/ OpenFails(t)
       \/ Publish(t) \/ Unlock(t) \/ Return(t) \/ Use(t)

GuiStep == LockDeferred \/ StartRunnable \/ HeadwordsListed \/ LockDestroy \/ Close

\* The GUI thread makes no request of a dictionary it destroys.  One it made
\* before, whose worker has not begun, is one that stands before its first look.
Call(t) == pc[Gui] \notin {"destroyLock", "closing"} /\ CallEnsureInitDone(t)

Next ==
    \/ CallDeferredInit \/ ListHeadwords \/ Destroy
    \/ GuiStep
    \/ RunRunnable
    \/ \E t \in Threads : Call(t) \/ Step(t)

Spec == Init /\ [][Next]_vars

\* Every thread goes on while it has something to do, and a thread of the pool
\* comes to the runnable in the end.  Nobody has to call anything.
Fairness ==
    /\ WF_vars(GuiStep)
    /\ WF_vars(RunRunnable)
    /\ \A t \in Threads : WF_vars(Step(t))

FairSpec == Spec /\ Fairness

-----------------------------------------------------------------------------
TypeOK ==
    /\ deferredInitDone \in BOOLEAN
    /\ deferredInitMutex \in Threads \cup {NoThread}
    /\ runnable \in {"none", "queued", "running", "over"}
    /\ deferCalled \in BOOLEAN
    /\ opened \in 0..Parts
    /\ initError \in BOOLEAN
    /\ pc \in [Threads -> {"idle", "test", "lock", "recheck", "open", "publish", "unlock",
                           "return", "use", "deferLock", "deferRecheck", "list",
                           "destroyLock", "closing", "gone"}]

\* At most one thread opens the dictionary, and none does once it is open.
OneInitialiser ==
    \A s, t \in Threads :
        pc[t] \in {"open", "publish"} => /\ pc[s] \in {"open", "publish"} => s = t
                                         /\ ~deferredInitDone

\* A thread that was let past ensureInitDone() without an error finds every
\* part open, and none that another thread is opening still.
UsersSeeWhole ==
    \A t \in Threads :
        pc[t] = "use" => /\ deferredInitDone
                         /\ opened = Parts

\* The error and the parts are settled when the flag is raised: initError is
\* returned by reference and read with no lock, twice by most callers.
SettledWhenDone ==
    [][deferredInitDone => deferredInitDone' /\ UNCHANGED <<opened, initError>>]_vars

\* Every call of ensureInitDone() returns, unless the dictionary is destroyed
\* around it, and the destructor gets its turn among those inside: nobody waits for
\* the mutex for good, whoever opens the dictionary and however that ends.
EnsureReturns ==
    /\ \A t \in Threads : pc[t] = "test" ~> pc[t] = "return" \/ Freed
    /\ pc[Gui] = "destroyLock" ~> Freed

\* NOT kept by the code (README, Divergences), and not among the runs.  zim.cc:723
\* says of the reference its request holds, as those of dsl.cc and btreeidx.hh do:
\* "the dict will outlive this object, so the reference & used here is proper."
\* No request is inside a destroyed dictionary.
DictOutlivesRequests == Freed => \A u \in Users : pc[u] = "idle"

\* NOT kept either.  dsl.cc:325 "Wait for init runnable to complete if it was ever started":
\* when the dictionary is destroyed its runnable is not inside, nor yet to come.
RunnableOverWhenDestroyed == Freed => runnable \in {"none", "over"}

\* NOT kept either.  dsl.cc:374 "no one should be working with it until the init is complete": the
\* headwords are listed only from an index that is open.
IndexOpenWhenListed == pc[Gui] = "list" => deferredInitDone /\ opened >= IndexPart

=============================================================================
