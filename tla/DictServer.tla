----------------------------- MODULE DictServer -----------------------------
(***************************************************************************)
(* A request to a DICT server (src/src/dict/dictserver.cc): the word       *)
(* search, which sends a MATCH for every strategy and database, and the    *)
(* article request, which sends a DEFINE for every database.               *)
(*                                                                         *)
(* A worker thread talks to the server over a socket, line by line; the    *)
(* GUI thread may cancel the request at any moment, and destroy it.  The   *)
(* server answers every command as it likes, is late, or closes the        *)
(* connection.  The final "250" of an answer is left on the wire: the      *)
(* reply to the next command is read after it.                             *)
(***************************************************************************)
EXTENDS Integers, Sequences

CONSTANTS
    Strategies, Databases,  \* how many of each the dictionary is set up with
    Answers,                \* what a query may find, in order
    MaxMatches,             \* MAX_MATCHES_COUNT
    Handshake               \* bound: replies read by connectToServer()

ASSUME SetupAssumption ==
    /\ Strategies \in Nat \ {0} /\ Databases \in Nat \ {0}
    /\ MaxMatches \in Nat \ {0} /\ Handshake \in Nat \ {0}

\* The words, or the sources of articles, that may be found.
Items == UNION {{found[i] : i \in DOMAIN found} : found \in Answers}

ASSUME AnswersAssumption == \A found \in Answers : found \in Seq(Items)

VARIABLES
    kind,           \* which of the two requests it is
    pc,             \* where its worker is
    handshake,      \* replies read so far by connectToServer()
    query,          \* the strategy and database asked, counted together
    left,           \* matches or articles still to be read
    failing,        \* errorString is not empty
    got,            \* matchesList, or articleData
    text,           \* articleText
    sock,
    wire,           \* lines that the server sent and the worker has not read
    up,             \* the server keeps the connection
    answers,        \* history: what the server found for each query
    failed,         \* history: a read or write of the worker has failed
    result,         \* matches, or data
    isCancelled,
    isFinishedFlag,
    emitted,        \* emissions of finished()
    gui             \* where cancel() and the destructor are

localVars == <<handshake, query, left, failing, got, text, sock, failed>>
serverVars == <<wire, up, answers>>
sharedVars == <<result, isCancelled, isFinishedFlag, emitted>>
vars == <<kind, pc, localVars, serverVars, sharedVars, gui>>

Rounds == IF kind = "match" THEN Strategies ELSE 1
Queries == Rounds * Databases
Round(q) == (q - 1) \div Databases

WorkerPlaces ==
    {"start", "connect", "ask", "reply", "afterOk", "matches", "article", "mime",
     "text", "deciding", "storing", "closing", "finish", "emit", "done"}

GuiPlaces == {"idle", "cancel", "emit", "cancelled", "destroying", "destroyed"}

TypeOK ==
    /\ kind \in {"match", "define"}
    /\ pc \in WorkerPlaces
    /\ handshake \in 0 .. Handshake
    /\ query \in Nat
    /\ failing \in BOOLEAN /\ failed \in BOOLEAN
    /\ sock \in {"new", "connected", "closed", "deleted"}
    /\ up \in BOOLEAN
    /\ isCancelled \in BOOLEAN
    /\ isFinishedFlag \in BOOLEAN
    /\ emitted \in Nat
    /\ gui \in GuiPlaces

Init ==
    /\ kind \in {"match", "define"}
    /\ pc = "start"
    /\ handshake = 0 /\ query = 1 /\ left = 0
    /\ failing = FALSE /\ failed = FALSE
    /\ got = <<>> /\ text = <<>> /\ result = <<>>
    /\ sock = "new" /\ wire = <<>> /\ up = TRUE /\ answers = <<>>
    /\ isCancelled = FALSE /\ isFinishedFlag = FALSE /\ emitted = 0
    /\ gui = "idle"

\* The parts, one after the other.
Joined(parts) ==
    LET first[n \in 0 .. Len(parts)] == IF n = 0 THEN <<>> ELSE first[n - 1] \o parts[n]
    IN  first[Len(parts)]

-----------------------------------------------------------------------------
(***************************************************************************)
(* The server.                                                             *)
(***************************************************************************)
Line(c, i) == [code |-> c, of |-> query, item |-> i]

\* Article x of an answer: "151", a MIME header, a blank line, text, ".".
ArticleLines(x) ==
    <<Line("151", <<query, x, "from">>), Line("header", 0), Line("blank", 0),
      Line("text", <<query, x, "text">>), Line(".", 0)>>

\* What a query that finds `found` may be answered with.
AnswerLines(found) ==
    IF found = <<>> THEN {<<Line("552", 0)>>, <<Line("5xx", 0)>>}
    ELSE IF kind = "match"
    THEN {<<Line("152", Len(found))>>
          \o [i \in DOMAIN found |-> Line("word", found[i])]
          \o <<Line(".", 0), Line("250", 0)>>}
    ELSE {<<Line("150", Len(found))>>
          \o Joined([i \in DOMAIN found |-> ArticleLines(found[i])])
          \o <<Line("250", 0)>>}

\* The server goes away; what it sent last may be lost.
ServerCloses ==
    /\ up /\ pc # "done"
    /\ up' = FALSE
    /\ \E n \in 0 .. Len(wire) : wire' = SubSeq(wire, 1, n)
    /\ UNCHANGED <<kind, pc, localVars, answers, sharedVars, gui>>

-----------------------------------------------------------------------------
(***************************************************************************)
(* readLine(), used by a worker that is at `place`.                        *)
(***************************************************************************)
line == Head(wire)

Took(place) ==
    /\ pc = place
    /\ sock = "connected" /\ ~isCancelled
    /\ wire # <<>>
    /\ wire' = Tail(wire)
    /\ failing' = FALSE
    /\ UNCHANGED <<kind, handshake, sock, failed, up, answers, sharedVars, gui>>

\* No line: not connected any more, cancelled, late, or closed by the
\* server.  Only the last two leave an errorString.
CouldNotRead(place) ==
    /\ pc = place
    /\ \/ /\ isCancelled \/ sock # "connected"
          /\ failing' = FALSE
          /\ UNCHANGED <<sock, failed>>
       \/ /\ sock = "connected" /\ ~isCancelled
          /\ failing' = TRUE /\ failed' = TRUE
          /\ IF ~up /\ wire = <<>> THEN sock' \in {sock, "closed"} ELSE UNCHANGED sock
    /\ UNCHANGED <<kind, handshake, serverVars, sharedVars, gui>>

\* matchesList.removeDuplicates(): of each word the first stays.
Added(d, w) == IF \E i \in DOMAIN d : d[i] = w THEN d ELSE Append(d, w)

Distinct(s) ==
    LET kept[n \in 0 .. Len(s)] == IF n = 0 THEN <<>> ELSE Added(kept[n - 1], s[n])
    IN  kept[Len(s)]

\* The loop over the databases is left; a word search goes on with the next
\* strategy unless it was cancelled, has failed or has enough.
EndRound(g, failure) ==
    LET d == IF kind = "match" THEN Distinct(g) ELSE g
        last == Round(query) + 1 = Rounds
        over == last \/ isCancelled \/ failure \/ Len(d) >= MaxMatches
    IN  /\ got' = IF kind = "match" /\ ~isCancelled /\ ~failure THEN d ELSE g
        /\ query' = IF over THEN query ELSE (Round(query) + 1) * Databases + 1
        /\ pc' = IF over THEN "deciding" ELSE "ask"

NextQuery(g, failure) ==
    IF query % Databases = 0 THEN EndRound(g, failure)
    ELSE got' = g /\ query' = query + 1 /\ pc' = "ask"

Goto(place, n) ==
    /\ pc' = place
    /\ left' = n
    /\ UNCHANGED <<query, got, text>>

-----------------------------------------------------------------------------
(***************************************************************************)
(* run().                                                                  *)
(***************************************************************************)
Start ==
    /\ pc = "start"
    /\ IF isCancelled
       THEN pc' = "finish" /\ UNCHANGED sock
       ELSE pc' = "connect" /\ sock' \in {"connected", "closed"}
    /\ failed' = (sock' = "closed")
    /\ UNCHANGED <<kind, handshake, query, left, failing, got, text, serverVars,
                   sharedVars, gui>>

\* connectToServer(): a good reply to each of its commands in turn, or none,
\* or a refusal.
Connect ==
    /\ pc = "connect"
    /\ \/ /\ sock = "connected" /\ ~isCancelled /\ up
          /\ handshake' = handshake + 1
          /\ pc' = IF handshake' = Handshake THEN "ask" ELSE "connect"
          /\ UNCHANGED <<failing, failed, sock>>
       \/ /\ pc' = "closing"
          /\ failing' = ~isCancelled
          /\ failed' = (failed \/ ~isCancelled)
          /\ UNCHANGED <<handshake, sock>>
    /\ UNCHANGED <<kind, query, left, got, text, serverVars, sharedVars, gui>>

\* A command is written.  A closed connection may be noticed meanwhile.
Ask ==
    /\ pc = "ask"
    /\ IF up /\ sock = "connected"
       THEN \E found \in Answers :
               /\ answers' = Append(answers, found)
               /\ \E lines \in AnswerLines(found) : wire' = wire \o lines
               /\ UNCHANGED <<sock, failed>>
       ELSE /\ sock' \in {sock, "closed"}
            /\ failed' = TRUE
            /\ UNCHANGED <<wire, answers>>
    /\ IF isCancelled
       THEN EndRound(got, failing)
       ELSE pc' = "reply" /\ UNCHANGED <<query, got>>
    /\ UNCHANGED <<kind, handshake, left, failing, text, up, sharedVars, gui>>

\* Mutant: the end of the previous answer is not skipped.
ReadReplyUnskipped ==
    /\ Took("reply")
    /\ \/ line.code = "152" /\ Goto("matches", line.item + 1)
       \/ line.code = "150" /\ Goto("article", line.item)
       \/ line.code \notin {"152", "150"} /\ NextQuery(got, FALSE) /\ UNCHANGED <<left, text>>

\* The reply to a command, after the "250" that may precede it.
ReadReply ==
    \E place \in {"reply", "afterOk"} :
        /\ Took(place)
        /\ \/ line.code = "250" /\ place = "reply" /\ Goto("afterOk", left)
           \/ /\ line.code = "152" /\ kind = "match"
              /\ Goto("matches", line.item + 1)
           \/ /\ line.code = "150" /\ kind = "define"
              /\ Goto("article", line.item)
           \/ /\ line.code \notin {"152", "150"}
              /\ line.code = "250" => place = "afterOk"
              /\ NextQuery(got, FALSE)
              /\ UNCHANGED <<left, text>>

NoReply ==
    /\ \E place \in {"reply", "afterOk"} : CouldNotRead(place)
    /\ EndRound(got, failing')
    /\ UNCHANGED <<left, text>>

\* A word per line up to a ".", and no more lines than were announced.
ReadMatch ==
    /\ Took("matches")
    /\ left' = left - 1
    /\ LET g == IF line.code = "." THEN got ELSE Append(got, line.item)
       IN  IF line.code = "." \/ left' = 0
           THEN NextQuery(g, FALSE)
           ELSE got' = g /\ UNCHANGED <<query, pc>>
    /\ UNCHANGED text

\* Mutant: a failed read only ends the list of matches.
NoMatchForgiven ==
    /\ CouldNotRead("matches")
    /\ NextQuery(got, failing')
    /\ UNCHANGED <<left, text>>

NoMatch ==
    /\ CouldNotRead("matches")
    /\ IF isCancelled \/ failing' THEN EndRound(got, failing') ELSE NextQuery(got, FALSE)
    /\ UNCHANGED <<left, text>>

\* The head of an article.
ReadArticle ==
    /\ Took("article")
    /\ \/ /\ line.code = "151"
          /\ pc' = "mime"
          /\ got' = Append(got, line.item)
          /\ UNCHANGED <<query, left>>
       \/ /\ line.code # "151"
          /\ left' = left - 1
          /\ IF left' = 0 \/ line.code = "250"
             THEN NextQuery(got, FALSE)
             ELSE UNCHANGED <<query, got, pc>>
    /\ UNCHANGED text

NoArticle ==
    /\ CouldNotRead("article")
    /\ NextQuery(got, failing')
    /\ UNCHANGED <<left, text>>

\* The MIME headers up to a blank line.  A failure here only ends the loop.
ReadMime ==
    /\ Took("mime")
    /\ Goto(IF line.code = "blank" THEN "text" ELSE "mime", left)

\* Mutant: a failed read of a header is tried again.
NoMimeRetries == CouldNotRead("mime") /\ Goto("mime", left)

NoMime == CouldNotRead("mime") /\ Goto("text", left)

\* The article is complete, or the connection was lost on the way to it.
EndArticle ==
    /\ text' = <<>>
    /\ left' = left - 1
    /\ IF left' = 0 THEN NextQuery(got \o text, FALSE)
       ELSE got' = got \o text /\ pc' = "article" /\ UNCHANGED query

ReadText ==
    /\ Took("text")
    /\ IF line.code = "." THEN EndArticle
       ELSE /\ text' = IF line.code = "text" THEN Append(text, line.item) ELSE text
            /\ UNCHANGED <<query, left, got, pc>>

NoText ==
    /\ CouldNotRead("text")
    /\ IF isCancelled \/ failing'
       THEN text' = <<>> /\ NextQuery(got, failing') /\ UNCHANGED left
       ELSE EndArticle

\* What was read is for the GUI unless cancelled or failed.
Decide ==
    /\ pc = "deciding"
    /\ pc' = IF ~isCancelled /\ ~failing /\ got # <<>> THEN "storing" ELSE "closing"
    /\ UNCHANGED <<kind, localVars, serverVars, sharedVars, gui>>

\* The first MAX_MATCHES_COUNT different matches.
Best(s) ==
    LET d == Distinct(s)
    IN  IF Len(d) > MaxMatches THEN SubSeq(d, 1, MaxMatches) ELSE d

\* Mutant: the results are stored without the limit.
StoreAll ==
    /\ pc = "storing"
    /\ pc' = "closing"
    /\ result' = got
    /\ UNCHANGED <<kind, localVars, serverVars, isCancelled, isFinishedFlag, emitted, gui>>

\* Under dataMutex, which cancel() holds while it finishes.
Store ==
    /\ pc = "storing" /\ gui # "emit"
    /\ pc' = "closing"
    /\ result' = IF kind = "match" THEN Best(got) ELSE got
    /\ UNCHANGED <<kind, localVars, serverVars, isCancelled, isFinishedFlag, emitted, gui>>

Close ==
    /\ pc = "closing"
    /\ sock' = "deleted"
    /\ wire' = <<>>
    /\ pc' = IF isCancelled THEN "done" ELSE "finish"
    /\ UNCHANGED <<kind, handshake, query, left, failing, got, text, failed, up, answers,
                   sharedVars, gui>>

(***************************************************************************)
(* Request::finish() tests the flag and sets it in two steps, in the       *)
(* worker and in cancel().                                                 *)
(***************************************************************************)
FinishTest ==
    /\ pc = "finish"
    /\ pc' = IF isFinishedFlag THEN "done" ELSE "emit"
    /\ UNCHANGED <<kind, localVars, serverVars, sharedVars, gui>>

FinishEmit ==
    /\ pc = "emit"
    /\ pc' = "done"
    /\ isFinishedFlag' = TRUE
    /\ emitted' = emitted + 1
    /\ UNCHANGED <<kind, localVars, serverVars, result, isCancelled, gui>>

-----------------------------------------------------------------------------
(***************************************************************************)
(* The GUI thread.                                                         *)
(***************************************************************************)
Cancel ==
    /\ gui = "idle"
    /\ gui' = "cancel"
    /\ isCancelled' = TRUE
    /\ UNCHANGED <<kind, pc, localVars, serverVars, result, isFinishedFlag, emitted>>

\* Mutant: the worker is trusted to finish.
CancelTrusts ==
    /\ gui = "cancel"
    /\ gui' = "cancelled"
    /\ UNCHANGED <<kind, pc, localVars, serverVars, sharedVars>>

CancelTest ==
    /\ gui = "cancel"
    /\ gui' = IF isFinishedFlag THEN "cancelled" ELSE "emit"
    /\ UNCHANGED <<kind, pc, localVars, serverVars, sharedVars>>

CancelEmit ==
    /\ gui = "emit"
    /\ gui' = "cancelled"
    /\ isFinishedFlag' = TRUE
    /\ emitted' = emitted + 1
    /\ UNCHANGED <<kind, pc, localVars, serverVars, result, isCancelled>>

\* The destructor waits for the worker, cancelled or not.
Destroy ==
    /\ gui \in {"idle", "cancelled"}
    /\ gui' = "destroying"
    /\ UNCHANGED <<kind, pc, localVars, serverVars, sharedVars>>

Destroyed ==
    /\ gui = "destroying" /\ pc = "done"
    /\ gui' = "destroyed"
    /\ UNCHANGED <<kind, pc, localVars, serverVars, sharedVars>>

-----------------------------------------------------------------------------
Reading ==
    \/ ReadReply \/ NoReply \/ ReadMatch \/ NoMatch
    \/ ReadArticle \/ NoArticle \/ ReadMime \/ NoMime \/ ReadText \/ NoText

Finishing == FinishTest \/ FinishEmit
Worker == Start \/ Connect \/ Ask \/ Reading \/ Decide \/ Store \/ Close \/ Finishing
Gui == Cancel \/ CancelTest \/ CancelEmit \/ Destroy \/ Destroyed

Next == Worker \/ ServerCloses \/ Gui

Spec == Init /\ [][Next]_vars

(***************************************************************************)
(* The worker runs, a call of the GUI thread comes to its end; nobody need *)
(* cancel, destroy or answer.                                              *)
(***************************************************************************)
FairSpec ==
    /\ Spec
    /\ WF_vars(Worker)
    /\ WF_vars(CancelTest) /\ WF_vars(CancelEmit) /\ WF_vars(Destroyed)

-----------------------------------------------------------------------------
\* What the queries asked found, in the order asked.
Found == Joined(answers)

\* What query q shows of the articles it found.
Shown(q, found) ==
    Joined([i \in DOMAIN found |-> <<<<q, found[i], "from">>, <<q, found[i], "text">>>>])

(***************************************************************************)
(* A request that was not cancelled, and that no read failed, has asked    *)
(* every database (every strategy too, unless there were enough matches)   *)
(* and holds exactly what the server found: every line was taken for what  *)
(* it is, the "250" left over by the query before included.                *)
(***************************************************************************)
AnswersWhole ==
    pc = "done" /\ ~failed /\ ~isCancelled =>
        /\ kind = "match" =>
              /\ result = Best(Found)
              /\ Len(answers) = Queries \/ Len(Distinct(Found)) >= MaxMatches
        /\ kind = "define" =>
              /\ Len(answers) = Queries
              /\ result = Joined([q \in DOMAIN answers |-> Shown(q, answers[q])])

(***************************************************************************)
(* The worker and the server never get out of step.                        *)
(***************************************************************************)
LinesInStep == TypeOK /\ AnswersWhole

(***************************************************************************)
(* A failed read ends a word search: the failure is not forgotten with the *)
(* next line that can be read, nothing more is asked, and what a broken    *)
(* connection cut short is not passed off as the server's answer.          *)
(***************************************************************************)
NoneFromBroken ==
    kind = "match" /\ failing =>
        /\ pc \in {"deciding", "closing", "finish", "emit", "done"}
        /\ result = <<>>

(***************************************************************************)
(* However the worker and cancel() meet, finished() has been emitted when  *)
(* both are through: each leaves it to the other only if the other does it.*)
(***************************************************************************)
FinishNotLost ==
    pc = "done" /\ gui \notin {"cancel", "emit"} => isFinishedFlag /\ emitted > 0

(***************************************************************************)
(* Whatever the server does, or does not, the request finishes and its     *)
(* destructor, which waits for the worker, returns.                        *)
(***************************************************************************)
DestructorReturns ==
    /\ <>(emitted > 0)
    /\ gui = "destroying" ~> gui = "destroyed"

(***************************************************************************)
(* NOT kept by the code (README, Divergences), and not among the runs:     *)
(* "the data accumulated is final and won't change anymore"                *)
(* (src/src/dict/dictionary.hh:51).                                        *)
(***************************************************************************)
FinalWhenFinished == [][isFinishedFlag => result' = result]_vars
=============================================================================
