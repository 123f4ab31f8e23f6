----------------------------- MODULE NetReplies -----------------------------
(***************************************************************************)
(* The requests that are answered over the network: the article requests   *)
(* of MediaWiki (dict/mediawiki.cc), Forvo (dict/forvo.cc) and LinguaLibre *)
(* (dict/lingualibre.cc), and the download of a sound or a picture         *)
(* (webmultimediadownload.cc).  A request asks a network manager for one   *)
(* or more replies and is told, by a queued signal of the manager, when    *)
(* ANY reply of that manager has finished, its own or another's.           *)
(*                                                                         *)
(* All of it runs on the GUI thread.  The network decides when a reply     *)
(* finishes and with what.  A reply of MediaWiki or of a download belongs  *)
(* to the manager and outlives its request; one of Forvo or LinguaLibre is *)
(* destroyed with its request and then never finishes.                     *)
(***************************************************************************)
EXTENDS Integers, SequencesExt

CONSTANTS
    Sessions,       \* bound: the requests made together, each a kind and its words
    Pages,          \* the pages a reply may bring
    MaxRedirects    \* MAX_REDIRECTS

Kinds == {"MediaWiki", "Forvo", "LinguaLibre", "Download"}

ASSUME BoundsAssumption ==
    /\ \A session \in Sessions :
           \A i \in DOMAIN session : /\ session[i].kind \in Kinds
                                     /\ session[i].words \in Nat \ {0}
    /\ MaxRedirects \in Nat

\* A page is not one of the other ends of a reply.
ASSUME PagesAssumption ==
    Pages \cap {"unsent", "sent", "failed", "empty", "redirect"} = {}

VARIABLES
    kind,           \* kind[r]: what r is, "none" before it is created
    alive,          \* the requests created and not destroyed
    netReplies,     \* netReplies[r]: the replies waited for, as [number, finished]
    outcome,        \* outcome[r][n]: how the n-th reply of r finished
    data,           \* data[r]: what was appended to the answer, as [number, page]
    errorString,    \* errorString[r]: the number of the reply that failed last, or 0
    isFinished,     \* isFinished[r]
    redirectCount,
    cancelled,      \* the requests cancel() was called of
    events          \* the manager's queued signals, as [reply, to]

answerVars == <<netReplies, data, errorString, isFinished, redirectCount>>
vars == <<kind, alive, outcome, cancelled, events, answerVars>>

\* articleNetMgr serves the downloads, dictNetMgr the dictionaries.
Manager(k) == IF k = "Download" THEN "articleNetMgr" ELSE "dictNetMgr"

Requests == UNION {DOMAIN session : session \in Sessions}

\* The replies a request may come to have, numbered
Numbers == 1..MaxRedirects + 1 \cup
           UNION {UNION {1..session[i].words : i \in DOMAIN session} : session \in Sessions}

Waiting(n) == [number |-> n, finished |-> FALSE]

Init ==
    /\ kind = [r \in Requests |-> "none"]
    /\ alive = {}
    /\ netReplies = [r \in Requests |-> <<>>]
    /\ outcome = [r \in Requests |-> [n \in Numbers |-> "unsent"]]
    /\ data = [r \in Requests |-> <<>>]
    /\ errorString = [r \in Requests |-> 0]
    /\ isFinished = [r \in Requests |-> FALSE]
    /\ redirectCount = [r \in Requests |-> 0]
    /\ cancelled = {}
    /\ events = <<>>

-----------------------------------------------------------------------------
(* The life of a request *)

Posted(q, e) == IF e.to = {} THEN q ELSE Append(q, e)

\* The signals somebody is still to be told of
Pending(signals) ==
    LET kept[i \in 0..Len(signals)] == IF i = 0 THEN <<>> ELSE Posted(kept[i - 1], signals[i])
    IN  kept[Len(signals)]

\* The constructor: a MediaWiki or Forvo request asks for the word and for each of the
\* alternatives, LinguaLibre for the word only, a download for its address.
Create(r, session) ==
    /\ kind[r] = "none" /\ r \in DOMAIN session
    /\ \A s \in Requests : kind[s] # "none" => s \in DOMAIN session /\ session[s].kind = kind[s]
    /\ kind' = [kind EXCEPT ![r] = session[r].kind]
    /\ alive' = alive \cup {r}
    /\ LET asked == IF kind'[r] \in {"LinguaLibre", "Download"} THEN 1 ELSE session[r].words
       IN  /\ netReplies' = [netReplies EXCEPT ![r] = [n \in 1..asked |-> Waiting(n)]]
           /\ outcome' = [outcome EXCEPT ![r] =
                              [n \in Numbers |-> IF n <= asked THEN "sent" ELSE "unsent"]]
    /\ UNCHANGED <<data, errorString, isFinished, redirectCount, cancelled, events>>

\* cancel(): the request finishes at once; a download also forgets its reply.
Cancel(r) ==
    /\ r \in alive \ cancelled
    /\ cancelled' = cancelled \cup {r}
    /\ isFinished' = [isFinished EXCEPT ![r] = TRUE]
    /\ netReplies' = IF kind[r] = "Download" THEN [netReplies EXCEPT ![r] = <<>>] ELSE netReplies
    /\ UNCHANGED <<kind, alive, outcome, data, errorString, redirectCount, events>>

\* The last owner drops the request.  What was queued to it dies with it; so do the
\* replies of Forvo and LinguaLibre, and of the others only those sent remain.
Destroy(r) ==
    /\ r \in alive
    /\ alive' = alive \ {r}
    /\ outcome' = [outcome EXCEPT ![r] =
           [n \in Numbers |-> IF @[n] = "sent" /\ kind[r] \in {"MediaWiki", "Download"}
                              THEN "sent" ELSE "unsent"]]
    /\ netReplies' = [netReplies EXCEPT ![r] = <<>>]
    /\ data' = [data EXCEPT ![r] = <<>>]
    /\ errorString' = [errorString EXCEPT ![r] = 0]
    /\ isFinished' = [isFinished EXCEPT ![r] = FALSE]
    /\ redirectCount' = [redirectCount EXCEPT ![r] = 0]
    /\ cancelled' = cancelled \ {r}
    /\ events' = Pending([i \in DOMAIN events |-> [events[i] EXCEPT !.to = @ \ {r}]])
    /\ UNCHANGED kind

-----------------------------------------------------------------------------
(* The network *)

Outcomes(k) ==
    {"failed"} \cup Pages \cup IF k = "Download" THEN {"redirect"} ELSE {"empty"}

\* A reply finishes: every request then connected to its manager will hear of it.
ReplyFinishes(r, n) ==
    /\ outcome[r][n] = "sent"
    /\ \E o \in IF r \in alive THEN Outcomes(kind[r]) ELSE {"unsent"} :
           outcome' = [outcome EXCEPT ![r][n] = o]
    /\ events' = Pending(Append(events,
           [reply |-> <<r, n>>, to |-> {s \in alive : Manager(kind[s]) = Manager(kind[r])}]))
    /\ UNCHANGED <<kind, alive, cancelled, answerVars>>

-----------------------------------------------------------------------------
(* The slots.  Each gives the answer of the request s after it is told of  *)
(* the reply <<r, n>>.                                                     *)

Answer(s) == [queue |-> netReplies[s], data |-> data[s], error |-> errorString[s],
              finished |-> isFinished[s], redirects |-> redirectCount[s]]

\* What the n-th reply of s adds.  MediaWiki may redirect several words to one page,
\* which is then shown once.
WithReply(s, answer, n) ==
    LET o == outcome[s][n]
        shown == kind[s] = "MediaWiki" /\ \E i \in DOMAIN answer.data : answer.data[i].page = o
    IN  IF o = "failed" THEN [answer EXCEPT !.error = n]
        ELSE IF o = "empty" \/ shown THEN answer
        ELSE [answer EXCEPT !.data = Append(@, [number |-> n, page |-> o])]

\* netReplies of s with the reply <<r, n>> marked
Marked(s, r, n) ==
    [i \in DOMAIN netReplies[s] |->
         [netReplies[s][i] EXCEPT !.finished = @ \/ (r = s /\ netReplies[s][i].number = n)]]

\* One turn of the loop over the queue: the reply at its front, if that one has finished
Turn(s, answer) ==
    IF answer.queue = <<>> \/ ~Head(answer.queue).finished THEN answer
    ELSE WithReply(s, [answer EXCEPT !.queue = Tail(@)], Head(answer.queue).number)

\* The loop: it has no more turns than there are replies.
Drained(s, answer) ==
    LET after[k \in 0..Len(answer.queue)] == IF k = 0 THEN answer ELSE Turn(s, after[k - 1])
    IN  after[Len(answer.queue)]

Ours(s, r, n) == r = s /\ \E i \in DOMAIN netReplies[s] : netReplies[s][i].number = n

\* Mutant: the reply that has finished is taken, wherever it stands.
QueueSlotAnyOrder(s, r, n) ==
    LET rest == SelectSeq(netReplies[s], LAMBDA e : e.number # n)
    IN  IF isFinished[s] \/ ~Ours(s, r, n) THEN Answer(s)
        ELSE WithReply(s, [Answer(s) EXCEPT !.queue = rest, !.finished = (rest = <<>>)], n)

\* Mutant: only one reply is taken for each signal.
QueueSlotTakesOne(s, r, n) ==
    LET marked == Marked(s, r, n)
    IN  IF isFinished[s] \/ ~Ours(s, r, n) THEN Answer(s)
        ELSE IF ~Head(marked).finished THEN [Answer(s) EXCEPT !.queue = marked]
        ELSE WithReply(s, [Answer(s) EXCEPT !.queue = Tail(marked),
                                    !.finished = (Tail(marked) = <<>>)],
                       Head(marked).number)

\* Mutant: a cancelled request still takes its replies.
QueueSlotUncancelled(s, r, n) ==
    LET drained == Drained(s, [Answer(s) EXCEPT !.queue = Marked(s, r, n)])
    IN  IF ~Ours(s, r, n) THEN Answer(s)
        ELSE [drained EXCEPT !.finished = @ \/ drained.queue = <<>>]

\* Mutant: any finished reply of the manager is taken for the first of the queue.
QueueSlotNotOurs(s, r, n) ==
    LET rest == Tail(netReplies[s])
    IN  IF isFinished[s] THEN Answer(s)
        ELSE IF outcome[s][Head(netReplies[s]).number] = "sent"
             THEN [Answer(s) EXCEPT !.queue = rest, !.finished = (rest = <<>>)]
        ELSE WithReply(s, [Answer(s) EXCEPT !.queue = rest, !.finished = (rest = <<>>)],
                       Head(netReplies[s]).number)

\* MediaWikiArticleRequest and ForvoArticleRequest::requestFinished(): mark the reply,
\* then take the finished ones from the front of the queue.
QueueSlot(s, r, n) ==
    LET drained == Drained(s, [Answer(s) EXCEPT !.queue = Marked(s, r, n)])
    IN  IF isFinished[s] \/ ~Ours(s, r, n) THEN Answer(s)
        ELSE [drained EXCEPT !.finished = (drained.queue = <<>>)]

\* LinguaArticleRequest::requestFinished() never looks at which reply it is told of: it
\* reads its only reply, or gives up when that one has failed or has not finished yet.
LinguaSlot(s, r, n) ==
    LET o == outcome[s][1]
    IN  IF isFinished[s] THEN Answer(s)
        ELSE IF o \in Pages
             THEN [Answer(s) EXCEPT !.finished = TRUE, !.data = <<[number |-> 1, page |-> o]>>]
        ELSE [Answer(s) EXCEPT !.finished = TRUE]

\* WebMultimediaDownload::replyFinished(): a redirection is followed by another reply.
DownloadSlot(s, r, n) ==
    LET answer == Answer(s)
        o == outcome[s][n]
        count == answer.redirects + 1
    IN  IF ~Ours(s, r, n) THEN answer
        ELSE IF o = "redirect" /\ count <= MaxRedirects
             THEN [answer EXCEPT !.redirects = count, !.queue = <<Waiting(n + 1)>>]
        ELSE IF o = "redirect"
             THEN [answer EXCEPT !.redirects = count, !.error = n, !.finished = TRUE]
        ELSE WithReply(s, [answer EXCEPT !.queue = <<>>, !.finished = TRUE], n)

Slot(s, r, n) == CASE kind[s] = "Download"    -> DownloadSlot(s, r, n)
                   [] kind[s] = "LinguaLibre" -> LinguaSlot(s, r, n)
                   [] OTHER                   -> QueueSlot(s, r, n)

\* The event loop tells one request of the reply that finished first.
Deliver(s) ==
    /\ events # <<>> /\ s \in Head(events).to
    /\ LET r == Head(events).reply[1]
           n == Head(events).reply[2]
           answer == Slot(s, r, n)
       IN  /\ netReplies' = [netReplies EXCEPT ![s] = answer.queue]
           /\ data' = [data EXCEPT ![s] = answer.data]
           /\ errorString' = [errorString EXCEPT ![s] = answer.error]
           /\ isFinished' = [isFinished EXCEPT ![s] = answer.finished]
           /\ redirectCount' = [redirectCount EXCEPT ![s] = answer.redirects]
           \* a redirection sends the next request
           /\ outcome' = [outcome EXCEPT ![s] =
                  [m \in Numbers |-> IF @[m] = "unsent" /\ \E i \in DOMAIN answer.queue :
                                                              answer.queue[i].number = m
                                     THEN "sent" ELSE @[m]]]
    /\ events' = Pending([events EXCEPT ![1].to = @ \ {s}])
    /\ UNCHANGED <<kind, alive, cancelled>>

-----------------------------------------------------------------------------
Network == \E r \in Requests : \E n \in Numbers : ReplyFinishes(r, n)

Loop == \E s \in Requests : Deliver(s)

Next ==
    \/ \E r \in Requests : \E session \in Sessions : Create(r, session)
    \/ \E r \in Requests : Cancel(r)
    \/ \E r \in Requests : Destroy(r)
    \/ Network
    \/ Loop

Spec == Init /\ [][Next]_vars

\* The event loop runs.  Every reply that is not destroyed finishes: MediaWiki and
\* LinguaLibre set a transfer timeout of three seconds, of the others it is an
\* assumption about the network.  Each finishes once, so that fairness to the network
\* as a whole is fairness to each of them.
FairSpec == Spec /\ WF_vars(Loop) /\ WF_vars(Network)

-----------------------------------------------------------------------------
\* The replies of r that have been taken from its queue
Taken(r) == {n \in Numbers : /\ outcome[r][n] # "unsent"
                             /\ \A i \in DOMAIN netReplies[r] : netReplies[r][i].number # n}

Queued == {r \in alive : kind[r] \in {"MediaWiki", "Forvo"}}

\* The answer of MediaWiki and Forvo is in the order in which the words were asked for,
\* whatever the order of the replies: what was taken is a prefix of the words, it is
\* taken as soon as it has finished and been told of, each page of MediaWiki is shown
\* once, at the first of its words, and the error is that of the last word that failed.
AsAsked ==
    \A r \in Queued :
        LET brought == {n \in Taken(r) : outcome[r][n] \in Pages}
            shown == {n \in brought :
                         kind[r] = "MediaWiki" =>
                             ~\E m \in brought : m < n /\ outcome[r][m] = outcome[r][n]}
            failed == {n \in Taken(r) : outcome[r][n] = "failed"}
        IN  /\ Taken(r) = 1..Cardinality(Taken(r))
            /\ netReplies[r] # <<>> => ~Head(netReplies[r]).finished
            /\ ToSet(data[r]) = {[number |-> n, page |-> outcome[r][n]] : n \in shown}
            /\ \A i, j \in DOMAIN data[r] : i < j => data[r][i].number < data[r][j].number
            /\ errorString[r] = IF failed = {} THEN 0 ELSE Max(failed)

NotFound(r) ==
    isFinished[r] /\ r \notin cancelled /\ data[r] = <<>> /\ errorString[r] = 0

\* A request that has finished with neither data nor error did ask, and every one of its
\* replies came and brought nothing (dict/dictionary.hh:190).
NotFoundMeansAbsent ==
    \A r \in alive : kind[r] # "LinguaLibre" /\ NotFound(r) =>
        \A n \in Numbers : outcome[r][n] \in {"unsent", "empty"}

\* The same of LinguaLibre, which reports no errors: its reply came and brought nothing.
LinguaNotFoundMeansAbsent ==
    \A r \in alive : kind[r] = "LinguaLibre" /\ NotFound(r) =>
        outcome[r][1] \in {"empty", "failed"}

\* A finished request does not change: replies that come late, after cancel() or after
\* those of the others, are told to it and leave it alone.
FinalWhenFinished ==
    [][\A r \in alive \cap alive' : isFinished[r] => /\ data'[r] = data[r]
                                                  /\ errorString'[r] = errorString[r]
                                                  /\ isFinished'[r]]_vars

\* Every request finishes unless it is destroyed: no signal is taken for another's and
\* none of the replies is left in the queue.
EachEnds == <>[](\A r \in alive : isFinished[r])

=============================================================================
