-------------------------- MODULE NetRepliesProofs --------------------------
(***************************************************************************)
(* Proofs about the requests answered over the network, for any number of  *)
(* them, of words and of pages: an answer is in the order of its words, a  *)
(* request that ends with nothing has asked and found nothing, and what    *)
(* has ended does not change.                                              *)
(***************************************************************************)
EXTENDS NetReplies, SequenceTheorems, FiniteSetTheorems, WellFoundedInduction, TLAPS

\* How a reply may have ended
Ends == Pages \cup {"failed", "empty", "redirect"}

Waits == [number : Nat, finished : BOOLEAN]
Brings == [number : Nat, page : Pages]
Signals == [reply : Requests \X Numbers, to : SUBSET Requests]

TypeInv ==
    /\ kind \in [Requests -> Kinds \cup {"none"}]
    /\ alive \subseteq Requests
    /\ cancelled \subseteq alive
    /\ netReplies \in [Requests -> Seq(Waits)]
    /\ outcome \in [Requests -> [Numbers -> Ends \cup {"sent", "unsent"}]]
    /\ data \in [Requests -> Seq(Brings)]
    /\ errorString \in [Requests -> Nat]
    /\ isFinished \in [Requests -> BOOLEAN]
    /\ redirectCount \in [Requests -> Nat]
    /\ events \in Seq(Signals)

\* A request not yet made has nothing.
NewInv ==
    \A r \in Requests : kind[r] = "none" =>
        /\ r \notin alive
        /\ data[r] = <<>> /\ errorString[r] = 0 /\ ~isFinished[r]

\* Who is told of a reply of its own finds it finished, and is told once.
Right(q, live, o, k) ==
    \A i \in DOMAIN q :
        /\ q[i].to \subseteq live
        /\ \A r \in q[i].to : \A n \in Numbers :
               q[i].reply = <<r, n>> => o[r][n] \in Outcomes(k[r])

Once(q) ==
    \A i, j \in DOMAIN q : \A r \in q[i].to \cap q[j].to : \A n \in Numbers :
        q[i].reply = <<r, n>> /\ q[j].reply = <<r, n>> => i = j

SignalInv == Right(events, alive, outcome, kind) /\ Once(events)

\* The first w replies were asked for.
Asked(o, w) ==
    /\ 1..w \subseteq Numbers
    /\ \A n \in Numbers : o[n] = "unsent" <=> n > w

\* The replies t + 1 to w wait, and those marked have ended.
InQueue(k, o, queue, t, w) ==
    /\ Len(queue) = w - t
    /\ \A i \in 1..w - t : /\ queue[i].number = t + i
                           /\ queue[i].finished => o[t + i] \in Outcomes(k)

\* The data is what the first t replies brought, in their order.
DataOf(k, o, d, t) ==
    /\ \A i \in DOMAIN d : /\ d[i].number \in 1..t
                           /\ d[i].page = o[d[i].number]
                           /\ k = "MediaWiki" =>
                                  \A m \in 1..t : o[m] = d[i].page => d[i].number <= m
    /\ \A i, j \in DOMAIN d : i < j => d[i].number < d[j].number
    /\ \A n \in 1..t : o[n] \in Pages =>
           \E i \in DOMAIN d : d[i].page = o[n] /\ (k # "MediaWiki" => d[i].number = n)

\* The error is the last of theirs.
ErrorOf(o, e, t) ==
    /\ e = 0 \/ (e \in 1..t /\ o[e] = "failed")
    /\ \A n \in 1..t : o[n] = "failed" => n <= e

Told(k, o, answer, t) ==
    /\ \A n \in 1..t : o[n] \in Outcomes(k)
    /\ DataOf(k, o, answer.data, t)
    /\ ErrorOf(o, answer.error, t)

Stopped(queue) == queue = <<>> \/ ~queue[1].finished

\* The first t of the w replies of r are taken.
TakenOf(r, w, t) ==
    /\ t \in 0..w
    /\ Asked(outcome[r], w)
    /\ InQueue(kind[r], outcome[r], netReplies[r], t, w)
    /\ Told(kind[r], outcome[r], Answer(r), t)
    /\ Stopped(netReplies[r])
    /\ isFinished[r] <=> r \in cancelled \/ t = w

InOrder(r) == \E w \in Nat \ {0} : \E t \in Nat : TakenOf(r, w, t)

QueuedInv == \A r \in Queued : InOrder(r)

\* A download that ended has something to show for it, and waits for no reply that is
\* still to finish or to be told of.
Over(r) ==
    \A i \in DOMAIN netReplies[r] : \A n \in Numbers : netReplies[r][i].number = n =>
        /\ outcome[r][n] \in Ends
        /\ \A j \in DOMAIN events : r \in events[j].to => events[j].reply # <<r, n>>

Brought(r) ==
    /\ Len(netReplies[r]) <= 1
    /\ isFinished[r] => Over(r)
    /\ isFinished[r] /\ r \notin cancelled => data[r] # <<>> \/ errorString[r] # 0

DownloadInv == \A r \in alive : kind[r] = "Download" => Brought(r)

Answers == [queue : Seq(Waits), data : Seq(Brings), error : Nat, finished : BOOLEAN,
            redirects : Nat]

IInv == TypeInv /\ NewInv /\ SignalInv /\ QueuedInv /\ DownloadInv

(***************************************************************************)
(* The loops, step by step.                                                *)
(***************************************************************************)
LEMMA SetInduction ==
  ASSUME NEW S, 0 \in S, \A n \in Nat : n \in S => n + 1 \in S
  PROVE  Nat \subseteq S
  <1> DEFINE T == Nat \ S
  <1> SUFFICES ASSUME T # {} PROVE FALSE
    OBVIOUS
  <1>1. T \subseteq Nat
    OBVIOUS
  <1>2. IsWellFoundedOn(OpToRel(<, Nat), Nat)
    BY Zenon, NatLessThanWellFounded
  <1> HIDE DEF T
  <1>3. PICK x \in T : \A y \in T : ~(<<y, x>> \in OpToRel(<, Nat))
    BY <1>1, <1>2, WFMin
  <1>4. x \in Nat /\ x # 0
    BY <1>1 DEF T
  <1>5. x - 1 \in Nat /\ x - 1 < x /\ (x - 1) + 1 = x
    BY <1>4
  <1>6. x - 1 \notin T
    BY <1>3, <1>4, <1>5 DEF OpToRel
  <1> QED BY <1>3, <1>4, <1>5, <1>6 DEF T

\* u keeps, of the first signals of p, those somebody is still to be told of.
KeepsTo(u, p, n) == u[0] = <<>> /\ \A m \in 1 .. n : u[m] = Posted(u[m - 1], p[m])

LEMMA KeepsExists ==
  ASSUME NEW p, NEW n \in Nat
  PROVE  \E u : KeepsTo(u, p, n)
  <1> DEFINE S == {m \in Nat : \E u : KeepsTo(u, p, m)}
  <1>1. 0 \in S
    <2> DEFINE u == [m \in 0 .. 0 |-> <<>>]
    <2>1. KeepsTo(u, p, 0)
      BY DEF KeepsTo
    <2> QED BY <2>1
  <1>2. ASSUME NEW m \in Nat, m \in S PROVE m + 1 \in S
    <2>1. PICK u : KeepsTo(u, p, m)
      BY <1>2
    <2> DEFINE v == [j \in 0 .. m + 1 |-> IF j = m + 1 THEN Posted(u[m], p[m + 1]) ELSE u[j]]
    <2>2. v[0] = u[0] /\ v[m + 1] = Posted(u[m], p[m + 1]) /\ v[m] = u[m]
      OBVIOUS
    <2>3. ASSUME NEW j \in 1 .. m + 1, j # m + 1 PROVE v[j] = Posted(v[j - 1], p[j])
      <3>1. j \in 1 .. m /\ j \in 0 .. m + 1 /\ j - 1 \in 0 .. m + 1 /\ j - 1 # m + 1
        BY <2>3
      <3>2. v[j] = u[j] /\ v[j - 1] = u[j - 1]
        BY <2>3, <3>1
      <3> QED BY <2>1, <3>1, <3>2, Zenon DEF KeepsTo
    <2>4. (m + 1) - 1 = m
      OBVIOUS
    <2> HIDE DEF v
    <2>5. u[0] = <<>>
      BY <2>1 DEF KeepsTo
    <2>6. \A j \in 1 .. m + 1 : v[j] = Posted(v[j - 1], p[j])
      BY <2>2, <2>3, <2>4
    <2>7. KeepsTo(v, p, m + 1)
      BY <2>2, <2>5, <2>6, Zenon DEF KeepsTo
    <2> QED BY <2>7
  <1> HIDE DEF S
  <1>3. n \in S
    BY <1>1, <1>2, SetInduction
  <1> QED BY <1>3 DEF S

LEMMA PendingIs ==
  ASSUME NEW p, Len(p) \in Nat
  PROVE  \E u : KeepsTo(u, p, Len(p)) /\ Pending(p) = u[Len(p)]
  <1> DEFINE L == Len(p)
             body(g) == [n \in 0 .. L |-> IF n = 0 THEN <<>> ELSE Posted(g[n - 1], p[n])]
  <1>1. \E a : a = (CHOOSE g : g = body(g)) /\ Pending(p) = a[L]
    BY Zenon DEF Pending
  <1>2. PICK a : a = (CHOOSE g : g = body(g)) /\ Pending(p) = a[L]
    BY <1>1
  <1>3. \E g : g = body(g)
    <2> HIDE DEF L
    <2>1. PICK u : KeepsTo(u, p, L)
      BY KeepsExists DEF L
    <2> DEFINE h == [m \in 0 .. L |-> u[m]]
    <2>2. L \in Nat
      BY DEF L
    <2>3. \A m \in 0 .. L : u[m] = IF m = 0 THEN <<>> ELSE Posted(u[m - 1], p[m])
      <3>1. SUFFICES ASSUME NEW m \in 0 .. L
                     PROVE  u[m] = IF m = 0 THEN <<>> ELSE Posted(u[m - 1], p[m])
        OBVIOUS
      <3>2. m = 0 \/ m \in 1 .. L
        BY <2>2
      <3> QED BY <2>1, <3>2, Zenon DEF KeepsTo
    <2>4. \A m \in 0 .. L : m # 0 => m - 1 \in 0 .. L
      BY <2>2
    <2>5. \A m \in 0 .. L : h[m] = u[m]
      OBVIOUS
    <2> HIDE DEF h
    <2>6. \A m \in 0 .. L : h[m] = IF m = 0 THEN <<>> ELSE Posted(h[m - 1], p[m])
      BY <2>3, <2>4, <2>5
    <2>7. h = [m \in 0 .. L |-> h[m]]
      BY DEF h
    <2>8. h = body(h)
      BY <2>6, <2>7
    <2> QED BY <2>8
  <1>4. a = body(a)
    BY <1>2, <1>3, Zenon
  <1>5. L \in Nat
    OBVIOUS
  <1> HIDE DEF L
  <1>6. a[0] = <<>> /\ \A m \in 1 .. L : a[m] = Posted(a[m - 1], p[m])
    BY <1>4, <1>5
  <1> QED BY <1>2, <1>6 DEF KeepsTo, L

\* u is the answer of s after each turn of the loop that begins with a.
TurnsTo(u, s, a, n) == u[0] = a /\ \A m \in 1 .. n : u[m] = Turn(s, u[m - 1])

LEMMA TurnsExist ==
  ASSUME NEW s, NEW a, NEW n \in Nat
  PROVE  \E u : TurnsTo(u, s, a, n)
  <1> DEFINE S == {m \in Nat : \E u : TurnsTo(u, s, a, m)}
  <1>1. 0 \in S
    <2> DEFINE u == [m \in 0 .. 0 |-> a]
    <2>1. TurnsTo(u, s, a, 0)
      BY DEF TurnsTo
    <2> QED BY <2>1
  <1>2. ASSUME NEW m \in Nat, m \in S PROVE m + 1 \in S
    <2>1. PICK u : TurnsTo(u, s, a, m)
      BY <1>2
    <2> DEFINE v == [j \in 0 .. m + 1 |-> IF j = m + 1 THEN Turn(s, u[m]) ELSE u[j]]
    <2>2. v[0] = u[0] /\ v[m + 1] = Turn(s, u[m]) /\ v[m] = u[m]
      OBVIOUS
    <2>3. ASSUME NEW j \in 1 .. m + 1, j # m + 1 PROVE v[j] = Turn(s, v[j - 1])
      <3>1. j \in 1 .. m /\ j \in 0 .. m + 1 /\ j - 1 \in 0 .. m + 1 /\ j - 1 # m + 1
        BY <2>3
      <3>2. v[j] = u[j] /\ v[j - 1] = u[j - 1]
        BY <2>3, <3>1
      <3> QED BY <2>1, <3>1, <3>2, Zenon DEF TurnsTo
    <2>4. (m + 1) - 1 = m
      OBVIOUS
    <2> HIDE DEF v
    <2>5. u[0] = a
      BY <2>1 DEF TurnsTo
    <2>6. \A j \in 1 .. m + 1 : v[j] = Turn(s, v[j - 1])
      BY <2>2, <2>3, <2>4
    <2>7. TurnsTo(v, s, a, m + 1)
      BY <2>2, <2>5, <2>6, Zenon DEF TurnsTo
    <2> QED BY <2>7
  <1> HIDE DEF S
  <1>3. n \in S
    BY <1>1, <1>2, SetInduction
  <1> QED BY <1>3 DEF S

LEMMA DrainedIs ==
  ASSUME NEW s, NEW a, Len(a.queue) \in Nat
  PROVE  \E u : TurnsTo(u, s, a, Len(a.queue)) /\ Drained(s, a) = u[Len(a.queue)]
  <1> DEFINE L == Len(a.queue)
             body(g) == [n \in 0 .. L |-> IF n = 0 THEN a ELSE Turn(s, g[n - 1])]
  <1>1. \E f : f = (CHOOSE g : g = body(g)) /\ Drained(s, a) = f[L]
    BY Zenon DEF Drained
  <1>2. PICK f : f = (CHOOSE g : g = body(g)) /\ Drained(s, a) = f[L]
    BY <1>1
  <1>3. \E g : g = body(g)
    <2> HIDE DEF L
    <2>1. PICK u : TurnsTo(u, s, a, L)
      BY TurnsExist DEF L
    <2> DEFINE h == [m \in 0 .. L |-> u[m]]
    <2>2. L \in Nat
      BY DEF L
    <2>3. \A m \in 0 .. L : u[m] = IF m = 0 THEN a ELSE Turn(s, u[m - 1])
      <3>1. SUFFICES ASSUME NEW m \in 0 .. L
                     PROVE  u[m] = IF m = 0 THEN a ELSE Turn(s, u[m - 1])
        OBVIOUS
      <3>2. m = 0 \/ m \in 1 .. L
        BY <2>2
      <3> QED BY <2>1, <3>2, Zenon DEF TurnsTo
    <2>4. \A m \in 0 .. L : m # 0 => m - 1 \in 0 .. L
      BY <2>2
    <2>5. \A m \in 0 .. L : h[m] = u[m]
      OBVIOUS
    <2> HIDE DEF h
    <2>6. \A m \in 0 .. L : h[m] = IF m = 0 THEN a ELSE Turn(s, h[m - 1])
      BY <2>3, <2>4, <2>5
    <2>7. h = [m \in 0 .. L |-> h[m]]
      BY DEF h
    <2>8. h = body(h)
      BY <2>6, <2>7
    <2> QED BY <2>8
  <1>4. f = body(f)
    BY <1>2, <1>3, Zenon
  <1>5. L \in Nat
    OBVIOUS
  <1> HIDE DEF L
  <1>6. f[0] = a /\ \A m \in 1 .. L : f[m] = Turn(s, f[m - 1])
    BY <1>4, <1>5
  <1> QED BY <1>2, <1>6 DEF TurnsTo, L

\* p is made of signals among the first n of q, in their order.
From(p, q, n) ==
    /\ p \in Seq(Signals)
    /\ \A i \in 1..Len(p) : \E x \in 1..n : p[i] = q[x]
    /\ \A i, j \in 1..Len(p) : i < j =>
           \E x, y \in 1..n : x < y /\ p[i] = q[x] /\ p[j] = q[y]

\* The signals that are left are some of those there were, in their order.
LEMMA PendingKeeps ==
  ASSUME NEW q \in Seq(Signals)
  PROVE  From(Pending(q), q, Len(q))
  <1>1. Len(q) \in Nat /\ \A m \in 1..Len(q) : q[m] \in Signals
    BY LenProperties, ElementOfSeq
  <1>2. PICK u : KeepsTo(u, q, Len(q)) /\ Pending(q) = u[Len(q)]
    BY <1>1, PendingIs
  <1> DEFINE S == {m \in Nat : m <= Len(q) => From(u[m], q, m)}
  <1>3. 0 \in S
    <2>1. u[0] = <<>>
      BY <1>2 DEF KeepsTo
    <2>2. u[0] \in Seq(Signals) /\ Len(u[0]) = 0
      BY <2>1, EmptySeq
    <2> QED BY <2>2 DEF From
  <1>4. ASSUME NEW m \in Nat, m \in S PROVE m + 1 \in S
    <2> SUFFICES ASSUME m + 1 <= Len(q) PROVE From(u[m + 1], q, m + 1)
      OBVIOUS
    <2>1. From(u[m], q, m)
      BY <1>1, <1>4
    <2>2. m + 1 \in 1..Len(q) /\ (m + 1) - 1 = m
      BY <1>1
    <2>3. u[m + 1] = Posted(u[m], q[m + 1])
      BY <1>2, <2>2 DEF KeepsTo
    <2> DEFINE p == u[m]
               e == q[m + 1]
    <2>4. p \in Seq(Signals) /\ e \in Signals
      BY <1>1, <2>1, <2>2 DEF From
    <2>5. CASE e.to = {}
      <3>1. u[m + 1] = p
        BY <2>3, <2>5 DEF Posted
      <3>2. \A x \in 1..m : x \in 1..m + 1
        OBVIOUS
      <3> HIDE DEF p, e
      <3>3. From(p, q, m + 1)
        BY <2>1, <3>2 DEF From, p
      <3> QED BY <3>1, <3>3
    <2>6. CASE e.to # {}
      <3>1. u[m + 1] = Append(p, e)
        BY <2>3, <2>6 DEF Posted
      <3> DEFINE P == Append(p, e)
      <3>2. /\ P \in Seq(Signals) /\ Len(P) = Len(p) + 1 /\ Len(p) \in Nat
            /\ P[Len(p) + 1] = e
            /\ \A i \in 1..Len(p) : P[i] = p[i]
        BY <2>4, AppendProperties, LenProperties
      <3> HIDE DEF P, p, e
      <3>3. /\ \A i \in 1..Len(p) : \E x \in 1..m : P[i] = q[x]
            /\ \A i, j \in 1..Len(p) : i < j =>
                   \E x, y \in 1..m : x < y /\ P[i] = q[x] /\ P[j] = q[y]
        <4>1. /\ \A i \in 1..Len(p) : \E x \in 1..m : p[i] = q[x]
              /\ \A i, j \in 1..Len(p) : i < j =>
                     \E x, y \in 1..m : x < y /\ p[i] = q[x] /\ p[j] = q[y]
          BY <2>1, Zenon DEF From, p
        <4>2. ASSUME NEW i \in 1..Len(p), NEW j \in 1..Len(p), i < j
              PROVE  \E x, y \in 1..m : x < y /\ P[i] = q[x] /\ P[j] = q[y]
          <5>1. P[i] = p[i] /\ P[j] = p[j]
            BY <3>2
          <5>2. PICK x \in 1..m, y \in 1..m : x < y /\ p[i] = q[x] /\ p[j] = q[y]
            BY <4>1, <4>2
          <5> QED BY <5>1, <5>2
        <4>3. ASSUME NEW i \in 1..Len(p) PROVE \E x \in 1..m : P[i] = q[x]
          BY <3>2, <4>1
        <4> QED BY <4>2, <4>3
      <3>4. m + 1 \in 1..m + 1 /\ q[m + 1] = P[Len(p) + 1]
            /\ \A x \in 1..m : x \in 1..m + 1 /\ x < m + 1
        BY <3>2 DEF e
      <3>5. ASSUME NEW i \in 1..Len(P) PROVE \E x \in 1..m + 1 : P[i] = q[x]
        <4>1. i \in 1..Len(p) \/ i = Len(p) + 1
          BY <3>2
        <4> QED BY <3>3, <3>4, <4>1
      <3>6. ASSUME NEW i \in 1..Len(P), NEW j \in 1..Len(P), i < j
            PROVE  \E x, y \in 1..m + 1 : x < y /\ P[i] = q[x] /\ P[j] = q[y]
        <4>1. i \in 1..Len(p) /\ (j \in 1..Len(p) \/ j = Len(p) + 1)
          BY <3>2, <3>6
        <4> QED BY <3>3, <3>4, <3>6, <4>1
      <3>7. From(P, q, m + 1)
        BY <3>2, <3>5, <3>6 DEF From
      <3> QED BY <3>1, <3>7 DEF P
    <2> QED BY <2>5, <2>6
  <1> HIDE DEF S
  <1>5. Len(q) \in S
    BY <1>1, <1>3, <1>4, SetInduction
  <1> QED BY <1>1, <1>2, <1>5 DEF S

-----------------------------------------------------------------------------
(***************************************************************************)
(* One reply, and the loop over the queue.                                 *)
(***************************************************************************)
LEMMA NumbersAre == Numbers \subseteq Nat \ {0} /\ \A n \in 1..MaxRedirects + 1 : n \in Numbers
  <1>1. \A n \in Numbers : n \in Nat \ {0}
    <2> SUFFICES ASSUME NEW n \in Numbers PROVE n \in Nat \ {0}
      OBVIOUS
    <2>1. \/ n \in 1..MaxRedirects + 1
          \/ \E session \in Sessions : \E i \in DOMAIN session : n \in 1..session[i].words
      BY DEF Numbers
    <2>2. ASSUME NEW session \in Sessions, NEW i \in DOMAIN session, n \in 1..session[i].words
          PROVE  n \in Nat \ {0}
      BY <2>2, BoundsAssumption
    <2> QED BY <2>1, <2>2, BoundsAssumption
  <1> QED BY <1>1 DEF Numbers

LEMMA OutcomesAre ==
  ASSUME NEW k
  PROVE  /\ Outcomes(k) \subseteq Ends
         /\ "sent" \notin Ends /\ "unsent" \notin Ends
         /\ "failed" \notin Pages /\ "empty" \notin Pages /\ "redirect" \notin Pages
         /\ k # "Download" => Outcomes(k) = {"failed", "empty"} \cup Pages
         /\ k = "Download" => Outcomes(k) = {"failed", "redirect"} \cup Pages
  BY PagesAssumption DEF Outcomes, Ends

\* What a reply brings is added to what those before it brought.
LEMMA TellNext ==
  ASSUME TypeInv, NEW s \in Requests, kind[s] \in {"MediaWiki", "Forvo"},
         NEW a \in Answers, NEW t \in Nat, t + 1 \in Numbers,
         outcome[s][t + 1] \in Outcomes(kind[s]), Told(kind[s], outcome[s], a, t)
  PROVE  LET b == WithReply(s, a, t + 1)
         IN  /\ b \in Answers
             /\ b.queue = a.queue /\ b.finished = a.finished /\ b.redirects = a.redirects
             /\ Told(kind[s], outcome[s], b, t + 1)
  <1> DEFINE k == kind[s]
             o == outcome[s]
             n == t + 1
             b == WithReply(s, a, n)
             shown == k = "MediaWiki" /\ \E i \in DOMAIN a.data : a.data[i].page = o[n]
  <1>1. /\ a.queue \in Seq(Waits) /\ a.data \in Seq(Brings) /\ a.error \in Nat
        /\ a.finished \in BOOLEAN /\ a.redirects \in Nat
    BY DEF Answers
  <1>2. o[n] \in {"failed", "empty"} \cup Pages /\ "failed" \notin Pages /\ "empty" \notin Pages
    BY OutcomesAre
  <1>3. /\ \A m \in 1..n : m \in 1..t \/ m = n
        /\ \A m \in 1..t : m \in 1..n /\ m < n /\ m <= n
        /\ n \in 1..n /\ n \in Nat
    OBVIOUS
  <1>4. b = IF o[n] = "failed" THEN [a EXCEPT !.error = n]
            ELSE IF o[n] = "empty" \/ shown THEN a
            ELSE [a EXCEPT !.data = Append(@, [number |-> n, page |-> o[n]])]
    BY DEF WithReply
  <1>5. DOMAIN a.data = 1..Len(a.data) /\ Len(a.data) \in Nat
    BY <1>1, LenProperties
  <1>12. \A i \in DOMAIN a.data : a.data[i].page \in Pages
    <2> SUFFICES ASSUME NEW i \in DOMAIN a.data PROVE a.data[i].page \in Pages
      OBVIOUS
    <2>1. a.data[i] \in Brings
      BY <1>1, <1>5, ElementOfSeq
    <2> QED BY <2>1 DEF Brings
  <1>6. \A m \in 1..n : o[m] \in Outcomes(k)
    BY <1>3 DEF Told
  <1> HIDE DEF k, o, b
  <1>7. Told(k, o, a, t)
    BY DEF k, o
  <1>8. CASE o[n] = "failed"
    <2>1. b = [a EXCEPT !.error = n]
      BY <1>4, <1>8
    <2>2. /\ b \in Answers /\ b.data = a.data /\ b.error = n
          /\ b.queue = a.queue /\ b.finished = a.finished /\ b.redirects = a.redirects
      BY <2>1, <1>3 DEF Answers
    <2>3. DataOf(k, o, a.data, n)
      <3>1. DataOf(k, o, a.data, t)
        BY <1>7 DEF Told
      <3>2. \A i \in DOMAIN a.data : a.data[i].page # o[n] /\ a.data[i].page \in Pages
        BY <1>2, <1>8, <1>12
      <3> QED BY <1>2, <1>3, <1>8, <3>1, <3>2 DEF DataOf
    <2>4. ErrorOf(o, n, n)
      BY <1>3, <1>8 DEF ErrorOf
    <2>5. Told(k, o, b, n)
      BY <1>6, <2>2, <2>3, <2>4 DEF Told
    <2> QED BY <2>2, <2>5 DEF k, o, b
  <1>9. ASSUME o[n] # "failed" PROVE ErrorOf(o, a.error, n)
    <2>1. ErrorOf(o, a.error, t)
      BY <1>7 DEF Told
    <2> QED BY <1>3, <1>9, <2>1 DEF ErrorOf
  <1>10. CASE o[n] = "empty" \/ (o[n] # "failed" /\ shown)
    <2>1. b = a /\ o[n] # "failed"
      BY <1>4, <1>10
    <2>2. DataOf(k, o, a.data, n)
      <3>1. DataOf(k, o, a.data, t)
        BY <1>7 DEF Told
      <3>2. \A i \in DOMAIN a.data : a.data[i].number \in 1..t /\ a.data[i].page \in Pages
        BY <1>12, <3>1 DEF DataOf
      <3> QED BY <1>2, <1>3, <1>10, <3>1, <3>2 DEF DataOf
    <2>3. Told(k, o, b, n)
      BY <1>6, <1>9, <2>1, <2>2 DEF Told
    <2> QED BY <2>1, <2>3 DEF k, o, b
  <1>11. CASE o[n] \in Pages /\ ~shown
    <2> DEFINE d == a.data
               x == [number |-> n, page |-> o[n]]
               D == Append(d, x)
    <2>1. b = [a EXCEPT !.data = D]
      BY <1>2, <1>4, <1>11
    <2>2. x \in Brings
      BY <1>3, <1>11 DEF Brings
    <2>3. /\ D \in Seq(Brings) /\ DOMAIN D = 1..Len(d) + 1 /\ D[Len(d) + 1] = x
          /\ \A i \in 1..Len(d) : D[i] = d[i]
      BY <1>1, <2>2, AppendProperties, LenProperties
    <2>4. /\ b \in Answers /\ b.data = D /\ b.error = a.error
          /\ b.queue = a.queue /\ b.finished = a.finished /\ b.redirects = a.redirects
      BY <2>1, <2>3 DEF Answers
    <2>5. x.number = n /\ x.page = o[n]
      OBVIOUS
    <2>6. DataOf(k, o, d, t)
      BY <1>7 DEF Told
    <2> HIDE DEF x, D, d
    <2>7. DOMAIN d = 1..Len(d) /\ Len(d) \in Nat
      BY <1>5 DEF d
    <2>8. \A i \in DOMAIN D : (i \in DOMAIN d /\ D[i] = d[i]) \/ (i = Len(d) + 1 /\ D[i] = x)
      BY <2>3, <2>7
    <2>9. k = "MediaWiki" => \A i \in DOMAIN d : d[i].page # o[n]
      BY <1>11 DEF d
    <2>10. ASSUME NEW i \in DOMAIN D
           PROVE  /\ D[i].number \in 1..n
                  /\ D[i].page = o[D[i].number]
                  /\ k = "MediaWiki" => \A m \in 1..n : o[m] = D[i].page => D[i].number <= m
      <3>1. CASE i \in DOMAIN d /\ D[i] = d[i]
        <4>1. d[i].number \in 1..t /\ d[i].page = o[d[i].number]
          BY <2>6, <3>1 DEF DataOf
        <4>2. k = "MediaWiki" => \A m \in 1..t : o[m] = d[i].page => d[i].number <= m
          BY <2>6, <3>1 DEF DataOf
        <4>3. k = "MediaWiki" => d[i].page # o[n]
          BY <2>9, <3>1
        <4> QED BY <1>3, <3>1, <4>1, <4>2, <4>3
      <3>2. CASE D[i] = x
        <4>1. k = "MediaWiki" => \A m \in 1..t : o[m] # o[n]
          <5> SUFFICES ASSUME k = "MediaWiki", NEW m \in 1..t, o[m] = o[n] PROVE FALSE
            OBVIOUS
          <5>1. \E j \in DOMAIN d : d[j].page = o[m]
            BY <1>11, <2>6 DEF DataOf
          <5> QED BY <2>9, <5>1
        <4>2. n <= n
          BY <1>3
        <4> QED BY <1>3, <2>5, <3>2, <4>1, <4>2
      <3> QED BY <2>8, <3>1, <3>2
    <2>11. ASSUME NEW i \in DOMAIN D, NEW j \in DOMAIN D, i < j PROVE D[i].number < D[j].number
      <3>1. i \in DOMAIN d /\ D[i] = d[i]
        BY <2>3, <2>7, <2>11
      <3>2. CASE j \in DOMAIN d /\ D[j] = d[j]
        BY <2>6, <2>11, <3>1, <3>2 DEF DataOf
      <3>3. CASE D[j] = x
        <4>1. d[i].number \in 1..t
          BY <2>6, <3>1 DEF DataOf
        <4> QED BY <1>3, <2>5, <3>1, <3>3, <4>1
      <3> QED BY <2>8, <3>2, <3>3
    <2>12. ASSUME NEW m \in 1..n, o[m] \in Pages
           PROVE  \E i \in DOMAIN D : D[i].page = o[m] /\ (k # "MediaWiki" => D[i].number = m)
      <3>1. CASE m \in 1..t
        <4>1. PICK i \in DOMAIN d : d[i].page = o[m] /\ (k # "MediaWiki" => d[i].number = m)
          BY <2>6, <2>12, <3>1 DEF DataOf
        <4>2. i \in DOMAIN D /\ D[i] = d[i]
          BY <2>3, <2>7
        <4> QED BY <4>1, <4>2
      <3>2. CASE m = n
        <4>1. Len(d) + 1 \in DOMAIN D /\ D[Len(d) + 1] = x
          BY <2>3, <2>7
        <4> QED BY <2>5, <3>2, <4>1
      <3> QED BY <1>3, <3>1, <3>2
    <2>13. DataOf(k, o, D, n)
      BY <2>10, <2>11, <2>12 DEF DataOf
    <2>14. Told(k, o, b, n)
      BY <1>2, <1>6, <1>9, <1>11, <2>4, <2>13 DEF Told
    <2> QED BY <2>4, <2>14 DEF k, o, b
  <1> QED BY <1>2, <1>8, <1>10, <1>11

\* The answer a has taken the first t of w replies and waits for the others.
At(s, a, t, w) ==
    /\ a \in Answers
    /\ t \in 0..w
    /\ InQueue(kind[s], outcome[s], a.queue, t, w)
    /\ Told(kind[s], outcome[s], a, t)

LEMMA TurnStops ==
  ASSUME NEW s, NEW a \in Answers, Stopped(a.queue)
  PROVE  Turn(s, a) = a
  <1>1. a.queue \in Seq(Waits)
    BY DEF Answers
  <1>2. a.queue = <<>> \/ ~Head(a.queue).finished
    BY <1>1, HeadTailProperties DEF Stopped
  <1> QED BY <1>2 DEF Turn

LEMMA TurnTakes ==
  ASSUME TypeInv, NEW s \in Requests, kind[s] \in {"MediaWiki", "Forvo"},
         NEW w \in Nat, NEW t \in Nat, 1..w \subseteq Numbers,
         NEW a, At(s, a, t, w), ~Stopped(a.queue)
  PROVE  LET b == Turn(s, a)
         IN  /\ At(s, b, t + 1, w)
             /\ b.finished = a.finished /\ b.redirects = a.redirects
  <1> DEFINE q == a.queue
             c == [a EXCEPT !.queue = Tail(@)]
             b == WithReply(s, c, t + 1)
  <1>1. a \in Answers /\ q \in Seq(Waits) /\ q # <<>> /\ q[1].finished
    BY DEF At, Answers, Stopped
  <1>2. /\ Head(q) = q[1] /\ Tail(q) \in Seq(Waits) /\ Len(Tail(q)) = Len(q) - 1
        /\ \A i \in 1..Len(q) - 1 : Tail(q)[i] = q[i + 1]
        /\ Len(q) \in Nat /\ Len(q) # 0
    BY <1>1, HeadTailProperties, LenProperties, EmptySeq
  <1>3. InQueue(kind[s], outcome[s], q, t, w) /\ Told(kind[s], outcome[s], a, t) /\ t <= w
    BY DEF At
  <1>4. Len(q) = w - t /\ 1 \in 1..w - t
    BY <1>2, <1>3 DEF InQueue
  <1>5. q[1].number = t + 1 /\ outcome[s][t + 1] \in Outcomes(kind[s])
    BY <1>1, <1>3, <1>4 DEF InQueue
  <1>6. Turn(s, a) = b
    BY <1>1, <1>2, <1>5 DEF Turn
  <1>7. t + 1 \in Numbers /\ t + 1 \in 0..w
    BY <1>4
  <1>8. /\ c \in Answers /\ c.queue = Tail(q) /\ c.data = a.data /\ c.error = a.error
        /\ c.finished = a.finished /\ c.redirects = a.redirects
    BY <1>1, <1>2 DEF Answers
  <1> HIDE DEF c, b, q
  <1>9. Told(kind[s], outcome[s], c, t)
    BY <1>3, <1>8 DEF Told
  <1>10. /\ b \in Answers /\ b.queue = Tail(q) /\ b.finished = a.finished
         /\ b.redirects = a.redirects /\ Told(kind[s], outcome[s], b, t + 1)
    BY <1>5, <1>7, <1>8, <1>9, TellNext DEF b
  <1>11. InQueue(kind[s], outcome[s], b.queue, t + 1, w)
    <2>1. Len(b.queue) = w - (t + 1)
      BY <1>2, <1>4, <1>10
    <2>2. ASSUME NEW i \in 1..w - (t + 1)
          PROVE  /\ b.queue[i].number = (t + 1) + i
                 /\ b.queue[i].finished => outcome[s][(t + 1) + i] \in Outcomes(kind[s])
      <3>1. b.queue[i] = q[i + 1]
        BY <1>2, <1>4, <1>10
      <3>2. i + 1 \in 1..w - t /\ t + (i + 1) = (t + 1) + i
        OBVIOUS
      <3> QED BY <1>3, <3>1, <3>2 DEF InQueue
    <2> QED BY <2>1, <2>2 DEF InQueue
  <1> QED BY <1>6, <1>7, <1>10, <1>11 DEF At

\* The loop ends at an empty queue or at a reply that has not finished.
LEMMA LoopEnds ==
  ASSUME TypeInv, NEW s \in Requests, kind[s] \in {"MediaWiki", "Forvo"},
         NEW w \in Nat, NEW t \in Nat, 1..w \subseteq Numbers,
         NEW a, At(s, a, t, w)
  PROVE  LET b == Drained(s, a)
         IN  /\ b.finished = a.finished /\ b.redirects = a.redirects
             /\ Stopped(b.queue)
             /\ \E x \in Nat : At(s, b, x, w)
  <1> DEFINE L == Len(a.queue)
  <1>1. L = w - t /\ L \in Nat
    <2>1. Len(a.queue) = w - t /\ a.queue \in Seq(Waits)
      BY DEF At, InQueue, Answers
    <2> QED BY <2>1, LenProperties
  <1>2. PICK u : TurnsTo(u, s, a, L) /\ Drained(s, a) = u[L]
    BY <1>1, DrainedIs
  <1> HIDE DEF L
  <1> DEFINE Kept(c) == c.finished = a.finished /\ c.redirects = a.redirects
             Good(m) == /\ Kept(u[m])
                        /\ \E x \in Nat : /\ At(s, u[m], x, w)
                                          /\ Stopped(u[m].queue) \/ x = t + m
             S == {m \in Nat : m <= L => Good(m)}
  <1>3. 0 \in S
    <2>1. u[0] = a
      BY <1>2 DEF TurnsTo
    <2>2. t = t + 0
      OBVIOUS
    <2> QED BY <2>1, <2>2
  <1>4. ASSUME NEW m \in Nat, m \in S PROVE m + 1 \in S
    <2> SUFFICES ASSUME m + 1 <= L PROVE Good(m + 1)
      OBVIOUS
    <2>1. Good(m)
      BY <1>1, <1>4
    <2>2. m + 1 \in 1..L /\ (m + 1) - 1 = m
      BY <1>1
    <2>3. u[m + 1] = Turn(s, u[m])
      BY <1>2, <2>2 DEF TurnsTo
    <2>4. Kept(u[m])
      BY <2>1
    <2>5. PICK x \in Nat : At(s, u[m], x, w) /\ (Stopped(u[m].queue) \/ x = t + m)
      BY <2>1
    <2>6. CASE Stopped(u[m].queue)
      <3>1. u[m + 1] = u[m]
        BY <2>3, <2>5, <2>6, TurnStops DEF At
      <3> QED BY <2>4, <2>5, <2>6, <3>1
    <2>7. CASE ~Stopped(u[m].queue)
      <3>1. /\ At(s, u[m + 1], x + 1, w)
            /\ u[m + 1].finished = u[m].finished /\ u[m + 1].redirects = u[m].redirects
        BY <2>3, <2>5, <2>7, TurnTakes
      <3>2. x + 1 = t + (m + 1) /\ x + 1 \in Nat
        BY <2>5, <2>7
      <3> QED BY <2>4, <3>1, <3>2
    <2> QED BY <2>6, <2>7
  <1> HIDE DEF S
  <1>5. L \in S
    BY <1>1, <1>3, <1>4, SetInduction
  <1>6. Good(L)
    BY <1>1, <1>5 DEF S
  <1>7. PICK x \in Nat : At(s, u[L], x, w) /\ (Stopped(u[L].queue) \/ x = t + L)
    BY <1>6
  <1>8. CASE x = t + L
    <2>1. Len(u[L].queue) = w - x /\ u[L].queue \in Seq(Waits)
      BY <1>7 DEF At, InQueue, Answers
    <2>2. Len(u[L].queue) = 0
      BY <1>1, <1>8, <2>1
    <2>3. u[L].queue = <<>>
      BY <2>1, <2>2, EmptySeq
    <2> QED BY <1>2, <1>6, <1>7, <2>3 DEF Stopped
  <1> QED BY <1>2, <1>6, <1>7, <1>8

-----------------------------------------------------------------------------
(***************************************************************************)
(* The signals.                                                            *)
(***************************************************************************)
LEMMA PendingRight ==
  ASSUME NEW q \in Seq(Signals), NEW live, NEW o, NEW k, Right(q, live, o, k), Once(q)
  PROVE  /\ Pending(q) \in Seq(Signals)
         /\ Right(Pending(q), live, o, k)
         /\ Once(Pending(q))
         /\ \A i \in DOMAIN Pending(q) : \E x \in DOMAIN q : Pending(q)[i] = q[x]
  <1> DEFINE p == Pending(q)
  <1>1. From(p, q, Len(q))
    BY PendingKeeps
  <1> HIDE DEF p
  <1>2. p \in Seq(Signals)
    BY <1>1 DEF From
  <1>3. /\ DOMAIN q = 1..Len(q) /\ DOMAIN p = 1..Len(p) /\ Len(q) \in Nat /\ Len(p) \in Nat
    BY <1>2, LenProperties
  <1>4. \A i \in DOMAIN p : \E x \in DOMAIN q : p[i] = q[x]
    BY <1>1, <1>3 DEF From
  <1>5. Right(p, live, o, k)
    BY <1>4 DEF Right
  <1>6. Once(p)
    <2> SUFFICES ASSUME NEW i \in DOMAIN p, NEW j \in DOMAIN p, i # j,
                        NEW r \in p[i].to \cap p[j].to, NEW n \in Numbers,
                        p[i].reply = <<r, n>>, p[j].reply = <<r, n>>
                 PROVE  FALSE
      BY DEF Once
    <2>1. \E x, y \in DOMAIN q : x # y /\ p[i] = q[x] /\ p[j] = q[y]
      <3>1. i < j \/ j < i
        BY <1>3
      <3>2. CASE i < j
        <4>1. PICK x \in 1..Len(q), y \in 1..Len(q) : x < y /\ p[i] = q[x] /\ p[j] = q[y]
          BY <1>1, <1>3, <3>2 DEF From
        <4> QED BY <1>3, <4>1
      <3>3. CASE j < i
        <4>1. PICK x \in 1..Len(q), y \in 1..Len(q) : x < y /\ p[j] = q[x] /\ p[i] = q[y]
          BY <1>1, <1>3, <3>3 DEF From
        <4> QED BY <1>3, <4>1
      <3> QED BY <3>1, <3>2, <3>3
    <2>2. PICK x \in DOMAIN q, y \in DOMAIN q : x # y /\ p[i] = q[x] /\ p[j] = q[y]
      BY <2>1
    <2> QED BY <2>2 DEF Once
  <1> QED BY <1>2, <1>4, <1>5, <1>6 DEF p

\* Nothing new is told to s of its own replies.
NoNews(s) ==
    \A j \in DOMAIN events' : \A n \in Numbers :
        s \in events'[j].to /\ events'[j].reply = <<s, n>> =>
            \E i \in DOMAIN events : s \in events[i].to /\ events[i].reply = <<s, n>>

-----------------------------------------------------------------------------
(***************************************************************************)
(* A step of one request leaves the others alone.                          *)
(***************************************************************************)
Same(s) ==
    /\ kind'[s] = kind[s] /\ outcome'[s] = outcome[s] /\ netReplies'[s] = netReplies[s]
    /\ data'[s] = data[s] /\ errorString'[s] = errorString[s]
    /\ isFinished'[s] = isFinished[s] /\ redirectCount'[s] = redirectCount[s]
    /\ s \in cancelled' <=> s \in cancelled

LEMMA InOrderSame ==
  ASSUME NEW s, InOrder(s), Same(s)
  PROVE  InOrder(s)'
  <1>1. PICK w \in Nat \ {0}, t \in Nat : TakenOf(s, w, t)
    BY DEF InOrder
  <1>2. Answer(s)' = Answer(s)
    BY DEF Same, Answer
  <1>3. TakenOf(s, w, t)'
    BY <1>1, <1>2 DEF Same, TakenOf
  <1> QED BY <1>3 DEF InOrder

LEMMA BroughtSame ==
  ASSUME NEW s, Brought(s), Same(s), NoNews(s)
  PROVE  Brought(s)'
  <1>1. ASSUME Over(s) PROVE Over(s)'
    <2> SUFFICES ASSUME NEW i \in DOMAIN netReplies'[s], NEW n \in Numbers,
                        netReplies'[s][i].number = n
                 PROVE  /\ outcome'[s][n] \in Ends
                        /\ \A j \in DOMAIN events' : s \in events'[j].to =>
                               events'[j].reply # <<s, n>>
      BY DEF Over
    <2>1. /\ outcome[s][n] \in Ends
          /\ \A j \in DOMAIN events : s \in events[j].to => events[j].reply # <<s, n>>
      BY <1>1 DEF Over, Same
    <2>2. outcome'[s][n] \in Ends
      BY <2>1 DEF Same
    <2>3. \A j \in DOMAIN events' : s \in events'[j].to => events'[j].reply # <<s, n>>
      BY <2>1 DEF NoNews
    <2> QED BY <2>2, <2>3
  <1> QED BY <1>1 DEF Brought, Same

LEMMA OthersSame ==
  ASSUME QueuedInv, DownloadInv, NEW r, alive' \ {r} \subseteq alive, alive \subseteq Requests,
         \A s \in Requests \ {r} : Same(s) /\ NoNews(s),
         r \in alive' /\ kind'[r] \in {"MediaWiki", "Forvo"} => InOrder(r)',
         r \in alive' /\ kind'[r] = "Download" => Brought(r)'
  PROVE  QueuedInv' /\ DownloadInv'
  <1>1. ASSUME NEW s \in alive', kind'[s] \in {"MediaWiki", "Forvo"} PROVE InOrder(s)'
    <2>1. CASE s = r
      BY <1>1, <2>1
    <2>2. CASE s # r
      <3>1. s \in alive /\ Same(s)
        BY <2>2
      <3>2. kind[s] \in {"MediaWiki", "Forvo"}
        BY <1>1, <3>1 DEF Same
      <3>3. InOrder(s)
        BY <3>1, <3>2 DEF QueuedInv, Queued
      <3> QED BY <3>1, <3>3, InOrderSame
    <2> QED BY <2>1, <2>2
  <1>2. ASSUME NEW s \in alive', kind'[s] = "Download" PROVE Brought(s)'
    <2>1. CASE s = r
      BY <1>2, <2>1
    <2>2. CASE s # r
      <3>1. s \in alive /\ Same(s) /\ NoNews(s)
        BY <2>2
      <3>2. Brought(s)
        BY <1>2, <3>1 DEF Same, DownloadInv
      <3> QED BY <3>1, <3>2, BroughtSame
    <2> QED BY <2>1, <2>2
  <1>3. QueuedInv'
    BY <1>1 DEF QueuedInv, Queued
  <1>4. DownloadInv'
    BY <1>2 DEF DownloadInv
  <1> QED BY <1>3, <1>4

-----------------------------------------------------------------------------
(***************************************************************************)
(* The life of a request, and the network.                                 *)
(***************************************************************************)
LEMMA InitIInv == Init => IInv
  <1> SUFFICES ASSUME Init PROVE IInv
    OBVIOUS
  <1>1. <<>> \in Seq(Waits) /\ <<>> \in Seq(Brings) /\ <<>> \in Seq(Signals) /\ DOMAIN <<>> = {}
    BY EmptySeq
  <1>2. TypeInv
    <2>1. outcome \in [Requests -> [Numbers -> Ends \cup {"sent", "unsent"}]]
      BY DEF Init
    <2>2. kind \in [Requests -> Kinds \cup {"none"}] /\ isFinished \in [Requests -> BOOLEAN]
      BY DEF Init
    <2>3. netReplies \in [Requests -> Seq(Waits)] /\ data \in [Requests -> Seq(Brings)]
      BY <1>1 DEF Init
    <2>4. errorString \in [Requests -> Nat] /\ redirectCount \in [Requests -> Nat]
      BY DEF Init
    <2>5. alive \subseteq Requests /\ cancelled \subseteq alive /\ events \in Seq(Signals)
      BY <1>1 DEF Init
    <2> QED BY <2>1, <2>2, <2>3, <2>4, <2>5 DEF TypeInv
  <1>3. NewInv
    BY DEF Init, NewInv
  <1>4. SignalInv
    BY <1>1 DEF Init, SignalInv, Right, Once
  <1>5. QueuedInv /\ DownloadInv
    BY DEF Init, QueuedInv, Queued, DownloadInv
  <1> QED BY <1>2, <1>3, <1>4, <1>5 DEF IInv

\* The replies asked for at the beginning.
LEMMA AskedFor ==
  ASSUME NEW session \in Sessions, NEW r \in DOMAIN session
  PROVE  /\ r \in Requests /\ session[r].kind \in Kinds
         /\ session[r].words \in Nat \ {0}
         /\ 1..session[r].words \subseteq Numbers
         /\ 1..1 \subseteq Numbers
  <1>1. 1 \in 1..MaxRedirects + 1 /\ 1..1 = {1}
    BY BoundsAssumption
  <1>2. 1..1 \subseteq Numbers
    BY <1>1 DEF Numbers
  <1>3. r \in Requests /\ 1..session[r].words \subseteq Numbers
    BY DEF Requests, Numbers
  <1> QED BY <1>2, <1>3, BoundsAssumption

LEMMA CreateStep ==
  ASSUME IInv, NEW r \in Requests, NEW session \in Sessions, Create(r, session)
  PROVE  IInv'
  <1> DEFINE k == session[r].kind
             asked == IF k \in {"LinguaLibre", "Download"} THEN 1 ELSE session[r].words
             q == [n \in 1..asked |-> Waiting(n)]
             o == [n \in Numbers |-> IF n <= asked THEN "sent" ELSE "unsent"]
  <1>1. TypeInv /\ NewInv /\ SignalInv /\ QueuedInv /\ DownloadInv
    BY DEF IInv
  <1>2. /\ kind[r] = "none" /\ r \in DOMAIN session
        /\ kind' = [kind EXCEPT ![r] = k] /\ kind'[r] = k
        /\ alive' = alive \cup {r}
        /\ UNCHANGED <<data, errorString, isFinished, redirectCount, cancelled, events>>
    BY <1>1 DEF Create, TypeInv
  <1>3. netReplies' = [netReplies EXCEPT ![r] = q] /\ outcome' = [outcome EXCEPT ![r] = o]
    BY <1>2 DEF Create
  <1>4. k \in Kinds /\ asked \in Nat \ {0} /\ 1..asked \subseteq Numbers
    BY <1>2, AskedFor
  <1>5. /\ q \in Seq(Waits) /\ Len(q) = asked /\ DOMAIN q = 1..asked
        /\ \A i \in 1..asked : q[i] = [number |-> i, finished |-> FALSE]
    <2>1. \A i \in 1..asked : q[i] = [number |-> i, finished |-> FALSE] /\ q[i] \in Waits
      BY <1>4 DEF Waiting, Waits
    <2>2. q \in [1..asked -> Waits]
      BY <2>1
    <2> HIDE DEF q, asked
    <2>3. q \in Seq(Waits) /\ Len(q) = asked
      BY <1>4, <2>2, SeqDef, LenProperties
    <2> QED BY <2>1, <2>2, <2>3
  <1>6. o \in [Numbers -> Ends \cup {"sent", "unsent"}]
    OBVIOUS
  <1>7. r \notin alive /\ data[r] = <<>> /\ errorString[r] = 0 /\ ~isFinished[r] /\ r \notin cancelled
    BY <1>1, <1>2 DEF NewInv, TypeInv
  <1>8. \A n \in Numbers : o[n] = "unsent" <=> n > asked
    BY <1>4, NumbersAre
  <1> HIDE DEF k, asked, q, o
  <1>9. outcome'[r] = o /\ netReplies'[r] = q
    BY <1>1, <1>3 DEF TypeInv
  <1>10. TypeInv'
    <2>1. kind' \in [Requests -> Kinds \cup {"none"}]
      BY <1>1, <1>2, <1>4 DEF TypeInv
    <2>2. netReplies' \in [Requests -> Seq(Waits)]
      BY <1>1, <1>3, <1>5 DEF TypeInv
    <2>3. outcome' \in [Requests -> [Numbers -> Ends \cup {"sent", "unsent"}]]
      BY <1>1, <1>3, <1>6 DEF TypeInv
    <2>4. alive' \subseteq Requests /\ cancelled' \subseteq alive'
      BY <1>1, <1>2 DEF TypeInv
    <2> QED BY <1>1, <1>2, <2>1, <2>2, <2>3, <2>4 DEF TypeInv
  <1>11. NewInv'
    BY <1>1, <1>2, <1>4 DEF NewInv, TypeInv, Kinds
  <1>12. SignalInv'
    <2>1. Right(events, alive', outcome', kind')
      <3> SUFFICES ASSUME NEW i \in DOMAIN events
                   PROVE  /\ events[i].to \subseteq alive'
                          /\ \A s \in events[i].to : \A n \in Numbers :
                                 events[i].reply = <<s, n>> => outcome'[s][n] \in Outcomes(kind'[s])
        BY DEF Right
      <3>1. /\ events[i].to \subseteq alive
            /\ \A s \in events[i].to : \A n \in Numbers :
                   events[i].reply = <<s, n>> => outcome[s][n] \in Outcomes(kind[s])
        BY <1>1 DEF SignalInv, Right
      <3>2. \A s \in alive : outcome'[s] = outcome[s] /\ kind'[s] = kind[s]
        BY <1>1, <1>2, <1>3, <1>7 DEF TypeInv
      <3> QED BY <1>2, <3>1, <3>2
    <2> QED BY <1>1, <1>2, <2>1 DEF SignalInv
  <1>13. ASSUME kind'[r] \in {"MediaWiki", "Forvo"} PROVE InOrder(r)'
    <2>1. Asked(outcome'[r], asked)
      BY <1>4, <1>8, <1>9 DEF Asked
    <2>2. InQueue(kind'[r], outcome'[r], netReplies'[r], 0, asked)
      BY <1>4, <1>5, <1>9 DEF InQueue
    <2>3. Told(kind'[r], outcome'[r], Answer(r)', 0)
      BY <1>2, <1>7, EmptySeq DEF Told, DataOf, ErrorOf, Answer
    <2>4. Stopped(netReplies'[r])
      BY <1>4, <1>5, <1>9 DEF Stopped
    <2>5. isFinished'[r] <=> r \in cancelled' \/ 0 = asked
      BY <1>2, <1>4, <1>7
    <2>6. TakenOf(r, asked, 0)'
      BY <1>4, <2>1, <2>2, <2>3, <2>4, <2>5 DEF TakenOf
    <2> QED BY <1>4, <2>6 DEF InOrder
  <1>14. ASSUME kind'[r] = "Download" PROVE Brought(r)'
    <2>1. asked = 1
      BY <1>2, <1>14 DEF asked
    <2>2. Len(netReplies'[r]) = asked
      BY <1>5, <1>9
    <2>4. Len(netReplies'[r]) <= 1
      BY <2>1, <2>2
    <2>3. ~isFinished'[r]
      BY <1>2, <1>7
    <2> QED BY <2>3, <2>4 DEF Brought
  <1>15. \A s \in Requests \ {r} : Same(s) /\ NoNews(s)
    BY <1>1, <1>2, <1>3 DEF Same, NoNews, TypeInv
  <1>16. alive' \ {r} \subseteq alive /\ alive \subseteq Requests
    BY <1>1, <1>2 DEF TypeInv
  <1>17. QueuedInv' /\ DownloadInv'
    BY <1>1, <1>13, <1>14, <1>15, <1>16, OthersSame
  <1> QED BY <1>10, <1>11, <1>12, <1>17 DEF IInv

LEMMA CancelStep ==
  ASSUME IInv, NEW r \in Requests, Cancel(r)
  PROVE  IInv'
  <1>1. TypeInv /\ NewInv /\ SignalInv /\ QueuedInv /\ DownloadInv
    BY DEF IInv
  <1>2. /\ r \in alive /\ r \notin cancelled
        /\ cancelled' = cancelled \cup {r}
        /\ isFinished' = [isFinished EXCEPT ![r] = TRUE]
        /\ netReplies' = IF kind[r] = "Download" THEN [netReplies EXCEPT ![r] = <<>>] ELSE netReplies
        /\ UNCHANGED <<kind, alive, outcome, data, errorString, redirectCount, events>>
    BY DEF Cancel
  <1>3. <<>> \in Seq(Waits) /\ DOMAIN <<>> = {} /\ Len(<<>>) = 0
    BY EmptySeq
  <1>4. isFinished'[r] /\ (kind[r] = "Download" => netReplies'[r] = <<>>)
    BY <1>1, <1>2 DEF TypeInv
  <1>5. TypeInv'
    <2>1. netReplies' \in [Requests -> Seq(Waits)]
      BY <1>1, <1>2, <1>3 DEF TypeInv
    <2>2. isFinished' \in [Requests -> BOOLEAN]
      BY <1>1, <1>2 DEF TypeInv
    <2>3. cancelled' \subseteq alive'
      BY <1>1, <1>2 DEF TypeInv
    <2> QED BY <1>1, <1>2, <2>1, <2>2, <2>3 DEF TypeInv
  <1>6. NewInv'
    BY <1>1, <1>2 DEF NewInv, TypeInv
  <1>7. SignalInv'
    BY <1>1, <1>2 DEF SignalInv
  <1>8. ASSUME kind'[r] \in {"MediaWiki", "Forvo"} PROVE InOrder(r)'
    <2>1. PICK w \in Nat \ {0}, t \in Nat : TakenOf(r, w, t)
      BY <1>1, <1>2, <1>8 DEF QueuedInv, Queued, InOrder
    <2>2. Answer(r)'.data = Answer(r).data /\ Answer(r)'.error = Answer(r).error
      BY <1>2 DEF Answer
    <2>3. Told(kind[r], outcome[r], Answer(r)', t)
      BY <2>1, <2>2 DEF TakenOf, Told
    <2>4. TakenOf(r, w, t)'
      BY <1>2, <1>4, <1>8, <2>1, <2>3 DEF TakenOf
    <2> QED BY <2>4 DEF InOrder
  <1>9. ASSUME kind'[r] = "Download" PROVE Brought(r)'
    BY <1>2, <1>3, <1>4, <1>9 DEF Brought, Over
  <1>10. \A s \in Requests \ {r} : Same(s) /\ NoNews(s)
    BY <1>1, <1>2 DEF Same, NoNews, TypeInv
  <1>11. alive' \ {r} \subseteq alive /\ alive \subseteq Requests
    BY <1>1, <1>2 DEF TypeInv
  <1>12. QueuedInv' /\ DownloadInv'
    BY <1>1, <1>8, <1>9, <1>10, <1>11, OthersSame
  <1> QED BY <1>5, <1>6, <1>7, <1>12 DEF IInv

LEMMA DestroyStep ==
  ASSUME IInv, NEW r \in Requests, Destroy(r)
  PROVE  IInv'
  <1> DEFINE q == [i \in DOMAIN events |-> [events[i] EXCEPT !.to = @ \ {r}]]
             o == [n \in Numbers |-> IF outcome[r][n] = "sent" /\ kind[r] \in {"MediaWiki", "Download"}
                                     THEN "sent" ELSE "unsent"]
  <1>1. TypeInv /\ NewInv /\ SignalInv /\ QueuedInv /\ DownloadInv
    BY DEF IInv
  <1>2. /\ r \in alive
        /\ alive' = alive \ {r}
        /\ netReplies' = [netReplies EXCEPT ![r] = <<>>]
        /\ data' = [data EXCEPT ![r] = <<>>]
        /\ errorString' = [errorString EXCEPT ![r] = 0]
        /\ isFinished' = [isFinished EXCEPT ![r] = FALSE]
        /\ redirectCount' = [redirectCount EXCEPT ![r] = 0]
        /\ cancelled' = cancelled \ {r}
        /\ events' = Pending(q)
        /\ kind' = kind
    BY DEF Destroy
  <1>3. outcome' = [outcome EXCEPT ![r] = o]
    BY DEF Destroy
  <1>4. o \in [Numbers -> Ends \cup {"sent", "unsent"}]
    OBVIOUS
  <1>5. /\ q \in Seq(Signals) /\ DOMAIN q = DOMAIN events
        /\ \A i \in DOMAIN events : q[i].reply = events[i].reply /\ q[i].to = events[i].to \ {r}
    <2>1. events \in Seq(Signals) /\ Len(events) \in Nat /\ DOMAIN events = 1..Len(events)
      BY <1>1, LenProperties DEF TypeInv
    <2>2. \A i \in DOMAIN events : events[i] \in Signals
      BY <2>1, ElementOfSeq
    <2>3. \A i \in DOMAIN events : q[i] \in Signals /\ q[i].reply = events[i].reply
                                   /\ q[i].to = events[i].to \ {r}
      BY <2>2 DEF Signals
    <2>4. q \in [1..Len(events) -> Signals]
      BY <2>1, <2>3
    <2> HIDE DEF q
    <2>5. q \in Seq(Signals)
      BY <2>1, <2>4, SeqDef
    <2> QED BY <2>1, <2>3, <2>4, <2>5
  <1> HIDE DEF q, o
  <1>6. \A s \in Requests \ {r} : outcome'[s] = outcome[s]
    BY <1>1, <1>3 DEF TypeInv
  <1>7. Right(q, alive', outcome', kind') /\ Once(q)
    <2>1. Right(events, alive, outcome, kind) /\ Once(events)
      BY <1>1 DEF SignalInv
    <2>2. alive \subseteq Requests
      BY <1>1 DEF TypeInv
    <2>3. Once(q)
      BY <1>5, <2>1 DEF Once
    <2>4. Right(q, alive', outcome', kind')
      <3> SUFFICES ASSUME NEW i \in DOMAIN events
                   PROVE  /\ q[i].to \subseteq alive'
                          /\ \A s \in q[i].to : \A n \in Numbers :
                                 q[i].reply = <<s, n>> => outcome'[s][n] \in Outcomes(kind'[s])
        BY <1>5 DEF Right
      <3>1. /\ events[i].to \subseteq alive
            /\ \A s \in events[i].to : \A n \in Numbers :
                   events[i].reply = <<s, n>> => outcome[s][n] \in Outcomes(kind[s])
        BY <2>1 DEF Right
      <3>2. \A s \in q[i].to : s \in events[i].to /\ s \in Requests \ {r}
        BY <1>5, <2>2, <3>1
      <3> QED BY <1>2, <1>5, <1>6, <3>1, <3>2
    <2> QED BY <2>3, <2>4
  <1>8. /\ events' \in Seq(Signals)
        /\ Right(events', alive', outcome', kind') /\ Once(events')
        /\ \A i \in DOMAIN events' : \E x \in DOMAIN q : events'[i] = q[x]
    BY <1>2, <1>5, <1>7, PendingRight
  <1>9. TypeInv'
    <2>1. /\ netReplies' \in [Requests -> Seq(Waits)] /\ data' \in [Requests -> Seq(Brings)]
      BY <1>1, <1>2, EmptySeq DEF TypeInv
    <2>2. errorString' \in [Requests -> Nat] /\ redirectCount' \in [Requests -> Nat]
      BY <1>1, <1>2 DEF TypeInv
    <2>3. isFinished' \in [Requests -> BOOLEAN]
      BY <1>1, <1>2 DEF TypeInv
    <2>4. outcome' \in [Requests -> [Numbers -> Ends \cup {"sent", "unsent"}]]
      BY <1>1, <1>3, <1>4 DEF TypeInv
    <2>5. alive' \subseteq Requests /\ cancelled' \subseteq alive'
      BY <1>1, <1>2 DEF TypeInv
    <2> QED BY <1>1, <1>2, <1>8, <2>1, <2>2, <2>3, <2>4, <2>5 DEF TypeInv
  <1>10. NewInv'
    BY <1>1, <1>2 DEF NewInv, TypeInv
  <1>11. SignalInv'
    BY <1>8 DEF SignalInv
  <1>12. \A s \in Requests \ {r} : Same(s)
    BY <1>1, <1>2, <1>6 DEF Same, TypeInv
  <1>13. \A s \in Requests \ {r} : NoNews(s)
    BY <1>5, <1>8 DEF NoNews
  <1>14. alive' \ {r} \subseteq alive /\ alive \subseteq Requests /\ r \notin alive'
    BY <1>1, <1>2 DEF TypeInv
  <1>15. QueuedInv' /\ DownloadInv'
    BY <1>1, <1>12, <1>13, <1>14, OthersSame
  <1> QED BY <1>9, <1>10, <1>11, <1>15 DEF IInv

LEMMA ReplyStep ==
  ASSUME IInv, NEW r \in Requests, NEW n \in Numbers, ReplyFinishes(r, n)
  PROVE  IInv'
  <1>1. TypeInv /\ NewInv /\ SignalInv /\ QueuedInv /\ DownloadInv
    BY DEF IInv
  <1> DEFINE to == {s \in alive : Manager(kind[s]) = Manager(kind[r])}
             e == [reply |-> <<r, n>>, to |-> to]
             q == Append(events, e)
  <1>2. /\ outcome[r][n] = "sent"
        /\ events' = Pending(q)
        /\ UNCHANGED <<kind, alive, cancelled, netReplies, data, errorString, isFinished, redirectCount>>
    BY DEF ReplyFinishes, answerVars
  <1>3. PICK x \in (IF r \in alive THEN Outcomes(kind[r]) ELSE {"unsent"}) :
            outcome' = [outcome EXCEPT ![r][n] = x]
    BY DEF ReplyFinishes
  <1>4. /\ outcome'[r][n] = x
        /\ \A m \in Numbers : m # n => outcome'[r][m] = outcome[r][m]
        /\ \A s \in Requests \ {r} : outcome'[s] = outcome[s]
    BY <1>1, <1>3 DEF TypeInv
  <1>5. /\ Outcomes(kind[r]) \subseteq Ends /\ "sent" \notin Ends /\ "unsent" \notin Ends
        /\ Outcomes(kind[r]) \subseteq Ends
    BY OutcomesAre
  <1>6. x \in Ends \cup {"unsent"} /\ (r \in alive => x \in Outcomes(kind[r]))
    BY <1>3, <1>5
  <1>7. /\ q \in Seq(Signals) /\ DOMAIN q = 1..Len(events) + 1 /\ q[Len(events) + 1] = e
        /\ DOMAIN events = 1..Len(events) /\ Len(events) \in Nat
        /\ \A i \in DOMAIN events : q[i] = events[i]
    <2>1. events \in Seq(Signals) /\ alive \subseteq Requests
      BY <1>1 DEF TypeInv
    <2>2. e \in Signals
      BY <2>1 DEF Signals
    <2> HIDE DEF e
    <2> QED BY <2>1, <2>2, AppendProperties, LenProperties
  <1>8. e.reply = <<r, n>> /\ e.to \subseteq alive
    OBVIOUS
  <1> HIDE DEF q, e
  <1>9. \A i \in DOMAIN q : (i \in DOMAIN events /\ q[i] = events[i])
                            \/ (i = Len(events) + 1 /\ i \notin DOMAIN events /\ q[i] = e)
    BY <1>7
  <1>10. \A i \in DOMAIN events : r \in events[i].to => events[i].reply # <<r, n>>
    BY <1>1, <1>2, <1>5 DEF SignalInv, Right
  <1>11. Right(q, alive', outcome', kind')
    <2> SUFFICES ASSUME NEW i \in DOMAIN q
                 PROVE  /\ q[i].to \subseteq alive
                        /\ \A s \in q[i].to : \A m \in Numbers :
                               q[i].reply = <<s, m>> => outcome'[s][m] \in Outcomes(kind[s])
      BY <1>2 DEF Right
    <2>1. CASE q[i] = e
      <3> SUFFICES ASSUME NEW s \in e.to, NEW m \in Numbers, e.reply = <<s, m>>
                   PROVE  outcome'[s][m] \in Outcomes(kind[s])
        BY <1>8, <2>1
      <3>1. s = r /\ m = n /\ r \in alive
        BY <1>8
      <3> QED BY <1>4, <1>6, <3>1
    <2>2. CASE i \in DOMAIN events /\ q[i] = events[i]
      <3>1. /\ q[i].to \subseteq alive
            /\ \A s \in q[i].to : \A m \in Numbers :
                   q[i].reply = <<s, m>> => outcome[s][m] \in Outcomes(kind[s])
        BY <1>1, <2>2 DEF SignalInv, Right
      <3>2. alive \subseteq Requests
        BY <1>1 DEF TypeInv
      <3> SUFFICES ASSUME NEW s \in q[i].to, NEW m \in Numbers, q[i].reply = <<s, m>>
                   PROVE  outcome'[s][m] \in Outcomes(kind[s])
        BY <3>1
      <3>3. CASE s = r
        <4>1. m # n
          BY <1>10, <2>2, <3>3
        <4> QED BY <1>4, <3>1, <3>3, <4>1
      <3>4. CASE s # r
        BY <1>4, <3>1, <3>2, <3>4
      <3> QED BY <3>3, <3>4
    <2> QED BY <1>9, <2>1, <2>2
  <1>12. Once(q)
    <2> SUFFICES ASSUME NEW i \in DOMAIN q, NEW j \in DOMAIN q,
                        NEW s \in q[i].to \cap q[j].to, NEW m \in Numbers,
                        q[i].reply = <<s, m>>, q[j].reply = <<s, m>>
                 PROVE  i = j
      BY DEF Once
    <2>1. CASE q[i] = e /\ i = Len(events) + 1
      <3>1. s = r /\ m = n
        BY <1>8, <2>1
      <3> QED BY <1>9, <1>10, <2>1, <3>1
    <2>2. CASE i \in DOMAIN events /\ q[i] = events[i]
      <3>1. CASE q[j] = e
        <4>1. s = r /\ m = n
          BY <1>8, <3>1
        <4> QED BY <1>10, <2>2, <4>1
      <3>2. CASE j \in DOMAIN events /\ q[j] = events[j]
        BY <1>1, <2>2, <3>2 DEF SignalInv, Once
      <3> QED BY <1>9, <3>1, <3>2
    <2> QED BY <1>9, <2>1, <2>2
  <1>13. /\ events' \in Seq(Signals)
         /\ Right(events', alive', outcome', kind') /\ Once(events')
         /\ \A i \in DOMAIN events' : \E y \in DOMAIN q : events'[i] = q[y]
    BY <1>2, <1>7, <1>11, <1>12, PendingRight
  <1>14. TypeInv'
    <2>1. outcome' \in [Requests -> [Numbers -> Ends \cup {"sent", "unsent"}]]
      BY <1>1, <1>3, <1>6 DEF TypeInv
    <2> QED BY <1>1, <1>2, <1>13, <2>1 DEF TypeInv
  <1>15. NewInv' /\ SignalInv'
    BY <1>1, <1>2, <1>13 DEF NewInv, SignalInv
  <1>16. ASSUME r \in alive', kind'[r] \in {"MediaWiki", "Forvo"} PROVE InOrder(r)'
    <2>1. PICK w \in Nat \ {0}, t \in Nat : TakenOf(r, w, t)
      BY <1>1, <1>2, <1>16 DEF QueuedInv, Queued, InOrder
    <2>2. /\ t \in 0..w
          /\ Asked(outcome[r], w)
          /\ InQueue(kind[r], outcome[r], netReplies[r], t, w)
          /\ Told(kind[r], outcome[r], Answer(r), t)
      BY <2>1 DEF TakenOf
    <2>3. Answer(r)' = Answer(r) /\ x \in Outcomes(kind[r]) /\ x # "unsent" /\ x # "sent"
      BY <1>2, <1>5, <1>6, <1>16 DEF Answer
    <2>4. "sent" \notin Outcomes(kind[r]) /\ "sent" # "unsent"
      BY <1>5
    <2>5. Asked(outcome'[r], w)
      BY <1>2, <1>4, <2>2, <2>3, <2>4 DEF Asked
    <2>6. InQueue(kind[r], outcome'[r], netReplies[r], t, w)
      <3> SUFFICES ASSUME NEW i \in 1..w - t, netReplies[r][i].finished
                   PROVE  outcome'[r][t + i] \in Outcomes(kind[r])
        BY <2>2 DEF InQueue
      <3>1. outcome[r][t + i] \in Outcomes(kind[r])
        BY <2>2 DEF InQueue
      <3>2. t + i \in Numbers
        BY <2>2 DEF Asked
      <3> QED BY <1>2, <1>4, <2>4, <3>1, <3>2
    <2>7. \A m \in 1..t : m \in Numbers /\ outcome[r][m] \in Outcomes(kind[r])
      BY <2>2 DEF Asked, Told
    <2>8. \A m \in 1..t : outcome'[r][m] = outcome[r][m]
      BY <1>2, <1>4, <2>4, <2>7
    <2>9. Told(kind[r], outcome'[r], Answer(r), t)
      <3>1. DataOf(kind[r], outcome[r], Answer(r).data, t) /\ ErrorOf(outcome[r], Answer(r).error, t)
        BY <2>2 DEF Told
      <3>2. DataOf(kind[r], outcome'[r], Answer(r).data, t)
        BY <2>8, <3>1 DEF DataOf
      <3>3. ErrorOf(outcome'[r], Answer(r).error, t)
        BY <2>8, <3>1 DEF ErrorOf
      <3> QED BY <2>7, <2>8, <3>2, <3>3 DEF Told
    <2>10. TakenOf(r, w, t)'
      BY <1>2, <2>1, <2>3, <2>5, <2>6, <2>9 DEF TakenOf
    <2> QED BY <2>10 DEF InOrder
  <1>17. \A s \in Requests \ {r} : Same(s) /\ NoNews(s)
    <2> SUFFICES ASSUME NEW s \in Requests \ {r} PROVE Same(s) /\ NoNews(s)
      OBVIOUS
    <2>1. Same(s)
      BY <1>2, <1>4 DEF Same
    <2>2. NoNews(s)
      <3> SUFFICES ASSUME NEW j \in DOMAIN events', NEW m \in Numbers,
                          s \in events'[j].to, events'[j].reply = <<s, m>>
                   PROVE  \E i \in DOMAIN events : s \in events[i].to /\ events[i].reply = <<s, m>>
        BY DEF NoNews
      <3>1. PICK y \in DOMAIN q : events'[j] = q[y]
        BY <1>13
      <3>2. q[y] # e
        BY <1>8, <3>1
      <3> QED BY <1>9, <3>1, <3>2
    <2> QED BY <2>1, <2>2
  <1>18. ASSUME r \in alive', kind'[r] = "Download" PROVE Brought(r)'
    <2>1. Brought(r)
      BY <1>1, <1>2, <1>18 DEF DownloadInv
    <2>2. ASSUME Over(r) PROVE Over(r)'
      <3> SUFFICES ASSUME NEW i \in DOMAIN netReplies[r], NEW m \in Numbers,
                          netReplies[r][i].number = m
                   PROVE  /\ outcome'[r][m] \in Ends
                          /\ \A j \in DOMAIN events' : r \in events'[j].to =>
                                 events'[j].reply # <<r, m>>
        BY <1>2 DEF Over
      <3>1. /\ outcome[r][m] \in Ends
            /\ \A j \in DOMAIN events : r \in events[j].to => events[j].reply # <<r, m>>
        BY <2>2 DEF Over
      <3>2. m # n
        BY <1>2, <1>5, <3>1
      <3>3. \A j \in DOMAIN events' : r \in events'[j].to => events'[j].reply # <<r, m>>
        <4> SUFFICES ASSUME NEW j \in DOMAIN events', r \in events'[j].to
                     PROVE  events'[j].reply # <<r, m>>
          OBVIOUS
        <4>1. PICK y \in DOMAIN q : events'[j] = q[y]
          BY <1>13
        <4> QED BY <1>8, <1>9, <3>1, <3>2, <4>1
      <3> QED BY <1>4, <3>1, <3>2, <3>3
    <2> QED BY <1>2, <2>1, <2>2 DEF Brought
  <1>19. alive' \ {r} \subseteq alive /\ alive \subseteq Requests
    BY <1>1, <1>2 DEF TypeInv
  <1>20. QueuedInv' /\ DownloadInv'
    BY <1>1, <1>16, <1>17, <1>18, <1>19, OthersSame
  <1> QED BY <1>14, <1>15, <1>20 DEF IInv

-----------------------------------------------------------------------------
(***************************************************************************)
(* The slots.                                                              *)
(***************************************************************************)
LEMMA AnswerIs ==
  ASSUME TypeInv, NEW s \in Requests
  PROVE  Answer(s) \in Answers
  BY DEF TypeInv, Answer, Answers

LEMMA QueueSlotSound ==
  ASSUME IInv, NEW s \in alive, kind[s] \in {"MediaWiki", "Forvo"}, NEW r, NEW n \in Numbers,
         r = s => outcome[s][n] \in Outcomes(kind[s])
  PROVE  LET a == QueueSlot(s, r, n)
         IN  /\ isFinished[s] => a = Answer(s)
             /\ \E w \in Nat \ {0} : \E x \in Nat :
                    /\ Asked(outcome[s], w) /\ At(s, a, x, w) /\ Stopped(a.queue)
                    /\ a.finished <=> s \in cancelled \/ x = w
  <1> DEFINE a == QueueSlot(s, r, n)
             marked == Marked(s, r, n)
             b == [Answer(s) EXCEPT !.queue = marked]
             d == Drained(s, b)
  <1>1. TypeInv /\ NewInv /\ QueuedInv /\ s \in Requests
    BY DEF IInv, TypeInv
  <1>2. PICK w \in Nat \ {0}, t \in Nat : TakenOf(s, w, t)
    BY <1>1 DEF QueuedInv, Queued, InOrder
  <1>3. /\ t \in 0..w /\ Asked(outcome[s], w)
        /\ InQueue(kind[s], outcome[s], netReplies[s], t, w)
        /\ Told(kind[s], outcome[s], Answer(s), t)
        /\ Stopped(netReplies[s])
        /\ isFinished[s] <=> s \in cancelled \/ t = w
    BY <1>2 DEF TakenOf
  <1>4. Answer(s) \in Answers /\ Answer(s).queue = netReplies[s] /\ Answer(s).finished = isFinished[s]
    BY <1>1, AnswerIs DEF Answer
  <1>5. At(s, Answer(s), t, w)
    BY <1>3, <1>4 DEF At
  <1>6. CASE isFinished[s] \/ ~Ours(s, r, n)
    <2>1. a = Answer(s)
      BY <1>6 DEF QueueSlot
    <2> QED BY <1>3, <1>4, <1>5, <2>1
  <1>7. CASE ~isFinished[s] /\ Ours(s, r, n)
    <2>1. a = [d EXCEPT !.finished = (d.queue = <<>>)]
      BY <1>7 DEF QueueSlot
    <2>2. netReplies[s] \in Seq(Waits) /\ Len(netReplies[s]) = w - t
          /\ DOMAIN netReplies[s] = 1..w - t
      BY <1>1, <1>3, LenProperties DEF TypeInv, InQueue
    <2>3. \A i \in 1..w - t : /\ netReplies[s][i] \in Waits
                              /\ netReplies[s][i].number = t + i
                              /\ netReplies[s][i].finished => outcome[s][t + i] \in Outcomes(kind[s])
      BY <1>3, <2>2, ElementOfSeq DEF InQueue
    <2>4. /\ DOMAIN marked = 1..w - t
          /\ \A i \in 1..w - t : marked[i] = [netReplies[s][i] EXCEPT !.finished =
                                         @ \/ (r = s /\ netReplies[s][i].number = n)]
      BY <2>2 DEF Marked
    <2>5. \A i \in 1..w - t : /\ marked[i] \in Waits
                              /\ marked[i].number = t + i
                              /\ marked[i].finished => outcome[s][t + i] \in Outcomes(kind[s])
      <3> SUFFICES ASSUME NEW i \in 1..w - t
                   PROVE  /\ marked[i] \in Waits
                          /\ marked[i].number = t + i
                          /\ marked[i].finished => outcome[s][t + i] \in Outcomes(kind[s])
        OBVIOUS
      <3> DEFINE y == netReplies[s][i]
      <3>1. y \in [number : Nat, finished : BOOLEAN] /\ y.number = t + i
        BY <2>3 DEF Waits
      <3>2. marked[i] = [y EXCEPT !.finished = y.finished \/ (r = s /\ t + i = n)]
        BY <2>3, <2>4
      <3> HIDE DEF y, marked
      <3>3. /\ marked[i] \in [number : Nat, finished : BOOLEAN]
            /\ marked[i].number = t + i
            /\ marked[i].finished = (y.finished \/ (r = s /\ t + i = n))
        BY <3>1, <3>2
      <3>4. marked[i].finished => outcome[s][t + i] \in Outcomes(kind[s])
        BY <2>3, <3>3 DEF y
      <3> QED BY <3>3, <3>4 DEF Waits
    <2>6. marked \in Seq(Waits) /\ Len(marked) = w - t
      <3>1. w - t \in Nat
        BY <1>3
      <3>2. marked = [i \in 1..w - t |-> marked[i]]
        BY <2>2 DEF Marked
      <3> HIDE DEF marked
      <3>3. marked \in [1..w - t -> Waits]
        BY <2>5, <3>2
      <3> QED BY <3>1, <3>3, SeqDef, LenProperties
    <2>7. /\ b \in Answers /\ b.queue = marked /\ b.data = Answer(s).data
          /\ b.error = Answer(s).error
      BY <1>4, <2>6 DEF Answers
    <2> HIDE DEF marked, b, d
    <2>8. At(s, b, t, w)
      BY <1>3, <2>5, <2>6, <2>7 DEF At, InQueue, Told
    <2>9. 1..w \subseteq Numbers
      BY <1>3 DEF Asked
    <2>10. Stopped(d.queue) /\ \E x \in Nat : At(s, d, x, w)
      BY <1>1, <2>8, <2>9, LoopEnds DEF d
    <2>11. PICK x \in Nat : At(s, d, x, w)
      BY <2>10
    <2>12. /\ a \in Answers /\ a.queue = d.queue /\ a.data = d.data /\ a.error = d.error
           /\ a.finished = (d.queue = <<>>)
      BY <2>1, <2>11 DEF At, Answers
    <2>13. At(s, a, x, w)
      BY <2>11, <2>12 DEF At, Told
    <2>14. a.finished <=> x = w
      <3>1. d.queue \in Seq(Waits) /\ Len(d.queue) = w - x /\ x \in 0..w
        BY <2>11 DEF At, Answers, InQueue
      <3>2. d.queue = <<>> <=> Len(d.queue) = 0
        BY <3>1, EmptySeq
      <3>3. Len(d.queue) = 0 <=> x = w
        BY <3>1
      <3>4. (d.queue = <<>>) <=> x = w
        BY <3>2, <3>3
      <3> QED BY <2>12, <3>4
    <2>15. s \notin cancelled
      BY <1>3, <1>7
    <2> QED BY <1>3, <1>7, <2>10, <2>12, <2>13, <2>14, <2>15
  <1> QED BY <1>6, <1>7

LEMMA LinguaSlotSound ==
  ASSUME TypeInv, NEW s \in Requests, NEW r, NEW n
  PROVE  LET a == LinguaSlot(s, r, n)
         IN  a \in Answers /\ (isFinished[s] => a = Answer(s))
  <1> DEFINE o == outcome[s][1]
             x == [number |-> 1, page |-> o]
  <1>1. Answer(s) \in Answers
    BY AnswerIs
  <1>2. CASE isFinished[s]
    BY <1>1, <1>2 DEF LinguaSlot
  <1>3. CASE ~isFinished[s] /\ o \in Pages
    <2>1. LinguaSlot(s, r, n) = [Answer(s) EXCEPT !.finished = TRUE, !.data = <<x>>]
      BY <1>3 DEF LinguaSlot
    <2>2. x \in Brings
      BY <1>3 DEF Brings
    <2> HIDE DEF x
    <2>3. <<x>> \in Seq(Brings)
      BY <2>2
    <2> QED BY <1>1, <1>3, <2>1, <2>3 DEF Answers
  <1>4. CASE ~isFinished[s] /\ o \notin Pages
    <2>1. LinguaSlot(s, r, n) = [Answer(s) EXCEPT !.finished = TRUE]
      BY <1>4 DEF LinguaSlot
    <2> QED BY <1>1, <1>4, <2>1 DEF Answers
  <1> QED BY <1>2, <1>3, <1>4

LEMMA DownloadSlotSound ==
  ASSUME IInv, NEW s \in alive, kind[s] = "Download", NEW r, NEW n \in Numbers,
         r = s => outcome[s][n] \in Outcomes(kind[s]),
         \E i \in DOMAIN events : s \in events[i].to /\ events[i].reply = <<r, n>>
  PROVE  LET a == DownloadSlot(s, r, n)
         IN  /\ a \in Answers /\ Len(a.queue) <= 1
             /\ isFinished[s] => a = Answer(s)
             /\ ~isFinished[s] /\ a.finished =>
                    /\ a.data # <<>> \/ a.error # 0
                    /\ r = s
                    /\ \A i \in DOMAIN a.queue : a.queue[i].number = n
  <1> DEFINE a == DownloadSlot(s, r, n)
             o == outcome[s][n]
             old == Answer(s)
             count == old.redirects + 1
  <1>1. TypeInv /\ DownloadInv /\ s \in Requests
    BY DEF IInv, TypeInv
  <1>2. /\ old \in Answers /\ old.queue = netReplies[s] /\ old.finished = isFinished[s]
        /\ old.queue \in Seq(Waits) /\ old.data \in Seq(Brings) /\ old.error \in Nat
        /\ old.redirects \in Nat
    BY <1>1, AnswerIs DEF Answer, Answers
  <1>3. Brought(s)
    BY <1>1 DEF DownloadInv
  <1>4. n \in Nat /\ n # 0 /\ n + 1 \in Nat /\ count \in Nat
    BY <1>2, NumbersAre
  <1>5. CASE ~Ours(s, r, n)
    <2>1. a = old
      BY <1>5 DEF DownloadSlot
    <2>2. Len(netReplies[s]) <= 1
      BY <1>3 DEF Brought
    <2> QED BY <1>2, <2>1, <2>2
  <1>6. CASE Ours(s, r, n)
    <2>1. r = s /\ \E i \in DOMAIN netReplies[s] : netReplies[s][i].number = n
      BY <1>6 DEF Ours
    <2>2. ~isFinished[s]
      BY <1>3, <2>1 DEF Brought, Over
    <2>3. DOMAIN netReplies[s] = 1..Len(netReplies[s]) /\ Len(netReplies[s]) \in Nat
          /\ Len(netReplies[s]) <= 1
      BY <1>2, <1>3, LenProperties DEF Brought
    <2>4. \A i \in DOMAIN netReplies[s] : netReplies[s][i].number = n
      <3>1. \A i, j \in DOMAIN netReplies[s] : i = j
        BY <2>3
      <3> QED BY <2>1, <3>1
    <2>5. o \in {"failed", "redirect"} \cup Pages /\ "failed" \notin Pages /\ "redirect" \notin Pages
          /\ "empty" \notin Pages
      BY <2>1, OutcomesAre
    <2>6. CASE o = "redirect" /\ count <= MaxRedirects
      <3>1. a = [old EXCEPT !.redirects = count, !.queue = <<Waiting(n + 1)>>]
        BY <1>6, <2>6 DEF DownloadSlot
      <3>2. Waiting(n + 1) \in Waits
        BY <1>4 DEF Waiting, Waits
      <3> DEFINE y == Waiting(n + 1)
      <3> HIDE DEF y, count, o
      <3>3. <<y>> \in Seq(Waits) /\ Len(<<y>>) = 1
        BY <3>2 DEF y
      <3>4. a = [old EXCEPT !.redirects = count, !.queue = <<y>>]
        BY <3>1 DEF y
      <3> HIDE DEF a, old
      <3>5. /\ a \in Answers /\ a.queue = <<y>> /\ a.finished = old.finished
        BY <1>2, <1>4, <3>3, <3>4 DEF Answers
      <3> QED BY <1>2, <2>2, <3>3, <3>5 DEF a
    <2>7. CASE o = "redirect" /\ ~(count <= MaxRedirects)
      <3>1. a = [old EXCEPT !.redirects = count, !.error = n, !.finished = TRUE]
        BY <1>6, <2>7 DEF DownloadSlot
      <3> HIDE DEF a, old, count, o
      <3>2. a \in Answers /\ a.queue = old.queue /\ a.error = n
        BY <1>2, <1>4, <3>1 DEF Answers
      <3> QED BY <1>2, <1>4, <2>1, <2>2, <2>3, <2>4, <3>2 DEF a
    <2>8. CASE o # "redirect"
      <3> DEFINE c == [old EXCEPT !.queue = <<>>, !.finished = TRUE]
      <3>1. a = WithReply(s, c, n)
        BY <1>6, <2>8 DEF DownloadSlot
      <3>2. /\ c \in Answers /\ c.queue = <<>> /\ c.data = old.data /\ c.error = old.error
            /\ c.finished = TRUE
        <4>1. <<>> \in Seq(Waits)
          BY EmptySeq
        <4> HIDE DEF old
        <4> QED BY <1>2, <4>1 DEF Answers
      <3> HIDE DEF c, old, count
      <3>3. a = IF o = "failed" THEN [c EXCEPT !.error = n]
                ELSE [c EXCEPT !.data = Append(@, [number |-> n, page |-> o])]
        BY <2>5, <2>8, <3>1 DEF WithReply
      <3>4. CASE o = "failed"
        <4>1. a = [c EXCEPT !.error = n]
          BY <3>3, <3>4
        <4> HIDE DEF a, o
        <4>2. a \in Answers /\ a.queue = <<>> /\ a.error = n
          BY <1>4, <3>2, <4>1 DEF Answers
        <4>3. Len(<<>>) = 0 /\ DOMAIN <<>> = {}
          BY EmptySeq
        <4> QED BY <1>4, <2>1, <2>2, <4>2, <4>3 DEF a
      <3>5. CASE o \in Pages
        <4> DEFINE x == [number |-> n, page |-> o]
        <4>1. a = [c EXCEPT !.data = Append(c.data, x)]
          BY <2>5, <3>3, <3>5
        <4>2. x \in Brings
          BY <1>4, <3>5 DEF Brings
        <4> HIDE DEF x, a, o
        <4>3. Append(c.data, x) \in Seq(Brings) /\ Append(c.data, x) # <<>>
          BY <1>2, <3>2, <4>2, AppendProperties
        <4>4. a \in Answers /\ a.queue = <<>> /\ a.data # <<>>
          BY <3>2, <4>1, <4>3 DEF Answers
        <4>5. Len(<<>>) = 0 /\ DOMAIN <<>> = {}
          BY EmptySeq
        <4> QED BY <2>1, <2>2, <4>4, <4>5 DEF a
      <3> QED BY <2>5, <2>8, <3>4, <3>5
    <2> QED BY <2>6, <2>7, <2>8
  <1> QED BY <1>5, <1>6

-----------------------------------------------------------------------------
(***************************************************************************)
(* The event loop tells a request.                                         *)
(***************************************************************************)
\* s is told of the reply <<r, n>>, the first of the signals.
Hears(s, r, n) ==
    LET a == Slot(s, r, n)
        q == [events EXCEPT ![1].to = @ \ {s}]
    IN  /\ s \in alive /\ events \in Seq(Signals) /\ 1 \in DOMAIN events
        /\ s \in events[1].to /\ events[1].reply = <<r, n>>
        /\ r = s => outcome[s][n] \in Outcomes(kind[s])
        /\ netReplies' = [netReplies EXCEPT ![s] = a.queue]
        /\ data' = [data EXCEPT ![s] = a.data]
        /\ errorString' = [errorString EXCEPT ![s] = a.error]
        /\ isFinished' = [isFinished EXCEPT ![s] = a.finished]
        /\ redirectCount' = [redirectCount EXCEPT ![s] = a.redirects]
        /\ outcome' = [outcome EXCEPT ![s] =
               [m \in Numbers |-> IF outcome[s][m] = "unsent" /\ \E i \in DOMAIN a.queue :
                                                      a.queue[i].number = m
                                  THEN "sent" ELSE outcome[s][m]]]
        /\ events' = Pending(q)
        /\ UNCHANGED <<kind, alive, cancelled>>

LEMMA Delivered ==
  ASSUME IInv, NEW s \in Requests, Deliver(s)
  PROVE  \E r \in Requests : \E n \in Numbers : Hears(s, r, n)
  <1> DEFINE r == events[1].reply[1]
             n == events[1].reply[2]
  <1>1. events \in Seq(Signals) /\ events # <<>>
    BY DEF Deliver, IInv, TypeInv
  <1>2. Head(events) = events[1] /\ 1 \in DOMAIN events /\ events[1] \in Signals
    BY <1>1, HeadTailProperties, LenProperties, EmptySeq, ElementOfSeq
  <1>3. r \in Requests /\ n \in Numbers /\ events[1].reply = <<r, n>>
    BY <1>2 DEF Signals
  <1>4. s \in events[1].to /\ s \in alive
    BY <1>2 DEF Deliver, IInv, SignalInv, Right
  <1>5. r = s => outcome[s][n] \in Outcomes(kind[s])
    BY <1>2, <1>3, <1>4 DEF IInv, SignalInv, Right
  <1> DEFINE a == Slot(s, r, n)
             q == [events EXCEPT ![1].to = @ \ {s}]
  <1>6. /\ netReplies' = [netReplies EXCEPT ![s] = a.queue]
        /\ data' = [data EXCEPT ![s] = a.data]
        /\ errorString' = [errorString EXCEPT ![s] = a.error]
        /\ isFinished' = [isFinished EXCEPT ![s] = a.finished]
        /\ redirectCount' = [redirectCount EXCEPT ![s] = a.redirects]
        /\ events' = Pending(q)
        /\ UNCHANGED <<kind, alive, cancelled>>
    BY <1>2, Zenon DEF Deliver
  <1>7. outcome' = [outcome EXCEPT ![s] =
            [m \in Numbers |-> IF outcome[s][m] = "unsent" /\ \E i \in DOMAIN a.queue :
                                                   a.queue[i].number = m
                               THEN "sent" ELSE outcome[s][m]]]
    BY <1>2, Zenon DEF Deliver
  <1> HIDE DEF r, n, a, q
  <1> QED BY <1>1, <1>2, <1>3, <1>4, <1>5, <1>6, <1>7 DEF a, q, Hears

\* An answer is one, and a request that has finished keeps the one it has.
LEMMA SlotSound ==
  ASSUME IInv, NEW s \in alive, NEW r, NEW n \in Numbers,
         r = s => outcome[s][n] \in Outcomes(kind[s]),
         \E i \in DOMAIN events : s \in events[i].to /\ events[i].reply = <<r, n>>
  PROVE  Slot(s, r, n) \in Answers /\ (isFinished[s] => Slot(s, r, n) = Answer(s))
  <1>1. TypeInv /\ NewInv /\ s \in Requests
    BY DEF IInv, TypeInv
  <1>2. kind[s] \in Kinds
    BY <1>1 DEF TypeInv, NewInv
  <1>3. CASE kind[s] \in {"MediaWiki", "Forvo"}
    <2>1. Slot(s, r, n) = QueueSlot(s, r, n)
      BY <1>3 DEF Slot
    <2> QED BY <1>3, <2>1, QueueSlotSound DEF At
  <1>4. CASE kind[s] = "LinguaLibre"
    <2>1. Slot(s, r, n) = LinguaSlot(s, r, n)
      BY <1>4 DEF Slot
    <2> QED BY <1>1, <2>1, LinguaSlotSound
  <1>5. CASE kind[s] = "Download"
    <2>1. Slot(s, r, n) = DownloadSlot(s, r, n)
      BY <1>5 DEF Slot
    <2> QED BY <1>5, <2>1, DownloadSlotSound
  <1> QED BY <1>2, <1>3, <1>4, <1>5 DEF Kinds

LEMMA DeliverStep ==
  ASSUME IInv, NEW s \in Requests, Deliver(s)
  PROVE  IInv'
  <1>1. TypeInv /\ NewInv /\ SignalInv /\ QueuedInv /\ DownloadInv
    BY DEF IInv
  <1>0. PICK r \in Requests, n \in Numbers : Hears(s, r, n)
    BY Delivered
  <1> DEFINE a == Slot(s, r, n)
             q == [events EXCEPT ![1].to = @ \ {s}]
             o == [m \in Numbers |-> IF outcome[s][m] = "unsent" /\ \E i \in DOMAIN a.queue :
                                                          a.queue[i].number = m
                                     THEN "sent" ELSE outcome[s][m]]
  <1>2. /\ s \in alive /\ events \in Seq(Signals) /\ 1 \in DOMAIN events
        /\ s \in events[1].to /\ events[1].reply = <<r, n>>
        /\ r = s => outcome[s][n] \in Outcomes(kind[s])
        /\ UNCHANGED <<kind, alive, cancelled>>
    BY <1>0 DEF Hears
  <1>3. /\ netReplies' = [netReplies EXCEPT ![s] = a.queue]
        /\ data' = [data EXCEPT ![s] = a.data]
        /\ errorString' = [errorString EXCEPT ![s] = a.error]
        /\ isFinished' = [isFinished EXCEPT ![s] = a.finished]
        /\ redirectCount' = [redirectCount EXCEPT ![s] = a.redirects]
        /\ outcome' = [outcome EXCEPT ![s] = o]
        /\ events' = Pending(q)
    BY <1>0, Zenon DEF Hears
  <1>4. /\ \A m \in Numbers : outcome[s][m] # "unsent" => o[m] = outcome[s][m]
        /\ \A m \in Numbers : o[m] # outcome[s][m] => \E i \in DOMAIN a.queue : a.queue[i].number = m
        /\ o \in [Numbers -> Ends \cup {"sent", "unsent"}]
    BY <1>1 DEF TypeInv
  <1>5. kind[s] \in Kinds
    BY <1>1, <1>2 DEF TypeInv, NewInv
  <1>6. DOMAIN events = 1..Len(events) /\ Len(events) \in Nat
        /\ \A i \in DOMAIN events : events[i] \in Signals
    BY <1>2, LenProperties, ElementOfSeq
  <1>7. /\ q \in Seq(Signals) /\ DOMAIN q = DOMAIN events
        /\ \A i \in DOMAIN events : q[i].reply = events[i].reply
        /\ \A i \in DOMAIN events : i # 1 => q[i] = events[i]
        /\ q[1].to = events[1].to \ {s}
    <2> DEFINE e == [events[1] EXCEPT !.to = events[1].to \ {s}]
    <2>1. e \in Signals /\ e.reply = events[1].reply /\ e.to = events[1].to \ {s}
      BY <1>2, <1>6 DEF Signals
    <2>2. q = [events EXCEPT ![1] = e]
      OBVIOUS
    <2> HIDE DEF e, q
    <2>3. q = [i \in 1..Len(events) |-> IF i = 1 THEN e ELSE events[i]]
      BY <1>2, <1>6, <2>2
    <2>4. q \in [1..Len(events) -> Signals]
      BY <1>6, <2>1, <2>3
    <2>5. q \in Seq(Signals)
      BY <1>6, <2>4, SeqDef
    <2> QED BY <1>2, <1>6, <2>1, <2>3, <2>5
  <1> HIDE DEF a, q, o
  <1>8. \A i \in DOMAIN events : q[i].to \subseteq events[i].to
    BY <1>7
  <1>9. /\ outcome'[s] = o /\ netReplies'[s] = a.queue /\ data'[s] = a.data
        /\ errorString'[s] = a.error /\ isFinished'[s] = a.finished
        /\ redirectCount'[s] = a.redirects
        /\ \A x \in Requests \ {s} : outcome'[x] = outcome[x]
    BY <1>1, <1>3 DEF TypeInv
  <1>10. \A x \in Requests : \A m \in Numbers :
             outcome[x][m] # "unsent" => outcome'[x][m] = outcome[x][m]
    BY <1>4, <1>9
  <1>11. /\ "unsent" \notin Ends
         /\ \A k : Outcomes(k) \subseteq Ends
    BY OutcomesAre
  <1>12. Right(q, alive', outcome', kind') /\ Once(q)
    <2>1. Right(events, alive, outcome, kind) /\ Once(events) /\ alive \subseteq Requests
      BY <1>1 DEF SignalInv, TypeInv
    <2>2. Once(q)
      <3> SUFFICES ASSUME NEW i \in DOMAIN events, NEW j \in DOMAIN events,
                          NEW x \in q[i].to \cap q[j].to, NEW m \in Numbers,
                          q[i].reply = <<x, m>>, q[j].reply = <<x, m>>
                   PROVE  i = j
        BY <1>7 DEF Once
      <3>1. /\ x \in events[i].to \cap events[j].to
            /\ events[i].reply = <<x, m>> /\ events[j].reply = <<x, m>>
        BY <1>7, <1>8
      <3> QED BY <2>1, <3>1 DEF Once
    <2>3. Right(q, alive, outcome', kind)
      <3> SUFFICES ASSUME NEW i \in DOMAIN events
                   PROVE  /\ q[i].to \subseteq alive
                          /\ \A x \in q[i].to : \A m \in Numbers :
                                 q[i].reply = <<x, m>> => outcome'[x][m] \in Outcomes(kind[x])
        BY <1>7 DEF Right
      <3>1. /\ events[i].to \subseteq alive
            /\ \A x \in events[i].to : \A m \in Numbers :
                   events[i].reply = <<x, m>> => outcome[x][m] \in Outcomes(kind[x])
        BY <2>1 DEF Right
      <3> SUFFICES ASSUME NEW x \in q[i].to, NEW m \in Numbers, q[i].reply = <<x, m>>
                   PROVE  outcome'[x][m] \in Outcomes(kind[x])
        BY <1>8, <3>1
      <3>2. x \in events[i].to /\ x \in Requests /\ outcome[x][m] \in Outcomes(kind[x])
        BY <1>7, <1>8, <2>1, <3>1
      <3> QED BY <1>10, <1>11, <3>2
    <2> QED BY <1>2, <2>2, <2>3
  <1>13. /\ events' \in Seq(Signals)
         /\ Right(events', alive', outcome', kind') /\ Once(events')
         /\ \A i \in DOMAIN events' : \E x \in DOMAIN q : events'[i] = q[x]
    <2>1. q \in Seq(Signals) /\ events' = Pending(q)
      BY <1>3, <1>7
    <2>2. \A live, oo, k : Right(q, live, oo, k) /\ Once(q) =>
              /\ Pending(q) \in Seq(Signals) /\ Right(Pending(q), live, oo, k) /\ Once(Pending(q))
              /\ \A i \in DOMAIN Pending(q) : \E x \in DOMAIN q : Pending(q)[i] = q[x]
      BY <2>1, PendingRight
    <2>3. /\ Pending(q) \in Seq(Signals)
          /\ Right(Pending(q), alive', outcome', kind') /\ Once(Pending(q))
          /\ \A i \in DOMAIN Pending(q) : \E x \in DOMAIN q : Pending(q)[i] = q[x]
      BY <1>12, <2>2
    <2> QED BY <2>1, <2>3
  <1>14. \A x \in Requests : NoNews(x)
    <2> SUFFICES ASSUME NEW x \in Requests, NEW j \in DOMAIN events', NEW m \in Numbers,
                        x \in events'[j].to, events'[j].reply = <<x, m>>
                 PROVE  \E i \in DOMAIN events : x \in events[i].to /\ events[i].reply = <<x, m>>
      BY DEF NoNews
    <2>1. PICK y \in DOMAIN events : events'[j] = q[y]
      BY <1>7, <1>13
    <2> QED BY <1>7, <1>8, <2>1
  <1>15. kind[s] \in {"MediaWiki", "Forvo"} => a = QueueSlot(s, r, n)
    BY DEF a, Slot
  <1>17. kind[s] = "Download" => a = DownloadSlot(s, r, n)
    BY DEF a, Slot
  <1>18. a \in Answers /\ (isFinished[s] => a = Answer(s))
    <2>1. \E i \in DOMAIN events : s \in events[i].to /\ events[i].reply = <<r, n>>
      BY <1>2
    <2> QED BY <1>2, <2>1, SlotSound DEF a
  <1>19. TypeInv'
    <2>1. /\ a.queue \in Seq(Waits) /\ a.data \in Seq(Brings) /\ a.error \in Nat
          /\ a.finished \in BOOLEAN /\ a.redirects \in Nat
      BY <1>18 DEF Answers
    <2>2. netReplies' \in [Requests -> Seq(Waits)] /\ data' \in [Requests -> Seq(Brings)]
      BY <1>1, <1>3, <2>1 DEF TypeInv
    <2>3. errorString' \in [Requests -> Nat] /\ redirectCount' \in [Requests -> Nat]
      BY <1>1, <1>3, <2>1 DEF TypeInv
    <2>4. isFinished' \in [Requests -> BOOLEAN]
      BY <1>1, <1>3, <2>1 DEF TypeInv
    <2>5. outcome' \in [Requests -> [Numbers -> Ends \cup {"sent", "unsent"}]]
      BY <1>1, <1>3, <1>4 DEF TypeInv
    <2> QED BY <1>1, <1>2, <1>13, <2>2, <2>3, <2>4, <2>5 DEF TypeInv
  <1>20. NewInv'
    <2>1. kind[s] # "none"
      BY <1>5 DEF Kinds
    <2> QED BY <1>1, <1>2, <1>3, <2>1 DEF NewInv, TypeInv
  <1>21. SignalInv'
    BY <1>13 DEF SignalInv
  <1>22. ASSUME kind'[s] \in {"MediaWiki", "Forvo"} PROVE InOrder(s)'
    <2>1. PICK w \in Nat \ {0}, x \in Nat :
              /\ Asked(outcome[s], w) /\ At(s, a, x, w) /\ Stopped(a.queue)
              /\ a.finished <=> s \in cancelled \/ x = w
      BY <1>2, <1>15, <1>22, QueueSlotSound
    <2>2. /\ x \in 0..w /\ InQueue(kind[s], outcome[s], a.queue, x, w)
          /\ Told(kind[s], outcome[s], a, x) /\ a.queue \in Seq(Waits)
      BY <2>1 DEF At, Answers
    <2>3. o = outcome[s]
      <3>1. ASSUME NEW i \in DOMAIN a.queue, NEW m \in Numbers, a.queue[i].number = m
            PROVE  outcome[s][m] # "unsent"
        <4>1. i \in 1..w - x
          BY <2>2, LenProperties DEF InQueue
        <4>2. m = x + i /\ ~(m > w)
          BY <2>2, <3>1, <4>1 DEF InQueue
        <4> QED BY <2>1, <4>2 DEF Asked
      <3>2. \A m \in Numbers : o[m] = outcome[s][m]
        BY <1>4, <3>1
      <3>3. outcome[s] \in [Numbers -> Ends \cup {"sent", "unsent"}]
        BY <1>1 DEF TypeInv
      <3> QED BY <1>4, <3>2, <3>3
    <2>4. Answer(s)'.data = a.data /\ Answer(s)'.error = a.error
      BY <1>9 DEF Answer
    <2>5. Told(kind[s], outcome[s], Answer(s)', x)
      BY <2>2, <2>4 DEF Told
    <2>6. TakenOf(s, w, x)'
      BY <1>2, <1>9, <2>1, <2>2, <2>3, <2>5 DEF TakenOf
    <2> QED BY <2>6 DEF InOrder
  <1>23. ASSUME kind'[s] = "Download" PROVE Brought(s)'
    <2>1. /\ Len(a.queue) <= 1
          /\ ~isFinished[s] /\ a.finished =>
                 /\ a.data # <<>> \/ a.error # 0
                 /\ r = s
                 /\ \A i \in DOMAIN a.queue : a.queue[i].number = n
      <3>1. \E i \in DOMAIN events : s \in events[i].to /\ events[i].reply = <<r, n>>
        BY <1>2
      <3>2. kind[s] = "Download"
        BY <1>2, <1>23
      <3> QED BY <1>2, <1>17, <3>1, <3>2, DownloadSlotSound
    <2>2. Brought(s)
      BY <1>1, <1>2, <1>23 DEF DownloadInv
    <2>3. CASE isFinished[s]
      <3>1. /\ a.queue = netReplies[s] /\ a.data = data[s] /\ a.error = errorString[s]
            /\ a.finished = isFinished[s]
        <4>1. a = Answer(s)
          BY <1>18, <2>3
        <4> QED BY <4>1 DEF Answer
      <3>2. Over(s)
        BY <2>2, <2>3 DEF Brought
      <3>3. Over(s)'
        <4> SUFFICES ASSUME NEW i \in DOMAIN netReplies[s], NEW m \in Numbers,
                            netReplies[s][i].number = m
                     PROVE  /\ outcome'[s][m] \in Ends
                            /\ \A j \in DOMAIN events' : s \in events'[j].to =>
                                   events'[j].reply # <<s, m>>
          <5>1. netReplies'[s] = netReplies[s]
            BY <1>9, <3>1
          <5> QED BY <5>1 DEF Over
        <4>1. /\ outcome[s][m] \in Ends
              /\ \A j \in DOMAIN events : s \in events[j].to => events[j].reply # <<s, m>>
          BY <3>2 DEF Over
        <4>2. \A j \in DOMAIN events' : s \in events'[j].to => events'[j].reply # <<s, m>>
          BY <1>14, <4>1 DEF NoNews
        <4> QED BY <1>10, <1>11, <4>1, <4>2
      <3> QED BY <1>2, <1>9, <2>1, <2>2, <3>1, <3>3 DEF Brought
    <2>4. CASE ~isFinished[s] /\ a.finished
      <3>1. Over(s)'
        <4> SUFFICES ASSUME NEW i \in DOMAIN a.queue, NEW m \in Numbers, a.queue[i].number = m
                     PROVE  /\ outcome'[s][m] \in Ends
                            /\ \A j \in DOMAIN events' : s \in events'[j].to =>
                                   events'[j].reply # <<s, m>>
          BY <1>9 DEF Over
        <4>1. r = s /\ m = n /\ outcome[s][n] \in Ends
          BY <1>2, <1>11, <2>1, <2>4
        <4>2. ASSUME NEW j \in DOMAIN events', s \in events'[j].to, events'[j].reply = <<s, n>>
              PROVE  FALSE
          <5>1. PICK y \in DOMAIN events : events'[j] = q[y]
            BY <1>7, <1>13
          <5>2. y # 1
            BY <1>7, <4>2, <5>1
          <5>3. s \in events[y].to /\ events[y].reply = <<s, n>>
            BY <1>7, <4>2, <5>1, <5>2
          <5>4. events[1].reply = <<s, n>> /\ s \in events[1].to \cap events[y].to
            BY <1>2, <4>1, <5>3
          <5>5. \A u, v \in DOMAIN events : \A x \in events[u].to \cap events[v].to :
                    \A k \in Numbers :
                        events[u].reply = <<x, k>> /\ events[v].reply = <<x, k>> => u = v
            BY <1>1 DEF SignalInv, Once
          <5> QED BY <1>2, <5>2, <5>3, <5>4, <5>5
        <4> QED BY <1>10, <1>11, <4>1, <4>2
      <3> QED BY <1>9, <2>1, <2>4, <3>1 DEF Brought
    <2>5. CASE ~isFinished[s] /\ ~a.finished
      BY <1>9, <2>1, <2>5 DEF Brought
    <2> QED BY <2>3, <2>4, <2>5
  <1>24. \A x \in Requests \ {s} : Same(x) /\ NoNews(x)
    <2>1. \A x \in Requests \ {s} : Same(x)
      BY <1>1, <1>2, <1>3, <1>9 DEF Same, TypeInv
    <2> QED BY <1>14, <2>1
  <1>25. alive' \ {s} \subseteq alive /\ alive \subseteq Requests
    BY <1>1, <1>2 DEF TypeInv
  <1>26. QueuedInv' /\ DownloadInv'
    BY <1>1, <1>22, <1>23, <1>24, <1>25, OthersSame
  <1> QED BY <1>19, <1>20, <1>21, <1>26 DEF IInv

LEMMA StepIInv == IInv /\ [Next]_vars => IInv'
  <1> SUFFICES ASSUME IInv, [Next]_vars PROVE IInv'
    OBVIOUS
  <1>1. ASSUME NEW r \in Requests, NEW session \in Sessions, Create(r, session) PROVE IInv'
    BY <1>1, CreateStep
  <1>2. ASSUME NEW r \in Requests, Cancel(r) PROVE IInv'
    BY <1>2, CancelStep
  <1>3. ASSUME NEW r \in Requests, Destroy(r) PROVE IInv'
    BY <1>3, DestroyStep
  <1>4. CASE Network
    BY <1>4, ReplyStep DEF Network
  <1>5. CASE Loop
    BY <1>5, DeliverStep DEF Loop
  <1>6. CASE UNCHANGED vars
    <2>1. /\ kind' = kind /\ alive' = alive /\ outcome' = outcome /\ cancelled' = cancelled
          /\ events' = events /\ netReplies' = netReplies /\ data' = data
          /\ errorString' = errorString /\ isFinished' = isFinished
          /\ redirectCount' = redirectCount
      BY <1>6 DEF vars, answerVars
    <2>2. TypeInv' /\ NewInv' /\ SignalInv'
      BY <2>1 DEF IInv, TypeInv, NewInv, SignalInv
    <2>3. \A s : Same(s) /\ NoNews(s)
      BY <2>1 DEF Same, NoNews
    <2>4. QueuedInv'
      <3> SUFFICES ASSUME NEW r \in Queued' PROVE InOrder(r)'
        BY DEF QueuedInv
      <3>1. r \in Queued
        BY <2>1 DEF Queued
      <3> QED BY <2>3, <3>1, InOrderSame DEF IInv, QueuedInv
    <2>5. DownloadInv'
      <3> SUFFICES ASSUME NEW r \in alive', kind'[r] = "Download" PROVE Brought(r)'
        BY DEF DownloadInv
      <3>1. r \in alive /\ kind[r] = "Download"
        BY <2>1
      <3> QED BY <2>3, <3>1, BroughtSame DEF IInv, DownloadInv
    <2> QED BY <2>2, <2>4, <2>5 DEF IInv
  <1> QED BY <1>1, <1>2, <1>3, <1>4, <1>5, <1>6 DEF Next

-----------------------------------------------------------------------------
(***************************************************************************)
(* What the invariant says of the answers.                                 *)
(***************************************************************************)
\* What has been taken from the queue is what the invariant says of it.
LEMMA TakenIs ==
  ASSUME NEW r \in Requests, TypeInv, NEW w \in Nat \ {0}, NEW t \in Nat, TakenOf(r, w, t)
  PROVE  Taken(r) = 1..t /\ Cardinality(Taken(r)) = t
  <1>1. /\ t \in 0..w /\ 1..w \subseteq Numbers
        /\ \A n \in Numbers : outcome[r][n] = "unsent" <=> n > w
        /\ Len(netReplies[r]) = w - t
        /\ \A i \in 1..w - t : netReplies[r][i].number = t + i
    BY DEF TakenOf, Asked, InQueue
  <1>2. DOMAIN netReplies[r] = 1..w - t
    <2>1. netReplies[r] \in Seq(Waits)
      BY DEF TypeInv
    <2> QED BY <1>1, <2>1, LenProperties
  <1>3. ASSUME NEW n \in Taken(r) PROVE n \in 1..t
    <2>1. n \in Numbers /\ n \in Nat /\ n # 0 /\ ~(n > w)
      BY <1>1, NumbersAre DEF Taken
    <2>2. ASSUME n > t PROVE FALSE
      <3>1. n - t \in 1..w - t /\ t + (n - t) = n
        BY <1>1, <2>1, <2>2
      <3> QED BY <1>1, <1>2, <3>1 DEF Taken
    <2> QED BY <2>1, <2>2
  <1>4. ASSUME NEW n \in 1..t PROVE n \in Taken(r)
    <2>1. n \in Numbers /\ ~(n > w)
      BY <1>1
    <2>2. \A i \in 1..w - t : t + i # n
      OBVIOUS
    <2> QED BY <1>1, <1>2, <2>1, <2>2 DEF Taken
  <1>5. Taken(r) = 1..t
    BY <1>3, <1>4
  <1>6. Cardinality(1..t) = t
    BY FS_Interval
  <1> QED BY <1>5, <1>6

LEMMA MaxIs ==
  ASSUME NEW S, S \subseteq Nat, NEW e \in S, \A n \in S : n <= e
  PROVE  Max(S) = e
  <1>1. \E x \in S : \A y \in S : x >= y
    OBVIOUS
  <1>2. Max(S) \in S /\ \A y \in S : Max(S) >= y
    BY <1>1, Zenon DEF Max
  <1> DEFINE m == Max(S)
  <1> HIDE DEF m
  <1>3. m \in Nat /\ e \in Nat /\ m >= e /\ m <= e
    BY <1>2 DEF m
  <1>4. m = e
    BY <1>3
  <1> QED BY <1>4 DEF m

LEMMA OrderSound == IInv => AsAsked
  <1> SUFFICES ASSUME IInv, NEW r \in Queued
      PROVE LET brought == {n \in Taken(r) : outcome[r][n] \in Pages}
                shown == {n \in brought :
                             kind[r] = "MediaWiki" =>
                                 ~\E m \in brought : m < n /\ outcome[r][m] = outcome[r][n]}
                failed == {n \in Taken(r) : outcome[r][n] = "failed"}
            IN  /\ Taken(r) = 1..Cardinality(Taken(r))
                /\ netReplies[r] # <<>> => ~Head(netReplies[r]).finished
                /\ ToSet(data[r]) = {[number |-> n, page |-> outcome[r][n]] : n \in shown}
                /\ \A i, j \in DOMAIN data[r] : i < j => data[r][i].number < data[r][j].number
                /\ errorString[r] = IF failed = {} THEN 0 ELSE Max(failed)
    BY DEF AsAsked
  <1> DEFINE brought == {n \in Taken(r) : outcome[r][n] \in Pages}
             shown == {n \in brought :
                         kind[r] = "MediaWiki" =>
                             ~\E m \in brought : m < n /\ outcome[r][m] = outcome[r][n]}
             failed == {n \in Taken(r) : outcome[r][n] = "failed"}
             o == outcome[r]
             d == data[r]
  <1>1. TypeInv /\ r \in Requests /\ InOrder(r) /\ kind[r] \in {"MediaWiki", "Forvo"}
    BY DEF IInv, TypeInv, QueuedInv, Queued
  <1>2. PICK w \in Nat \ {0}, t \in Nat : TakenOf(r, w, t)
    BY <1>1 DEF InOrder
  <1>3. Taken(r) = 1..t /\ Cardinality(Taken(r)) = t
    BY <1>1, <1>2, TakenIs
  <1>4. netReplies[r] # <<>> => ~Head(netReplies[r]).finished
    <2>1. netReplies[r] \in Seq(Waits)
      BY <1>1 DEF TypeInv
    <2>2. netReplies[r] # <<>> => Head(netReplies[r]) = netReplies[r][1]
      BY <2>1, HeadTailProperties
    <2> QED BY <1>2, <2>2 DEF TakenOf, Stopped
  <1>5. DataOf(kind[r], o, d, t) /\ ErrorOf(o, errorString[r], t)
    BY <1>2 DEF TakenOf, Told, Answer
  <1>6. \A n \in 1..t : n \in Nat /\ n # 0
    OBVIOUS
  <1>7. \A i, j \in DOMAIN d : i < j => d[i].number < d[j].number
    BY <1>5 DEF DataOf
  <1>8. /\ \A n : n \in brought <=> n \in 1..t /\ o[n] \in Pages
        /\ \A n : n \in failed <=> n \in 1..t /\ o[n] = "failed"
    BY <1>3
  <1> HIDE DEF o, d
  <1>9. ToSet(d) = {[number |-> n, page |-> o[n]] : n \in shown}
    <2>1. /\ \A i \in DOMAIN d : /\ d[i].number \in 1..t
                                 /\ d[i].page = o[d[i].number]
                                 /\ kind[r] = "MediaWiki" =>
                                        \A m \in 1..t : o[m] = d[i].page => d[i].number <= m
          /\ \A n \in 1..t : o[n] \in Pages =>
                 \E i \in DOMAIN d : d[i].page = o[n] /\ (kind[r] # "MediaWiki" => d[i].number = n)
      BY <1>5 DEF DataOf
    <2>2. \A i \in DOMAIN d : d[i] \in Brings
      BY <1>1, ElementOfSeq, LenProperties DEF d, TypeInv
    <2>3. ASSUME NEW i \in DOMAIN d
          PROVE  \E n \in shown : d[i] = [number |-> n, page |-> o[n]]
      <3> DEFINE n == d[i].number
      <3>1. n \in 1..t /\ d[i].page = o[n] /\ d[i] = [number |-> n, page |-> o[n]]
            /\ o[n] \in Pages
        BY <2>1, <2>2 DEF Brings
      <3>2. kind[r] = "MediaWiki" => \A m \in 1..t : o[m] = o[n] => n <= m
        BY <2>1, <3>1
      <3> HIDE DEF n
      <3>3. n \in brought
        BY <1>8, <3>1
      <3>4. ASSUME kind[r] = "MediaWiki", NEW m \in brought, m < n, o[m] = o[n] PROVE FALSE
        BY <1>8, <3>1, <3>2, <3>4
      <3>5. n \in shown
        BY <3>3, <3>4 DEF o
      <3> QED BY <3>1, <3>5
    <2>4. ASSUME NEW n \in shown
          PROVE  \E i \in DOMAIN d : d[i] = [number |-> n, page |-> o[n]]
      <3>1. /\ n \in brought /\ n \in 1..t /\ o[n] \in Pages
            /\ kind[r] = "MediaWiki" => ~\E m \in brought : m < n /\ o[m] = o[n]
        BY <1>8 DEF o
      <3>2. PICK i \in DOMAIN d :
                d[i].page = o[n] /\ (kind[r] # "MediaWiki" => d[i].number = n)
        BY <2>1, <3>1
      <3>3. d[i].number = n
        <4>1. ASSUME kind[r] = "MediaWiki" PROVE d[i].number = n
          <5>1. /\ d[i].number \in 1..t /\ o[d[i].number] = o[n] /\ d[i].number <= n
            BY <2>1, <3>1, <3>2, <4>1
          <5>2. d[i].number \in brought
            BY <1>8, <3>1, <5>1
          <5>3. ~(d[i].number < n)
            BY <3>1, <4>1, <5>1, <5>2
          <5> QED BY <3>1, <5>1, <5>3
        <4> QED BY <3>2, <4>1
      <3> QED BY <2>2, <3>2, <3>3 DEF Brings
    <2> HIDE DEF shown
    <2>5. ToSet(d) = {d[i] : i \in DOMAIN d}
      BY Zenon DEF ToSet
    <2> QED BY <2>3, <2>4, <2>5
  <1>10. errorString[r] = IF failed = {} THEN 0 ELSE Max(failed)
    <2> DEFINE e == errorString[r]
    <2>1. /\ e = 0 \/ (e \in 1..t /\ o[e] = "failed")
          /\ \A n \in 1..t : o[n] = "failed" => n <= e
          /\ e \in Nat
      BY <1>1, <1>5 DEF ErrorOf, TypeInv
    <2> HIDE DEF e, failed
    <2>2. CASE failed = {}
      BY <1>8, <2>1, <2>2 DEF e
    <2>3. CASE failed # {}
      <3>1. e # 0
        BY <1>6, <1>8, <2>1, <2>3
      <3>2. e \in failed /\ (\A n \in failed : n <= e) /\ failed \subseteq Nat
        BY <1>6, <1>8, <2>1, <3>1
      <3>3. Max(failed) = e
        BY <3>2, MaxIs
      <3> QED BY <2>3, <3>3 DEF e
    <2> QED BY <2>2, <2>3
  <1> QED BY <1>3, <1>4, <1>7, <1>9, <1>10 DEF o, d

LEMMA NotFoundSound == IInv => NotFoundMeansAbsent
  <1> SUFFICES ASSUME IInv, NEW r \in alive, kind[r] # "LinguaLibre", NotFound(r),
                      NEW n \in Numbers, outcome[r][n] # "unsent"
               PROVE  outcome[r][n] = "empty"
    BY DEF NotFoundMeansAbsent
  <1>1. TypeInv /\ r \in Requests /\ kind[r] \in {"MediaWiki", "Forvo", "Download"}
    BY DEF IInv, TypeInv, NewInv, Kinds
  <1>2. isFinished[r] /\ r \notin cancelled /\ data[r] = <<>> /\ errorString[r] = 0
    BY DEF NotFound
  <1>3. kind[r] # "Download"
    BY <1>2 DEF IInv, DownloadInv, Brought
  <1>4. InOrder(r)
    BY <1>1, <1>3 DEF IInv, QueuedInv, Queued
  <1>5. PICK w \in Nat \ {0}, t \in Nat : TakenOf(r, w, t)
    BY <1>4 DEF InOrder
  <1>6. t = w /\ (outcome[r][n] = "unsent" <=> n > w)
    BY <1>2, <1>5 DEF TakenOf, Asked
  <1>7. n \in 1..t
    BY <1>6, NumbersAre
  <1>8. outcome[r][n] \in {"failed", "empty"} \cup Pages
    <2>1. outcome[r][n] \in Outcomes(kind[r])
      BY <1>5, <1>7 DEF TakenOf, Told
    <2> QED BY <1>3, <2>1, OutcomesAre
  <1>9. outcome[r][n] # "failed"
    BY <1>2, <1>5, <1>7 DEF TakenOf, Told, ErrorOf, Answer
  <1>10. outcome[r][n] \notin Pages
    <2>1. DOMAIN data[r] = {}
      BY <1>2, EmptySeq
    <2> QED BY <1>5, <1>7, <2>1 DEF TakenOf, Told, DataOf, Answer
  <1> QED BY <1>8, <1>9, <1>10

LEMMA FinalSound ==
  ASSUME IInv, [Next]_vars, NEW x \in alive \cap alive', isFinished[x]
  PROVE  data'[x] = data[x] /\ errorString'[x] = errorString[x] /\ isFinished'[x] = isFinished[x]
  <1>1. TypeInv /\ NewInv /\ x \in Requests
    BY DEF IInv, TypeInv
  <1>2. ASSUME NEW r \in Requests, NEW session \in Sessions, Create(r, session)
        PROVE  UNCHANGED <<data, errorString, isFinished>>
    BY <1>2 DEF Create
  <1>3. ASSUME NEW r \in Requests, Cancel(r)
        PROVE  /\ UNCHANGED <<data, errorString>>
               /\ isFinished'[x] = isFinished[x]
    BY <1>1, <1>3 DEF Cancel, TypeInv
  <1>4. ASSUME NEW r \in Requests, Destroy(r)
        PROVE  data'[x] = data[x] /\ errorString'[x] = errorString[x]
               /\ isFinished'[x] = isFinished[x]
    <2>1. x # r
      BY <1>4 DEF Destroy
    <2> QED BY <1>1, <1>4, <2>1 DEF Destroy, TypeInv
  <1>5. CASE Network
    BY <1>5 DEF Network, ReplyFinishes, answerVars
  <1>6. ASSUME NEW s \in Requests, Deliver(s)
        PROVE  data'[x] = data[x] /\ errorString'[x] = errorString[x]
               /\ isFinished'[x] = isFinished[x]
    <2>1. PICK r \in Requests, n \in Numbers : Hears(s, r, n)
      BY <1>6, Delivered
    <2> DEFINE a == Slot(s, r, n)
    <2>2. /\ s \in alive /\ 1 \in DOMAIN events
          /\ s \in events[1].to /\ events[1].reply = <<r, n>>
          /\ r = s => outcome[s][n] \in Outcomes(kind[s])
      BY <2>1 DEF Hears
    <2>3. /\ data' = [data EXCEPT ![s] = a.data]
          /\ errorString' = [errorString EXCEPT ![s] = a.error]
          /\ isFinished' = [isFinished EXCEPT ![s] = a.finished]
      BY <2>1, Zenon DEF Hears
    <2> HIDE DEF a
    <2>4. CASE x = s
      <3>1. \E i \in DOMAIN events : s \in events[i].to /\ events[i].reply = <<r, n>>
        BY <2>2
      <3>2. a = Answer(s)
        BY <2>2, <2>4, <3>1, SlotSound DEF a
      <3>3. a.data = data[s] /\ a.error = errorString[s] /\ a.finished = isFinished[s]
        BY <3>2 DEF Answer
      <3> QED BY <1>1, <2>3, <2>4, <3>3 DEF TypeInv
    <2>5. CASE x # s
      BY <1>1, <2>3, <2>5 DEF TypeInv
    <2> QED BY <2>4, <2>5
  <1>7. CASE UNCHANGED vars
    BY <1>7 DEF vars, answerVars
  <1> QED BY <1>2, <1>3, <1>4, <1>5, <1>6, <1>7 DEF Next, Loop

(***************************************************************************)
(* For any number of requests, words and pages, and whatever the order in  *)
(* which the network answers: what MediaWiki and Forvo have brought is in  *)
(* the order of the words, each page of MediaWiki at the first of its      *)
(* words, and a reply that can be taken is never left at the front.        *)
(***************************************************************************)
THEOREM AsAskedHolds == Spec => []AsAsked
  BY InitIInv, StepIInv, OrderSound, PTL DEF Spec

(***************************************************************************)
(* A request of MediaWiki or Forvo, or a download, that ends with neither  *)
(* data nor error was answered in full and every answer was empty: a reply *)
(* of another request, a late one or a failed one never passes for that.   *)
(***************************************************************************)
THEOREM NotFoundHolds == Spec => []NotFoundMeansAbsent
  BY InitIInv, StepIInv, NotFoundSound, PTL DEF Spec

(***************************************************************************)
(* A request that has finished, or was cancelled, keeps its answer and its *)
(* error until it is destroyed, whatever it is told of.                    *)
(***************************************************************************)
THEOREM FinalHolds == Spec => FinalWhenFinished
  <1>1. IInv /\ [Next]_vars
        => \A r \in alive \cap alive' : isFinished[r] => /\ data'[r] = data[r]
                                                     /\ errorString'[r] = errorString[r]
                                                     /\ isFinished'[r]
    <2> SUFFICES ASSUME IInv, [Next]_vars, NEW r \in alive \cap alive', isFinished[r]
                 PROVE  data'[r] = data[r] /\ errorString'[r] = errorString[r] /\ isFinished'[r]
      OBVIOUS
    <2>1. /\ data'[r] = data[r] /\ errorString'[r] = errorString[r]
          /\ isFinished'[r] = isFinished[r]
      BY FinalSound
    <2> QED BY <2>1, Zenon
  <1> QED BY <1>1, InitIInv, StepIInv, PTL DEF Spec, FinalWhenFinished

=============================================================================
