-------------------------- MODULE DictServerProofs --------------------------
(***************************************************************************)
(* That finished() is not lost between the worker of a request to a DICT   *)
(* server and cancel(), that nothing a broken connection cut short is      *)
(* stored, and that the worker and the server stay in step, for every      *)
(* setup and whatever the server answers.                                  *)
(***************************************************************************)
EXTENDS DictServer, SequenceTheorems, WellFoundedInduction, TLAPS

(***************************************************************************)
(* cancel() always leaves the flag set; a worker ends without finish()     *)
(* only when it saw the cancellation, which cancel() announces before.     *)
(***************************************************************************)
Inv ==
    /\ emitted \in Nat
    /\ isFinishedFlag \in BOOLEAN /\ isCancelled \in BOOLEAN
    /\ isFinishedFlag => emitted > 0
    /\ gui \in {"cancel", "emit"} => isCancelled
    /\ gui \in {"idle", "destroying", "cancelled", "destroyed"} /\ isCancelled => isFinishedFlag
    /\ gui \in GuiPlaces
    /\ pc = "done" => isFinishedFlag \/ isCancelled

\* The part of the state that Inv is about.
shared == <<isCancelled, isFinishedFlag, emitted, gui>>

LEMMA InitInv == Init => Inv
  <1> SUFFICES ASSUME Init PROVE Inv
    OBVIOUS
  <1>1. /\ pc = "start" /\ gui = "idle" /\ emitted = 0
        /\ isCancelled = FALSE /\ isFinishedFlag = FALSE
    BY DEF Init
  <1> QED BY <1>1 DEF Inv, GuiPlaces

\* The steps of the worker before it closes the socket are not its end and
\* concern nobody else.
LEMMA NextQueryGoesOn ==
  ASSUME NEW g, NEW f, NextQuery(g, f)
  PROVE  pc' \in {"deciding", "ask"}
  BY DEF NextQuery, EndRound

LEMMA EndRoundGoesOn ==
  ASSUME NEW g, NEW f, EndRound(g, f)
  PROVE  pc' \in {"deciding", "ask"}
  BY DEF EndRound

LEMMA TookApart ==
  ASSUME NEW place, Took(place)
  PROVE  UNCHANGED shared /\ pc = place
  BY DEF Took, shared, sharedVars

LEMMA CouldNotReadApart ==
  ASSUME NEW place, CouldNotRead(place)
  PROVE  UNCHANGED shared /\ pc = place
  BY DEF CouldNotRead, shared, sharedVars

LEMMA EndArticleGoesOn == EndArticle => pc' # "done"
  BY NextQueryGoesOn DEF EndArticle

LEMMA ReadingGoesOn ==
  ASSUME Reading
  PROVE  UNCHANGED shared /\ pc' # "done"
  <1>1. CASE ReadReply
    <2>1. PICK place \in {"reply", "afterOk"} :
            /\ Took(place)
            /\ \/ Goto("afterOk", left)
               \/ Goto("matches", line.item + 1)
               \/ Goto("article", line.item)
               \/ NextQuery(got, FALSE)
      BY <1>1 DEF ReadReply
    <2>2. UNCHANGED shared BY <2>1, TookApart
    <2>3. pc' # "done" BY <2>1, NextQueryGoesOn DEF Goto
    <2> QED BY <2>2, <2>3
  <1>2. CASE NoReply
    <2>1. PICK place \in {"reply", "afterOk"} : CouldNotRead(place)
      BY <1>2 DEF NoReply
    <2>2. UNCHANGED shared BY <2>1, CouldNotReadApart
    <2>3. pc' # "done" BY <1>2, EndRoundGoesOn DEF NoReply
    <2> QED BY <2>2, <2>3
  <1>3. CASE ReadMatch
    <2>1. UNCHANGED shared /\ pc = "matches" BY <1>3, TookApart DEF ReadMatch
    <2>2. \/ \E g : NextQuery(g, FALSE)
          \/ pc' = pc
      BY <1>3 DEF ReadMatch
    <2> QED BY <2>1, <2>2, NextQueryGoesOn
  <1>4. CASE NoMatch
    BY <1>4, CouldNotReadApart, NextQueryGoesOn, EndRoundGoesOn DEF NoMatch
  <1>5. CASE ReadArticle
    <2>1. UNCHANGED shared /\ pc = "article" BY <1>5, TookApart DEF ReadArticle
    <2>2. pc' = "mime" \/ NextQuery(got, FALSE) \/ pc' = pc
      BY <1>5 DEF ReadArticle
    <2> QED BY <2>1, <2>2, NextQueryGoesOn
  <1>6. CASE NoArticle BY <1>6, CouldNotReadApart, NextQueryGoesOn DEF NoArticle
  <1>7. CASE ReadMime BY <1>7, TookApart DEF ReadMime, Goto
  <1>8. CASE NoMime BY <1>8, CouldNotReadApart DEF NoMime, Goto
  <1>9. CASE ReadText BY <1>9, TookApart, EndArticleGoesOn DEF ReadText
  <1>10. CASE NoText
    BY <1>10, CouldNotReadApart, NextQueryGoesOn, EndArticleGoesOn DEF NoText
  <1> QED
    BY <1>1, <1>2, <1>3, <1>4, <1>5, <1>6, <1>7, <1>8, <1>9, <1>10 DEF Reading

LEMMA WorkerGoesOn ==
  ASSUME Start \/ Connect \/ Ask \/ Reading \/ Decide \/ Store
  PROVE  UNCHANGED shared /\ pc' # "done"
  <1>1. CASE Start BY <1>1 DEF Start, shared, sharedVars
  <1>2. CASE Connect BY <1>2 DEF Connect, shared, sharedVars
  <1>3. CASE Ask BY <1>3, EndRoundGoesOn DEF Ask, shared, sharedVars
  <1>4. CASE Reading BY <1>4, ReadingGoesOn
  <1>5. CASE Decide BY <1>5 DEF Decide, shared, sharedVars
  <1>6. CASE Store BY <1>6 DEF Store, shared
  <1> QED BY <1>1, <1>2, <1>3, <1>4, <1>5, <1>6

LEMMA InvStep == Inv /\ [Next]_vars => Inv'
  <1> SUFFICES ASSUME Inv, [Next]_vars PROVE Inv'
    OBVIOUS
  <1>1. CASE Start \/ Connect \/ Ask \/ Reading \/ Decide \/ Store
    BY <1>1, WorkerGoesOn DEF Inv, shared
  <1>2. CASE Close BY <1>2 DEF Close, Inv, sharedVars
  <1>3. CASE FinishTest BY <1>3 DEF FinishTest, Inv, sharedVars
  <1>4. CASE FinishEmit BY <1>4 DEF FinishEmit, Inv
  <1>5. CASE ServerCloses BY <1>5 DEF ServerCloses, Inv, sharedVars
  <1>6. CASE Cancel BY <1>6 DEF Cancel, Inv, GuiPlaces
  <1>7. CASE CancelTest BY <1>7 DEF CancelTest, Inv, sharedVars, GuiPlaces
  <1>8. CASE CancelEmit BY <1>8 DEF CancelEmit, Inv, GuiPlaces
  <1>9. CASE Destroy BY <1>9 DEF Destroy, Inv, sharedVars, GuiPlaces
  <1>10. CASE Destroyed BY <1>10 DEF Destroyed, Inv, sharedVars, GuiPlaces
  <1>11. CASE UNCHANGED vars BY <1>11 DEF vars, sharedVars, Inv
  <1> QED
    BY <1>1, <1>2, <1>3, <1>4, <1>5, <1>6, <1>7, <1>8, <1>9, <1>10, <1>11
       DEF Next, Worker, Finishing, Gui

(***************************************************************************)
(* For every setup, server and moment of cancel(): once the worker and     *)
(* cancel() are through, the request is finished and has said so.          *)
(***************************************************************************)
THEOREM FinishNotLostHolds == Spec => []FinishNotLost
  <1>1. Inv => FinishNotLost BY DEF Inv, FinishNotLost, GuiPlaces
  <1> QED BY <1>1, InitInv, InvStep, PTL DEF Spec

-----------------------------------------------------------------------------
(***************************************************************************)
(* Until the worker has decided to store what it read, `result' is empty;  *)
(* it decides so only without a failure, and from then on nothing is read. *)
(* In a word search a failure is either not there or has ended the search, *)
(* in the step in which it happened.                                       *)
(***************************************************************************)
Late == {"deciding", "closing", "finish", "emit", "done"}
Stored == {"closing", "finish", "emit", "done"}

BrokenInv ==
    /\ pc \in WorkerPlaces
    /\ failing \in BOOLEAN
    /\ pc \notin Stored => result = <<>>
    /\ pc = "storing" => ~failing
    /\ failing => result = <<>>
    /\ kind = "match" => (failing => pc \in Late) /\ pc \notin {"article", "mime", "text"}

\* A line was read: no failure, and nothing stored.
LEMMA TookSound ==
  ASSUME BrokenInv, NEW place \in {"reply", "afterOk", "matches", "article", "mime", "text"},
         Took(place)
  PROVE  failing' = FALSE /\ UNCHANGED <<kind, result>> /\ result = <<>> /\ pc = place
  BY DEF Took, BrokenInv, Stored, sharedVars

\* No line was read: a failure, unless the request was cancelled.
LEMMA CouldNotReadSound ==
  ASSUME BrokenInv, NEW place \in {"reply", "afterOk", "matches", "article", "mime", "text"},
         CouldNotRead(place)
  PROVE  failing' \in BOOLEAN /\ UNCHANGED <<kind, result>> /\ result = <<>> /\ pc = place
  BY DEF CouldNotRead, BrokenInv, Stored, sharedVars

\* The ways on from a reading place.
LEMMA FailureEndsRound ==
  ASSUME NEW g, NEW f \in BOOLEAN, EndRound(g, f)
  PROVE  pc' \in {"deciding", "ask"} /\ (f => pc' = "deciding")
  BY DEF EndRound

LEMMA ReadingSound ==
  ASSUME BrokenInv, Reading
  PROVE  BrokenInv'
  <1> USE DEF WorkerPlaces, Stored, Late
  <1>1. CASE ReadReply
    <2>1. PICK place \in {"reply", "afterOk"} :
            /\ Took(place)
            /\ \/ Goto("afterOk", left)
               \/ Goto("matches", line.item + 1)
               \/ kind = "define" /\ Goto("article", line.item)
               \/ NextQuery(got, FALSE)
      BY <1>1 DEF ReadReply
    <2>2. pc' \in {"afterOk", "matches", "article", "deciding", "ask"}
          /\ (kind = "match" => pc' # "article")
      BY <2>1, NextQueryGoesOn DEF Goto, BrokenInv
    <2> QED  BY <2>1, <2>2, TookSound DEF BrokenInv
  <1>2. CASE NoReply
    <2>1. PICK place \in {"reply", "afterOk"} : CouldNotRead(place)
      BY <1>2 DEF NoReply
    <2>2. failing' \in BOOLEAN /\ UNCHANGED <<kind, result>> /\ result = <<>>
      BY <2>1, CouldNotReadSound
    <2>3. pc' \in {"deciding", "ask"} /\ (failing' => pc' = "deciding")
      BY <1>2, <2>2, FailureEndsRound DEF NoReply
    <2> QED  BY <2>2, <2>3 DEF BrokenInv
  <1>3. CASE ReadMatch
    <2>1. failing' = FALSE /\ UNCHANGED <<kind, result>> /\ result = <<>> /\ pc = "matches"
      BY <1>3, TookSound DEF ReadMatch
    <2>2. (\E g : NextQuery(g, FALSE)) \/ pc' = pc
      BY <1>3 DEF ReadMatch
    <2>3. pc' \in {"deciding", "ask", "matches"}
      BY <2>1, <2>2, NextQueryGoesOn
    <2> QED  BY <2>1, <2>3 DEF BrokenInv
  <1>4. CASE NoMatch
    <2>1. failing' \in BOOLEAN /\ UNCHANGED <<kind, result>> /\ result = <<>>
      BY <1>4, CouldNotReadSound DEF NoMatch
    <2>2. IF isCancelled \/ failing' THEN EndRound(got, failing') ELSE NextQuery(got, FALSE)
      BY <1>4 DEF NoMatch
    <2>3. pc' \in {"deciding", "ask"} /\ (failing' => pc' = "deciding")
      BY <2>1, <2>2, FailureEndsRound, NextQueryGoesOn
    <2> QED  BY <2>1, <2>3 DEF BrokenInv
  <1>5. CASE ReadArticle
    <2>1. failing' = FALSE /\ UNCHANGED <<kind, result>> /\ result = <<>> /\ pc = "article"
      BY <1>5, TookSound DEF ReadArticle
    <2>2. pc' = "mime" \/ NextQuery(got, FALSE) \/ pc' = pc
      BY <1>5 DEF ReadArticle
    <2>3. pc' \in {"mime", "deciding", "ask", "article"} /\ kind # "match"
      BY <2>1, <2>2, NextQueryGoesOn DEF BrokenInv
    <2> QED  BY <2>1, <2>3 DEF BrokenInv
  <1>6. CASE NoArticle
    <2>1. failing' \in BOOLEAN /\ UNCHANGED <<kind, result>> /\ result = <<>> /\ pc = "article"
      BY <1>6, CouldNotReadSound DEF NoArticle
    <2>2. pc' \in {"deciding", "ask"} /\ kind # "match"
      BY <1>6, <2>1, NextQueryGoesOn DEF NoArticle, BrokenInv
    <2> QED  BY <2>1, <2>2 DEF BrokenInv
  <1>7. CASE ReadMime
    <2>1. failing' = FALSE /\ UNCHANGED <<kind, result>> /\ result = <<>> /\ pc = "mime"
      BY <1>7, TookSound DEF ReadMime
    <2> QED  BY <1>7, <2>1 DEF ReadMime, Goto, BrokenInv
  <1>8. CASE NoMime
    <2>1. failing' \in BOOLEAN /\ UNCHANGED <<kind, result>> /\ result = <<>> /\ pc = "mime"
      BY <1>8, CouldNotReadSound DEF NoMime
    <2> QED  BY <1>8, <2>1 DEF NoMime, Goto, BrokenInv
  <1>9. ASSUME EndArticle PROVE pc' \in {"deciding", "ask", "article"}
    BY <1>9, NextQueryGoesOn DEF EndArticle
  <1>10. CASE ReadText
    <2>1. failing' = FALSE /\ UNCHANGED <<kind, result>> /\ result = <<>> /\ pc = "text"
      BY <1>10, TookSound DEF ReadText
    <2>2. pc' \in {"deciding", "ask", "article", "text"} /\ kind # "match"
      BY <1>9, <1>10, <2>1 DEF ReadText, BrokenInv
    <2> QED  BY <2>1, <2>2 DEF BrokenInv
  <1>11. CASE NoText
    <2>1. failing' \in BOOLEAN /\ UNCHANGED <<kind, result>> /\ result = <<>> /\ pc = "text"
      BY <1>11, CouldNotReadSound DEF NoText
    <2>2. pc' \in {"deciding", "ask", "article"} /\ kind # "match"
      BY <1>9, <1>11, <2>1, NextQueryGoesOn DEF NoText, BrokenInv
    <2> QED  BY <2>1, <2>2 DEF BrokenInv
  <1> QED
    BY <1>1, <1>2, <1>3, <1>4, <1>5, <1>6, <1>7, <1>8, <1>10, <1>11 DEF Reading

LEMMA BrokenStep == BrokenInv /\ [Next]_vars => BrokenInv'
  <1> SUFFICES ASSUME BrokenInv, [Next]_vars PROVE BrokenInv'
    OBVIOUS
  <1> USE DEF WorkerPlaces, Stored, Late
  <1>1. CASE Start BY <1>1 DEF Start, BrokenInv, sharedVars
  <1>2. CASE Connect
    <2>1. UNCHANGED <<kind, result>> /\ result = <<>> /\ pc = "connect"
      BY <1>2 DEF Connect, BrokenInv, sharedVars
    <2>2. \/ failing' = failing /\ pc' \in {"ask", "connect"}
          \/ failing' = ~isCancelled /\ pc' = "closing"
      BY <1>2 DEF Connect
    <2>3. failing \in BOOLEAN /\ (kind = "match" => ~failing)
      BY <2>1 DEF BrokenInv
    <2>4. CASE failing' = failing /\ pc' \in {"ask", "connect"}
      BY <2>1, <2>3, <2>4 DEF BrokenInv
    <2>5. CASE failing' = ~isCancelled /\ pc' = "closing"
      <3>1. (~isCancelled) \in BOOLEAN
        OBVIOUS
      <3>2. failing' \in BOOLEAN
        BY <2>5, <3>1
      <3> QED  BY <2>1, <2>5, <3>2 DEF BrokenInv
    <2> QED  BY <2>2, <2>4, <2>5
  <1>3. CASE Ask
    <2>1. UNCHANGED <<kind, failing, result>> /\ result = <<>> /\ failing \in BOOLEAN
          /\ (kind = "match" => ~failing)
      BY <1>3 DEF Ask, BrokenInv, sharedVars
    <2>2. pc' \in {"deciding", "ask", "reply"}
      BY <1>3, EndRoundGoesOn DEF Ask
    <2> QED  BY <2>1, <2>2 DEF BrokenInv
  <1>4. CASE Reading BY <1>4, ReadingSound
  <1>5. CASE Decide BY <1>5 DEF Decide, BrokenInv, localVars, sharedVars
  <1>6. CASE Store BY <1>6 DEF Store, BrokenInv, localVars
  <1>7. CASE Close BY <1>7 DEF Close, BrokenInv, sharedVars
  <1>8. CASE Finishing
    BY <1>8 DEF Finishing, FinishTest, FinishEmit, BrokenInv, localVars, sharedVars
  <1>9. CASE ServerCloses BY <1>9 DEF ServerCloses, BrokenInv, localVars, sharedVars
  <1>10. CASE Gui
    BY <1>10 DEF Gui, Cancel, CancelTest, CancelEmit, Destroy, Destroyed, BrokenInv,
                 localVars, sharedVars
  <1>11. CASE UNCHANGED vars BY <1>11 DEF vars, localVars, sharedVars, BrokenInv
  <1> QED
    BY <1>1, <1>2, <1>3, <1>4, <1>5, <1>6, <1>7, <1>8, <1>9, <1>10, <1>11 DEF Next, Worker

(***************************************************************************)
(* Wherever the connection breaks: a word search stores nothing of it, and *)
(* asks nothing more.                                                      *)
(***************************************************************************)
THEOREM NoneFromBrokenHolds == Spec => []NoneFromBroken
  <1>1. Init => BrokenInv
    BY DEF Init, BrokenInv, WorkerPlaces, Stored
  <1>2. BrokenInv => NoneFromBroken
    BY DEF BrokenInv, NoneFromBroken, Late
  <1> QED  BY <1>1, <1>2, BrokenStep, PTL DEF Spec
-----------------------------------------------------------------------------
(***************************************************************************)
(* Joining and removing duplicates go part by part, word by word.          *)
(***************************************************************************)
LEMMA SetInduction ==
  ASSUME NEW S, 0 \in S, \A n \in Nat : n \in S => n + 1 \in S
  PROVE  Nat \subseteq S
  <1> DEFINE T == Nat \ S
  <1> SUFFICES ASSUME T # {} PROVE FALSE
    OBVIOUS
  <1>1. T \subseteq Nat
    OBVIOUS
  <1>2. IsWellFoundedOn(OpToRel(<, Nat), Nat)
    BY Zenon, NatLessThanWellFounded
  <1> HIDE DEF T
  <1>3. PICK x \in T : \A y \in T : ~(<<y, x>> \in OpToRel(<, Nat))
    BY <1>1, <1>2, WFMin
  <1>4. x \in Nat /\ x # 0
    BY <1>1 DEF T
  <1>5. x - 1 \in Nat /\ x - 1 < x /\ (x - 1) + 1 = x
    BY <1>4
  <1>6. x - 1 \notin T
    BY <1>3, <1>4, <1>5 DEF OpToRel
  <1> QED BY <1>3, <1>4, <1>5, <1>6 DEF T

\* Kept folded where only the order of the steps matters.
Then(s, t) == s \o t

\* u joins the first parts of p, for each number of them up to n.
JoinsTo(u, p, n) == u[0] = <<>> /\ \A m \in 1 .. n : u[m] = Then(u[m - 1], p[m])

LEMMA JoinsExists ==
  ASSUME NEW p, NEW n \in Nat
  PROVE  \E u : JoinsTo(u, p, n)
  <1> DEFINE S == {m \in Nat : \E u : JoinsTo(u, p, m)}
  <1>1. 0 \in S
    <2> DEFINE u == [m \in 0 .. 0 |-> <<>>]
    <2>1. JoinsTo(u, p, 0)
      BY DEF JoinsTo
    <2> QED BY <2>1
  <1>2. ASSUME NEW m \in Nat, m \in S PROVE m + 1 \in S
    <2>1. PICK u : JoinsTo(u, p, m)
      BY <1>2
    <2> DEFINE v == [j \in 0 .. m + 1 |-> IF j = m + 1 THEN Then(u[m], p[m + 1]) ELSE u[j]]
    <2>2. v[0] = u[0] /\ v[m + 1] = Then(u[m], p[m + 1]) /\ v[m] = u[m]
      OBVIOUS
    <2>3. ASSUME NEW j \in 1 .. m + 1, j # m + 1 PROVE v[j] = Then(v[j - 1], p[j])
      <3>1. j \in 1 .. m /\ j \in 0 .. m + 1 /\ j - 1 \in 0 .. m + 1 /\ j - 1 # m + 1
        BY <2>3
      <3>2. v[j] = u[j] /\ v[j - 1] = u[j - 1]
        BY <2>3, <3>1
      <3> QED BY <2>1, <3>1, <3>2, Zenon DEF JoinsTo
    <2>4. (m + 1) - 1 = m
      OBVIOUS
    <2> HIDE DEF v
    <2>5. u[0] = <<>>
      BY <2>1 DEF JoinsTo
    <2>6. \A j \in 1 .. m + 1 : v[j] = Then(v[j - 1], p[j])
      BY <2>2, <2>3, <2>4
    <2>7. JoinsTo(v, p, m + 1)
      BY <2>2, <2>5, <2>6, Zenon DEF JoinsTo
    <2> QED BY <2>7
  <1> HIDE DEF S
  <1>3. n \in S
    BY <1>1, <1>2, SetInduction
  <1> QED BY <1>3 DEF S

LEMMA JoinedIs ==
  ASSUME NEW p, Len(p) \in Nat
  PROVE  \E u : JoinsTo(u, p, Len(p)) /\ Joined(p) = u[Len(p)]
  <1> DEFINE L == Len(p)
             body(g) == [n \in 0 .. L |-> IF n = 0 THEN <<>> ELSE Then(g[n - 1], p[n])]
  <1>1. \E a : a = (CHOOSE g : g = body(g)) /\ Joined(p) = a[L]
    BY Zenon DEF Joined, Then
  <1>2. PICK a : a = (CHOOSE g : g = body(g)) /\ Joined(p) = a[L]
    BY <1>1
  <1>3. \E g : g = body(g)
    <2> HIDE DEF L
    <2>1. PICK u : JoinsTo(u, p, L)
      BY JoinsExists DEF L
    <2> DEFINE h == [m \in 0 .. L |-> u[m]]
    <2>2. L \in Nat
      BY DEF L
    <2>3. \A m \in 0 .. L : u[m] = IF m = 0 THEN <<>> ELSE Then(u[m - 1], p[m])
      <3>1. SUFFICES ASSUME NEW m \in 0 .. L
                     PROVE  u[m] = IF m = 0 THEN <<>> ELSE Then(u[m - 1], p[m])
        OBVIOUS
      <3>2. m = 0 \/ m \in 1 .. L
        BY <2>2
      <3> QED BY <2>1, <3>2, Zenon DEF JoinsTo
    <2>4. \A m \in 0 .. L : m # 0 => m - 1 \in 0 .. L
      BY <2>2
    <2>5. \A m \in 0 .. L : h[m] = u[m]
      OBVIOUS
    <2> HIDE DEF h
    <2>6. \A m \in 0 .. L : h[m] = IF m = 0 THEN <<>> ELSE Then(h[m - 1], p[m])
      BY <2>3, <2>4, <2>5
    <2>7. h = [m \in 0 .. L |-> h[m]]
      BY DEF h
    <2>8. h = body(h)
      BY <2>6, <2>7
    <2> QED BY <2>8
  <1>4. a = body(a)
    BY <1>2, <1>3, Zenon
  <1>5. L \in Nat
    OBVIOUS
  <1> HIDE DEF L
  <1>6. a[0] = <<>> /\ \A m \in 1 .. L : a[m] = Then(a[m - 1], p[m])
    BY <1>4, <1>5
  <1> QED BY <1>2, <1>6 DEF JoinsTo, L

\* What is joined of the first parts does not depend on the others.
LEMMA JoinsAgree ==
  ASSUME NEW n \in Nat, NEW p, NEW q, \A m \in 1 .. n : p[m] = q[m],
         NEW u, JoinsTo(u, p, n), NEW v, JoinsTo(v, q, n)
  PROVE  u[n] = v[n]
  <1> DEFINE S == {m \in Nat : m <= n => u[m] = v[m]}
  <1>1. 0 \in S
    BY DEF JoinsTo
  <1>2. ASSUME NEW m \in Nat, m \in S PROVE m + 1 \in S
    <2>1. CASE m + 1 <= n
      <3>1. m + 1 \in 1 .. n /\ (m + 1) - 1 = m /\ u[m] = v[m]
        BY <1>2, <2>1
      <3>2. u[m + 1] = Then(u[m], p[m + 1]) /\ v[m + 1] = Then(v[m], q[m + 1])
        BY <3>1 DEF JoinsTo
      <3> QED BY <3>1, <3>2
    <2> QED BY <2>1
  <1> HIDE DEF S
  <1>3. n \in S
    BY <1>1, <1>2, SetInduction
  <1> QED BY <1>3 DEF S

LEMMA JoinedEmpty == Joined(<<>>) = <<>>
  <1>1. Len(<<>>) = 0
    BY EmptySeq
  <1> QED BY <1>1, JoinedIs DEF JoinsTo

LEMMA JoinedAppend ==
  ASSUME NEW T, NEW p \in Seq(T), NEW x \in T
  PROVE  Joined(Append(p, x)) = Joined(p) \o x
  <1> DEFINE q == Append(p, x)
             n == Len(p)
  <1>1. /\ n \in Nat /\ Len(q) = n + 1 /\ q[n + 1] = x
        /\ \A m \in 1 .. n : p[m] = q[m]
    BY AppendProperties, LenProperties
  <1> HIDE DEF q
  <1>2. PICK u : JoinsTo(u, p, Len(p)) /\ Joined(p) = u[Len(p)]
    BY <1>1, JoinedIs
  <1>3. Len(q) \in Nat
    BY <1>1
  <1>4. PICK v : JoinsTo(v, q, Len(q)) /\ Joined(q) = v[Len(q)]
    BY <1>3, JoinedIs
  <1> HIDE DEF n
  <1>5. JoinsTo(v, q, n) /\ v[n + 1] = Then(v[n], q[n + 1])
    <2>1. n + 1 \in 1 .. n + 1 /\ (n + 1) - 1 = n /\ \A m \in 1 .. n : m \in 1 .. n + 1
      BY <1>1
    <2> QED BY <1>1, <1>4, <2>1 DEF JoinsTo
  <1>6. u[n] = v[n]
    BY <1>1, <1>2, <1>5, JoinsAgree DEF n
  <1> QED BY <1>1, <1>2, <1>4, <1>5, <1>6 DEF n, q, Then

LEMMA JoinedType ==
  ASSUME NEW T, NEW p \in Seq(Seq(T))
  PROVE  Joined(p) \in Seq(T)
  <1> DEFINE S == {n \in Nat : \A s \in Seq(Seq(T)) : Len(s) = n => Joined(s) \in Seq(T)}
  <1>1. 0 \in S
    BY EmptySeq, JoinedEmpty
  <1>2. ASSUME NEW n \in Nat, n \in S PROVE n + 1 \in S
    <2> SUFFICES ASSUME NEW s \in Seq(Seq(T)), Len(s) = n + 1 PROVE Joined(s) \in Seq(T)
      OBVIOUS
    <2>1. s # <<>>
      BY EmptySeq
    <2>2. PICK t \in Seq(Seq(T)), e \in Seq(T) : s = Append(t, e)
      BY <2>1, SequenceEmptyOrAppend
    <2>3. Len(t) = n
      BY <2>2, LenProperties, AppendProperties
    <2>4. Joined(t) \in Seq(T)
      BY <1>2, <2>3
    <2>5. Joined(s) = Joined(t) \o e
      BY <2>2, JoinedAppend
    <2> QED BY <2>4, <2>5, ConcatProperties
  <1> HIDE DEF S
  <1>3. Len(p) \in Nat
    BY LenProperties
  <1>4. Len(p) \in S
    BY <1>1, <1>2, <1>3, SetInduction
  <1> QED BY <1>4 DEF S
\* u keeps the different ones of the first words of p.
KeepsTo(u, p, n) == u[0] = <<>> /\ \A m \in 1 .. n : u[m] = Added(u[m - 1], p[m])

LEMMA KeepsExists ==
  ASSUME NEW p, NEW n \in Nat
  PROVE  \E u : KeepsTo(u, p, n)
  <1> DEFINE S == {m \in Nat : \E u : KeepsTo(u, p, m)}
  <1>1. 0 \in S
    <2> DEFINE u == [m \in 0 .. 0 |-> <<>>]
    <2>1. KeepsTo(u, p, 0)
      BY DEF KeepsTo
    <2> QED BY <2>1
  <1>2. ASSUME NEW m \in Nat, m \in S PROVE m + 1 \in S
    <2>1. PICK u : KeepsTo(u, p, m)
      BY <1>2
    <2> DEFINE v == [j \in 0 .. m + 1 |-> IF j = m + 1 THEN Added(u[m], p[m + 1]) ELSE u[j]]
    <2>2. v[0] = u[0] /\ v[m + 1] = Added(u[m], p[m + 1]) /\ v[m] = u[m]
      OBVIOUS
    <2>3. ASSUME NEW j \in 1 .. m + 1, j # m + 1 PROVE v[j] = Added(v[j - 1], p[j])
      <3>1. j \in 1 .. m /\ j \in 0 .. m + 1 /\ j - 1 \in 0 .. m + 1 /\ j - 1 # m + 1
        BY <2>3
      <3>2. v[j] = u[j] /\ v[j - 1] = u[j - 1]
        BY <2>3, <3>1
      <3> QED BY <2>1, <3>1, <3>2, Zenon DEF KeepsTo
    <2>4. (m + 1) - 1 = m
      OBVIOUS
    <2> HIDE DEF v
    <2>5. u[0] = <<>>
      BY <2>1 DEF KeepsTo
    <2>6. \A j \in 1 .. m + 1 : v[j] = Added(v[j - 1], p[j])
      BY <2>2, <2>3, <2>4
    <2>7. KeepsTo(v, p, m + 1)
      BY <2>2, <2>5, <2>6, Zenon DEF KeepsTo
    <2> QED BY <2>7
  <1> HIDE DEF S
  <1>3. n \in S
    BY <1>1, <1>2, SetInduction
  <1> QED BY <1>3 DEF S

LEMMA DistinctIs ==
  ASSUME NEW p, Len(p) \in Nat
  PROVE  \E u : KeepsTo(u, p, Len(p)) /\ Distinct(p) = u[Len(p)]
  <1> DEFINE L == Len(p)
             body(g) == [n \in 0 .. L |-> IF n = 0 THEN <<>> ELSE Added(g[n - 1], p[n])]
  <1>1. \E a : a = (CHOOSE g : g = body(g)) /\ Distinct(p) = a[L]
    BY Zenon DEF Distinct
  <1>2. PICK a : a = (CHOOSE g : g = body(g)) /\ Distinct(p) = a[L]
    BY <1>1
  <1>3. \E g : g = body(g)
    <2> HIDE DEF L
    <2>1. PICK u : KeepsTo(u, p, L)
      BY KeepsExists DEF L
    <2> DEFINE h == [m \in 0 .. L |-> u[m]]
    <2>2. L \in Nat
      BY DEF L
    <2>3. \A m \in 0 .. L : u[m] = IF m = 0 THEN <<>> ELSE Added(u[m - 1], p[m])
      <3>1. SUFFICES ASSUME NEW m \in 0 .. L
                     PROVE  u[m] = IF m = 0 THEN <<>> ELSE Added(u[m - 1], p[m])
        OBVIOUS
      <3>2. m = 0 \/ m \in 1 .. L
        BY <2>2
      <3> QED BY <2>1, <3>2, Zenon DEF KeepsTo
    <2>4. \A m \in 0 .. L : m # 0 => m - 1 \in 0 .. L
      BY <2>2
    <2>5. \A m \in 0 .. L : h[m] = u[m]
      OBVIOUS
    <2> HIDE DEF h
    <2>6. \A m \in 0 .. L : h[m] = IF m = 0 THEN <<>> ELSE Added(h[m - 1], p[m])
      BY <2>3, <2>4, <2>5
    <2>7. h = [m \in 0 .. L |-> h[m]]
      BY DEF h
    <2>8. h = body(h)
      BY <2>6, <2>7
    <2> QED BY <2>8
  <1>4. a = body(a)
    BY <1>2, <1>3, Zenon
  <1>5. L \in Nat
    OBVIOUS
  <1> HIDE DEF L
  <1>6. a[0] = <<>> /\ \A m \in 1 .. L : a[m] = Added(a[m - 1], p[m])
    BY <1>4, <1>5
  <1> QED BY <1>2, <1>6 DEF KeepsTo, L

\* What is kept of the first words does not depend on the others.
LEMMA KeepsAgree ==
  ASSUME NEW n \in Nat, NEW p, NEW q, \A m \in 1 .. n : p[m] = q[m],
         NEW u, KeepsTo(u, p, n), NEW v, KeepsTo(v, q, n)
  PROVE  u[n] = v[n]
  <1> DEFINE S == {m \in Nat : m <= n => u[m] = v[m]}
  <1>1. 0 \in S
    BY DEF KeepsTo
  <1>2. ASSUME NEW m \in Nat, m \in S PROVE m + 1 \in S
    <2>1. CASE m + 1 <= n
      <3>1. m + 1 \in 1 .. n /\ (m + 1) - 1 = m /\ u[m] = v[m]
        BY <1>2, <2>1
      <3>2. u[m + 1] = Added(u[m], p[m + 1]) /\ v[m + 1] = Added(v[m], q[m + 1])
        BY <3>1 DEF KeepsTo
      <3> QED BY <3>1, <3>2
    <2> QED BY <2>1
  <1> HIDE DEF S
  <1>3. n \in S
    BY <1>1, <1>2, SetInduction
  <1> QED BY <1>3 DEF S

LEMMA DistinctEmpty == Distinct(<<>>) = <<>>
  <1>1. Len(<<>>) = 0
    BY EmptySeq
  <1> QED BY <1>1, DistinctIs DEF KeepsTo

LEMMA DistinctAppend ==
  ASSUME NEW T, NEW p \in Seq(T), NEW x \in T
  PROVE  Distinct(Append(p, x)) = Added(Distinct(p), x)
  <1> DEFINE q == Append(p, x)
             n == Len(p)
  <1>1. /\ n \in Nat /\ Len(q) = n + 1 /\ q[n + 1] = x
        /\ \A m \in 1 .. n : p[m] = q[m]
    BY AppendProperties, LenProperties
  <1> HIDE DEF q
  <1>2. PICK u : KeepsTo(u, p, Len(p)) /\ Distinct(p) = u[Len(p)]
    BY <1>1, DistinctIs
  <1>3. Len(q) \in Nat
    BY <1>1
  <1>4. PICK v : KeepsTo(v, q, Len(q)) /\ Distinct(q) = v[Len(q)]
    BY <1>3, DistinctIs
  <1> HIDE DEF n
  <1>5. KeepsTo(v, q, n) /\ v[n + 1] = Added(v[n], q[n + 1])
    <2>1. n + 1 \in 1 .. n + 1 /\ (n + 1) - 1 = n /\ \A m \in 1 .. n : m \in 1 .. n + 1
      BY <1>1
    <2> QED BY <1>1, <1>4, <2>1 DEF KeepsTo
  <1>6. u[n] = v[n]
    BY <1>1, <1>2, <1>5, KeepsAgree DEF n
  <1> QED BY <1>1, <1>2, <1>4, <1>5, <1>6 DEF n, q


\* What is distinct stays so.
LEMMA DistinctTwice ==
  ASSUME NEW T, NEW p \in Seq(T)
  PROVE  Distinct(p) \in Seq(T) /\ Distinct(Distinct(p)) = Distinct(p)
  <1> DEFINE Right(s) == Distinct(s) \in Seq(T) /\ Distinct(Distinct(s)) = Distinct(s)
             S == {n \in Nat : \A s \in Seq(T) : Len(s) = n => Right(s)}
  <1>1. 0 \in S
    BY EmptySeq, DistinctEmpty
  <1>2. ASSUME NEW n \in Nat, n \in S PROVE n + 1 \in S
    <2> SUFFICES ASSUME NEW s \in Seq(T), Len(s) = n + 1 PROVE Right(s)
      OBVIOUS
    <2>1. s # <<>>
      BY EmptySeq
    <2>2. PICK t \in Seq(T), e \in T : s = Append(t, e)
      BY <2>1, SequenceEmptyOrAppend
    <2>3. Len(t) = n
      BY <2>2, LenProperties, AppendProperties
    <2>4. Distinct(t) \in Seq(T) /\ Distinct(Distinct(t)) = Distinct(t)
      BY <1>2, <2>3
    <2>5. Distinct(s) = Added(Distinct(t), e)
      BY <2>2, DistinctAppend
    <2>6. CASE \E i \in DOMAIN Distinct(t) : Distinct(t)[i] = e
      BY <2>4, <2>5, <2>6 DEF Added
    <2>7. CASE ~ \E i \in DOMAIN Distinct(t) : Distinct(t)[i] = e
      <3>1. Distinct(s) = Append(Distinct(t), e)
        BY <2>5, <2>7 DEF Added
      <3>2. Distinct(s) \in Seq(T)
        BY <2>4, <3>1, AppendProperties
      <3>3. Distinct(Append(Distinct(t), e)) = Added(Distinct(Distinct(t)), e)
        BY <2>4, DistinctAppend
      <3>4. Distinct(Distinct(s)) = Added(Distinct(t), e)
        BY <2>4, <3>1, <3>3
      <3> QED BY <2>5, <3>2, <3>4
    <2> QED BY <2>6, <2>7
  <1> HIDE DEF S
  <1>3. Len(p) \in Nat
    BY LenProperties
  <1>4. Len(p) \in S
    BY <1>1, <1>2, <1>3, SetInduction
  <1> QED BY <1>4 DEF S

\* Parts of five lines each: where a line of a part comes to stand.
LEMMA JoinedFives ==
  ASSUME NEW T, NEW p \in Seq(Seq(T)), \A a \in 1 .. Len(p) : Len(p[a]) = 5
  PROVE  /\ Len(Joined(p)) = 5 * Len(p)
         /\ \A a \in 1 .. Len(p), m \in 1 .. 5 : Joined(p)[5 * (a - 1) + m] = p[a][m]
  <1> DEFINE Fives(s) == \A a \in 1 .. Len(s) : Len(s[a]) = 5
             Right(s) == /\ Len(Joined(s)) = 5 * Len(s)
                         /\ \A a \in 1 .. Len(s), m \in 1 .. 5 :
                                Joined(s)[5 * (a - 1) + m] = s[a][m]
             S == {n \in Nat : \A s \in Seq(Seq(T)) : Len(s) = n /\ Fives(s) => Right(s)}
  <1>1. 0 \in S
    <2> SUFFICES ASSUME NEW s \in Seq(Seq(T)), Len(s) = 0 PROVE Right(s)
      OBVIOUS
    <2>1. s = <<>>
      BY EmptySeq
    <2>2. Len(Joined(s)) = 0
      BY <2>1, EmptySeq, JoinedEmpty
    <2> QED BY <2>2
  <1>2. ASSUME NEW n \in Nat, n \in S PROVE n + 1 \in S
    <2> SUFFICES ASSUME NEW s \in Seq(Seq(T)), Len(s) = n + 1, Fives(s) PROVE Right(s)
      OBVIOUS
    <2>1. s # <<>>
      BY EmptySeq
    <2>2. PICK t \in Seq(Seq(T)), e \in Seq(T) : s = Append(t, e)
      BY <2>1, SequenceEmptyOrAppend
    <2>3. Len(t) = n /\ s[n + 1] = e /\ \A a \in 1 .. n : s[a] = t[a]
      BY <2>2, LenProperties, AppendProperties
    <2>4. Fives(t) /\ Len(e) = 5
      BY <2>3
    <2>5. Right(t)
      BY <1>2, <2>3, <2>4
    <2>6. Joined(t) \in Seq(T)
      BY JoinedType
    <2>7. Joined(s) = Joined(t) \o e
      BY <2>2, JoinedAppend
    <2>8. /\ Len(Joined(s)) = 5 * n + 5
          /\ \A i \in 1 .. 5 * n + 5 :
                Joined(s)[i] = IF i <= 5 * n THEN Joined(t)[i] ELSE e[i - 5 * n]
      <3> DEFINE j == Joined(t)
      <3>1. /\ Len(j \o e) = Len(j) + Len(e)
            /\ \A i \in 1 .. Len(j) + Len(e) :
                  (j \o e)[i] = IF i <= Len(j) THEN j[i] ELSE e[i - Len(j)]
        BY <2>6, ConcatProperties
      <3>2. Len(j) = 5 * n /\ Len(e) = 5
        BY <2>3, <2>4, <2>5
      <3> HIDE DEF j
      <3> QED BY <2>7, <3>1, <3>2 DEF j
    <2>9. ASSUME NEW a \in 1 .. n + 1, NEW m \in 1 .. 5
          PROVE  Joined(s)[5 * (a - 1) + m] = s[a][m]
      <3>1. 5 * (a - 1) + m \in 1 .. 5 * n + 5
        OBVIOUS
      <3>2. CASE a <= n
        <4>1. 5 * (a - 1) + m <= 5 * n /\ a \in 1 .. n
          BY <3>2
        <4>2. Joined(t)[5 * (a - 1) + m] = t[a][m]
          BY <2>3, <2>5, <4>1
        <4> QED BY <2>3, <2>8, <3>1, <4>1, <4>2
      <3>3. CASE a = n + 1
        <4>1. 5 * (a - 1) + m = 5 * n + m /\ ~(5 * n + m <= 5 * n) /\ (5 * n + m) - 5 * n = m
          BY <3>3
        <4> QED BY <2>3, <2>8, <3>1, <3>3, <4>1
      <3> QED BY <3>2, <3>3
    <2> QED BY <2>8, <2>9
  <1> HIDE DEF S
  <1>3. Len(p) \in Nat
    BY LenProperties
  <1>4. Len(p) \in S
    BY <1>1, <1>2, <1>3, SetInduction
  <1> QED BY <1>4 DEF S

-----------------------------------------------------------------------------
(***************************************************************************)
(* What the server sends, and what is shown of it.                         *)
(***************************************************************************)
Shows == Nat \X Items \X {"from", "text"}
Codes == {"150", "151", "152", "250", "552", "5xx", "header", "blank", "text", "word", "."}
LineType == [code : Codes, of : Nat, item : Nat \cup Items \cup Shows]

Pair(q, x) == <<<<q, x, "from">>, <<q, x, "text">>>>

AllShown(sent) == Joined([q \in DOMAIN sent |-> Shown(q, sent[q])])

LEMMA LenIs ==
  ASSUME NEW T, NEW f \in Seq(T), NEW n \in Nat, DOMAIN f = 1 .. n
  PROVE  Len(f) = n
  <1>1. Len(f) \in Nat /\ 1 .. Len(f) = 1 .. n
    BY LenProperties
  <1> DEFINE L == Len(f)
  <1>2. L \in Nat /\ 1 .. L = 1 .. n
    BY <1>1
  <1> HIDE DEF L
  <1>3. CASE L < n
    <2>1. n \in 1 .. n /\ n \notin 1 .. L
      BY <1>2, <1>3
    <2> QED BY <1>2, <2>1
  <1>4. CASE n < L
    <2>1. L \in 1 .. L /\ L \notin 1 .. n
      BY <1>2, <1>4
    <2> QED BY <1>2, <2>1
  <1>5. L = n
    BY <1>2, <1>3, <1>4
  <1> QED BY <1>5 DEF L

LEMMA AppendIs ==
  ASSUME NEW T, NEW f \in Seq(T), NEW y \in T, NEW g \in Seq(T),
         DOMAIN g = 1 .. Len(f) + 1, g[Len(f) + 1] = y, \A i \in 1 .. Len(f) : g[i] = f[i]
  PROVE  g = Append(f, y)
  <1>1. Len(f) \in Nat /\ Len(g) \in Nat /\ DOMAIN g = 1 .. Len(g)
    BY LenProperties
  <1>2. Len(g) = Len(f) + 1
    BY <1>1
  <1>3. /\ Append(f, y) \in Seq(T) /\ Len(Append(f, y)) = Len(f) + 1
        /\ (\A i \in 1 .. Len(f) : Append(f, y)[i] = f[i]) /\ Append(f, y)[Len(f) + 1] = y
    BY AppendProperties
  <1> DEFINE h == Append(f, y)
  <1>4. /\ h \in Seq(T) /\ Len(h) = Len(f) + 1
        /\ (\A i \in 1 .. Len(f) : h[i] = f[i]) /\ h[Len(f) + 1] = y
    BY <1>3
  <1> HIDE DEF h
  <1>5. \A i \in 1 .. Len(g) : g[i] = h[i]
    BY <1>1, <1>2, <1>4
  <1>6. g = h
    BY <1>2, <1>4, <1>5, SeqEqual
  <1> QED BY <1>6 DEF h

LEMMA EachAppend ==
  ASSUME NEW T, NEW s \in Seq(T), NEW x \in T
  PROVE  /\ DOMAIN s = 1 .. Len(s) /\ Len(s) \in Nat
         /\ DOMAIN Append(s, x) = 1 .. Len(s) + 1
         /\ \A i \in 1 .. Len(s) : Append(s, x)[i] = s[i]
         /\ Append(s, x)[Len(s) + 1] = x
  BY AppendProperties, LenProperties

LEMMA PairType ==
  ASSUME NEW q \in Nat, NEW x \in Items
  PROVE  Pair(q, x) \in Seq(Shows) /\ Len(Pair(q, x)) = 2
  <1> DEFINE from == <<q, x, "from">>
             body == <<q, x, "text">>
  <1>1. from \in Shows
    BY DEF Shows
  <1>2. body \in Shows
    BY DEF Shows
  <1> HIDE DEF from, body
  <1>3. <<from, body>> \in Seq(Shows) /\ Len(<<from, body>>) = 2
    BY <1>1, <1>2
  <1> QED BY <1>3 DEF Pair, from, body

LEMMA ShownIs ==
  ASSUME NEW q \in Nat, NEW found \in Seq(Items)
  PROVE  /\ [i \in DOMAIN found |-> Pair(q, found[i])] \in Seq(Seq(Shows))
         /\ Shown(q, found) = Joined([i \in DOMAIN found |-> Pair(q, found[i])])
         /\ Shown(q, found) \in Seq(Shows)
  <1>1. Len(found) \in Nat /\ DOMAIN found = 1 .. Len(found)
    BY LenProperties
  <1>2. \A i \in 1 .. Len(found) : found[i] \in Items
    BY ElementOfSeq
  <1>3. \A i \in 1 .. Len(found) : Pair(q, found[i]) \in Seq(Shows)
    BY <1>2, PairType
  <1>4. [i \in DOMAIN found |-> Pair(q, found[i])] \in Seq(Seq(Shows))
    BY <1>1, <1>3, IsASeq
  <1>5. Shown(q, found) = Joined([i \in DOMAIN found |-> Pair(q, found[i])])
    BY DEF Shown, Pair
  <1> QED BY <1>4, <1>5, JoinedType

LEMMA ShownAppend ==
  ASSUME NEW q \in Nat, NEW found \in Seq(Items), NEW x \in Items
  PROVE  Shown(q, Append(found, x)) = Shown(q, found) \o Pair(q, x)
  <1> DEFINE each(s) == [i \in DOMAIN s |-> Pair(q, s[i])]
  <1>1. Append(found, x) \in Seq(Items)
    BY AppendProperties
  <1>2. each(found) \in Seq(Seq(Shows)) /\ each(Append(found, x)) \in Seq(Seq(Shows))
    BY <1>1, ShownIs
  <1>3. each(Append(found, x)) = Append(each(found), Pair(q, x))
    <2>1. /\ DOMAIN found = 1 .. Len(found) /\ Len(found) \in Nat
          /\ DOMAIN Append(found, x) = 1 .. Len(found) + 1
          /\ \A i \in 1 .. Len(found) : Append(found, x)[i] = found[i]
          /\ Append(found, x)[Len(found) + 1] = x
      BY EachAppend
    <2> DEFINE f == each(found)
               g == each(Append(found, x))
    <2>2. DOMAIN f = 1 .. Len(found) /\ \A i \in 1 .. Len(found) : f[i] = Pair(q, found[i])
      BY <2>1
    <2>3. /\ DOMAIN g = 1 .. Len(found) + 1 /\ g[Len(found) + 1] = Pair(q, x)
          /\ \A i \in 1 .. Len(found) : g[i] = Pair(q, found[i])
      BY <2>1
    <2>4. f \in Seq(Seq(Shows)) /\ g \in Seq(Seq(Shows)) /\ Pair(q, x) \in Seq(Shows)
      BY <1>2, PairType
    <2> HIDE DEF f, g
    <2>5. Len(f) = Len(found)
      <3>1. Len(f) \in Nat /\ DOMAIN f = 1 .. Len(f)
        BY <2>4, LenProperties
      <3> QED BY <2>1, <2>2, <3>1
    <2>6. g = Append(f, Pair(q, x))
      BY <2>2, <2>3, <2>4, <2>5, AppendIs
    <2> QED BY <2>6 DEF f, g
  <1>4. Pair(q, x) \in Seq(Shows)
    BY PairType
  <1>5. /\ Shown(q, found) = Joined(each(found))
        /\ Shown(q, Append(found, x)) = Joined(each(Append(found, x)))
    BY <1>1, ShownIs
  <1> HIDE DEF each
  <1> QED BY <1>2, <1>3, <1>4, <1>5, JoinedAppend

LEMMA ShownEmpty ==
  ASSUME NEW q
  PROVE  Shown(q, <<>>) = <<>>
  <1>1. [i \in DOMAIN <<>> |-> <<<<q, <<>>[i], "from">>, <<q, <<>>[i], "text">>>>] = <<>>
    OBVIOUS
  <1> QED BY <1>1, JoinedEmpty DEF Shown

LEMMA AllShownIs ==
  ASSUME NEW sent \in Seq(Seq(Items))
  PROVE  /\ [q \in DOMAIN sent |-> Shown(q, sent[q])] \in Seq(Seq(Shows))
         /\ AllShown(sent) \in Seq(Shows)
  <1>1. Len(sent) \in Nat /\ DOMAIN sent = 1 .. Len(sent)
    BY LenProperties
  <1>2. \A q \in 1 .. Len(sent) : sent[q] \in Seq(Items) /\ q \in Nat
    <2> DEFINE T == Seq(Items)
    <2>1. sent \in Seq(T)
      OBVIOUS
    <2> HIDE DEF T
    <2>2. \A q \in 1 .. Len(sent) : sent[q] \in T /\ q \in Nat
      BY <1>1, <2>1, ElementOfSeq
    <2> QED BY <2>2 DEF T
  <1>3. \A q \in 1 .. Len(sent) : Shown(q, sent[q]) \in Seq(Shows)
    BY <1>2, ShownIs
  <1>4. [q \in DOMAIN sent |-> Shown(q, sent[q])] \in Seq(Seq(Shows))
    <2> DEFINE T == Seq(Shows)
               n == Len(sent)
    <2>1. \A q \in 1 .. n : Shown(q, sent[q]) \in T
      BY <1>3
    <2>2. n \in Nat /\ DOMAIN sent = 1 .. n
      BY <1>1
    <2> HIDE DEF T, n
    <2>3. [q \in DOMAIN sent |-> Shown(q, sent[q])] \in Seq(T)
      BY <2>1, <2>2
    <2> QED BY <2>3 DEF T
  <1> QED BY <1>4, JoinedType DEF AllShown

LEMMA AllShownEmpty == AllShown(<<>>) = <<>>
  <1>1. [q \in DOMAIN <<>> |-> Shown(q, <<>>[q])] = <<>>
    OBVIOUS
  <1> QED BY <1>1, JoinedEmpty DEF AllShown

LEMMA AllShownAppend ==
  ASSUME NEW sent \in Seq(Seq(Items)), NEW found \in Seq(Items)
  PROVE  AllShown(Append(sent, found)) = AllShown(sent) \o Shown(Len(sent) + 1, found)
  <1> DEFINE next == Append(sent, found)
             f == [q \in DOMAIN sent |-> Shown(q, sent[q])]
             g == [q \in DOMAIN next |-> Shown(q, next[q])]
             y == Shown(Len(sent) + 1, found)
             n == Len(sent)
  <1>1. next \in Seq(Seq(Items))
    BY AppendProperties
  <1>2. f \in Seq(Seq(Shows)) /\ g \in Seq(Seq(Shows))
    <2> HIDE DEF next
    <2> QED BY <1>1, AllShownIs
  <1>3. /\ DOMAIN sent = 1 .. n /\ n \in Nat
        /\ DOMAIN next = 1 .. n + 1
        /\ \A i \in 1 .. n : next[i] = sent[i]
        /\ next[n + 1] = found
    BY EachAppend
  <1>4. AllShown(sent) = Joined(f) /\ AllShown(next) = Joined(g)
    BY DEF AllShown
  <1>5. y \in Seq(Shows)
    <2>1. n + 1 \in Nat
      BY <1>3
    <2> HIDE DEF n
    <2>2. Shown(n + 1, found) \in Seq(Shows)
      BY <2>1, ShownIs
    <2> QED BY <2>2 DEF n
  <1>6. y = Shown(n + 1, found)
    OBVIOUS
  <1> HIDE DEF next, n, y
  <1>7. DOMAIN f = 1 .. n /\ \A i \in 1 .. n : f[i] = Shown(i, sent[i])
    BY <1>3
  <1>8. /\ DOMAIN g = 1 .. n + 1 /\ g[n + 1] = y
        /\ \A i \in 1 .. n : g[i] = Shown(i, sent[i])
    BY <1>3, <1>6
  <1> HIDE DEF f, g
  <1>9. Len(f) = n
    <2> DEFINE T == Seq(Shows)
    <2>1. f \in Seq(T)
      BY <1>2
    <2> HIDE DEF T
    <2>2. n \in Nat /\ DOMAIN f = 1 .. n
      BY <1>3, <1>7
    <2> QED BY <2>1, <2>2, LenIs
  <1>10. g = Append(f, y)
    <2> DEFINE T == Seq(Shows)
    <2>1. f \in Seq(T) /\ g \in Seq(T) /\ y \in T
      BY <1>2, <1>5
    <2> HIDE DEF T
    <2> QED BY <1>7, <1>8, <1>9, <2>1, AppendIs
  <1>11. AllShown(next) = AllShown(sent) \o y
    BY <1>2, <1>4, <1>5, <1>10, JoinedAppend
  <1> QED BY <1>11 DEF next, y

\* The lines of an answer by their places.
NoneShape(a) == Len(a) = 1 /\ a[1].code \notin {"250", "152", "150"}

MatchShape(a, found) ==
    /\ Len(a) = Len(found) + 3
    /\ a[1].code = "152" /\ a[1].item = Len(found)
    /\ \A i \in 1 .. Len(found) : a[i + 1].code = "word" /\ a[i + 1].item = found[i]
    /\ a[Len(found) + 2].code = "." /\ a[Len(found) + 3].code = "250"

DefineShape(a, found) ==
    /\ Len(a) = 5 * Len(found) + 2
    /\ a[1].code = "150" /\ a[1].item = Len(found)
    /\ \A i \in 0 .. Len(found) - 1 :
          /\ a[5 * i + 2].code = "151" /\ a[5 * i + 2].item = <<query, found[i + 1], "from">>
          /\ a[5 * i + 3].code = "header"
          /\ a[5 * i + 4].code = "blank"
          /\ a[5 * i + 5].code = "text" /\ a[5 * i + 5].item = <<query, found[i + 1], "text">>
          /\ a[5 * i + 6].code = "."
    /\ a[5 * Len(found) + 2].code = "250"

LEMMA LineIs ==
  ASSUME query \in Nat, NEW c \in Codes, NEW i \in Nat \cup Items \cup Shows
  PROVE  Line(c, i) \in LineType /\ Line(c, i).code = c /\ Line(c, i).item = i
  BY DEF Line, LineType

LEMMA ArticleLinesAre ==
  ASSUME query \in Nat, NEW x \in Items
  PROVE  /\ ArticleLines(x) \in Seq(LineType) /\ Len(ArticleLines(x)) = 5
         /\ ArticleLines(x)[1].code = "151" /\ ArticleLines(x)[1].item = <<query, x, "from">>
         /\ ArticleLines(x)[2].code = "header"
         /\ ArticleLines(x)[3].code = "blank"
         /\ ArticleLines(x)[4].code = "text" /\ ArticleLines(x)[4].item = <<query, x, "text">>
         /\ ArticleLines(x)[5].code = "."
  <1> DEFINE from == <<query, x, "from">>
             body == <<query, x, "text">>
             l1 == Line("151", from)
             l2 == Line("header", 0)
             l3 == Line("blank", 0)
             l4 == Line("text", body)
             l5 == Line(".", 0)
  <1>1. from \in Shows
    BY DEF Shows
  <1>2. body \in Shows
    BY DEF Shows
  <1>3. ArticleLines(x) = <<l1, l2, l3, l4, l5>>
    BY DEF ArticleLines
  <1> HIDE DEF from, body
  <1>4. /\ l1 \in LineType /\ l1.code = "151" /\ l1.item = from
        /\ l2 \in LineType /\ l2.code = "header"
        /\ l3 \in LineType /\ l3.code = "blank"
        /\ l4 \in LineType /\ l4.code = "text" /\ l4.item = body
        /\ l5 \in LineType /\ l5.code = "."
    <2>1. l1 \in LineType /\ l1.code = "151" /\ l1.item = from
      BY <1>1, LineIs DEF Codes
    <2>2. l2 \in LineType /\ l2.code = "header"
      BY LineIs DEF Codes
    <2>3. l3 \in LineType /\ l3.code = "blank"
      BY LineIs DEF Codes
    <2>4. l4 \in LineType /\ l4.code = "text" /\ l4.item = body
      BY <1>2, LineIs DEF Codes
    <2>5. l5 \in LineType /\ l5.code = "."
      BY LineIs DEF Codes
    <2> QED BY <2>1, <2>2, <2>3, <2>4, <2>5
  <1> HIDE DEF l1, l2, l3, l4, l5
  <1>5. /\ <<l1, l2, l3, l4, l5>> \in Seq(LineType) /\ Len(<<l1, l2, l3, l4, l5>>) = 5
    BY <1>4
  <1> QED BY <1>3, <1>4, <1>5 DEF from, body

LEMMA NoneLines ==
  ASSUME query \in Nat, NEW a \in AnswerLines(<<>>)
  PROVE  a \in Seq(LineType) /\ NoneShape(a)
  <1>1. a = <<Line("552", 0)>> \/ a = <<Line("5xx", 0)>>
    BY DEF AnswerLines
  <1>2. PICK l : a = <<l>> /\ l \in LineType /\ l.code \in {"552", "5xx"}
    <2>1. Line("552", 0) \in LineType /\ Line("552", 0).code = "552"
      BY LineIs DEF Codes
    <2>2. Line("5xx", 0) \in LineType /\ Line("5xx", 0).code = "5xx"
      BY LineIs DEF Codes
    <2> QED BY <1>1, <2>1, <2>2
  <1> QED BY <1>2 DEF NoneShape

Frame(first, mid, end) == <<first>> \o mid \o end

IsFramed(a, T, first, mid, end) ==
    /\ a \in Seq(T) /\ Len(a) = Len(mid) + Len(end) + 1
    /\ a[1] = first
    /\ \A i \in 1 .. Len(mid) : a[i + 1] = mid[i]
    /\ \A j \in 1 .. Len(end) : a[Len(mid) + j + 1] = end[j]

LEMMA Framed ==
  ASSUME NEW T, NEW first \in T, NEW mid \in Seq(T), NEW end \in Seq(T),
         NEW a, a = Frame(first, mid, end)
  PROVE  IsFramed(a, T, first, mid, end)
  <1> DEFINE n == Len(mid)
             k == Len(end)
             f == <<first>>
             s == f \o mid
  <1> a = s \o end
    BY DEF Frame
  <1>1. n \in Nat /\ k \in Nat
    BY LenProperties
  <1>2. f \in Seq(T) /\ Len(f) = 1 /\ f[1] = first
    OBVIOUS
  <1> HIDE DEF f
  <1>3. /\ s \in Seq(T) /\ Len(s) = Len(f) + Len(mid)
        /\ \A i \in 1 .. Len(f) + Len(mid) : s[i] = IF i <= Len(f) THEN f[i] ELSE mid[i - Len(f)]
    BY <1>2, ConcatProperties
  <1>4. /\ s \in Seq(T) /\ Len(s) = n + 1
        /\ \A i \in 1 .. n + 1 : s[i] = IF i <= 1 THEN first ELSE mid[i - 1]
    <2> HIDE DEF s
    <2>1. Len(s) = 1 + n
      BY <1>2, <1>3
    <2> QED BY <1>1, <1>2, <1>3, <2>1
  <1> HIDE DEF s
  <1>5. /\ a \in Seq(T) /\ Len(a) = Len(s) + Len(end)
        /\ \A i \in 1 .. Len(s) + Len(end) : a[i] = IF i <= Len(s) THEN s[i] ELSE end[i - Len(s)]
    <2>1. /\ s \o end \in Seq(T) /\ Len(s \o end) = Len(s) + Len(end)
          /\ \A i \in 1 .. Len(s) + Len(end) :
                (s \o end)[i] = IF i <= Len(s) THEN s[i] ELSE end[i - Len(s)]
      BY <1>4, ConcatProperties
    <2>2. a = s \o end
      OBVIOUS
    <2> QED BY <2>1, <2>2
  <1>6. /\ a \in Seq(T) /\ Len(a) = n + k + 1
        /\ \A i \in 1 .. n + k + 1 : a[i] = IF i <= n + 1 THEN s[i] ELSE end[i - (n + 1)]
    <2>1. Len(s) + Len(end) = n + k + 1
      BY <1>1, <1>4
    <2> QED BY <1>4, <1>5, <2>1
  <1> HIDE DEF n, k
  <1>7. a[1] = first
    <2>1. 1 \in 1 .. n + k + 1 /\ 1 <= n + 1 /\ 1 \in 1 .. n + 1 /\ 1 <= 1
      BY <1>1
    <2> QED BY <1>4, <1>6, <2>1
  <1>8. ASSUME NEW i \in 1 .. n PROVE a[i + 1] = mid[i]
    <2>1. i + 1 \in 1 .. n + k + 1 /\ i + 1 <= n + 1 /\ i + 1 \in 1 .. n + 1 /\ ~(i + 1 <= 1)
          /\ (i + 1) - 1 = i
      BY <1>1
    <2> QED BY <1>4, <1>6, <2>1
  <1>9. ASSUME NEW j \in 1 .. k PROVE a[n + j + 1] = end[j]
    <2>1. n + j + 1 \in 1 .. n + k + 1 /\ ~(n + j + 1 <= n + 1) /\ (n + j + 1) - (n + 1) = j
      BY <1>1
    <2> QED BY <1>6, <2>1
  <1> QED BY <1>6, <1>7, <1>8, <1>9 DEF n, k, IsFramed

LEMMA MatchLines ==
  ASSUME query \in Nat, kind = "match", NEW found \in Seq(Items), found # <<>>,
         NEW a \in AnswerLines(found)
  PROVE  a \in Seq(LineType) /\ MatchShape(a, found)
  <1> DEFINE n == Len(found)
             first == Line("152", n)
             words == [i \in DOMAIN found |-> Line("word", found[i])]
             dot == Line(".", 0)
             ok == Line("250", 0)
  <1>1. a = <<first>> \o words \o <<dot, ok>>
    BY DEF AnswerLines
  <1>2. n \in Nat /\ DOMAIN found = 1 .. n /\ \A i \in 1 .. n : found[i] \in Items
    BY LenProperties, ElementOfSeq
  <1>3. /\ first \in LineType /\ first.code = "152" /\ first.item = n
        /\ dot \in LineType /\ dot.code = "."
        /\ ok \in LineType /\ ok.code = "250"
    <2>1. first \in LineType /\ first.code = "152" /\ first.item = n
      BY <1>2, LineIs DEF Codes
    <2>2. dot \in LineType /\ dot.code = "."
      BY LineIs DEF Codes
    <2>3. ok \in LineType /\ ok.code = "250"
      BY LineIs DEF Codes
    <2> QED BY <2>1, <2>2, <2>3
  <1>4. \A i \in 1 .. n : Line("word", found[i]) \in LineType
                          /\ Line("word", found[i]).code = "word"
                          /\ Line("word", found[i]).item = found[i]
    <2> SUFFICES ASSUME NEW x \in Items
                 PROVE  Line("word", x) \in LineType /\ Line("word", x).code = "word"
                        /\ Line("word", x).item = x
      BY <1>2
    <2> QED BY LineIs DEF Codes
  <1>5. words \in Seq(LineType) /\ Len(words) = n
        /\ \A i \in 1 .. n : words[i].code = "word" /\ words[i].item = found[i]
    <2>1. words \in Seq(LineType)
      BY <1>2, <1>4, IsASeq
    <2>2. DOMAIN words = 1 .. n
      BY <1>2
    <2>3. \A i \in 1 .. n : words[i].code = "word" /\ words[i].item = found[i]
      BY <1>2, <1>4
    <2> HIDE DEF words, n
    <2>4. Len(words) = n
      BY <1>2, <2>1, <2>2, LenIs
    <2> QED BY <2>1, <2>3, <2>4
  <1> HIDE DEF n, first, words, dot, ok
  <1> DEFINE end == <<dot, ok>>
  <1>6. end \in Seq(LineType) /\ Len(end) = 2 /\ end[1] = dot /\ end[2] = ok
    BY <1>3
  <1>7. a = Frame(first, words, end)
    BY <1>1 DEF Frame, first, words, dot, ok, n
  <1> HIDE DEF end
  <1>8. /\ a \in Seq(LineType) /\ Len(a) = Len(words) + Len(end) + 1
        /\ a[1] = first
        /\ \A i \in 1 .. Len(words) : a[i + 1] = words[i]
        /\ \A j \in 1 .. Len(end) : a[Len(words) + j + 1] = end[j]
    <2>1. first \in LineType
      BY <1>3
    <2>2. words \in Seq(LineType)
      BY <1>5
    <2>3. end \in Seq(LineType)
      BY <1>6
    <2>4. IsFramed(a, LineType, first, words, end)
      BY <1>7, <2>1, <2>2, <2>3, Framed
    <2> QED BY <2>4 DEF IsFramed
  <1>9. Len(a) = n + 3 /\ a[n + 2] = dot /\ a[n + 3] = ok
    <2>1. 1 \in 1 .. Len(end) /\ 2 \in 1 .. Len(end) /\ n + 1 + 1 = n + 2 /\ n + 2 + 1 = n + 3
      BY <1>2, <1>6
    <2> QED BY <1>2, <1>5, <1>6, <1>8, <2>1
  <1>10. \A i \in 1 .. n : a[i + 1] = words[i]
    BY <1>5, <1>8
  <1> QED BY <1>3, <1>5, <1>8, <1>9, <1>10 DEF MatchShape, n

LEMMA DefineLines ==
  ASSUME query \in Nat, kind = "define", NEW found \in Seq(Items), found # <<>>,
         NEW a \in AnswerLines(found)
  PROVE  a \in Seq(LineType) /\ DefineShape(a, found)
  <1> DEFINE n == Len(found)
             first == Line("150", n)
             parts == [i \in DOMAIN found |-> ArticleLines(found[i])]
             mid == Joined(parts)
             ok == Line("250", 0)
             end == <<ok>>
  <1>1. a = Frame(first, mid, end)
    BY DEF AnswerLines, Frame
  <1>2. n \in Nat /\ DOMAIN found = 1 .. n /\ \A i \in 1 .. n : found[i] \in Items
    BY LenProperties, ElementOfSeq
  <1>3. /\ first \in LineType /\ first.code = "150" /\ first.item = n
        /\ ok \in LineType /\ ok.code = "250"
    <2>1. first \in LineType /\ first.code = "150" /\ first.item = n
      BY <1>2, LineIs DEF Codes
    <2>2. ok \in LineType /\ ok.code = "250"
      BY LineIs DEF Codes
    <2> QED BY <2>1, <2>2
  <1>4. parts \in Seq(Seq(LineType)) /\ Len(parts) = n
        /\ \A i \in 1 .. n : parts[i] = ArticleLines(found[i])
    <2> DEFINE T == Seq(LineType)
    <2>1. \A i \in 1 .. n : ArticleLines(found[i]) \in T
      BY <1>2, ArticleLinesAre
    <2> HIDE DEF T, n
    <2>2. parts \in Seq(T)
      BY <1>2, <2>1, IsASeq
    <2>3. DOMAIN parts = 1 .. n /\ \A i \in 1 .. n : parts[i] = ArticleLines(found[i])
      BY <1>2
    <2> HIDE DEF parts
    <2>4. Len(parts) = n
      BY <1>2, <2>2, <2>3, LenIs
    <2> QED BY <2>2, <2>3, <2>4 DEF T
  <1>5. \A i \in 1 .. n : Len(parts[i]) = 5
    BY <1>2, <1>4, ArticleLinesAre
  <1> HIDE DEF n, first, parts, ok
  <1>6. /\ mid \in Seq(LineType) /\ Len(mid) = 5 * n
        /\ \A i \in 1 .. n, m \in 1 .. 5 : mid[5 * (i - 1) + m] = parts[i][m]
    <2>1. mid \in Seq(LineType)
      BY <1>4, JoinedType
    <2>2. \A i \in 1 .. Len(parts) : Len(parts[i]) = 5
      BY <1>4, <1>5
    <2>3. /\ Len(Joined(parts)) = 5 * Len(parts)
          /\ \A i \in 1 .. Len(parts), m \in 1 .. 5 :
                Joined(parts)[5 * (i - 1) + m] = parts[i][m]
      BY <1>4, <2>2, JoinedFives
    <2>4. Len(parts) = n
      BY <1>4
    <2> QED BY <2>1, <2>3, <2>4
  <1>7. end \in Seq(LineType) /\ Len(end) = 1 /\ end[1] = ok
    BY <1>3
  <1> HIDE DEF mid, end
  <1>8. /\ a \in Seq(LineType) /\ Len(a) = Len(mid) + Len(end) + 1
        /\ a[1] = first
        /\ \A i \in 1 .. Len(mid) : a[i + 1] = mid[i]
        /\ \A j \in 1 .. Len(end) : a[Len(mid) + j + 1] = end[j]
    <2>1. first \in LineType
      BY <1>3
    <2>2. mid \in Seq(LineType)
      BY <1>6
    <2>3. end \in Seq(LineType)
      BY <1>7
    <2>4. IsFramed(a, LineType, first, mid, end)
      BY <1>1, <2>1, <2>2, <2>3, Framed
    <2> QED BY <2>4 DEF IsFramed
  <1>9. Len(a) = 5 * n + 2 /\ a[5 * n + 2] = ok
    <2>1. 1 \in 1 .. Len(end) /\ 5 * n + 1 + 1 = 5 * n + 2
      BY <1>2, <1>7
    <2> QED BY <1>2, <1>6, <1>7, <1>8, <2>1
  <1>10. ASSUME NEW i \in 0 .. n - 1, NEW m \in 1 .. 5
         PROVE  a[5 * i + (m + 1)] = ArticleLines(found[i + 1])[m]
    <2>1. i + 1 \in 1 .. n /\ (i + 1) - 1 = i
      BY <1>2
    <2>2. mid[5 * i + m] = parts[i + 1][m]
      BY <1>6, <2>1
    <2>3. 5 * i + m \in 1 .. 5 * n /\ (5 * i + m) + 1 = 5 * i + (m + 1)
      BY <1>2
    <2>4. a[(5 * i + m) + 1] = mid[5 * i + m]
      BY <1>6, <1>8, <2>3
    <2> QED BY <1>4, <2>1, <2>2, <2>3, <2>4
  <1>11. ASSUME NEW i \in 0 .. n - 1
         PROVE  /\ a[5 * i + 2].code = "151" /\ a[5 * i + 2].item = <<query, found[i + 1], "from">>
                /\ a[5 * i + 3].code = "header"
                /\ a[5 * i + 4].code = "blank"
                /\ a[5 * i + 5].code = "text"
                /\ a[5 * i + 5].item = <<query, found[i + 1], "text">>
                /\ a[5 * i + 6].code = "."
    <2> DEFINE l == ArticleLines(found[i + 1])
    <2>1. found[i + 1] \in Items
      BY <1>2
    <2>2. /\ l[1].code = "151" /\ l[1].item = <<query, found[i + 1], "from">>
          /\ l[2].code = "header"
          /\ l[3].code = "blank"
          /\ l[4].code = "text" /\ l[4].item = <<query, found[i + 1], "text">>
          /\ l[5].code = "."
      BY <2>1, ArticleLinesAre
    <2>3. \A m \in 1 .. 5 : a[5 * i + (m + 1)] = l[m]
      BY <1>10
    <2> HIDE DEF l
    <2>4. /\ a[5 * i + 2] = l[1] /\ a[5 * i + 3] = l[2] /\ a[5 * i + 4] = l[3]
          /\ a[5 * i + 5] = l[4] /\ a[5 * i + 6] = l[5]
      <3>1. 1 + 1 = 2 /\ 2 + 1 = 3 /\ 3 + 1 = 4 /\ 4 + 1 = 5 /\ 5 + 1 = 6
            /\ \A m \in {1, 2, 3, 4, 5} : m \in 1 .. 5
        OBVIOUS
      <3> QED BY <2>3, <3>1
    <2> QED BY <2>2, <2>4
  <1> QED BY <1>3, <1>8, <1>9, <1>11 DEF DefineShape, n

-----------------------------------------------------------------------------
(***************************************************************************)
(* As long as nothing has failed and nobody has cancelled, the worker      *)
(* stands at a known line of the server's answer to the last command, and  *)
(* has read just what came before it.                                      *)
(***************************************************************************)
Good == ~failed /\ ~isCancelled

Last == answers[Len(answers)]
Before == SubSeq(answers, 1, Len(answers) - 1)

\* w is the rest of the lines a after the first r, or a part of it that the server
\* had sent when it closed the connection.
Rest(w, a, r) ==
    /\ Len(w) + r <= Len(a)
    /\ \A i \in 1 .. Len(w) : w[i] = a[i + r]

\* The same of all of a, with the "250" of the answer before still to be read.
RestAfterOk(w, a) ==
    /\ Len(w) <= Len(a) + 1
    /\ w # <<>> => w[1].code = "250"
    /\ \A i \in 2 .. Len(w) : w[i] = a[i - 1]

AtEnd(w) == w # <<>> => Len(w) = 1 /\ w[1].code = "250"

\* What was read, g, is right if it was all that the server sent.
Right(k, g, sent) ==
    IF k = "match" THEN Distinct(g) = Distinct(Joined(sent)) ELSE g = AllShown(sent)

AllAsked ==
    \/ Len(answers) = Queries
    \/ kind = "match" /\ Len(Distinct(Joined(answers))) >= MaxMatches

Typed ==
    /\ wire \in Seq(LineType)
    /\ answers \in Seq(Seq(Items))
    /\ kind = "match" => got \in Seq(Items)

Fresh == query = 1 /\ got = <<>> /\ text = <<>> /\ wire = <<>> /\ answers = <<>>

Asking ==
    /\ query = Len(answers) + 1 /\ query <= Queries
    /\ text = <<>>
    /\ AtEnd(wire)
    /\ Right(kind, got, answers)

\* The articles of the last answer that are complete; one less than its words.
Complete == Len(Last) - left

Source == <<<<query, Last[Complete + 1], "from">>>>
Body == <<<<query, Last[Complete + 1], "text">>>>
ShownSoFar == AllShown(Before) \o Shown(query, SubSeq(Last, 1, Complete))

InMatches(a) ==
    /\ kind = "match" /\ Last # <<>>
    /\ left \in 1 .. Len(Last) + 1
    /\ Rest(wire, a, Complete + 2)
    /\ Distinct(got) = Distinct(Joined(Before) \o SubSeq(Last, 1, Complete + 1))

InArticle(a) ==
    /\ kind = "define" /\ Last # <<>>
    /\ left \in 1 .. Len(Last)
    /\ pc = "article" => /\ Rest(wire, a, 5 * Complete + 1)
                         /\ got = ShownSoFar
    /\ pc = "mime" => /\ Rest(wire, a, 5 * Complete + 2) \/ Rest(wire, a, 5 * Complete + 3)
                      /\ got = ShownSoFar \o Source
    /\ pc = "text" => /\ got = ShownSoFar \o Source
                      /\ \/ Rest(wire, a, 5 * Complete + 4) /\ text = <<>>
                         \/ Rest(wire, a, 5 * Complete + 5) /\ text = Body

InAnswer(a) ==
    /\ pc \in {"reply", "afterOk"} => Right(kind, got, Before)
    /\ pc = "reply" => Rest(wire, a, 0) \/ RestAfterOk(wire, a)
    /\ pc = "afterOk" => Rest(wire, a, 0)
    /\ pc = "matches" => InMatches(a)
    /\ pc \in {"article", "mime", "text"} => InArticle(a)

ReadPlaces == {"reply", "afterOk", "matches", "article", "mime", "text"}

Reads ==
    /\ answers # <<>> /\ query = Len(answers) /\ query <= Queries
    /\ pc # "text" => text = <<>>
    /\ \E a \in AnswerLines(Last) : InAnswer(a)

ResultRight ==
    /\ kind = "match" => result = Best(Joined(answers))
    /\ kind = "define" => result = AllShown(answers)

\* What holds until something fails or is cancelled.
GoodInv ==
    /\ ~failing /\ Typed
    /\ pc \notin {"start"} \cup Stored => sock = "connected"
    /\ pc \in {"start", "connect"} => Fresh
    /\ pc = "ask" => Asking
    /\ pc \in ReadPlaces => Reads
    /\ pc \in {"deciding", "storing"} => AllAsked /\ Right(kind, got, answers)
    /\ pc \in Stored => AllAsked /\ ResultRight

StepInv == Good => GoodInv

\* The types need that a worker begins once, and nothing has failed before.
TypeInv ==
    /\ TypeOK
    /\ query # 0
    /\ pc = "start" => handshake = 0 /\ ~failed
    /\ pc = "connect" => handshake < Handshake

-----------------------------------------------------------------------------
(***************************************************************************)
(* The types, and where a worker stands that has not begun to ask.         *)
(***************************************************************************)
LEMMA RoundType ==
  ASSUME NEW q \in Nat \ {0}
  PROVE  Round(q) \in Nat /\ (Round(q) + 1) * Databases + 1 \in Nat \ {0}
  <1>1. q - 1 \in Nat /\ Databases \in Nat \ {0}
    BY SetupAssumption
  <1>2. (q - 1) \div Databases \in Nat
    BY <1>1
  <1>3. Round(q) \in Nat
    BY <1>2 DEF Round
  <1>4. (Round(q) + 1) * Databases \in Nat
    BY <1>1, <1>3
  <1> QED BY <1>3, <1>4

LEMMA NextQueryType ==
  ASSUME query \in Nat \ {0}, NEW g, NEW f, NextQuery(g, f) \/ EndRound(g, f)
  PROVE  query' \in Nat \ {0} /\ pc' \in {"deciding", "ask"}
  <1>1. query + 1 \in Nat \ {0} /\ (Round(query) + 1) * Databases + 1 \in Nat \ {0}
    BY RoundType
  <1>2. CASE EndRound(g, f)
    BY <1>1, <1>2 DEF EndRound
  <1>3. CASE NextQuery(g, f) /\ ~EndRound(g, f)
    BY <1>1, <1>3 DEF NextQuery
  <1> QED BY <1>2, <1>3

\* A read, or a failed one, touches little.
Light == UNCHANGED <<kind, handshake, up, sharedVars, gui>>

LEMMA TookTypes ==
  ASSUME TypeInv, NEW place, Took(place)
  PROVE  Light /\ failing' = FALSE /\ UNCHANGED <<failed, sock>> /\ pc = place
  BY DEF Took, Light

LEMMA CouldNotReadTypes ==
  ASSUME TypeInv, NEW place, CouldNotRead(place)
  PROVE  Light /\ failing' \in BOOLEAN /\ failed' \in BOOLEAN
         /\ sock' \in {sock, "closed"} /\ pc = place
  <1>1. failed \in BOOLEAN
    BY DEF TypeInv, TypeOK
  <1>2. CASE failing' = FALSE /\ UNCHANGED <<sock, failed>>
    BY <1>1, <1>2 DEF CouldNotRead, Light, serverVars
  <1>3. CASE failing' = TRUE /\ failed' = TRUE /\ sock' \in {sock, "closed"}
    BY <1>3 DEF CouldNotRead, Light, serverVars
  <1> QED BY <1>2, <1>3 DEF CouldNotRead

LEMMA LightType ==
  ASSUME TypeInv, Light, failing' \in BOOLEAN, failed' \in BOOLEAN, sock' \in {sock, "closed"},
         query' \in Nat \ {0}, pc' \in WorkerPlaces, pc' \notin {"start", "connect"}
  PROVE  TypeInv'
  BY DEF TypeInv, TypeOK, Light, sharedVars

LEMMA ReadingType == TypeInv /\ Reading => TypeInv'
  <1> SUFFICES ASSUME TypeInv, Reading PROVE TypeInv'
    OBVIOUS
  <1>1. query \in Nat \ {0} /\ pc \in WorkerPlaces
    BY DEF TypeInv, TypeOK
  <1>2. ASSUME NEW place, Took(place) \/ CouldNotRead(place)
        PROVE  /\ Light /\ failing' \in BOOLEAN /\ failed' \in BOOLEAN /\ sock' \in {sock, "closed"}
               /\ pc = place
    <2>1. failed \in BOOLEAN
      BY DEF TypeInv, TypeOK
    <2> QED BY <1>2, <2>1, TookTypes, CouldNotReadTypes
  <1>3. /\ \E place \in ReadPlaces : Took(place) \/ CouldNotRead(place)
        /\ \/ pc' = pc /\ query' = query
           \/ pc' \in ReadPlaces /\ query' = query
           \/ \E g, f : NextQuery(g, f) \/ EndRound(g, f)
    <2> USE DEF ReadPlaces
    <2>1. CASE ReadReply
      BY <2>1 DEF ReadReply, Goto
    <2>2. CASE NoReply
      BY <2>2 DEF NoReply
    <2>3. CASE ReadMatch
      BY <2>3 DEF ReadMatch
    <2>4. CASE NoMatch
      BY <2>4 DEF NoMatch
    <2>5. CASE ReadArticle
      BY <2>5 DEF ReadArticle
    <2>6. CASE NoArticle
      BY <2>6 DEF NoArticle
    <2>7. CASE ReadMime
      BY <2>7 DEF ReadMime, Goto
    <2>8. CASE NoMime
      BY <2>8 DEF NoMime, Goto
    <2>9. CASE ReadText
      BY <2>9 DEF ReadText, EndArticle
    <2>10. CASE NoText
      BY <2>10 DEF NoText, EndArticle
    <2> QED
      BY <2>1, <2>2, <2>3, <2>4, <2>5, <2>6, <2>7, <2>8, <2>9, <2>10 DEF Reading
  <1>4. PICK place \in ReadPlaces : Took(place) \/ CouldNotRead(place)
    BY <1>3
  <1>5. pc \in ReadPlaces
    BY <1>2, <1>4
  <1>6. query' \in Nat \ {0} /\ pc' \in ReadPlaces \cup {"deciding", "ask"}
    BY <1>1, <1>3, <1>5, NextQueryType
  <1>7. pc' \in WorkerPlaces /\ pc' \notin {"start", "connect"}
    BY <1>6 DEF ReadPlaces, WorkerPlaces
  <1> QED BY <1>2, <1>4, <1>6, <1>7, LightType

LEMMA TypeStep == TypeInv /\ Inv /\ Inv' /\ [Next]_vars => TypeInv'
  <1> SUFFICES ASSUME TypeInv, Inv, Inv', [Next]_vars PROVE TypeInv'
    OBVIOUS
  <1> USE DEF WorkerPlaces, GuiPlaces
  <1>0. emitted' \in Nat /\ isFinishedFlag' \in BOOLEAN /\ isCancelled' \in BOOLEAN
        /\ gui' \in GuiPlaces
    BY DEF Inv
  <1>1. CASE Start
    <2>1. (sock' = "closed") \in BOOLEAN
      OBVIOUS
    <2>2. failed' \in BOOLEAN
      BY <1>1, <2>1 DEF Start
    <2>3. sock' \in {sock, "connected", "closed"} /\ pc' \in {"finish", "connect"}
      BY <1>1 DEF Start
    <2> QED BY <1>0, <1>1, <2>2, <2>3, SetupAssumption DEF Start, TypeInv, TypeOK, serverVars
  <1>2. CASE Connect
    <2>1. (~isCancelled) \in BOOLEAN /\ (failed \/ ~isCancelled) \in BOOLEAN
      OBVIOUS
    <2>2. /\ failing' \in BOOLEAN /\ failed' \in BOOLEAN
          /\ UNCHANGED <<sock, kind, query, up>> /\ pc = "connect"
      <3>1. failing \in BOOLEAN /\ failed \in BOOLEAN
        BY DEF TypeInv, TypeOK
      <3>2. \/ UNCHANGED <<failing, failed>>
            \/ failing' = ~isCancelled /\ failed' = (failed \/ ~isCancelled)
        BY <1>2 DEF Connect
      <3>3. failing' \in BOOLEAN /\ failed' \in BOOLEAN
        BY <2>1, <3>1, <3>2
      <3> QED BY <1>2, <3>3 DEF Connect, serverVars
    <2>3. /\ handshake' \in 0 .. Handshake
          /\ pc' \in {"ask", "closing", "connect"} /\ (pc' = "connect" => handshake' < Handshake)
      <3>1. handshake \in 0 .. Handshake /\ handshake < Handshake /\ Handshake \in Nat
        BY <2>2, SetupAssumption DEF TypeInv, TypeOK
      <3>2. CASE /\ handshake' = handshake + 1
                 /\ pc' = IF handshake' = Handshake THEN "ask" ELSE "connect"
        BY <3>1, <3>2
      <3>3. CASE handshake' = handshake /\ pc' = "closing"
        BY <3>1, <3>3
      <3> QED BY <1>2, <3>2, <3>3 DEF Connect
    <2> QED BY <1>0, <2>2, <2>3 DEF TypeInv, TypeOK
  <1>3. CASE Ask
    <2>1. /\ query' \in Nat \ {0} /\ pc' \in {"deciding", "ask", "reply"}
      <3>1. query \in Nat \ {0}
        BY DEF TypeInv, TypeOK
      <3>2. EndRound(got, failing) \/ (pc' = "reply" /\ query' = query)
        BY <1>3 DEF Ask
      <3> QED BY <3>1, <3>2, NextQueryType
    <2>2. /\ failed' \in BOOLEAN /\ sock' \in {sock, "closed"}
          /\ UNCHANGED <<kind, handshake, failing, up>>
      <3>1. failed \in BOOLEAN
        BY DEF TypeInv, TypeOK
      <3>2. failed' = failed \/ failed' = TRUE
        BY <1>3 DEF Ask
      <3>3. sock' \in {sock, "closed"} /\ UNCHANGED <<kind, handshake, failing, up>>
        BY <1>3 DEF Ask
      <3> QED BY <3>1, <3>2, <3>3
    <2> QED BY <1>0, <2>1, <2>2 DEF TypeInv, TypeOK
  <1>4. CASE Reading BY <1>4, ReadingType
  <1>5. CASE Decide \/ Store
    BY <1>0, <1>5 DEF Decide, Store, localVars, serverVars, TypeInv, TypeOK
  <1>6. CASE Close
    BY <1>0, <1>6 DEF Close, TypeInv, TypeOK
  <1>7. CASE Finishing
    BY <1>0, <1>7 DEF Finishing, FinishTest, FinishEmit, localVars, serverVars, TypeInv, TypeOK
  <1>8. CASE ServerCloses
    BY <1>0, <1>8 DEF ServerCloses, localVars, TypeInv, TypeOK
  <1>9. CASE Gui
    BY <1>0, <1>9 DEF Gui, Cancel, CancelTest, CancelEmit, Destroy, Destroyed, localVars,
                     serverVars, TypeInv, TypeOK
  <1>10. CASE UNCHANGED vars
    BY <1>0, <1>10 DEF vars, localVars, serverVars, TypeInv, TypeOK
  <1> QED
    BY <1>1, <1>2, <1>3, <1>4, <1>5, <1>6, <1>7, <1>8, <1>9, <1>10 DEF Next, Worker

-----------------------------------------------------------------------------
(***************************************************************************)
(* Reading a line.                                                         *)
(***************************************************************************)
LEMMA RestFirst ==
  ASSUME NEW w \in Seq(LineType), w # <<>>, NEW a, Len(a) \in Nat, NEW r \in Nat, Rest(w, a, r)
  PROVE  /\ Head(w) = a[r + 1] /\ r + 1 <= Len(a)
         /\ Tail(w) \in Seq(LineType) /\ Rest(Tail(w), a, r + 1)
  <1>1. /\ Len(w) \in Nat /\ Len(w) # 0
        /\ Tail(w) \in Seq(LineType) /\ Len(Tail(w)) = Len(w) - 1
        /\ \A i \in 1 .. Len(Tail(w)) : Tail(w)[i] = w[i + 1]
        /\ Head(w) = w[1]
    BY EmptySeq, LenProperties, HeadTailProperties
  <1> DEFINE t == Tail(w)
             n == Len(w)
  <1>2. t \in Seq(LineType) /\ n \in Nat /\ n # 0 /\ Len(t) = n - 1
        /\ (\A i \in 1 .. n - 1 : t[i] = w[i + 1]) /\ Head(w) = w[1]
    BY <1>1
  <1>3. n + r <= Len(a) /\ \A i \in 1 .. n : w[i] = a[i + r]
    BY DEF Rest
  <1> HIDE DEF t, n
  <1>4. w[1] = a[r + 1] /\ r + 1 <= Len(a)
    <2>1. 1 \in 1 .. n /\ 1 + r = r + 1
      BY <1>2
    <2>2. r + 1 <= Len(a)
      BY <1>2, <1>3
    <2> QED BY <1>3, <2>1, <2>2
  <1>5. Len(t) + (r + 1) <= Len(a)
    BY <1>2, <1>3
  <1>6. ASSUME NEW i \in 1 .. Len(t) PROVE t[i] = a[i + (r + 1)]
    <2>1. i \in 1 .. n - 1 /\ i + 1 \in 1 .. n /\ (i + 1) + r = i + (r + 1)
      BY <1>2
    <2> QED BY <1>2, <1>3, <2>1
  <1>7. Rest(t, a, r + 1)
    BY <1>5, <1>6 DEF Rest
  <1> QED BY <1>2, <1>4, <1>7 DEF t

LEMMA OkFirst ==
  ASSUME NEW w \in Seq(LineType), w # <<>>, NEW a, Len(a) \in Nat, RestAfterOk(w, a)
  PROVE  /\ Head(w).code = "250"
         /\ Tail(w) \in Seq(LineType) /\ Rest(Tail(w), a, 0)
  <1>1. /\ Len(w) \in Nat /\ Len(w) # 0
        /\ Tail(w) \in Seq(LineType) /\ Len(Tail(w)) = Len(w) - 1
        /\ \A i \in 1 .. Len(Tail(w)) : Tail(w)[i] = w[i + 1]
        /\ Head(w) = w[1]
    BY EmptySeq, LenProperties, HeadTailProperties
  <1> DEFINE t == Tail(w)
             n == Len(w)
  <1>2. t \in Seq(LineType) /\ n \in Nat /\ n # 0 /\ Len(t) = n - 1
        /\ (\A i \in 1 .. n - 1 : t[i] = w[i + 1]) /\ Head(w) = w[1]
    BY <1>1
  <1>3. n <= Len(a) + 1 /\ w[1].code = "250" /\ \A i \in 2 .. n : w[i] = a[i - 1]
    BY DEF RestAfterOk
  <1> HIDE DEF t, n
  <1>4. Len(t) + 0 <= Len(a)
    BY <1>2, <1>3
  <1>5. ASSUME NEW i \in 1 .. Len(t) PROVE t[i] = a[i + 0]
    <2>1. i \in 1 .. n - 1 /\ i + 1 \in 2 .. n /\ (i + 1) - 1 = i + 0
      BY <1>2
    <2> QED BY <1>2, <1>3, <2>1
  <1>6. Rest(t, a, 0)
    BY <1>4, <1>5 DEF Rest
  <1> QED BY <1>2, <1>3, <1>6 DEF t

\* The answer has been read but for its "250".
LEMMA RestAtEnd ==
  ASSUME NEW w \in Seq(LineType), NEW a, Len(a) \in Nat, NEW r \in Nat, Rest(w, a, r),
         \/ Len(a) = r
         \/ Len(a) = r + 1 /\ a[r + 1].code = "250"
  PROVE  AtEnd(w)
  <1>1. /\ Len(w) \in Nat /\ (w # <<>> => Len(w) # 0)
    BY EmptySeq, LenProperties
  <1> SUFFICES ASSUME w # <<>> PROVE Len(w) = 1 /\ w[1].code = "250"
    BY DEF AtEnd
  <1>2. Len(w) + r <= Len(a) /\ \A i \in 1 .. Len(w) : w[i] = a[i + r]
    BY DEF Rest
  <1>3. Len(w) = 1 /\ Len(a) = r + 1 /\ a[r + 1].code = "250"
    <2> DEFINE n == Len(w)
               m == Len(a)
    <2>1. n \in Nat /\ n # 0 /\ m \in Nat /\ n + r <= m
      BY <1>1, <1>2
    <2> HIDE DEF n, m
    <2>2. m # r
      BY <2>1
    <2>3. Len(a) = r + 1 /\ a[r + 1].code = "250"
      BY <2>2 DEF m
    <2>4. m = r + 1
      BY <2>3 DEF m
    <2>5. n = 1
      BY <2>1, <2>4
    <2> QED BY <2>3, <2>5 DEF n
  <1>4. w[1] = a[r + 1]
    <2>1. 1 \in 1 .. Len(w) /\ 1 + r = r + 1
      BY <1>3
    <2> QED BY <1>2, <2>1
  <1> QED BY <1>3, <1>4

\* The server goes away: what it sent is cut short.
LEMMA CutShort ==
  ASSUME NEW w \in Seq(LineType), NEW n \in 0 .. Len(w)
  PROVE  /\ SubSeq(w, 1, n) \in Seq(LineType)
         /\ AtEnd(w) => AtEnd(SubSeq(w, 1, n))
         /\ \A a : Len(a) \in Nat /\ RestAfterOk(w, a) => RestAfterOk(SubSeq(w, 1, n), a)
         /\ \A a, r : Len(a) \in Nat /\ r \in Nat /\ Rest(w, a, r) => Rest(SubSeq(w, 1, n), a, r)
  <1>1. Len(w) \in Nat /\ n \in Nat /\ n <= Len(w) /\ \A i \in 1 .. Len(w) : w[i] \in LineType
    BY LenProperties, ElementOfSeq
  <1>2. /\ SubSeq(w, 1, n) \in Seq(LineType) /\ Len(SubSeq(w, 1, n)) = n
        /\ \A i \in 1 .. n : SubSeq(w, 1, n)[i] = w[i]
    <2>1. 1 \in Int /\ n \in Int /\ \A i \in 1 .. n : w[i] \in LineType
      BY <1>1
    <2>2. /\ SubSeq(w, 1, n) \in Seq(LineType)
          /\ Len(SubSeq(w, 1, n)) = IF 1 <= n THEN n - 1 + 1 ELSE 0
          /\ \A i \in 1 .. n - 1 + 1 : SubSeq(w, 1, n)[i] = w[1 + i - 1]
      BY <2>1, SubSeqProperties
    <2>3. (IF 1 <= n THEN n - 1 + 1 ELSE 0) = n /\ n - 1 + 1 = n /\ \A i \in 1 .. n : 1 + i - 1 = i
      BY <1>1
    <2> QED BY <2>2, <2>3
  <1> DEFINE v == SubSeq(w, 1, n)
  <1>3. v \in Seq(LineType) /\ Len(v) = n /\ \A i \in 1 .. n : v[i] = w[i]
    BY <1>2
  <1> HIDE DEF v
  <1>4. v # <<>> => n # 0
    BY <1>3, EmptySeq
  <1>5. v # <<>> => w # <<>> /\ v[1] = w[1]
    <2> SUFFICES ASSUME v # <<>> PROVE w # <<>> /\ v[1] = w[1]
      OBVIOUS
    <2>1. 1 \in 1 .. n /\ Len(w) # 0
      BY <1>1, <1>4
    <2> QED BY <1>3, <2>1, EmptySeq
  <1>6. AtEnd(w) => AtEnd(v)
    <2> SUFFICES ASSUME AtEnd(w), v # <<>> PROVE Len(v) = 1 /\ v[1].code = "250"
      BY DEF AtEnd
    <2>1. w # <<>> /\ v[1] = w[1] /\ n # 0
      BY <1>4, <1>5
    <2>2. Len(w) = 1 /\ w[1].code = "250"
      BY <2>1 DEF AtEnd
    <2>3. Len(v) = 1
      BY <1>1, <1>3, <2>1, <2>2
    <2> QED BY <2>1, <2>2, <2>3
  <1>7. ASSUME NEW a, Len(a) \in Nat, RestAfterOk(w, a) PROVE RestAfterOk(v, a)
    <2>1. /\ Len(w) <= Len(a) + 1 /\ (w # <<>> => w[1].code = "250")
          /\ \A i \in 2 .. Len(w) : w[i] = a[i - 1]
      BY <1>7 DEF RestAfterOk
    <2>2. Len(v) <= Len(a) + 1
      BY <1>1, <1>3, <1>7, <2>1
    <2>3. \A i \in 2 .. Len(v) : v[i] = a[i - 1]
      <3>1. \A i \in 2 .. n : i \in 1 .. n /\ i \in 2 .. Len(w)
        BY <1>1
      <3> QED BY <1>3, <2>1, <3>1
    <2> QED BY <1>5, <2>1, <2>2, <2>3 DEF RestAfterOk
  <1>8. ASSUME NEW a, NEW r, Len(a) \in Nat, r \in Nat, Rest(w, a, r) PROVE Rest(v, a, r)
    <2>1. Len(w) + r <= Len(a) /\ \A i \in 1 .. Len(w) : w[i] = a[i + r]
      BY <1>8 DEF Rest
    <2>2. Len(v) + r <= Len(a)
      BY <1>1, <1>3, <1>8, <2>1
    <2>3. \A i \in 1 .. Len(v) : v[i] = a[i + r]
      <3>1. \A i \in 1 .. n : i \in 1 .. Len(w)
        BY <1>1
      <3> QED BY <1>3, <2>1, <3>1
    <2> QED BY <2>2, <2>3 DEF Rest
  <1> QED BY <1>3, <1>6, <1>7, <1>8 DEF v

\* A command's answer comes after what is left of the one before.
LEMMA Answered ==
  ASSUME NEW w \in Seq(LineType), AtEnd(w), NEW a \in Seq(LineType)
  PROVE  w \o a \in Seq(LineType) /\ (Rest(w \o a, a, 0) \/ RestAfterOk(w \o a, a))
  <1>1. Len(w) \in Nat /\ Len(a) \in Nat
    BY LenProperties
  <1> DEFINE v == w \o a
  <1>2. /\ v \in Seq(LineType) /\ Len(v) = Len(w) + Len(a)
        /\ \A i \in 1 .. Len(w) + Len(a) : v[i] = IF i <= Len(w) THEN w[i] ELSE a[i - Len(w)]
    BY ConcatProperties
  <1> HIDE DEF v
  <1>3. CASE w = <<>>
    <2>1. Len(w) = 0
      BY <1>3, EmptySeq
    <2>2. Len(v) + 0 <= Len(a)
      BY <1>1, <1>2, <2>1
    <2>3. ASSUME NEW i \in 1 .. Len(v) PROVE v[i] = a[i + 0]
      <3>1. i \in 1 .. Len(w) + Len(a) /\ ~(i <= Len(w)) /\ i - Len(w) = i + 0
        BY <1>1, <1>2, <2>1
      <3> QED BY <1>2, <3>1
    <2>4. Rest(v, a, 0)
      BY <2>2, <2>3 DEF Rest
    <2> QED BY <1>2, <2>4 DEF v
  <1>4. CASE w # <<>>
    <2>1. Len(w) = 1 /\ w[1].code = "250"
      BY <1>4 DEF AtEnd
    <2>2. Len(v) <= Len(a) + 1 /\ Len(v) = 1 + Len(a)
      BY <1>1, <1>2, <2>1
    <2>3. v[1].code = "250"
      <3>1. 1 \in 1 .. Len(w) + Len(a) /\ 1 <= Len(w)
        BY <1>1, <2>1
      <3> QED BY <1>2, <2>1, <3>1
    <2>4. ASSUME NEW i \in 2 .. Len(v) PROVE v[i] = a[i - 1]
      <3>1. i \in 1 .. Len(w) + Len(a) /\ ~(i <= Len(w)) /\ i - Len(w) = i - 1
        BY <1>1, <2>1, <2>2
      <3> QED BY <1>2, <3>1
    <2>5. RestAfterOk(v, a)
      BY <2>2, <2>3, <2>4 DEF RestAfterOk
    <2> QED BY <1>2, <2>5 DEF v
  <1> QED BY <1>3, <1>4

-----------------------------------------------------------------------------
(***************************************************************************)
(* The last answer and those before it.                                    *)
(***************************************************************************)
LEMMA LastOf ==
  ASSUME NEW s \in Seq(Seq(Items)), NEW e \in Seq(Items)
  PROVE  LET t == Append(s, e)
         IN  /\ t \in Seq(Seq(Items)) /\ t # <<>> /\ Len(t) = Len(s) + 1
             /\ t[Len(t)] = e /\ SubSeq(t, 1, Len(t) - 1) = s
  <1> DEFINE T == Seq(Items)
             t == Append(s, e)
             n == Len(s)
  <1>1. s \in Seq(T) /\ e \in T
    OBVIOUS
  <1> HIDE DEF T
  <1>2. n \in Nat /\ t \in Seq(T) /\ t # <<>> /\ Len(t) = n + 1 /\ t[n + 1] = e
        /\ (\A i \in 1 .. n : t[i] = s[i]) /\ \A i \in 1 .. n : s[i] \in T
    BY <1>1, LenProperties, AppendProperties, ElementOfSeq
  <1> HIDE DEF t
  <1> DEFINE u == SubSeq(t, 1, n)
  <1>3. u \in Seq(T) /\ Len(u) = n /\ \A i \in 1 .. n : u[i] = t[i]
    <2>1. 1 \in Int /\ n \in Int /\ \A i \in 1 .. n : t[i] \in T
      BY <1>2
    <2>2. /\ u \in Seq(T) /\ Len(u) = IF 1 <= n THEN n - 1 + 1 ELSE 0
          /\ \A i \in 1 .. n - 1 + 1 : u[i] = t[1 + i - 1]
      BY <2>1, SubSeqProperties
    <2>3. (IF 1 <= n THEN n - 1 + 1 ELSE 0) = n /\ n - 1 + 1 = n /\ \A i \in 1 .. n : 1 + i - 1 = i
      BY <1>2
    <2> QED BY <2>2, <2>3
  <1> HIDE DEF u
  <1>4. \A i \in 1 .. n : u[i] = s[i]
    BY <1>2, <1>3
  <1>5. u = s
    BY <1>1, <1>3, <1>4, SeqEqual
  <1>6. (n + 1) - 1 = n
    BY <1>2
  <1> QED BY <1>2, <1>5, <1>6 DEF t, u, T

LEMMA BeforeAndLast ==
  ASSUME answers \in Seq(Seq(Items)), answers # <<>>
  PROVE  /\ Last \in Seq(Items) /\ Before \in Seq(Seq(Items))
         /\ Len(answers) \in Nat \ {0}
         /\ Joined(Before) \in Seq(Items) /\ AllShown(Before) \in Seq(Shows)
         /\ Joined(answers) = Joined(Before) \o Last
         /\ AllShown(answers) = AllShown(Before) \o Shown(Len(answers), Last)
  <1> DEFINE T == Seq(Items)
  <1>1. answers \in Seq(T)
    OBVIOUS
  <1> HIDE DEF T
  <1>2. PICK s \in Seq(T), e \in T : answers = Append(s, e)
    BY <1>1, SequenceEmptyOrAppend
  <1>3. s \in Seq(Seq(Items)) /\ e \in Seq(Items)
    BY <1>2 DEF T
  <1>4. Len(answers) = Len(s) + 1 /\ Last = e /\ Before = s
    BY <1>2, <1>3, LastOf DEF Last, Before
  <1>5. Len(s) \in Nat
    BY <1>2, LenProperties
  <1>6. Joined(answers) = Joined(s) \o e
    BY <1>2, JoinedAppend
  <1>7. AllShown(answers) = AllShown(s) \o Shown(Len(s) + 1, e)
    BY <1>2, <1>3, AllShownAppend
  <1>8. Joined(s) \in Seq(Items) /\ AllShown(s) \in Seq(Shows)
    BY <1>3, JoinedType, AllShownIs
  <1> QED BY <1>3, <1>4, <1>5, <1>6, <1>7, <1>8

-----------------------------------------------------------------------------
(***************************************************************************)
(* The queries, database by database in each round.                        *)
(***************************************************************************)
LEMMA Division ==
  ASSUME NEW a \in Nat, NEW d \in Nat \ {0}
  PROVE  /\ a \div d \in Nat
         /\ d * (a \div d) <= a
         /\ a < d * (a \div d) + d
         /\ a = d * (a \div d) + (a % d) /\ a % d \in 0 .. d - 1
  BY SMT

LEMMA RoundEnds ==
  ASSUME NEW q \in Nat \ {0}, NEW d \in Nat \ {0}, q % d = 0
  PROVE  \E p \in Nat \ {0} : q = d * p /\ (q - 1) \div d = p - 1
  <1> DEFINE p == q \div d
             m == (q - 1) \div d
  <1>1. p \in Nat /\ q = d * p
    BY Division, SMT
  <1>2. q - 1 \in Nat
    OBVIOUS
  <1>3. m \in Nat /\ d * m <= q - 1 /\ q - 1 < d * m + d
    BY <1>2, Division
  <1> HIDE DEF p, m
  <1>4. p # 0
    BY <1>1
  <1>5. ASSUME m >= p PROVE FALSE
    <2>1. d * m >= d * p
      BY <1>1, <1>3, <1>5, SMT
    <2> QED BY <1>1, <1>3, <2>1, SMT
  <1>6. ASSUME m < p - 1 PROVE FALSE
    <2>1. d * (m + 2) <= d * p
      BY <1>1, <1>3, <1>6, SMT
    <2>2. d * (m + 2) = d * m + d + d
      BY <1>3, SMT
    <2> QED BY <1>1, <1>3, <2>1, <2>2, SMT
  <1>7. m = p - 1
    BY <1>1, <1>3, <1>5, <1>6, SMT
  <1>8. p \in Nat \ {0} /\ q = d * p /\ (q - 1) \div d = p - 1
    BY <1>1, <1>4, <1>7 DEF m
  <1> QED BY <1>8

LEMMA QueriesCounted ==
  ASSUME query \in Nat \ {0}, query <= Queries
  PROVE  /\ query % Databases = 0 =>
               /\ (Round(query) + 1) * Databases + 1 = query + 1
               /\ Round(query) + 1 = Rounds => query = Queries
               /\ Round(query) + 1 # Rounds => query + 1 <= Queries
         /\ query % Databases # 0 => query + 1 <= Queries
         /\ kind # "match" /\ query % Databases = 0 => Round(query) + 1 = Rounds
  <1> DEFINE d == Databases
             n == Rounds
  <1>1. d \in Nat \ {0} /\ n \in Nat \ {0} /\ Queries = n * d
    BY SetupAssumption DEF Rounds, Queries
  <1>2. n * d \in Nat /\ (kind # "match" => n = 1)
    BY <1>1, SMT DEF Rounds
  <1>3. Round(query) = (query - 1) \div d
    BY DEF Round
  <1> HIDE DEF d, n
  <1>4. ASSUME query % d = 0
        PROVE  /\ (Round(query) + 1) * d + 1 = query + 1
               /\ Round(query) + 1 = n => query = Queries
               /\ Round(query) + 1 # n => query + 1 <= Queries
               /\ n = 1 => Round(query) + 1 = n
    <2>1. PICK p \in Nat \ {0} : query = d * p /\ (query - 1) \div d = p - 1
      BY <1>1, <1>4, RoundEnds
    <2>2. Round(query) + 1 = p
      BY <1>3, <2>1
    <2>3. p * d = query
      BY <1>1, <2>1, SMT
    <2>4. n >= p
      <3>1. ASSUME n < p PROVE FALSE
        <4>1. (n + 1) * d <= p * d
          BY <1>1, <3>1, SMT
        <4>2. (n + 1) * d = n * d + d
          BY <1>1, SMT
        <4> QED BY <1>1, <1>2, <2>3, <4>1, <4>2, SMT
      <3> QED BY <1>1, <3>1
    <2>5. n # p => query + 1 <= Queries
      <3> SUFFICES ASSUME n # p PROVE query + 1 <= Queries
        OBVIOUS
      <3>1. (p + 1) * d <= n * d
        BY <1>1, <2>4, SMT
      <3>2. (p + 1) * d = p * d + d
        BY <1>1, SMT
      <3> QED BY <1>1, <1>2, <2>3, <3>1, <3>2, SMT
    <2> QED BY <1>1, <2>2, <2>3, <2>4, <2>5
  <1>5. ASSUME query % d # 0 PROVE query + 1 <= Queries
    <2>1. query # n * d
      <3> SUFFICES ASSUME query = n * d PROVE FALSE
        OBVIOUS
      <3> DEFINE p == query \div d
                 r == query % d
      <3>1. p \in Nat /\ query = d * p + r /\ r \in 0 .. d - 1
        BY <1>1, Division
      <3>2. r # 0
        BY <1>5
      <3> HIDE DEF p, r
      <3>3. n * d = d * p + r
        BY <3>1
      <3>4. CASE n <= p
        <4>1. n * d <= d * p
          BY <1>1, <3>1, <3>4, SMT
        <4> QED BY <1>1, <3>1, <3>2, <3>3, <4>1, SMT
      <3>5. CASE n > p
        <4>1. (p + 1) * d <= n * d
          BY <1>1, <3>1, <3>5, SMT
        <4>2. (p + 1) * d = d * p + d
          BY <1>1, <3>1, SMT
        <4> QED BY <1>1, <1>2, <3>1, <3>3, <4>1, <4>2, SMT
      <3> QED BY <1>1, <3>1, <3>4, <3>5
    <2> QED BY <1>1, <1>2, <2>1
  <1> QED BY <1>1, <1>2, <1>4, <1>5 DEF d, n

\* The answer to a query has been read: the next is asked, or all is there.
LEMMA GoesOn ==
  ASSUME Good, query = Len(answers), query \in Nat \ {0}, query <= Queries,
         answers \in Seq(Seq(Items)),
         NEW g, kind = "match" => g \in Seq(Items), Right(kind, g, answers),
         NextQuery(g, FALSE), UNCHANGED <<kind, answers>>, text' = <<>>, AtEnd(wire')
  PROVE  /\ pc' \in {"ask", "deciding"}
         /\ kind = "match" => got' \in Seq(Items)
         /\ pc' = "ask" => Asking'
         /\ pc' = "deciding" => AllAsked' /\ Right(kind, got, answers)'
  <1>1. Queries' = Queries
    BY DEF Queries, Rounds
  <1>2. Right(kind, got, answers)' /\ (kind = "match" => got' \in Seq(Items))
    <2>1. CASE got' = g
      BY <2>1
    <2>2. CASE kind = "match" /\ got' = Distinct(g)
      <3>1. Distinct(g) \in Seq(Items) /\ Distinct(Distinct(g)) = Distinct(g)
        BY <2>2, DistinctTwice
      <3> QED BY <2>2, <3>1 DEF Right
    <2>3. got' = g \/ (kind = "match" /\ got' = Distinct(g))
      BY DEF NextQuery, EndRound
    <2> QED BY <2>1, <2>2, <2>3
  <1>3. CASE query % Databases # 0
    <2>1. query' = query + 1 /\ pc' = "ask" /\ query' <= Queries
      BY <1>3, QueriesCounted DEF NextQuery
    <2> QED BY <1>1, <1>2, <2>1 DEF Asking
  <1>4. CASE query % Databases = 0
    <2>1. EndRound(g, FALSE) /\ ~isCancelled
      BY <1>4 DEF NextQuery, Good
    <2>2. CASE pc' = "ask"
      <3>1. query' = query + 1 /\ query' <= Queries
        BY <1>4, <2>1, <2>2, QueriesCounted DEF EndRound
      <3> QED BY <1>1, <1>2, <2>2, <3>1 DEF Asking
    <2>3. CASE pc' = "deciding"
      <3>1. \/ Round(query) + 1 = Rounds
            \/ Len(IF kind = "match" THEN Distinct(g) ELSE g) >= MaxMatches
        BY <2>1, <2>3 DEF EndRound
      <3>2. Len(answers) = Queries \/ (kind = "match" /\ Len(Distinct(g)) >= MaxMatches)
        BY <1>4, <3>1, QueriesCounted
      <3>3. kind = "match" => Distinct(g) = Distinct(Joined(answers))
        BY DEF Right
      <3>4. AllAsked'
        BY <1>1, <3>2, <3>3 DEF AllAsked
      <3> QED BY <1>2, <2>3, <3>4
    <2>4. pc' \in {"ask", "deciding"}
      BY <2>1 DEF EndRound
    <2> QED BY <2>2, <2>3, <2>4
  <1> QED BY <1>3, <1>4

-----------------------------------------------------------------------------
(***************************************************************************)
(* Every line that can be read is taken for what it is.                    *)
(***************************************************************************)
LEMMA NothingLost ==
  ASSUME Good, Good', GoodInv, NEW place \in ReadPlaces, CouldNotRead(place)
  PROVE  FALSE
  <1>1. pc = place /\ pc \notin {"start"} \cup Stored
    BY DEF CouldNotRead, ReadPlaces, Stored
  <1>2. sock = "connected" /\ ~isCancelled
    BY <1>1 DEF GoodInv, Good
  <1>3. failed'
    BY <1>2 DEF CouldNotRead
  <1> QED BY <1>3 DEF Good

LEMMA TookLine ==
  ASSUME Good, GoodInv, TypeInv, NEW place \in ReadPlaces, Took(place)
  PROVE  /\ pc = place /\ pc \in ReadPlaces
         /\ wire \in Seq(LineType) /\ wire # <<>> /\ wire' = Tail(wire)
         /\ sock = "connected" /\ failing' = FALSE /\ UNCHANGED <<kind, sock, answers>>
         /\ query \in Nat \ {0} /\ query = Len(answers) /\ query <= Queries
         /\ answers \in Seq(Seq(Items)) /\ answers # <<>>
         /\ kind \in {"match", "define"} /\ (kind = "match" => got \in Seq(Items))
         /\ (pc # "text" => text = <<>>)
  <1>1. pc = place /\ pc \in ReadPlaces
    BY DEF Took
  <1>2. Reads /\ Typed
    BY <1>1 DEF GoodInv
  <1>3. query \in Nat \ {0} /\ kind \in {"match", "define"}
    BY DEF TypeInv, TypeOK
  <1>4. /\ wire # <<>> /\ wire' = Tail(wire) /\ sock = "connected" /\ failing' = FALSE
        /\ UNCHANGED <<kind, sock, answers>>
    BY DEF Took
  <1> QED BY <1>1, <1>2, <1>3, <1>4 DEF Reads, Typed

LEMMA Shapes ==
  ASSUME query \in Nat \ {0}, kind \in {"match", "define"},
         answers \in Seq(Seq(Items)), answers # <<>>, NEW a \in AnswerLines(Last)
  PROVE  /\ a \in Seq(LineType) /\ Len(a) \in Nat
         /\ (Last = <<>> => NoneShape(a))
         /\ (Last # <<>> /\ kind = "match" => MatchShape(a, Last))
         /\ (Last # <<>> /\ kind = "define" => DefineShape(a, Last))
  <1>1. Last \in Seq(Items)
    BY BeforeAndLast
  <1>2. CASE Last = <<>>
    BY <1>2, NoneLines, LenProperties
  <1>3. CASE Last # <<>> /\ kind = "match"
    BY <1>1, <1>3, MatchLines, LenProperties
  <1>4. CASE Last # <<>> /\ kind = "define"
    BY <1>1, <1>4, DefineLines, LenProperties
  <1> QED BY <1>2, <1>3, <1>4

LEMMA SameAnswer ==
  ASSUME UNCHANGED <<kind, query, answers>>
  PROVE  /\ Last' = Last /\ Before' = Before /\ AnswerLines(Last)' = AnswerLines(Last)
         /\ Queries' = Queries
  BY DEF Last, Before, AnswerLines, ArticleLines, Line, Queries, Rounds

\* The worker reads on in the same answer.
LEMMA ReadsOn ==
  ASSUME Good, GoodInv, TypeInv, NEW place \in ReadPlaces, Took(place),
         NEW a \in AnswerLines(Last), wire' \in Seq(LineType), UNCHANGED query,
         pc' \in ReadPlaces, pc' # "text" => text' = <<>>,
         kind = "match" => got' \in Seq(Items), InAnswer(a)'
  PROVE  GoodInv'
  <1>1. /\ sock' = "connected" /\ failing' = FALSE /\ UNCHANGED <<kind, query, answers>>
        /\ query = Len(answers) /\ query <= Queries
        /\ answers \in Seq(Seq(Items)) /\ answers # <<>>
    BY TookLine
  <1>2. AnswerLines(Last)' = AnswerLines(Last) /\ Queries' = Queries
    BY <1>1, SameAnswer
  <1>3. Typed'
    BY <1>1 DEF Typed
  <1>4. Reads'
    BY <1>1, <1>2 DEF Reads
  <1>5. /\ pc' \notin {"start", "connect", "ask", "deciding", "storing"}
        /\ pc' \notin Stored
    BY DEF ReadPlaces, Stored
  <1> QED BY <1>1, <1>3, <1>4, <1>5 DEF GoodInv

\* The answer is at its end.
LEMMA ReadAll ==
  ASSUME Good, GoodInv, TypeInv, NEW place \in ReadPlaces, Took(place),
         wire' \in Seq(LineType), AtEnd(wire'), text' = <<>>,
         NEW g, kind = "match" => g \in Seq(Items), Right(kind, g, answers), NextQuery(g, FALSE)
  PROVE  GoodInv'
  <1>1. /\ sock' = "connected" /\ failing' = FALSE /\ UNCHANGED <<kind, answers>>
        /\ query \in Nat \ {0} /\ query = Len(answers) /\ query <= Queries
        /\ answers \in Seq(Seq(Items))
    BY TookLine
  <1>2. /\ pc' \in {"ask", "deciding"}
        /\ (kind = "match" => got' \in Seq(Items))
        /\ (pc' = "ask" => Asking')
        /\ (pc' = "deciding" => AllAsked' /\ Right(kind, got, answers)')
    BY <1>1, GoesOn
  <1>3. Typed'
    BY <1>1, <1>2 DEF Typed
  <1>4. pc' \notin {"start", "connect", "storing"} /\ pc' \notin ReadPlaces /\ pc' \notin Stored
    BY <1>2 DEF ReadPlaces, Stored
  <1> QED BY <1>1, <1>2, <1>3, <1>4 DEF GoodInv

\* What is read of a sequence, piece by piece.
LEMMA Prefixes ==
  ASSUME NEW T, NEW s \in Seq(T)
  PROVE  /\ SubSeq(s, 1, 0) = <<>> /\ SubSeq(s, 1, Len(s)) = s
         /\ \A k \in 0 .. Len(s) - 1 :
               /\ SubSeq(s, 1, k) \in Seq(T) /\ s[k + 1] \in T
               /\ SubSeq(s, 1, k + 1) = Append(SubSeq(s, 1, k), s[k + 1])
  <1>1. SubSeq(s, 1, 0) = <<>>
    BY SubSeqEmpty
  <1>2. SubSeq(s, 1, Len(s)) = s
    BY SubSeqFull
  <1>3. Len(s) \in Nat /\ \A i \in 1 .. Len(s) : s[i] \in T
    BY LenProperties, ElementOfSeq
  <1>4. ASSUME NEW k \in 0 .. Len(s) - 1
        PROVE  /\ SubSeq(s, 1, k) \in Seq(T) /\ s[k + 1] \in T
               /\ SubSeq(s, 1, k + 1) = Append(SubSeq(s, 1, k), s[k + 1])
    <2>1. k + 1 \in 1 .. Len(s) /\ 1 \in 1 .. Len(s) /\ k + 1 \in 1 .. Len(s)
          /\ (k + 1) - 1 = k /\ k \in Int /\ 1 \in Int
      BY <1>3
    <2>2. s[k + 1] \in T
      BY <1>3, <2>1
    <2>3. \A i \in 1 .. k : s[i] \in T
      BY <1>3
    <2>4. SubSeq(s, 1, k) \in Seq(T)
      BY <2>1, <2>3, SubSeqProperties
    <2> DEFINE m == k + 1
    <2>5. m \in 1 .. Len(s) /\ 1 \in 1 .. Len(s) /\ m - 1 = k
      BY <2>1
    <2> HIDE DEF m
    <2>6. SubSeq(s, 1, m) = SubSeq(s, 1, m - 1) \o <<s[m]>>
      BY <2>5, SubSeqRecursiveSecond
    <2>7. SubSeq(s, 1, k + 1) = SubSeq(s, 1, k) \o <<s[k + 1]>>
      BY <2>5, <2>6 DEF m
    <2>8. Append(SubSeq(s, 1, k), s[k + 1]) = SubSeq(s, 1, k) \o <<s[k + 1]>>
      BY <2>2, <2>4, AppendIsConcat
    <2> QED BY <2>2, <2>4, <2>7, <2>8
  <1> QED BY <1>1, <1>2, <1>4

LEMMA ReplyRead == ASSUME Good, GoodInv, TypeInv, ReadReply PROVE GoodInv'
  <1>1. PICK place \in {"reply", "afterOk"} :
           /\ Took(place)
           /\ \/ line.code = "250" /\ place = "reply" /\ Goto("afterOk", left)
              \/ line.code = "152" /\ kind = "match" /\ Goto("matches", line.item + 1)
              \/ line.code = "150" /\ kind = "define" /\ Goto("article", line.item)
              \/ /\ line.code \notin {"152", "150"} /\ (line.code = "250" => place = "afterOk")
                 /\ NextQuery(got, FALSE) /\ UNCHANGED <<left, text>>
    BY DEF ReadReply
  <1>2. place \in ReadPlaces
    BY DEF ReadPlaces
  <1>3. /\ pc = place
        /\ wire \in Seq(LineType) /\ wire # <<>> /\ wire' = Tail(wire)
        /\ UNCHANGED <<kind, answers>>
        /\ query \in Nat \ {0} /\ query = Len(answers)
        /\ answers \in Seq(Seq(Items)) /\ answers # <<>>
        /\ kind \in {"match", "define"} /\ (kind = "match" => got \in Seq(Items))
        /\ text = <<>>
    BY <1>1, <1>2, TookLine
  <1>4. PICK a \in AnswerLines(Last) : InAnswer(a)
    BY <1>2, <1>3 DEF GoodInv, Reads
  <1>5. /\ a \in Seq(LineType) /\ Len(a) \in Nat
        /\ (Last = <<>> => NoneShape(a))
        /\ (Last # <<>> /\ kind = "match" => MatchShape(a, Last))
        /\ (Last # <<>> /\ kind = "define" => DefineShape(a, Last))
    BY <1>3, <1>4, Shapes
  <1>6. /\ Right(kind, got, Before)
        /\ \/ Rest(wire, a, 0)
           \/ RestAfterOk(wire, a) /\ pc = "reply"
    BY <1>3, <1>4 DEF InAnswer
  <1>7. /\ Last \in Seq(Items) /\ Before \in Seq(Seq(Items)) /\ Len(Last) \in Nat
        /\ Joined(Before) \in Seq(Items) /\ AllShown(Before) \in Seq(Shows)
        /\ Joined(answers) = Joined(Before) \o Last
        /\ AllShown(answers) = AllShown(Before) \o Shown(Len(answers), Last)
    BY <1>3, BeforeAndLast, LenProperties
  <1>8. CASE RestAfterOk(wire, a) /\ pc = "reply"
    <2>1. line.code = "250" /\ wire' \in Seq(LineType) /\ Rest(wire', a, 0)
      BY <1>3, <1>5, <1>8, OkFirst DEF line
    <2>2. Goto("afterOk", left)
      BY <1>1, <1>3, <1>8, <2>1
    <2>3. pc' = "afterOk" /\ UNCHANGED <<query, got, text>>
      BY <2>2 DEF Goto
    <2>4. Right(kind, got, Before)'
      BY <1>3, <1>6, <2>3, SameAnswer
    <2>5. InAnswer(a)'
      BY <2>1, <2>3, <2>4 DEF InAnswer
    <2> QED BY <1>1, <1>2, <1>3, <1>4, <2>1, <2>3, <2>5, ReadsOn DEF ReadPlaces
  <1>9. CASE Rest(wire, a, 0)
    <2>1. line = a[1] /\ wire' \in Seq(LineType) /\ Rest(wire', a, 1)
      <3>1. line = a[0 + 1] /\ wire' \in Seq(LineType) /\ Rest(wire', a, 0 + 1)
        BY <1>3, <1>5, <1>9, RestFirst DEF line
      <3> QED BY <3>1
    <2>2. CASE Last = <<>>
      <3>1. Len(a) = 1 /\ line.code \notin {"250", "152", "150"}
        BY <1>5, <2>1, <2>2 DEF NoneShape
      <3>2. NextQuery(got, FALSE) /\ text' = <<>>
        BY <1>1, <1>3, <3>1
      <3>3. AtEnd(wire')
        BY <1>5, <2>1, <3>1, RestAtEnd
      <3>4. Right(kind, got, answers)
        <4>1. Joined(answers) = Joined(Before)
          BY <1>7, <2>2, ConcatEmptySeq
        <4>2. Shown(Len(answers), Last) = <<>>
          BY <2>2, ShownEmpty
        <4>3. AllShown(answers) = AllShown(Before)
          BY <1>7, <4>2, ConcatEmptySeq
        <4> QED BY <1>6, <4>1, <4>3 DEF Right
      <3> QED BY <1>1, <1>2, <1>3, <2>1, <3>2, <3>3, <3>4, ReadAll
    <2>3. CASE Last # <<>> /\ kind = "match"
      <3>1. line.code = "152" /\ line.item = Len(Last)
        BY <1>5, <2>1, <2>3 DEF MatchShape
      <3>2. Goto("matches", Len(Last) + 1)
        BY <1>1, <2>3, <3>1
      <3>3. pc' = "matches" /\ left' = Len(Last) + 1 /\ UNCHANGED <<query, got, text>>
        BY <3>2 DEF Goto
      <3>4. Last' = Last /\ Before' = Before
        BY <1>3, <3>3, SameAnswer
      <3>5. Complete' = -1
        BY <1>7, <3>3, <3>4 DEF Complete
      <3>6. Distinct(got) = Distinct(Joined(Before) \o SubSeq(Last, 1, 0))
        <4>1. Joined(Before) \o SubSeq(Last, 1, 0) = Joined(Before)
          BY <1>7, Prefixes, ConcatEmptySeq
        <4> QED BY <1>6, <2>3, <4>1 DEF Right
      <3>7. left' \in 1 .. Len(Last') + 1 /\ Complete' + 2 = 1 /\ Complete' + 1 = 0
        BY <1>7, <3>3, <3>4, <3>5
      <3>8. InMatches(a)'
        BY <1>3, <2>1, <2>3, <3>3, <3>4, <3>6, <3>7, Zenon DEF InMatches
      <3>9. InAnswer(a)'
        BY <3>3, <3>8 DEF InAnswer
      <3> QED BY <1>1, <1>2, <1>3, <1>4, <2>1, <3>3, <3>9, ReadsOn DEF ReadPlaces
    <2>4. CASE Last # <<>> /\ kind = "define"
      <3>1. line.code = "150" /\ line.item = Len(Last)
        BY <1>5, <2>1, <2>4 DEF DefineShape
      <3>2. Goto("article", Len(Last))
        BY <1>1, <2>4, <3>1
      <3>3. pc' = "article" /\ left' = Len(Last) /\ UNCHANGED <<query, got, text>>
        BY <3>2 DEF Goto
      <3>4. Last' = Last /\ Before' = Before
        BY <1>3, <3>3, SameAnswer
      <3>5. Complete' = 0
        BY <1>7, <3>3, <3>4 DEF Complete
      <3>6. got = AllShown(Before) \o Shown(query, SubSeq(Last, 1, 0))
        <4>1. Shown(query, SubSeq(Last, 1, 0)) = <<>>
          BY <1>7, Prefixes, ShownEmpty
        <4>2. got = AllShown(Before)
          BY <1>6, <2>4 DEF Right
        <4> QED BY <1>7, <4>1, <4>2, ConcatEmptySeq
      <3>7. got' = ShownSoFar'
        BY <3>3, <3>4, <3>5, <3>6 DEF ShownSoFar
      <3>8. left' \in 1 .. Len(Last') /\ 5 * Complete' + 1 = 1
        <4>1. Len(Last) # 0
          BY <1>7, <2>4, EmptySeq
        <4> QED BY <1>7, <3>3, <3>4, <3>5, <4>1
      <3>9. InArticle(a)'
        BY <1>3, <2>1, <2>4, <3>3, <3>4, <3>7, <3>8, Zenon DEF InArticle
      <3>10. InAnswer(a)'
        BY <3>3, <3>9 DEF InAnswer
      <3> QED BY <1>1, <1>2, <1>3, <1>4, <2>1, <2>4, <3>3, <3>10, ReadsOn DEF ReadPlaces
    <2> QED BY <1>3, <2>2, <2>3, <2>4
  <1> QED BY <1>6, <1>8, <1>9

\* Of sequences, one after the other.
LEMMA DistinctFurther ==
  ASSUME NEW T, NEW g \in Seq(T), NEW b \in Seq(T), NEW s \in Seq(T), NEW x \in T,
         Distinct(g) = Distinct(b \o s)
  PROVE  Distinct(Append(g, x)) = Distinct(b \o Append(s, x))
  <1>1. Append(b \o s, x) = b \o Append(s, x)
    <2> DEFINE u == <<x>>
    <2>1. b \o s \in Seq(T) /\ u \in Seq(T)
      BY ConcatProperties
    <2>2. Append(b \o s, x) = (b \o s) \o u /\ Append(s, x) = s \o u
      BY <2>1, AppendIsConcat
    <2> HIDE DEF u
    <2>3. (b \o s) \o u = b \o (s \o u)
      BY <2>1, ConcatAssociative, SMTT(30)
    <2> QED BY <2>2, <2>3, Zenon
  <1>2. b \o s \in Seq(T)
    BY ConcatProperties
  <1> DEFINE t == b \o s
  <1> HIDE DEF t
  <1>3. Distinct(Append(g, x)) = Added(Distinct(g), x)
    BY DistinctAppend
  <1>4. Distinct(Append(t, x)) = Added(Distinct(t), x)
    BY <1>2, DistinctAppend DEF t
  <1>5. Distinct(Append(g, x)) = Distinct(Append(t, x))
    BY <1>3, <1>4 DEF t
  <1> QED BY <1>1, <1>5, Zenon DEF t

LEMMA TwoItems ==
  ASSUME NEW T, NEW x \in T, NEW y \in T
  PROVE  <<x>> \in Seq(T) /\ <<y>> \in Seq(T) /\ <<x>> \o <<y>> = <<x, y>>
  <1> DEFINE f == <<x>>
             g == <<x, y>>
  <1>1. f \in Seq(T) /\ Len(f) = 1 /\ f[1] = x /\ <<y>> \in Seq(T)
    OBVIOUS
  <1>2. g \in Seq(T) /\ DOMAIN g = 1 .. 1 + 1 /\ g[1 + 1] = y /\ g[1] = x
    OBVIOUS
  <1> HIDE DEF f, g
  <1>3. g = Append(f, y)
    <2>1. \A i \in 1 .. Len(f) : g[i] = f[i]
      BY <1>1, <1>2
    <2>2. DOMAIN g = 1 .. Len(f) + 1 /\ g[Len(f) + 1] = y
      BY <1>1, <1>2
    <2> QED BY <1>1, <1>2, <2>1, <2>2, AppendIs
  <1>4. Append(f, y) = f \o <<y>>
    BY <1>1, AppendIsConcat
  <1> QED BY <1>1, <1>3, <1>4, Zenon DEF f, g

LEMMA FourParts ==
  \A b, s, t, u \in Seq(Shows) :
      Then(Then(Then(b, s), t), u) = Then(b, Then(s, Then(t, u)))
  <1> DEFINE T == Shows
  <1> HIDE DEF T
  <1> SUFFICES ASSUME NEW b \in Seq(T), NEW s \in Seq(T), NEW t \in Seq(T), NEW u \in Seq(T)
               PROVE  ((b \o s) \o t) \o u = b \o (s \o (t \o u))
    BY DEF T, Then
  <1>1. b \o s \in Seq(T) /\ t \o u \in Seq(T)
    BY ConcatProperties
  <1> DEFINE p == b \o s
             q == t \o u
  <1> HIDE DEF p, q
  <1>2. (p \o t) \o u = p \o q
    BY <1>1, ConcatAssociative DEF q
  <1>3. p \o q = b \o (s \o q)
    BY <1>1, ConcatAssociative, SMTT(30) DEF p
  <1> QED BY <1>2, <1>3, Zenon DEF p, q

\* Line e of the answer a is the next, after the first r.
LEMMA NextLine ==
  ASSUME NEW w \in Seq(LineType), w # <<>>, NEW a, Len(a) \in Nat,
         NEW r \in Nat, NEW e, e = r + 1, Rest(w, a, r)
  PROVE  Head(w) = a[e] /\ Tail(w) \in Seq(LineType) /\ Rest(Tail(w), a, e)
  BY RestFirst

LEMMA MatchRead == ASSUME Good, GoodInv, TypeInv, ReadMatch PROVE GoodInv'
  <1> DEFINE g == IF line.code = "." THEN got ELSE Append(got, line.item)
             n == Len(Last)
             k == Complete + 1
             seen == Joined(Before) \o SubSeq(Last, 1, k)
  <1>1. /\ Took("matches") /\ left' = left - 1 /\ UNCHANGED text
        /\ (line.code = "." \/ left' = 0 => NextQuery(g, FALSE))
        /\ (line.code # "." /\ left' # 0 => got' = g /\ UNCHANGED <<query, pc>>)
    BY DEF ReadMatch
  <1>2. "matches" \in ReadPlaces
    BY DEF ReadPlaces
  <1>3. /\ pc = "matches"
        /\ wire \in Seq(LineType) /\ wire # <<>> /\ wire' = Tail(wire)
        /\ UNCHANGED <<kind, answers>>
        /\ query \in Nat \ {0} /\ query = Len(answers)
        /\ answers \in Seq(Seq(Items)) /\ answers # <<>>
        /\ kind \in {"match", "define"} /\ (kind = "match" => got \in Seq(Items))
        /\ text = <<>>
    BY <1>1, <1>2, TookLine
  <1>4. PICK a \in AnswerLines(Last) : InAnswer(a)
    BY <1>2, <1>3 DEF GoodInv, Reads
  <1>5. /\ kind = "match" /\ Last # <<>> /\ left \in 1 .. n + 1
        /\ Rest(wire, a, Complete + 2)
        /\ Distinct(got) = Distinct(seen)
    BY <1>3, <1>4 DEF InAnswer, InMatches
  <1>6. a \in Seq(LineType) /\ Len(a) \in Nat /\ MatchShape(a, Last)
    BY <1>3, <1>4, <1>5, Shapes
  <1>7. /\ Last \in Seq(Items) /\ n \in Nat /\ Joined(Before) \in Seq(Items)
        /\ Joined(answers) = Joined(Before) \o Last
    BY <1>3, BeforeAndLast, LenProperties
  <1>8. Complete = n - left
    BY DEF Complete
  <1>9. k \in 0 .. n /\ Complete + 2 = k + 1 /\ (k + 1) + 1 = k + 2 /\ k + 1 \in Nat
        /\ left = (n - k) + 1
    BY <1>5, <1>7, <1>8
  <1> HIDE DEF n, k
  <1>10. line = a[k + 2] /\ wire' \in Seq(LineType) /\ Rest(wire', a, k + 2)
    <2>1. Rest(wire, a, k + 1)
      BY <1>5, <1>9
    <2>2. line = a[(k + 1) + 1] /\ wire' \in Seq(LineType) /\ Rest(wire', a, (k + 1) + 1)
      BY <1>3, <1>6, <1>9, <2>1, RestFirst DEF line
    <2> QED BY <1>9, <2>2
  <1>11. CASE k = n
    <2>1. line.code = "." /\ Len(a) = (n + 2) + 1 /\ a[(n + 2) + 1].code = "250"
      BY <1>6, <1>7, <1>10, <1>11 DEF MatchShape, n
    <2>2. NextQuery(got, FALSE) /\ text' = <<>>
      BY <1>1, <1>3, <2>1
    <2>3. AtEnd(wire')
      <3>1. n + 2 \in Nat
        BY <1>7
      <3> QED BY <1>6, <1>10, <1>11, <2>1, <3>1, RestAtEnd
    <2>4. Right(kind, got, answers)
      <3>1. SubSeq(Last, 1, k) = Last
        BY <1>7, <1>11, Prefixes DEF n
      <3>2. seen = Joined(answers)
        BY <1>7, <3>1
      <3> QED BY <1>5, <3>2 DEF Right
    <2> QED BY <1>1, <1>2, <1>3, <1>10, <2>2, <2>3, <2>4, ReadAll
  <1>12. CASE k # n
    <2>1. k \in 0 .. n - 1 /\ k + 1 \in 1 .. n /\ left - 1 \in 1 .. n /\ left - 1 # 0
          /\ n - (left - 1) = k
      BY <1>7, <1>9, <1>12
    <2>2. line.code = "word" /\ line.item = Last[k + 1]
      <3>1. a[(k + 1) + 1].code = "word" /\ a[(k + 1) + 1].item = Last[k + 1]
        BY <1>6, <2>1 DEF MatchShape, n
      <3> QED BY <1>9, <1>10, <3>1
    <2>3. got' = Append(got, Last[k + 1]) /\ UNCHANGED <<query, pc>>
      BY <1>1, <2>1, <2>2
    <2>4. /\ SubSeq(Last, 1, k) \in Seq(Items) /\ Last[k + 1] \in Items
          /\ SubSeq(Last, 1, k + 1) = Append(SubSeq(Last, 1, k), Last[k + 1])
      BY <1>7, <2>1, Prefixes DEF n
    <2>5. got' \in Seq(Items)
      BY <1>3, <1>5, <2>3, <2>4, AppendProperties
    <2>6. Distinct(got') = Distinct(Joined(Before) \o SubSeq(Last, 1, k + 1))
      <3> DEFINE x == Last[k + 1]
                 s == SubSeq(Last, 1, k)
                 b == Joined(Before)
      <3>1. got \in Seq(Items) /\ s \in Seq(Items) /\ b \in Seq(Items) /\ x \in Items
        BY <1>3, <1>5, <1>7, <2>4
      <3>2. got' = Append(got, x) /\ SubSeq(Last, 1, k + 1) = Append(s, x)
            /\ Distinct(got) = Distinct(b \o s)
        BY <1>5, <2>3, <2>4
      <3> HIDE DEF x, s, b
      <3>3. Distinct(Append(got, x)) = Distinct(b \o Append(s, x))
        BY <3>1, <3>2, DistinctFurther
      <3> QED BY <3>2, <3>3 DEF b
    <2>7. Last' = Last /\ Before' = Before
      BY <1>3, <2>3, SameAnswer
    <2>8. Complete' = k
      BY <1>1, <2>1, <2>7 DEF Complete, n
    <2>9. left' \in 1 .. Len(Last') + 1
      <3>1. left' \in 1 .. n + 1
        BY <1>1, <1>7, <2>1
      <3> QED BY <2>7, <3>1 DEF n
    <2>10. InMatches(a)'
      <3>1. Rest(wire', a, Complete' + 2)
            /\ Distinct(got') = Distinct(Joined(Before') \o SubSeq(Last', 1, Complete' + 1))
        BY <1>10, <2>6, <2>7, <2>8
      <3> QED BY <1>3, <1>5, <2>7, <2>9, <3>1, Zenon DEF InMatches
    <2>11. InAnswer(a)'
      BY <1>3, <2>3, <2>10 DEF InAnswer
    <2> QED BY <1>1, <1>2, <1>3, <1>4, <1>10, <2>3, <2>5, <2>11, ReadsOn
  <1> QED BY <1>11, <1>12

\* A step in the middle of an article.
LEMMA InArticleHere ==
  ASSUME Good, GoodInv, TypeInv, NEW place \in {"article", "mime", "text"}, Took(place)
  PROVE  /\ pc = place /\ place \in ReadPlaces
         /\ wire \in Seq(LineType) /\ wire # <<>> /\ wire' = Tail(wire)
         /\ UNCHANGED <<kind, answers>>
         /\ query \in Nat \ {0} /\ query = Len(answers)
         /\ answers \in Seq(Seq(Items)) /\ answers # <<>>
         /\ kind = "define"
         /\ pc # "text" => text = <<>>
         /\ Last \in Seq(Items) /\ Last # <<>>
         /\ left \in 1 .. Len(Last) /\ Complete \in 0 .. Len(Last) - 1
         /\ \E a \in AnswerLines(Last) :
               InArticle(a) /\ a \in Seq(LineType) /\ Len(a) \in Nat /\ DefineShape(a, Last)
  <1>1. place \in ReadPlaces
    BY DEF ReadPlaces
  <1>2. /\ pc = place
        /\ wire \in Seq(LineType) /\ wire # <<>> /\ wire' = Tail(wire)
        /\ UNCHANGED <<kind, answers>>
        /\ query \in Nat \ {0} /\ query = Len(answers)
        /\ answers \in Seq(Seq(Items)) /\ answers # <<>>
        /\ kind \in {"match", "define"}
        /\ (pc # "text" => text = <<>>)
    BY <1>1, TookLine
  <1>3. PICK a \in AnswerLines(Last) : InAnswer(a)
    BY <1>1, <1>2 DEF GoodInv, Reads
  <1>4. InArticle(a)
    BY <1>2, <1>3 DEF InAnswer
  <1>5. kind = "define" /\ Last # <<>> /\ left \in 1 .. Len(Last)
    BY <1>4 DEF InArticle
  <1>6. a \in Seq(LineType) /\ Len(a) \in Nat /\ DefineShape(a, Last)
    BY <1>2, <1>3, <1>5, Shapes
  <1>7. Last \in Seq(Items) /\ Len(Last) \in Nat
    BY <1>2, BeforeAndLast, LenProperties
  <1>8. Complete \in 0 .. Len(Last) - 1
    BY <1>5, <1>7 DEF Complete
  <1> QED BY <1>1, <1>2, <1>3, <1>4, <1>5, <1>6, <1>7, <1>8

LEMMA ArticleRead == ASSUME Good, GoodInv, TypeInv, ReadArticle PROVE GoodInv'
  <1>1. /\ Took("article") /\ UNCHANGED text
        /\ (line.code = "151" =>
              pc' = "mime" /\ got' = Append(got, line.item) /\ UNCHANGED <<query, left>>)
    BY DEF ReadArticle
  <1>2. /\ pc = "article" /\ "article" \in ReadPlaces
        /\ wire \in Seq(LineType) /\ wire # <<>> /\ wire' = Tail(wire)
        /\ UNCHANGED <<kind, answers>>
        /\ query \in Nat \ {0} /\ answers \in Seq(Seq(Items)) /\ answers # <<>>
        /\ kind = "define" /\ text = <<>>
        /\ Last \in Seq(Items) /\ Last # <<>>
        /\ left \in 1 .. Len(Last) /\ Complete \in 0 .. Len(Last) - 1
    BY <1>1, InArticleHere
  <1>3. PICK a \in AnswerLines(Last) :
           InArticle(a) /\ a \in Seq(LineType) /\ Len(a) \in Nat /\ DefineShape(a, Last)
    BY <1>1, InArticleHere
  <1>4. Rest(wire, a, 5 * Complete + 1) /\ got = ShownSoFar
    BY <1>2, <1>3 DEF InArticle
  <1> DEFINE c == Complete
  <1>5. c \in Nat /\ c \in 0 .. Len(Last) - 1
    BY <1>2
  <1>6. line = a[5 * c + 2] /\ wire' \in Seq(LineType) /\ Rest(wire', a, 5 * c + 2)
    <2>1. Rest(wire, a, 5 * c + 1)
      BY <1>4
    <2>2. line = a[5 * c + 2] /\ wire' \in Seq(LineType) /\ Rest(wire', a, 5 * c + 2)
      <3> DEFINE r == 5 * c + 1
                 e == 5 * c + 2
      <3>1. r \in Nat /\ e = r + 1
        BY <1>5
      <3>2. Rest(wire, a, r)
        BY <2>1
      <3> HIDE DEF r, e
      <3>3. line = a[e] /\ wire' \in Seq(LineType) /\ Rest(wire', a, e)
        BY <1>2, <1>3, <3>1, <3>2, NextLine DEF line
      <3> QED BY <3>3 DEF e
    <2> QED BY <2>2
  <1>7. line.code = "151" /\ line.item = <<query, Last[c + 1], "from">>
    <2> HIDE DEF c
    <2> QED BY <1>3, <1>5, <1>6 DEF DefineShape
  <1>8. pc' = "mime" /\ got' = Append(got, line.item) /\ UNCHANGED <<query, left, text>>
    BY <1>1, <1>7
  <1>9. Last' = Last /\ Before' = Before
    BY <1>2, <1>8, SameAnswer
  <1>10. Complete' = Complete
    BY <1>8, <1>9 DEF Complete
  <1>11. ShownSoFar' = ShownSoFar /\ Source' = Source
    BY <1>8, <1>9, <1>10 DEF ShownSoFar, Source
  <1>12. ShownSoFar \in Seq(Shows) /\ line.item \in Shows
    <2>1. SubSeq(Last, 1, c) \in Seq(Items) /\ Last[c + 1] \in Items
      BY <1>2, <1>5, Prefixes
    <2>2. AllShown(Before) \in Seq(Shows) /\ Shown(query, SubSeq(Last, 1, c)) \in Seq(Shows)
      BY <1>2, <2>1, BeforeAndLast, ShownIs
    <2>3. ShownSoFar \in Seq(Shows)
      BY <2>2, ConcatProperties DEF ShownSoFar
    <2>4. <<query, Last[c + 1], "from">> \in Shows
      <3> DEFINE x == Last[c + 1]
      <3>1. x \in Items
        BY <2>1
      <3> HIDE DEF x
      <3>2. <<query, x, "from">> \in Shows
        BY <1>2, <3>1 DEF Shows
      <3> QED BY <3>2 DEF x
    <2> QED BY <1>7, <2>3, <2>4
  <1>13. got' = ShownSoFar' \o Source'
    <2>1. got' = ShownSoFar \o <<line.item>>
      BY <1>4, <1>8, <1>12, AppendIsConcat
    <2>2. Source = <<line.item>>
      BY <1>7 DEF Source
    <2> QED BY <1>11, <2>1, <2>2
  <1>14. InArticle(a)'
    <2>1. Rest(wire', a, 5 * Complete' + 2)
      BY <1>6, <1>10
    <2> QED BY <1>2, <1>8, <1>9, <1>13, <2>1, Zenon DEF InArticle
  <1>15. InAnswer(a)'
    BY <1>8, <1>14 DEF InAnswer
  <1> QED BY <1>1, <1>2, <1>3, <1>6, <1>8, <1>15, ReadsOn DEF ReadPlaces

LEMMA MimeRead == ASSUME Good, GoodInv, TypeInv, ReadMime PROVE GoodInv'
  <1>1. Took("mime") /\ Goto(IF line.code = "blank" THEN "text" ELSE "mime", left)
    BY DEF ReadMime
  <1>2. /\ pc = "mime" /\ "mime" \in ReadPlaces
        /\ wire \in Seq(LineType) /\ wire # <<>> /\ wire' = Tail(wire)
        /\ UNCHANGED <<kind, answers>>
        /\ kind = "define" /\ text = <<>>
        /\ Last \in Seq(Items) /\ Last # <<>>
        /\ left \in 1 .. Len(Last) /\ Complete \in 0 .. Len(Last) - 1
    BY <1>1, InArticleHere
  <1>3. PICK a \in AnswerLines(Last) :
           InArticle(a) /\ a \in Seq(LineType) /\ Len(a) \in Nat /\ DefineShape(a, Last)
    BY <1>1, InArticleHere
  <1>4. /\ Rest(wire, a, 5 * Complete + 2) \/ Rest(wire, a, 5 * Complete + 3)
        /\ got = ShownSoFar \o Source
    BY <1>2, <1>3 DEF InArticle
  <1> DEFINE c == Complete
  <1>5. c \in Nat /\ c \in 0 .. Len(Last) - 1
    BY <1>2
  <1>6. UNCHANGED <<query, left, got, text>> /\ pc' = IF line.code = "blank" THEN "text" ELSE "mime"
    BY <1>1 DEF Goto
  <1>7. /\ Last' = Last /\ Before' = Before /\ Complete' = Complete
        /\ got' = ShownSoFar' \o Source'
    <2>1. Last' = Last /\ Before' = Before
      BY <1>2, <1>6, SameAnswer
    <2>2. Complete' = Complete
      BY <1>6, <2>1 DEF Complete
    <2>3. ShownSoFar' = ShownSoFar /\ Source' = Source
      BY <1>6, <2>1, <2>2 DEF ShownSoFar, Source
    <2> QED BY <1>4, <1>6, <2>1, <2>2, <2>3
  <1>8. CASE Rest(wire, a, 5 * c + 2)
    <2> HIDE DEF c
    <2>1. line = a[5 * c + 3] /\ wire' \in Seq(LineType) /\ Rest(wire', a, 5 * c + 3)
      <3> DEFINE r == 5 * c + 2
                 e == 5 * c + 3
      <3>1. r \in Nat /\ e = r + 1
        BY <1>5
      <3>2. Rest(wire, a, r)
        BY <1>8
      <3> HIDE DEF r, e
      <3>3. line = a[e] /\ wire' \in Seq(LineType) /\ Rest(wire', a, e)
        BY <1>2, <1>3, <3>1, <3>2, NextLine DEF line
      <3> QED BY <3>3 DEF e
    <2>3. line.code = "header"
      BY <1>3, <1>5, <2>1 DEF DefineShape
    <2>4. pc' = "mime"
      BY <1>6, <2>3
    <2>5. Rest(wire', a, 5 * Complete' + 3)
      BY <1>7, <2>1 DEF c
    <2>6. InArticle(a)'
      BY <1>2, <1>6, <1>7, <2>4, <2>5, Zenon DEF InArticle
    <2>7. InAnswer(a)'
      BY <2>4, <2>6 DEF InAnswer
    <2> QED BY <1>1, <1>2, <1>3, <1>6, <2>1, <2>4, <2>7, ReadsOn
  <1>9. CASE Rest(wire, a, 5 * c + 3)
    <2> HIDE DEF c
    <2>1. line = a[5 * c + 4] /\ wire' \in Seq(LineType) /\ Rest(wire', a, 5 * c + 4)
      <3> DEFINE r == 5 * c + 3
                 e == 5 * c + 4
      <3>1. r \in Nat /\ e = r + 1
        BY <1>5
      <3>2. Rest(wire, a, r)
        BY <1>9
      <3> HIDE DEF r, e
      <3>3. line = a[e] /\ wire' \in Seq(LineType) /\ Rest(wire', a, e)
        BY <1>2, <1>3, <3>1, <3>2, NextLine DEF line
      <3> QED BY <3>3 DEF e
    <2>3. line.code = "blank"
      BY <1>3, <1>5, <2>1 DEF DefineShape
    <2>4. pc' = "text" /\ text' = <<>>
      BY <1>2, <1>6, <2>3
    <2>5. Rest(wire', a, 5 * Complete' + 4)
      BY <1>7, <2>1 DEF c
    <2>6. InArticle(a)'
      BY <1>2, <1>6, <1>7, <2>4, <2>5, Zenon DEF InArticle
    <2>7. InAnswer(a)'
      BY <2>4, <2>6 DEF InAnswer
    <2> QED BY <1>1, <1>2, <1>3, <1>6, <2>1, <2>4, <2>7, ReadsOn DEF ReadPlaces
  <1> QED BY <1>4, <1>8, <1>9

LEMMA TextRead == ASSUME Good, GoodInv, TypeInv, ReadText PROVE GoodInv'
  <1>1. /\ Took("text")
        /\ (line.code = "." => EndArticle)
        /\ (line.code # "." =>
              /\ text' = IF line.code = "text" THEN Append(text, line.item) ELSE text
              /\ UNCHANGED <<query, left, got, pc>>)
    BY DEF ReadText
  <1>2. /\ pc = "text" /\ "text" \in ReadPlaces
        /\ wire \in Seq(LineType) /\ wire # <<>> /\ wire' = Tail(wire)
        /\ UNCHANGED <<kind, answers>>
        /\ query \in Nat \ {0} /\ query = Len(answers)
        /\ answers \in Seq(Seq(Items)) /\ answers # <<>>
        /\ kind = "define"
        /\ Last \in Seq(Items) /\ Last # <<>>
        /\ left \in 1 .. Len(Last) /\ Complete \in 0 .. Len(Last) - 1
    BY <1>1, InArticleHere
  <1>3. PICK a \in AnswerLines(Last) :
           InArticle(a) /\ a \in Seq(LineType) /\ Len(a) \in Nat /\ DefineShape(a, Last)
    BY <1>1, InArticleHere
  <1>4. /\ got = ShownSoFar \o Source
        /\ \/ Rest(wire, a, 5 * Complete + 4) /\ text = <<>>
           \/ Rest(wire, a, 5 * Complete + 5) /\ text = Body
    BY <1>2, <1>3 DEF InArticle
  <1> DEFINE c == Complete
             n == Len(Last)
             x == Last[c + 1]
  <1>5. c \in Nat /\ c \in 0 .. n - 1 /\ n \in Nat /\ c = n - left /\ left \in Nat
    BY <1>2, LenProperties DEF Complete
  <1>6. x \in Items
    BY <1>2, <1>5, Prefixes
  <1>7. CASE Rest(wire, a, 5 * c + 4) /\ text = <<>>
    <2> HIDE DEF c, n, x
    <2>1. line = a[5 * c + 5] /\ wire' \in Seq(LineType) /\ Rest(wire', a, 5 * c + 5)
      <3> DEFINE r == 5 * c + 4
                 e == 5 * c + 5
      <3>1. r \in Nat /\ e = r + 1
        BY <1>5
      <3>2. Rest(wire, a, r)
        BY <1>7
      <3> HIDE DEF r, e
      <3>3. line = a[e] /\ wire' \in Seq(LineType) /\ Rest(wire', a, e)
        BY <1>2, <1>3, <3>1, <3>2, NextLine DEF line
      <3> QED BY <3>3 DEF e
    <2>3. line.code = "text" /\ line.item = <<query, Last[c + 1], "text">>
      BY <1>3, <1>5, <2>1 DEF DefineShape, n
    <2>4. text' = Append(<<>>, line.item) /\ UNCHANGED <<query, left, got, pc>>
      BY <1>1, <1>7, <2>3
    <2>5. Last' = Last /\ Before' = Before
      BY <1>2, <2>4, SameAnswer
    <2>6. Complete' = Complete
      BY <2>4, <2>5 DEF Complete
    <2>7. ShownSoFar' = ShownSoFar /\ Source' = Source /\ Body' = Body
      BY <2>4, <2>5, <2>6 DEF ShownSoFar, Source, Body
    <2>8. text' = Body'
      <3>1. Append(<<>>, line.item) = <<line.item>>
        OBVIOUS
      <3>2. Body = <<line.item>>
        BY <2>3 DEF Body, c
      <3> QED BY <2>4, <2>7, <3>1, <3>2
    <2>9. Rest(wire', a, 5 * Complete' + 5) /\ got' = ShownSoFar' \o Source'
      BY <1>4, <2>1, <2>4, <2>6, <2>7 DEF c
    <2>10. InArticle(a)'
      BY <1>2, <2>4, <2>5, <2>8, <2>9, Zenon DEF InArticle
    <2>11. InAnswer(a)'
      BY <1>2, <2>4, <2>10 DEF InAnswer
    <2> QED BY <1>1, <1>2, <1>3, <2>1, <2>4, <2>11, ReadsOn
  <1>8. CASE Rest(wire, a, 5 * c + 5) /\ text = Body
    <2> DEFINE b == AllShown(Before)
               s == Shown(query, SubSeq(Last, 1, c))
               g == got \o text
    <2>1. g = b \o Shown(query, SubSeq(Last, 1, c + 1))
      <3>1. b \in Seq(Shows) /\ SubSeq(Last, 1, c) \in Seq(Items)
            /\ SubSeq(Last, 1, c + 1) = Append(SubSeq(Last, 1, c), x)
        <4>1. b \in Seq(Shows)
          BY <1>2, BeforeAndLast
        <4>2. c \in 0 .. Len(Last) - 1 /\ Last \in Seq(Items)
          BY <1>2
        <4> QED BY <4>1, <4>2, Prefixes
      <3>2. s \in Seq(Shows) /\ Shown(query, SubSeq(Last, 1, c + 1)) = s \o Pair(query, x)
        BY <1>2, <1>6, <3>1, ShownIs, ShownAppend
      <3>3. Source \in Seq(Shows) /\ Body \in Seq(Shows) /\ Source \o Body = Pair(query, x)
        <4> DEFINE from == <<query, x, "from">>
                   body == <<query, x, "text">>
        <4>1. Source = <<from>> /\ Body = <<body>> /\ Pair(query, x) = <<from, body>>
          BY DEF Source, Body, Pair
        <4>2. from \in Shows
          <5> HIDE DEF x
          <5> QED BY <1>2, <1>6 DEF Shows
        <4>3. body \in Shows
          <5> HIDE DEF x
          <5> QED BY <1>2, <1>6 DEF Shows
        <4> HIDE DEF from, body
        <4>4. /\ <<from>> \in Seq(Shows) /\ <<body>> \in Seq(Shows)
              /\ <<from>> \o <<body>> = <<from, body>>
          BY <4>2, <4>3, TwoItems
        <4> QED BY <4>1, <4>4, Zenon
      <3>4. got = (b \o s) \o Source /\ text = Body
        BY <1>4, <1>8 DEF ShownSoFar
      <3> HIDE DEF b, s
      <3>5. ((b \o s) \o Source) \o Body = b \o (s \o (Source \o Body))
        <4>1. b \in Seq(Shows) /\ s \in Seq(Shows) /\ Source \in Seq(Shows) /\ Body \in Seq(Shows)
          BY <3>1, <3>2, <3>3
        <4>2. Then(Then(Then(b, s), Source), Body) = Then(b, Then(s, Then(Source, Body)))
          BY <4>1, FourParts
        <4> QED BY <4>2 DEF Then
      <3> QED BY <3>2, <3>3, <3>4, <3>5, Zenon DEF b, s
    <2> HIDE DEF g
    <2>2. line = a[5 * c + 6] /\ wire' \in Seq(LineType) /\ Rest(wire', a, 5 * c + 6)
      <3> HIDE DEF c, n, x
      <3>1. line = a[5 * c + 6] /\ wire' \in Seq(LineType) /\ Rest(wire', a, 5 * c + 6)
        <4> DEFINE r == 5 * c + 5
                   e == 5 * c + 6
        <4>1. r \in Nat /\ e = r + 1
          BY <1>5
        <4>2. Rest(wire, a, r)
          BY <1>8
        <4> HIDE DEF r, e
        <4>3. line = a[e] /\ wire' \in Seq(LineType) /\ Rest(wire', a, e)
          BY <1>2, <1>3, <4>1, <4>2, NextLine DEF line
        <4> QED BY <4>3 DEF e
      <3> QED BY <3>1
    <2>3. line.code = "." /\ Len(a) = 5 * n + 2 /\ a[5 * n + 2].code = "250"
      <3> HIDE DEF c, x
      <3> QED BY <1>3, <1>5, <2>2 DEF DefineShape
    <2>4. /\ text' = <<>> /\ left' = left - 1
          /\ (left' = 0 => NextQuery(g, FALSE))
          /\ (left' # 0 => got' = g /\ pc' = "article" /\ UNCHANGED query)
      BY <1>1, <2>3 DEF EndArticle, g
    <2>5. CASE left' = 0
      <3>1. c + 1 = n /\ 5 * c + 6 = 5 * n + 1 /\ 5 * n + 1 \in Nat /\ (5 * n + 1) + 1 = 5 * n + 2
        <4> HIDE DEF c, n, x
        <4> QED BY <1>5, <2>4, <2>5
      <3>2. Right(kind, g, answers)
        <4>1. SubSeq(Last, 1, c + 1) = Last
          BY <1>2, <3>1, Prefixes
        <4>2. AllShown(answers) = b \o Shown(query, Last)
          BY <1>2, BeforeAndLast
        <4>3. g = AllShown(answers)
          BY <2>1, <4>1, <4>2
        <4> QED BY <1>2, <4>3 DEF Right
      <3>3. AtEnd(wire')
        <4> HIDE DEF c, n, x
        <4> QED BY <1>3, <2>2, <2>3, <3>1, RestAtEnd
      <3> QED BY <1>1, <1>2, <2>2, <2>4, <2>5, <3>2, <3>3, ReadAll
    <2>6. CASE left' # 0
      <3>1. left' \in 1 .. n /\ n - left' = c + 1 /\ 5 * (c + 1) + 1 = 5 * c + 6
        <4> HIDE DEF c, n, x
        <4>1. left \in 1 .. n
          BY <1>2 DEF n
        <4> QED BY <1>5, <2>4, <2>6, <4>1
      <3>2. Last' = Last /\ Before' = Before
        BY <1>2, <2>4, <2>6, SameAnswer
      <3>3. Complete' = c + 1
        BY <3>1, <3>2 DEF Complete
      <3>4. got' = ShownSoFar'
        BY <2>1, <2>4, <2>6, <3>2, <3>3 DEF ShownSoFar
      <3>5. Rest(wire', a, 5 * Complete' + 1) /\ left' \in 1 .. Len(Last')
        BY <2>2, <3>1, <3>2, <3>3
      <3>6. InArticle(a)'
        BY <1>2, <2>4, <2>6, <3>2, <3>4, <3>5, Zenon DEF InArticle
      <3>7. InAnswer(a)'
        BY <2>4, <2>6, <3>6 DEF InAnswer
      <3> QED BY <1>1, <1>2, <1>3, <2>2, <2>4, <2>6, <3>7, ReadsOn DEF ReadPlaces
    <2> QED BY <2>5, <2>6
  <1> QED BY <1>4, <1>7, <1>8

-----------------------------------------------------------------------------
(***************************************************************************)
(* The steps around the reading.                                           *)
(***************************************************************************)
LEMMA QueriesType == Queries \in Nat \ {0}
  <1>1. Rounds \in Nat \ {0} /\ Databases \in Nat \ {0}
    BY SetupAssumption DEF Rounds
  <1> QED BY <1>1 DEF Queries

LEMMA StartStep == ASSUME StepInv, TypeInv, Start, Good' PROVE GoodInv'
  <1>1. /\ pc = "start" /\ pc' = "connect" /\ sock' = "connected"
        /\ UNCHANGED <<kind, query, failing, got, text, wire, answers>>
    BY DEF Start, Good, serverVars, sharedVars
  <1>2. Good
    BY <1>1 DEF TypeInv, Good, Start, sharedVars
  <1>3. ~failing /\ Typed /\ Fresh
    BY <1>1, <1>2 DEF StepInv, GoodInv
  <1>4. Typed' /\ Fresh'
    BY <1>1, <1>3 DEF Typed, Fresh
  <1> QED BY <1>1, <1>3, <1>4 DEF GoodInv, ReadPlaces, Stored

LEMMA ConnectStep == ASSUME Good, GoodInv, Connect, Good' PROVE GoodInv'
  <1>1. /\ pc = "connect" /\ pc' \in {"connect", "ask"} /\ sock = "connected"
        /\ UNCHANGED <<kind, query, failing, got, text, wire, answers, sock>>
    BY DEF Connect, Good, serverVars, sharedVars
  <1>2. ~failing /\ Typed /\ Fresh
    BY <1>1 DEF GoodInv
  <1>3. Typed' /\ Fresh'
    BY <1>1, <1>2 DEF Typed, Fresh
  <1>4. Asking'
    <2>1. Queries' = Queries /\ 1 <= Queries
      BY <1>1, QueriesType DEF Queries, Rounds
    <2>2. Len(<<>>) + 1 = 1
      OBVIOUS
    <2>3. Right(kind', <<>>, <<>>)
      BY JoinedEmpty, AllShownEmpty DEF Right
    <2>4. AtEnd(<<>>)
      BY DEF AtEnd
    <2>5. query' = 1 /\ text' = <<>> /\ wire' = <<>> /\ answers' = <<>> /\ got' = <<>>
      BY <1>3 DEF Fresh
    <2> QED BY <2>1, <2>2, <2>3, <2>4, <2>5 DEF Asking
  <1> QED BY <1>1, <1>2, <1>3, <1>4 DEF GoodInv, ReadPlaces, Stored

LEMMA AskStep == ASSUME Good, GoodInv, TypeInv, Ask, Good' PROVE GoodInv'
  <1>1. pc = "ask" /\ sock = "connected" /\ Asking /\ Typed /\ ~failing
    <2>1. pc = "ask"
      BY DEF Ask
    <2> QED BY <2>1 DEF GoodInv, Stored
  <1>2. up
    BY DEF Ask, Good
  <1>3. PICK found \in Answers :
           /\ answers' = Append(answers, found)
           /\ \E lines \in AnswerLines(found) : wire' = wire \o lines
    BY <1>1, <1>2 DEF Ask
  <1>4. PICK a \in AnswerLines(found) : wire' = wire \o a
    BY <1>3
  <1>5. /\ pc' = "reply" /\ UNCHANGED <<query, got, kind, failing, text>>
        /\ sock' = "connected"
    BY <1>1, <1>2 DEF Ask, Good
  <1>6. found \in Seq(Items)
    BY AnswersAssumption
  <1>7. query \in Nat \ {0} /\ kind \in {"match", "define"}
    BY DEF TypeInv, TypeOK
  <1>8. a \in Seq(LineType)
    <2>1. CASE found = <<>>
      BY <1>4, <1>7, <2>1, NoneLines
    <2>2. CASE found # <<>> /\ kind = "match"
      BY <1>4, <1>6, <1>7, <2>2, MatchLines
    <2>3. CASE found # <<>> /\ kind = "define"
      BY <1>4, <1>6, <1>7, <2>3, DefineLines
    <2> QED BY <1>7, <2>1, <2>2, <2>3
  <1>9. /\ answers \in Seq(Seq(Items)) /\ wire \in Seq(LineType)
        /\ (kind = "match" => got \in Seq(Items))
    BY <1>1 DEF Typed
  <1>10. /\ query = Len(answers) + 1 /\ query <= Queries /\ text = <<>>
         /\ AtEnd(wire) /\ Right(kind, got, answers)
    BY <1>1 DEF Asking
  <1>11. wire' \in Seq(LineType) /\ (Rest(wire', a, 0) \/ RestAfterOk(wire', a))
    BY <1>4, <1>8, <1>9, <1>10, Answered
  <1>12. /\ answers' \in Seq(Seq(Items)) /\ answers' # <<>> /\ Len(answers') = Len(answers) + 1
         /\ Last' = found /\ Before' = answers
    BY <1>3, <1>6, <1>9, LastOf DEF Last, Before
  <1>13. Typed'
    BY <1>5, <1>9, <1>11, <1>12 DEF Typed
  <1>14. AnswerLines(found)' = AnswerLines(found) /\ Queries' = Queries
    BY <1>5 DEF AnswerLines, ArticleLines, Line, Queries, Rounds
  <1>15. a \in AnswerLines(Last)'
    <2>1. AnswerLines(Last)' = AnswerLines(found)'
      BY <1>12 DEF AnswerLines, ArticleLines, Line
    <2> QED BY <1>4, <1>14, <2>1
  <1>16. InAnswer(a)'
    BY <1>5, <1>10, <1>11, <1>12 DEF InAnswer
  <1>17. Reads'
    BY <1>5, <1>10, <1>12, <1>14, <1>15, <1>16 DEF Reads
  <1> QED BY <1>1, <1>5, <1>13, <1>17 DEF GoodInv, ReadPlaces, Stored

LEMMA DecideStep == ASSUME Good, GoodInv, TypeInv, BrokenInv, Decide, Good' PROVE GoodInv'
  <1>1. /\ pc = "deciding"
        /\ pc' = IF ~isCancelled /\ ~failing /\ got # <<>> THEN "storing" ELSE "closing"
        /\ UNCHANGED <<kind, query, left, failing, got, text, sock, wire, answers, result>>
    BY DEF Decide, localVars, serverVars, sharedVars
  <1>2. AllAsked /\ Right(kind, got, answers) /\ ~failing /\ ~isCancelled /\ Typed
        /\ sock = "connected"
    BY <1>1 DEF GoodInv, Good, Stored
  <1>3. AllAsked' /\ Right(kind, got, answers)' /\ Typed'
    BY <1>1, <1>2 DEF AllAsked, Queries, Rounds, Typed
  <1>4. CASE got # <<>>
    BY <1>1, <1>2, <1>3, <1>4 DEF GoodInv, ReadPlaces, Stored
  <1>5. CASE got = <<>>
    <2>1. result = <<>>
      BY <1>1 DEF BrokenInv, Stored
    <2>2. kind = "match" => Best(Joined(answers)) = <<>>
      <3> SUFFICES ASSUME kind = "match" PROVE Best(Joined(answers)) = <<>>
        OBVIOUS
      <3>1. Distinct(Joined(answers)) = <<>>
        BY <1>2, <1>5, DistinctEmpty DEF Right
      <3>2. Len(<<>>) = 0 /\ ~(0 > MaxMatches)
        BY SetupAssumption
      <3> QED BY <3>1, <3>2 DEF Best
    <2>3. kind # "match" => AllShown(answers) = <<>>
      BY <1>2, <1>5 DEF Right
    <2>4. ResultRight'
      BY <1>1, <2>1, <2>2, <2>3 DEF ResultRight
    <2>5. pc' = "closing"
      BY <1>1, <1>5
    <2> QED BY <1>1, <1>2, <1>3, <2>4, <2>5 DEF GoodInv, ReadPlaces, Stored
  <1> QED BY <1>4, <1>5

LEMMA StoreStep == ASSUME Good, GoodInv, TypeInv, Store, Good' PROVE GoodInv'
  <1>1. /\ pc = "storing" /\ pc' = "closing"
        /\ result' = IF kind = "match" THEN Best(got) ELSE got
        /\ UNCHANGED <<kind, query, left, failing, got, text, sock, wire, answers>>
    BY DEF Store, localVars, serverVars
  <1>2. AllAsked /\ Right(kind, got, answers) /\ ~failing /\ Typed /\ kind \in {"match", "define"}
    BY <1>1 DEF GoodInv, TypeInv, TypeOK
  <1>3. AllAsked' /\ Typed'
    BY <1>1, <1>2 DEF AllAsked, Queries, Rounds, Typed
  <1>4. kind = "match" => Best(got) = Best(Joined(answers))
    BY <1>2 DEF Right, Best
  <1>5. kind = "define" => got = AllShown(answers)
    BY <1>2 DEF Right
  <1>6. ResultRight'
    BY <1>1, <1>4, <1>5 DEF ResultRight
  <1> QED BY <1>1, <1>2, <1>3, <1>6 DEF GoodInv, ReadPlaces, Stored

LEMMA EndStep == ASSUME Good, GoodInv, Close \/ Finishing PROVE GoodInv'
  <1>1. /\ pc \in Stored /\ pc' \in Stored /\ (wire' = wire \/ wire' = <<>>)
        /\ UNCHANGED <<kind, failing, got, answers, result>>
    BY DEF Close, Finishing, FinishTest, FinishEmit, Stored, localVars, serverVars, sharedVars
  <1>2. AllAsked /\ ResultRight /\ ~failing /\ Typed
    BY <1>1 DEF GoodInv
  <1>3. AllAsked' /\ ResultRight'
    BY <1>1, <1>2 DEF AllAsked, Queries, Rounds, ResultRight
  <1>4. Typed'
    <2>1. wire \in Seq(LineType) /\ <<>> \in Seq(LineType)
      BY <1>2, EmptySeq DEF Typed
    <2>2. wire' \in Seq(LineType)
      BY <1>1, <2>1
    <2> QED BY <1>1, <1>2, <2>2 DEF Typed
  <1> QED BY <1>1, <1>2, <1>3, <1>4 DEF GoodInv, ReadPlaces, Stored

LEMMA CutStep == ASSUME Good, GoodInv, TypeInv, ServerCloses PROVE GoodInv'
  <1>1. PICK n \in 0 .. Len(wire) : wire' = SubSeq(wire, 1, n)
    BY DEF ServerCloses
  <1>2. UNCHANGED <<kind, pc, query, left, failing, got, text, sock, answers, result>>
    BY DEF ServerCloses, localVars, sharedVars
  <1>3. Typed /\ wire \in Seq(LineType)
    BY DEF GoodInv, Typed
  <1>4. /\ wire' \in Seq(LineType)
        /\ AtEnd(wire) => AtEnd(wire')
        /\ \A a : Len(a) \in Nat /\ RestAfterOk(wire, a) => RestAfterOk(wire', a)
        /\ \A a, r : Len(a) \in Nat /\ r \in Nat /\ Rest(wire, a, r) => Rest(wire', a, r)
    BY <1>1, <1>3, CutShort
  <1>5. Typed'
    BY <1>2, <1>3, <1>4 DEF Typed
  <1>6. pc \in {"start", "connect"} => Fresh'
    <2> SUFFICES ASSUME Fresh PROVE Fresh'
      BY DEF GoodInv
    <2>1. wire = <<>>
      BY DEF Fresh
    <2>2. n \in 0 .. Len(<<>>) /\ Len(<<>>) = 0
      BY <1>1, <2>1
    <2>3. n = 0
      BY <2>2
    <2>4. SubSeq(wire, 1, 0) = <<>>
      BY SubSeqEmpty
    <2>5. wire' = <<>>
      BY <1>1, <2>3, <2>4
    <2> QED BY <1>2, <2>5 DEF Fresh
  <1>7. pc = "ask" => Asking'
    BY <1>2, <1>4 DEF GoodInv, Asking, Queries, Rounds
  <1>8. pc \in ReadPlaces => Reads'
    <2> SUFFICES ASSUME pc \in ReadPlaces PROVE Reads'
      OBVIOUS
    <2>1. Reads /\ query \in Nat \ {0} /\ kind \in {"match", "define"}
          /\ answers \in Seq(Seq(Items)) /\ answers # <<>>
      BY <1>3 DEF GoodInv, Reads, TypeInv, TypeOK, Typed
    <2>2. PICK a \in AnswerLines(Last) : InAnswer(a)
      BY <2>1 DEF Reads
    <2>3. Len(a) \in Nat
      BY <2>1, <2>2, Shapes
    <2>4. Last' = Last /\ Before' = Before /\ AnswerLines(Last)' = AnswerLines(Last)
          /\ Queries' = Queries
      BY <1>2, SameAnswer
    <2>5. Complete' = Complete
      BY <1>2, <2>4 DEF Complete
    <2>6. pc \in {"reply", "afterOk"} => InAnswer(a)'
      <3> SUFFICES ASSUME pc \in {"reply", "afterOk"} PROVE InAnswer(a)'
        OBVIOUS
      <3>1. Rest(wire, a, 0) => Rest(wire', a, 0)
        BY <1>4, <2>3
      <3>2. RestAfterOk(wire, a) => RestAfterOk(wire', a)
        BY <1>4, <2>3
      <3> QED BY <1>2, <2>2, <2>4, <3>1, <3>2 DEF InAnswer
    <2>7. pc = "matches" => InAnswer(a)'
      <3> SUFFICES ASSUME pc = "matches" PROVE InAnswer(a)'
        OBVIOUS
      <3>1. InMatches(a)
        BY <2>2 DEF InAnswer
      <3>2. Complete + 2 \in Nat
        <4>1. left \in 1 .. Len(Last) + 1
          BY <3>1 DEF InMatches
        <4>2. Len(Last) \in Nat
          BY <2>1, BeforeAndLast, LenProperties
        <4> QED BY <4>1, <4>2 DEF Complete
      <3>3. Rest(wire', a, Complete + 2)
        BY <1>4, <2>3, <3>1, <3>2 DEF InMatches
      <3>4. InMatches(a)'
        BY <1>2, <2>4, <2>5, <3>1, <3>3, Zenon DEF InMatches
      <3> QED BY <1>2, <3>4 DEF InAnswer
    <2>8. pc \in {"article", "mime", "text"} => InAnswer(a)'
      <3> SUFFICES ASSUME pc \in {"article", "mime", "text"} PROVE InAnswer(a)'
        OBVIOUS
      <3>1. InArticle(a)
        BY <2>2 DEF InAnswer
      <3> DEFINE c == Complete
      <3>2. c \in Nat
        <4>1. left \in 1 .. Len(Last)
          BY <3>1 DEF InArticle
        <4>2. Len(Last) \in Nat
          BY <2>1, BeforeAndLast, LenProperties
        <4> QED BY <4>1, <4>2 DEF Complete
      <3> HIDE DEF c
      <3>3. /\ 5 * c + 1 \in Nat /\ 5 * c + 2 \in Nat /\ 5 * c + 3 \in Nat
            /\ 5 * c + 4 \in Nat /\ 5 * c + 5 \in Nat
        BY <3>2
      <3>4. /\ Rest(wire, a, 5 * c + 1) => Rest(wire', a, 5 * c + 1)
            /\ Rest(wire, a, 5 * c + 2) => Rest(wire', a, 5 * c + 2)
            /\ Rest(wire, a, 5 * c + 3) => Rest(wire', a, 5 * c + 3)
            /\ Rest(wire, a, 5 * c + 4) => Rest(wire', a, 5 * c + 4)
            /\ Rest(wire, a, 5 * c + 5) => Rest(wire', a, 5 * c + 5)
        BY <1>4, <2>3, <3>3
      <3>5. /\ ShownSoFar' = ShownSoFar /\ Source' = Source /\ Body' = Body
        BY <1>2, <2>4, <2>5 DEF ShownSoFar, Source, Body
      <3>6. InArticle(a)'
        BY <1>2, <2>4, <2>5, <3>1, <3>4, <3>5, Zenon DEF InArticle, c
      <3> QED BY <1>2, <3>6 DEF InAnswer
    <2>9. InAnswer(a)'
      BY <2>6, <2>7, <2>8 DEF ReadPlaces
    <2> QED BY <1>2, <2>1, <2>2, <2>4, <2>9 DEF Reads
  <1>9. pc \in {"deciding", "storing"} => AllAsked' /\ Right(kind, got, answers)'
    BY <1>2 DEF GoodInv, AllAsked, Queries, Rounds
  <1>10. pc \in Stored => AllAsked' /\ ResultRight'
    BY <1>2 DEF GoodInv, AllAsked, Queries, Rounds, ResultRight
  <1>11. ~failing' /\ (pc' \notin {"start"} \cup Stored => sock' = "connected")
    BY <1>2 DEF GoodInv
  <1> QED BY <1>2, <1>5, <1>6, <1>7, <1>8, <1>9, <1>10, <1>11 DEF GoodInv

LEMMA Idle ==
  ASSUME GoodInv,
         UNCHANGED <<kind, pc, query, left, failing, got, text, sock, wire, answers, result>>
  PROVE  GoodInv'
  <1>1. Last' = Last /\ Before' = Before /\ AnswerLines(Last)' = AnswerLines(Last)
        /\ Queries' = Queries
    BY SameAnswer
  <1>2. Complete' = Complete
    BY <1>1 DEF Complete
  <1>3. ShownSoFar' = ShownSoFar /\ Source' = Source /\ Body' = Body
    BY <1>1, <1>2 DEF ShownSoFar, Source, Body
  <1>4. \A a : InMatches(a)' = InMatches(a) /\ InArticle(a)' = InArticle(a)
    BY <1>1, <1>2, <1>3 DEF InMatches, InArticle
  <1>5. \A a : InAnswer(a) => InAnswer(a)'
    BY <1>1, <1>4 DEF InAnswer
  <1>6. Reads => Reads'
    BY <1>1, <1>5 DEF Reads
  <1>7. (Typed => Typed') /\ (Fresh => Fresh') /\ (Asking => Asking') /\ (AllAsked => AllAsked')
        /\ (ResultRight => ResultRight')
    BY <1>1 DEF Typed, Fresh, Asking, AllAsked, ResultRight
  <1> QED BY <1>6, <1>7 DEF GoodInv

LEMMA ReadingStep == ASSUME Good, GoodInv, TypeInv, Reading, Good' PROVE GoodInv'
  <1>1. ReadReply \/ ReadMatch \/ ReadArticle \/ ReadMime \/ ReadText
    BY NothingLost
       DEF Reading, NoReply, NoMatch, NoArticle, NoMime, NoText, ReadPlaces
  <1> QED BY <1>1, ReplyRead, MatchRead, ArticleRead, MimeRead, TextRead

\* Neither a failure nor a cancellation is taken back.
LEMMA GoodBefore == ASSUME [Next]_vars, ~Start, Good' PROVE Good
  <1>1. CASE Connect \/ Ask \/ Decide \/ Store \/ Close \/ Finishing
    <2>1. isCancelled' = isCancelled
      BY <1>1 DEF Connect, Ask, Decide, Store, Close, Finishing, FinishTest, FinishEmit, sharedVars
    <2>2. failed => failed'
      <3>1. CASE Connect \/ Ask
        BY <3>1 DEF Connect, Ask
      <3>2. CASE Decide \/ Store \/ Close \/ Finishing
        BY <3>2 DEF Decide, Store, Close, Finishing, FinishTest, FinishEmit, localVars
      <3> QED BY <1>1, <3>1, <3>2
    <2> QED BY <2>1, <2>2 DEF Good
  <1>2. CASE Reading
    <2>1. \E place : Took(place) \/ CouldNotRead(place)
      BY <1>2 DEF Reading, ReadReply, NoReply, ReadMatch, NoMatch, ReadArticle, NoArticle,
                  ReadMime, NoMime, ReadText, NoText
    <2> QED BY <2>1 DEF Took, CouldNotRead, Good, sharedVars
  <1>3. CASE ServerCloses \/ UNCHANGED vars
    BY <1>3 DEF Good, ServerCloses, vars, localVars, sharedVars
  <1>4. CASE Gui
    BY <1>4 DEF Good, Gui, Cancel, CancelTest, CancelEmit, Destroy, Destroyed, localVars, sharedVars
  <1> QED BY <1>1, <1>2, <1>3, <1>4 DEF Next, Worker

LEMMA StepStep == StepInv /\ TypeInv /\ BrokenInv /\ [Next]_vars => StepInv'
  <1> SUFFICES ASSUME StepInv, TypeInv, BrokenInv, [Next]_vars, Good' PROVE GoodInv'
    BY DEF StepInv
  <1>1. CASE Start BY <1>1, StartStep
  <1>2. CASE ~Start
    <2>1. Good /\ GoodInv
      BY <1>2, GoodBefore DEF StepInv
    <2>2. CASE Connect BY <2>1, <2>2, ConnectStep
    <2>3. CASE Ask BY <2>1, <2>3, AskStep
    <2>4. CASE Reading BY <2>1, <2>4, ReadingStep
    <2>5. CASE Decide BY <2>1, <2>5, DecideStep
    <2>6. CASE Store BY <2>1, <2>6, StoreStep
    <2>7. CASE Close \/ Finishing BY <2>1, <2>7, EndStep
    <2>8. CASE ServerCloses BY <2>1, <2>8, CutStep
    <2>9. CASE Gui
      <3>1. UNCHANGED <<kind, pc, query, left, failing, got, text, sock, wire, answers, result>>
        BY <2>9 DEF Gui, Cancel, CancelTest, CancelEmit, Destroy, Destroyed, localVars, serverVars,
                    sharedVars
      <3> QED BY <2>1, <3>1, Idle
    <2>10. CASE UNCHANGED vars
      <3>1. UNCHANGED <<kind, pc, query, left, failing, got, text, sock, wire, answers, result>>
        BY <2>10 DEF vars, localVars, serverVars, sharedVars
      <3> QED BY <2>1, <3>1, Idle
    <2> QED
      BY <1>2, <2>2, <2>3, <2>4, <2>5, <2>6, <2>7, <2>8, <2>9, <2>10 DEF Next, Worker
  <1> QED BY <1>1, <1>2

LEMMA InitStep == Init => TypeInv /\ StepInv
  <1> SUFFICES ASSUME Init PROVE TypeInv /\ GoodInv
    BY DEF StepInv
  <1>1. /\ pc = "start" /\ kind \in {"match", "define"} /\ handshake = 0 /\ query = 1
        /\ failing = FALSE /\ failed = FALSE
        /\ got = <<>> /\ text = <<>> /\ sock = "new" /\ wire = <<>> /\ up = TRUE /\ answers = <<>>
        /\ isCancelled = FALSE /\ isFinishedFlag = FALSE /\ emitted = 0 /\ gui = "idle"
    BY DEF Init
  <1>2. TypeInv
    <2>1. 0 \in 0 .. Handshake /\ 1 \in Nat /\ 0 \in Nat /\ 1 # 0
      BY SetupAssumption
    <2>2. TypeOK
      BY <1>1, <2>1 DEF TypeOK, WorkerPlaces, GuiPlaces
    <2> QED BY <1>1, <2>1, <2>2 DEF TypeInv
  <1>3. <<>> \in Seq(LineType) /\ <<>> \in Seq(Items) /\ <<>> \in Seq(Seq(Items))
    BY EmptySeq
  <1>4. Fresh /\ Typed
    BY <1>1, <1>3 DEF Fresh, Typed
  <1> QED BY <1>1, <1>2, <1>4 DEF GoodInv, ReadPlaces, Stored

(***************************************************************************)
(* For every setup, and however the server answers, is late or goes away:  *)
(* the worker takes every line of the server for what it is, and a request *)
(* that neither failed nor was cancelled ends with exactly what the server *)
(* found, database by database.                                            *)
(***************************************************************************)
THEOREM LinesInStepHolds == Spec => []LinesInStep
  <1>1. TypeInv /\ StepInv => LinesInStep
    <2> SUFFICES ASSUME TypeInv, StepInv PROVE LinesInStep
      OBVIOUS
    <2>1. TypeOK
      BY DEF TypeInv
    <2>2. AnswersWhole
      <3> SUFFICES ASSUME pc = "done", Good PROVE AnswersWhole
        BY DEF AnswersWhole, Good
      <3>1. AllAsked /\ ResultRight
        BY DEF StepInv, GoodInv, Stored
      <3> QED BY <3>1 DEF AnswersWhole, AllAsked, ResultRight, Found, AllShown
    <2> QED BY <2>1, <2>2 DEF LinesInStep
  <1>2. Init => BrokenInv
    BY DEF Init, BrokenInv, WorkerPlaces, Stored
  <1> QED
    BY <1>1, <1>2, InitInv, InitStep, InvStep, BrokenStep, TypeStep, StepStep, PTL DEF Spec
=============================================================================
