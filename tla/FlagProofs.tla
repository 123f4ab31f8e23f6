----------------------------- MODULE FlagProofs -----------------------------
(***************************************************************************)
(* Two parts of the program where one thread raises an atomic flag when    *)
(* something is complete and others test it without a lock, for all the    *)
(* threads, parts, pages and buffers there may be:                         *)
(*                                                                         *)
(*   deferredInitDone, behind which a dictionary is open (DeferredInit),   *)
(*   isFinishedFlag, behind which a page is whole (ArticleReply).          *)
(*                                                                         *)
(* The arguments are alike: what the flag vouches for is complete before   *)
(* it is raised and does not change after, and whoever is past the test    *)
(* has seen it up.                                                         *)
(***************************************************************************)
EXTENDS DeferredInit, ArticleReply, TLAPS

-----------------------------------------------------------------------------
(***************************************************************************)
(* The double-checked lock.  The flag is raised only by the holder of the  *)
(* mutex, after the last part or after the error, and the holder of the    *)
(* mutex is the only thread inside.                                        *)
(***************************************************************************)

Inside == {"deferRecheck", "recheck", "open", "publish", "unlock", "closing"}

\* The threads inside are the holders of the mutex: there is one at most.
MutexInv == \A t \in Threads : pc[t] \in Inside => deferredInitMutex = t

\* The flag is down while a thread opens the parts, and up when it leaves.
FlagInv ==
    \A t \in Threads :
        /\ pc[t] \in {"open", "publish"} => ~deferredInitDone
        /\ pc[t] \in {"unlock", "return", "use"} => deferredInitDone

\* The parts are open, or there is an error, when the flag is up or about to be.
OpenInv ==
    /\ deferredInitDone => initError \/ opened = Parts
    /\ \A t \in Threads : pc[t] = "publish" => initError \/ opened = Parts

\* A thread that works with the dictionary was told of no error.
UseInv == \A t \in Threads : pc[t] = "use" => ~initError

IInv == TypeOK /\ MutexInv /\ FlagInv /\ OpenInv /\ UseInv

LEMMA InitIInv == Init => IInv
  <1> SUFFICES ASSUME Init PROVE IInv
      OBVIOUS
  <1>1. \A t \in Threads : pc[t] = "idle"
      BY DEF Init
  <1>2. TypeOK
      <2>1. pc \in [Threads -> {"idle"}]
          BY DEF Init
      <2>2. opened \in 0..Parts
          BY PartsAssumption DEF Init
      <2>3. deferredInitDone \in BOOLEAN /\ deferCalled \in BOOLEAN /\ initError \in BOOLEAN
          BY DEF Init
      <2> QED BY <2>1, <2>2, <2>3 DEF Init, TypeOK
  <1>3. MutexInv /\ FlagInv /\ OpenInv /\ UseInv
      BY <1>1 DEF Init, MutexInv, FlagInv, OpenInv, UseInv, Inside
  <1> QED BY <1>2, <1>3 DEF IInv

LEMMA StepIInv == IInv /\ [Next]_vars => IInv'
  <1> SUFFICES ASSUME IInv, [Next]_vars PROVE IInv'
      OBVIOUS
  <1> USE ThreadsAssumption, PartsAssumption
      DEF IInv, TypeOK, MutexInv, FlagInv, OpenInv, UseInv, Threads, Inside, Goto
  <1>1. CASE CallDeferredInit
      BY <1>1 DEF CallDeferredInit
  <1>2. CASE ListHeadwords
      BY <1>2 DEF ListHeadwords
  <1>3. CASE Destroy
      BY <1>3 DEF Destroy
  <1>4. CASE LockDeferred
      BY <1>4 DEF LockDeferred, Lock
  <1>5. CASE StartRunnable
      BY <1>5 DEF StartRunnable
  <1>6. CASE HeadwordsListed
      BY <1>6 DEF HeadwordsListed
  <1>7. CASE LockDestroy
      BY <1>7 DEF LockDestroy, Lock
  <1>8. CASE Close
      BY <1>8 DEF Close
  <1>9. CASE RunRunnable
      BY <1>9 DEF RunRunnable
  <1>10. ASSUME NEW t \in Threads, Call(t) PROVE IInv'
      BY <1>10 DEF Call, CallEnsureInitDone
  <1>11. ASSUME NEW t \in Threads, Step(t) PROVE IInv'
      <2>1. CASE Test(t)
          BY <2>1 DEF Test
      <2>2. CASE LockInit(t)
          BY <2>2 DEF LockInit, Lock
      <2>3. CASE Recheck(t)
          BY <2>3 DEF Recheck
      <2>4. CASE OpenPart(t)
          BY <2>4 DEF OpenPart
      <2>5. CASE OpenFails(t)
          BY <2>5 DEF OpenFails
      <2>6. CASE Publish(t)
          BY <2>6 DEF Publish
      <2>7. CASE Unlock(t)
          BY <2>7 DEF Unlock
      <2>8. CASE Return(t)
          BY <2>8 DEF Return
      <2>9. CASE Use(t)
          BY <2>9 DEF Use
      <2> QED BY <1>11, <2>1, <2>2, <2>3, <2>4, <2>5, <2>6, <2>7, <2>8, <2>9 DEF Step
  <1>12. CASE UNCHANGED vars
      BY <1>12 DEF vars
  <1> QED BY <1>1, <1>2, <1>3, <1>4, <1>5, <1>6, <1>7, <1>8, <1>9, <1>10, <1>11, <1>12
          DEF Next, GuiStep

LEMMA IInvHolds == Spec => []IInv
  BY InitIInv, StepIInv, PTL DEF Spec

\* The types hold, whatever the threads and the parts are.
THEOREM TypeOKHolds == Spec => []TypeOK
  <1>1. IInv => TypeOK
      BY DEF IInv
  <1> QED BY <1>1, IInvHolds, PTL

\* Two threads never open one dictionary, and none opens it a second time.
THEOREM OneInitialiserHolds == Spec => []OneInitialiser
  <1>1. IInv => OneInitialiser
      BY DEF IInv, MutexInv, FlagInv, Inside, OneInitialiser
  <1> QED BY <1>1, IInvHolds, PTL

\* Whoever gets past ensureInitDone() finds the dictionary open.
THEOREM UsersSeeWholeHolds == Spec => []UsersSeeWhole
  <1>1. IInv => UsersSeeWhole
      BY DEF IInv, FlagInv, OpenInv, UseInv, UsersSeeWhole
  <1> QED BY <1>1, IInvHolds, PTL

\* Once the flag is up neither it, nor the error, nor the parts change again.
THEOREM SettledWhenDoneHolds == Spec => SettledWhenDone
  <1>1. IInv /\ [Next]_vars
        => (deferredInitDone => deferredInitDone' /\ UNCHANGED <<opened, initError>>)
      <2> SUFFICES ASSUME IInv, [Next]_vars, deferredInitDone
                   PROVE  deferredInitDone' /\ UNCHANGED <<opened, initError>>
          OBVIOUS
      <2>1. \A t \in Threads : pc[t] \notin {"open", "publish"}
          BY DEF IInv, FlagInv
      <2>2. ASSUME NEW t \in Threads, Step(t)
            PROVE  deferredInitDone' /\ UNCHANGED <<opened, initError>>
          BY <2>1, <2>2 DEF Step, Test, LockInit, Lock, Recheck, OpenPart, OpenFails, Publish,
                            Unlock, Return, Use
      <2>3. ASSUME NEW t \in Threads, Call(t)
            PROVE  deferredInitDone' /\ UNCHANGED <<opened, initError>>
          BY <2>3 DEF Call, CallEnsureInitDone
      <2>4. CASE CallDeferredInit \/ ListHeadwords \/ Destroy \/ RunRunnable
          BY <2>4 DEF CallDeferredInit, ListHeadwords, Destroy, RunRunnable
      <2>5. CASE GuiStep
          BY <2>5 DEF GuiStep, LockDeferred, Lock, StartRunnable, HeadwordsListed, LockDestroy,
                      Close
      <2>6. CASE UNCHANGED vars
          BY <2>6 DEF vars
      <2> QED BY <2>2, <2>3, <2>4, <2>5, <2>6 DEF Next
  <1> QED BY <1>1, IInvHolds, PTL DEF Spec, SettledWhenDone

-----------------------------------------------------------------------------
(***************************************************************************)
(* The end of a page.  Once the flag of the request is seen up, by a slot  *)
(* or by the reader's first look in readData(), the data no longer         *)
(* changes, so a size read after it is the whole size.                     *)
(***************************************************************************)

\* What was read of the request without a lock between is not more than is there.
ReadInv ==
    /\ alreadyRead <= size
    /\ ~hasAnyData => size = 0
    /\ reader = "size" => sawSize <= size /\ (sawSize >= 0 => alreadyRead <= sawSize)

\* Who has seen the flag up, or heard of it, is right about it for good.
SeenInv ==
    /\ sawFinished => isFinishedFlag
    /\ reader = "asksEnd" => isFinishedFlag
    /\ events \cap {"reqFinished", "finishedSignal"} # {} => isFinishedFlag
    /\ reader = "size" /\ sawFinished => sawSize = dataSize

\* The end is told between two reads, and nothing is read after it.
EndInv ==
    /\ EndMeansAll
    /\ ended => reader = "idle"

\* The slot of finished() has run exactly when the signal was emitted.
SignalInv ==
    /\ finishSignalSent <=> finishedSignals = 1
    /\ FinishedOnce

ReplyInv == DeliveryTypeOK /\ ReadInv /\ SeenInv /\ EndInv /\ SignalInv

LEMMA InitReply == DeliveryInit => ReplyInv
  <1> SUFFICES ASSUME DeliveryInit PROVE ReplyInv
    OBVIOUS
  <1>1. DeliveryTypeOK
    <2>1. /\ size \in 0 .. MaxSize /\ sawSize \in -1 .. MaxSize
          /\ alreadyRead \in 0 .. MaxSize /\ finishedSignals \in Nat
      BY SizeAssumption DEF DeliveryInit
    <2>2. /\ hasAnyData \in BOOLEAN /\ isFinishedFlag \in BOOLEAN /\ emitted \in BOOLEAN
          /\ unseen \in BOOLEAN /\ finishSignalSent \in BOOLEAN /\ errors \in BOOLEAN
          /\ sawFinished \in BOOLEAN /\ wake \in BOOLEAN /\ ended \in BOOLEAN
      BY Zenon DEF DeliveryInit
    <2> QED  BY <2>1, <2>2 DEF DeliveryInit, DeliveryTypeOK
  <1>2. ReadInv /\ SeenInv
    BY DEF DeliveryInit, ReadInv, SeenInv
  <1>3. EndInv /\ SignalInv
    BY DEF DeliveryInit, EndInv, SignalInv, EndMeansAll, FinishedOnce
  <1> QED  BY <1>1, <1>2, <1>3 DEF ReplyInv

\* What is taken of a page at once is there, and nothing only at its end so far.
LEMMA ToRead ==
    ASSUME DeliveryTypeOK, ReadInv, reader = "size"
    PROVE  /\ toRead \in Nat
           /\ sawSize >= 0 => alreadyRead + toRead <= sawSize
           /\ sawSize >= 0 /\ toRead = 0 => alreadyRead = sawSize
           /\ sawSize < 0 => toRead = 0
           /\ alreadyRead + toRead \in 0 .. MaxSize
  BY SizeAssumption DEF DeliveryTypeOK, ReadInv, toRead

LEMMA StepReply == ReplyInv /\ [DeliveryNext]_deliveryVars => ReplyInv'
  <1> SUFFICES ASSUME ReplyInv, [DeliveryNext]_deliveryVars PROVE ReplyInv'
    OBVIOUS
  <1> USE SizeAssumption DEF ReplyInv, DeliveryTypeOK, ReadInv, SeenInv, EndInv, SignalInv,
              EndMeansAll, FinishedOnce, dataSize, Events,
              requestVars, replyVars, readerVars
  <1>1. CASE appendDataSlice
    BY <1>1 DEF appendDataSlice
  <1>2. CASE update
    BY <1>2 DEF update, Signal
  <1>3. CASE finishFlag
    BY <1>3 DEF finishFlag
  <1>4. CASE finishEmit
    BY <1>4, ZenonT(30) DEF finishEmit, Signal
  <1>5. CASE Connect
    BY <1>5 DEF Connect
  <1>6. CASE PostMissed
    BY <1>6 DEF PostMissed
  <1>7. ASSUME NEW e \in Events, ReadyRead(e) PROVE ReplyInv'
    BY <1>7 DEF ReadyRead
  <1>8. ASSUME NEW e \in Events, Finished(e) PROVE ReplyInv'
    <2>1. isFinishedFlag /\ isFinishedFlag'
      BY <1>8 DEF Finished
    <2>2. finishSignalSent' /\ finishedSignals' = 1
      BY <1>8 DEF Finished
    <2>3. errors' = ~hasAnyData'
      <3>1. errors' = (errors \/ dataSize < 0) /\ hasAnyData' = hasAnyData
        BY <1>8 DEF Finished
      <3>2. errors => ~hasAnyData
        BY <1>8 DEF Finished
      <3>3. CASE hasAnyData
        BY <3>1, <3>2, <3>3
      <3>4. CASE ~hasAnyData
        BY <3>1, <3>2, <3>4
      <3> QED  BY <3>3, <3>4
    <2>4. SignalInv'
      BY <2>1, <2>2, <2>3
    <2>5. DeliveryTypeOK'
      BY <1>8, <2>2 DEF Finished
    <2>6. ReadInv' /\ SeenInv' /\ EndInv'
      BY <1>8, <2>1 DEF Finished
    <2> QED  BY <2>4, <2>5, <2>6
  <1>9. CASE ReadFlag
    BY <1>9 DEF ReadFlag
  <1>10. CASE ReadSize
    BY <1>10 DEF ReadSize
  <1>11. CASE ReadSlice
    BY <1>11, ToRead DEF ReadSlice
  <1>12. CASE AskEnd
    BY <1>12 DEF AskEnd
  <1>13. CASE AnswerEnd
    BY <1>13 DEF AnswerEnd
  <1>14. CASE LookFinished
    BY <1>14 DEF LookFinished
  <1>15. CASE LookSize
    BY <1>15 DEF LookSize
  <1>16. CASE UNCHANGED deliveryVars
    BY <1>16 DEF deliveryVars
  <1> QED  BY <1>1, <1>2, <1>3, <1>4, <1>5, <1>6, <1>7, <1>8, <1>9, <1>10, <1>11, <1>12,
              <1>13, <1>14, <1>15, <1>16
          DEF DeliveryNext, Request, Replying, Construct, Slots, Reading

(***************************************************************************)
(* The web view is told the end after the last byte, and finished() comes  *)
(* once and with an error exactly for a page without content, however the  *)
(* three threads interleave and however long the page is.                  *)
(***************************************************************************)
THEOREM EndToldHolds == DeliverySpec => []EndTold
  <1>1. ReplyInv => EndTold
    BY DEF ReplyInv, EndInv, SignalInv, EndTold
  <1> QED  BY <1>1, InitReply, StepReply, PTL DEF DeliverySpec
=============================================================================
