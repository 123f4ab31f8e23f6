---------------------------- MODULE ArticleReply ----------------------------
(***************************************************************************)
(* The reply that hands a page or a resource to the web view               *)
(* (ArticleResourceReply, src/src/article_netmgr.cc) while the request     *)
(* behind it (DataRequest, src/src/dict/dictionary.cc) still grows.        *)
(*                                                                         *)
(* Three threads: the one that fills and finishes the request, the GUI     *)
(* thread, where the reply is constructed and its slots run as queued      *)
(* events, and the web view's, which calls readData() and atEnd().  Each   *)
(* access to the request takes its lock, or is atomic, by itself: a        *)
(* function that makes two of them takes two steps.                        *)
(***************************************************************************)
EXTENDS Integers

CONSTANTS
    MaxSize,    \* bound: bytes the request gets
    MaxRead     \* the web view's buffer

ASSUME SizeAssumption == MaxSize \in Nat /\ MaxRead \in Nat \ {0}

VARIABLES
    size, hasAnyData,       \* DataRequest::data, hasAnyData
    isFinishedFlag,
    emitted,                \* the request's finished() was emitted
    unseen,                 \* bytes appended since update() or finish()
    reply,                  \* how far the constructor is
    events,                 \* queued for the reply
    finishSignalSent,
    finishedSignals,        \* emissions of the reply's finished()
    errors,                 \* whether errorOccurred() was emitted
    reader,                 \* where the web view's thread is
    sawFinished, sawSize,   \* locals of readData() and atEnd()
    alreadyRead,
    wake,                   \* a readyRead() the web view has not answered
    ended                   \* readData() returned -1, or atEnd() was true

requestVars == <<size, hasAnyData, isFinishedFlag, emitted, unseen>>
replyVars == <<reply, events, finishSignalSent, finishedSignals, errors>>
readerVars == <<reader, sawFinished, sawSize, alreadyRead, ended>>
deliveryVars == <<requestVars, replyVars, readerVars, wake>>

Events == {"reqUpdated", "reqFinished", "readyReadSignal", "finishedSignal"}

DeliveryTypeOK ==
    /\ size \in 0 .. MaxSize
    /\ hasAnyData \in BOOLEAN
    /\ isFinishedFlag \in BOOLEAN
    /\ emitted \in BOOLEAN
    /\ unseen \in BOOLEAN
    /\ reply \in {"new", "connected", "looked", "missed", "made"}
    /\ events \subseteq Events
    /\ finishSignalSent \in BOOLEAN
    /\ finishedSignals \in Nat
    /\ errors \in BOOLEAN
    /\ reader \in {"idle", "flag", "size", "asksEnd"}
    /\ sawFinished \in BOOLEAN
    /\ sawSize \in -1 .. MaxSize
    /\ alreadyRead \in 0 .. MaxSize
    /\ wake \in BOOLEAN
    /\ ended \in BOOLEAN

\* A request may have content that is empty (DataRequestInstant( true ), or an
\* answer from the network): hasAnyData is set and there are no bytes.
DeliveryInit ==
    /\ size = 0
    /\ hasAnyData \in BOOLEAN
    /\ isFinishedFlag = FALSE
    /\ emitted = FALSE
    /\ unseen = FALSE
    /\ reply = "new"
    /\ events = {}
    /\ finishSignalSent = FALSE
    /\ finishedSignals = 0
    /\ errors = FALSE
    /\ reader = "idle"
    /\ sawFinished = FALSE
    /\ sawSize = 0
    /\ alreadyRead = 0
    /\ wake = FALSE
    /\ ended = FALSE

dataSize == IF hasAnyData THEN size ELSE -1

\* A signal of the request reaches the reply once it is connected.
Signal(e) == events' = IF reply = "new" THEN events ELSE events \cup {e}

-----------------------------------------------------------------------------
(***************************************************************************)
(* The request.                                                            *)
(***************************************************************************)
\* The derivatives that append set hasAnyData, at the latest with the bytes.
appendDataSlice ==
    /\ ~isFinishedFlag
    /\ size < MaxSize
    /\ size' = size + 1
    /\ hasAnyData' = TRUE
    /\ unseen' = TRUE
    /\ UNCHANGED <<isFinishedFlag, emitted, replyVars, readerVars, wake>>

update ==
    /\ unseen /\ ~isFinishedFlag
    /\ unseen' = FALSE
    /\ Signal("reqUpdated")
    /\ UNCHANGED <<size, hasAnyData, isFinishedFlag, emitted, reply, finishSignalSent,
                   finishedSignals, errors, readerVars, wake>>

\* finish(): the flag and the signal are two steps.
finishFlag ==
    /\ ~isFinishedFlag
    /\ isFinishedFlag' = TRUE
    /\ UNCHANGED <<size, hasAnyData, emitted, unseen, replyVars, readerVars, wake>>

finishEmit ==
    /\ isFinishedFlag /\ ~emitted
    /\ emitted' = TRUE
    /\ unseen' = FALSE
    /\ Signal("reqFinished")
    /\ UNCHANGED <<size, hasAnyData, isFinishedFlag, reply, finishSignalSent,
                   finishedSignals, errors, readerVars, wake>>

-----------------------------------------------------------------------------
(***************************************************************************)
(* The reply's constructor connects first and looks at the request next,   *)
(* posting itself the signals it may have missed.                          *)
(***************************************************************************)
Connect ==
    /\ reply = "new"
    /\ reply' = "connected"
    /\ UNCHANGED <<requestVars, events, finishSignalSent, finishedSignals, errors,
                   readerVars, wake>>

\* isFinished(), and dataSize() when it was not
LookFinished ==
    /\ reply = "connected"
    /\ reply' = IF isFinishedFlag THEN "missed" ELSE "looked"
    /\ UNCHANGED <<requestVars, events, finishSignalSent, finishedSignals, errors,
                   readerVars, wake>>

LookSize ==
    /\ reply = "looked"
    /\ reply' = IF dataSize > 0 THEN "missed" ELSE "made"
    /\ UNCHANGED <<requestVars, events, finishSignalSent, finishedSignals, errors,
                   readerVars, wake>>

\* Mutant: nothing is posted.
PostNothing ==
    /\ reply = "missed"
    /\ reply' = "made"
    /\ UNCHANGED <<requestVars, events, finishSignalSent, finishedSignals, errors,
                   readerVars, wake>>

\* Something was missed; isFinished() is asked again for what.
PostMissed ==
    /\ reply = "missed"
    /\ reply' = "made"
    /\ events' = events \cup {"readyReadSignal"}
                        \cup (IF isFinishedFlag THEN {"finishedSignal"} ELSE {})
    /\ UNCHANGED <<requestVars, finishSignalSent, finishedSignals, errors, readerVars, wake>>

\* reqUpdated(), readyReadSlot()
ReadyRead(e) ==
    /\ reply = "made"
    /\ e \in events \cap {"reqUpdated", "readyReadSignal"}
    /\ events' = events \ {e}
    /\ wake' = TRUE
    /\ UNCHANGED <<requestVars, reply, finishSignalSent, finishedSignals, errors, readerVars>>

\* Mutant: the signal is not noted.
FinishedAgain(e) ==
    /\ reply = "made"
    /\ e \in events \cap {"reqFinished", "finishedSignal"}
    /\ events' = events \ {e}
    /\ wake' = (wake \/ e = "reqFinished")
    /\ errors' = (errors \/ dataSize < 0)
    /\ finishedSignals' = finishedSignals + 1
    /\ UNCHANGED <<requestVars, reply, finishSignalSent, readerVars>>

\* reqFinished() and finishedSlot()
Finished(e) ==
    /\ reply = "made"
    /\ e \in events \cap {"reqFinished", "finishedSignal"}
    /\ events' = events \ {e}
    /\ wake' = (wake \/ e = "reqFinished")
    /\ errors' = (errors \/ dataSize < 0)
    /\ finishSignalSent' = TRUE
    /\ finishedSignals' = IF finishSignalSent THEN finishedSignals ELSE finishedSignals + 1
    /\ UNCHANGED <<requestVars, reply, readerVars>>

-----------------------------------------------------------------------------
(***************************************************************************)
(* The web view: on readyRead() it calls readData() until that returns     *)
(* nothing, and it may ask atEnd() at any time.                            *)
(***************************************************************************)
ReadFlag ==
    /\ reader = "idle" /\ wake /\ ~ended
    /\ reader' = "flag"
    /\ wake' = FALSE
    /\ sawFinished' = isFinishedFlag
    /\ UNCHANGED <<requestVars, replyVars, sawSize, alreadyRead, ended>>

ReadSize ==
    /\ reader = "flag"
    /\ reader' = "size"
    /\ sawSize' = dataSize
    /\ UNCHANGED <<requestVars, replyVars, sawFinished, alreadyRead, wake, ended>>

\* Mutant: a request without data is not recognised.
toReadUnchecked ==
    LET left == sawSize - alreadyRead IN IF MaxRead < left THEN MaxRead ELSE left

toRead ==
    LET left == sawSize - alreadyRead
    IN  IF sawSize < 0 THEN 0 ELSE IF MaxRead < left THEN MaxRead ELSE left

\* Mutant: the flag is looked at last.
ReadSliceThenFlag ==
    /\ reader = "size"
    /\ reader' = "idle"
    /\ alreadyRead' = alreadyRead + toRead
    /\ ended' = (toRead = 0 /\ isFinishedFlag)
    /\ wake' = (wake \/ toRead > 0)
    /\ UNCHANGED <<requestVars, replyVars, sawFinished, sawSize>>

ReadSlice ==
    /\ reader = "size"
    /\ reader' = "idle"
    /\ alreadyRead' = alreadyRead + toRead
    /\ ended' = (toRead = 0 /\ sawFinished)
    /\ wake' = (wake \/ toRead > 0)
    /\ UNCHANGED <<requestVars, replyVars, sawFinished, sawSize>>

\* atEnd(): isFinished() first, the bytes available next.
AskEnd ==
    /\ reader = "idle" /\ reply = "made" /\ ~ended
    /\ isFinishedFlag
    /\ reader' = "asksEnd"
    /\ UNCHANGED <<requestVars, replyVars, sawFinished, sawSize, alreadyRead, wake, ended>>

AnswerEnd ==
    /\ reader = "asksEnd"
    /\ reader' = "idle"
    /\ ended' = (dataSize < 0 \/ dataSize - alreadyRead = 0)
    /\ UNCHANGED <<requestVars, replyVars, sawFinished, sawSize, alreadyRead, wake>>

-----------------------------------------------------------------------------
Request == appendDataSlice \/ update \/ finishFlag \/ finishEmit
Slots == (\E e \in Events : ReadyRead(e) \/ Finished(e))
Construct == Connect \/ LookFinished \/ LookSize \/ PostMissed
Replying == Construct \/ Slots
Reading == ReadFlag \/ ReadSize \/ ReadSlice

DeliveryNext == Request \/ Replying \/ Reading \/ AskEnd \/ AnswerEnd

DeliverySpec == DeliveryInit /\ [][DeliveryNext]_deliveryVars

(***************************************************************************)
(* The request finishes in the end, events are delivered and the web view  *)
(* reads when it is told to, also if it asks atEnd() again and again.      *)
(***************************************************************************)
FairDelivery ==
    /\ DeliverySpec
    /\ WF_deliveryVars(finishFlag) /\ WF_deliveryVars(finishEmit)
    /\ WF_deliveryVars(Construct)
    /\ \A e \in Events : WF_deliveryVars(ReadyRead(e) \/ Finished(e))
    /\ SF_deliveryVars(Reading) /\ WF_deliveryVars(AnswerEnd)

-----------------------------------------------------------------------------
(***************************************************************************)
(* The web view is told the end only when the request is finished and      *)
(* every byte of it was read: a page is never cut short because it grew    *)
(* and finished in the middle of readData().                               *)
(***************************************************************************)
EndMeansAll == ended => isFinishedFlag /\ (hasAnyData => alreadyRead = size)

(***************************************************************************)
(* finished() is emitted once although two paths lead to it, and the error *)
(* of a missing content exactly for a request that finished without data.  *)
(***************************************************************************)
FinishedOnce ==
    /\ finishedSignals <= 1
    /\ finishedSignals = 1 => isFinishedFlag /\ errors = ~hasAnyData
    /\ errors => finishedSignals = 1

(***************************************************************************)
(* The end as its two observers see it, the reader and the web view.       *)
(***************************************************************************)
EndTold == DeliveryTypeOK /\ EndMeansAll /\ FinishedOnce

(***************************************************************************)
(* Whenever the request finishes, before, during or after the construction *)
(* of the reply, the web view gets everything and the reply finishes.      *)
(***************************************************************************)
AllDelivered == <>(ended /\ finishedSignals = 1)
=============================================================================
