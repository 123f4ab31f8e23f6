-------------------------- MODULE FtsIndexesProofs --------------------------
(***************************************************************************)
(* Proofs about full-text indexing.                                        *)
(*                                                                         *)
(* First the index of one dictionary (FtsIndex), for any number of         *)
(* articles, stops, crashes, errors and replaced files, when the articles  *)
(* are indexed in ascending order of their addresses (dsl.cc and most      *)
(* formats).  The resumed build knows only the address of the last         *)
(* document.  That is enough because the documents of the files as they    *)
(* are, are always the first articles of the order, with the mark after    *)
(* all of them, in the session and on disk: whatever is flushed or lost is *)
(* cut at the end.                                                         *)
(*                                                                         *)
(* Then the indexing thread and the main window (FtsIndexing), for any     *)
(* list of dictionaries, any of them big, and any number of restarts.      *)
(***************************************************************************)
EXTENDS FtsIndex, FtsIndexing, SequenceTheorems, TLAPS

InAscendingOrder == \A i, j \in DOMAIN Order : i < j => Order[i] < Order[j]

\* The documents are those a build from nothing begins with.
Begun(docs) ==
    /\ Len(docs) <= Len(Order) + 1
    /\ \A i \in DOMAIN docs :
           docs[i].data = IF i <= Len(Order) THEN Order[i] ELSE FinishMark

\* No document is of files still to come.
Past(docs) == \A i \in DOMAIN docs : docs[i].of <= version

DiskInv ==
    /\ Past(disk)
    /\ Fresh(disk) => Begun(disk)
    /\ Fresh(disk) /\ disk # <<>> => stamp = version

\* The session, until it is at the mark, is behind it.
SessionInv ==
    /\ phase # "idle" => running
    /\ Past(db)
    /\ Fresh(db) => Begun(db)
    /\ phase \in {"open", "articles"} /\ Fresh(db) => Len(db) <= Len(Order)
    /\ phase = "mark" /\ Fresh(db) => Len(db) = Len(Order) + 1

\* Where the loop is: past the articles that are in, or on its way there.
LoopInv ==
    phase = "articles" /\ Fresh(db) =>
        /\ skip => db # <<>> /\ lastAddress = Order[Len(db)] /\ pos <= Len(db) + 1
        /\ ~skip => pos = Len(db) + 1

IInv == IndexTypeOK /\ DiskInv /\ SessionInv /\ LoopInv

LEMMA OrderFacts ==
    /\ Len(Order) \in Nat
    /\ DOMAIN Order = 1 .. Len(Order)
    /\ \A i \in DOMAIN Order : Order[i] \in Nat /\ Order[i] \in Addresses /\ Order[i] # FinishMark
    /\ \A a \in Addresses : a \in Nat /\ a # FinishMark
  BY OrderAssumption DEF Addresses, FinishMark

\* An index with the mark has everything before it.
LEMMA MarkIsLast ==
    ASSUME NEW docs \in Seq(Document), Begun(docs), HasMark(docs)
    PROVE  Len(docs) = Len(Order) + 1
  <1>1. Len(docs) \in Nat \ {0} /\ DOMAIN docs = 1 .. Len(docs)
    BY DEF HasMark
  <1>2. docs[Len(docs)].data = FinishMark
    BY DEF HasMark
  <1>3. Len(docs) <= Len(Order) + 1
    BY DEF Begun
  <1>4. ~(Len(docs) <= Len(Order))
    <2> SUFFICES ASSUME Len(docs) <= Len(Order) PROVE FALSE
      OBVIOUS
    <2>1. docs[Len(docs)].data = Order[Len(docs)]
      BY <1>1, OrderFacts DEF Begun
    <2>2. Order[Len(docs)] # FinishMark
      BY <1>1, OrderFacts
    <2> QED  BY <1>2, <2>1, <2>2
  <1>5. Len(Order) \in Nat
    BY OrderFacts
  <1>6. \A m, n \in Nat : m <= n + 1 /\ ~(m <= n) => m = n + 1
    OBVIOUS
  <1> QED  BY <1>1, <1>3, <1>4, <1>5, <1>6, Zenon

\* And one without the mark has at most the articles.
LEMMA NoMarkIsShort ==
    ASSUME NEW docs \in Seq(Document), Begun(docs), ~HasMark(docs)
    PROVE  Len(docs) <= Len(Order)
  <1>1. Len(docs) \in Nat /\ DOMAIN docs = 1 .. Len(docs)
    OBVIOUS
  <1>2. Len(docs) <= Len(Order) + 1
    BY DEF Begun
  <1>3. Len(Order) \in Nat
    BY OrderFacts
  <1>4. Len(docs) # Len(Order) + 1
    <2> SUFFICES ASSUME Len(docs) = Len(Order) + 1 PROVE FALSE
      OBVIOUS
    <2>1. docs[Len(docs)].data = FinishMark
      BY <1>1, <1>3 DEF Begun
    <2>2. docs # <<>>
      BY <1>1, <1>3
    <2> QED  BY <2>1, <2>2 DEF HasMark
  <1>5. \A m, n \in Nat : m <= n + 1 /\ m # n + 1 => m <= n
    OBVIOUS
  <1> QED  BY <1>1, <1>2, <1>3, <1>4, <1>5, Zenon

LEMMA EmptyFacts ==
    /\ <<>> \in Seq(Document) /\ Len(<<>>) = 0
    /\ Fresh(<<>>) /\ Past(<<>>) /\ Begun(<<>>)
  BY OrderFacts DEF Fresh, Past, Begun

LEMMA InitIInv == IndexInit => IInv
  <1> SUFFICES ASSUME IndexInit PROVE IInv
    OBVIOUS
  <1>1. IndexTypeOK
    <2>1. /\ version \in Versions /\ stamp \in Versions \cup {Absent} /\ lastAddress \in Nat
          /\ pos \in 1 .. Len(Order) + 1 /\ phase \in Phases
          /\ cancels \in 0 .. MaxCancels /\ crashes \in 0 .. MaxCrashes
          /\ errors \in 0 .. MaxErrors
      BY OrderFacts, BoundsAssumption DEF IndexInit, Versions, Phases
    <2>2. skip \in BOOLEAN /\ completed \in BOOLEAN /\ cancelled \in BOOLEAN
          /\ running \in BOOLEAN
      BY Zenon DEF IndexInit
    <2> QED  BY <2>1, <2>2, EmptyFacts DEF IndexInit, IndexTypeOK
  <1>2. DiskInv /\ SessionInv /\ LoopInv
    BY EmptyFacts DEF IndexInit, DiskInv, SessionInv, LoopInv
  <1> QED  BY <1>1, <1>2 DEF IInv

-----------------------------------------------------------------------------
(***************************************************************************)
(* What is written is what the session has, so the disk is as good.        *)
(***************************************************************************)
LEMMA WrittenInv ==
    ASSUME IInv, Written(db)
    PROVE  /\ disk' \in Seq(Document) /\ stamp' \in Versions \cup {Absent}
           /\ version' = version
           /\ DiskInv'
  <1>1. disk' = db /\ version' = version /\ stamp' = IF db = disk THEN stamp ELSE version
    BY DEF Written
  <1>2. Past(disk)' /\ (Fresh(disk)' => Begun(disk)')
    BY <1>1 DEF IInv, SessionInv, Past, Fresh, Begun
  <1>3. Fresh(disk)' /\ disk' # <<>> => stamp' = version'
    BY <1>1 DEF IInv, DiskInv, Fresh
  <1> QED  BY <1>1, <1>2, <1>3 DEF IInv, IndexTypeOK, DiskInv

LEMMA DiskKept ==
    ASSUME IInv, UNCHANGED fileVars
    PROVE  /\ disk' \in Seq(Document) /\ stamp' \in Versions \cup {Absent}
           /\ version' = version
           /\ DiskInv'
  BY DEF IInv, IndexTypeOK, DiskInv, Past, Fresh, Begun, fileVars

\* The session ends, however it does.
LEMMA SessionEnds ==
    ASSUME IInv, db' = <<>>, phase' = "idle", version' \in Versions
    PROVE  SessionInv' /\ LoopInv' /\ db' \in Seq(Document) /\ phase' \in Phases
  <1>1. Past(db)' /\ Begun(db)'
    BY OrderFacts DEF Past, Begun
  <1> QED  BY <1>1, EmptyFacts DEF SessionInv, LoopInv, Phases

\* The session and the files are left alone.
LEMMA SessionKept ==
    ASSUME IInv, UNCHANGED <<sessionVars, version>>, running => running'
    PROVE  /\ SessionInv' /\ LoopInv' /\ db' \in Seq(Document) /\ phase' \in Phases
           /\ pos' \in 1 .. Len(Order) + 1 /\ skip' \in BOOLEAN /\ lastAddress' \in Nat
  BY DEF IInv, IndexTypeOK, SessionInv, LoopInv, Past, Fresh, Begun, sessionVars

-----------------------------------------------------------------------------
(***************************************************************************)
(* The steps of the session.                                               *)
(***************************************************************************)
LEMMA MakeFTSIndexInv == IInv /\ MakeFTSIndex => IInv'
  <1> SUFFICES ASSUME IInv, MakeFTSIndex PROVE IInv'
    OBVIOUS
  <1> USE DEF MakeFTSIndex, boundVars
  <1>1. CASE UpToDate
    <2>1. UNCHANGED fileVars /\ UNCHANGED <<sessionVars, version>> /\ running' = running
      BY <1>1 DEF fileVars
    <2>2. completed' \in BOOLEAN /\ cancelled' \in BOOLEAN /\ running' \in BOOLEAN
      BY <1>1 DEF IInv, IndexTypeOK
    <2>3. DiskInv' /\ SessionInv' /\ LoopInv'
      BY <2>1, DiskKept, SessionKept
    <2>4. IndexTypeOK'
      BY <2>1, <2>2 DEF IInv, IndexTypeOK, sessionVars, fileVars
    <2> QED  BY <2>3, <2>4 DEF IInv
  <1>2. CASE ~UpToDate
    <2>1. /\ phase' = "open" /\ db' = disk /\ running' /\ stamp' \in Versions \cup {Absent}
          /\ stamp' = IF stamp = Absent THEN version ELSE stamp
          /\ UNCHANGED <<version, disk, pos, skip, lastAddress, completed, cancelled, running,
                         cancels, crashes, errors>>
      BY <1>2 DEF IInv, IndexTypeOK
    <2>2. IndexTypeOK'
      BY <2>1 DEF IInv, IndexTypeOK, Phases
    <2>3. DiskInv'
      BY <2>1 DEF IInv, IndexTypeOK, DiskInv, Past, Fresh, Begun, Versions, Absent
    <2>4. Fresh(disk) => ~HasMark(disk)
      <3>1. SUFFICES ASSUME Fresh(disk), HasMark(disk) PROVE FALSE
        OBVIOUS
      <3>2. stamp = version
        BY <3>1 DEF IInv, DiskInv, HasMark
      <3>3. stamp # Absent /\ ~(stamp < version)
        BY <3>2 DEF IInv, IndexTypeOK, Versions, Absent
      <3> QED  BY <1>2, <3>1, <3>3 DEF UpToDate, needToRebuildIndex, ftsIndexIsOldOrBad
    <2>5. Fresh(disk) => Len(disk) <= Len(Order)
      BY <2>4, NoMarkIsShort DEF IInv, IndexTypeOK, DiskInv
    <2>6. SessionInv' /\ LoopInv'
      BY <2>1, <2>5 DEF IInv, DiskInv, SessionInv, LoopInv, Past, Fresh, Begun
    <2> QED  BY <2>2, <2>3, <2>6 DEF IInv
  <1> QED  BY <1>1, <1>2

LEMMA UserAbortInv == IInv /\ UserAbort => IInv'
  <1> SUFFICES ASSUME IInv, UserAbort PROVE IInv'
    OBVIOUS
  <1> USE DEF UserAbort, boundVars
  <1>1. DiskInv' /\ disk' \in Seq(Document) /\ stamp' \in Versions \cup {Absent}
    <2>1. CASE UNCHANGED <<disk, stamp>>
      BY <2>1, DiskKept DEF fileVars
    <2>2. CASE disk' = <<>> /\ stamp' = Absent
      BY <2>2, OrderFacts DEF DiskInv, Past, Fresh, Begun
    <2> QED  BY <2>1, <2>2
  <1>2. SessionInv' /\ LoopInv' /\ db' \in Seq(Document) /\ phase' \in Phases
    BY SessionEnds DEF IInv, IndexTypeOK
  <1> QED  BY <1>1, <1>2 DEF IInv, IndexTypeOK

LEMMA FindLastAddressInv == IInv /\ FindLastAddress => IInv'
  <1> SUFFICES ASSUME IInv, FindLastAddress PROVE IInv'
    OBVIOUS
  <1> USE DEF FindLastAddress, boundVars
  <1>1. DiskInv' /\ disk' \in Seq(Document) /\ stamp' \in Versions \cup {Absent}
    BY DiskKept
  <1>2. SessionInv'
    BY DEF IInv, SessionInv, Past, Fresh, Begun, fileVars
  <1>3. CASE db = <<>>
    <2>1. lastAddress' = 0 /\ skip' = FALSE /\ pos' = 1 /\ Len(db') = 0
      BY <1>3
    <2>2. LoopInv'
      BY <2>1 DEF LoopInv
    <2>3. IndexTypeOK'
      BY <1>1, <2>1, OrderFacts DEF IInv, IndexTypeOK, fileVars, Phases
    <2> QED  BY <1>1, <1>2, <2>2, <2>3 DEF IInv
  <1>4. CASE db # <<>>
    <2>1. lastAddress' = Atoi(db[Len(db)].data) /\ skip' = TRUE /\ pos' = 1
      BY <1>4
    <2>2. Len(db) \in 1 .. Len(db) /\ Len(db) \in DOMAIN db /\ db[Len(db)] \in Document
      BY <1>4 DEF IInv, IndexTypeOK
    <2>3. lastAddress' \in Nat
      BY <2>1, <2>2, OrderFacts DEF Document, Atoi
    <2>4. Fresh(db) => lastAddress' = Order[Len(db)]
      <3>1. SUFFICES ASSUME Fresh(db) PROVE lastAddress' = Order[Len(db)]
        OBVIOUS
      <3>2. Len(db) <= Len(Order) /\ Begun(db)
        BY <3>1 DEF IInv, SessionInv
      <3>3. db[Len(db)].data = Order[Len(db)]
        BY <2>2, <3>2 DEF Begun
      <3>4. Order[Len(db)] # FinishMark
        BY <2>2, <3>2, OrderFacts
      <3> QED  BY <2>1, <3>3, <3>4 DEF Atoi
    <2>5. LoopInv'
      BY <2>1, <2>2, <2>4, <1>4 DEF LoopInv, Fresh, fileVars
    <2>6. IndexTypeOK'
      BY <1>1, <2>1, <2>3, OrderFacts DEF IInv, IndexTypeOK, fileVars, Phases
    <2> QED  BY <1>1, <1>2, <2>5, <2>6 DEF IInv
  <1> QED  BY <1>3, <1>4
-----------------------------------------------------------------------------
LEMMA SkipArticleInv == IInv /\ InAscendingOrder /\ SkipArticle => IInv'
  <1> SUFFICES ASSUME IInv, InAscendingOrder, SkipArticle PROVE IInv'
    OBVIOUS
  <1> USE DEF SkipArticle, boundVars
  <1>1. DiskInv' /\ disk' \in Seq(Document) /\ stamp' \in Versions \cup {Absent}
    BY DiskKept
  <1>2. SessionInv'
    BY DEF IInv, SessionInv, Past, Fresh, Begun, fileVars
  <1>3. pos \in 1 .. Len(Order) /\ pos' = pos + 1 /\ pos' \in 1 .. Len(Order) + 1
    BY OrderFacts DEF IInv, IndexTypeOK
  <1>4. LoopInv'
    <2>1. SUFFICES ASSUME Fresh(db) PROVE skip' => /\ db # <<>>
                                                   /\ lastAddress = Order[Len(db)]
                                                   /\ pos' <= Len(db) + 1
      BY DEF LoopInv, Fresh, fileVars, Skipped
    <2>2. skip /\ ~(Order[pos] > lastAddress)
      BY DEF Skipped
    <2>3. db # <<>> /\ lastAddress = Order[Len(db)] /\ pos <= Len(db) + 1
      BY <2>1, <2>2 DEF IInv, LoopInv
    <2>4. Len(db) \in 1 .. Len(Order)
      BY <2>1, <2>3 DEF IInv, IndexTypeOK, SessionInv
    <2>5. pos # Len(db) + 1
      <3> SUFFICES ASSUME pos = Len(db) + 1 PROVE FALSE
        OBVIOUS
      <3>1. Len(db) \in DOMAIN Order /\ pos \in DOMAIN Order /\ Len(db) < pos
        BY <1>3, <2>4, OrderFacts
      <3>2. Order[Len(db)] < Order[pos]
        BY <3>1 DEF InAscendingOrder
      <3>3. Order[Len(db)] \in Nat /\ Order[pos] \in Nat
        BY <3>1, OrderFacts
      <3> QED  BY <2>2, <2>3, <3>2, <3>3
    <2> QED  BY <1>3, <2>3, <2>4, <2>5
  <1> QED  BY <1>1, <1>2, <1>3, <1>4 DEF IInv, IndexTypeOK, fileVars

LEMMA IndexArticleInv == IInv /\ InAscendingOrder /\ IndexArticle => IInv'
  <1> SUFFICES ASSUME IInv, InAscendingOrder, IndexArticle PROVE IInv'
    OBVIOUS
  <1> USE DEF IndexArticle, boundVars
  <1>1. DiskInv' /\ disk' \in Seq(Document) /\ stamp' \in Versions \cup {Absent}
    BY DiskKept
  <1>2. pos \in 1 .. Len(Order) /\ pos' = pos + 1 /\ pos' \in 1 .. Len(Order) + 1
    BY OrderFacts DEF IInv, IndexTypeOK
  <1>3. /\ db \in Seq(Document) /\ Article(Order[pos]) \in Document
        /\ Article(Order[pos]).data = Order[pos] /\ Article(Order[pos]).of = version
    BY <1>2, OrderFacts DEF IInv, IndexTypeOK, Article, Document
  <1>4. /\ db' \in Seq(Document) /\ Len(db') = Len(db) + 1 /\ Len(db) \in Nat
        /\ DOMAIN db = 1 .. Len(db) /\ DOMAIN db' = 1 .. Len(db) + 1
        /\ \A i \in DOMAIN db : db'[i] = db[i]
        /\ db'[Len(db) + 1] = Article(Order[pos])
    BY <1>3
  <1>5. phase' = "articles" /\ version' = version /\ running' = running /\ ~skip'
    BY DEF fileVars
  <1>6. Past(db)' /\ (Fresh(db)' => Fresh(db))
    BY <1>3, <1>4, <1>5, SMTT(30) DEF IInv, IndexTypeOK, SessionInv, Past, Fresh, Versions
  <1>7. Fresh(db) => pos = Len(db) + 1
    <2>1. SUFFICES ASSUME Fresh(db), skip PROVE pos = Len(db) + 1
      BY DEF IInv, LoopInv
    <2>2. Order[pos] > lastAddress
      BY <2>1 DEF Skipped
    <2>3. db # <<>> /\ lastAddress = Order[Len(db)] /\ pos <= Len(db) + 1
      BY <2>1 DEF IInv, LoopInv
    <2>4. Len(db) \in 1 .. Len(Order)
      BY <2>1, <2>3 DEF IInv, IndexTypeOK, SessionInv
    <2>5. ~(pos < Len(db)) /\ pos # Len(db)
      <3>1. Len(db) \in DOMAIN Order /\ pos \in DOMAIN Order
        BY <1>2, <2>4, OrderFacts
      <3>2. Order[Len(db)] \in Nat /\ Order[pos] \in Nat
        BY <3>1, OrderFacts
      <3>3. pos < Len(db) => Order[pos] < Order[Len(db)]
        BY <3>1 DEF InAscendingOrder
      <3> QED  BY <2>2, <2>3, <3>2, <3>3
    <2> QED  BY <1>2, <2>3, <2>4, <2>5
  <1>8. Fresh(db)' => Begun(db)' /\ Len(db') <= Len(Order) /\ pos' = Len(db') + 1
    <2>1. SUFFICES ASSUME Fresh(db), pos = Len(db) + 1, Begun(db)
                   PROVE  Begun(db)' /\ Len(db') <= Len(Order) /\ pos' = Len(db') + 1
      BY <1>6, <1>7 DEF IInv, SessionInv
    <2>2. Len(db') <= Len(Order) /\ pos' = Len(db') + 1
      BY <1>2, <1>4, <2>1
    <2>3. ASSUME NEW i \in DOMAIN db'
          PROVE  db'[i].data = IF i <= Len(Order) THEN Order[i] ELSE FinishMark
      <3>1. CASE i \in DOMAIN db
        BY <3>1, <1>4, <2>1 DEF Begun
      <3>2. CASE i = Len(db) + 1
        BY <3>2, <1>2, <1>3, <1>4, <2>1
      <3> QED  BY <1>4, <2>3, <3>1, <3>2
    <2> QED  BY <1>2, <1>4, <2>2, <2>3, OrderFacts DEF Begun
  <1>9. SessionInv' /\ LoopInv'
    BY <1>5, <1>6, <1>8 DEF IInv, SessionInv, LoopInv
  <1> QED  BY <1>1, <1>2, <1>4, <1>5, <1>9 DEF IInv, IndexTypeOK, fileVars

LEMMA AddMarkInv == IInv /\ AddMark => IInv'
  <1> SUFFICES ASSUME IInv, AddMark PROVE IInv'
    OBVIOUS
  <1> USE DEF AddMark, boundVars
  <1>1. DiskInv' /\ disk' \in Seq(Document) /\ stamp' \in Versions \cup {Absent}
    BY DiskKept
  <1>2. pos = Len(Order) + 1 /\ Len(Order) \in Nat
    BY OrderFacts DEF IInv, IndexTypeOK
  <1>3. db \in Seq(Document) /\ Mark \in Document /\ Mark.data = FinishMark /\ Mark.of = version
    BY DEF IInv, IndexTypeOK, Mark, Document
  <1>4. /\ db' \in Seq(Document) /\ Len(db') = Len(db) + 1 /\ Len(db) \in Nat
        /\ DOMAIN db = 1 .. Len(db) /\ DOMAIN db' = 1 .. Len(db) + 1
        /\ \A i \in DOMAIN db : db'[i] = db[i]
        /\ db'[Len(db) + 1] = Mark
    BY <1>3
  <1>5. phase' = "mark" /\ version' = version /\ running' = running
    BY DEF fileVars
  <1>6. Past(db)' /\ (Fresh(db)' => Fresh(db))
    BY <1>3, <1>4, <1>5 DEF IInv, IndexTypeOK, SessionInv, Past, Fresh, Versions
  <1>7. Fresh(db) => Len(db) = Len(Order)
    BY <1>2, <1>4 DEF IInv, SessionInv, LoopInv
  <1>8. Fresh(db)' => Begun(db)' /\ Len(db') = Len(Order) + 1
    <2>1. SUFFICES ASSUME Len(db) = Len(Order), Begun(db)
                   PROVE  Begun(db)' /\ Len(db') = Len(Order) + 1
      BY <1>6, <1>7 DEF IInv, SessionInv
    <2>2. ASSUME NEW i \in DOMAIN db'
          PROVE  db'[i].data = IF i <= Len(Order) THEN Order[i] ELSE FinishMark
      <3>1. CASE i \in DOMAIN db
        BY <3>1, <1>4, <2>1 DEF Begun
      <3>2. CASE i = Len(db) + 1
        BY <3>2, <1>2, <1>3, <1>4, <2>1
      <3> QED  BY <1>4, <2>2, <3>1, <3>2
    <2> QED  BY <1>2, <1>4, <2>1, <2>2 DEF Begun
  <1>9. SessionInv' /\ LoopInv'
    BY <1>5, <1>6, <1>8 DEF IInv, SessionInv, LoopInv
  <1> QED  BY <1>1, <1>4, <1>5, <1>9 DEF IInv, IndexTypeOK, fileVars, Phases

-----------------------------------------------------------------------------
(***************************************************************************)
(* The ends of the session, and the steps around it.                       *)
(***************************************************************************)
LEMMA CancelledInLoopInv == IInv /\ CancelledInLoop => IInv'
  <1> SUFFICES ASSUME IInv, CancelledInLoop PROVE IInv'
    OBVIOUS
  <1>1. Written(db) /\ db' = <<>> /\ phase' = "idle" /\ completed' = TRUE
        /\ UNCHANGED <<pos, skip, lastAddress, cancelled, running, cancels, crashes, errors>>
    BY DEF CancelledInLoop, boundVars
  <1>2. /\ disk' \in Seq(Document) /\ stamp' \in Versions \cup {Absent}
        /\ version' = version /\ DiskInv'
    BY <1>1, WrittenInv
  <1>3. SessionInv' /\ LoopInv' /\ db' \in Seq(Document) /\ phase' \in Phases
    BY <1>1, <1>2, SessionEnds DEF IInv, IndexTypeOK
  <1> QED  BY <1>1, <1>2, <1>3 DEF IInv, IndexTypeOK

LEMMA CommitInv == IInv /\ Commit => IInv'
  <1> SUFFICES ASSUME IInv, Commit PROVE IInv'
    OBVIOUS
  <1>1. Written(db) /\ db' = <<>> /\ phase' = "idle" /\ completed' = TRUE
        /\ UNCHANGED <<pos, skip, lastAddress, cancelled, running, cancels, crashes, errors>>
    BY DEF Commit, boundVars
  <1>2. /\ disk' \in Seq(Document) /\ stamp' \in Versions \cup {Absent}
        /\ version' = version /\ DiskInv'
    BY <1>1, WrittenInv
  <1>3. SessionInv' /\ LoopInv' /\ db' \in Seq(Document) /\ phase' \in Phases
    BY <1>1, <1>2, SessionEnds DEF IInv, IndexTypeOK
  <1> QED  BY <1>1, <1>2, <1>3 DEF IInv, IndexTypeOK

LEMMA XapianErrorInv == IInv /\ XapianError => IInv'
  <1> SUFFICES ASSUME IInv, XapianError PROVE IInv'
    OBVIOUS
  <1>1. db' = <<>> /\ phase' = "idle" /\ completed' = TRUE
        /\ UNCHANGED <<pos, skip, lastAddress, cancelled, running, cancels, crashes>>
    BY DEF XapianError
  <1>2. /\ disk' \in Seq(Document) /\ stamp' \in Versions \cup {Absent}
        /\ version' = version /\ DiskInv'
    BY WrittenInv, DiskKept DEF XapianError
  <1>3. SessionInv' /\ LoopInv' /\ db' \in Seq(Document) /\ phase' \in Phases
    BY <1>1, <1>2, SessionEnds DEF IInv, IndexTypeOK
  <1>4. errors' \in 0 .. MaxErrors
    BY BoundsAssumption DEF XapianError, IInv, IndexTypeOK
  <1> QED  BY <1>1, <1>2, <1>3, <1>4 DEF IInv, IndexTypeOK

LEMMA ArticleErrorInv == IInv /\ ArticleError => IInv'
  <1> SUFFICES ASSUME IInv, ArticleError PROVE IInv'
    OBVIOUS
  <1>1. db' = <<>> /\ phase' = "idle"
        /\ UNCHANGED <<pos, skip, lastAddress, completed, cancelled, running, cancels, crashes>>
    BY DEF ArticleError
  <1>2. /\ disk' \in Seq(Document) /\ stamp' \in Versions \cup {Absent}
        /\ version' = version /\ DiskInv'
    <2>1. CASE Written(db) \/ UNCHANGED fileVars
      BY <2>1, WrittenInv, DiskKept
    <2>2. CASE disk' = <<>> /\ stamp' = Absent /\ UNCHANGED version
      BY <2>2, OrderFacts DEF DiskInv, Past, Fresh, Begun
    <2> QED  BY <2>1, <2>2 DEF ArticleError
  <1>3. SessionInv' /\ LoopInv' /\ db' \in Seq(Document) /\ phase' \in Phases
    BY <1>1, <1>2, SessionEnds DEF IInv, IndexTypeOK
  <1>4. errors' \in 0 .. MaxErrors
    BY BoundsAssumption DEF ArticleError, IInv, IndexTypeOK
  <1> QED  BY <1>1, <1>2, <1>3, <1>4 DEF IInv, IndexTypeOK

LEMMA FlushInv == IInv /\ Flush => IInv'
  <1> SUFFICES ASSUME IInv, Flush PROVE IInv'
    OBVIOUS
  <1>1. Written(db) /\ UNCHANGED <<completed, cancelled, running, cancels, crashes, errors>>
        /\ UNCHANGED sessionVars
    BY DEF Flush, boundVars
  <1>2. /\ disk' \in Seq(Document) /\ stamp' \in Versions \cup {Absent}
        /\ version' = version /\ DiskInv'
    BY <1>1, WrittenInv
  <1>3. /\ SessionInv' /\ LoopInv' /\ db' \in Seq(Document) /\ phase' \in Phases
        /\ pos' \in 1 .. Len(Order) + 1 /\ skip' \in BOOLEAN /\ lastAddress' \in Nat
    BY <1>1, <1>2, SessionKept
  <1> QED  BY <1>1, <1>2, <1>3 DEF IInv, IndexTypeOK

\* Starting, stopping and resuming: only flags change.
LEMMA FlagsInv == IInv /\ (Load \/ Cancel \/ DoIndexing) => IInv'
  <1> SUFFICES ASSUME IInv, Load \/ Cancel \/ DoIndexing PROVE IInv'
    OBVIOUS
  <1>1. UNCHANGED fileVars /\ UNCHANGED sessionVars /\ UNCHANGED <<crashes, errors>>
        /\ (running => running')
    BY DEF Load, Cancel, DoIndexing, boundVars
  <1>2. /\ disk' \in Seq(Document) /\ stamp' \in Versions \cup {Absent}
        /\ version' = version /\ DiskInv'
    BY <1>1, DiskKept
  <1>3. /\ SessionInv' /\ LoopInv' /\ db' \in Seq(Document) /\ phase' \in Phases
        /\ pos' \in 1 .. Len(Order) + 1 /\ skip' \in BOOLEAN /\ lastAddress' \in Nat
    BY <1>1, <1>2, SessionKept
  <1>4. cancels' \in 0 .. MaxCancels
    BY BoundsAssumption DEF Load, Cancel, DoIndexing, boundVars, IInv, IndexTypeOK
  <1>5. completed' \in BOOLEAN /\ cancelled' \in BOOLEAN /\ running' \in BOOLEAN
    <2>1. UpToDate \in BOOLEAN
      BY Zenon DEF UpToDate
    <2> QED  BY <2>1, Zenon DEF Load, Cancel, DoIndexing, IInv, IndexTypeOK
  <1> QED  BY <1>1, <1>2, <1>3, <1>4, <1>5 DEF IInv, IndexTypeOK

LEMMA CrashInv == IInv /\ Crash => IInv'
  <1> SUFFICES ASSUME IInv, Crash PROVE IInv'
    OBVIOUS
  <1> USE DEF Crash
  <1>1. DiskInv' /\ disk' \in Seq(Document) /\ stamp' \in Versions \cup {Absent}
        /\ version' = version
    BY DiskKept
  <1>2. SessionInv' /\ LoopInv' /\ db' \in Seq(Document) /\ phase' \in Phases
    BY <1>1, SessionEnds DEF IInv, IndexTypeOK
  <1>3. crashes' \in 0 .. MaxCrashes
    BY BoundsAssumption DEF IInv, IndexTypeOK
  <1> QED  BY <1>1, <1>2, <1>3 DEF IInv, IndexTypeOK

\* No document is of the files that come: an index that is there is not of them.
LEMMA ReplaceFilesInv == IInv /\ ReplaceFiles => IInv'
  <1> SUFFICES ASSUME IInv, ReplaceFiles PROVE IInv'
    OBVIOUS
  <1> USE DEF ReplaceFiles, boundVars
  <1>1. version \in Nat /\ version' = version + 1 /\ version' \in Versions
    BY BoundsAssumption DEF IInv, IndexTypeOK, Versions
  <1>2. UNCHANGED <<disk, stamp, db, phase, running>> /\ phase = "idle"
    BY DEF sessionVars, IInv, SessionInv
  <1>3. ASSUME NEW docs \in Seq(Document), Past(docs), docs # <<>>
        PROVE  \E i \in DOMAIN docs : docs[i].of < version'
    <2>1. 1 \in DOMAIN docs /\ docs[1] \in Document
      BY <1>3
    <2>2. docs[1].of \in Versions /\ docs[1].of <= version
      BY <1>3, <2>1 DEF Past, Document
    <2> QED  BY <1>1, <2>1, <2>2 DEF Versions
  <1>4. Past(disk)' /\ Past(db)'
    <2>1. ASSUME NEW docs \in Seq(Document), Past(docs), NEW i \in DOMAIN docs
          PROVE  docs[i].of <= version'
      <3>1. docs[i] \in Document
        BY <2>1
      <3>2. docs[i].of \in Versions /\ docs[i].of <= version
        BY <2>1, <3>1 DEF Past, Document
      <3> QED  BY <1>1, <3>2 DEF Versions
    <2> QED  BY <1>2, <2>1 DEF Past, IInv, IndexTypeOK, DiskInv, SessionInv
  <1>5. (Fresh(disk)' => disk = <<>>) /\ (Fresh(db)' => db = <<>>)
    <2>1. ASSUME NEW docs \in Seq(Document), Past(docs),
                 \A i \in DOMAIN docs : docs[i].of = version'
          PROVE  docs = <<>>
      BY <1>1, <1>3, <2>1
    <2> QED  BY <1>2, <2>1 DEF Fresh, IInv, IndexTypeOK, DiskInv, SessionInv
  <1>6. DiskInv'
    BY <1>2, <1>4, <1>5, EmptyFacts DEF DiskInv, Begun
  <1>7. SessionInv' /\ LoopInv'
    BY <1>2, <1>4, <1>5, EmptyFacts DEF SessionInv, LoopInv, Begun, IInv
  <1>8. IndexTypeOK'
    BY <1>1, <1>2 DEF IInv, IndexTypeOK, sessionVars
  <1> QED  BY <1>6, <1>7, <1>8 DEF IInv

-----------------------------------------------------------------------------
LEMMA StepIInv == IInv /\ InAscendingOrder /\ [IndexNext]_indexVars => IInv'
  <1> SUFFICES ASSUME IInv, InAscendingOrder, [IndexNext]_indexVars PROVE IInv'
    OBVIOUS
  <1>1. CASE Indexer \/ Failure
    BY <1>1, MakeFTSIndexInv, UserAbortInv, FindLastAddressInv, SkipArticleInv,
       IndexArticleInv, CancelledInLoopInv, AddMarkInv, CommitInv, XapianErrorInv,
       ArticleErrorInv DEF Indexer, Failure
  <1>2. CASE Load \/ Cancel \/ DoIndexing
    BY <1>2, FlagsInv
  <1>3. CASE Flush \/ Crash \/ ReplaceFiles
    BY <1>3, FlushInv, CrashInv, ReplaceFilesInv
  <1>4. CASE UNCHANGED indexVars
    <2>1. DiskInv'
      BY <1>4, DiskKept DEF indexVars
    <2>2. SessionInv' /\ LoopInv'
      BY <1>4, SessionKept DEF indexVars, fileVars
    <2>3. IndexTypeOK'
      BY <1>4 DEF indexVars, fileVars, sessionVars, boundVars, IInv, IndexTypeOK
    <2> QED  BY <2>1, <2>2, <2>3 DEF IInv
  <1> QED  BY <1>1, <1>2, <1>3, <1>4 DEF IndexNext

LEMMA Inductive == InAscendingOrder => (IndexSpec => []IInv)
  <1> SUFFICES ASSUME InAscendingOrder PROVE IndexSpec => []IInv
    OBVIOUS
  <1>1. IInv /\ [IndexNext]_indexVars => IInv'
    BY StepIInv
  <1> QED  BY InitIInv, <1>1, PTL DEF IndexSpec

(***************************************************************************)
(* Whatever stops a build, what is on disk is the beginning of the index a *)
(* build from nothing makes: no article twice, none left out before it.    *)
(***************************************************************************)
THEOREM ResumableAlwaysHolds == InAscendingOrder => (IndexSpec => []ResumableAlways)
  <1> SUFFICES ASSUME InAscendingOrder PROVE IndexSpec => []ResumableAlways
    OBVIOUS
  <1>1. IInv => ResumableAlways
    BY DEF IInv, DiskInv, Begun, ResumableAlways, ResumesInOrder
  <1> QED  BY Inductive, <1>1, PTL

(***************************************************************************)
(* An index of the files as they are that is taken for up to date when the *)
(* program starts has every article of the dictionary.                     *)
(***************************************************************************)
THEOREM MarkMeansWholeHolds == InAscendingOrder => (IndexSpec => []MarkMeansWhole)
  <1> SUFFICES ASSUME InAscendingOrder PROVE IndexSpec => []MarkMeansWhole
    OBVIOUS
  <1>1. IInv => MarkMeansWhole
    <2> SUFFICES ASSUME IInv, UpToDate, Fresh(disk) PROVE Whole(disk)
      BY DEF MarkMeansWhole
    <2>1. disk \in Seq(Document) /\ Begun(disk) /\ HasMark(disk)
      BY DEF IInv, IndexTypeOK, DiskInv, UpToDate, ftsIndexIsOldOrBad
    <2>2. Len(disk) = Len(Order) + 1
      BY <2>1, MarkIsLast
    <2>3. ASSUME NEW i \in DOMAIN Order PROVE i \in DOMAIN disk /\ disk[i] = Article(Order[i])
      <3>1. i \in DOMAIN disk /\ i <= Len(Order) /\ disk[i] \in Document
        BY <2>1, <2>2, OrderFacts
      <3>2. disk[i].data = Order[i] /\ disk[i].of = version
        BY <2>1, <3>1 DEF Begun, Fresh
      <3> QED  BY <3>1, <3>2 DEF Document, Article
    <2> QED  BY <2>1, <2>2, <2>3 DEF Whole, Addresses
  <1> QED  BY Inductive, <1>1, PTL

-----------------------------------------------------------------------------
(***************************************************************************)
(* The indexing thread                                                     *)
(***************************************************************************)
Done(i) == haveFTSIndex[List[i]] \/ List[i] \in tried

Types ==
    /\ gui \in GuiStates
    /\ started \in BOOLEAN
    /\ isCancelled \in BOOLEAN
    /\ indexingExited \in Nat
    /\ haveFTSIndex \in [Dicts -> BOOLEAN]
    /\ thread \in ThreadStates
    /\ next \in 1 .. Len(List) + 1
    /\ tried \subseteq Dicts

\* The thread walks the list it was given.
ListKept ==
    /\ Alive => dictionaries = List
    /\ thread \in {"busy1", "busy2"} => next <= Len(List)

\* The first iteration has done the small dictionaries up to the one it is at.
FirstIteration ==
    /\ thread \in {"first", "busy1"} =>
          \A i \in DOMAIN List : i < next => List[i] \in Big \/ Done(i)
    /\ thread = "busy1" => List[next] \notin Big /\ Done(next)

\* The second finds all small ones done, unless it is cancelled at once.
SecondIteration ==
    /\ (thread = "busy2" \/ (thread \in {"second", "leaving"} /\ ~isCancelled)) =>
          \A i \in DOMAIN List : List[i] \in Big \/ Done(i)
    /\ thread \in {"second", "busy2"} => \A i \in DOMAIN List : i < next => Done(i)
    /\ thread = "busy2" => Done(next)
    /\ thread = "leaving" /\ ~isCancelled => \A i \in DOMAIN List : Done(i)

Inv == Types /\ OneThread /\ ListKept /\ FirstIteration /\ SecondIteration

LEMMA ListFacts ==
    /\ Len(List) \in Nat
    /\ DOMAIN List = 1 .. Len(List)
    /\ \A i \in DOMAIN List : List[i] \in Dicts
    /\ \A d \in Dicts : \E i \in DOMAIN List : List[i] = d
BY ListAssumption

LEMMA InitInv == Init => Inv
<1>. SUFFICES ASSUME Init PROVE Inv
  OBVIOUS
<1>1. Types
  <2>1. gui \in GuiStates /\ thread \in ThreadStates
    BY DEF Init, GuiStates, ThreadStates
  <2>2. next \in 1 .. Len(List) + 1 /\ indexingExited \in Nat
    BY ListFacts DEF Init
  <2>3. /\ started \in BOOLEAN /\ isCancelled \in BOOLEAN
        /\ haveFTSIndex \in [Dicts -> BOOLEAN] /\ tried \subseteq Dicts
    BY Zenon DEF Init
  <2>. QED BY <2>1, <2>2, <2>3, Zenon DEF Types
<1>. QED
  BY <1>1 DEF Init, Inv, OneThread, Alive, ListKept, FirstIteration, SecondIteration

-----------------------------------------------------------------------------
LEMMA StopIndexingInv == \A why \in {"edit", "exit"} : Inv /\ StopIndexing(why) => Inv'
<1>. SUFFICES ASSUME Inv, NEW why \in {"edit", "exit"}, StopIndexing(why) PROVE Inv'
  OBVIOUS
<1>. USE DEF StopIndexing, threadVars, dictVars, Alive, Done
<1>1. Types'
  BY DEF Inv, Types, GuiStates
<1>2. OneThread'
  BY DEF Inv, OneThread
<1>3. ListKept' /\ FirstIteration'
  BY DEF Inv, ListKept, FirstIteration
<1>4. ~isCancelled' => ~isCancelled
  OBVIOUS
<1>5. UNCHANGED <<haveFTSIndex, thread, next, tried>>
  OBVIOUS
<1>6. SecondIteration'
  BY <1>4, <1>5, Zenon DEF Inv, SecondIteration
<1>. QED
  BY <1>1, <1>2, <1>3, <1>6 DEF Inv

LEMMA StoppedInv == Inv /\ Stopped => Inv' /\ ~Alive'
<1>. SUFFICES ASSUME Inv, Stopped PROVE Inv' /\ ~Alive'
  OBVIOUS
<1>. USE DEF Stopped, threadVars, dictVars
<1>1. ~Alive
  BY DEF Inv, Types, OneThread
<1>2. thread = "none" /\ thread' = "none"
  BY <1>1 DEF Alive
<1>3. Types'
  <2>1. indexingExited' \in Nat /\ next' \in 1 .. Len(List) + 1
    BY DEF Inv, Types
  <2>2. gui' \in GuiStates
    BY Zenon DEF GuiStates
  <2>3. started' \in BOOLEAN /\ isCancelled' \in BOOLEAN
    BY Zenon DEF Inv, Types
  <2>4. /\ haveFTSIndex' \in [Dicts -> BOOLEAN] /\ thread' \in ThreadStates
        /\ tried' \subseteq Dicts
    BY Zenon DEF Inv, Types
  <2>. QED BY <2>1, <2>2, <2>3, <2>4, Zenon DEF Types
<1>4. OneThread'
  BY <1>2 DEF Inv, Types, OneThread, Alive
<1>5. ListKept' /\ FirstIteration' /\ SecondIteration'
  BY <1>2 DEF ListKept, Alive, FirstIteration, SecondIteration
<1>. QED
  BY <1>2, <1>3, <1>4, <1>5 DEF Inv, Alive

LEMMA SetAndDoIndexingInv == Inv /\ SetAndDoIndexing => Inv' /\ ~Alive
<1>. SUFFICES ASSUME Inv, SetAndDoIndexing PROVE Inv' /\ ~Alive
  OBVIOUS
<1>. USE DEF SetAndDoIndexing, dictVars
<1>1. ~Alive /\ indexingExited = 0
  BY DEF Inv, OneThread
<1>2. Types'
  <2>1. haveFTSIndex' \in [Dicts -> BOOLEAN]
    BY DEF Inv, Types
  <2>2. 1 \in 1 .. Len(List) + 1
    BY ListFacts
  <2>3. indexingExited' \in Nat
    BY DEF Inv, Types
  <2>. QED BY <2>1, <2>2, <2>3 DEF Types, GuiStates, ThreadStates
<1>3. OneThread'
  BY <1>1 DEF OneThread, Alive
<1>4. ListKept' /\ FirstIteration' /\ SecondIteration'
  BY DEF ListKept, FirstIteration, SecondIteration
<1>. QED
  BY <1>1, <1>2, <1>3, <1>4 DEF Inv

(***************************************************************************)
(* Events and the timer touch nothing the thread relies on.                *)
(***************************************************************************)
LEMMA QuietInv ==
    ASSUME Inv,
           UNCHANGED <<gui, started, dictionaries, isCancelled, indexingExited,
                       haveFTSIndex, thread, next, tried>>
    PROVE  Inv'
<1>1. Types'
  BY DEF Inv, Types
<1>2. OneThread' /\ ListKept'
  BY DEF Inv, OneThread, ListKept, Alive
<1>3. FirstIteration'
  BY DEF Inv, FirstIteration, Done
<1>4. SecondIteration'
  BY Zenon DEF Inv, SecondIteration, Done
<1>. QED
  BY <1>1, <1>2, <1>3, <1>4 DEF Inv

LEMMA HandleEventInv == Inv /\ HandleEvent => Inv'
BY QuietInv DEF HandleEvent, guiVars, Shared, dictVars, threadVars

LEMMA TimerTicksInv == Inv /\ TimerTicks => Inv'
BY QuietInv DEF TimerTicks, guiVars, Shared, dictVars, threadVars

-----------------------------------------------------------------------------
LEMMA BeginInv == Inv /\ Begin => Inv'
<1>. SUFFICES ASSUME Inv, Begin PROVE Inv'
  OBVIOUS
<1>. USE DEF Begin, guiVars, Shared, dictVars
<1>1. Types'
  BY ListFacts DEF Inv, Types, ThreadStates
<1>2. OneThread' /\ ListKept'
  BY DEF Inv, OneThread, ListKept, Alive
<1>3. FirstIteration' /\ SecondIteration'
  BY ListFacts DEF FirstIteration, SecondIteration
<1>. QED
  BY <1>1, <1>2, <1>3 DEF Inv

LEMMA EndPassInv == Inv /\ EndPass => Inv'
<1>. SUFFICES ASSUME Inv, EndPass PROVE Inv'
  OBVIOUS
<1>. USE DEF EndPass, AtLoop, guiVars, Shared, dictVars
<1>1. Types'
  BY ListFacts DEF Inv, Types, ThreadStates
<1>2. OneThread' /\ ListKept'
  BY DEF Inv, OneThread, ListKept, Alive
<1>3. dictionaries = List /\ next \in Nat
  BY DEF Inv, ListKept, Alive, Types
<1>4. FirstIteration'
  BY DEF FirstIteration
<1>5. CASE thread = "first" /\ thread' = "second"
  <2>1. ~isCancelled => \A i \in DOMAIN List : List[i] \in Big \/ Done(i)
    BY <1>3, <1>5, ListFacts DEF Inv, FirstIteration
  <2>2. \A i \in DOMAIN List : ~(i < next')
    BY ListFacts
  <2>. QED
    BY <1>1, <1>2, <1>4, <1>5, <2>1, <2>2 DEF Inv, SecondIteration, Done
<1>6. CASE thread = "second" /\ thread' = "leaving"
  <2>1. ~isCancelled => \A i \in DOMAIN List : Done(i)
    BY <1>3, <1>6, ListFacts DEF Inv, SecondIteration
  <2>. QED
    BY <1>1, <1>2, <1>4, <1>6, <2>1 DEF Inv, SecondIteration, Done
<1>. QED
  BY <1>5, <1>6

LEMMA PassOverInv == Inv /\ PassOver => Inv'
<1>. SUFFICES ASSUME Inv, PassOver PROVE Inv'
  OBVIOUS
<1>. USE DEF PassOver, AtLoop, guiVars, Shared, dictVars
<1>1. dictionaries = List /\ next \in DOMAIN List /\ next \in Nat /\ next' = next + 1
  BY ListFacts DEF Inv, ListKept, Alive, Types
<1>2. Types'
  BY <1>1, ListFacts DEF Inv, Types
<1>3. OneThread' /\ ListKept'
  BY DEF Inv, OneThread, ListKept, Alive
<1>4. Done(next)
  BY <1>1 DEF Done
<1>5. \A i \in DOMAIN List : i < next' => i < next \/ i = next
  BY <1>1, ListFacts
<1>6. FirstIteration' /\ SecondIteration'
  BY <1>4, <1>5 DEF Inv, FirstIteration, SecondIteration, Done
<1>. QED
  BY <1>2, <1>3, <1>6 DEF Inv

LEMMA MakeInv == Inv /\ Make => Inv'
<1>. SUFFICES ASSUME Inv, Make PROVE Inv'
  OBVIOUS
<1>. USE DEF Make, AtLoop, guiVars, Shared
<1>1. /\ dictionaries = List /\ next \in DOMAIN List /\ next \in Nat
      /\ next <= Len(List) /\ List[next] \in Dicts
  BY ListFacts DEF Inv, ListKept, Alive, Types
<1>2. OneThread'
  BY DEF Inv, OneThread, Alive
<1>3. CASE thread = "first" /\ List[next] \in Big
  <2>1. next' = next + 1 /\ UNCHANGED <<thread, tried>>
    BY <1>1, <1>3 DEF Postponed
  <2>2. Types'
    BY <1>1, <2>1, ListFacts DEF Inv, Types
  <2>3. ListKept' /\ SecondIteration'
    BY <1>3, <2>1 DEF Inv, ListKept, SecondIteration, Alive
  <2>4. \A i \in DOMAIN List : i < next' => i < next \/ i = next
    BY <1>1, <2>1, ListFacts
  <2>5. FirstIteration'
    BY <1>3, <2>1, <2>4 DEF Inv, FirstIteration, Done
  <2>. QED
    BY <1>2, <2>2, <2>3, <2>5 DEF Inv
<1>4. CASE ~(thread = "first" /\ List[next] \in Big)
  <2>1. /\ thread' = IF thread = "first" THEN "busy1" ELSE "busy2"
        /\ tried' = tried \cup {List[next]}
        /\ next' = next
    BY <1>1, <1>4 DEF Postponed
  <2>2. Types'
    BY <1>1, <2>1 DEF Inv, Types, ThreadStates
  <2>3. ListKept'
    BY <1>1, <2>1 DEF Inv, ListKept, Alive
  <2>4. FirstIteration'
    BY <1>1, <1>4, <2>1 DEF Inv, FirstIteration, Done
  <2>5. SecondIteration'
    BY <1>1, <2>1 DEF Inv, SecondIteration, Done
  <2>. QED
    BY <1>2, <2>2, <2>3, <2>4, <2>5 DEF Inv
<1>. QED
  BY <1>3, <1>4

LEMMA MadeInv == Inv /\ Made => Inv'
<1>. SUFFICES ASSUME Inv, Made PROVE Inv'
  OBVIOUS
<1>. USE DEF Made, guiVars, Shared, dictVars
<1>1. /\ dictionaries = List /\ next \in DOMAIN List /\ next \in Nat
      /\ next <= Len(List) /\ next' = next + 1
  BY ListFacts DEF Inv, ListKept, Alive, Types
<1>2. /\ haveFTSIndex' \in [Dicts -> BOOLEAN]
      /\ \A d \in Dicts : haveFTSIndex[d] => haveFTSIndex'[d]
  BY DEF Inv, Types
<1>3. Types'
  BY <1>1, <1>2, ListFacts DEF Inv, Types, ThreadStates
<1>4. OneThread' /\ ListKept'
  BY DEF Inv, OneThread, ListKept, Alive
<1>5. \A i \in DOMAIN List : Done(i) => Done(i)'
  BY <1>2, ListFacts DEF Done
<1>6. \A i \in DOMAIN List : i < next' => i < next \/ i = next
  BY <1>1, ListFacts
<1>7. CASE thread = "busy1" /\ thread' = "first"
  BY <1>1, <1>3, <1>4, <1>5, <1>6, <1>7 DEF Inv, FirstIteration, SecondIteration
<1>8. CASE thread = "busy2" /\ thread' = "second"
  BY <1>1, <1>3, <1>4, <1>5, <1>6, <1>8 DEF Inv, FirstIteration, SecondIteration
<1>. QED
  BY <1>7, <1>8

LEMMA ExitInv == Inv /\ Exit => Inv'
<1>. SUFFICES ASSUME Inv, Exit PROVE Inv'
  OBVIOUS
<1>. USE DEF Exit, guiVars, dictVars
<1>1. Types'
  BY DEF Inv, Types, ThreadStates
<1>2. OneThread'
  BY DEF Inv, Types, OneThread, Alive
<1>3. ListKept' /\ FirstIteration' /\ SecondIteration'
  BY DEF ListKept, Alive, FirstIteration, SecondIteration
<1>. QED
  BY <1>1, <1>2, <1>3 DEF Inv

LEMMA NextInv == Inv /\ [Next]_vars => Inv'
<1>. SUFFICES ASSUME Inv, [Next]_vars PROVE Inv'
  OBVIOUS
<1>1. CASE Next
  BY <1>1, StopIndexingInv, StoppedInv, SetAndDoIndexingInv, HandleEventInv, TimerTicksInv,
     BeginInv, EndPassInv, PassOverInv, MakeInv, MadeInv, ExitInv DEF Next, Window, Thread
<1>2. CASE UNCHANGED vars
  BY <1>2, QuietInv DEF vars, guiVars, dictVars, threadVars
<1>. QED
  BY <1>1, <1>2

-----------------------------------------------------------------------------
(***************************************************************************)
(* The inductive invariant: the semaphore and the two flags count the      *)
(* thread, and the thread's progress through the two iterations.           *)
(***************************************************************************)
THEOREM InvHolds == Spec => []Inv
BY InitInv, NextInv, PTL DEF Spec

(***************************************************************************)
(* stopIndexing() returns exactly when the thread is gone, and two threads *)
(* never index at once.                                                    *)
(***************************************************************************)
THEOREM OneThreadHolds == Spec => []OneThread
<1>1. Inv => OneThread
  BY DEF Inv
<1>. QED
  BY <1>1, InvHolds, PTL

(***************************************************************************)
(* No big dictionary is worked on before the small ones.                   *)
(***************************************************************************)
THEOREM SmallFirstHolds == Spec => []SmallFirst
<1>1. Inv => SmallFirst
  <2>. SUFFICES ASSUME Inv, thread \in {"busy1", "busy2"}, dictionaries[next] \in Big,
                       NEW d \in Dicts \ Big
                PROVE  haveFTSIndex[d] \/ d \in tried
    BY DEF SmallFirst
  <2>1. PICK i \in DOMAIN List : List[i] = d
    BY ListFacts
  <2>2. thread = "busy2"
    BY DEF Inv, ListKept, Alive, FirstIteration
  <2>. QED
    BY <2>1, <2>2 DEF Inv, SecondIteration, Done
<1>. QED
  BY <1>1, InvHolds, PTL

(***************************************************************************)
(* A run that was not cancelled has worked on every dictionary that had no *)
(* index.                                                                  *)
(***************************************************************************)
THEOREM NoneLeftOutHolds == Spec => []NoneLeftOut
<1>1. Inv => NoneLeftOut
  BY ListFacts DEF Inv, NoneLeftOut, SecondIteration, Done
<1>. QED
  BY <1>1, InvHolds, PTL

(***************************************************************************)
(* Neither the list nor the dictionaries change under the thread.          *)
(***************************************************************************)
THEOREM ListStableHolds == Spec => ListStable
<1>. DEFINE Quiet == dictionaries' # dictionaries \/ gui' = "editing" => ~Alive
<1>1. Inv /\ Inv' /\ [Next]_vars => [Quiet]_vars
  <2>. SUFFICES ASSUME Inv, Inv', Next PROVE Quiet
    OBVIOUS
  <2>1. gui' = "editing" => ~Alive'
    BY DEF Inv, OneThread
  <2>2. CASE Window
    BY <2>2, SetAndDoIndexingInv
       DEF Window, StopIndexing, SetAndDoIndexing, threadVars
  <2>3. CASE Stopped
    BY <2>3, StoppedInv DEF Stopped, threadVars, Alive
  <2>4. CASE HandleEvent \/ TimerTicks
    BY <2>1, <2>4 DEF HandleEvent, TimerTicks, guiVars, threadVars, Alive
  <2>5. CASE Thread
    BY <2>5 DEF Inv, OneThread, Thread, Begin, EndPass, PassOver, Make, Made, Exit, guiVars,
                AtLoop, Alive
  <2>. QED
    BY <2>2, <2>3, <2>4, <2>5 DEF Next
<1>. QED
  BY <1>1, InvHolds, PTL DEF Spec, ListStable

-----------------------------------------------------------------------------
(***************************************************************************)
(* The queue of the GUI thread.  When there is no thread, nothing is to    *)
(* come after the event that clears the name.                              *)
(***************************************************************************)
Event == Dicts \cup {NoName, Tick}

QueueTypes ==
    /\ dictionaries \in {List, <<>>}
    /\ touched \subseteq Dicts
    /\ events \in Seq(Event)
    /\ nowIndexing \in Dicts \cup {NoName}
    /\ starts \in 0 .. MaxStarts

LastClears ==
    ~Alive => IF events = <<>> THEN nowIndexing = NoName ELSE events[Len(events)] = NoName

QueueInv == QueueTypes /\ LastClears

LEMMA Without ==
    ASSUME NEW queue \in Seq(Event)
    PROVE  WithoutTick(queue) \in Seq(Event)
<1>1. CASE ~\E i \in DOMAIN queue : queue[i] = Tick
  BY <1>1 DEF WithoutTick
<1>2. CASE \E i \in DOMAIN queue : queue[i] = Tick
  <2>. DEFINE i == CHOOSE i \in DOMAIN queue : queue[i] = Tick
  <2>1. i \in DOMAIN queue
    BY <1>2
  <2>. HIDE DEF i
  <2>2. Len(queue) \in Nat /\ i \in 1 .. Len(queue)
    BY <2>1, LenProperties
  <2>3. \A j \in 1 .. i - 1 : queue[j] \in Event
    BY <2>2
  <2>4. \A j \in i + 1 .. Len(queue) : queue[j] \in Event
    BY <2>2
  <2>5. SubSeq(queue, 1, i - 1) \in Seq(Event) /\ SubSeq(queue, i + 1, Len(queue)) \in Seq(Event)
    <3>1. 1 \in Int /\ i - 1 \in Int /\ i + 1 \in Int /\ Len(queue) \in Int
      BY <2>2
    <3>. QED BY <2>3, <2>4, <3>1, SubSeqProperties
  <2>6. RemoveAt(queue, i) \in Seq(Event)
    BY <2>5, ConcatProperties DEF RemoveAt
  <2>7. WithoutTick(queue) = RemoveAt(queue, i)
    BY <1>2 DEF WithoutTick, i
  <2>. QED BY <2>6, <2>7
<1>. QED BY <1>1, <1>2

\* Posting an event.
LEMMA Posted ==
    ASSUME NEW queue \in Seq(Event), NEW e \in Event
    PROVE  /\ Append(queue, e) \in Seq(Event)
           /\ Append(queue, e) # <<>>
           /\ Append(queue, e)[Len(Append(queue, e))] = e
BY AppendProperties

LEMMA QueueInit == Init => QueueInv
<1>. SUFFICES ASSUME Init PROVE QueueInv
  OBVIOUS
<1>1. 0 \in 0 .. MaxStarts
  BY ListAssumption
<1>2. <<>> \in Seq(Event)
  OBVIOUS
<1>. QED BY <1>1, <1>2 DEF Init, QueueInv, QueueTypes, LastClears

\* Where the queue and the name stay as they are, and a thread that was there stays.
LEMMA QueueKept ==
    ASSUME QueueInv, UNCHANGED <<events, nowIndexing>>, Alive => Alive',
           touched' \subseteq Dicts, dictionaries' \in {List, <<>>}, starts' \in 0 .. MaxStarts
    PROVE  QueueInv'
BY DEF QueueInv, QueueTypes, LastClears

LEMMA HandleEventQueue == QueueInv /\ HandleEvent => QueueInv'
<1>. SUFFICES ASSUME QueueInv, HandleEvent PROVE QueueInv'
  OBVIOUS
<1>1. /\ events \in Seq(Event) /\ events # <<>> /\ events' = Tail(events)
      /\ UNCHANGED <<dictionaries, touched, starts, thread>>
  BY DEF QueueInv, QueueTypes, HandleEvent, guiVars, dictVars, threadVars
<1>2. /\ Head(events) = events[1] /\ Head(events) \in Event
      /\ events' \in Seq(Event) /\ Len(events') = Len(events) - 1
      /\ \A i \in 1 .. Len(events') : events'[i] = events[i + 1]
      /\ Len(events) \in Nat /\ Len(events) > 0
  BY <1>1, HeadTailProperties, EmptySeq
<1>3. nowIndexing' \in Dicts \cup {NoName}
  BY <1>2 DEF QueueInv, QueueTypes, HandleEvent, Event
<1>4. QueueTypes'
  BY <1>1, <1>2, <1>3 DEF QueueInv, QueueTypes
<1>5. ASSUME ~Alive' PROVE IF events' = <<>> THEN nowIndexing' = NoName
                                             ELSE events'[Len(events')] = NoName
  <2>1. events[Len(events)] = NoName
    BY <1>1, <1>5 DEF QueueInv, LastClears, Alive
  <2>2. CASE events' = <<>>
    <3>1. Len(events) = 1
      BY <1>2, <2>2
    <3>2. Head(events) = NoName
      BY <1>2, <2>1, <3>1
    <3>. QED BY <2>2, <3>2, ListAssumption DEF HandleEvent
  <2>3. CASE events' # <<>>
    <3>1. Len(events') \in 1 .. Len(events')
      BY <1>2, <2>3, EmptySeq
    <3>2. events'[Len(events')] = events[Len(events') + 1]
      BY <1>2, <3>1
    <3>3. Len(events') + 1 = Len(events)
      BY <1>2
    <3>. QED BY <2>1, <2>3, <3>2, <3>3
  <2>. QED BY <2>2, <2>3
<1>. QED BY <1>4, <1>5 DEF QueueInv, LastClears

LEMMA QueueNext == Inv /\ QueueInv /\ [Next]_vars => QueueInv'
<1>. SUFFICES ASSUME Inv, QueueInv, [Next]_vars PROVE QueueInv'
  OBVIOUS
<1>. USE DEF guiVars, dictVars, threadVars, Shared
<1>0. /\ touched \subseteq Dicts /\ dictionaries \in {List, <<>>} /\ starts \in 0 .. MaxStarts
      /\ events \in Seq(Event) /\ nowIndexing \in Dicts \cup {NoName}
  BY DEF QueueInv, QueueTypes
<1>1. ASSUME NEW why \in {"edit", "exit"}, StopIndexing(why) PROVE QueueInv'
  BY <1>0, <1>1, QueueKept DEF StopIndexing, Alive
<1>2. CASE SetAndDoIndexing
  <2>1. Alive' /\ touched' \subseteq Dicts /\ UNCHANGED <<events, nowIndexing>> /\ dictionaries' = List
    BY <1>0, <1>2 DEF SetAndDoIndexing, Alive
  <2>2. starts' \in 0 .. MaxStarts
    BY <1>0, <1>2, ListAssumption DEF SetAndDoIndexing
  <2>. QED BY <2>1, <2>2, QueueKept
<1>3. CASE Stopped
  <2>1. ~Alive
    BY <1>3 DEF Stopped, Inv, Types, OneThread
  <2>2. nowIndexing' \in {nowIndexing, NoName} /\ UNCHANGED <<events, touched, starts, thread>>
        /\ dictionaries' = <<>>
    BY <1>3 DEF Stopped
  <2>. QED BY <1>0, <2>1, <2>2 DEF QueueInv, QueueTypes, LastClears
<1>4. CASE HandleEvent
  BY <1>4, HandleEventQueue
<1>5. CASE TimerTicks
  <2>1. events' = Append(events, Tick) /\ Alive' /\ UNCHANGED <<nowIndexing, touched, starts, dictionaries>>
    BY <1>5 DEF TimerTicks, Alive
  <2>2. events' \in Seq(Event)
    BY <1>0, <2>1, Posted DEF Event
  <2>. QED BY <1>0, <2>1, <2>2 DEF QueueInv, QueueTypes, LastClears
<1>6. CASE Begin \/ PassOver
  <2>1. Alive' /\ UNCHANGED <<events, nowIndexing, touched, starts, dictionaries>>
    BY <1>6 DEF Begin, PassOver, AtLoop, Alive
  <2>. QED BY <1>0, <2>1, QueueKept
<1>7. CASE EndPass
  <2>1. Alive' /\ events' \in {events, Append(events, NoName)}
        /\ UNCHANGED <<nowIndexing, touched, starts, dictionaries>>
    BY <1>7 DEF EndPass, Alive
  <2>2. events' \in Seq(Event)
    BY <1>0, <2>1, Posted DEF Event
  <2>. QED BY <1>0, <2>1, <2>2 DEF QueueInv, QueueTypes, LastClears
<1>8. CASE Make
  <2>1. dictionaries = List /\ next \in DOMAIN List
    BY <1>8, ListFacts DEF Make, AtLoop, Inv, ListKept, Alive, Types
  <2>. DEFINE d == dictionaries[next]
  <2>2. d \in Dicts
    BY <2>1, ListFacts
  <2>3. /\ Alive' /\ events' = Append(events, d) /\ touched' \in {touched, touched \cup {d}}
        /\ UNCHANGED <<nowIndexing, starts, dictionaries>>
    BY <1>8 DEF Make, AtLoop, Alive
  <2>. HIDE DEF d
  <2>4. events' \in Seq(Event)
    BY <1>0, <2>2, <2>3, Posted DEF Event
  <2>. QED BY <1>0, <2>2, <2>3, <2>4 DEF QueueInv, QueueTypes, LastClears
<1>9. CASE Made
  <2>1. Alive' /\ touched' \subseteq touched /\ UNCHANGED <<events, nowIndexing, starts, dictionaries>>
    BY <1>9 DEF Made, Alive
  <2>. QED BY <1>0, <2>1, QueueKept
<1>10. CASE Exit
  <2>1. events' = Append(WithoutTick(events), NoName)
        /\ UNCHANGED <<nowIndexing, touched, starts, dictionaries>>
    BY <1>10 DEF Exit
  <2>2. events' \in Seq(Event) /\ events' # <<>> /\ events'[Len(events')] = NoName
    <3>1. WithoutTick(events) \in Seq(Event) /\ NoName \in Event
      BY <1>0, Without DEF Event
    <3>. QED BY <2>1, <3>1, Posted
  <2>. QED BY <1>0, <2>1, <2>2 DEF QueueInv, QueueTypes, LastClears
<1>11. CASE UNCHANGED vars
  BY <1>0, <1>11, QueueKept DEF vars, Alive
<1>. QED
  BY <1>1, <1>2, <1>3, <1>4, <1>5, <1>6, <1>7, <1>8, <1>9, <1>10, <1>11 DEF Next, Window, Thread

(***************************************************************************)
(* Small dictionaries first, and no name is left on show by an event that  *)
(* is handled last, for any list and whenever the indexing is stopped.     *)
(***************************************************************************)
THEOREM PassesInOrderHolds == Spec => []PassesInOrder
<1>1. Spec => []QueueInv
  BY QueueInit, QueueNext, InvHolds, PTL DEF Spec
<1>2. Inv /\ QueueInv => TypeOK
  BY DEF Inv, Types, QueueInv, QueueTypes, Event, TypeOK
<1>3. QueueInv => NameCleared
  BY DEF QueueInv, LastClears, NameCleared
<1>. QED
  BY <1>1, <1>2, <1>3, InvHolds, SmallFirstHolds, PTL DEF PassesInOrder
=============================================================================
