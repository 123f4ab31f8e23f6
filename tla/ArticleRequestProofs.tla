------------------------ MODULE ArticleRequestProofs ------------------------
(***************************************************************************)
(* Proofs about the article page for any number of dictionaries and words: *)
(* its document is sound, the articles stand in the order of the           *)
(* dictionaries and under their names, and the compound expressions on it  *)
(* are the ones the search is for.                                         *)
(***************************************************************************)
EXTENDS ArticleRequest, SequenceTheorems, FiniteSetTheorems,
        WellFoundedInduction, TLAPS

(***************************************************************************)
(* The inductive invariant.                                                *)
(***************************************************************************)
Asc(q) == \A i, j \in DOMAIN q : i < j => q[i] < q[j]

Shown(page) == {page[i][3] : i \in Where(page, "section")}

\* The page has, in order, what those no longer in the queue have given.
InOrder(page, queue, contents) ==
    /\ Asc(queue)
    /\ \A i, j \in Where(page, "section") : i < j => page[i][3] < page[j][3]
    /\ \A i \in Where(page, "section") : \A j \in DOMAIN queue : page[i][3] < queue[j]
    /\ Shown(page) = {d \in Dicts : contents[d] # "nothing"} \ Range(queue)

\* Counting from the end finds the dictionary of a request.
Counted(queue) == \A j \in DOMAIN queue : HeadOf(queue, j) = queue[j]

Headed(page) == \A i \in Where(page, "section") : page[i][2] = page[i][3]

\* Nothing but the header, articles and the like.
Lacks(page, kind) == \A i \in DOMAIN page : page[i][1] # kind

\* The compounds listed are those from the first n words.
ListedTo(lex, page, n) ==
    LET listed == Where(page, "compound")
    IN  /\ \A i, j \in listed : i < j => page[i][2][1] < page[j][2][1]
        /\ {page[i][2] : i \in listed} =
               {<<s, Max(Known(lex, s))>> : s \in {t \in 0 .. n - 1 : Known(lex, t) # {}}}

\* The longest expression from word s that ends before e, if there is one.
BestBefore(lex, s, e, good) ==
    \/ good = NoSpan /\ \A k \in Known(lex, s) : k >= e
    \/ \E k \in Known(lex, s) :
          good = <<s, k>> /\ k < e /\ \A j \in Known(lex, s) : j < e => j <= k

PhaseInv ==
    /\ state = "new" => ~altsDone /\ ~isFinishedFlag /\ data = <<>> /\ posted = {}
    /\ state # "new" => data # <<>> /\ data[1] = Header
    /\ ~altsDone => /\ bodyRequests = <<>>
                    /\ ~bodyDone
                    /\ finder = "none"
                    /\ data \in {<<>>, <<Header>>}
    /\ bodyDone <=> altsDone /\ bodyRequests = <<>>
    /\ \A d \in Dicts : <<"body", d>> \in posted => altsDone
    /\ finishedSignals = IF isFinishedFlag THEN 1 ELSE 0
    /\ Whole => bodyDone /\ finder = "none" /\ data[Len(data)] = End
    /\ \A i \in Where(data, "end") : Whole /\ i = Len(data)
    /\ Live /\ finder # "none" => bodyDone

QueueInv ==
    /\ Len(bodyRequests) <= Count
    /\ altsDone => InOrder(data, bodyRequests, has)
    /\ altsDone => \A d \in Dicts : life[d] \in {"running", "flagged"} => d \in Range(bodyRequests)
    /\ altsDone /\ NoneThrew => Counted(bodyRequests) /\ Headed(data)

WordInv ==
    /\ state # "destroyed" /\ ~isFinishedFlag =>
         /\ Lacks(data, "individual words")
         /\ IF finder \in {"expression", "expressionDone"}
            THEN /\ 0 <= wordStart /\ wordStart < wordEnd
                 /\ ListedTo(lexicon, data, wordStart)
                 /\ Reachable(lexicon, wordStart, wordEnd)
                 /\ BestBefore(lexicon, wordStart, wordEnd, lastGood)
            ELSE wordStart = -1 /\ lastGood = NoSpan /\ Lacks(data, "compound")
    /\ CompoundsListed

IInv == TypeOK /\ PhaseInv /\ QueueInv /\ WordInv

-----------------------------------------------------------------------------
(***************************************************************************)
(* Sequences in ascending order.                                           *)
(***************************************************************************)
LEMMA SetInduction ==
    ASSUME NEW S, 0 \in S, \A n \in Nat : n \in S => n + 1 \in S
    PROVE  Nat \subseteq S
  <1> DEFINE T == Nat \ S
  <1> SUFFICES ASSUME T # {} PROVE FALSE
    OBVIOUS
  <1>1. T \subseteq Nat
    OBVIOUS
  <1>2. IsWellFoundedOn(OpToRel(<, Nat), Nat)
    BY Zenon, NatLessThanWellFounded
  <1> HIDE DEF T
  <1>3. PICK x \in T : \A y \in T : ~(<<y, x>> \in OpToRel(<, Nat))
    BY <1>1, <1>2, WFMin
  <1>4. x \in Nat /\ x # 0
    BY <1>1 DEF T
  <1>5. x - 1 \in Nat /\ x - 1 < x /\ (x - 1) + 1 = x
    BY <1>4
  <1>6. x - 1 \notin T
    BY <1>3, <1>4, <1>5 DEF OpToRel
  <1> QED  BY <1>3, <1>4, <1>5, <1>6 DEF T

LEMMA DictsFinite ==
    ASSUME NEW S \in SUBSET Dicts
    PROVE  IsFiniteSet(S) /\ Cardinality(S) \in 0 .. Count
  <1>1. IsFiniteSet(Dicts) /\ Cardinality(Dicts) = Count
    BY CountAssumption, FS_Interval DEF Dicts
  <1>2. IsFiniteSet(S) /\ Cardinality(S) <= Cardinality(Dicts)
    BY <1>1, FS_Subset
  <1> QED  BY <1>1, <1>2, FS_CardinalityType, CountAssumption

LEMMA AscendingIs ==
    ASSUME NEW S, IsFiniteSet(S), NEW q \in Ascending(S)
    PROVE  /\ q \in Seq(S)
           /\ Len(q) = Cardinality(S)
           /\ DOMAIN q = 1 .. Len(q)
           /\ Asc(q)
           /\ Range(q) = S
  <1>1. Cardinality(S) \in Nat
    BY FS_CardinalityType
  <1>2. q \in [1 .. Cardinality(S) -> S]
    BY DEF Ascending
  <1>3. q \in Seq(S)
    BY <1>1, <1>2, SeqDef
  <1> QED  BY <1>1, <1>2, <1>3 DEF Ascending, Asc

\* All dictionaries in order: each at its own number.
LEMMA AllAscending ==
    ASSUME NEW q \in Ascending(Dicts)
    PROVE  Len(q) = Count /\ \A i \in 1 .. Count : q[i] = i
  <1>1. Cardinality(Dicts) = Count /\ IsFiniteSet(Dicts)
    BY CountAssumption, FS_Interval DEF Dicts
  <1>2. q \in [1 .. Count -> 1 .. Count] /\ Asc(q) /\ Len(q) = Count
    BY <1>1, AscendingIs DEF Ascending, Dicts
  <1> DEFINE Up == {n \in Nat : \A i \in 1 .. Count : i <= n => q[i] >= i}
             Down == {n \in Nat : \A i \in 1 .. Count : Count - i <= n => q[i] <= i}
  <1>3. Nat \subseteq Up
    <2>1. 0 \in Up
      BY CountAssumption
    <2>2. ASSUME NEW n \in Nat, n \in Up
          PROVE  n + 1 \in Up
      <3>1. ASSUME NEW i \in 1 .. Count, i <= n + 1
            PROVE  q[i] >= i
        <4>1. CASE i = 1
          BY <1>2, <4>1, CountAssumption
        <4>2. CASE i # 1
          <5>1. i - 1 \in 1 .. Count /\ i - 1 <= n /\ i - 1 < i
            BY <3>1, <4>2, CountAssumption
          <5>2. q[i - 1] >= i - 1
            BY <2>2, <5>1
          <5>3. q[i - 1] < q[i]
            BY <1>2, <5>1, CountAssumption DEF Asc
          <5> QED  BY <1>2, <5>1, <5>2, <5>3, CountAssumption
        <4> QED  BY <4>1, <4>2
      <3> QED  BY <3>1
    <2> HIDE DEF Up
    <2> QED  BY <2>1, <2>2, SetInduction
  <1>4. Nat \subseteq Down
    <2>1. 0 \in Down
      <3>1. ASSUME NEW i \in 1 .. Count, Count - i <= 0
            PROVE  q[i] <= i
        BY <1>2, <3>1, CountAssumption
      <3> QED  BY <3>1
    <2>2. ASSUME NEW n \in Nat, n \in Down
          PROVE  n + 1 \in Down
      <3>1. ASSUME NEW i \in 1 .. Count, Count - i <= n + 1
            PROVE  q[i] <= i
        <4>1. CASE i = Count
          BY <1>2, <4>1, CountAssumption
        <4>2. CASE i # Count
          <5>1. i + 1 \in 1 .. Count /\ Count - (i + 1) <= n /\ i < i + 1
            BY <3>1, <4>2, CountAssumption
          <5>2. q[i + 1] <= i + 1
            BY <2>2, <5>1
          <5>3. q[i] < q[i + 1]
            BY <1>2, <5>1, CountAssumption DEF Asc
          <5> QED  BY <1>2, <5>1, <5>2, <5>3, CountAssumption
        <4> QED  BY <4>1, <4>2
      <3> QED  BY <3>1
    <2> HIDE DEF Down
    <2> QED  BY <2>1, <2>2, SetInduction
  <1>5. ASSUME NEW i \in 1 .. Count
        PROVE  q[i] = i
    <2>1. Count \in Up /\ Count \in Down
      BY <1>3, <1>4, CountAssumption
    <2>2. q[i] \in 1 .. Count /\ i <= Count /\ Count - i <= Count
      BY <1>2, CountAssumption
    <2>3. q[i] >= i /\ q[i] <= i
      BY <2>1, <2>2
    <2> QED  BY <2>2, <2>3
  <1> QED  BY <1>2, <1>5

\* The greatest number of a set.
LEMMA MaxIs ==
    ASSUME NEW S \in SUBSET Int, NEW x \in S, \A y \in S : y <= x
    PROVE  Max(S) = x
  <1>1. \A z \in S : (\A y \in S : z >= y) <=> z = x
    OBVIOUS
  <1> QED  BY <1>1 DEF Max

-----------------------------------------------------------------------------
(***************************************************************************)
(* What taking finished requests from the front makes of the queue and of  *)
(* the page.                                                               *)
(***************************************************************************)
LEMMA FixedPieces ==
    /\ Header \in Piece /\ Header[1] = "header"
    /\ NotFound \in Piece /\ NotFound[1] = "not found"
    /\ CloseWords \in Piece /\ CloseWords[1] = "close words"
    /\ IndividualWords \in Piece /\ IndividualWords[1] = "individual words"
    /\ End \in Piece /\ End[1] = "end"
  BY DEF Piece, Header, NotFound, CloseWords, IndividualWords, End

LEMMA SectionPieces ==
    ASSUME NEW head \in Dicts, NEW body \in Dicts
    PROVE  /\ Section(head, body) \in Piece
           /\ Section(head, body)[1] = "section"
           /\ Section(head, body)[2] = head
           /\ Section(head, body)[3] = body
  <1>1. Section(head, body) \in Piece
    BY DEF Piece
  <1> QED  BY <1>1 DEF Section

LEMMA CompoundPieces ==
    ASSUME NEW span \in Span
    PROVE  /\ Compound(span) \in Piece
           /\ Compound(span)[1] = "compound"
           /\ Compound(span)[2] = span
  <1>1. Compound(span) \in Piece
    BY DEF Piece
  <1> QED  BY <1>1 DEF Compound

LEMMA PieceKinds ==
    ASSUME NEW p \in Piece
    PROVE  /\ p[1] = "end" => p = End
           /\ p[1] = "section" => p[3] \in Dicts
           /\ p[1] = "compound" => p[2] \in Span
  <1>1. \/ p \in {Header, NotFound, CloseWords, IndividualWords, End}
        \/ \E head, body \in Dicts : p = Section(head, body)
        \/ \E span \in Span : p = Compound(span)
    BY DEF Piece
  <1>2. CASE p \in {Header, NotFound, CloseWords, IndividualWords, End}
    BY <1>2, FixedPieces
  <1>3. CASE \E head, body \in Dicts : p = Section(head, body)
    BY <1>3, SectionPieces
  <1>4. CASE \E span \in Span : p = Compound(span)
    BY <1>4, CompoundPieces
  <1> QED  BY <1>1, <1>2, <1>3, <1>4

LEMMA PoppedIs ==
    ASSUME NEW queue \in Seq(Dicts), NEW taken \in 0 .. Len(queue)
    PROVE  /\ Popped(queue, taken) \in Seq(Dicts)
           /\ Len(Popped(queue, taken)) = Len(queue) - taken
           /\ \A i \in DOMAIN Popped(queue, taken) :
                  taken + i \in DOMAIN queue /\ Popped(queue, taken)[i] = queue[taken + i]
  <1>1. /\ Len(queue) \in Nat /\ DOMAIN queue = 1 .. Len(queue)
        /\ \A i \in 1 .. Len(queue) : queue[i] \in Dicts
    OBVIOUS
  <1>2. \A i \in taken + 1 .. Len(queue) : queue[i] \in Dicts
    BY <1>1
  <1>3. /\ Popped(queue, taken) \in Seq(Dicts)
        /\ Len(Popped(queue, taken)) = Len(queue) - taken
        /\ \A i \in 1 .. Len(queue) - taken : Popped(queue, taken)[i] = queue[taken + i]
    <2>1. taken + 1 \in Int /\ Len(queue) \in Int
      BY <1>1
    <2>2. /\ SubSeq(queue, taken + 1, Len(queue)) \in Seq(Dicts)
          /\ Len(SubSeq(queue, taken + 1, Len(queue))) =
                IF taken + 1 <= Len(queue) THEN Len(queue) - (taken + 1) + 1 ELSE 0
          /\ \A i \in 1 .. Len(queue) - (taken + 1) + 1 :
                SubSeq(queue, taken + 1, Len(queue))[i] = queue[taken + 1 + i - 1]
      BY <1>2, <2>1, SubSeqProperties
    <2>3. \A i \in Int : taken + 1 + i - 1 = taken + i
      BY <1>1
    <2>4. ASSUME NEW n \in Nat, taken \in 0 .. n
          PROVE  /\ (IF taken + 1 <= n THEN n - (taken + 1) + 1 ELSE 0) = n - taken
                 /\ n - (taken + 1) + 1 = n - taken
      BY <2>4
    <2>5. /\ (IF taken + 1 <= Len(queue) THEN Len(queue) - (taken + 1) + 1 ELSE 0)
                 = Len(queue) - taken
          /\ Len(queue) - (taken + 1) + 1 = Len(queue) - taken
      BY <1>1, <2>4
    <2>6. ASSUME NEW i \in 1 .. Len(queue) - taken
          PROVE  Popped(queue, taken)[i] = queue[taken + i]
      <3>1. i \in Int
        OBVIOUS
      <3> QED  BY <2>2, <2>3, <2>5, <3>1 DEF Popped
    <2> QED  BY <2>2, <2>5, <2>6 DEF Popped
  <1>4. DOMAIN Popped(queue, taken) = 1 .. Len(queue) - taken
    BY <1>3
  <1> QED  BY <1>1, <1>3, <1>4

LEMMA ShownIs ==
    ASSUME NEW queue \in Seq(Dicts), NEW taken \in 0 .. Len(queue), Len(queue) <= Count,
           NEW contents, NEW shown \in Ascending(WithContent(queue, taken, contents))
    PROVE  /\ shown \in Seq(1 .. taken)
           /\ DOMAIN shown = 1 .. Len(shown)
           /\ Asc(shown)
           /\ Range(shown) = WithContent(queue, taken, contents)
           /\ \A i \in DOMAIN shown :
                /\ shown[i] \in DOMAIN queue
                /\ contents[queue[shown[i]]] # "nothing"
                /\ queue[shown[i]] \in Dicts
                /\ HeadOf(queue, shown[i]) \in Dicts
  <1> DEFINE W == WithContent(queue, taken, contents)
  <1>1. Len(queue) \in Nat /\ DOMAIN queue = 1 .. Len(queue)
    OBVIOUS
  <1>2. W \subseteq 1 .. taken /\ \A j \in W : contents[queue[j]] # "nothing"
    BY DEF WithContent
  <1>3. IsFiniteSet(1 .. taken)
    BY <1>1, FS_Interval
  <1>4. IsFiniteSet(W)
    BY <1>2, <1>3, FS_Subset
  <1> HIDE DEF W
  <1>5. /\ shown \in Seq(W) /\ DOMAIN shown = 1 .. Len(shown)
        /\ Asc(shown) /\ Range(shown) = W
    BY <1>4, AscendingIs DEF W
  <1>6. shown \in Seq(1 .. taken)
    BY <1>2, <1>5, SeqMonotonic
  <1>7. ASSUME NEW i \in DOMAIN shown
        PROVE  /\ shown[i] \in DOMAIN queue
               /\ contents[queue[shown[i]]] # "nothing"
               /\ queue[shown[i]] \in Dicts
               /\ HeadOf(queue, shown[i]) \in Dicts
    <2>1. shown[i] \in W /\ shown[i] \in 1 .. taken
      BY <1>2, <1>5, ElementOfSeq
    <2>2. shown[i] \in 1 .. Len(queue)
      BY <1>1, <2>1
    <2>3. HeadOf(queue, shown[i]) \in Dicts
      BY <1>1, <2>2, CountAssumption DEF HeadOf, Dicts
    <2> QED  BY <1>1, <1>2, <2>1, <2>2, <2>3
  <1> QED  BY <1>5, <1>6, <1>7 DEF W

LEMMA GrownIs ==
    ASSUME NEW queue \in Seq(Dicts), NEW taken \in 0 .. Len(queue), Len(queue) <= Count,
           NEW contents, NEW shown \in Ascending(WithContent(queue, taken, contents)),
           NEW page \in Seq(Piece)
    PROVE  LET grown == Grown(page, queue, shown)
           IN  /\ grown \in Seq(Piece)
               /\ Len(grown) = Len(page) + Len(shown)
               /\ \A i \in 1 .. Len(page) : grown[i] = page[i]
               /\ \A i \in 1 .. Len(shown) :
                      grown[Len(page) + i] = Section(HeadOf(queue, shown[i]), queue[shown[i]])
               /\ \A i \in DOMAIN grown :
                      \/ i \in DOMAIN page
                      \/ i - Len(page) \in DOMAIN shown /\ i = Len(page) + (i - Len(page))
  <1> DEFINE tail == [i \in DOMAIN shown |-> Section(HeadOf(queue, shown[i]), queue[shown[i]])]
  <1>1. /\ shown \in Seq(1 .. taken) /\ DOMAIN shown = 1 .. Len(shown)
        /\ \A i \in DOMAIN shown : queue[shown[i]] \in Dicts /\ HeadOf(queue, shown[i]) \in Dicts
    BY ShownIs
  <1>2. Len(shown) \in Nat
    BY <1>1
  <1>3. tail \in [1 .. Len(shown) -> Piece]
    BY <1>1, SectionPieces
  <1>4. tail \in Seq(Piece)
    BY <1>2, <1>3, SeqDef
  <1>5. DOMAIN tail = 1 .. Len(shown)
    BY <1>1
  <1>6. Len(tail) = Len(shown)
    BY <1>2, <1>4, <1>5
  <1>7. /\ Grown(page, queue, shown) = page \o tail
        /\ \A i \in 1 .. Len(shown) :
              tail[i] = Section(HeadOf(queue, shown[i]), queue[shown[i]])
    BY <1>5 DEF Grown
  <1> HIDE DEF tail
  <1>8. Len(page) \in Nat /\ DOMAIN page = 1 .. Len(page)
    OBVIOUS
  <1>9. /\ page \o tail \in Seq(Piece)
        /\ Len(page \o tail) = Len(page) + Len(shown)
        /\ \A i \in 1 .. Len(page) : (page \o tail)[i] = page[i]
        /\ \A i \in 1 .. Len(shown) : (page \o tail)[Len(page) + i] = tail[i]
    <2>1. /\ page \o tail \in Seq(Piece)
          /\ Len(page \o tail) = Len(page) + Len(tail)
          /\ \A i \in 1 .. Len(page) + Len(tail) :
                (page \o tail)[i] = IF i <= Len(page) THEN page[i] ELSE tail[i - Len(page)]
      BY <1>4, ConcatProperties
    <2>2. ASSUME NEW i \in 1 .. Len(shown)
          PROVE  (page \o tail)[Len(page) + i] = tail[i]
      <3>1. Len(page) + i \in 1 .. Len(page) + Len(tail) /\ ~(Len(page) + i <= Len(page))
            /\ (Len(page) + i) - Len(page) = i
        BY <1>2, <1>6, <1>8
      <3> QED  BY <2>1, <3>1
    <2> QED  BY <1>2, <1>6, <1>8, <2>1, <2>2
  <1>10. DOMAIN (page \o tail) = 1 .. Len(page) + Len(shown)
    BY <1>9
  <1>11. ASSUME NEW i \in 1 .. Len(page) + Len(shown)
         PROVE  \/ i \in DOMAIN page
                \/ i - Len(page) \in DOMAIN shown /\ i = Len(page) + (i - Len(page))
    BY <1>1, <1>2, <1>8
  <1> QED  BY <1>7, <1>9, <1>10, <1>11

LEMMA InOrderGrows ==
    ASSUME NEW queue \in Seq(Dicts), NEW taken \in 0 .. Len(queue), Len(queue) <= Count,
           NEW contents, NEW shown \in Ascending(WithContent(queue, taken, contents)),
           NEW page \in Seq(Piece), InOrder(page, queue, contents)
    PROVE  InOrder(Grown(page, queue, shown), Popped(queue, taken), contents)
  <1> DEFINE grown == Grown(page, queue, shown)
             rest == Popped(queue, taken)
  <1>1. /\ rest \in Seq(Dicts)
        /\ \A i \in DOMAIN rest : taken + i \in DOMAIN queue /\ rest[i] = queue[taken + i]
        /\ Len(rest) = Len(queue) - taken
    BY PoppedIs
  <1>2. /\ shown \in Seq(1 .. taken)
        /\ DOMAIN shown = 1 .. Len(shown)
        /\ Asc(shown)
        /\ Range(shown) = WithContent(queue, taken, contents)
        /\ \A i \in DOMAIN shown :
             /\ shown[i] \in DOMAIN queue
             /\ contents[queue[shown[i]]] # "nothing"
             /\ queue[shown[i]] \in Dicts
             /\ HeadOf(queue, shown[i]) \in Dicts
    BY ShownIs
  <1>3. /\ grown \in Seq(Piece)
        /\ Len(grown) = Len(page) + Len(shown)
        /\ \A i \in 1 .. Len(page) : grown[i] = page[i]
        /\ \A i \in 1 .. Len(shown) :
               grown[Len(page) + i] = Section(HeadOf(queue, shown[i]), queue[shown[i]])
        /\ \A i \in DOMAIN grown :
               \/ i \in DOMAIN page
               \/ i - Len(page) \in DOMAIN shown /\ i = Len(page) + (i - Len(page))
    BY GrownIs
  <1>4. /\ Len(page) \in Nat /\ DOMAIN page = 1 .. Len(page)
        /\ Len(queue) \in Nat /\ DOMAIN queue = 1 .. Len(queue)
        /\ DOMAIN grown = 1 .. Len(page) + Len(shown)
        /\ Len(shown) \in Nat
        /\ DOMAIN rest = 1 .. Len(queue) - taken
        /\ \A i \in DOMAIN queue : queue[i] \in Int
        /\ \A i \in DOMAIN shown : shown[i] \in 1 .. taken
    <2>1. /\ Len(page) \in Nat /\ DOMAIN page = 1 .. Len(page)
          /\ Len(queue) \in Nat /\ DOMAIN queue = 1 .. Len(queue)
          /\ Len(shown) \in Nat
      BY <1>2
    <2> HIDE DEF grown, rest
    <2>2. DOMAIN grown = 1 .. Len(page) + Len(shown) /\ DOMAIN rest = 1 .. Len(queue) - taken
      BY <1>1, <1>3
    <2>3. \A i \in DOMAIN queue : queue[i] \in Int
      <3>1. \A i \in 1 .. Len(queue) : queue[i] \in Dicts
        BY ElementOfSeq
      <3> QED  BY <2>1, <3>1 DEF Dicts
    <2>4. \A i \in DOMAIN shown : shown[i] \in 1 .. taken
      BY <1>2
    <2> QED  BY <2>1, <2>2, <2>3, <2>4
  <1> HIDE DEF grown, rest
  <1>5. Asc(rest)
    <2>1. ASSUME NEW i \in DOMAIN rest, NEW j \in DOMAIN rest, i < j
          PROVE  rest[i] < rest[j]
      <3>1. taken + i \in DOMAIN queue /\ taken + j \in DOMAIN queue /\ taken + i < taken + j
        BY <1>1, <1>4, <2>1
      <3> QED  BY <1>1, <3>1 DEF InOrder, Asc
    <2> QED  BY <2>1 DEF Asc
  <1> DEFINE New(i) == i \notin DOMAIN page /\ i - Len(page) \in DOMAIN shown
  <1>6. ASSUME NEW i \in Where(grown, "section")
        PROVE  \/ i \in Where(page, "section") /\ grown[i] = page[i]
               \/ New(i) /\ grown[i][3] = queue[shown[i - Len(page)]]
    <2>1. i \in DOMAIN grown /\ grown[i][1] = "section"
      BY DEF Where
    <2>2. CASE i \in DOMAIN page
      BY <1>3, <1>4, <2>1, <2>2 DEF Where
    <2>3. CASE i \notin DOMAIN page
      <3>1. i - Len(page) \in DOMAIN shown /\ i = Len(page) + (i - Len(page))
        BY <1>3, <2>1, <2>3
      <3>2. grown[i] = Section(HeadOf(queue, shown[i - Len(page)]), queue[shown[i - Len(page)]])
        BY <1>2, <1>3, <3>1
      <3> QED  BY <1>2, <2>3, <3>1, <3>2, SectionPieces
    <2> QED  BY <2>2, <2>3
  <1>7. \A i \in Where(page, "section") : i \in DOMAIN page /\ page[i][3] \in Int
    <2>1. ASSUME NEW i \in Where(page, "section")
          PROVE  i \in DOMAIN page /\ page[i][3] \in Int
      <3>1. i \in DOMAIN page /\ page[i] \in Piece /\ page[i][1] = "section"
        BY DEF Where
      <3> QED  BY <3>1, PieceKinds DEF Dicts
    <2> QED  BY <2>1
  <1>8. ASSUME NEW i \in Where(grown, "section"), NEW j \in Where(grown, "section"), i < j
        PROVE  grown[i][3] < grown[j][3]
    <2>1. CASE i \in Where(page, "section") /\ j \in Where(page, "section")
      BY <1>3, <1>4, <1>7, <1>8, <2>1 DEF InOrder
    <2>2. CASE i \in Where(page, "section") /\ grown[i] = page[i] /\ New(j)
               /\ grown[j][3] = queue[shown[j - Len(page)]]
      BY <1>2, <2>2 DEF InOrder
    <2>3. CASE /\ New(i) /\ grown[i][3] = queue[shown[i - Len(page)]]
               /\ New(j) /\ grown[j][3] = queue[shown[j - Len(page)]]
      <3>1. i - Len(page) < j - Len(page)
        <4>1. i \in Int /\ j \in Int
          BY <1>4 DEF Where
        <4> QED  BY <1>4, <1>8, <4>1
      <3>2. shown[i - Len(page)] < shown[j - Len(page)]
        BY <1>2, <2>3, <3>1 DEF Asc
      <3> QED  BY <1>2, <2>3, <3>2 DEF InOrder, Asc
    <2>4. CASE New(i) /\ j \in Where(page, "section")
      BY <1>4, <1>7, <1>8, <2>4 DEF Where
    <2> QED  BY <1>6, <2>1, <2>2, <2>3, <2>4
  <1>9. ASSUME NEW i \in Where(grown, "section"), NEW j \in DOMAIN rest
        PROVE  grown[i][3] < rest[j]
    <2>1. taken + j \in DOMAIN queue /\ rest[j] = queue[taken + j] /\ j >= 1 /\ j \in Nat
      BY <1>1, <1>4
    <2>2. CASE i \in Where(page, "section") /\ grown[i] = page[i]
      BY <2>1, <2>2 DEF InOrder
    <2>3. CASE New(i) /\ grown[i][3] = queue[shown[i - Len(page)]]
      <3>1. shown[i - Len(page)] < taken + j
        BY <1>4, <2>1, <2>3
      <3> QED  BY <1>2, <2>1, <2>3, <3>1 DEF InOrder, Asc
    <2> QED  BY <1>6, <2>2, <2>3
  <1>10. Shown(grown) = {d \in Dicts : contents[d] # "nothing"} \ Range(rest)
    <2>1. ASSUME NEW i \in Where(grown, "section")
          PROVE  /\ grown[i][3] \in Dicts /\ contents[grown[i][3]] # "nothing"
                 /\ grown[i][3] \notin Range(rest)
      <3>1. grown[i][3] \notin Range(rest)
        <4>1. ASSUME NEW j \in DOMAIN rest
              PROVE  grown[i][3] # rest[j]
          <5>1. rest[j] \in Int
            BY <1>1, <1>4
          <5> QED  BY <1>9, <5>1
        <4> QED  BY <4>1 DEF Range
      <3>2. CASE i \in Where(page, "section") /\ grown[i] = page[i]
        <4>1. page[i][3] \in Shown(page)
          BY <3>2 DEF Shown
        <4> QED  BY <3>1, <3>2, <4>1 DEF InOrder
      <3>3. CASE New(i) /\ grown[i][3] = queue[shown[i - Len(page)]]
        BY <1>2, <3>1, <3>3
      <3> QED  BY <1>6, <3>2, <3>3
    <2>2. ASSUME NEW d \in Dicts, contents[d] # "nothing", d \notin Range(rest)
          PROVE  \E i \in Where(grown, "section") : grown[i][3] = d
      <3>1. CASE d \notin Range(queue)
        <4>1. d \in Shown(page)
          BY <2>2, <3>1 DEF InOrder
        <4>2. PICK i \in Where(page, "section") : page[i][3] = d
          BY <4>1 DEF Shown
        <4>3. i \in DOMAIN page /\ i \in DOMAIN grown /\ grown[i] = page[i]
          BY <1>3, <1>4 DEF Where
        <4>4. i \in Where(grown, "section")
          BY <4>3 DEF Where
        <4> QED  BY <4>2, <4>3, <4>4
      <3>2. CASE d \in Range(queue)
        <4>1. PICK k \in DOMAIN queue : queue[k] = d
          BY <3>2 DEF Range
        <4>2. ~(k > taken)
          <5> SUFFICES ASSUME k > taken PROVE FALSE
            OBVIOUS
          <5>1. k - taken \in DOMAIN rest /\ taken + (k - taken) = k
            BY <1>4
          <5>2. rest[k - taken] = d
            BY <1>1, <4>1, <5>1
          <5> QED  BY <2>2, <5>1, <5>2 DEF Range
        <4>3. k \in WithContent(queue, taken, contents)
          BY <1>4, <2>2, <4>1, <4>2 DEF WithContent
        <4>4. PICK m \in DOMAIN shown : shown[m] = k
          BY <1>2, <4>3 DEF Range
        <4>5. Len(page) + m \in DOMAIN grown /\ m \in 1 .. Len(shown)
          BY <1>2, <1>4
        <4>6. grown[Len(page) + m] = Section(HeadOf(queue, k), d)
          BY <1>3, <4>1, <4>4, <4>5
        <4>7. HeadOf(queue, k) \in Dicts
          BY <1>2, <4>4
        <4> QED  BY <4>5, <4>6, <4>7, SectionPieces DEF Where
      <3> QED  BY <3>1, <3>2
    <2> QED  BY <2>1, <2>2 DEF Shown
  <1> QED  BY <1>5, <1>8, <1>9, <1>10 DEF InOrder, grown, rest

LEMMA HeadedGrows ==
    ASSUME NEW queue \in Seq(Dicts), NEW taken \in 0 .. Len(queue), Len(queue) <= Count,
           NEW contents, NEW shown \in Ascending(WithContent(queue, taken, contents)),
           NEW page \in Seq(Piece), Counted(queue), Headed(page)
    PROVE  Counted(Popped(queue, taken)) /\ Headed(Grown(page, queue, shown))
  <1> DEFINE grown == Grown(page, queue, shown)
             rest == Popped(queue, taken)
  <1>1. /\ Len(rest) = Len(queue) - taken
        /\ \A i \in DOMAIN rest : taken + i \in DOMAIN queue /\ rest[i] = queue[taken + i]
        /\ rest \in Seq(Dicts)
    BY PoppedIs
  <1>2. /\ DOMAIN shown = 1 .. Len(shown)
        /\ \A i \in DOMAIN shown :
             /\ shown[i] \in DOMAIN queue
             /\ queue[shown[i]] \in Dicts
             /\ HeadOf(queue, shown[i]) \in Dicts
    BY ShownIs
  <1>3. /\ \A i \in 1 .. Len(page) : grown[i] = page[i]
        /\ \A i \in 1 .. Len(shown) :
               grown[Len(page) + i] = Section(HeadOf(queue, shown[i]), queue[shown[i]])
        /\ \A i \in DOMAIN grown :
               \/ i \in DOMAIN page
               \/ i - Len(page) \in DOMAIN shown /\ i = Len(page) + (i - Len(page))
    BY GrownIs
  <1>4. DOMAIN page = 1 .. Len(page) /\ Len(queue) \in Nat
    OBVIOUS
  <1> HIDE DEF grown, rest
  <1>5. Counted(rest)
    <2>1. ASSUME NEW i \in DOMAIN rest
          PROVE  HeadOf(rest, i) = rest[i]
      <3>1. HeadOf(queue, taken + i) = rest[i]
        BY <1>1 DEF Counted
      <3>2. i \in Int
        BY <1>1
      <3> QED  BY <1>1, <1>4, <3>1, <3>2, CountAssumption DEF HeadOf
    <2> QED  BY <2>1 DEF Counted
  <1>6. Headed(grown)
    <2>1. ASSUME NEW i \in DOMAIN grown, grown[i][1] = "section"
          PROVE  grown[i][2] = grown[i][3]
      <3>1. CASE i \in DOMAIN page
        BY <1>3, <1>4, <2>1, <3>1 DEF Headed, Where
      <3>2. CASE i - Len(page) \in DOMAIN shown /\ i = Len(page) + (i - Len(page))
        BY <1>2, <1>3, <3>2, SectionPieces DEF Counted
      <3> QED  BY <1>3, <3>1, <3>2
    <2> QED  BY <2>1 DEF Headed, Where
  <1> QED  BY <1>5, <1>6 DEF grown, rest

\* The articles added are nothing but articles.
LEMMA GrownLacks ==
    ASSUME NEW queue \in Seq(Dicts), NEW taken \in 0 .. Len(queue), Len(queue) <= Count,
           NEW contents, NEW shown \in Ascending(WithContent(queue, taken, contents)),
           NEW page \in Seq(Piece), NEW kind, kind # "section", Lacks(page, kind)
    PROVE  Lacks(Grown(page, queue, shown), kind)
  <1> DEFINE grown == Grown(page, queue, shown)
  <1>1. /\ DOMAIN shown = 1 .. Len(shown)
        /\ \A i \in DOMAIN shown : queue[shown[i]] \in Dicts /\ HeadOf(queue, shown[i]) \in Dicts
    BY ShownIs
  <1>2. /\ \A i \in 1 .. Len(page) : grown[i] = page[i]
        /\ \A i \in 1 .. Len(shown) :
               grown[Len(page) + i] = Section(HeadOf(queue, shown[i]), queue[shown[i]])
        /\ \A i \in DOMAIN grown :
               \/ i \in DOMAIN page
               \/ i - Len(page) \in DOMAIN shown /\ i = Len(page) + (i - Len(page))
    BY GrownIs
  <1>3. DOMAIN page = 1 .. Len(page)
    OBVIOUS
  <1> HIDE DEF grown
  <1>4. ASSUME NEW i \in DOMAIN grown
        PROVE  grown[i][1] # kind
    <2>1. CASE i \in DOMAIN page
      BY <1>2, <1>3, <2>1 DEF Lacks
    <2>2. CASE i - Len(page) \in DOMAIN shown /\ i = Len(page) + (i - Len(page))
      BY <1>1, <1>2, <2>2, SectionPieces
    <2> QED  BY <1>2, <2>1, <2>2
  <1> QED  BY <1>4 DEF Lacks, grown

(***************************************************************************)
(* What one more piece makes of a page.                                    *)
(***************************************************************************)
LEMMA AppendIs ==
    ASSUME NEW page \in Seq(Piece), NEW p \in Piece
    PROVE  /\ Append(page, p) \in Seq(Piece)
           /\ Len(Append(page, p)) = Len(page) + 1
           /\ Len(page) + 1 \in DOMAIN Append(page, p)
           /\ Append(page, p)[Len(page) + 1] = p
           /\ \A i \in DOMAIN page : i \in DOMAIN Append(page, p) /\ Append(page, p)[i] = page[i]
           /\ \A i \in DOMAIN Append(page, p) : i \in DOMAIN page \/ i = Len(page) + 1
           /\ \A i \in DOMAIN page : i < Len(page) + 1
  <1>1. Len(page) \in Nat /\ DOMAIN page = 1 .. Len(page)
    OBVIOUS
  <1>2. /\ Append(page, p) \in Seq(Piece)
        /\ Len(Append(page, p)) = Len(page) + 1
        /\ \A i \in 1 .. Len(page) : Append(page, p)[i] = page[i]
        /\ Append(page, p)[Len(page) + 1] = p
    BY AppendProperties
  <1>3. DOMAIN Append(page, p) = 1 .. Len(page) + 1
    BY <1>2
  <1> QED  BY <1>1, <1>2, <1>3

LEMMA AppendWhere ==
    ASSUME NEW page \in Seq(Piece), NEW p \in Piece, NEW kind
    PROVE  /\ p[1] # kind => Where(Append(page, p), kind) = Where(page, kind)
           /\ p[1] = kind => Where(Append(page, p), kind) = Where(page, kind) \cup {Len(page) + 1}
           /\ \A i \in Where(page, kind) : Append(page, p)[i] = page[i] /\ i < Len(page) + 1
           /\ p[1] # kind /\ Lacks(page, kind) => Lacks(Append(page, p), kind)
  <1>1. /\ Len(page) + 1 \in DOMAIN Append(page, p)
        /\ Append(page, p)[Len(page) + 1] = p
        /\ \A i \in DOMAIN page : i \in DOMAIN Append(page, p) /\ Append(page, p)[i] = page[i]
        /\ \A i \in DOMAIN Append(page, p) : i \in DOMAIN page \/ i = Len(page) + 1
        /\ \A i \in DOMAIN page : i < Len(page) + 1
    BY AppendIs
  <1> DEFINE grown == Append(page, p)
             n == Len(page) + 1
  <1> HIDE DEF grown, n
  <1>2. /\ n \in DOMAIN grown /\ grown[n] = p
        /\ \A i \in DOMAIN page : i \in DOMAIN grown /\ grown[i] = page[i]
        /\ \A i \in DOMAIN grown : i \in DOMAIN page \/ i = n
        /\ \A i \in DOMAIN page : i < n
    BY <1>1 DEF grown, n
  <1>3. /\ p[1] # kind => Where(grown, kind) = Where(page, kind)
        /\ p[1] = kind => Where(grown, kind) = Where(page, kind) \cup {n}
    BY <1>2 DEF Where
  <1>4. \A i \in Where(page, kind) : grown[i] = page[i] /\ i < n
    BY <1>2 DEF Where
  <1>5. p[1] # kind /\ Lacks(page, kind) => Lacks(grown, kind)
    BY <1>2 DEF Lacks
  <1> QED  BY <1>3, <1>4, <1>5 DEF grown, n

LEMMA NoArticleAppended ==
    ASSUME NEW page \in Seq(Piece), NEW p \in Piece, p[1] # "section"
    PROVE  /\ \A queue, contents :
                InOrder(page, queue, contents) => InOrder(Append(page, p), queue, contents)
           /\ Headed(page) => Headed(Append(page, p))
  <1> DEFINE W == Where(page, "section")
             grown == Append(page, p)
  <1>1. Where(grown, "section") = W /\ \A i \in W : grown[i] = page[i]
    BY AppendWhere, ZenonT(30)
  <1> HIDE DEF grown
  <1>2. Shown(grown) = Shown(page)
    BY <1>1 DEF Shown
  <1>3. ASSUME NEW queue, NEW contents, InOrder(page, queue, contents)
        PROVE  InOrder(grown, queue, contents)
    BY <1>1, <1>2, <1>3 DEF InOrder
  <1>4. Headed(page) => Headed(grown)
    BY <1>1 DEF Headed
  <1> QED  BY <1>3, <1>4 DEF grown

LEMMA EndAppended ==
    ASSUME NEW page \in Seq(Piece), Lacks(page, "end")
    PROVE  /\ Where(Append(page, End), "end") = {Len(Append(page, End))}
           /\ Append(page, End)[Len(Append(page, End))] = End
  <1>1. End \in Piece /\ End[1] = "end"
    BY FixedPieces
  <1>2. Where(page, "end") = {}
    BY DEF Lacks, Where
  <1>3. Where(Append(page, End), "end") = Where(page, "end") \cup {Len(page) + 1}
    BY <1>1, AppendWhere
  <1>4. Len(Append(page, End)) = Len(page) + 1 /\ Append(page, End)[Len(page) + 1] = End
    BY <1>1, AppendIs
  <1> QED  BY <1>2, <1>3, <1>4

LEMMA NoCompoundAppended ==
    ASSUME NEW page \in Seq(Piece), NEW p \in Piece, p[1] # "compound", NEW lex, NEW n,
           ListedTo(lex, page, n)
    PROVE  ListedTo(lex, Append(page, p), n)
  <1> DEFINE W == Where(page, "compound")
             grown == Append(page, p)
  <1>1. Where(grown, "compound") = W /\ \A i \in W : grown[i] = page[i]
    BY AppendWhere, ZenonT(30)
  <1> HIDE DEF grown
  <1>2. {grown[i][2] : i \in W} = {page[i][2] : i \in W}
    BY <1>1
  <1> QED  BY <1>1, <1>2 DEF ListedTo, grown

\* What else is asked of a page is not undone by pieces that are no articles.
Kept(page, grown) ==
    /\ grown \in Seq(Piece)
    /\ grown # <<>> /\ grown[1] = page[1]
    /\ \A queue, contents : InOrder(page, queue, contents) => InOrder(grown, queue, contents)
    /\ Headed(page) => Headed(grown)

LEMMA KeptByAppend ==
    ASSUME NEW page \in Seq(Piece), page # <<>>, NEW p \in Piece, p[1] # "section"
    PROVE  Kept(page, Append(page, p))
  <1>1. 1 \in DOMAIN page
    OBVIOUS
  <1>2. /\ Append(page, p) \in Seq(Piece)
        /\ Len(Append(page, p)) = Len(page) + 1
        /\ \A i \in DOMAIN page : Append(page, p)[i] = page[i]
    BY AppendIs
  <1>3. Append(page, p) # <<>>
    BY <1>2
  <1> QED  BY <1>1, <1>2, <1>3, NoArticleAppended DEF Kept

LEMMA KeptSelf ==
    ASSUME NEW page \in Seq(Piece), page # <<>>
    PROVE  Kept(page, page)
  BY DEF Kept

LEMMA KeptTwice ==
    ASSUME NEW p, NEW q, NEW r, Kept(p, q), Kept(q, r)
    PROVE  Kept(p, r)
  BY DEF Kept

-----------------------------------------------------------------------------
(***************************************************************************)
(* The search for compound expressions.                                    *)
(***************************************************************************)
LEMMA KnownIs ==
    ASSUME NEW lex, NEW s \in 0 .. WordCount - 1, NEW k \in Known(lex, s)
    PROVE  /\ k \in Int /\ s < k /\ k <= WordCount - 1
           /\ Reachable(lex, s, k)
           /\ lex[<<s, k>>] = "exact"
           /\ <<s, k>> \in Span
  BY CountAssumption DEF Known, Span

\* The words s to e have been tried.
LEMMA Tried ==
    ASSUME NEW lex, NEW s \in Int, NEW e \in Int, 0 <= s, s < e, e <= WordCount - 1,
           Reachable(lex, s, e), NEW last, BestBefore(lex, s, e, last)
    PROVE  LET good == IF lex[<<s, e>>] = "exact" THEN <<s, e>> ELSE last
           IN  /\ BestBefore(lex, s, e + 1, good)
               /\ good \in Span \cup {NoSpan}
               /\ lex[<<s, e>>] # "none" => Reachable(lex, s, e + 1)
               /\ lex[<<s, e>>] = "none" \/ e = WordCount - 1 => \A k \in Known(lex, s) : k < e + 1
  <1> DEFINE good == IF lex[<<s, e>>] = "exact" THEN <<s, e>> ELSE last
  <1>1. s \in 0 .. WordCount - 1 /\ e \in s + 1 .. WordCount - 1
    BY CountAssumption
  <1>2. \A k \in Known(lex, s) : k \in Int /\ s < k /\ k <= WordCount - 1 /\ <<s, k>> \in Span
                                 /\ Reachable(lex, s, k) /\ lex[<<s, k>>] = "exact"
    BY <1>1, KnownIs
  <1>3. Known(lex, s) \in SUBSET Int
    BY <1>2
  <1>4. BestBefore(lex, s, e + 1, good) /\ good \in Span \cup {NoSpan}
    <2>1. CASE lex[<<s, e>>] = "exact"
      <3>1. e \in Known(lex, s)
        BY <1>1, <2>1 DEF Known
      <3>2. \A j \in Known(lex, s) : j < e + 1 => j <= e
        BY <1>3
      <3> QED  BY <1>2, <2>1, <3>1, <3>2 DEF BestBefore
    <2>2. CASE lex[<<s, e>>] # "exact"
      <3>1. \A j \in Known(lex, s) : j # e
        BY <1>2, <2>2
      <3>2. \A j \in Known(lex, s) : (j >= e <=> j >= e + 1) /\ (j < e <=> j < e + 1)
        BY <1>3, <3>1
      <3>3. CASE last = NoSpan /\ \A k \in Known(lex, s) : k >= e
        BY <2>2, <3>2, <3>3 DEF BestBefore
      <3>4. CASE \E k \in Known(lex, s) :
                   last = <<s, k>> /\ k < e /\ \A j \in Known(lex, s) : j < e => j <= k
        BY <1>2, <2>2, <3>2, <3>4 DEF BestBefore
      <3> QED  BY <3>3, <3>4 DEF BestBefore
    <2> QED  BY <2>1, <2>2
  <1>5. ASSUME lex[<<s, e>>] # "none"
        PROVE  Reachable(lex, s, e + 1)
    <2>1. ASSUME NEW k \in s + 1 .. (e + 1) - 1
          PROVE  lex[<<s, k>>] # "none"
      <3>1. k = e \/ k \in s + 1 .. e - 1
        OBVIOUS
      <3> QED  BY <1>5, <3>1 DEF Reachable
    <2> QED  BY <2>1 DEF Reachable
  <1>6. ASSUME lex[<<s, e>>] = "none" \/ e = WordCount - 1, NEW k \in Known(lex, s)
        PROVE  k < e + 1
    <2> SUFFICES ASSUME ~(k < e + 1) PROVE FALSE
      OBVIOUS
    <2>1. k \in Int /\ k > e /\ e \in s + 1 .. k - 1
      BY <1>3
    <2>2. k <= WordCount - 1 /\ Reachable(lex, s, k)
      BY <1>2
    <2>3. lex[<<s, e>>] # "none"
      BY <2>1, <2>2 DEF Reachable
    <2> QED  BY <1>6, <2>1, <2>2, <2>3, CountAssumption
  <1> QED  BY <1>4, <1>5, <1>6

\* What is linked when all searches from word s have come to an end.
Linked(page, good) == IF good = NoSpan THEN page ELSE Append(page, Compound(good))

LEMMA LinkedLists ==
    ASSUME NEW lex, NEW page \in Seq(Piece), page # <<>>,
           NEW s \in Int, 0 <= s, s <= WordCount - 2, ListedTo(lex, page, s),
           NEW e \in Int, NEW good, BestBefore(lex, s, e, good),
           \A k \in Known(lex, s) : k < e
    PROVE  ListedTo(lex, Linked(page, good), s + 1)
  <1>1. s \in 0 .. WordCount - 1
    BY CountAssumption
  <1>2. \A k \in Known(lex, s) : k \in Int /\ <<s, k>> \in Span
    BY <1>1, KnownIs
  <1> DEFINE All(n) == {<<t, Max(Known(lex, t))>> : t \in {u \in 0 .. n - 1 : Known(lex, u) # {}}}
             listed == Where(page, "compound")
  <1>3. /\ \A i, j \in listed : i < j => page[i][2][1] < page[j][2][1]
        /\ {page[i][2] : i \in listed} = All(s)
    BY DEF ListedTo
  <1>4. \A u : u \in 0 .. (s + 1) - 1 <=> u \in 0 .. s - 1 \/ u = s
    OBVIOUS
  <1>5. CASE good = NoSpan /\ \A k \in Known(lex, s) : k >= e
    <2>1. Known(lex, s) = {}
      <3>1. Known(lex, s) \in SUBSET Int
        BY <1>2
      <3> QED  BY <1>5, <3>1
    <2>2. {u \in 0 .. (s + 1) - 1 : Known(lex, u) # {}} = {u \in 0 .. s - 1 : Known(lex, u) # {}}
      BY <1>4, <2>1
    <2>3. All(s + 1) = All(s)
      BY <2>2
    <2> QED  BY <1>3, <1>5, <2>3 DEF ListedTo, Linked
  <1>6. CASE \E k \in Known(lex, s) :
               good = <<s, k>> /\ k < e /\ \A j \in Known(lex, s) : j < e => j <= k
    <2>1. PICK k \in Known(lex, s) :
               good = <<s, k>> /\ k < e /\ \A j \in Known(lex, s) : j < e => j <= k
      BY <1>6
    <2>2. Max(Known(lex, s)) = k
      <3>1. Known(lex, s) \in SUBSET Int /\ \A j \in Known(lex, s) : j <= k
        BY <1>2, <2>1
      <3> QED  BY <2>1, <3>1, MaxIs
    <2>3. good # NoSpan /\ good \in Span /\ good[1] = s
      BY <1>2, <2>1 DEF NoSpan
    <2> DEFINE p == Compound(good)
               grown == Append(page, p)
               n == Len(page) + 1
    <2>4. p \in Piece /\ p[1] = "compound" /\ p[2] = good
      BY <2>3, CompoundPieces
    <2> HIDE DEF p
    <2>5. /\ Where(grown, "compound") = listed \cup {n}
          /\ \A i \in listed : grown[i] = page[i] /\ i < n
          /\ grown[n] = p
          /\ n \in Int
      <3>1. Len(page) \in Nat
        OBVIOUS
      <3>2. Append(page, p)[Len(page) + 1] = p
        BY <2>4, AppendIs
      <3>3. /\ Where(Append(page, p), "compound") = Where(page, "compound") \cup {Len(page) + 1}
            /\ \A i \in Where(page, "compound") : Append(page, p)[i] = page[i] /\ i < Len(page) + 1
        BY <2>4, AppendWhere, ZenonT(30)
      <3>4. n \in Int
        BY <3>1
      <3> QED  BY Zenon, <3>2, <3>3, <3>4
    <2>6. \A i \in listed : i \in Int
      BY DEF Where
    <2>7. All(s + 1) = All(s) \cup {good}
      <3>1. {u \in 0 .. (s + 1) - 1 : Known(lex, u) # {}} =
               {u \in 0 .. s - 1 : Known(lex, u) # {}} \cup {s}
        BY <1>4, <2>1
      <3> QED  BY <2>1, <2>2, <3>1
    <2>8. \A i \in listed : page[i][2][1] \in 0 .. s - 1
      <3>1. ASSUME NEW i \in listed
            PROVE  page[i][2][1] \in 0 .. s - 1
        <4>1. page[i][2] \in All(s)
          BY <1>3
        <4>2. PICK t \in 0 .. s - 1 : page[i][2] = <<t, Max(Known(lex, t))>>
          BY <4>1
        <4> QED  BY <4>2
      <3> QED  BY <3>1
    <2> HIDE DEF p, grown, n, listed, All
    <2>9. {grown[i][2] : i \in listed \cup {n}} = All(s + 1)
      BY <1>3, <2>4, <2>5, <2>7
    <2>10. ASSUME NEW i \in listed \cup {n}, NEW j \in listed \cup {n}, i < j
           PROVE  grown[i][2][1] < grown[j][2][1]
      <3>1. CASE i \in listed /\ j \in listed
        BY <1>3, <2>5, <2>10, <3>1
      <3>2. CASE i \in listed /\ j = n
        <4>1. grown[i] = page[i] /\ page[i][2][1] < s
          BY <2>5, <2>8, <3>2
        <4>2. grown[j][2][1] = s
          BY <2>3, <2>4, <2>5, <3>2
        <4> QED  BY <4>1, <4>2
      <3>3. i # n
        BY <2>5, <2>6, <2>10
      <3> QED  BY <3>1, <3>2, <3>3
    <2>11. ListedTo(lex, grown, s + 1)
      BY <2>5, <2>9, <2>10 DEF ListedTo, All
    <2> QED  BY <2>3, <2>11 DEF Linked, grown, p
  <1> QED  BY <1>5, <1>6 DEF BestBefore

LEMMA LinkedKeeps ==
    ASSUME NEW page \in Seq(Piece), page # <<>>, NEW good \in Span \cup {NoSpan}
    PROVE  /\ Kept(page, Linked(page, good))
           /\ \A kind : kind # "compound" /\ Lacks(page, kind) => Lacks(Linked(page, good), kind)
  <1>1. CASE good = NoSpan
    BY <1>1, KeptSelf DEF Linked
  <1>2. CASE good \in Span /\ good # NoSpan
    <2>1. Compound(good) \in Piece /\ Compound(good)[1] = "compound"
      BY <1>2, CompoundPieces
    <2>2. Kept(page, Append(page, Compound(good)))
      BY <2>1, KeptByAppend
    <2>3. \A kind : kind # "compound" /\ Lacks(page, kind)
                      => Lacks(Append(page, Compound(good)), kind)
      BY <2>1, AppendWhere
    <2> QED  BY <1>2, <2>2, <2>3 DEF Linked
  <1> QED  BY <1>1, <1>2

-----------------------------------------------------------------------------
(***************************************************************************)
(* The invariant holds at first and after every step.                      *)
(***************************************************************************)
LEMMA InitInv == Init => IInv
  <1> SUFFICES ASSUME Init PROVE IInv
    OBVIOUS
  <1>1. TypeOK
    <2>1. <<>> \in Seq(Dicts) /\ <<>> \in Seq(Piece)
      OBVIOUS
    <2>2. -1 \in -1 .. WordCount - 1
      BY CountAssumption
    <2> QED  BY <2>1, <2>2 DEF Init, TypeOK, Lives, Contents, Outcome
  <1>2. PhaseInv
    BY DEF Init, PhaseInv, Whole, Live, Where
  <1>3. QueueInv
    BY CountAssumption DEF Init, QueueInv
  <1>4. WordInv
    BY DEF Init, WordInv, Whole, CompoundsListed, Lacks
  <1> QED  BY <1>1, <1>2, <1>3, <1>4 DEF IInv

\* A step of bodyFinished() on a queue in order, when all main forms are known.
BodyReady(queue, lives, contents, page, postedNow) ==
    /\ queue \in Seq(Dicts) /\ Len(queue) <= Count
    /\ lives \in [Dicts -> Lives]
    /\ contents \in [Dicts -> Contents]
    /\ page \in Seq(Piece) /\ page # <<>> /\ page[1] = Header
    /\ postedNow \in SUBSET ({"alt", "body"} \X Dicts)
    /\ InOrder(page, queue, contents)
    /\ Lacks(page, "end") /\ Lacks(page, "compound") /\ Lacks(page, "individual words")
    /\ \A d \in Dicts : lives[d] \in {"running", "flagged"} => d \in Range(queue)
    /\ (\A d \in Dicts : lives[d] # "none") => Counted(queue) /\ Headed(page)

LEMMA NoneOf ==
    ASSUME NEW page, NEW kind
    PROVE  Lacks(page, kind) <=> Where(page, kind) = {}
  BY DEF Lacks, Where

LEMMA LateType ==
    ASSUME NEW kind \in {"alt", "body"}, NEW lives, NEW R \in SUBSET Dicts
    PROVE  LateEvents(kind, lives, R) \in SUBSET ({"alt", "body"} \X Dicts)
  BY DEF LateEvents

LEMMA BodyFinishedInv ==
    ASSUME TypeOK, ~isFinishedFlag, finishedSignals = 0, finder = "none",
           wordStart = -1, lastGood = NoSpan,
           NEW queue, NEW lives, NEW contents, NEW page, NEW postedNow,
           BodyReady(queue, lives, contents, page, postedNow),
           BodyFinished(queue, lives, contents, page, postedNow),
           altSearches' \in SUBSET Dicts, altsDone' = TRUE, state' = "live",
           UNCHANGED <<lexicon, wordVars>>
    PROVE  IInv'
  <1>1. PICK taken \in FinishedFront(queue, lives) :
        \E shown \in Ascending(WithContent(queue, taken, contents)) :
            LET gone == {queue[j] : j \in 1 .. taken}
                rest == Popped(queue, taken)
                grown == Grown(page, queue, shown)
            IN  /\ bodyRequests' = rest
                /\ bodyDone' = (rest = <<>>)
                /\ has' = contents
                /\ life' = [d \in Dicts |-> IF d \in gone THEN "gone" ELSE lives[d]]
                /\ posted' = postedNow \cup LateEvents("body", lives, gone)
                /\ \/ rest # <<>> /\ Update(grown) /\ UNCHANGED finder
                   \/ /\ rest = <<>> /\ Where(grown, "section") # {}
                      /\ Finish(Append(grown, End))
                      /\ UNCHANGED finder
                   \/ /\ rest = <<>> /\ Where(grown, "section") = {}
                      /\ Update(Append(grown, NotFound))
                      /\ finder' = "stemmed"
    BY DEF BodyFinished
  <1> DEFINE gone == {queue[j] : j \in 1 .. taken}
             rest == Popped(queue, taken)
  <1>2. PICK shown \in Ascending(WithContent(queue, taken, contents)) :
            LET grown == Grown(page, queue, shown)
            IN  /\ bodyRequests' = rest
                /\ bodyDone' = (rest = <<>>)
                /\ has' = contents
                /\ life' = [d \in Dicts |-> IF d \in gone THEN "gone" ELSE lives[d]]
                /\ posted' = postedNow \cup LateEvents("body", lives, gone)
                /\ \/ rest # <<>> /\ Update(grown) /\ UNCHANGED finder
                   \/ /\ rest = <<>> /\ Where(grown, "section") # {}
                      /\ Finish(Append(grown, End))
                      /\ UNCHANGED finder
                   \/ /\ rest = <<>> /\ Where(grown, "section") = {}
                      /\ Update(Append(grown, NotFound))
                      /\ finder' = "stemmed"
    BY <1>1
  <1> DEFINE grown == Grown(page, queue, shown)
  <1>3. queue \in Seq(Dicts) /\ Len(queue) <= Count
    BY DEF BodyReady
  <1>4. /\ lives \in [Dicts -> Lives] /\ contents \in [Dicts -> Contents]
        /\ postedNow \in SUBSET ({"alt", "body"} \X Dicts)
        /\ InOrder(page, queue, contents)
        /\ Lacks(page, "end") /\ Lacks(page, "compound") /\ Lacks(page, "individual words")
    BY DEF BodyReady
  <1>5. page \in Seq(Piece) /\ page # <<>> /\ page[1] = Header
    BY DEF BodyReady
  <1>6. Len(queue) \in Nat /\ DOMAIN queue = 1 .. Len(queue)
    BY <1>3
  <1>7. taken \in 0 .. Len(queue) /\ \A i \in 1 .. taken : Over(lives, queue[i])
    BY DEF FinishedFront
  <1>8. /\ rest \in Seq(Dicts) /\ Len(rest) = Len(queue) - taken
        /\ \A i \in DOMAIN rest : taken + i \in DOMAIN queue /\ rest[i] = queue[taken + i]
    BY <1>3, <1>7, PoppedIs
  <1>9. InOrder(grown, rest, contents)
    BY <1>3, <1>4, <1>5, <1>7, InOrderGrows
  <1>10. \A kind : kind # "section" /\ Lacks(page, kind) => Lacks(grown, kind)
    BY <1>3, <1>5, <1>7, GrownLacks
  <1>11. /\ grown \in Seq(Piece) /\ Len(grown) = Len(page) + Len(shown)
        /\ \A i \in 1 .. Len(page) : grown[i] = page[i]
    BY <1>3, <1>5, <1>7, GrownIs
  <1>12. Len(shown) \in Nat
    <2>1. shown \in Seq(1 .. taken)
      BY <1>3, <1>7, ShownIs
    <2> QED  BY <2>1
  <1>13. Counted(queue) /\ Headed(page) => Counted(rest) /\ Headed(grown)
    BY <1>3, <1>5, <1>7, HeadedGrows
  <1> HIDE DEF rest, grown
  <1>14. grown # <<>> /\ grown[1] = Header
    <2>1. Len(page) \in Nat /\ Len(page) >= 1
      BY <1>5
    <2>2. Len(grown) >= 1 /\ grown[1] = page[1]
      BY <1>11, <1>12, <2>1
    <2>3. Len(<<>>) = 0
      OBVIOUS
    <2> QED  BY <1>5, <2>2, <2>3
  <1>15. gone \in SUBSET Dicts /\ gone \subseteq Range(queue)
    <2>1. ASSUME NEW j \in 1 .. taken
          PROVE  j \in DOMAIN queue /\ queue[j] \in Dicts
      <3>1. j \in 1 .. Len(queue)
        BY <1>6, <1>7
      <3> QED  BY <1>3, <1>6, <3>1, ElementOfSeq
    <2> QED  BY <2>1 DEF Range
  <1>16. Range(queue) \subseteq gone \cup Range(rest)
    <2>1. ASSUME NEW k \in DOMAIN queue, k > taken
          PROVE  queue[k] \in Range(rest)
      <3>1. k - taken \in 1 .. Len(queue) - taken /\ taken + (k - taken) = k
        BY <1>6, <1>7, <2>1
      <3>2. DOMAIN rest = 1 .. Len(queue) - taken
        BY <1>8
      <3>3. rest[k - taken] = queue[k]
        BY <1>8, <3>1, <3>2
      <3> QED  BY <3>1, <3>2, <3>3 DEF Range
    <2>2. ASSUME NEW k \in DOMAIN queue, ~(k > taken)
          PROVE  queue[k] \in gone
      <3>1. k \in 1 .. taken
        BY <1>6, <1>7, <2>2
      <3> QED  BY <3>1
    <2> QED  BY <2>1, <2>2 DEF Range
  <1>17. \A d \in gone : lives[d] \in {"flagged", "gone"}
    BY <1>7 DEF Over
  <1> HIDE DEF gone
  <1>18. life' = [d \in Dicts |-> IF d \in gone THEN "gone" ELSE lives[d]]
    BY <1>2 DEF gone
  <1>19. /\ life' \in [Dicts -> Lives]
         /\ \A d \in Dicts : life'[d] \in {"running", "flagged"} => d \in Range(rest)
         /\ (\A d \in Dicts : life'[d] # "none") => Counted(rest) /\ Headed(grown)
    <2>1. life' \in [Dicts -> Lives]
      BY <1>4, <1>18 DEF Lives
    <2>2. ASSUME NEW d \in Dicts, life'[d] \in {"running", "flagged"}
          PROVE  d \in Range(rest)
      <3>1. d \notin gone /\ lives[d] \in {"running", "flagged"}
        BY <1>18, <2>2
      <3> QED  BY <1>16, <3>1 DEF BodyReady
    <2>3. ASSUME \A d \in Dicts : life'[d] # "none"
          PROVE  Counted(rest) /\ Headed(grown)
      <3>1. ASSUME NEW d \in Dicts
            PROVE  lives[d] # "none"
        BY <1>17, <1>18, <2>3
      <3> QED  BY <1>13, <3>1 DEF BodyReady
    <2> QED  BY <2>1, <2>2, <2>3
  <1>20. /\ bodyRequests' = rest /\ bodyDone' = (rest = <<>>) /\ has' = contents
         /\ posted' \in SUBSET ({"alt", "body"} \X Dicts)
    <2>1. LateEvents("body", lives, gone) \in SUBSET ({"alt", "body"} \X Dicts)
      BY <1>15, LateType
    <2> QED  BY <1>2, <1>4, <2>1 DEF rest, gone
  <1>21. Len(rest) <= Count
    <2>1. Len(rest) <= Len(queue)
      BY <1>6, <1>7, <1>8
    <2>2. Len(rest) \in Nat
      BY <1>8
    <2> QED  BY <1>3, <1>6, <2>1, <2>2, CountAssumption
  \* What the page becomes, and with it the flag and the stemmed search.
  <1>22. /\ data' \in Seq(Piece) /\ data' # <<>> /\ data'[1] = Header
         /\ InOrder(data', rest, contents)
         /\ Headed(grown) => Headed(data')
         /\ Lacks(data', "compound") /\ Lacks(data', "individual words")
         /\ isFinishedFlag' \in BOOLEAN
         /\ finishedSignals' = IF isFinishedFlag' THEN 1 ELSE 0
         /\ finder' \in {"none", "stemmed"}
         /\ isFinishedFlag' => rest = <<>> /\ finder' = "none" /\ data'[Len(data')] = End
         /\ \A i \in Where(data', "end") : isFinishedFlag' /\ i = Len(data')
         /\ finder' # "none" => rest = <<>>
    <2>1. CASE rest # <<>> /\ Update(grown) /\ UNCHANGED finder
      <3>1. data' = grown /\ isFinishedFlag' = isFinishedFlag /\ finishedSignals' = finishedSignals
            /\ finder' = "none"
        BY <2>1 DEF Update
      <3>2. Where(grown, "end") = {}
        BY <1>4, <1>10, NoneOf
      <3> QED  BY <1>4, <1>9, <1>10, <1>11, <1>14, <3>1, <3>2 DEF TypeOK
    <2>2. CASE /\ rest = <<>>
               /\ Finish(Append(grown, End))
               /\ UNCHANGED finder
      <3>1. data' = Append(grown, End) /\ isFinishedFlag' = TRUE /\ finishedSignals' = 1
            /\ finder' = "none"
        BY <2>2 DEF Finish
      <3>2. End \in Piece /\ End[1] = "end"
        BY FixedPieces
      <3>3. Kept(grown, Append(grown, End))
        BY <1>11, <1>14, <3>2, KeptByAppend
      <3>4. /\ Where(Append(grown, End), "end") = {Len(grown) + 1}
            /\ Lacks(Append(grown, End), "compound")
            /\ Lacks(Append(grown, End), "individual words")
        <4>1. Where(grown, "end") = {}
          BY <1>4, <1>10, NoneOf
        <4>2. Where(Append(grown, End), "end") = Where(grown, "end") \cup {Len(grown) + 1}
          BY <1>11, <3>2, AppendWhere
        <4>3. Lacks(grown, "compound") /\ Lacks(grown, "individual words")
          BY <1>4, <1>10
        <4> QED  BY <1>11, <3>2, <4>1, <4>2, <4>3, AppendWhere
      <3>5. /\ Len(Append(grown, End)) = Len(grown) + 1
            /\ Append(grown, End)[Len(grown) + 1] = End
        BY <1>11, <3>2, AppendIs
      <3> QED  BY <1>9, <1>14, <2>2, <3>1, <3>3, <3>4, <3>5 DEF Kept
    <2>3. CASE /\ rest = <<>>
               /\ Update(Append(grown, NotFound))
               /\ finder' = "stemmed"
      <3>1. data' = Append(grown, NotFound) /\ isFinishedFlag' = isFinishedFlag
            /\ finishedSignals' = finishedSignals
        BY <2>3 DEF Update
      <3>2. NotFound \in Piece /\ NotFound[1] = "not found"
        BY FixedPieces
      <3>3. Kept(grown, Append(grown, NotFound))
        BY <1>11, <1>14, <3>2, KeptByAppend
      <3>4. /\ Lacks(Append(grown, NotFound), "end")
            /\ Lacks(Append(grown, NotFound), "compound")
            /\ Lacks(Append(grown, NotFound), "individual words")
        BY <1>4, <1>10, <1>11, <3>2, AppendWhere
      <3>5. Where(Append(grown, NotFound), "end") = {}
        BY <3>4, NoneOf
      <3> QED  BY <1>9, <1>14, <2>3, <3>1, <3>3, <3>4, <3>5 DEF Kept, TypeOK
    <2> QED  BY <1>2, <2>1, <2>2, <2>3 DEF rest, grown
  <1>23. TypeOK'
    BY <1>4, <1>8, <1>19, <1>20, <1>22 DEF TypeOK, wordVars
  <1>24. PhaseInv'
    BY <1>20, <1>22 DEF PhaseInv, Whole, Live
  <1>25. QueueInv'
    BY <1>19, <1>20, <1>21, <1>22 DEF QueueInv, NoneThrew
  <1>26. WordInv'
    <2>1. Where(data', "individual words") = {}
      BY <1>22, NoneOf
    <2>2. CompoundsListed'
      BY <2>1 DEF CompoundsListed
    <2> QED  BY <1>22, <2>2 DEF WordInv, wordVars
  <1> QED  BY <1>23, <1>24, <1>25, <1>26 DEF IInv

LEMMA HeaderPage ==
    /\ <<Header>> \in Seq(Piece) /\ <<Header>> # <<>> /\ <<Header>>[1] = Header
    /\ Lacks(<<Header>>, "section") /\ Lacks(<<Header>>, "end")
    /\ Lacks(<<Header>>, "compound") /\ Lacks(<<Header>>, "individual words")
  <1>1. Header \in Piece /\ Header[1] = "header"
    BY FixedPieces
  <1>2. <<Header>> \in Seq(Piece)
    BY <1>1
  <1>3. \A i \in DOMAIN <<Header>> : <<Header>>[i] = Header
    OBVIOUS
  <1> QED  BY <1>1, <1>2, <1>3 DEF Lacks

LEMMA AltsFinishedInv ==
    ASSUME TypeOK, ~isFinishedFlag, finishedSignals = 0, finder = "none",
           wordStart = -1, lastGood = NoSpan, bodyRequests = <<>>, ~bodyDone,
           NEW awaited \in SUBSET Dicts, NEW lives \in [Dicts -> Lives],
           NEW postedNow \in SUBSET ({"alt", "body"} \X Dicts),
           \A d \in Dicts : <<"body", d>> \notin postedNow,
           AltsFinished(awaited, lives, <<Header>>, postedNow),
           state' = "live", UNCHANGED <<lexicon, wordVars>>
    PROVE  IInv'
  <1> DEFINE rest == {d \in awaited : ~Over(lives, d)}
             late == postedNow \cup LateEvents("alt", lives, awaited \ rest)
  <1>1. altSearches' = rest /\ altsDone' = (rest = {})
    BY DEF AltsFinished
  <1>2. altSearches' \in SUBSET Dicts
    BY <1>1
  <1>3. late \in SUBSET ({"alt", "body"} \X Dicts) /\ \A d \in Dicts : <<"body", d>> \notin late
    <2>1. LateEvents("alt", lives, awaited \ rest) \in SUBSET ({"alt"} \X Dicts)
      BY DEF LateEvents
    <2> HIDE DEF rest
    <2>2. \A d \in Dicts : <<"body", d>> \notin {"alt"} \X Dicts
      OBVIOUS
    <2> QED  BY <2>1, <2>2
  <1>4. CASE rest # {}
    <2>1. /\ life' = [d \in Dicts |-> IF d \in awaited \ rest THEN "gone" ELSE lives[d]]
          /\ posted' = late
          /\ data' = <<Header>>
          /\ UNCHANGED <<has, bodyVars, isFinishedFlag, finishedSignals, finder>>
      BY <1>4 DEF AltsFinished
    <2>2. altsDone' = FALSE
      BY <1>1, <1>4
    <2> HIDE DEF rest, late
    <2>3. life' \in [Dicts -> Lives]
      BY <2>1 DEF Lives
    <2>4. bodyRequests' = <<>> /\ ~bodyDone' /\ ~isFinishedFlag' /\ finishedSignals' = 0
          /\ finder' = "none" /\ has' = has
      BY <2>1 DEF bodyVars
    <2>5. TypeOK'
      BY <1>2, <1>3, <2>1, <2>2, <2>3, HeaderPage DEF TypeOK, bodyVars, wordVars
    <2>6. Where(data', "end") = {} /\ Where(data', "individual words") = {}
      <3>1. Where(<<Header>>, "end") = {} /\ Where(<<Header>>, "individual words") = {}
        BY HeaderPage, NoneOf
      <3> QED  BY <2>1, <3>1
    <2>7. PhaseInv'
      BY <1>3, <2>1, <2>2, <2>4, <2>6, HeaderPage DEF PhaseInv, Whole, Live
    <2>8. QueueInv'
      BY <2>2, <2>4, CountAssumption DEF QueueInv
    <2>9. CompoundsListed'
      BY <2>6 DEF CompoundsListed
    <2>10. WordInv'
      <3>1. wordStart' = -1 /\ lastGood' = NoSpan
        BY DEF wordVars
      <3>2. Lacks(data', "compound") /\ Lacks(data', "individual words")
        BY <2>1, HeaderPage
      <3>3. finder' \notin {"expression", "expressionDone"}
        BY <2>4
      <3> QED  BY <2>9, <3>1, <3>2, <3>3 DEF WordInv
    <2> QED  BY <2>5, <2>7, <2>8, <2>10 DEF IInv
  <1>5. CASE rest = {}
    <2>1. PICK throws \in SUBSET MayThrow : \E atOnce \in SUBSET (Dicts \ throws) :
            \E queue \in Ascending(Dicts \ throws) : \E contents \in [Dicts -> Contents] :
                /\ \A d \in Dicts \ atOnce : contents[d] = "nothing"
                /\ BodyFinished(
                     queue,
                     [d \in Dicts |-> IF d \in throws THEN "none"
                                      ELSE IF d \in atOnce THEN "gone" ELSE "running"],
                     contents, <<Header>>, late)
      BY <1>5 DEF AltsFinished
    <2>2. PICK atOnce \in SUBSET (Dicts \ throws) :
            \E queue \in Ascending(Dicts \ throws) : \E contents \in [Dicts -> Contents] :
                /\ \A d \in Dicts \ atOnce : contents[d] = "nothing"
                /\ BodyFinished(
                     queue,
                     [d \in Dicts |-> IF d \in throws THEN "none"
                                      ELSE IF d \in atOnce THEN "gone" ELSE "running"],
                     contents, <<Header>>, late)
      BY <2>1
    <2> DEFINE lives2 == [d \in Dicts |-> IF d \in throws THEN "none"
                                          ELSE IF d \in atOnce THEN "gone" ELSE "running"]
    <2>3. PICK queue \in Ascending(Dicts \ throws), contents \in [Dicts -> Contents] :
                /\ \A d \in Dicts \ atOnce : contents[d] = "nothing"
                /\ BodyFinished(queue, lives2, contents, <<Header>>, late)
      BY <2>2
    <2>4. IsFiniteSet(Dicts \ throws) /\ Cardinality(Dicts \ throws) \in 0 .. Count
      BY DictsFinite
    <2>5. /\ queue \in Seq(Dicts \ throws) /\ Len(queue) = Cardinality(Dicts \ throws)
          /\ Asc(queue) /\ Range(queue) = Dicts \ throws
      BY <2>4, AscendingIs
    <2>6. queue \in Seq(Dicts)
      BY <2>5, SeqMonotonic
    <2>7. Len(queue) <= Count
      BY <2>4, <2>5, CountAssumption
    <2>8. /\ lives2 \in [Dicts -> Lives]
          /\ \A d \in Dicts : lives2[d] = "none" <=> d \in throws
      BY DEF Lives
    <2>9. Where(<<Header>>, "section") = {}
      BY HeaderPage, NoneOf
    <2>10. InOrder(<<Header>>, queue, contents)
      <3>1. Shown(<<Header>>) = {}
        BY <2>9 DEF Shown
      <3>2. {d \in Dicts : contents[d] # "nothing"} \ Range(queue) = {}
        BY <2>3, <2>5
      <3> QED  BY <2>5, <2>9, <3>1, <3>2 DEF InOrder
    <2>11. ASSUME \A d \in Dicts : lives2[d] # "none"
           PROVE  Counted(queue) /\ Headed(<<Header>>)
      <3>1. Dicts \ throws = Dicts
        BY <2>8, <2>11
      <3>2. Len(queue) = Count /\ \A i \in 1 .. Count : queue[i] = i
        BY <3>1, AllAscending
      <3>3. DOMAIN queue = 1 .. Count
        BY <2>6, <3>2
      <3>4. \A j \in 1 .. Count : Count - Count + j = j
        BY CountAssumption
      <3> QED  BY <2>9, <3>2, <3>3, <3>4 DEF Counted, HeadOf, Headed
    <2> HIDE DEF lives2, late, rest
    <2>12. BodyReady(queue, lives2, contents, <<Header>>, late)
      BY <1>3, <2>5, <2>6, <2>7, <2>8, <2>10, <2>11, HeaderPage DEF BodyReady
    <2>13. altsDone' = TRUE
      BY <1>1, <1>5
    <2> QED  BY <1>2, <2>3, <2>12, <2>13, BodyFinishedInv
  <1> QED  BY <1>4, <1>5

LEMMA ConstructInv ==
    ASSUME IInv, Construct
    PROVE  IInv'
  <1>1. /\ TypeOK /\ ~isFinishedFlag /\ finishedSignals = 0 /\ finder = "none"
        /\ bodyRequests = <<>> /\ ~bodyDone
    BY DEF IInv, PhaseInv, Construct
  <1>2. wordStart = -1 /\ lastGood = NoSpan
    BY <1>1 DEF IInv, WordInv, Construct
  <1>3. PICK atOnce \in SUBSET Dicts :
          AltsFinished(Dicts, [d \in Dicts |-> IF d \in atOnce THEN "gone" ELSE "running"],
                       <<Header>>, {})
    BY DEF Construct
  <1>4. [d \in Dicts |-> IF d \in atOnce THEN "gone" ELSE "running"] \in [Dicts -> Lives]
    BY DEF Lives
  <1>5. state' = "live" /\ UNCHANGED <<lexicon, wordVars>>
    BY DEF Construct
  <1> QED  BY <1>1, <1>2, <1>3, <1>4, <1>5, AltsFinishedInv

LEMMA AltSearchFinishedInv ==
    ASSUME IInv, NEW d \in Dicts, AltSearchFinished(d)
    PROVE  IInv'
  <1> DEFINE left == posted \ {<<"alt", d>>}
  <1>1. left \in SUBSET ({"alt", "body"} \X Dicts)
    BY DEF IInv, TypeOK
  <1>2. CASE altsDone
    <2>1. /\ posted' = left
          /\ UNCHANGED <<altVars, bodyVars, life, has, pageVars, finder, lexicon, wordVars, state>>
      BY <1>2 DEF AltSearchFinished
    <2> HIDE DEF left
    <2>2. TypeOK'
      BY <1>1, <2>1 DEF IInv, TypeOK, altVars, bodyVars, pageVars, wordVars
    <2>3. PhaseInv'
      BY <1>2, <2>1 DEF IInv, PhaseInv, Whole, Live, altVars, bodyVars, pageVars, AltSearchFinished
    <2>4. QueueInv'
      BY <2>1 DEF IInv, QueueInv, NoneThrew, altVars, bodyVars, pageVars
    <2>5. WordInv'
      BY <2>1 DEF IInv, WordInv, CompoundsListed, Whole, Live, pageVars, wordVars
    <2> QED  BY <2>2, <2>3, <2>4, <2>5 DEF IInv
  <1>3. CASE ~altsDone
    <2>1. /\ AltsFinished(altSearches, life, data, left)
          /\ state' = "live" /\ UNCHANGED <<lexicon, wordVars>>
      BY <1>3 DEF AltSearchFinished, Live
    <2>2. /\ TypeOK /\ ~isFinishedFlag /\ finishedSignals = 0 /\ finder = "none"
          /\ bodyRequests = <<>> /\ ~bodyDone /\ data = <<Header>>
      BY <1>3 DEF IInv, PhaseInv, AltSearchFinished, Live, Whole
    <2>3. wordStart = -1 /\ lastGood = NoSpan
      BY <2>2 DEF IInv, WordInv, AltSearchFinished, Live
    <2>4. \A e \in Dicts : <<"body", e>> \notin left
      BY <1>3 DEF IInv, PhaseInv
    <2>5. altSearches \in SUBSET Dicts /\ life \in [Dicts -> Lives]
      BY <2>2 DEF TypeOK
    <2> HIDE DEF left
    <2> QED  BY <1>1, <2>1, <2>2, <2>3, <2>4, <2>5, AltsFinishedInv
  <1> QED  BY <1>2, <1>3

LEMMA BodyRequestFinishedInv ==
    ASSUME IInv, NEW d \in Dicts, BodyRequestFinished(d)
    PROVE  IInv'
  <1> DEFINE left == posted \ {<<"body", d>>}
  <1>1. left \in SUBSET ({"alt", "body"} \X Dicts)
    BY DEF IInv, TypeOK
  <1>2. altsDone
    BY DEF IInv, PhaseInv, BodyRequestFinished
  <1>3. CASE bodyDone
    <2>1. /\ posted' = left
          /\ UNCHANGED <<altVars, bodyVars, life, has, pageVars, finder, lexicon, wordVars, state>>
      BY <1>3 DEF BodyRequestFinished
    <2> HIDE DEF left
    <2>2. TypeOK'
      BY <1>1, <2>1 DEF IInv, TypeOK, altVars, bodyVars, pageVars, wordVars
    <2>3. PhaseInv'
      BY <1>2, <2>1 DEF IInv, PhaseInv, Whole, Live, altVars, bodyVars, pageVars, BodyRequestFinished
    <2>4. QueueInv'
      BY <2>1 DEF IInv, QueueInv, NoneThrew, altVars, bodyVars, pageVars
    <2>5. WordInv'
      BY <2>1 DEF IInv, WordInv, CompoundsListed, Whole, Live, pageVars, wordVars
    <2> QED  BY <2>2, <2>3, <2>4, <2>5 DEF IInv
  <1>4. CASE ~bodyDone
    <2>1. /\ BodyFinished(bodyRequests, life, has, data, left)
          /\ UNCHANGED <<altVars, lexicon, wordVars, state>>
          /\ Live
      BY <1>4 DEF BodyRequestFinished
    <2>2. /\ TypeOK /\ ~isFinishedFlag /\ finishedSignals = 0 /\ finder = "none"
          /\ data # <<>> /\ data[1] = Header
      BY <1>4, <2>1 DEF IInv, PhaseInv, Live, Whole
    <2>3. /\ wordStart = -1 /\ lastGood = NoSpan
          /\ Lacks(data, "compound") /\ Lacks(data, "individual words")
      BY <2>1, <2>2 DEF IInv, WordInv, Live
    <2>4. Lacks(data, "end")
      BY <2>2, NoneOf DEF IInv, PhaseInv, Whole
    <2>5. BodyReady(bodyRequests, life, has, data, left)
      BY <1>1, <1>2, <2>2, <2>3, <2>4 DEF BodyReady, IInv, TypeOK, QueueInv, NoneThrew
    <2>6. altSearches' \in SUBSET Dicts /\ altsDone' = TRUE /\ state' = "live"
      BY <1>2, <2>1, <2>2 DEF altVars, TypeOK, Live
    <2> HIDE DEF left
    <2> QED  BY <2>1, <2>2, <2>3, <2>5, <2>6, BodyFinishedInv
  <1> QED  BY <1>3, <1>4

LEMMA KeptInv ==
    ASSUME QueueInv, Kept(data, data'), UNCHANGED <<altVars, bodyVars, workVars>>
    PROVE  QueueInv'
  BY DEF QueueInv, Kept, NoneThrew, altVars, bodyVars, workVars

\* A step of compoundSearchNextStep() to the next word, when what is found from
\* this one is known.
NextStartReady(page, good) ==
    /\ TypeOK /\ PhaseInv /\ QueueInv
    /\ state = "live" /\ bodyDone /\ ~isFinishedFlag
    /\ Kept(data, page) /\ Lacks(page, "end") /\ Lacks(page, "individual words")
    /\ good \in Span \cup {NoSpan}
    /\ wordStart <= WordCount - 2
    /\ lexicon' \in [Span -> Outcome]
    /\ ListedTo(lexicon', Linked(page, good), wordStart + 1)
    /\ UNCHANGED <<altVars, bodyVars, workVars, state>>

LEMMA NextStartInv ==
    ASSUME NEW page, NEW good, NextStartReady(page, good), NextStart(page, good)
    PROVE  IInv'
  <1> DEFINE linked == Linked(page, good)
             named == Append(linked, IndividualWords)
             ended == Append(named, End)
  <1>1. /\ TypeOK /\ PhaseInv /\ QueueInv
        /\ state = "live" /\ bodyDone /\ ~isFinishedFlag
        /\ lexicon' \in [Span -> Outcome]
        /\ UNCHANGED <<altVars, bodyVars, workVars, state>>
    BY DEF NextStartReady
  <1>2. /\ Kept(data, page) /\ Lacks(page, "end") /\ Lacks(page, "individual words")
        /\ good \in Span \cup {NoSpan}
    BY DEF NextStartReady
  <1>3. wordStart <= WordCount - 2
    BY DEF NextStartReady
  <1>4. ListedTo(lexicon', linked, wordStart + 1)
    BY DEF NextStartReady
  <1>5. page \in Seq(Piece) /\ page # <<>>
    BY <1>2 DEF Kept
  <1>6. Kept(page, linked) /\ Lacks(linked, "end") /\ Lacks(linked, "individual words")
    BY <1>2, <1>5, LinkedKeeps
  <1>7. Kept(data, linked)
    BY <1>2, <1>6, KeptTwice
  <1>8. linked \in Seq(Piece) /\ linked # <<>>
    BY <1>6 DEF Kept
  <1>9. /\ IndividualWords \in Piece /\ IndividualWords[1] = "individual words"
        /\ End \in Piece /\ End[1] = "end"
    BY FixedPieces
  <1>10. wordStart \in Int /\ -1 <= wordStart /\ WordCount \in Nat
    <2>1. wordStart \in -1 .. WordCount - 1
      BY <1>1 DEF TypeOK
    <2> QED  BY <2>1, CountAssumption
  <1>11. finishedSignals = 0 /\ altsDone /\ data # <<>> /\ data[1] = Header
    BY <1>1 DEF PhaseInv
  <1>12. CASE wordStart >= WordCount - 2
    <2>1. /\ lastGood' = NoSpan /\ finder' = "none" /\ UNCHANGED <<wordStart, wordEnd>>
          /\ Finish(ended)
      BY <1>12 DEF NextStart, Linked
    <2>2. data' = ended /\ isFinishedFlag' = TRUE /\ finishedSignals' = 1
      BY <1>1, <1>11, <2>1 DEF Finish
    <2> HIDE DEF linked
    <2>3. Kept(linked, named) /\ Lacks(named, "end")
      BY <1>6, <1>8, <1>9, KeptByAppend, AppendWhere
    <2>4. ListedTo(lexicon', named, wordStart + 1)
      BY <1>4, <1>8, <1>9, NoCompoundAppended
    <2>5. named \in Seq(Piece) /\ named # <<>>
      BY <2>3 DEF Kept
    <2> HIDE DEF named
    <2>6. Kept(named, ended) /\ ListedTo(lexicon', ended, wordStart + 1)
      BY <1>9, <2>4, <2>5, KeptByAppend, NoCompoundAppended
    <2>7. Kept(data, data')
      BY <1>7, <2>2, <2>3, <2>6, KeptTwice
    <2>8. Where(data', "end") = {Len(data')} /\ data'[Len(data')] = End
      BY <2>2, <2>3, <2>5, EndAppended
    <2>9. wordStart + 1 = WordCount - 1
      BY <1>3, <1>10, <1>12
    <2> HIDE DEF ended
    <2>10. TypeOK'
      BY <1>1, <2>1, <2>2, <2>7 DEF TypeOK, Kept, altVars, bodyVars, workVars
    <2>11. PhaseInv'
      BY <1>1, <1>11, <2>1, <2>2, <2>7, <2>8
         DEF PhaseInv, Whole, Live, Kept, altVars, bodyVars, workVars
    <2>12. QueueInv'
      BY <1>1, <2>7, KeptInv
    <2>13. CompoundsListed'
      <3>1. ListedTo(lexicon', data', WordCount - 1)
        BY <2>2, <2>6, <2>9
      <3>2. 0 .. (WordCount - 1) - 1 = 0 .. WordCount - 2
        BY <1>10
      <3> QED  BY <3>1, <3>2 DEF ListedTo, CompoundsListed
    <2>14. WordInv'
      BY <2>2, <2>13 DEF WordInv
    <2> QED  BY <2>10, <2>11, <2>12, <2>14 DEF IInv
  <1>13. CASE ~(wordStart >= WordCount - 2)
    <2>1. /\ data' = linked /\ UNCHANGED <<isFinishedFlag, finishedSignals>>
          /\ finder' = "expression" /\ lastGood' = NoSpan
      BY <1>13 DEF NextStart, Update, Linked
    <2>2. wordStart' = wordStart + 1 /\ wordEnd' = wordStart + 2
      BY <1>13 DEF NextStart
    <2> HIDE DEF linked, named, ended
    <2>3. wordStart' \in 0 .. WordCount - 2 /\ wordEnd' = wordStart' + 1
          /\ wordEnd' \in 1 .. WordCount - 1
      BY <1>10, <1>13, <2>2
    <2>4. TypeOK'
      <3>1. wordStart' \in -1 .. WordCount - 1 /\ wordEnd' \in -1 .. WordCount - 1
        BY <1>10, <1>13, <2>2
      <3> QED  BY <1>1, <1>8, <2>1, <3>1 DEF TypeOK, altVars, bodyVars, workVars
    <2>5. Where(data', "end") = {}
      BY <1>6, <2>1, NoneOf
    <2>6. PhaseInv'
      BY <1>1, <1>7, <1>11, <2>1, <2>5
         DEF PhaseInv, Whole, Live, Kept, altVars, bodyVars, workVars
    <2>7. QueueInv'
      BY <1>1, <1>7, <2>1, KeptInv
    <2>8. BestBefore(lexicon', wordStart', wordEnd', lastGood')
      <3>1. wordStart' \in 0 .. WordCount - 1
        BY <1>10, <2>3
      <3>2. \A k \in Known(lexicon', wordStart') : k \in Int /\ wordStart' < k
        BY <3>1, KnownIs
      <3>3. Known(lexicon', wordStart') \in SUBSET Int
        BY <3>2
      <3>4. \A k \in Int : wordStart' < k => k >= wordEnd'
        BY <1>10, <2>2
      <3> QED  BY <2>1, <3>2, <3>4 DEF BestBefore
    <2>9. Reachable(lexicon', wordStart', wordEnd')
      <3>1. wordStart' + 1 .. wordEnd' - 1 = {}
        BY <1>10, <2>2
      <3> QED  BY <3>1 DEF Reachable
    <2>10. 0 <= wordStart' /\ wordStart' < wordEnd'
      BY <1>10, <2>2
    <2>11. ListedTo(lexicon', data', wordStart')
      BY <1>4, <2>1, <2>2
    <2>12. CompoundsListed'
      BY <1>6, <2>1, NoneOf DEF CompoundsListed
    <2>13. Lacks(data', "individual words")
      BY <1>6, <2>1
    <2>14. WordInv'
      BY <2>1, <2>8, <2>9, <2>10, <2>11, <2>12, <2>13 DEF WordInv
    <2> QED  BY <2>4, <2>6, <2>7, <2>14 DEF IInv
  <1> QED  BY <1>12, <1>13

LEMMA StemmedSearchFinishedInv ==
    ASSUME IInv, StemmedSearchFinished
    PROVE  IInv'
  <1>1. /\ TypeOK /\ PhaseInv /\ QueueInv /\ state = "live" /\ bodyDone /\ ~isFinishedFlag
        /\ data \in Seq(Piece) /\ data # <<>>
    BY DEF IInv, PhaseInv, TypeOK, StemmedSearchFinished, Live, Whole
  <1>2. Lacks(data, "compound") /\ Lacks(data, "individual words")
    BY <1>1 DEF IInv, WordInv, StemmedSearchFinished
  <1>3. wordStart = -1
    BY <1>1 DEF IInv, WordInv, StemmedSearchFinished
  <1>4. Lacks(data, "end")
    BY <1>1, NoneOf DEF PhaseInv, Whole
  <1>5. lexicon' \in [Span -> Outcome] /\ UNCHANGED <<altVars, bodyVars, workVars, state>>
    BY DEF StemmedSearchFinished
  <1>6. PICK page \in {data, Append(data, CloseWords)} :
         IF WordCount > 1
         THEN NextStart(page, NoSpan)
         ELSE /\ Finish(Append(page, End))
              /\ finder' = "none"
              /\ UNCHANGED wordVars
    BY DEF StemmedSearchFinished
  <1>7. /\ Kept(data, page) /\ Lacks(page, "end")
        /\ Lacks(page, "compound") /\ Lacks(page, "individual words")
    <2>1. CASE page = data
      BY <1>1, <1>2, <1>4, <2>1, KeptSelf
    <2>2. CASE page = Append(data, CloseWords)
      <3>1. CloseWords \in Piece /\ CloseWords[1] = "close words"
        BY FixedPieces
      <3>2. Kept(data, Append(data, CloseWords))
        BY <1>1, <3>1, KeptByAppend
      <3> QED  BY <1>1, <1>2, <1>4, <2>2, <3>1, <3>2, AppendWhere
    <2> QED  BY <1>6, <2>1, <2>2
  <1>8. CASE WordCount > 1
    <2>1. NextStart(page, NoSpan)
      BY <1>6, <1>8
    <2>2. Linked(page, NoSpan) = page
      BY DEF Linked
    <2>3. ListedTo(lexicon', page, wordStart + 1)
      <3>1. Where(page, "compound") = {}
        BY <1>7, NoneOf
      <3>2. 0 .. (wordStart + 1) - 1 = {}
        BY <1>3
      <3> QED  BY <3>1, <3>2 DEF ListedTo
    <2>4. wordStart <= WordCount - 2
      BY <1>3, <1>8, CountAssumption
    <2>5. NoSpan \in Span \cup {NoSpan}
      OBVIOUS
    <2>6. NextStartReady(page, NoSpan)
      BY <1>1, <1>5, <1>7, <2>2, <2>3, <2>4, <2>5 DEF NextStartReady
    <2> QED  BY <2>1, <2>6, NextStartInv
  <1>9. CASE ~(WordCount > 1)
    <2>1. /\ data' = Append(page, End) /\ isFinishedFlag' = TRUE
          /\ finishedSignals' = finishedSignals + 1
          /\ finder' = "none" /\ UNCHANGED wordVars
      BY <1>1, <1>6, <1>9 DEF Finish
    <2>2. page \in Seq(Piece) /\ page # <<>>
      BY <1>7 DEF Kept
    <2>3. End \in Piece /\ End[1] = "end"
      BY FixedPieces
    <2>4. Kept(data, data')
      BY <1>7, <2>1, <2>2, <2>3, KeptByAppend, KeptTwice
    <2>5. Where(data', "end") = {Len(data')} /\ data'[Len(data')] = End
      BY <1>7, <2>1, <2>2, EndAppended
    <2>6. finishedSignals' = 1
      BY <1>1, <2>1 DEF PhaseInv
    <2>7. TypeOK'
      BY <1>1, <1>5, <2>1, <2>4, <2>6 DEF TypeOK, Kept, altVars, bodyVars, workVars, wordVars
    <2>8. PhaseInv'
      BY <1>1, <1>5, <2>1, <2>4, <2>5, <2>6
         DEF PhaseInv, Whole, Live, Kept, altVars, bodyVars, workVars
    <2>9. QueueInv'
      BY <1>1, <1>5, <2>4, KeptInv
    <2>10. Where(data', "individual words") = {}
      BY <1>7, <2>1, <2>2, <2>3, AppendWhere, NoneOf
    <2>11. WordInv'
      BY <2>1, <2>10 DEF WordInv, CompoundsListed
    <2> QED  BY <2>7, <2>8, <2>9, <2>11 DEF IInv
  <1> QED  BY <1>8, <1>9

LEMMA IndividualWordFinishedInv ==
    ASSUME IInv, IndividualWordFinished
    PROVE  IInv'
  <1> DEFINE span == <<wordStart, wordEnd>>
             good == IF lexicon[span] = "exact" THEN span ELSE lastGood
  <1>1. /\ TypeOK /\ PhaseInv /\ QueueInv /\ state = "live" /\ bodyDone /\ ~isFinishedFlag
        /\ data \in Seq(Piece) /\ data # <<>>
    BY DEF IInv, PhaseInv, TypeOK, IndividualWordFinished, Live, Whole
  <1>2. 0 <= wordStart /\ wordStart < wordEnd
    BY <1>1 DEF IInv, WordInv, IndividualWordFinished
  <1>3. /\ ListedTo(lexicon, data, wordStart)
        /\ Reachable(lexicon, wordStart, wordEnd)
        /\ BestBefore(lexicon, wordStart, wordEnd, lastGood)
        /\ Lacks(data, "individual words")
    BY <1>1 DEF IInv, WordInv, IndividualWordFinished
  <1>4. Lacks(data, "end")
    BY <1>1, NoneOf DEF PhaseInv, Whole
  <1>5. wordStart \in Int /\ wordEnd \in Int /\ wordEnd <= WordCount - 1 /\ WordCount \in Nat
    <2>1. wordStart \in -1 .. WordCount - 1 /\ wordEnd \in -1 .. WordCount - 1
      BY <1>1 DEF TypeOK
    <2> QED  BY <2>1, CountAssumption
  <1>6. /\ BestBefore(lexicon, wordStart, wordEnd + 1, good)
        /\ good \in Span \cup {NoSpan}
        /\ lexicon[span] # "none" => Reachable(lexicon, wordStart, wordEnd + 1)
        /\ lexicon[span] = "none" \/ wordEnd = WordCount - 1
             => \A k \in Known(lexicon, wordStart) : k < wordEnd + 1
    BY <1>3, <1>2, <1>5, Tried
  <1>7. lexicon' = lexicon /\ UNCHANGED <<altVars, bodyVars, workVars, state>>
    BY DEF IndividualWordFinished
  <1>8. CASE lexicon[span] # "none" /\ wordEnd < WordCount - 1
    <2>1. /\ lastGood' = good /\ wordEnd' = wordEnd + 1 /\ finder' = "expression"
          /\ UNCHANGED <<wordStart, pageVars>>
      BY <1>8 DEF IndividualWordFinished
    <2> HIDE DEF good, span
    <2>2. TypeOK'
      <3>1. wordEnd' \in -1 .. WordCount - 1
        <4>1. wordEnd' = wordEnd + 1
          BY <2>1
        <4> QED  BY <1>2, <1>5, <1>8, <4>1
      <3> QED  BY <1>1, <1>6, <1>7, <2>1, <3>1
               DEF TypeOK, altVars, bodyVars, workVars, pageVars
    <2>3. PhaseInv'
      BY <1>1, <1>7, <2>1 DEF PhaseInv, Whole, Live, altVars, bodyVars, workVars, pageVars
    <2>4. QueueInv'
      BY <1>1, <1>7, <2>1 DEF QueueInv, NoneThrew, altVars, bodyVars, workVars, pageVars
    <2>5. 0 <= wordStart' /\ wordStart' < wordEnd'
      <3>1. wordStart' = wordStart /\ wordEnd' = wordEnd + 1
        BY <2>1
      <3> QED  BY <1>2, <1>5, <3>1
    <2>6. WordInv'
      BY <1>1, <1>3, <1>6, <1>7, <1>8, <2>1, <2>5
         DEF WordInv, CompoundsListed, Whole, pageVars
    <2> QED  BY <2>2, <2>3, <2>4, <2>6 DEF IInv
  <1>9. CASE ~(lexicon[span] # "none" /\ wordEnd < WordCount - 1)
    <2>1. NextStart(data, good)
      BY <1>9 DEF IndividualWordFinished
    <2>2. \A k \in Known(lexicon, wordStart) : k < wordEnd + 1
      BY <1>5, <1>6, <1>9
    <2> HIDE DEF good, span
    <2>3. wordStart <= WordCount - 2
      BY <1>2, <1>5
    <2>4. ListedTo(lexicon, Linked(data, good), wordStart + 1)
      <3>1. 0 <= wordStart /\ wordEnd + 1 \in Int
        BY <1>2, <1>5
      <3>2. BestBefore(lexicon, wordStart, wordEnd + 1, good)
        BY <1>6 DEF good, span
      <3> QED  BY <1>1, <1>3, <1>5, <2>2, <2>3, <3>1, <3>2, LinkedLists
    <2>5. Kept(data, data)
      BY <1>1, KeptSelf
    <2>6. lexicon' \in [Span -> Outcome]
      BY <1>1, <1>7 DEF TypeOK
    <2>7. NextStartReady(data, good)
      BY <1>1, <1>3, <1>4, <1>6, <1>7, <2>3, <2>4, <2>5, <2>6 DEF NextStartReady
    <2> QED  BY <2>1, <2>7, NextStartInv
  <1> QED  BY <1>8, <1>9

LEMMA CancelInv ==
    ASSUME IInv, Cancel
    PROVE  IInv'
  <1>1. /\ data' = data /\ isFinishedFlag' = TRUE /\ finishedSignals' = finishedSignals + 1
        /\ state = "live" /\ state' = "destroyed" /\ ~isFinishedFlag
        /\ finder' \in {finder, "none"}
        /\ UNCHANGED <<altVars, bodyVars, workVars, lexicon, wordVars>>
    BY DEF Cancel, Finish
  <1>2. finishedSignals' = 1
    BY <1>1 DEF IInv, PhaseInv
  <1>3. TypeOK'
    BY <1>1, <1>2 DEF IInv, TypeOK, altVars, bodyVars, workVars, wordVars
  <1>4. PhaseInv'
    BY <1>1, <1>2 DEF IInv, PhaseInv, Whole, Live, altVars, bodyVars, workVars
  <1>5. QueueInv'
    BY <1>1 DEF IInv, QueueInv, NoneThrew, altVars, bodyVars, workVars
  <1>6. WordInv'
    BY <1>1 DEF WordInv, CompoundsListed, Whole
  <1> QED  BY <1>3, <1>4, <1>5, <1>6 DEF IInv

\* What a dictionary still asked comes to have is not on the page yet.
LEMMA WorkerFlagInv ==
    ASSUME IInv, NEW d \in Dicts, WorkerFlag(d)
    PROVE  IInv'
  <1>1. /\ life[d] = "running" /\ life' = [life EXCEPT ![d] = "flagged"]
        /\ UNCHANGED <<altVars, bodyVars, posted, pageVars, finder, lexicon, wordVars, state>>
    BY DEF WorkerFlag
  <1>2. \/ altsDone /\ \E c \in Contents : has' = [has EXCEPT ![d] = c]
        \/ ~altsDone /\ has' = has
    BY DEF WorkerFlag
  <1>3. life \in [Dicts -> Lives] /\ has \in [Dicts -> Contents]
    BY DEF IInv, TypeOK
  <1>4. life' \in [Dicts -> Lives] /\ has' \in [Dicts -> Contents]
    BY <1>1, <1>2, <1>3 DEF Lives
  <1>5. TypeOK'
    BY <1>1, <1>4 DEF IInv, TypeOK, altVars, bodyVars, pageVars, wordVars
  <1>6. PhaseInv'
    BY <1>1 DEF IInv, PhaseInv, Whole, Live, altVars, bodyVars, pageVars
  <1>7. QueueInv'
    <2>1. /\ \A e \in Dicts : life'[e] = "none" <=> life[e] = "none"
          /\ \A e \in Dicts : life'[e] \in {"running", "flagged"} => life[e] \in {"running", "flagged"}
      BY <1>1, <1>3
    <2>2. ASSUME altsDone
          PROVE  InOrder(data, bodyRequests, has')
      <3>1. InOrder(data, bodyRequests, has) /\ d \in Range(bodyRequests)
        BY <1>1, <2>2 DEF IInv, QueueInv
      <3>2. \A e \in Dicts : e # d => has'[e] = has[e]
        BY <1>2, <1>3
      <3>3. {e \in Dicts : has'[e] # "nothing"} \ Range(bodyRequests) =
               {e \in Dicts : has[e] # "nothing"} \ Range(bodyRequests)
        BY <3>1, <3>2
      <3> QED  BY <3>1, <3>3 DEF InOrder
    <2> QED  BY <1>1, <2>1, <2>2 DEF IInv, QueueInv, NoneThrew, altVars, bodyVars, pageVars
  <1>8. WordInv'
    BY <1>1 DEF IInv, WordInv, CompoundsListed, Whole, pageVars, wordVars
  <1> QED  BY <1>5, <1>6, <1>7, <1>8 DEF IInv

LEMMA WorkerEmitInv ==
    ASSUME IInv, NEW d \in Dicts, WorkerEmit(d)
    PROVE  IInv'
  <1>1. /\ life[d] = "flagged" /\ life' = [life EXCEPT ![d] = "gone"]
        /\ posted' = posted \cup {<<IF altsDone THEN "body" ELSE "alt", d>>}
        /\ UNCHANGED <<altVars, bodyVars, has, pageVars, finder, lexicon, wordVars, state>>
    BY DEF WorkerEmit
  <1>2. life \in [Dicts -> Lives]
    BY DEF IInv, TypeOK
  <1>3. life' \in [Dicts -> Lives]
    BY <1>1, <1>2 DEF Lives
  <1>4. /\ posted' \in SUBSET ({"alt", "body"} \X Dicts)
        /\ \A e \in Dicts : <<"body", e>> \in posted' => altsDone
    <2>1. posted \in SUBSET ({"alt", "body"} \X Dicts)
      BY DEF IInv, TypeOK
    <2>2. \A e \in Dicts : <<"body", e>> \in posted => altsDone
      BY DEF IInv, PhaseInv
    <2>3. CASE altsDone
      BY <1>1, <2>1, <2>3
    <2>4. CASE ~altsDone
      BY <1>1, <2>1, <2>2, <2>4
    <2> QED  BY <2>3, <2>4
  <1>5. TypeOK'
    BY <1>1, <1>3, <1>4 DEF IInv, TypeOK, altVars, bodyVars, pageVars, wordVars
  <1>6. PhaseInv'
    <2>1. state # "new"
      BY DEF WorkerEmit, Live
    <2> QED  BY <1>1, <1>4, <2>1 DEF IInv, PhaseInv, Whole, Live, altVars, bodyVars, pageVars
  <1>7. QueueInv'
    <2>1. /\ \A e \in Dicts : life'[e] = "none" <=> life[e] = "none"
          /\ \A e \in Dicts : life'[e] \in {"running", "flagged"} => life[e] \in {"running", "flagged"}
      BY <1>1, <1>2
    <2> QED  BY <1>1, <2>1 DEF IInv, QueueInv, NoneThrew, altVars, bodyVars, pageVars
  <1>8. WordInv'
    BY <1>1 DEF IInv, WordInv, CompoundsListed, Whole, pageVars, wordVars
  <1> QED  BY <1>5, <1>6, <1>7, <1>8 DEF IInv

LEMMA FinderDoneInv ==
    ASSUME IInv, FinderDone
    PROVE  IInv'
  <1>1. /\ \/ finder = "stemmed" /\ finder' = "stemmedDone"
           \/ finder = "expression" /\ finder' = "expressionDone"
        /\ UNCHANGED <<altVars, bodyVars, workVars, pageVars, lexicon, wordVars, state>>
    BY DEF FinderDone
  <1>2. TypeOK'
    BY <1>1 DEF IInv, TypeOK, altVars, bodyVars, workVars, pageVars, wordVars
  <1>3. PhaseInv'
    BY <1>1 DEF IInv, PhaseInv, Whole, Live, altVars, bodyVars, workVars, pageVars
  <1>4. QueueInv'
    BY <1>1 DEF IInv, QueueInv, NoneThrew, altVars, bodyVars, workVars, pageVars
  <1>5. WordInv'
    BY <1>1 DEF IInv, WordInv, CompoundsListed, Whole, pageVars, wordVars
  <1> QED  BY <1>2, <1>3, <1>4, <1>5 DEF IInv

LEMMA NextInv == IInv /\ [Next]_vars => IInv'
  <1> SUFFICES ASSUME IInv, [Next]_vars PROVE IInv'
    OBVIOUS
  <1>1. CASE Construct
    BY <1>1, ConstructInv
  <1>2. ASSUME NEW d \in Dicts, AltSearchFinished(d)
        PROVE  IInv'
    BY <1>2, AltSearchFinishedInv
  <1>3. ASSUME NEW d \in Dicts, BodyRequestFinished(d)
        PROVE  IInv'
    BY <1>3, BodyRequestFinishedInv
  <1>4. CASE StemmedSearchFinished
    BY <1>4, StemmedSearchFinishedInv
  <1>5. CASE IndividualWordFinished
    BY <1>5, IndividualWordFinishedInv
  <1>6. CASE Cancel
    BY <1>6, CancelInv
  <1>7. ASSUME NEW d \in Dicts, WorkerFlag(d)
        PROVE  IInv'
    BY <1>7, WorkerFlagInv
  <1>8. ASSUME NEW d \in Dicts, WorkerEmit(d)
        PROVE  IInv'
    BY <1>8, WorkerEmitInv
  <1>9. CASE FinderDone
    BY <1>9, FinderDoneInv
  <1>10. CASE UNCHANGED vars
    <2>1. UNCHANGED <<altVars, bodyVars, workVars, pageVars, finder, lexicon, wordVars, state>>
      BY <1>10 DEF vars, workVars, pageVars
    <2>2. TypeOK'
      BY <2>1 DEF IInv, TypeOK, altVars, bodyVars, workVars, pageVars, wordVars
    <2>3. PhaseInv'
      BY <2>1 DEF IInv, PhaseInv, Whole, Live, altVars, bodyVars, workVars, pageVars
    <2>4. QueueInv'
      BY <2>1 DEF IInv, QueueInv, NoneThrew, altVars, bodyVars, workVars, pageVars
    <2>5. WordInv'
      BY <2>1 DEF IInv, WordInv, CompoundsListed, Whole, pageVars, wordVars
    <2> QED  BY <2>2, <2>3, <2>4, <2>5 DEF IInv
  <1> QED  BY <1>1, <1>2, <1>3, <1>4, <1>5, <1>6, <1>7, <1>8, <1>9, <1>10
           DEF Next, Slots, Others

(***************************************************************************)
(* The invariant holds in every state of the request.                      *)
(***************************************************************************)
THEOREM Inductive == Spec => []IInv
  <1> QED  BY InitInv, NextInv, PTL DEF Spec

-----------------------------------------------------------------------------
(***************************************************************************)
(* Whatever order the dictionaries and the searches answer in, and however *)
(* late, the page is one document with one header and at most one end, and *)
(* finished() is emitted once.                                             *)
(***************************************************************************)
THEOREM PageSound == Spec => []DocumentSound
  <1>1. IInv => DocumentSound
    <2> SUFFICES ASSUME IInv PROVE DocumentSound
      OBVIOUS
    <2>1. TypeOK /\ PhaseInv
      BY DEF IInv
    <2>2. data # <<>> => data[1] = Header
      BY <2>1 DEF PhaseInv, TypeOK
    <2>3. ASSUME NEW i \in DOMAIN data, data[i] = End
          PROVE  Whole /\ i = Len(data)
      <3>1. i \in Where(data, "end")
        BY <2>3, FixedPieces DEF Where
      <3> QED  BY <2>1, <3>1 DEF PhaseInv
    <2>4. finishedSignals <= 1 /\ isFinishedFlag = (finishedSignals = 1)
      BY <2>1 DEF PhaseInv, TypeOK
    <2>5. Whole => data[Len(data)] = End
      BY <2>1 DEF PhaseInv
    <2> QED  BY <2>1, <2>2, <2>3, <2>4, <2>5 DEF DocumentSound, OneDocument
  <1> QED  BY <1>1, Inductive, PTL

(***************************************************************************)
(* The articles of the dictionaries stand on the page in their order, and  *)
(* all of them on a whole page.                                            *)
(***************************************************************************)
THEOREM ArticlesOrdered == Spec => []ArticlesInOrder
  <1>1. IInv => ArticlesInOrder
    <2> SUFFICES ASSUME IInv PROVE ArticlesInOrder
      OBVIOUS
    <2>1. CASE altsDone
      <3>1. InOrder(data, bodyRequests, has)
        BY <2>1 DEF IInv, QueueInv
      <3>2. Whole => bodyRequests = <<>>
        BY DEF IInv, PhaseInv
      <3>3. Range(<<>>) = {}
        BY DEF Range
      <3> QED  BY <3>1, <3>2, <3>3 DEF InOrder, Shown, ArticlesInOrder
    <2>2. CASE ~altsDone
      <3>1. data \in {<<>>, <<Header>>} /\ ~Whole
        BY <2>2 DEF IInv, PhaseInv
      <3>2. Where(data, "section") = {}
        <4>1. Where(<<>>, "section") = {}
          BY DEF Where
        <4>2. Where(<<Header>>, "section") = {}
          BY HeaderPage, NoneOf
        <4> QED  BY <3>1, <4>1, <4>2
      <3> QED  BY <3>1, <3>2 DEF ArticlesInOrder
    <2> QED  BY <2>1, <2>2
  <1> QED  BY <1>1, Inductive, PTL

(***************************************************************************)
(* Unless a getArticle() threw, every article stands under the name of its *)
(* dictionary, for any number of dictionaries.                             *)
(***************************************************************************)
THEOREM ArticlesNamed == Spec => []HeadedByItsDictionary
  <1>1. IInv => HeadedByItsDictionary
    <2> SUFFICES ASSUME IInv PROVE HeadedByItsDictionary
      OBVIOUS
    <2>1. CASE altsDone
      BY <2>1 DEF IInv, QueueInv, Headed, HeadedByItsDictionary
    <2>2. CASE ~altsDone
      <3>1. data \in {<<>>, <<Header>>}
        BY <2>2 DEF IInv, PhaseInv
      <3>2. Where(data, "section") = {}
        <4>1. Where(<<>>, "section") = {}
          BY DEF Where
        <4>2. Where(<<Header>>, "section") = {}
          BY HeaderPage, NoneOf
        <4> QED  BY <3>1, <4>1, <4>2
      <3> QED  BY <3>2 DEF HeadedByItsDictionary
    <2> QED  BY <2>1, <2>2
  <1> QED  BY <1>1, Inductive, PTL

(***************************************************************************)
(* The compounds listed on a whole page are the longest known expression   *)
(* from each word, for any number of words and any knowledge of them.      *)
(***************************************************************************)
THEOREM CompoundsComplete == Spec => []CompoundsListed
  <1>1. IInv => CompoundsListed
    BY DEF IInv, WordInv
  <1> QED  BY <1>1, Inductive, PTL

=============================================================================
