------------------------- MODULE BtreeSearchProofs -------------------------
(***************************************************************************)
(* The lookup returns the first chain not before the word, and the         *)
(* searches built on it find all they should and nothing else, for every   *)
(* index, every node size and every word.                                  *)
(***************************************************************************)
EXTENDS BtreeSearch, SequenceTheorems, FiniteSetTheorems, WellFoundedInduction, TLAPS

(***************************************************************************)
(* Integer division.                                                       *)
(***************************************************************************)
LEMMA Division ==
    ASSUME NEW a \in Nat, NEW d \in Nat \ {0}
    PROVE  /\ a \div d \in Nat
           /\ d * (a \div d) <= a
           /\ a < d * (a \div d) + d
BY SMT

(***************************************************************************)
(* buildBtreeNode() cuts a node that is no leaf into non-empty parts that  *)
(* cover it.                                                               *)
(***************************************************************************)
LEMMA CutBounds ==
    ASSUME NEW s \in Nat, NEW x \in 0 .. MaxElements
    PROVE  /\ Cut(s, x) \in Nat
           /\ Cut(s, x + 1) \in Nat
           /\ Cut(s, x + 1) <= s
           /\ ~IsLeaf(s) => Cut(s, x) < Cut(s, x + 1)
<1>. DEFINE d == MaxElements + 1
<1>1. d \in Nat \ {0} /\ x \in Nat /\ MaxElements \in Nat
  BY MaxElementsAssumption
<1>2. s * x \in Nat /\ s * (x + 1) \in Nat
  BY <1>1, SMT
<1>. DEFINE p == (s * x) \div d
            q == (s * (x + 1)) \div d
<1>3. /\ p \in Nat /\ d * p <= s * x
      /\ q \in Nat /\ d * q <= s * (x + 1) /\ s * (x + 1) < d * q + d
  BY <1>1, <1>2, Division
<1>4. s * (x + 1) = s * x + s
  BY <1>1, SMT
<1>5. q <= s
  <2>1. s * (x + 1) <= s * d
    BY <1>1, SMT
  <2>2. ASSUME q > s PROVE FALSE
    <3>1. d * q >= d * (s + 1)
      BY <2>2, <1>1, <1>3, SMT
    <3>. QED BY <3>1, <2>1, <1>1, <1>3, SMT
  <2>. QED BY <2>2, <1>3, SMT
<1>6. ASSUME s > MaxElements PROVE p < q
  <2>1. s >= d
    BY <1>6, <1>1, SMT
  <2>2. ASSUME q <= p PROVE FALSE
    <3>1. d * q <= d * p
      BY <2>2, <1>1, <1>3, SMT
    <3>. QED BY <3>1, <2>1, <1>1, <1>2, <1>3, <1>4, SMT
  <2>. QED BY <2>2, <1>3, SMT
<1>. QED
  BY <1>1, <1>3, <1>5, <1>6, SMT DEF Cut, IsLeaf

LEMMA CutEnds ==
    ASSUME NEW s \in Nat
    PROVE  Cut(s, 0) = 0 /\ Cut(s, MaxElements + 1) = s
<1>. DEFINE d == MaxElements + 1
<1>1. d \in Nat \ {0} /\ MaxElements \in Nat
  BY MaxElementsAssumption
<1>2. s * 0 = 0 /\ s * d \in Nat
  BY <1>1, SMT
<1>3. 0 \div d = 0
  BY <1>1, SMT
<1>. DEFINE q == (s * d) \div d
<1>4. q \in Nat /\ d * q <= s * d /\ s * d < d * q + d
  BY <1>1, <1>2, Division
<1>5. q = s
  <2>1. ASSUME q < s PROVE FALSE
    <3>1. d * (q + 1) <= d * s
      BY <2>1, <1>1, <1>4, SMT
    <3>. QED BY <3>1, <1>1, <1>4, SMT
  <2>2. ASSUME q > s PROVE FALSE
    <3>1. d * (s + 1) <= d * q
      BY <2>2, <1>1, <1>4, SMT
    <3>. QED BY <3>1, <1>1, <1>4, SMT
  <2>. QED BY <2>1, <2>2, <1>4, SMT
<1>. QED
  BY <1>2, <1>3, <1>5 DEF Cut

LEMMA CutIncreasing ==
    ASSUME NEW s \in Nat, ~IsLeaf(s),
           NEW x \in 0 .. MaxElements - 1, NEW y \in 0 .. MaxElements - 1, x < y
    PROVE  Cut(s, x + 1) < Cut(s, y + 1)
<1>. DEFINE d == MaxElements + 1
<1>1. d \in Nat \ {0} /\ x \in Nat /\ y \in Nat /\ s >= d
  BY MaxElementsAssumption DEF IsLeaf
<1>2. s * (x + 1) \in Nat /\ s * (y + 1) \in Nat /\ s * (x + 1) + s <= s * (y + 1)
  <2>1. y - x \in Nat \ {0} /\ y + 1 = (x + 1) + (y - x)
    BY <1>1
  <2>2. s * (y + 1) = s * (x + 1) + s * (y - x)
    BY <1>1, <2>1, SMT
  <2>3. s <= s * (y - x)
    BY <1>1, <2>1, SMT
  <2>. QED BY <1>1, <2>2, <2>3, SMT
<1>. DEFINE p == (s * (x + 1)) \div d
            q == (s * (y + 1)) \div d
<1>3. /\ p \in Nat /\ d * p <= s * (x + 1)
      /\ q \in Nat /\ s * (y + 1) < d * q + d
  BY <1>1, <1>2, Division
<1>4. ASSUME q <= p PROVE FALSE
  <2>1. d * q <= d * p
    BY <1>1, <1>3, <1>4, SMT
  <2>. QED BY <2>1, <1>1, <1>2, <1>3, SMT
<1>. QED
  BY <1>3, <1>4, SMT DEF Cut

-----------------------------------------------------------------------------
\* What the proofs need of the index.
Sorted ==
    /\ keys \in Seq(Nat \ {0})
    /\ \A i, j \in DOMAIN keys : i < j => keys[i] < keys[j]

LookupInv == TypeOK /\ Sorted /\ Shape /\ Ruled /\ LookupCorrect

LEMMA KeyOrder ==
    ASSUME Sorted
    PROVE  /\ Total \in Nat
           /\ \A i \in Position : Key(i) \in Nat \ {0}
           /\ \A i, j \in Position : i < j => Key(i) < Key(j)
           /\ \A i, j \in Position : i <= j => Key(i) <= Key(j)
<1>1. Total \in Nat /\ DOMAIN keys = 1 .. Total
  BY DEF Sorted, Total
<1>2. \A i \in Position : i + 1 \in DOMAIN keys
  BY <1>1 DEF Position
<1>3. \A i \in Position : Key(i) \in Nat \ {0}
  BY <1>2 DEF Sorted, Key
<1>4. \A i, j \in Position : i < j => Key(i) < Key(j)
  BY <1>1, <1>2 DEF Sorted, Key, Position
<1>5. \A i, j \in Position : i <= j => Key(i) <= Key(j)
  BY <1>1, <1>3, <1>4 DEF Position
<1>. QED
  BY <1>1, <1>3, <1>4, <1>5

LEMMA ElementsPositive ==
    ASSUME NEW s \in Nat
    PROVE  Elements(s) \in Nat /\ (s > 0 => Elements(s) > 0)
BY MaxElementsAssumption DEF Elements, IsLeaf

(***************************************************************************)
(* Going down to a child keeps the search on the right track if the        *)
(* separators on its two sides say that the word belongs there.            *)
(***************************************************************************)
LEMMA DescendRules ==
    ASSUME LookupInv, ~returned, ~IsLeaf(size), NEW x \in 0 .. MaxElements, Descend(x),
           target = 0 => x = 0,
           target # 0 /\ x > 0 => Separator(x - 1) <= target,
           target # 0 /\ x < MaxElements => target < Separator(x)
    PROVE  LookupInv'
<1>. USE DEF LookupInv
<1>1. /\ size \in Nat /\ first \in Nat /\ MaxElements \in Nat \ {0} /\ size > MaxElements
      /\ x \in Nat
      /\ first + size <= Total /\ Total \in Nat
  BY MaxElementsAssumption, KeyOrder DEF TypeOK, Shape, IsLeaf
<1>2. /\ Cut(size, x) \in Nat /\ Cut(size, x + 1) \in Nat
      /\ Cut(size, x) < Cut(size, x + 1) /\ Cut(size, x + 1) <= size
  BY <1>1, CutBounds
<1>3. /\ first' = first + Cut(size, x) /\ first' \in Nat
      /\ size' = Cut(size, x + 1) - Cut(size, x) /\ size' \in Nat /\ size' > 0
      /\ first' + size' = first + Cut(size, x + 1)
      /\ window' = 0 /\ windowSize' = Elements(size')
      /\ keys' = keys /\ target' = target /\ returned' = returned
      /\ chain' = chain /\ exactMatch' = exactMatch
  BY <1>1, <1>2 DEF Descend
<1>4. Elements(size') \in Nat /\ Elements(size') > 0
  BY <1>3, ElementsPositive
<1>5. Total' = Total /\ Position' = Position /\ \A i : Key(i)' = Key(i)
  BY <1>3 DEF Total, Position, Key
<1>6. first' + size' <= Total
  BY <1>1, <1>2, <1>3
<1>7. TypeOK'
  BY <1>1, <1>3, <1>4, <1>5, <1>6 DEF TypeOK
<1>8. Sorted'
  BY <1>3 DEF Sorted
<1>9. Shape'
  <2>1. target = 0 => first' = 0
    BY <1>1, <1>3, CutEnds DEF Shape
  <2>. QED BY <1>3, <1>4, <1>5, <1>6, <2>1 DEF Shape
<1>10. Ruled'
  <2>. SUFFICES ASSUME target # 0 PROVE Ruled'
    BY <1>3 DEF Ruled
  <2>1. ASSUME NEW i \in Position, i < first' PROVE Key(i) < target
    <3>1. i \in Nat /\ target \in Nat
      BY TargetsAssumption DEF Position, TypeOK
    <3>2. CASE x = 0
      BY <3>2, <2>1, <1>1, <1>3, CutEnds DEF Ruled
    <3>3. CASE x > 0
      <4>1. first + Cut(size, x) \in Position
        BY <1>1, <1>2 DEF Position
      <4>2. Separator(x - 1) = Key(first + Cut(size, x))
        BY <1>1 DEF Separator
      <4>3. Key(i) < Key(first + Cut(size, x))
        BY <2>1, <1>3, <4>1, KeyOrder
      <4>4. Separator(x - 1) <= target
        BY <3>3
      <4>. DEFINE k == Key(i)
                  m == Key(first + Cut(size, x))
      <4>5. k \in Nat /\ m \in Nat
        BY <4>1, KeyOrder
      <4>6. k < m /\ m <= target
        BY <4>2, <4>3, <4>4
      <4>. HIDE DEF k, m
      <4>7. k < target
        BY <3>1, <4>5, <4>6
      <4>. QED BY <4>7 DEF k
    <3>. QED BY <3>2, <3>3, <1>1
  <2>2. ASSUME NEW i \in Position, first' + size' <= i PROVE target < Key(i)
    <3>1. i \in Nat /\ target \in Nat
      BY TargetsAssumption DEF Position, TypeOK
    <3>2. CASE x = MaxElements
      <4>1. first' + size' = first + size
        BY <3>2, <1>1, <1>3, CutEnds
      <4>. QED BY <4>1, <2>2 DEF Ruled
    <3>3. CASE x < MaxElements
      <4>1. x + 1 \in 0 .. MaxElements
        BY <3>3, <1>1
      <4>2. Cut(size, x + 1) < Cut(size, x + 2) /\ Cut(size, x + 2) <= size
            /\ Cut(size, x + 2) \in Nat
        <5>1. x + 1 + 1 = x + 2
          BY <1>1
        <5>. QED BY <4>1, <5>1, <1>1, CutBounds
      <4>3. first + Cut(size, x + 1) \in Position
        BY <4>2, <1>1, <1>2 DEF Position
      <4>4. Key(first + Cut(size, x + 1)) <= Key(i)
        BY <2>2, <1>3, <4>3, KeyOrder
      <4>5. target < Key(first + Cut(size, x + 1))
        BY <3>3 DEF Separator
      <4>. DEFINE k == Key(i)
                  m == Key(first + Cut(size, x + 1))
      <4>6. k \in Nat /\ m \in Nat
        BY <4>3, KeyOrder
      <4>7. m <= k /\ target < m
        BY <4>4, <4>5
      <4>. HIDE DEF k, m
      <4>8. target < k
        BY <3>1, <4>6, <4>7
      <4>. QED BY <4>8 DEF k
    <3>. QED BY <3>2, <3>3, <1>1
  <2>3. IsLeaf(size') => Elements(size') = size'
    BY DEF Elements
  <2>4. ~IsLeaf(size') => Elements(size') = MaxElements
    BY DEF Elements
  <2>. QED BY <1>1, <1>3, <1>5, <2>1, <2>2, <2>3, <2>4 DEF Ruled
<1>11. LookupCorrect'
  BY <1>3 DEF LookupCorrect
<1>. QED BY <1>7, <1>8, <1>9, <1>10, <1>11

(***************************************************************************)
(* Narrowing the window, and returning, keep the invariant if what they    *)
(* rule out, or answer, is right.                                          *)
(***************************************************************************)
LEMMA NarrowRules ==
    ASSUME LookupInv, ~returned, NEW w \in Nat, NEW n \in Nat \ {0}, Narrow(w, n),
           w + n <= Elements(size),
           Ruled'
    PROVE  LookupInv'
<1>1. /\ window' = w /\ windowSize' = n /\ keys' = keys /\ target' = target
      /\ first' = first /\ size' = size /\ returned' = returned
      /\ chain' = chain /\ exactMatch' = exactMatch
  BY DEF Narrow
<1>2. TypeOK'
  BY <1>1 DEF LookupInv, TypeOK, Total, Position
<1>3. Sorted'
  BY <1>1 DEF LookupInv, Sorted
<1>4. Shape'
  BY <1>1 DEF LookupInv, Shape, Total, Elements, IsLeaf
<1>5. LookupCorrect'
  BY <1>1 DEF LookupCorrect
<1>. QED
  BY <1>2, <1>3, <1>4, <1>5 DEF LookupInv

LEMMA ReturnRules ==
    ASSUME LookupInv, NEW c \in Position \cup {None}, NEW e \in BOOLEAN, Return(c, e),
           IsLowerBound(c, target),
           e = (c # None /\ Key(c) = target)
    PROVE  LookupInv'
<1>1. /\ window' = window /\ windowSize' = windowSize /\ keys' = keys /\ target' = target
      /\ first' = first /\ size' = size /\ returned' = TRUE
      /\ chain' = c /\ exactMatch' = e
  BY DEF Return
<1>2. TypeOK'
  BY <1>1 DEF LookupInv, TypeOK, Total, Position
<1>3. Sorted'
  BY <1>1 DEF LookupInv, Sorted
<1>4. Shape'
  BY <1>1 DEF LookupInv, Shape, Total, Elements, IsLeaf
<1>5. Ruled'
  BY <1>1 DEF LookupInv, Ruled, Position, Total, Key, Separator, Cut, IsLeaf
<1>6. LookupCorrect'
  BY <1>1 DEF LookupCorrect, IsLowerBound, Position, Total, Key
<1>. QED
  BY <1>2, <1>3, <1>4, <1>5, <1>6 DEF LookupInv

-----------------------------------------------------------------------------
LEMMA RootInv == Init => LookupInv
<1>. SUFFICES ASSUME Init PROVE LookupInv
  OBVIOUS
<1>1. Sorted
  BY IndexesAssumption DEF Init, Sorted
<1>2. Total \in Nat
  BY <1>1, KeyOrder
<1>3. windowSize \in Nat /\ (size > 0 => windowSize > 0)
  BY <1>2, ElementsPositive DEF Init
<1>4. TypeOK
  <2>1. first \in 0 .. Total /\ size \in 0 .. Total /\ window \in Nat
    BY <1>2 DEF Init
  <2>2. returned \in BOOLEAN /\ exactMatch \in BOOLEAN /\ chain \in Position \cup {None}
    BY DEF Init
  <2>. QED BY <1>3, <2>1, <2>2 DEF Init, TypeOK
<1>5. Shape
  BY <1>2, <1>3 DEF Init, Shape
<1>6. Ruled
  <2>1. /\ first = 0 /\ size = Total /\ window = 0
        /\ windowSize = IF IsLeaf(size) THEN size ELSE MaxElements
    BY DEF Init, Elements
  <2>. QED BY <1>2, <2>1, MaxElementsAssumption DEF Ruled, Position
<1>7. LookupCorrect
  BY DEF Init, LookupCorrect
<1>. QED
  BY <1>1, <1>4, <1>5, <1>6, <1>7 DEF LookupInv

LEMMA LeftmostChildInv == LookupInv /\ LeftmostChild => LookupInv'
<1>. SUFFICES ASSUME LookupInv, LeftmostChild PROVE LookupInv'
  OBVIOUS
<1>1. 0 \in 0 .. MaxElements
  BY MaxElementsAssumption
<1>. QED
  BY <1>1, DescendRules DEF LeftmostChild

LEMMA LeftmostChainInv == LookupInv /\ LeftmostChain => LookupInv'
<1>. SUFFICES ASSUME LookupInv, LeftmostChain PROVE LookupInv'
  OBVIOUS
<1>. DEFINE c == IF size = 0 THEN None ELSE first
<1>1. target = 0 /\ Return(c, FALSE) /\ first = 0
  BY DEF LeftmostChain, LookupInv, Shape
<1>2. Total \in Nat /\ size \in Nat /\ first + size <= Total /\ (size = 0 => Total = 0)
  BY KeyOrder DEF LookupInv, TypeOK, Shape
<1>3. CASE size = 0
  <2>1. c = None /\ IsLowerBound(c, target)
    BY <1>2, <1>3 DEF IsLowerBound, Position, None
  <2>. QED BY <1>1, <2>1, ReturnRules
<1>4. CASE size # 0
  <2>1. c \in Position /\ c # None /\ c = 0
    BY <1>1, <1>2, <1>4 DEF Position, None
  <2>2. Key(c) \in Nat \ {0}
    BY <2>1, KeyOrder DEF LookupInv
  <2>3. IsLowerBound(c, target) /\ Key(c) # target
    BY <1>1, <2>1, <2>2 DEF IsLowerBound, Position
  <2>. QED BY <1>1, <2>1, <2>3, ReturnRules
<1>. QED
  BY <1>3, <1>4

LEMMA EmptyLeafInv == LookupInv /\ EmptyLeaf => LookupInv'
<1>. SUFFICES ASSUME LookupInv, EmptyLeaf PROVE LookupInv'
  OBVIOUS
<1>1. Return(None, FALSE) /\ Total = 0
  BY DEF EmptyLeaf, LookupInv, Shape
<1>2. IsLowerBound(None, target)
  BY <1>1 DEF IsLowerBound, Position, None
<1>. QED
  BY <1>1, <1>2, ReturnRules

LEMMA SearchNodeInv == LookupInv /\ SearchNode => LookupInv'
<1>. SUFFICES ASSUME LookupInv, SearchNode PROVE LookupInv'
  OBVIOUS
<1>1. PICK x \in window .. window + windowSize - 1 : ProbeNode(x)
  BY DEF SearchNode
<1>2. /\ ~returned /\ target # 0 /\ ~IsLeaf(size)
      /\ MaxElements \in Nat \ {0} /\ size \in Nat /\ first \in Nat /\ Total \in Nat
      /\ window \in Nat /\ windowSize \in Nat \ {0}
      /\ window + windowSize <= MaxElements
      /\ first + size <= Total
  BY MaxElementsAssumption, KeyOrder DEF SearchNode, LookupInv, TypeOK, Shape, Elements, IsLeaf
<1>3. /\ x \in Nat /\ window <= x /\ x < window + windowSize /\ x < MaxElements
      /\ x \in 0 .. MaxElements /\ x + 1 \in 0 .. MaxElements
      /\ x \in 0 .. MaxElements - 1
  BY <1>2
<1>4. target \in Nat
  BY TargetsAssumption DEF LookupInv, TypeOK
\* Separators are keys, in order.
<1>5. ASSUME NEW y \in 0 .. MaxElements - 1
      PROVE  /\ first + Cut(size, y + 1) \in Position
             /\ Separator(y) \in Nat
  <2>1. y \in Nat /\ y + 1 \in 0 .. MaxElements /\ y + 1 + 1 = y + 2
    BY <1>2
  <2>2. Cut(size, y + 1) \in Nat /\ Cut(size, y + 1) < Cut(size, y + 2)
        /\ Cut(size, y + 2) \in Nat /\ Cut(size, y + 2) <= size
    BY <1>2, <2>1, CutBounds
  <2>3. first + Cut(size, y + 1) \in Position
    BY <1>2, <2>2 DEF Position
  <2>. QED BY <2>3, KeyOrder DEF LookupInv, Separator
<1>6. \A y \in 0 .. MaxElements - 1 :
         /\ y < window => Separator(y) < target
         /\ window + windowSize <= y => target < Separator(y)
  BY <1>2 DEF LookupInv, Ruled
<1>7. \A y, z \in 0 .. MaxElements - 1 : y < z => Separator(y) < Separator(z)
  <2>1. SUFFICES ASSUME NEW y \in 0 .. MaxElements - 1, NEW z \in 0 .. MaxElements - 1, y < z
                 PROVE  Separator(y) < Separator(z)
    OBVIOUS
  <2>2. Cut(size, y + 1) < Cut(size, z + 1)
    BY <1>2, <2>1, CutIncreasing
  <2>3. first + Cut(size, y + 1) < first + Cut(size, z + 1)
    <3>1. Cut(size, y + 1) \in Nat /\ Cut(size, z + 1) \in Nat
      <4>1. y + 1 \in 0 .. MaxElements /\ z + 1 \in 0 .. MaxElements
        BY <1>2
      <4>. QED BY <4>1, <1>2, CutBounds
    <3>. QED BY <1>2, <2>2, <3>1
  <2>. QED BY <1>5, <2>3, KeyOrder DEF LookupInv, Separator
<1>8. CASE target = Separator(x) /\ Descend(x + 1)
  <2>1. x + 1 < MaxElements => target < Separator(x + 1)
    BY <1>2, <1>3, <1>7, <1>8
  <2>2. x + 1 - 1 = x
    BY <1>3
  <2>3. Separator(x + 1 - 1) <= target
    BY <1>4, <1>8, <2>2
  <2>. QED BY <1>2, <1>3, <1>8, <2>1, <2>3, DescendRules
<1>9. CASE target < Separator(x)
  <2>1. CASE x = window /\ Descend(x)
    <3>1. x > 0 => Separator(x - 1) <= target
      <4>1. x > 0 => x - 1 \in 0 .. MaxElements - 1 /\ x - 1 < window
        BY <1>2, <1>3, <2>1
      <4>. QED BY <4>1, <1>4, <1>5, <1>6
    <3>. QED BY <1>2, <1>3, <1>9, <2>1, <3>1, DescendRules
  <2>2. CASE x # window /\ Narrow(window, x - window)
    <3>1. x - window \in Nat \ {0} /\ window + (x - window) = x
      BY <1>2, <1>3, <2>2
    <3>2. \A y \in 0 .. MaxElements - 1 : x <= y => target < Separator(y)
      BY <1>3, <1>4, <1>5, <1>7, <1>9
    <3>3. Ruled'
      BY <1>2, <1>6, <2>2, <3>1, <3>2
         DEF LookupInv, Ruled, Narrow, Position, Total, Key, Separator, Cut, IsLeaf
    <3>4. x <= Elements(size)
      BY <1>2, <1>3 DEF Elements
    <3>. QED BY <1>2, <2>2, <3>1, <3>3, <3>4, NarrowRules
  <2>. QED BY <1>1, <1>4, <1>5, <1>3, <1>9, <2>1, <2>2 DEF ProbeNode
<1>10. CASE target > Separator(x)
  <2>. DEFINE left == windowSize - (x - window) - 1
  <2>1. CASE left = 0 /\ Descend(x + 1)
    <3>1. x + 1 < MaxElements => target < Separator(x + 1)
      <4>1. x + 1 < MaxElements =>
               x + 1 \in 0 .. MaxElements - 1 /\ window + windowSize <= x + 1
        BY <1>2, <1>3, <2>1
      <4>. QED BY <4>1, <1>6
    <3>2. x + 1 - 1 = x
      BY <1>3
    <3>3. Separator(x + 1 - 1) <= target
      BY <1>3, <1>4, <1>5, <1>10, <3>2
    <3>. QED BY <1>2, <1>3, <2>1, <3>1, <3>3, DescendRules
  <2>2. CASE left # 0 /\ Narrow(x + 1, left)
    <3>1. left \in Nat \ {0} /\ x + 1 \in Nat /\ x + 1 + left = window + windowSize
      BY <1>2, <1>3, <2>2
    <3>2. \A y \in 0 .. MaxElements - 1 : y < x + 1 => Separator(y) < target
      BY <1>3, <1>4, <1>5, <1>7, <1>10
    <3>3. Ruled'
      BY <1>2, <1>6, <2>2, <3>1, <3>2
         DEF LookupInv, Ruled, Narrow, Position, Total, Key, Separator, Cut, IsLeaf
    <3>4. x + 1 + left <= Elements(size)
      BY <1>2, <3>1 DEF Elements
    <3>. QED BY <1>2, <2>2, <3>1, <3>3, <3>4, NarrowRules
  <2>. QED BY <1>1, <1>4, <1>5, <1>3, <1>10, <2>1, <2>2 DEF ProbeNode
<1>. QED
  BY <1>1, <1>3, <1>4, <1>5, <1>8, <1>9, <1>10 DEF ProbeNode

LEMMA SearchLeafInv == LookupInv /\ SearchLeaf => LookupInv'
<1>. SUFFICES ASSUME LookupInv, SearchLeaf PROVE LookupInv'
  OBVIOUS
<1>. DEFINE half == windowSize \div 2
            c == window + half
            word == Key(first + c)
            above == windowSize - (half + 1)
<1>1. /\ ~returned /\ target # 0 /\ IsLeaf(size)
      /\ size \in Nat \ {0} /\ first \in Nat /\ Total \in Nat
      /\ window \in Nat /\ windowSize \in Nat \ {0}
      /\ window + windowSize <= size
      /\ first + size <= Total
  BY KeyOrder DEF SearchLeaf, LookupInv, TypeOK, Shape, Elements
<1>2. half \in Nat /\ half < windowSize
  BY <1>1, Division
<1>3. /\ c \in Nat /\ c < size /\ c < window + windowSize /\ c \in 0 .. size - 1
      /\ above \in Nat /\ c + 1 + above = window + windowSize
      /\ first + c \in Position
  BY <1>1, <1>2 DEF Position
<1>4. target \in Nat /\ word \in Nat
  BY <1>3, TargetsAssumption, KeyOrder DEF LookupInv, TypeOK
<1>5. /\ \A i \in Position : Key(i) \in Nat
      /\ \A i, j \in Position : i <= j => Key(i) <= Key(j)
  BY KeyOrder DEF LookupInv
<1>6. /\ \A i \in Position : i < first => Key(i) < target
      /\ \A i \in Position : first + size <= i => target < Key(i)
      /\ \A k \in 0 .. size - 1 :
            /\ k < window => Key(first + k) < target
            /\ window + windowSize <= k => target < Key(first + k)
  BY <1>1 DEF LookupInv, Ruled
<1>7. Position \subseteq Nat /\ None \notin Position
  BY DEF Position, None
<1>8. /\ \/ target = word /\ Return(first + c, TRUE)
         \/ target < word /\ half = 0 /\ Return(first + c, FALSE)
         \/ target < word /\ half # 0 /\ Narrow(window, half)
         \/ target > word /\ above = 0 /\ Return(After(c), FALSE)
         \/ target > word /\ above # 0 /\ Narrow(c + 1, above)
  BY DEF SearchLeaf
<1>9. \A i \in Position : i < first + window => Key(i) < target
  <2>1. SUFFICES ASSUME NEW i \in Position, i < first + window PROVE Key(i) < target
    OBVIOUS
  <2>2. CASE i < first
    BY <2>2, <1>6
  <2>3. CASE i >= first
    <3>1. i - first \in 0 .. size - 1 /\ i - first < window /\ first + (i - first) = i
      BY <2>1, <2>3, <1>1, <1>7
    <3>. QED BY <3>1, <1>6
  <2>. QED BY <2>2, <2>3, <1>1, <1>7
\* What comes before the probed chain, and after it, if it is not the word.
<1>10. \A i \in Position : i <= first + c => Key(i) <= word
  BY <1>3, <1>5
<1>11. \A i \in Position : first + c <= i => word <= Key(i)
  BY <1>3, <1>5
<1>12. CASE target = word /\ Return(first + c, TRUE)
  <2>1. \A i \in Position : i < first + c => Key(i) < target
    BY <1>3, <1>12, KeyOrder DEF LookupInv
  <2>2. IsLowerBound(first + c, target)
    BY <1>3, <1>4, <1>7, <1>12, <2>1 DEF IsLowerBound
  <2>. QED BY <1>3, <1>7, <1>12, <2>2, ReturnRules
<1>13. CASE target < word /\ half = 0 /\ Return(first + c, FALSE)
  <2>1. c = window
    BY <1>1, <1>13
  <2>2. IsLowerBound(first + c, target)
    BY <1>3, <1>4, <1>7, <1>9, <1>13, <2>1 DEF IsLowerBound
  <2>3. Key(first + c) # target
    BY <1>4, <1>13
  <2>. QED BY <1>3, <1>7, <1>13, <2>2, <2>3, ReturnRules
<1>14. CASE target < word /\ half # 0 /\ Narrow(window, half)
  <2>1. \A k \in 0 .. size - 1 : c <= k => target < Key(first + k)
    <3>1. SUFFICES ASSUME NEW k \in 0 .. size - 1, c <= k PROVE target < Key(first + k)
      OBVIOUS
    <3>2. first + k \in Position /\ first + c <= first + k
      BY <1>1, <1>3, <3>1 DEF Position
    <3>3. word <= Key(first + k) /\ Key(first + k) \in Nat
      BY <3>2, <1>5, <1>11
    <3>. QED BY <1>4, <1>14, <3>3
  <2>2. Ruled'
    BY <1>1, <1>6, <1>14, <2>1
       DEF Ruled, Narrow, Position, Total, Key, Separator, Cut, IsLeaf
  <2>3. half \in Nat \ {0} /\ window + half <= Elements(size)
    BY <1>1, <1>2, <1>14 DEF Elements
  <2>. QED BY <1>1, <1>14, <2>2, <2>3, NarrowRules
<1>15. CASE target > word /\ above = 0 /\ Return(After(c), FALSE)
  <2>1. c + 1 = window + windowSize
    BY <1>3, <1>15
  <2>2. \A i \in Position : i < first + c + 1 => Key(i) < target
    <3>1. SUFFICES ASSUME NEW i \in Position, i < first + c + 1 PROVE Key(i) < target
      OBVIOUS
    <3>2. i <= first + c
      BY <1>1, <1>3, <1>7, <3>1
    <3>3. Key(i) <= word /\ Key(i) \in Nat
      BY <1>5, <1>10, <3>2
    <3>. QED BY <1>4, <1>15, <3>3
  <2>3. CASE c # size - 1
    <3>1. /\ c + 1 \in 0 .. size - 1 /\ first + (c + 1) = first + c + 1
          /\ first + c + 1 \in Position
      BY <1>1, <1>3, <2>3 DEF Position
    <3>2. target < Key(first + c + 1)
      BY <1>6, <2>1, <3>1
    <3>3. After(c) = first + c + 1
      BY <2>3 DEF After
    <3>4. Key(first + c + 1) \in Nat
      BY <1>5, <3>1
    <3>5. IsLowerBound(first + c + 1, target)
      BY <1>4, <1>7, <2>2, <3>1, <3>2, <3>4 DEF IsLowerBound
    <3>6. Key(first + c + 1) # target
      BY <1>4, <3>2, <3>4
    <3>. QED BY <1>15, <1>7, <3>1, <3>3, <3>5, <3>6, ReturnRules
  <2>4. CASE c = size - 1 /\ first + size < Total
    <3>1. first + size \in Position /\ first + size = first + c + 1
      BY <1>1, <1>3, <2>4 DEF Position
    <3>2. target < Key(first + size)
      BY <1>1, <1>6, <3>1
    <3>3. After(c) = first + size
      BY <2>4 DEF After
    <3>4. Key(first + size) \in Nat
      BY <1>5, <3>1
    <3>5. IsLowerBound(first + size, target)
      BY <1>4, <1>7, <2>2, <3>1, <3>2, <3>4 DEF IsLowerBound
    <3>6. Key(first + size) # target
      BY <1>4, <3>2, <3>4
    <3>. QED BY <1>15, <1>7, <3>1, <3>3, <3>5, <3>6, ReturnRules
  <2>5. CASE c = size - 1 /\ ~(first + size < Total)
    <3>1. \A i \in Position : i < first + c + 1
      BY <1>1, <1>3, <2>5 DEF Position
    <3>2. After(c) = None
      BY <2>5 DEF After
    <3>3. IsLowerBound(None, target)
      BY <2>2, <3>1 DEF IsLowerBound
    <3>. QED BY <1>15, <3>2, <3>3, ReturnRules
  <2>. QED BY <2>3, <2>4, <2>5
<1>16. CASE target > word /\ above # 0 /\ Narrow(c + 1, above)
  <2>1. \A k \in 0 .. size - 1 : k < c + 1 => Key(first + k) < target
    <3>1. SUFFICES ASSUME NEW k \in 0 .. size - 1, k < c + 1 PROVE Key(first + k) < target
      OBVIOUS
    <3>2. first + k \in Position /\ first + k <= first + c
      BY <1>1, <1>3, <3>1 DEF Position
    <3>3. Key(first + k) <= word /\ Key(first + k) \in Nat
      BY <3>2, <1>5, <1>10
    <3>. QED BY <1>4, <1>16, <3>3
  <2>2. above \in Nat \ {0} /\ c + 1 \in Nat /\ c + 1 + above <= Elements(size)
    BY <1>1, <1>3, <1>16 DEF Elements
  <2>3. Ruled'
    BY <1>1, <1>3, <1>6, <1>16, <2>1
       DEF Ruled, Narrow, Position, Total, Key, Separator, Cut, IsLeaf
  <2>. QED BY <1>1, <1>16, <2>2, <2>3, NarrowRules
<1>. QED
  BY <1>8, <1>12, <1>13, <1>14, <1>15, <1>16

LEMMA LookupKept == LookupInv /\ UNCHANGED vars => LookupInv'
<1>. SUFFICES ASSUME LookupInv, UNCHANGED vars PROVE LookupInv'
  OBVIOUS
<1>. USE DEF vars
<1>1. TypeOK'
  BY DEF LookupInv, TypeOK, Total, Position
<1>2. Sorted'
  BY DEF LookupInv, Sorted
<1>3. Shape'
  BY DEF LookupInv, Shape, Total, Elements, IsLeaf
<1>4. Ruled'
  BY DEF LookupInv, Ruled, Position, Total, Key, Separator, Cut, IsLeaf
<1>5. LookupCorrect'
  BY DEF LookupInv, LookupCorrect, IsLowerBound, Position, Total, Key
<1>. QED
  BY <1>1, <1>2, <1>3, <1>4, <1>5 DEF LookupInv

-----------------------------------------------------------------------------
(***************************************************************************)
(* With the node size that buildIndex() picks, the children of the root    *)
(* are leaves, for every index up to 8192 * 8193 words: findNodes() takes  *)
(* the height of the tree to be two (btreeidx.cc:1338).                    *)
(***************************************************************************)
THEOREM TwoLevels ==
    ASSUME NEW n \in Nat, NEW r \in Nat,
           r * r <= n, n < (r + 1) * (r + 1),
           MaxElements = indexNodeSize(r),
           n <= BtreeMaxElements * (BtreeMaxElements + 1),
           NEW x \in 0 .. MaxElements
    PROVE  IsLeaf(Cut(n, x + 1) - Cut(n, x))
<1>. DEFINE m == MaxElements
            d == m + 1
            p == (n * x) \div d
            q == (n * (x + 1)) \div d
<1>1. m \in Nat \ {0} /\ x \in Nat /\ d \in Nat \ {0}
  BY MaxElementsAssumption
<1>2. n <= m * d
  <2>1. CASE r + 1 > 8192
    BY <2>1, SMT DEF indexNodeSize, BtreeMinElements, BtreeMaxElements
  <2>2. CASE r + 1 <= 8192
    <3>1. r + 1 <= m
      BY <2>2, SMT DEF indexNodeSize, BtreeMinElements, BtreeMaxElements
    <3>2. (r + 1) * (r + 1) <= m * m
      BY <3>1, <1>1, SMT
    <3>3. m * m <= m * d
      BY <1>1, SMT
    <3>. HIDE DEF m
    <3>. QED BY <3>2, <3>3, <1>1, SMT
  <2>. QED BY <2>1, <2>2
<1>3. n * x \in Nat /\ n * (x + 1) \in Nat /\ n * (x + 1) = n * x + n
  BY <1>1, SMT
<1>4. /\ p \in Nat /\ d * p <= n * x /\ n * x < d * p + d
      /\ q \in Nat /\ d * q <= n * (x + 1)
  BY <1>1, <1>3, Division
<1>5. d * q < d * (p + m + 1)
  <2>1. d * q < d * p + d + m * d
    BY <1>1, <1>2, <1>3, <1>4, SMT
  <2>2. d * p + d + m * d = d * (p + m + 1)
    BY <1>1, <1>4, SMT
  <2>. QED BY <2>1, <2>2
<1>6. q < p + m + 1
  <2>1. ASSUME q >= p + m + 1 PROVE FALSE
    <3>1. d * q >= d * (p + m + 1)
      BY <2>1, <1>1, <1>4, SMT
    <3>. QED BY <3>1, <1>5, <1>1, <1>4, SMT
  <2>. QED BY <2>1, <1>1, <1>4, SMT
<1>. QED
  BY <1>1, <1>4, <1>6, SMT DEF IsLeaf, Cut

-----------------------------------------------------------------------------
(***************************************************************************)
(* Beginnings of words.                                                    *)
(***************************************************************************)
LEMMA SetInduction ==
    ASSUME NEW S, 0 \in S, \A n \in Nat : n \in S => n + 1 \in S
    PROVE  Nat \subseteq S
<1>. DEFINE T == Nat \ S
<1>. SUFFICES ASSUME T # {} PROVE FALSE
  OBVIOUS
<1>1. T \subseteq Nat
  OBVIOUS
<1>2. IsWellFoundedOn(OpToRel(<, Nat), Nat)
  BY Zenon, NatLessThanWellFounded
<1>. HIDE DEF T
<1>3. PICK x \in T : \A y \in T : ~(<<y, x>> \in OpToRel(<, Nat))
  BY <1>1, <1>2, WFMin
<1>4. x \in Nat /\ x # 0
  BY <1>1 DEF T
<1>5. x - 1 \in Nat /\ x - 1 < x /\ (x - 1) + 1 = x
  BY <1>4
<1>6. x - 1 \notin T
  BY <1>3, <1>4, <1>5 DEF OpToRel
<1>. QED BY <1>3, <1>4, <1>5, <1>6 DEF T

LEMMA PrefixIs ==
    ASSUME NEW s \in Seq(Letters), NEW t \in Seq(Letters)
    PROVE  IsPrefix(s, t) <=> Len(s) <= Len(t) /\ \A i \in 1 .. Len(s) : s[i] = t[i]
<1>1. Len(s) \in Nat /\ Len(t) \in Nat
  BY LenProperties
<1>2. SubSeq(s, 1, Len(s)) = s
  BY SubSeqFull
<1>3. ASSUME Len(s) <= Len(t)
      PROVE  /\ SubSeq(t, 1, Len(s)) \in Seq(Letters)
             /\ Len(SubSeq(t, 1, Len(s))) = Len(s)
             /\ \A i \in 1 .. Len(s) : SubSeq(t, 1, Len(s))[i] = t[i]
  <2>1. \A i \in 1 .. Len(s) : t[i] \in Letters
    BY <1>1, <1>3, ElementOfSeq
  <2>2. 1 \in Int /\ Len(s) \in Int
    BY <1>1
  <2>. QED BY <1>1, <2>1, <2>2, SubSeqProperties
<1>4. ASSUME Len(s) <= Len(t), \A i \in 1 .. Len(s) : s[i] = t[i]
      PROVE  s = SubSeq(t, 1, Len(s))
  BY <1>3, <1>4, SeqEqual
<1>. QED BY <1>1, <1>2, <1>3, <1>4 DEF IsPrefix

LEMMA Spelt ==
    ASSUME NEW r \in Targets
    PROVE  /\ r \in Nat /\ Folded[r] \in Seq(Letters) /\ Len(Folded[r]) \in Nat
           /\ \A i \in 1 .. Len(Folded[r]) : Folded[r][i] \in Nat
<1>1. r \in Nat /\ Folded[r] \in Seq(Letters) /\ Letters \subseteq Nat
  BY FoldedAssumption, TargetsAssumption
<1>. QED BY <1>1, LenProperties, ElementOfSeq

\* No word comes before its beginning.
LEMMA BeginningFirst ==
    ASSUME NEW p \in Targets, NEW r \in Targets, IsPrefix(Folded[p], Folded[r])
    PROVE  p <= r
<1>. DEFINE P == Folded[p]
            R == Folded[r]
<1>1. /\ P \in Seq(Letters) /\ R \in Seq(Letters)
      /\ Len(P) \in Nat /\ Len(R) \in Nat /\ p \in Nat /\ r \in Nat
      /\ \A i \in 1 .. Len(P) : P[i] \in Nat
  BY Spelt
<1>2. Len(P) <= Len(R) /\ \A i \in 1 .. Len(P) : P[i] = R[i]
  BY <1>1, PrefixIs
<1>. SUFFICES ASSUME r < p PROVE FALSE
  BY <1>1
<1>3. Before(R, P)
  BY FoldedAssumption
<1>. HIDE DEF P, R
<1>4. PICK n \in 0 .. Len(R) : /\ n < Len(P) /\ \A i \in 1 .. n : R[i] = P[i]
                               /\ n < Len(R) => R[n + 1] < P[n + 1]
  BY <1>3 DEF Before
<1>5. n < Len(R) /\ n + 1 \in 1 .. Len(P)
  BY <1>1, <1>2, <1>4
<1>6. R[n + 1] = P[n + 1] /\ P[n + 1] \in Nat
  BY <1>1, <1>2, <1>5
<1>. QED BY <1>4, <1>5, <1>6

\* The words with one beginning stand together.
LEMMA BeginningTogether ==
    ASSUME NEW p \in Targets, NEW r \in Targets, NEW s \in Targets,
           p <= r, r <= s, IsPrefix(Folded[p], Folded[s])
    PROVE  IsPrefix(Folded[p], Folded[r])
<1>. DEFINE P == Folded[p]
            R == Folded[r]
            T == Folded[s]
<1>1. /\ P \in Seq(Letters) /\ R \in Seq(Letters) /\ T \in Seq(Letters)
      /\ Len(P) \in Nat /\ Len(R) \in Nat /\ Len(T) \in Nat /\ p \in Nat /\ r \in Nat /\ s \in Nat
      /\ \A i \in 1 .. Len(P) : P[i] \in Nat
      /\ \A i \in 1 .. Len(R) : R[i] \in Nat
  BY Spelt
<1>2. Len(P) <= Len(T) /\ \A i \in 1 .. Len(P) : P[i] = T[i]
  BY <1>1, PrefixIs
<1>3. CASE p = r
  BY <1>1, <1>3, PrefixIs
<1>4. CASE r = s
  BY <1>4
<1>5. CASE p < r /\ r < s
  <2>1. Before(P, R) /\ Before(R, T)
    BY <1>5, FoldedAssumption
  <2>2. IsPrefix(P, R) <=> Len(P) <= Len(R) /\ \A i \in 1 .. Len(P) : P[i] = R[i]
    BY <1>1, PrefixIs
  <2>. HIDE DEF P, R, T
  <2>3. PICK n \in 0 .. Len(P) : /\ n < Len(R) /\ \A i \in 1 .. n : P[i] = R[i]
                                 /\ n < Len(P) => P[n + 1] < R[n + 1]
    BY <2>1 DEF Before
  <2>4. PICK m \in 0 .. Len(R) : /\ m < Len(T) /\ \A i \in 1 .. m : R[i] = T[i]
                                 /\ m < Len(R) => R[m + 1] < T[m + 1]
    BY <2>1 DEF Before
  <2>5. CASE n = Len(P)
    BY <1>1, <2>2, <2>3, <2>5 DEF P, R
  <2>6. CASE n < Len(P) /\ m < n
    <3>1. m + 1 \in 1 .. n /\ m < Len(R) /\ m + 1 \in 1 .. Len(P)
      BY <1>1, <2>3, <2>4, <2>6
    <3>2. P[m + 1] = R[m + 1] /\ P[m + 1] = T[m + 1] /\ P[m + 1] \in Nat
      BY <1>1, <1>2, <2>3, <3>1
    <3>. QED BY <2>4, <3>1, <3>2
  <2>7. CASE n < Len(P) /\ m = n
    <3>1. m < Len(R) /\ n + 1 \in 1 .. Len(P) /\ n + 1 \in 1 .. Len(R)
      BY <1>1, <2>3, <2>7
    <3>2. P[n + 1] = T[n + 1] /\ P[n + 1] \in Nat /\ R[n + 1] \in Nat
      BY <1>1, <1>2, <3>1
    <3>3. P[n + 1] < R[n + 1] /\ R[n + 1] < T[n + 1]
      BY <2>3, <2>4, <2>7, <3>1
    <3>. QED BY <3>2, <3>3
  <2>8. CASE n < Len(P) /\ n < m
    <3>1. n + 1 \in 1 .. m /\ n + 1 \in 1 .. Len(P)
      BY <1>1, <2>3, <2>4, <2>8
    <3>2. P[n + 1] = T[n + 1] /\ R[n + 1] = T[n + 1] /\ P[n + 1] \in Nat
      BY <1>1, <1>2, <2>4, <3>1
    <3>3. P[n + 1] < R[n + 1]
      BY <2>3, <2>8
    <3>. QED BY <3>2, <3>3
  <2>. QED BY <1>1, <2>3, <2>4, <2>5, <2>6, <2>7, <2>8
<1>. QED BY <1>1, <1>3, <1>4, <1>5

-----------------------------------------------------------------------------
(***************************************************************************)
(* The inductive invariant of a search, of which Depth letters are chopped *)
(* so far.                                                                 *)
(***************************************************************************)
Depth == ToChop - charsLeftToChop

Listed(ms) == {ms[i] : i \in DOMAIN ms}
Distinct(ms) == \A i, j \in DOMAIN ms : ms[i] = ms[j] => i = j

SearchTypes ==
    /\ str \in Targets
    /\ search \in Searches
    /\ place \in {"start", "lookup", "walk", "chop", "done", "failed"}
    /\ ~search.articles => matches \in Seq(Nat) /\ Distinct(matches)

\* The stem that is looked up or walked.
Stage ==
    /\ place = "start" => target = str /\ matches = <<>> /\ ~returned
    /\ place # "start" => charsLeftToChop \in 0 .. ToChop /\ Folded[target] = Stem(Depth)
    /\ search.articles => ~isCancelled /\ place \in {"start", "lookup", "done", "failed"}
    /\ search.articles /\ place = "lookup" => target = str
    /\ place = "walk" => returned /\ chain # None /\ at \in Position /\ chain <= at

\* Read: all with n letters chopped, or else as many as may be but certainly the
\* first chain.
Complete(n) == Words(n) \subseteq Listed(matches) \/ Len(matches) >= search.maxResults

FirstRead(n) ==
    \A i \in Position :
        /\ Begins(Stem(n), Key(i))
        /\ \A j \in Position : j < i => ~Begins(Stem(n), Key(j))
        => Taken(Key(i)) \subseteq Listed(matches)

\* The chains between where the walk began and where it is.
Walked ==
    /\ \A i \in Position : chain <= i /\ i < at =>
           Begins(folded, Key(i)) /\ Taken(Key(i)) \subseteq Listed(matches)
    /\ chain < at => Len(matches) < search.maxResults

Reads ==
    ~search.articles =>
        /\ place # "start" => Listed(matches) \subseteq Words(Depth)
        /\ place \in {"lookup", "walk"} /\ Depth > 0 => Complete(Depth - 1) /\ FirstRead(Depth - 1)
        /\ place = "walk" => Walked
        /\ place = "chop" /\ ~isCancelled => Complete(Depth) /\ FirstRead(Depth)
        /\ place = "done" /\ ~isCancelled => Complete(ToChop)

\* What was found shares with the word asked what is left of it, or more.
Ordered ==
    ~search.articles /\ ~search.allowMiddleMatches =>
        /\ place # "start" =>
               \A i \in DOMAIN matches :
                   Shared(matches[i]) \in initialFoldedSize - Depth .. initialFoldedSize
        /\ NearestFirst

SearchInv == LookupInv /\ SearchTypes /\ Stage /\ Reads /\ Ordered /\ ArticlesExact

-----------------------------------------------------------------------------
(***************************************************************************)
(* The stems, and the words that begin with them.                          *)
(***************************************************************************)
LEMMA StemIs ==
    ASSUME str \in Targets, NEW n \in 0 .. initialFoldedSize
    PROVE  /\ initialFoldedSize \in Nat
           /\ Stem(n) \in Seq(Letters)
           /\ Len(Stem(n)) = initialFoldedSize - n
           /\ \A i \in 1 .. initialFoldedSize - n : Stem(n)[i] = Folded[str][i]
<1>. DEFINE s == Folded[str]
            m == initialFoldedSize - n
<1>1. s \in Seq(Letters) /\ initialFoldedSize = Len(s) /\ Len(s) \in Nat
  BY Spelt DEF initialFoldedSize
<1>2. m \in 0 .. Len(s) /\ n \in Nat
  BY <1>1
<1>3. \A i \in 1 .. Len(s) : s[i] \in Letters
  BY <1>1, ElementOfSeq
<1>4. Stem(n) = SubSeq(s, 1, m)
  BY DEF Stem
<1>. HIDE DEF s, m
<1>5. m \in Int /\ 1 \in Int /\ \A i \in 1 .. m : i \in 1 .. Len(s)
  BY <1>1, <1>2
<1>6. /\ SubSeq(s, 1, m) \in Seq(Letters)
      /\ Len(SubSeq(s, 1, m)) = IF 1 <= m THEN m - 1 + 1 ELSE 0
      /\ \A i \in 1 .. m - 1 + 1 : SubSeq(s, 1, m)[i] = s[1 + i - 1]
  BY <1>3, <1>5, SubSeqProperties
<1>7. Len(SubSeq(s, 1, m)) = m
  BY <1>1, <1>2, <1>6
<1>8. \A i \in 1 .. m : SubSeq(s, 1, m)[i] = s[i]
  <2>1. SUFFICES ASSUME NEW i \in 1 .. m PROVE SubSeq(s, 1, m)[i] = s[i]
    OBVIOUS
  <2>2. i \in 1 .. m - 1 + 1 /\ 1 + i - 1 = i
    BY <1>1, <1>2
  <2>. QED BY <1>6, <2>2
<1>. QED BY <1>1, <1>4, <1>6, <1>7, <1>8 DEF s, m

LEMMA WholeStem == ASSUME str \in Targets PROVE Stem(0) = Folded[str]
<1>1. Folded[str] \in Seq(Letters) /\ Len(Folded[str]) \in Nat
  BY Spelt
<1>2. Len(Folded[str]) - 0 = Len(Folded[str])
  BY <1>1
<1>. QED BY <1>1, <1>2, SubSeqFull DEF Stem, initialFoldedSize

\* Chop: the word without its last letter is a word.
LEMMA ChoppedStem ==
    ASSUME str \in Targets, NEW n \in Nat, n + 1 <= initialFoldedSize,
           NEW t \in Targets, Folded[t] = Stem(n)
    PROVE  LET p == CHOOSE r \in Targets : Folded[r] = Front(Folded[t])
           IN  p \in Targets /\ Folded[p] = Stem(n + 1)
<1>. DEFINE s == Folded[t]
<1>1. /\ initialFoldedSize \in Nat
      /\ n \in 0 .. initialFoldedSize /\ n + 1 \in 0 .. initialFoldedSize
  <2>1. initialFoldedSize \in Nat
    BY Spelt DEF initialFoldedSize
  <2>. QED BY <2>1
<1>2. /\ s \in Seq(Letters) /\ Len(s) = initialFoldedSize - n
      /\ \A i \in 1 .. initialFoldedSize - n : s[i] = Folded[str][i]
      /\ Stem(n + 1) \in Seq(Letters) /\ Len(Stem(n + 1)) = initialFoldedSize - (n + 1)
      /\ \A i \in 1 .. initialFoldedSize - (n + 1) : Stem(n + 1)[i] = Folded[str][i]
  BY <1>1, StemIs
<1>3. Len(s) \in Nat \ {0} /\ Len(Stem(n + 1)) = Len(s) - 1 /\ Len(s) - 1 \in Nat
  BY <1>1, <1>2
<1>4. t # 0
  <2>1. Len(Folded[0]) = 0
    BY FoldedAssumption, EmptySeq
  <2>. QED BY <1>3, <2>1
<1>5. PICK p \in Targets : Folded[p] = Front(Folded[t])
  BY <1>4, FoldedAssumption
<1>6. Front(s) = Stem(n + 1)
  <2>1. \A i \in 1 .. Len(s) - 1 : s[i] \in Letters
    BY <1>2, <1>3, ElementOfSeq
  <2>. DEFINE m == Len(s) - 1
  <2>2. m \in Int /\ 1 \in Int
    BY <1>3
  <2>3. /\ SubSeq(s, 1, m) \in Seq(Letters)
        /\ Len(SubSeq(s, 1, m)) = IF 1 <= m THEN m - 1 + 1 ELSE 0
        /\ \A i \in 1 .. m - 1 + 1 : SubSeq(s, 1, m)[i] = s[1 + i - 1]
    <3>1. \A i \in 1 .. m : s[i] \in Letters
      BY <2>1
    <3>. HIDE DEF m
    <3>. QED BY <2>2, <3>1, SubSeqProperties
  <2>4. Len(SubSeq(s, 1, m)) = Len(Stem(n + 1))
    BY <1>3, <2>3
  <2>5. \A i \in 1 .. m : SubSeq(s, 1, m)[i] = Stem(n + 1)[i]
    <3>1. SUFFICES ASSUME NEW i \in 1 .. m PROVE SubSeq(s, 1, m)[i] = Stem(n + 1)[i]
      OBVIOUS
    <3>2. /\ i \in 1 .. m - 1 + 1 /\ 1 + i - 1 = i
          /\ i \in 1 .. initialFoldedSize - n /\ i \in 1 .. initialFoldedSize - (n + 1)
      BY <1>1, <1>2, <1>3
    <3>3. SubSeq(s, 1, m)[i] = s[i]
      BY <2>3, <3>2
    <3>. QED BY <1>2, <3>2, <3>3
  <2>6. m = Len(Stem(n + 1))
    BY <1>3
  <2>7. SubSeq(s, 1, m) = Stem(n + 1)
    <3>. HIDE DEF m, s
    <3>. QED BY <1>2, <2>3, <2>4, <2>5, <2>6, SeqEqual
  <2>. QED BY <2>7 DEF Front
<1>. QED BY <1>5, <1>6

LEMMA ToChopBound ==
    ASSUME str \in Targets, search \in Searches
    PROVE  ToChop \in 0 .. initialFoldedSize /\ initialFoldedSize \in Nat
<1>1. search.minLength \in Nat /\ search.maxSuffixVariation \in Int
  BY SearchesAssumption
<1>2. initialFoldedSize \in Nat
  BY Spelt DEF initialFoldedSize
<1>. QED BY <1>1, <1>2 DEF ToChop

\* A word that begins with a stem begins with every shorter one.
LEMMA ShorterStem ==
    ASSUME str \in Targets, NEW m \in 0 .. initialFoldedSize, NEW n \in 0 .. initialFoldedSize,
           m <= n, NEW k \in Targets, Begins(Stem(m), k)
    PROVE  Begins(Stem(n), k)
<1>1. /\ Stem(m) \in Seq(Letters) /\ Len(Stem(m)) = initialFoldedSize - m
      /\ \A i \in 1 .. initialFoldedSize - m : Stem(m)[i] = Folded[str][i]
      /\ Stem(n) \in Seq(Letters) /\ Len(Stem(n)) = initialFoldedSize - n
      /\ \A i \in 1 .. initialFoldedSize - n : Stem(n)[i] = Folded[str][i]
      /\ initialFoldedSize \in Nat /\ m \in Nat /\ n \in Nat
  BY StemIs
<1>2. Folded[k] \in Seq(Letters) /\ Len(Folded[k]) \in Nat
  BY Spelt
<1>3. /\ Len(Stem(m)) <= Len(Folded[k])
      /\ \A i \in 1 .. Len(Stem(m)) : Stem(m)[i] = Folded[k][i]
  BY <1>1, <1>2, PrefixIs DEF Begins
<1>4. Len(Stem(n)) <= Len(Folded[k])
  BY <1>1, <1>2, <1>3
<1>5. \A i \in 1 .. Len(Stem(n)) : Stem(n)[i] = Folded[k][i]
  <2>1. SUFFICES ASSUME NEW i \in 1 .. Len(Stem(n)) PROVE Stem(n)[i] = Folded[k][i]
    OBVIOUS
  <2>2. /\ i \in 1 .. initialFoldedSize - n /\ i \in 1 .. initialFoldedSize - m
        /\ i \in 1 .. Len(Stem(m))
    BY <1>1
  <2>. QED BY <1>1, <1>3, <2>2
<1>. QED BY <1>1, <1>2, <1>4, <1>5, PrefixIs DEF Begins

LEMMA KeysAre ==
    ASSUME LookupInv
    PROVE  /\ \A i \in Position : Key(i) \in Targets \ {0} /\ Key(i) \in Keys
           /\ \A k \in Keys : \E i \in Position : k = Key(i)
<1>1. Total \in Nat /\ DOMAIN keys = 1 .. Total
  BY DEF LookupInv, Sorted, Total
<1>2. \A i \in DOMAIN keys : keys[i] \in Targets \ {0}
  BY FoldedAssumption DEF LookupInv, TypeOK, Sorted
<1>3. \A i \in Position : i + 1 \in DOMAIN keys
  BY <1>1 DEF Position
<1>4. \A i \in DOMAIN keys : i - 1 \in Position /\ (i - 1) + 1 = i
  BY <1>1 DEF Position
<1>. QED BY <1>2, <1>3, <1>4 DEF Key, Keys

(***************************************************************************)
(* The words that begin with the one looked up stand together from the     *)
(* chain that the lookup returned on.                                      *)
(***************************************************************************)
LEMMA FromLowerBound ==
    ASSUME LookupInv, NEW t \in Targets, NEW c \in Position \cup {None}, IsLowerBound(c, t)
    PROVE  /\ \A i \in Position : c = None \/ i < c => ~Begins(Folded[t], Key(i))
           /\ c # None => \A i, j \in Position :
                 c <= i /\ i <= j /\ Begins(Folded[t], Key(j)) => Begins(Folded[t], Key(i))
<1>1. /\ \A i \in Position : Key(i) \in Targets /\ Key(i) \in Nat
      /\ \A i, j \in Position : i <= j => Key(i) <= Key(j)
      /\ t \in Nat
  <2>1. \A i \in Position : Key(i) \in Targets
    BY KeysAre
  <2>2. Sorted
    BY DEF LookupInv
  <2>. QED BY <2>1, <2>2, KeyOrder, TargetsAssumption
<1>2. ASSUME NEW i \in Position, c = None \/ i < c, Begins(Folded[t], Key(i)) PROVE FALSE
  <2>1. t <= Key(i)
    BY <1>1, <1>2, BeginningFirst DEF Begins
  <2>2. Key(i) < t
    BY <1>2 DEF IsLowerBound
  <2>. QED BY <1>1, <2>1, <2>2
<1>3. ASSUME c # None, NEW i \in Position, NEW j \in Position,
             c <= i, i <= j, Begins(Folded[t], Key(j))
      PROVE  Begins(Folded[t], Key(i))
  <2>1. c \in Position /\ t <= Key(c)
    BY <1>3 DEF IsLowerBound
  <2>2. Key(c) <= Key(i) /\ Key(i) <= Key(j) /\ Key(c) \in Nat /\ Key(i) \in Nat
    BY <1>1, <1>3, <2>1
  <2>3. t <= Key(i)
    BY <1>1, <2>1, <2>2
  <2>. QED BY <1>1, <1>3, <2>2, <2>3, BeginningTogether DEF Begins
<1>. QED BY <1>2, <1>3

-----------------------------------------------------------------------------
(***************************************************************************)
(* Reading a chain.                                                        *)
(***************************************************************************)
\* r is ms with the words ws added.
Grew(ms, r, ws) ==
    /\ r \in Seq(Nat)
    /\ Distinct(r)
    /\ Len(ms) <= Len(r)
    /\ \A i \in 1 .. Len(ms) : r[i] = ms[i]
    /\ Listed(r) = Listed(ms) \cup ws

IsChain(es) == es \in Seq([word : Nat, middle : BOOLEAN, alias : BOOLEAN])

\* The words taken from the first n entries.
TakenTo(k, n) == {Chains[k][i].word : i \in {j \in 1 .. n : Takes(k, Chains[k][j])}}

Step(r, k, n) == IF Takes(k, Chains[k][n]) THEN addMatch(r, Chains[k][n].word) ELSE r

LEMMA AddMatchGrows ==
    ASSUME NEW ms, Len(ms) \in Nat, NEW r, NEW ws, Grew(ms, r, ws), NEW w \in Nat
    PROVE  Grew(ms, addMatch(r, w), ws \cup {w})
<1>1. r \in Seq(Nat) /\ Len(r) \in Nat /\ DOMAIN r = 1 .. Len(r) /\ Len(ms) <= Len(r)
      /\ Distinct(r) /\ Listed(r) = Listed(ms) \cup ws
      /\ \A i \in 1 .. Len(ms) : r[i] = ms[i]
  BY LenProperties DEF Grew
<1>2. CASE \E i \in DOMAIN r : r[i] = w
  <2>1. w \in Listed(r)
    BY <1>2 DEF Listed
  <2>2. Listed(r) = Listed(ms) \cup (ws \cup {w})
    BY <1>1, <2>1
  <2>3. addMatch(r, w) = r
    BY <1>2 DEF addMatch
  <2>. QED BY <1>1, <2>2, <2>3 DEF Grew
<1>3. CASE ~\E i \in DOMAIN r : r[i] = w
  <2>. DEFINE q == Append(r, w)
  <2>1. /\ q \in Seq(Nat) /\ Len(q) = Len(r) + 1
        /\ \A i \in 1 .. Len(r) : q[i] = r[i]
        /\ q[Len(r) + 1] = w
    BY <1>1, AppendProperties
  <2>2. addMatch(r, w) = q
    BY <1>3 DEF addMatch
  <2>3. DOMAIN q = 1 .. Len(r) + 1
    BY <2>1, LenProperties
  <2>. HIDE DEF q
  <2>4. \A i \in 1 .. Len(r) + 1 : i \in 1 .. Len(r) \/ i = Len(r) + 1
    BY <1>1
  <2>5. Distinct(q)
    <3>1. SUFFICES ASSUME NEW i \in DOMAIN q, NEW j \in DOMAIN q, q[i] = q[j] PROVE i = j
      BY DEF Distinct
    <3>. QED BY <3>1, <1>1, <1>3, <2>1, <2>3, <2>4 DEF Distinct
  <2>6. Listed(q) = Listed(r) \cup {w}
    <3>1. \A i \in 1 .. Len(r) : i \in 1 .. Len(r) + 1
      BY <1>1
    <3>2. Len(r) + 1 \in 1 .. Len(r) + 1
      BY <1>1
    <3>. QED BY <1>1, <2>1, <2>3, <2>4, <3>1, <3>2 DEF Listed
  <2>7. Len(ms) <= Len(q) /\ \A i \in 1 .. Len(ms) : q[i] = ms[i]
    <3>1. Len(ms) <= Len(q)
      BY <1>1, <2>1
    <3>2. \A i \in 1 .. Len(ms) : i \in 1 .. Len(r)
      BY <1>1
    <3>. QED BY <1>1, <2>1, <3>1, <3>2
  <2>8. Listed(q) = Listed(ms) \cup (ws \cup {w})
    BY <1>1, <2>6
  <2>. QED BY <2>1, <2>2, <2>5, <2>7, <2>8 DEF Grew
<1>. QED BY <1>2, <1>3

LEMMA StepGrows ==
    ASSUME NEW ms, Len(ms) \in Nat, NEW k, IsChain(Chains[k]),
           NEW n \in Nat, n + 1 <= Len(Chains[k]),
           NEW r, Grew(ms, r, TakenTo(k, n))
    PROVE  Grew(ms, Step(r, k, n + 1), TakenTo(k, n + 1))
<1>. DEFINE e == Chains[k][n + 1]
<1>1. n + 1 \in 1 .. Len(Chains[k])
  <2>1. Len(Chains[k]) \in Nat
    BY LenProperties DEF IsChain
  <2>. QED BY <2>1
<1>2. e \in [word : Nat, middle : BOOLEAN, alias : BOOLEAN]
  BY <1>1, ElementOfSeq DEF IsChain
<1>3. e.word \in Nat
  BY <1>2
<1>4. \A i : i \in 1 .. n + 1 <=> i \in 1 .. n \/ i = n + 1
  OBVIOUS
<1>5. CASE Takes(k, e)
  <2>1. TakenTo(k, n + 1) = TakenTo(k, n) \cup {e.word}
    BY <1>4, <1>5 DEF TakenTo
  <2>2. Step(r, k, n + 1) = addMatch(r, e.word)
    BY <1>5 DEF Step
  <2>. HIDE DEF e
  <2>3. Grew(ms, addMatch(r, e.word), TakenTo(k, n) \cup {e.word})
    BY <1>3, AddMatchGrows
  <2>. QED BY <2>1, <2>2, <2>3
<1>6. CASE ~Takes(k, e)
  <2>1. TakenTo(k, n + 1) = TakenTo(k, n)
    BY <1>4, <1>6 DEF TakenTo
  <2>2. Step(r, k, n + 1) = r
    BY <1>6 DEF Step
  <2>. QED BY <2>1, <2>2
<1>. QED BY <1>5, <1>6

\* The chain of key k added entry by entry.
IsAdded(f, ms, k, n) ==
    /\ DOMAIN f = 0 .. n
    /\ f[0] = ms
    /\ \A m \in 0 .. n : m > 0 => f[m] = Step(f[m - 1], k, m)

LEMMA AddedExists ==
    ASSUME NEW ms, NEW k, NEW n \in Nat
    PROVE  \E f : IsAdded(f, ms, k, n)
<1>. DEFINE S == {m \in Nat : \E f : IsAdded(f, ms, k, m)}
<1>1. 0 \in S
  <2>. DEFINE f == [m \in 0 .. 0 |-> ms]
  <2>1. IsAdded(f, ms, k, 0)
    BY DEF IsAdded
  <2>. QED BY <2>1
<1>2. ASSUME NEW m \in Nat, m \in S PROVE m + 1 \in S
  <2>1. PICK f : IsAdded(f, ms, k, m)
    BY <1>2
  <2>. DEFINE g == [j \in 0 .. m + 1 |-> IF j = m + 1 THEN Step(f[m], k, m + 1) ELSE f[j]]
  <2>2. /\ g[0] = f[0]
        /\ DOMAIN g = 0 .. m + 1
        /\ g[m + 1] = Step(f[m], k, m + 1)
        /\ g[m] = f[m]
    OBVIOUS
  <2>3. ASSUME NEW j \in 0 .. m + 1, j > 0, j # m + 1 PROVE g[j] = Step(g[j - 1], k, j)
    <3>1. j \in 0 .. m /\ j - 1 \in 0 .. m + 1 /\ j - 1 # m + 1
      BY <2>3
    <3>2. g[j] = f[j] /\ g[j - 1] = f[j - 1]
      BY <2>3, <3>1
    <3>. QED BY <2>1, <2>3, <3>1, <3>2, Zenon DEF IsAdded
  <2>4. (m + 1) - 1 = m
    OBVIOUS
  <2>. HIDE DEF g
  <2>5. f[0] = ms
    BY <2>1 DEF IsAdded
  <2>6. \A j \in 0 .. m + 1 : j > 0 => g[j] = Step(g[j - 1], k, j)
    BY <2>2, <2>3, <2>4
  <2>7. IsAdded(g, ms, k, m + 1)
    BY <2>2, <2>5, <2>6, Zenon DEF IsAdded
  <2>. QED BY <2>7
<1>. HIDE DEF S
<1>3. n \in S
  BY <1>1, <1>2, SetInduction
<1>. QED BY <1>3 DEF S

\* The entries read add the words of theirs that are taken, at the end and each once.
LEMMA AddEntriesGrows ==
    ASSUME NEW ms \in Seq(Nat), Distinct(ms), NEW k, IsChain(Chains[k]),
           NEW L \in Nat, L <= Len(Chains[k])
    PROVE  Grew(ms, AddEntries(ms, k, L), TakenTo(k, L))
<1>1. Len(Chains[k]) \in Nat /\ Len(ms) \in Nat
  BY LenProperties DEF IsChain
<1>. DEFINE body(g) == [n \in 0 .. L |-> IF n = 0 THEN ms ELSE Step(g[n - 1], k, n)]
<1>2. \E a : a = (CHOOSE g : g = body(g)) /\ AddEntries(ms, k, L) = a[L]
  BY Zenon DEF AddEntries, Step
<1>3. PICK a : a = (CHOOSE g : g = body(g)) /\ AddEntries(ms, k, L) = a[L]
  BY <1>2
<1>4. \E g : g = body(g)
  <2>1. PICK f : IsAdded(f, ms, k, L)
    BY <1>1, AddedExists
  <2>. DEFINE h == [m \in 0 .. L |-> f[m]]
  <2>2. \A m \in 0 .. L : f[m] = IF m = 0 THEN ms ELSE Step(f[m - 1], k, m)
    <3>1. SUFFICES ASSUME NEW m \in 0 .. L PROVE f[m] = IF m = 0 THEN ms ELSE Step(f[m - 1], k, m)
      OBVIOUS
    <3>2. m = 0 \/ m > 0
      BY <1>1
    <3>. QED BY <2>1, <3>2, Zenon DEF IsAdded
  <2>3. \A m \in 0 .. L : m # 0 => m - 1 \in 0 .. L
    BY <1>1
  <2>4. \A m \in 0 .. L : h[m] = f[m]
    OBVIOUS
  <2>. HIDE DEF h
  <2>5. \A m \in 0 .. L : h[m] = IF m = 0 THEN ms ELSE Step(h[m - 1], k, m)
    BY <2>2, <2>3, <2>4
  <2>6. h = [m \in 0 .. L |-> h[m]]
    BY DEF h
  <2>7. h = body(h)
    BY <2>5, <2>6
  <2>. QED BY <2>7
<1>5. a = body(a)
  BY <1>3, <1>4, Zenon
<1>6. /\ a[0] = ms
      /\ \A m \in 0 .. L : m # 0 => a[m] = Step(a[m - 1], k, m)
  BY <1>1, <1>5
<1>. DEFINE S == {m \in Nat : m <= L => Grew(ms, a[m], TakenTo(k, m))}
<1>7. 0 \in S
  <2>1. TakenTo(k, 0) = {}
    BY DEF TakenTo
  <2>2. Grew(ms, ms, {})
    BY <1>1 DEF Grew
  <2>. QED BY <1>6, <2>1, <2>2
<1>8. ASSUME NEW m \in Nat, m \in S PROVE m + 1 \in S
  <2>. SUFFICES ASSUME m + 1 <= L PROVE Grew(ms, a[m + 1], TakenTo(k, m + 1))
    OBVIOUS
  <2>1. m + 1 \in 0 .. L /\ m + 1 # 0 /\ (m + 1) - 1 = m /\ m <= L
    BY <1>1
  <2>2. a[m + 1] = Step(a[m], k, m + 1)
    BY <1>6, <2>1
  <2>3. Grew(ms, a[m], TakenTo(k, m))
    BY <1>8, <2>1
  <2>4. m + 1 <= Len(Chains[k])
    BY <1>1
  <2>5. Grew(ms, Step(a[m], k, m + 1), TakenTo(k, m + 1))
    BY <1>1, <2>3, <2>4, StepGrows
  <2>. QED BY <2>2, <2>5
<1>. HIDE DEF S
<1>9. L \in S
  BY <1>1, <1>7, <1>8, SetInduction
<1>10. Grew(ms, a[L], TakenTo(k, L))
  BY <1>1, <1>9 DEF S
<1>. QED BY <1>3, <1>10

LEMMA AddChainGrows ==
    ASSUME NEW ms \in Seq(Nat), Distinct(ms), NEW k, IsChain(Chains[k])
    PROVE  Grew(ms, AddChain(ms, k), Taken(k))
<1>. DEFINE L == Len(Chains[k])
<1>1. L \in Nat /\ L <= Len(Chains[k]) /\ DOMAIN Chains[k] = 1 .. L
  BY LenProperties DEF IsChain
<1>2. TakenTo(k, L) = Taken(k)
  BY <1>1 DEF TakenTo, Taken
<1>3. Grew(ms, AddEntries(ms, k, L), TakenTo(k, L))
  <2>. HIDE DEF L
  <2>. QED BY <1>1, AddEntriesGrows
<1>. QED BY <1>2, <1>3 DEF AddChain

-----------------------------------------------------------------------------
(***************************************************************************)
(* What a step leaves alone.                                               *)
(***************************************************************************)
Still == UNCHANGED <<keys, str, search>>

LEMMA NextKept == Next => UNCHANGED <<keys, target>>
<1>. USE DEF Descend, Narrow, Return
<1>1. LeftmostChild \/ LeftmostChain \/ EmptyLeaf => UNCHANGED <<keys, target>>
  BY DEF LeftmostChild, LeftmostChain, EmptyLeaf
<1>2. SearchNode => UNCHANGED <<keys, target>>
  BY DEF SearchNode, ProbeNode
<1>3. SearchLeaf => UNCHANGED <<keys, target>>
  BY DEF SearchLeaf
<1>. QED BY <1>1, <1>2, <1>3 DEF Next

LEMMA NextInv == LookupInv /\ Next => LookupInv'
BY LeftmostChildInv, LeftmostChainInv, SearchNodeInv, EmptyLeafInv, SearchLeafInv DEF Next

LEMMA Unmoved ==
    ASSUME Still
    PROVE  /\ Position' = Position /\ Keys' = Keys
           /\ initialFoldedSize' = initialFoldedSize /\ ToChop' = ToChop
           /\ \A i : Key(i)' = Key(i)
           /\ \A n : Stem(n)' = Stem(n)
           /\ \A k : Taken(k)' = Taken(k)
           /\ \A n : Words(n)' = Words(n)
           /\ \A w : Shared(w)' = Shared(w)
<1>1. Position' = Position /\ Keys' = Keys /\ initialFoldedSize' = initialFoldedSize
  BY DEF Still, Position, Total, Keys, initialFoldedSize
<1>2. ToChop' = ToChop
  BY <1>1 DEF Still, ToChop
<1>3. \A i : Key(i)' = Key(i)
  BY DEF Still, Key
<1>4. \A n : Stem(n)' = Stem(n)
  BY DEF Still, Stem, initialFoldedSize
<1>5. \A k : Taken(k)' = Taken(k)
  BY DEF Still, Taken, Takes, initialFoldedSize
<1>6. \A n : Words(n)' = Words(n)
  BY DEF Still, Words, Keys, Begins, Stem, Taken, Takes, initialFoldedSize
<1>7. \A w : Shared(w)' = Shared(w)
  BY DEF Still, Shared, Keys, Begins, initialFoldedSize
<1>. QED BY <1>1, <1>2, <1>3, <1>4, <1>5, <1>6, <1>7

LEMMA SameMatches ==
    ASSUME Still, matches' = matches
    PROVE  /\ \A n : Complete(n)' = Complete(n)
           /\ \A n : FirstRead(n)' = FirstRead(n)
           /\ NearestFirst' = NearestFirst
<1>1. \A n : Complete(n)' = Complete(n)
  BY Unmoved DEF Complete, Listed, Still
<1>2. \A n : FirstRead(n)' = FirstRead(n)
  BY Unmoved DEF FirstRead, Listed, Begins
<1>3. NearestFirst' = NearestFirst
  BY Unmoved DEF NearestFirst, Still
<1>. QED BY <1>1, <1>2, <1>3

-----------------------------------------------------------------------------
(***************************************************************************)
(* Every action keeps the invariant.                                       *)
(***************************************************************************)
LEMMA StartInv == SearchInv /\ Start => SearchInv'
<1>. SUFFICES ASSUME SearchInv, Start PROVE SearchInv'
  OBVIOUS
<1>1. /\ place = "start" /\ place' = IF isCancelled THEN "done" ELSE "lookup"
      /\ charsLeftToChop' = ToChop
      /\ UNCHANGED <<vars, str, search, at, matches, isCancelled>>
  BY DEF Start
<1>2. Still /\ target' = target
  BY <1>1 DEF vars, Still
<1>3. LookupInv /\ SearchTypes /\ Stage /\ Reads /\ Ordered /\ ArticlesExact
  BY DEF SearchInv
<1>4. ToChop \in 0 .. initialFoldedSize /\ initialFoldedSize \in Nat
  BY <1>3, ToChopBound DEF SearchTypes
<1>5. Depth' = 0
  BY <1>1, <1>2, <1>4, Unmoved DEF Depth
<1>6. matches = <<>> /\ target = str
  BY <1>1, <1>3 DEF Stage
<1>7. LookupInv'
  BY <1>1, <1>3, LookupKept
<1>8. SearchTypes'
  BY <1>1, <1>3 DEF SearchTypes
<1>9. Stage'
  <2>1. charsLeftToChop' \in 0 .. ToChop'
    BY <1>1, <1>2, <1>4, Unmoved
  <2>2. Folded[target'] = Stem(Depth)'
    <3>1. Stem(0) = Folded[str]
      BY <1>3, WholeStem DEF SearchTypes
    <3>2. Stem(Depth)' = Stem(0)'
      BY <1>5 DEF Stem
    <3>. QED BY <1>2, <1>6, <3>1, <3>2, Unmoved
  <2>. QED BY <1>1, <1>2, <1>3, <1>6, <2>1, <2>2 DEF Stage
<1>10. Reads'
  <2>1. Listed(matches)' = {}
    BY <1>1, <1>6 DEF Listed
  <2>. QED BY <1>1, <1>5, <2>1 DEF Reads
<1>11. Ordered'
  <2>1. DOMAIN matches' = {}
    BY <1>1, <1>6
  <2>. QED BY <1>1, <2>1 DEF Ordered, NearestFirst
<1>12. ArticlesExact'
  BY <1>1, <1>3 DEF ArticlesExact, Stage
<1>. QED BY <1>7, <1>8, <1>9, <1>10, <1>11, <1>12 DEF SearchInv

LEMMA LookupStepInv == SearchInv /\ Lookup => SearchInv'
<1>. SUFFICES ASSUME SearchInv, Lookup PROVE SearchInv'
  OBVIOUS
<1>1. place = "lookup" /\ Next /\ UNCHANGED searchVars
  BY DEF Lookup
<1>2. Still /\ target' = target
  BY <1>1, NextKept DEF searchVars, Still
<1>3. LookupInv /\ SearchTypes /\ Stage /\ Reads /\ Ordered /\ ArticlesExact
  BY DEF SearchInv
<1>4. Depth' = Depth
  BY <1>1, <1>2, Unmoved DEF Depth, searchVars
<1>5. LookupInv'
  BY <1>1, <1>3, NextInv
<1>6. SearchTypes'
  BY <1>1, <1>3 DEF SearchTypes, searchVars
<1>. USE DEF searchVars
<1>7. Stage'
  <2>1. Stem(Depth)' = Stem(Depth)
    BY <1>2, <1>4 DEF Stem, Still, initialFoldedSize
  <2>. QED BY <1>1, <1>2, <1>3, <2>1, Unmoved DEF Stage
<1>8. Reads'
  <2>1. ASSUME ~search.articles PROVE Listed(matches)' \subseteq Words(Depth)'
    <3>1. Listed(matches) \subseteq Words(Depth)
      BY <1>1, <1>3, <2>1 DEF Reads
    <3>2. Words(Depth)' = Words(Depth)
      BY <1>2, <1>4 DEF Words, Still, Keys, Begins, Stem, Taken, Takes, initialFoldedSize
    <3>. QED BY <1>1, <3>1, <3>2 DEF Listed
  <2>2. ASSUME ~search.articles, Depth > 0 PROVE (Complete(Depth - 1) /\ FirstRead(Depth - 1))'
    <3>1. Complete(Depth - 1) /\ FirstRead(Depth - 1)
      BY <1>1, <1>3, <2>2 DEF Reads
    <3>2. Depth' - 1 = Depth - 1
      BY <1>4
    <3>. HIDE DEF searchVars
    <3>. DEFINE d == Depth - 1
    <3>3. Complete(d)' /\ FirstRead(d)'
      BY <1>1, <1>2, <1>4, <3>1, SameMatches DEF searchVars
    <3>. QED BY <3>3
  <2>. QED BY <1>1, <1>4, <2>1, <2>2 DEF Reads
<1>9. Ordered'
  BY <1>1, <1>2, <1>3, <1>4, Unmoved, SameMatches DEF Ordered
<1>10. ArticlesExact'
  BY <1>1 DEF ArticlesExact
<1>. QED BY <1>5, <1>6, <1>7, <1>8, <1>9, <1>10 DEF SearchInv

LEMMA SameDepth ==
    ASSUME Still, matches' = matches, charsLeftToChop' = charsLeftToChop
    PROVE  /\ Depth' = Depth
           /\ Stem(Depth)' = Stem(Depth)
           /\ (Listed(matches) \subseteq Words(Depth))' = (Listed(matches) \subseteq Words(Depth))
           /\ Complete(Depth - 1)' = Complete(Depth - 1)
           /\ FirstRead(Depth - 1)' = FirstRead(Depth - 1)
           /\ Complete(Depth)' = Complete(Depth)
           /\ FirstRead(Depth)' = FirstRead(Depth)
           /\ Complete(ToChop)' = Complete(ToChop)
<1>1. Depth' = Depth /\ ToChop' = ToChop
  BY Unmoved DEF Depth
<1>2. Stem(Depth)' = Stem(Depth)
  BY <1>1 DEF Stem, Still, initialFoldedSize
<1>3. (Listed(matches) \subseteq Words(Depth))' = (Listed(matches) \subseteq Words(Depth))
  BY <1>1 DEF Listed, Words, Still, Keys, Begins, Stem, Taken, Takes, initialFoldedSize
<1>4. \A n : Complete(n)' = Complete(n)
  BY SameMatches
<1>5. \A n : FirstRead(n)' = FirstRead(n)
  BY SameMatches
<1>6. /\ Complete(Depth - 1)' = Complete(Depth - 1)
      /\ Complete(Depth)' = Complete(Depth)
      /\ Complete(ToChop)' = Complete(ToChop)
  BY <1>1, Unmoved DEF Complete, Listed, Still
<1>7. /\ FirstRead(Depth - 1)' = FirstRead(Depth - 1)
      /\ FirstRead(Depth)' = FirstRead(Depth)
  BY <1>1, Unmoved DEF FirstRead, Listed, Begins
<1>. QED BY <1>1, <1>2, <1>3, <1>6, <1>7

LEMMA AllRead ==
    ASSUME LookupInv, NEW n, NEW L,
           \A i \in Position : Begins(Stem(n), Key(i)) => Taken(Key(i)) \subseteq L
    PROVE  Words(n) \subseteq L
BY KeysAre DEF Words

LEMMA FindArticlesInv == SearchInv /\ FindArticles => SearchInv'
<1>. SUFFICES ASSUME SearchInv, FindArticles PROVE SearchInv'
  OBVIOUS
<1>1. /\ place = "lookup" /\ returned /\ search.articles /\ place' = "done"
      /\ matches' = IF exactMatch THEN Articles(Key(chain)) ELSE <<>>
      /\ UNCHANGED <<vars, str, search, charsLeftToChop, at, isCancelled>>
  BY DEF FindArticles
<1>2. Still /\ target' = target /\ chain' = chain
  BY <1>1 DEF vars, Still
<1>3. LookupInv /\ SearchTypes /\ Stage /\ Reads /\ Ordered /\ ArticlesExact
  BY DEF SearchInv
<1>4. Depth' = Depth
  BY <1>1, <1>2, Unmoved DEF Depth
<1>5. LookupInv'
  BY <1>1, <1>3, LookupKept
<1>6. SearchTypes'
  BY <1>1, <1>3 DEF SearchTypes
<1>7. Stage'
  <2>1. Stem(Depth)' = Stem(Depth)
    BY <1>2, <1>4 DEF Stem, Still, initialFoldedSize
  <2>. QED BY <1>1, <1>2, <1>3, <2>1, Unmoved DEF Stage
<1>8. Reads' /\ Ordered'
  BY <1>1 DEF Reads, Ordered
<1>9. ArticlesExact'
  <2>1. target = str /\ target \in Nat
    BY <1>1, <1>3, TargetsAssumption DEF Stage, SearchTypes
  <2>2. /\ IsLowerBound(chain, target)
        /\ exactMatch = (chain # None /\ Key(chain) = target)
        /\ chain \in Position \cup {None} /\ Sorted
    BY <1>1, <1>3 DEF LookupInv, LookupCorrect, TypeOK
  <2>3. CASE exactMatch
    <3>1. chain \in Position /\ Key(chain) = str
      BY <2>1, <2>2, <2>3
    <3>2. str \in Keys
      BY <1>3, <3>1, KeysAre
    <3>3. matches' = Articles(str)
      BY <1>1, <2>3, <3>1
    <3>4. matches' = Articles(str)'
      BY <1>1, <3>3
    <3>5. (str \in Keys)'
      BY <1>1, <1>2, <3>2, Unmoved
    <3>. QED BY <3>4, <3>5, Zenon DEF ArticlesExact
  <2>4. CASE ~exactMatch
    <3>1. ASSUME str \in Keys PROVE FALSE
      <4>1. PICK i \in Position : Key(i) = target
        BY <1>3, <2>1, <3>1, KeysAre
      <4>2. chain \in Position /\ target <= Key(chain) /\ ~(i < chain)
        BY <2>1, <2>2, <4>1 DEF IsLowerBound
      <4>3. chain <= i
        BY <4>1, <4>2 DEF Position
      <4>4. Key(chain) <= Key(i) /\ Key(chain) \in Nat
        BY <2>2, <4>1, <4>2, <4>3, KeyOrder
      <4>5. Key(chain) = target
        BY <2>1, <4>1, <4>2, <4>4
      <4>6. chain # None
        BY <4>2 DEF Position, None
      <4>. QED BY <2>2, <2>4, <4>5, <4>6, Zenon
    <3>. QED BY <1>1, <1>2, <2>4, <3>1, Unmoved DEF ArticlesExact
  <2>. QED BY <2>3, <2>4
<1>. QED BY <1>5, <1>6, <1>7, <1>8, <1>9 DEF SearchInv

LEMMA StartWalkInv == SearchInv /\ StartWalk => SearchInv'
<1>. SUFFICES ASSUME SearchInv, StartWalk PROVE SearchInv'
  OBVIOUS
<1>1. /\ place = "lookup" /\ returned /\ ~search.articles
      /\ place' = IF chain = None THEN "chop" ELSE "walk"
      /\ at' = chain
      /\ UNCHANGED <<vars, str, search, charsLeftToChop, matches, isCancelled>>
  BY DEF StartWalk
<1>2. Still /\ target' = target /\ chain' = chain /\ returned' = returned /\ keys' = keys
  BY <1>1 DEF vars, Still
<1>3. LookupInv /\ SearchTypes /\ Stage /\ Reads /\ Ordered /\ ArticlesExact
  BY DEF SearchInv
<1>4. LookupInv'
  BY <1>1, <1>3, LookupKept
<1>5. SearchTypes'
  BY <1>1, <1>3 DEF SearchTypes
<1>6. chain \in Position \cup {None} /\ target \in Targets
  BY <1>3 DEF LookupInv, TypeOK
<1>7. Position \subseteq Int
  BY DEF Position
<1>8. Stage'
  <2>1. chain # None => chain <= chain
    BY <1>6, <1>7
  <2>2. Stem(Depth)' = Stem(Depth)
    BY <1>1, <1>2, SameDepth
  <2>. QED BY <1>1, <1>2, <1>3, <1>6, <2>1, <2>2, Unmoved DEF Stage
<1>9. Reads'
  <2>1. (Listed(matches) \subseteq Words(Depth))'
    BY <1>1, <1>2, <1>3, SameDepth DEF Reads
  <2>2. Depth > 0 => Complete(Depth - 1) /\ FirstRead(Depth - 1)
    BY <1>1, <1>3 DEF Reads
  <2>3. (Depth > 0 => Complete(Depth - 1) /\ FirstRead(Depth - 1))'
    BY <1>1, <1>2, <2>2, SameDepth
  <2>4. CASE chain # None
    <3>1. \A i \in Position : ~(chain <= i /\ i < chain)
      BY <1>6, <1>7, <2>4
    <3>2. ~(chain < chain)
      BY <1>6, <1>7, <2>4
    <3>3. Walked'
      BY <1>1, <1>2, <3>1, <3>2, Unmoved DEF Walked
    <3>. QED BY <1>1, <2>1, <2>3, <2>4, <3>3 DEF Reads
  <2>5. CASE chain = None
    <3>1. IsLowerBound(chain, target)
      BY <1>1, <1>3 DEF LookupInv, LookupCorrect
    <3>2. \A i \in Position : ~Begins(Stem(Depth), Key(i))
      BY <1>1, <1>3, <1>6, <2>5, <3>1, FromLowerBound DEF Stage
    <3>3. Complete(Depth)
      BY <1>3, <3>2, AllRead DEF Complete
    <3>4. FirstRead(Depth)
      BY <3>2 DEF FirstRead
    <3>5. (Complete(Depth) /\ FirstRead(Depth))'
      BY <1>1, <1>2, <3>3, <3>4, SameDepth
    <3>. QED BY <1>1, <2>1, <2>3, <2>5, <3>5 DEF Reads
  <2>. QED BY <2>4, <2>5
<1>10. Ordered'
  <2>1. Depth' = Depth
    BY <1>1, <1>2, SameDepth
  <2>. QED BY <1>1, <1>2, <1>3, <2>1, Unmoved, SameMatches DEF Ordered
<1>11. ArticlesExact'
  BY <1>1 DEF ArticlesExact
<1>. QED BY <1>4, <1>5, <1>8, <1>9, <1>10, <1>11 DEF SearchInv

LEMMA ChopInv == SearchInv /\ Chop => SearchInv'
<1>. SUFFICES ASSUME SearchInv, Chop PROVE SearchInv'
  OBVIOUS
<1>. DEFINE r == CHOOSE p \in Targets : Folded[p] = Front(folded)
<1>1. /\ place = "chop" /\ charsLeftToChop # 0 /\ ~isCancelled
      /\ charsLeftToChop' = charsLeftToChop - 1
      /\ LookUp(r)
  BY DEF Chop
<1>2. /\ place' = "lookup" /\ target' = r
      /\ first' = 0 /\ size' = Total
      /\ window' = 0 /\ windowSize' = Elements(Total)
      /\ returned' = FALSE /\ chain' = None /\ exactMatch' = FALSE
      /\ UNCHANGED <<keys, str, search, at, matches, isCancelled>>
  BY <1>1 DEF LookUp
<1>3. Still
  BY <1>2 DEF Still
<1>4. LookupInv /\ SearchTypes /\ Stage /\ Reads /\ Ordered /\ ArticlesExact
  BY DEF SearchInv
<1>5. ~search.articles
  BY <1>1, <1>4 DEF Stage
<1>6. /\ charsLeftToChop \in 0 .. ToChop /\ Folded[target] = Stem(Depth)
      /\ target \in Targets
  BY <1>1, <1>4 DEF Stage, LookupInv, TypeOK
<1>7. ToChop \in 0 .. initialFoldedSize /\ initialFoldedSize \in Nat
  BY <1>4, ToChopBound DEF SearchTypes
<1>8. Depth \in Nat /\ Depth + 1 <= initialFoldedSize /\ charsLeftToChop - 1 \in 0 .. ToChop
  BY <1>1, <1>6, <1>7 DEF Depth
<1>9. Depth' = Depth + 1
  <2>1. Depth' = ToChop - (charsLeftToChop - 1)
    BY <1>1, <1>3, Unmoved DEF Depth
  <2>. QED BY <2>1, <1>6, <1>7 DEF Depth
<1>10. r \in Targets /\ Folded[r] = Stem(Depth + 1)
  <2>. DEFINE d == Depth
  <2>1. d \in Nat /\ d + 1 <= initialFoldedSize /\ Folded[target] = Stem(d)
    BY <1>6, <1>8
  <2>2. str \in Targets
    BY <1>4 DEF SearchTypes
  <2>. HIDE DEF d
  <2>3. r \in Targets /\ Folded[r] = Stem(d + 1)
    BY <1>6, <2>1, <2>2, ChoppedStem DEF folded
  <2>. QED BY <2>3 DEF d
<1>. HIDE DEF r
<1>11. LookupInv'
  <2>1. Init'
    BY <1>2, <1>4, <1>10 DEF Init, LookupInv, TypeOK, Total, Elements, IsLeaf
  <2>2. (Init => LookupInv)'
    BY RootInv, PTL
  <2>. QED BY <2>1, <2>2
<1>12. SearchTypes'
  BY <1>2, <1>4 DEF SearchTypes
<1>13. Stage'
  <2>1. Stem(Depth)' = Stem(Depth + 1)
    BY <1>3, <1>9 DEF Stem, Still, initialFoldedSize
  <2>. QED BY <1>1, <1>2, <1>3, <1>5, <1>8, <1>10, <2>1, Unmoved DEF Stage
<1>14. Reads'
  <2>1. Listed(matches) \subseteq Words(Depth) /\ Complete(Depth) /\ FirstRead(Depth)
    BY <1>1, <1>4, <1>5 DEF Reads
  <2>2. (Listed(matches) \subseteq Words(Depth))'
    <3>1. Words(Depth) \subseteq Words(Depth + 1)
      <4>1. Depth \in 0 .. initialFoldedSize /\ Depth + 1 \in 0 .. initialFoldedSize
            /\ Depth <= Depth + 1
        BY <1>7, <1>8
      <4>2. \A k \in Keys : k \in Targets
        BY <1>4, KeysAre
      <4>. DEFINE d == Depth
                  e == Depth + 1
      <4>3. d \in 0 .. initialFoldedSize /\ e \in 0 .. initialFoldedSize /\ d <= e
        BY <4>1
      <4>4. str \in Targets
        BY <1>4 DEF SearchTypes
      <4>. HIDE DEF d, e
      <4>5. \A k \in Keys : Begins(Stem(d), k) => Begins(Stem(e), k)
        BY <4>2, <4>3, <4>4, ShorterStem
      <4>6. Words(d) \subseteq Words(e)
        BY <4>5 DEF Words
      <4>. QED BY <4>6 DEF d, e
    <3>2. Words(Depth)' = Words(Depth + 1)
      BY <1>3, <1>9 DEF Words, Still, Keys, Begins, Stem, Taken, Takes, initialFoldedSize
    <3>3. Listed(matches)' = Listed(matches)
      BY <1>2 DEF Listed
    <3>. QED BY <2>1, <3>1, <3>2, <3>3
  <2>3. (Complete(Depth - 1) /\ FirstRead(Depth - 1))'
    <3>1. Depth' - 1 = Depth
      BY <1>8, <1>9
    <3>2. Complete(Depth - 1)'
      BY <1>2, <1>3, <2>1, <3>1, Unmoved DEF Complete, Listed
    <3>3. FirstRead(Depth - 1)'
      BY <1>2, <1>3, <2>1, <3>1, Unmoved DEF FirstRead, Listed, Begins
    <3>. QED BY <3>2, <3>3
  <2>. QED BY <1>2, <2>2, <2>3 DEF Reads
<1>15. Ordered'
  <2>1. SUFFICES ASSUME ~search.allowMiddleMatches
                 PROVE  /\ \A i \in DOMAIN matches : Shared(matches[i]) \in
                               initialFoldedSize - Depth' .. initialFoldedSize
                        /\ NearestFirst
    BY <1>2, <1>3, Unmoved, SameMatches DEF Ordered
  <2>2. /\ \A i \in DOMAIN matches : Shared(matches[i]) \in
                               initialFoldedSize - Depth .. initialFoldedSize
        /\ NearestFirst
    BY <1>1, <1>4, <1>5, <2>1 DEF Ordered
  <2>. QED BY <1>7, <1>8, <1>9, <2>2
<1>16. ArticlesExact'
  BY <1>2 DEF ArticlesExact
<1>. QED BY <1>11, <1>12, <1>13, <1>14, <1>15, <1>16 DEF SearchInv

LEMMA EndInv == SearchInv /\ End => SearchInv'
<1>. SUFFICES ASSUME SearchInv, End PROVE SearchInv'
  OBVIOUS
<1>1. /\ place = "chop" /\ (charsLeftToChop = 0 \/ isCancelled) /\ place' = "done"
      /\ UNCHANGED <<vars, str, search, charsLeftToChop, at, matches, isCancelled>>
  BY DEF End
<1>2. Still /\ target' = target
  BY <1>1 DEF vars, Still
<1>3. LookupInv /\ SearchTypes /\ Stage /\ Reads /\ Ordered /\ ArticlesExact
  BY DEF SearchInv
<1>4. ~search.articles
  BY <1>1, <1>3 DEF Stage
<1>5. LookupInv'
  BY <1>1, <1>3, LookupKept
<1>6. SearchTypes'
  BY <1>1, <1>3 DEF SearchTypes
<1>7. Depth' = Depth /\ Stem(Depth)' = Stem(Depth)
  BY <1>1, <1>2, SameDepth
<1>8. Stage'
  BY <1>1, <1>2, <1>3, <1>4, <1>7, Unmoved DEF Stage
<1>9. Reads'
  <2>1. (Listed(matches) \subseteq Words(Depth))'
    BY <1>1, <1>2, <1>3, <1>4, SameDepth DEF Reads
  <2>2. ASSUME ~isCancelled PROVE Complete(ToChop)'
    <3>1. Complete(Depth)
      BY <1>1, <1>3, <1>4, <2>2 DEF Reads
    <3>2. ToChop \in 0 .. initialFoldedSize /\ initialFoldedSize \in Nat
      BY <1>3, ToChopBound DEF SearchTypes
    <3>3. Depth = ToChop
      BY <1>1, <2>2, <3>2 DEF Depth
    <3>4. Complete(ToChop)
      BY <3>1, <3>3 DEF Complete
    <3>. QED BY <1>1, <1>2, <3>4, SameDepth
  <2>. QED BY <1>1, <2>1, <2>2 DEF Reads
<1>10. Ordered'
  BY <1>1, <1>2, <1>3, <1>7, Unmoved, SameMatches DEF Ordered
<1>11. ArticlesExact'
  BY <1>1, <1>4 DEF ArticlesExact
<1>. QED BY <1>5, <1>6, <1>8, <1>9, <1>10, <1>11 DEF SearchInv

LEMMA CancelInv == SearchInv /\ Cancel => SearchInv'
<1>. SUFFICES ASSUME SearchInv, Cancel PROVE SearchInv'
  OBVIOUS
<1>1. /\ ~search.articles /\ isCancelled' = TRUE
      /\ UNCHANGED <<vars, str, search, place, charsLeftToChop, at, matches>>
  BY DEF Cancel
<1>2. Still /\ target' = target /\ chain' = chain /\ returned' = returned
  BY <1>1 DEF vars, Still
<1>3. LookupInv /\ SearchTypes /\ Stage /\ Reads /\ Ordered /\ ArticlesExact
  BY DEF SearchInv
<1>4. LookupInv'
  BY <1>1, <1>3, LookupKept
<1>5. SearchTypes'
  BY <1>1, <1>3 DEF SearchTypes
<1>6. Depth' = Depth /\ Stem(Depth)' = Stem(Depth)
  BY <1>1, <1>2, SameDepth
<1>7. Stage'
  BY <1>1, <1>2, <1>3, <1>6, Unmoved DEF Stage
<1>8. Reads'
  <2>1. place # "start" => (Listed(matches) \subseteq Words(Depth))'
    BY <1>1, <1>2, <1>3, SameDepth DEF Reads
  <2>2. place \in {"lookup", "walk"} /\ Depth' > 0 => (Complete(Depth - 1) /\ FirstRead(Depth - 1))'
    BY <1>1, <1>2, <1>3, <1>6, SameDepth DEF Reads
  <2>3. place = "walk" => Walked'
    <3>1. ASSUME place = "walk" PROVE Walked
      BY <1>1, <1>3, <3>1 DEF Reads
    <3>2. folded' = folded /\ Listed(matches)' = Listed(matches)
      BY <1>1, <1>2 DEF folded, Listed
    <3>. QED BY <1>1, <1>2, <3>1, <3>2, Unmoved DEF Walked, Begins
  <2>. QED BY <1>1, <2>1, <2>2, <2>3 DEF Reads
<1>9. Ordered'
  BY <1>1, <1>2, <1>3, <1>6, Unmoved, SameMatches DEF Ordered
<1>10. ArticlesExact'
  BY <1>1 DEF ArticlesExact
<1>. QED BY <1>4, <1>5, <1>7, <1>8, <1>9, <1>10 DEF SearchInv

-----------------------------------------------------------------------------
(***************************************************************************)
(* A chain read by the walk.                                               *)
(***************************************************************************)
LEMMA MaxIs ==
    ASSUME NEW S \in SUBSET Int, NEW x \in S, \A y \in S : y <= x
    PROVE  Max(S) = x
<1>1. \A y \in S : x >= y
  OBVIOUS
<1>2. \E m \in S : \A y \in S : m >= y
  BY <1>1
<1>. DEFINE M == CHOOSE m \in S : \A y \in S : m >= y
<1>3. M \in S /\ \A y \in S : M >= y
  BY <1>2, Zenon
<1>. HIDE DEF M
<1>4. M = x
  BY <1>3
<1>. QED BY <1>4, Zenon DEF Max, M

\* A word of its own in a chain that begins with the stem, but with no longer
\* one, shares with the word asked what is left of that.
LEMMA SharedIs ==
    ASSUME LookupInv, str \in Targets, search \in Searches, ~search.allowMiddleMatches,
           NEW k \in Keys, NEW w \in Taken(k), NEW n \in 0 .. initialFoldedSize,
           Begins(Stem(n), k), n > 0 => ~Begins(Stem(n - 1), k)
    PROVE  Shared(w) = initialFoldedSize - n
<1>. DEFINE Own(l, v) == \E i \in DOMAIN Chains[l] : ~Chains[l][i].middle /\ Chains[l][i].word = v
            Common(m) == \E l \in Keys : Begins(SubSeq(Folded[str], 1, m), l) /\ Own(l, w)
            S == {m \in 0 .. initialFoldedSize : Common(m)}
            s == initialFoldedSize - n
<1>1. initialFoldedSize \in Nat /\ n \in Nat /\ s \in 0 .. initialFoldedSize
  <2>1. initialFoldedSize \in Nat
    BY Spelt DEF initialFoldedSize
  <2>. QED BY <2>1
<1>2. k \in Targets \ {0} /\ \A l \in Keys : l \in Targets \ {0}
  BY KeysAre
<1>3. search.pattern = {}
  BY SearchesAssumption
<1>4. Own(k, w)
  BY <1>3 DEF Taken, Takes
<1>5. s \in S
  BY <1>1, <1>4 DEF Stem
<1>6. ASSUME NEW l \in Keys, Own(l, w) PROVE l = k
  <2>. HIDE DEF s
  <2>1. PICK i \in DOMAIN Chains[l] : ~Chains[l][i].middle /\ Chains[l][i].word = w
    BY <1>6
  <2>2. PICK j \in DOMAIN Chains[k] : ~Chains[k][j].middle /\ Chains[k][j].word = w
    BY <1>4
  <2>3. l \in Targets \ {0}
    BY <1>2
  <2>. QED BY <1>2, <2>1, <2>2, <2>3, ChainsAssumption
<1>7. ASSUME NEW m \in S, s < m PROVE FALSE
  <2>1. m \in 0 .. initialFoldedSize
    OBVIOUS
  <2>2. PICK l \in Keys : Begins(SubSeq(Folded[str], 1, m), l) /\ Own(l, w)
    OBVIOUS
  <2>3. l = k
    BY <1>6, <2>2
  <2>. DEFINE d == initialFoldedSize - m
  <2>4. /\ d \in 0 .. initialFoldedSize /\ n - 1 \in 0 .. initialFoldedSize
        /\ d <= n - 1 /\ n > 0 /\ initialFoldedSize - d = m
    BY <1>1, <1>7, <2>1
  <2>5. Begins(Stem(d), k)
    BY <2>2, <2>3, <2>4 DEF Stem
  <2>. HIDE DEF d, s, S
  <2>6. Begins(Stem(n - 1), k)
    <3>. DEFINE e == n - 1
    <3>1. e \in 0 .. initialFoldedSize /\ d <= e
      BY <2>4
    <3>. HIDE DEF e
    <3>2. Begins(Stem(e), k)
      BY <1>2, <2>4, <2>5, <3>1, ShorterStem
    <3>. QED BY <3>2 DEF e
  <2>. QED BY <2>4, <2>6
<1>8. S \in SUBSET Int
  BY <1>1
<1>9. \A m \in S : m <= s
  <2>1. \A m \in S : m \in Int
    BY <1>8
  <2>. HIDE DEF S
  <2>. QED BY <1>1, <1>7, <2>1
<1>10. Shared(w) = Max(S)
  BY DEF Shared
<1>. HIDE DEF S, s
<1>11. Max(S) = s
  BY <1>5, <1>8, <1>9, MaxIs
<1>. QED BY <1>10, <1>11 DEF s

Walking ==
    /\ LookupInv /\ SearchTypes /\ Stage /\ Reads /\ place = "walk" /\ ~search.articles
    /\ Begins(Stem(Depth), Key(at))

LEMMA WalkingFacts ==
    ASSUME Walking
    PROVE  /\ chain \in Position /\ at \in Position /\ chain <= at /\ returned
           /\ target \in Targets /\ folded = Stem(Depth)
           /\ Depth \in 0 .. initialFoldedSize /\ initialFoldedSize \in Nat
           /\ \A i \in Position : Begins(Stem(Depth), Key(i)) => chain <= i
           /\ \A i \in Position : chain <= i /\ i <= at => Begins(Stem(Depth), Key(i))
<1>1. LookupInv /\ SearchTypes /\ Stage /\ place = "walk" /\ Begins(Stem(Depth), Key(at))
  BY DEF Walking
<1>2. /\ returned /\ chain # None /\ at \in Position /\ chain <= at
      /\ charsLeftToChop \in 0 .. ToChop /\ Folded[target] = Stem(Depth)
  BY <1>1 DEF Stage
<1>3. chain \in Position /\ target \in Targets /\ IsLowerBound(chain, target)
  BY <1>1, <1>2 DEF LookupInv, TypeOK, LookupCorrect
<1>4. ToChop \in 0 .. initialFoldedSize /\ initialFoldedSize \in Nat
  BY <1>1, ToChopBound DEF SearchTypes
<1>5. Depth \in 0 .. initialFoldedSize
  BY <1>2, <1>4 DEF Depth
<1>6. /\ \A i \in Position : i < chain => ~Begins(Stem(Depth), Key(i))
      /\ \A i, j \in Position :
             chain <= i /\ i <= j /\ Begins(Stem(Depth), Key(j)) => Begins(Stem(Depth), Key(i))
  BY <1>1, <1>2, <1>3, FromLowerBound
<1>7. \A i \in Position : Begins(Stem(Depth), Key(i)) => chain <= i
  BY <1>3, <1>6 DEF Position
<1>8. \A i \in Position : chain <= i /\ i <= at => Begins(Stem(Depth), Key(i))
  BY <1>1, <1>2, <1>6
<1>. QED BY <1>2, <1>3, <1>4, <1>5, <1>7, <1>8 DEF folded

\* What this stem is the first to find begins with no longer one.
LEMMA NewHere ==
    ASSUME Walking, Depth > 0, Begins(Stem(Depth - 1), Key(at)),
           NEW w \in Taken(Key(at))
    PROVE  w \in Listed(matches)
<1>1. /\ chain \in Position /\ at \in Position /\ chain <= at
      /\ Depth \in 0 .. initialFoldedSize /\ initialFoldedSize \in Nat
      /\ \A i \in Position : Begins(Stem(Depth), Key(i)) => chain <= i
  BY WalkingFacts
<1>2. Complete(Depth - 1) /\ FirstRead(Depth - 1) /\ Walked
  BY DEF Walking, Reads
<1>3. CASE Words(Depth - 1) \subseteq Listed(matches)
  <2>1. Key(at) \in Keys
    BY <1>1, KeysAre DEF Walking
  <2>. QED BY <1>3, <2>1 DEF Words
<1>4. CASE Len(matches) >= search.maxResults
  <2>1. at = chain
    <3>1. Len(matches) \in Nat /\ search.maxResults \in Nat
      BY LenProperties, SearchesAssumption DEF Walking, SearchTypes
    <3>2. ~(Len(matches) < search.maxResults)
      BY <1>4, <3>1
    <3>3. ~(chain < at)
      BY <1>2, <3>2 DEF Walked
    <3>. QED BY <1>1, <3>3 DEF Position
  <2>2. ASSUME NEW i \in Position, i < at, Begins(Stem(Depth - 1), Key(i)) PROVE FALSE
    <3>. DEFINE d == Depth - 1
                e == Depth
    <3>1. /\ d \in 0 .. initialFoldedSize /\ e \in 0 .. initialFoldedSize /\ d <= e
          /\ Begins(Stem(d), Key(i))
      BY <1>1, <2>2
    <3>2. Key(i) \in Targets /\ str \in Targets
      BY KeysAre DEF Walking, SearchTypes
    <3>. HIDE DEF d, e
    <3>3. Begins(Stem(e), Key(i))
      BY <3>1, <3>2, ShorterStem
    <3>4. chain <= i
      BY <1>1, <3>3 DEF e
    <3>5. i \in Int /\ at \in Int
      BY <1>1 DEF Position
    <3>. QED BY <2>1, <2>2, <3>4, <3>5
  <2>3. Taken(Key(at)) \subseteq Listed(matches)
    BY <1>1, <1>2, <2>2 DEF FirstRead
  <2>. QED BY <2>3
<1>. QED BY <1>2, <1>3, <1>4 DEF Complete

LEMMA ReadChain ==
    ASSUME Walking, matches' = AddChain(matches, Key(at)), Still
    PROVE  /\ Grew(matches, matches', Taken(Key(at)))
           /\ Len(matches) \in Nat /\ Len(matches') \in Nat
           /\ DOMAIN matches' = 1 .. Len(matches') /\ DOMAIN matches = 1 .. Len(matches)
           /\ search.maxResults \in Nat
           /\ Listed(matches)' = Listed(matches) \cup Taken(Key(at))
           /\ \A n : Complete(n) => Complete(n)'
           /\ \A n : FirstRead(n) => FirstRead(n)'
           /\ \A i \in Position : chain <= i /\ i <= at => Taken(Key(i)) \subseteq Listed(matches)'
<1>1. matches \in Seq(Nat) /\ Distinct(matches) /\ search.maxResults \in Nat
  BY SearchesAssumption DEF Walking, SearchTypes
<1>2. Key(at) \in Targets \ {0}
  BY WalkingFacts, KeysAre DEF Walking
<1>3. IsChain(Chains[Key(at)])
  BY <1>2, ChainsAssumption DEF IsChain
<1>4. Grew(matches, matches', Taken(Key(at)))
  BY <1>1, <1>3, AddChainGrows
<1>5. /\ Len(matches) \in Nat /\ Len(matches') \in Nat /\ Len(matches) <= Len(matches')
      /\ DOMAIN matches' = 1 .. Len(matches') /\ DOMAIN matches = 1 .. Len(matches)
  BY <1>1, <1>4, LenProperties DEF Grew
<1>6. Listed(matches') = Listed(matches) \cup Taken(Key(at))
  BY <1>4 DEF Grew
<1>7. Listed(matches)' = Listed(matches) \cup Taken(Key(at))
  BY <1>6 DEF Listed
<1>8. ASSUME NEW n, Complete(n) PROVE Complete(n)'
  <2>1. Words(n)' = Words(n) /\ search' = search
    BY Unmoved DEF Still
  <2>2. CASE Words(n) \subseteq Listed(matches)
    BY <1>7, <2>1, <2>2 DEF Complete
  <2>3. CASE Len(matches) >= search.maxResults
    <3>1. Len(matches') >= search.maxResults
      BY <1>1, <1>5, <2>3
    <3>. QED BY <2>1, <3>1 DEF Complete
  <2>. QED BY <1>8, <2>2, <2>3 DEF Complete
<1>9. ASSUME NEW n, FirstRead(n) PROVE FirstRead(n)'
  BY <1>7, <1>9, Unmoved DEF FirstRead, Begins
<1>10. ASSUME NEW i \in Position, chain <= i, i <= at PROVE Taken(Key(i)) \subseteq Listed(matches)'
  <2>1. CASE i = at
    BY <1>7, <2>1
  <2>2. CASE i < at
    <3>1. Walked
      BY DEF Walking, Reads
    <3>. QED BY <1>7, <1>10, <2>2, <3>1 DEF Walked
  <2>3. i \in Int /\ at \in Int
    BY WalkingFacts DEF Position
  <2>. QED BY <1>10, <2>1, <2>2, <2>3
<1>. QED BY <1>1, <1>4, <1>5, <1>7, <1>8, <1>9, <1>10

\* A chain added, or a part of one, keeps the matches in their order.
LEMMA ReadOrdered ==
    ASSUME Walking, Ordered, ~search.allowMiddleMatches, Still,
           NEW ws, ws \subseteq Taken(Key(at)), Grew(matches, matches', ws)
    PROVE  /\ \A i \in DOMAIN matches' : Shared(matches'[i]) \in
                   initialFoldedSize - Depth .. initialFoldedSize
           /\ \A i, j \in DOMAIN matches' : i < j => Shared(matches'[i]) >= Shared(matches'[j])
<1>. DEFINE low == initialFoldedSize - Depth
            old == Len(matches)
            new == Len(matches')
            S(i) == Shared(matches'[i])
<1>1. /\ old \in Nat /\ new \in Nat
      /\ DOMAIN matches' = 1 .. new /\ DOMAIN matches = 1 .. old
  BY LenProperties DEF Grew, Walking, SearchTypes
<1>2. /\ Depth \in 0 .. initialFoldedSize /\ initialFoldedSize \in Nat
      /\ at \in Position /\ Key(at) \in Keys
  BY WalkingFacts, KeysAre DEF Walking
<1>3. /\ \A i \in 1 .. old : matches'[i] = matches[i]
      /\ Distinct(matches') /\ old <= new
      /\ Listed(matches') = Listed(matches) \cup ws
  BY <1>1 DEF Grew
<1>4. /\ \A i \in 1 .. old : Shared(matches[i]) \in low .. initialFoldedSize
      /\ \A i, j \in 1 .. old : i < j => Shared(matches[i]) >= Shared(matches[j])
  BY <1>1 DEF Ordered, NearestFirst, Walking
<1>5. \A i \in 1 .. old : S(i) \in low .. initialFoldedSize
  BY <1>3, <1>4
<1>6. \A i, j \in 1 .. old : i < j => S(i) >= S(j)
  BY <1>3, <1>4
<1>7. ASSUME NEW i \in 1 .. new, i \notin 1 .. old PROVE S(i) = low
  <2>1. matches'[i] \notin Listed(matches)
    <3>1. SUFFICES ASSUME NEW j \in 1 .. old, matches'[i] = matches[j] PROVE FALSE
      BY <1>1 DEF Listed
    <3>2. j \in 1 .. new
      BY <1>1, <1>3
    <3>3. matches'[i] = matches'[j]
      BY <1>3, <3>1
    <3>4. i = j
      BY <1>1, <1>3, <3>2, <3>3 DEF Distinct
    <3>. QED BY <1>7, <3>4
  <2>2. matches'[i] \in Taken(Key(at))
    BY <1>1, <1>3, <2>1 DEF Listed
  <2>3. Depth > 0 => ~Begins(Stem(Depth - 1), Key(at))
    BY <2>1, <2>2, NewHere
  <2>4. LookupInv /\ str \in Targets /\ search \in Searches /\ Begins(Stem(Depth), Key(at))
    BY DEF Walking, SearchTypes
  <2>. DEFINE d == Depth
              k == Key(at)
              w == matches'[i]
  <2>5. /\ d \in 0 .. initialFoldedSize /\ k \in Keys /\ w \in Taken(k)
        /\ Begins(Stem(d), k) /\ (d > 0 => ~Begins(Stem(d - 1), k))
    BY <1>2, <2>2, <2>3, <2>4
  <2>. HIDE DEF d, k, w
  <2>6. Shared(w) = initialFoldedSize - d
    BY <2>4, <2>5, SharedIs
  <2>. QED BY <2>6 DEF d, w
<1>8. low \in Int /\ low <= initialFoldedSize
  BY <1>2
<1>. HIDE DEF low, old, new, S
<1>9. \A i \in 1 .. new : S(i) \in low .. initialFoldedSize
  <2>1. low \in low .. initialFoldedSize
    BY <1>2, <1>8
  <2>. QED BY <1>5, <1>7, <2>1
<1>10. ASSUME NEW i \in 1 .. new, NEW j \in 1 .. new, i < j PROVE S(i) >= S(j)
  <2>1. CASE j \in 1 .. old
    <3>1. i \in 1 .. old
      BY <1>1, <1>10, <2>1
    <3>. QED BY <1>6, <1>10, <2>1, <3>1
  <2>2. CASE j \notin 1 .. old
    <3>1. S(j) = low
      BY <1>7, <2>2
    <3>2. S(i) \in low .. initialFoldedSize
      BY <1>9
    <3>. QED BY <1>2, <1>8, <3>1, <3>2
  <2>. QED BY <2>1, <2>2
<1>. QED BY <1>1, <1>9, <1>10 DEF low, S

LEMMA WalkInv == SearchInv /\ Walk => SearchInv'
<1>. SUFFICES ASSUME SearchInv, Walk PROVE SearchInv'
  OBVIOUS
<1>1. /\ place = "walk"
      /\ UNCHANGED <<vars, str, search, charsLeftToChop, isCancelled>>
      /\ IF ~isCancelled /\ Begins(folded, Key(at))
         THEN /\ matches' = AddChain(matches, Key(at))
              /\ IF Len(matches') >= search.maxResults \/ at + 1 = Total
                 THEN place' = "chop" /\ UNCHANGED at
                 ELSE at' = at + 1 /\ UNCHANGED place
         ELSE place' = "chop" /\ UNCHANGED <<at, matches>>
  BY DEF Walk
<1>2. Still /\ target' = target /\ chain' = chain /\ returned' = returned /\ folded' = folded
  BY <1>1 DEF vars, Still, folded
<1>3. LookupInv /\ SearchTypes /\ Stage /\ Reads /\ Ordered /\ ArticlesExact
  BY DEF SearchInv
<1>4. ~search.articles
  BY <1>1, <1>3 DEF Stage
<1>5. LookupInv'
  BY <1>1, <1>3, LookupKept
<1>6. place' \in {"walk", "chop"}
  BY <1>1
<1>7. ArticlesExact'
  BY <1>6 DEF ArticlesExact
<1>8. Depth' = Depth /\ Stem(Depth)' = Stem(Depth)
  <2>1. Depth' = Depth
    BY <1>1, <1>2, Unmoved DEF Depth
  <2>. QED BY <1>2, <2>1 DEF Stem, Still, initialFoldedSize
<1>9. Words(Depth)' = Words(Depth)
  BY <1>2, <1>8 DEF Words, Still, Keys, Begins, Stem, Taken, Takes, initialFoldedSize
<1>10. at \in Position /\ chain \in Position /\ chain <= at /\ chain # None /\ returned
       /\ Folded[target] = Stem(Depth) /\ folded = Stem(Depth)
  BY <1>1, <1>3 DEF Stage, LookupInv, TypeOK, folded
<1>11. Position \subseteq Nat /\ \A i \in Position : i < Total
  <2>1. Total \in Nat
    BY <1>3, KeyOrder DEF LookupInv
  <2>. QED BY <2>1 DEF Position
<1>12. CASE ~(~isCancelled /\ Begins(folded, Key(at)))
  <2>1. place' = "chop" /\ at' = at /\ matches' = matches
    BY <1>1, <1>12
  <2>2. SearchTypes'
    BY <1>1, <1>3, <2>1 DEF SearchTypes
  <2>3. Stage'
    BY <1>1, <1>2, <1>3, <1>4, <1>8, <2>1, Unmoved DEF Stage
  <2>4. Ordered'
    BY <1>1, <1>2, <1>3, <1>8, <2>1, Unmoved, SameMatches DEF Ordered
  <2>5. Reads'
    <3>1. (Listed(matches) \subseteq Words(Depth))'
      BY <1>1, <1>2, <1>3, <1>4, <2>1, SameDepth DEF Reads
    <3>2. ASSUME ~isCancelled PROVE (Complete(Depth) /\ FirstRead(Depth))'
      <4>1. IsLowerBound(chain, target) /\ target \in Targets
        BY <1>3, <1>10 DEF LookupInv, LookupCorrect, TypeOK
      <4>2. /\ \A i \in Position : i < chain => ~Begins(Stem(Depth), Key(i))
            /\ \A i, j \in Position :
                 chain <= i /\ i <= j /\ Begins(Stem(Depth), Key(j)) => Begins(Stem(Depth), Key(i))
        BY <1>3, <1>10, <4>1, FromLowerBound
      <4>3. ~Begins(Stem(Depth), Key(at))
        BY <1>10, <1>12, <3>2
      <4>4. \A i \in Position : Begins(Stem(Depth), Key(i)) => chain <= i /\ i < at
        BY <1>10, <1>11, <4>2, <4>3
      <4>5. Walked
        BY <1>1, <1>3, <1>4 DEF Reads
      <4>6. \A i \in Position :
               Begins(Stem(Depth), Key(i)) => Taken(Key(i)) \subseteq Listed(matches)
        BY <4>4, <4>5 DEF Walked
      <4>7. Complete(Depth)
        BY <1>3, <4>6, AllRead DEF Complete
      <4>8. FirstRead(Depth)
        BY <4>6 DEF FirstRead
      <4>. QED BY <1>1, <1>2, <2>1, <4>7, <4>8, SameDepth
    <3>. QED BY <1>1, <2>1, <3>1, <3>2 DEF Reads
  <2>. QED BY <1>5, <1>7, <2>2, <2>3, <2>4, <2>5 DEF SearchInv
<1>13. CASE ~isCancelled /\ Begins(folded, Key(at))
  <2>1. Walking /\ matches' = AddChain(matches, Key(at))
    BY <1>1, <1>3, <1>4, <1>10, <1>13 DEF Walking
  <2>2. /\ Grew(matches, matches', Taken(Key(at)))
        /\ Len(matches') \in Nat /\ search.maxResults \in Nat
        /\ Listed(matches)' = Listed(matches) \cup Taken(Key(at))
        /\ \A n : Complete(n) => Complete(n)'
        /\ \A n : FirstRead(n) => FirstRead(n)'
        /\ \A i \in Position : chain <= i /\ i <= at => Taken(Key(i)) \subseteq Listed(matches)'
    BY <1>2, <2>1, ReadChain
  <2>3. /\ \A i \in Position : Begins(Stem(Depth), Key(i)) => chain <= i
        /\ \A i \in Position : chain <= i /\ i <= at => Begins(Stem(Depth), Key(i))
    BY <2>1, WalkingFacts
  <2>4. SearchTypes'
    BY <1>1, <1>3, <1>6, <2>2 DEF SearchTypes, Grew
  <2>5. Ordered'
    <3>1. SUFFICES ASSUME ~search.allowMiddleMatches
                   PROVE  /\ \A i \in DOMAIN matches' : Shared(matches'[i]) \in
                                 initialFoldedSize - Depth .. initialFoldedSize
                          /\ \A i, j \in DOMAIN matches' : i < j =>
                                 Shared(matches'[i]) >= Shared(matches'[j])
      BY <1>2, <1>8, Unmoved DEF Ordered, NearestFirst, Still
    <3>2. Walking /\ Ordered /\ Still /\ Grew(matches, matches', Taken(Key(at)))
      BY <1>2, <1>3, <2>1, <2>2
    <3>3. \E ws : ws = Taken(Key(at))
      OBVIOUS
    <3>4. PICK ws : ws = Taken(Key(at))
      BY <3>3
    <3>5. ws \subseteq Taken(Key(at)) /\ Grew(matches, matches', ws)
      BY <3>2, <3>4
    <3>. QED BY <3>1, <3>2, <3>5, ReadOrdered
  <2>6. Listed(matches)' \subseteq Words(Depth)'
    <3>1. Listed(matches) \subseteq Words(Depth)
      BY <1>1, <1>3, <1>4 DEF Reads
    <3>2. Key(at) \in Keys /\ Begins(Stem(Depth), Key(at))
      BY <1>3, <1>10, <1>13, KeysAre
    <3>3. Taken(Key(at)) \subseteq Words(Depth)
      BY <3>2 DEF Words
    <3>. QED BY <1>9, <2>2, <3>1, <3>3
  <2>7. CASE Len(matches') >= search.maxResults \/ at + 1 = Total
    <3>1. place' = "chop" /\ at' = at
      BY <1>1, <1>13, <2>7
    <3>2. Stage'
      BY <1>1, <1>2, <1>3, <1>4, <1>8, <3>1, Unmoved DEF Stage
    <3>3. Complete(Depth)'
      <4>1. CASE Len(matches') >= search.maxResults
        BY <1>1, <4>1 DEF Complete
      <4>2. CASE at + 1 = Total
        <5>1. \A i \in Position : i <= at
          BY <1>10, <1>11, <4>2 DEF Position
        <5>2. \A i \in Position :
                 Begins(Stem(Depth), Key(i)) => Taken(Key(i)) \subseteq Listed(matches)'
          BY <2>2, <2>3, <5>1
        <5>3. Words(Depth) \subseteq Listed(matches)'
          BY <1>3, <5>2, AllRead
        <5>. QED BY <1>9, <5>3 DEF Complete
      <4>. QED BY <2>7, <4>1, <4>2
    <3>4. FirstRead(Depth)'
      <4>1. Begins(Stem(Depth), Key(chain)) /\ Taken(Key(chain)) \subseteq Listed(matches)'
        BY <1>10, <1>11, <2>2, <2>3
      <4>2. ASSUME NEW i \in Position, Begins(Stem(Depth), Key(i)),
                   \A j \in Position : j < i => ~Begins(Stem(Depth), Key(j))
            PROVE  Taken(Key(i)) \subseteq Listed(matches)'
        <5>1. chain <= i /\ ~(chain < i)
          BY <1>10, <2>3, <4>1, <4>2
        <5>2. i = chain
          BY <1>10, <1>11, <5>1
        <5>. QED BY <4>1, <5>2
      <4>3. /\ Position' = Position
            /\ \A i : Key(i)' = Key(i)
            /\ \A k : Taken(k)' = Taken(k)
        BY <1>2, Unmoved
      <4>. QED BY <1>8, <4>2, <4>3 DEF FirstRead, Begins
    <3>5. Reads'
      BY <1>1, <2>6, <3>1, <3>3, <3>4 DEF Reads
    <3>. QED BY <1>5, <1>7, <2>4, <2>5, <3>2, <3>5 DEF SearchInv
  <2>8. CASE ~(Len(matches') >= search.maxResults \/ at + 1 = Total)
    <3>1. place' = "walk" /\ at' = at + 1
      BY <1>1, <1>13, <2>8
    <3>2. at + 1 \in Position /\ chain <= at + 1 /\ Len(matches') < search.maxResults
      <4>1. at \in Nat /\ at < Total /\ chain \in Nat /\ Total \in Nat
        BY <1>3, <1>10, <1>11, KeyOrder DEF LookupInv
      <4>2. at + 1 \in Position
        BY <2>8, <4>1 DEF Position
      <4>. QED BY <1>10, <2>2, <2>8, <4>1, <4>2
    <3>3. Stage'
      BY <1>1, <1>2, <1>3, <1>4, <1>8, <1>10, <3>1, <3>2, Unmoved DEF Stage
    <3>4. Walked'
      <4>1. \A i \in Position : i < at + 1 => i <= at
        BY <1>10, <1>11
      <4>2. \A i \in Position : chain <= i /\ i < at + 1 =>
                 Begins(Stem(Depth), Key(i)) /\ Taken(Key(i)) \subseteq Listed(matches)'
        BY <2>2, <2>3, <4>1
      <4>3. Position' = Position /\ (\A i : Key(i)' = Key(i)) /\ \A k : Taken(k)' = Taken(k)
        BY <1>2, Unmoved
      <4>4. folded' = Stem(Depth) /\ search' = search
        BY <1>1, <1>2, <1>10
      <4>. QED BY <1>2, <3>1, <3>2, <4>2, <4>3, <4>4 DEF Walked, Begins
    <3>5. ASSUME Depth > 0 PROVE Complete(Depth - 1)' /\ FirstRead(Depth - 1)'
      <4>1. Complete(Depth - 1) /\ FirstRead(Depth - 1)
        BY <1>1, <1>3, <1>4, <3>5 DEF Reads
      <4>. DEFINE d == Depth - 1
      <4>2. \E n : n = d
        OBVIOUS
      <4>3. PICK n : n = d
        BY <4>2
      <4>4. Complete(n) /\ FirstRead(n)
        BY <4>1, <4>3
      <4>5. Complete(n)' /\ FirstRead(n)'
        BY <2>2, <4>4
      <4>6. d' = n
        BY <1>8, <4>3
      <4>7. Complete(d)'
        BY <4>5, <4>6 DEF Complete, Words, Begins, Stem
      <4>8. FirstRead(d)'
        BY <4>5, <4>6 DEF FirstRead, Begins, Stem
      <4>. QED BY <4>7, <4>8
    <3>6. Reads'
      BY <1>1, <1>8, <2>6, <3>1, <3>4, <3>5 DEF Reads
    <3>. QED BY <1>5, <1>7, <2>4, <2>5, <3>3, <3>6 DEF SearchInv
  <2>. QED BY <2>7, <2>8
<1>. QED BY <1>12, <1>13

\* A failure leaves the matches, or adds a part of a chain to them.
LEMMA FailInv == SearchInv /\ Fail => SearchInv'
<1>. SUFFICES ASSUME SearchInv, Fail PROVE SearchInv'
  OBVIOUS
<1>1. /\ place \in {"lookup", "walk"} /\ place' = "failed"
      /\ UNCHANGED <<vars, str, search, charsLeftToChop, at, isCancelled>>
  BY DEF Fail
<1>2. Still /\ target' = target
  BY <1>1 DEF vars, Still
<1>3. LookupInv /\ SearchTypes /\ Stage /\ Reads /\ Ordered /\ ArticlesExact
  BY DEF SearchInv
<1>4. LookupInv'
  BY <1>1, <1>3, LookupKept
<1>5. Depth' = Depth /\ Stem(Depth)' = Stem(Depth) /\ initialFoldedSize' = initialFoldedSize
  <2>1. Depth' = Depth
    BY <1>1, <1>2, Unmoved DEF Depth
  <2>. QED BY <1>2, <2>1 DEF Stem, Still, initialFoldedSize
<1>6. Words(Depth)' = Words(Depth)
  BY <1>2, <1>5 DEF Words, Still, Keys, Begins, Stem, Taken, Takes, initialFoldedSize
<1>7. Stage'
  BY <1>1, <1>2, <1>3, <1>5, Unmoved DEF Stage
<1>8. ArticlesExact'
  BY <1>1 DEF ArticlesExact
<1>9. CASE search.articles
  <2>1. search'.articles
    BY <1>1, <1>9
  <2>2. SearchTypes' /\ Reads' /\ Ordered'
    BY <1>1, <1>3, <2>1 DEF SearchTypes, Reads, Ordered
  <2>. QED BY <1>4, <1>7, <1>8, <2>2 DEF SearchInv
<1>10. CASE ~search.articles /\ matches' = matches
  <2>1. SearchTypes'
    BY <1>1, <1>3, <1>10 DEF SearchTypes
  <2>2. Reads'
    <3>1. Listed(matches) \subseteq Words(Depth)
      BY <1>1, <1>3, <1>10 DEF Reads
    <3>2. Listed(matches)' \subseteq Words(Depth)'
      BY <1>6, <1>10, <3>1 DEF Listed
    <3>. QED BY <1>1, <3>2 DEF Reads
  <2>3. Ordered'
    BY <1>1, <1>2, <1>3, <1>5, <1>10, Unmoved, SameMatches DEF Ordered
  <2>. QED BY <1>4, <1>7, <1>8, <2>1, <2>2, <2>3 DEF SearchInv
<1>11. CASE /\ ~search.articles /\ place = "walk" /\ Begins(folded, Key(at))
            /\ \E e \in DOMAIN Chains[Key(at)] : matches' = AddEntries(matches, Key(at), e - 1)
  <2>1. Walking /\ at \in Position /\ Key(at) \in Keys /\ Begins(Stem(Depth), Key(at))
    BY <1>3, <1>11, KeysAre DEF Walking, Stage, folded
  <2>2. matches \in Seq(Nat) /\ Distinct(matches)
    BY <1>3, <1>11 DEF SearchTypes
  <2>3. PICK e \in DOMAIN Chains[Key(at)] : matches' = AddEntries(matches, Key(at), e - 1)
    BY <1>11
  <2>. DEFINE k == Key(at)
              ws == TakenTo(k, e - 1)
  <2>4. IsChain(Chains[k])
    BY <1>3, <2>1, KeysAre, ChainsAssumption DEF IsChain
  <2>5. e - 1 \in Nat /\ e - 1 <= Len(Chains[k])
    BY <2>3, <2>4, LenProperties DEF IsChain
  <2>6. Grew(matches, matches', ws)
    <3>. HIDE DEF k
    <3>. QED BY <2>2, <2>3, <2>4, <2>5, AddEntriesGrows DEF k
  <2>7. ws \subseteq Taken(k)
    BY <2>4, <2>5, LenProperties DEF TakenTo, Taken, IsChain
  <2>8. SearchTypes'
    BY <1>1, <1>3, <2>6 DEF SearchTypes, Grew
  <2>9. Reads'
    <3>1. Listed(matches) \subseteq Words(Depth)
      BY <1>3, <1>11 DEF Reads
    <3>2. Taken(k) \subseteq Words(Depth)
      BY <2>1 DEF Words
    <3>3. Listed(matches') = Listed(matches) \cup ws
      BY <2>6 DEF Grew
    <3>4. Listed(matches)' \subseteq Words(Depth)'
      BY <1>6, <2>7, <3>1, <3>2, <3>3 DEF Listed
    <3>. QED BY <1>1, <3>4 DEF Reads
  <2>10. Ordered'
    <3>. HIDE DEF k, ws
    <3>1. SUFFICES ASSUME ~search.allowMiddleMatches
                   PROVE  /\ \A i \in DOMAIN matches' : Shared(matches'[i]) \in
                                 initialFoldedSize - Depth .. initialFoldedSize
                          /\ \A i, j \in DOMAIN matches' : i < j =>
                                 Shared(matches'[i]) >= Shared(matches'[j])
      BY <1>2, <1>5, Unmoved DEF Ordered, NearestFirst, Still
    <3>2. ws \subseteq Taken(Key(at))
      BY <2>7 DEF k
    <3>. QED BY <1>2, <1>3, <2>1, <2>6, <3>1, <3>2, ReadOrdered
  <2>. QED BY <1>4, <1>7, <1>8, <2>8, <2>9, <2>10 DEF SearchInv
<1>. QED BY <1>1, <1>9, <1>10, <1>11 DEF Fail

LEMMA SearchInitInv == SearchInit => SearchInv
<1>. SUFFICES ASSUME SearchInit PROVE SearchInv
  OBVIOUS
<1>1. /\ Init /\ str = target /\ search \in Searches /\ place = "start"
      /\ matches = <<>> /\ isCancelled = FALSE
  BY DEF SearchInit
<1>2. LookupInv
  BY <1>1, RootInv
<1>3. target \in Targets /\ ~returned
  BY <1>1 DEF Init
<1>4. DOMAIN matches = {} /\ matches \in Seq(Nat)
  BY <1>1
<1>5. SearchTypes
  BY <1>1, <1>3, <1>4 DEF SearchTypes, Distinct
<1>6. Stage
  BY <1>1, <1>3 DEF Stage
<1>7. Reads
  BY <1>1 DEF Reads
<1>8. Ordered
  BY <1>1, <1>4 DEF Ordered, NearestFirst
<1>9. ArticlesExact
  BY <1>1 DEF ArticlesExact
<1>. QED BY <1>2, <1>5, <1>6, <1>7, <1>8, <1>9 DEF SearchInv

LEMMA SearchIdleInv == SearchInv /\ UNCHANGED allVars => SearchInv'
<1>. SUFFICES ASSUME SearchInv, UNCHANGED allVars PROVE SearchInv'
  OBVIOUS
<1>1. /\ UNCHANGED vars
      /\ UNCHANGED <<str, search, place, charsLeftToChop, at, matches, isCancelled>>
  BY DEF allVars, searchVars
<1>2. Still /\ target' = target /\ chain' = chain /\ returned' = returned
  BY <1>1 DEF vars, Still
<1>3. LookupInv /\ SearchTypes /\ Stage /\ Reads /\ Ordered /\ ArticlesExact
  BY DEF SearchInv
<1>4. LookupInv'
  BY <1>1, <1>3, LookupKept
<1>5. SearchTypes'
  BY <1>1, <1>3 DEF SearchTypes
<1>6. Depth' = Depth /\ Stem(Depth)' = Stem(Depth)
  BY <1>1, <1>2, SameDepth
<1>7. Stage'
  BY <1>1, <1>2, <1>3, <1>6, Unmoved DEF Stage
<1>8. Reads'
  <2>1. place = "walk" /\ ~search.articles => Walked'
    <3>1. ASSUME place = "walk", ~search.articles PROVE Walked
      BY <1>3, <3>1 DEF Reads
    <3>2. folded' = folded /\ Listed(matches)' = Listed(matches)
      BY <1>1, <1>2 DEF folded, Listed
    <3>. QED BY <1>1, <1>2, <3>1, <3>2, Unmoved DEF Walked, Begins
  <2>. QED BY <1>1, <1>2, <1>3, <1>6, <2>1, SameDepth DEF Reads
<1>9. Ordered'
  BY <1>1, <1>2, <1>3, <1>6, Unmoved, SameMatches DEF Ordered
<1>10. ArticlesExact'
  <2>1. \E k : k = str
    OBVIOUS
  <2>2. PICK k : k = str
    BY <2>1
  <2>3. str' = k
    BY <1>1, <2>2
  <2>4. place = "done" /\ search.articles => matches = IF k \in Keys THEN Articles(k) ELSE <<>>
    BY <1>3, <2>2 DEF ArticlesExact
  <2>5. place' = "done" /\ search'.articles => matches' = IF k \in Keys' THEN Articles(k) ELSE <<>>
    BY <1>1, <1>2, <2>4, Unmoved
  <2>. QED BY <2>3, <2>5 DEF ArticlesExact
<1>. QED BY <1>4, <1>5, <1>7, <1>8, <1>9, <1>10 DEF SearchInv

\* The invariant above holds in every state of a search.
THEOREM SearchInvHolds == SearchSpec => []SearchInv
<1>1. SearchInv /\ [SearchNext]_allVars => SearchInv'
  BY StartInv, LookupStepInv, FindArticlesInv, StartWalkInv, WalkInv, ChopInv, EndInv,
     FailInv, CancelInv, SearchIdleInv DEF SearchNext, Worker
<1>. QED
  BY SearchInitInv, <1>1, PTL DEF SearchSpec

-----------------------------------------------------------------------------
(***************************************************************************)
(* Whatever the index, the size of its nodes and the word, the lookup      *)
(* returns the first chain that is not before the word, also in the        *)
(* lookups of the stems.                                                   *)
(***************************************************************************)
THEOREM LookupHolds == SearchSpec => []LookupCorrect
<1>1. SearchInv => LookupCorrect
  BY DEF SearchInv, LookupInv
<1>. QED
  BY <1>1, SearchInvHolds, PTL

LEMMA CountsDistinct ==
    ASSUME NEW ms \in Seq(Nat), Distinct(ms)
    PROVE  Cardinality(Listed(ms)) = Len(ms)
<1>1. Len(ms) \in Nat /\ DOMAIN ms = 1 .. Len(ms)
  BY LenProperties
<1>. DEFINE L == Len(ms)
            f == [i \in 1 .. L |-> ms[i]]
<1>2. \A i \in 1 .. L : f[i] = ms[i]
  OBVIOUS
<1>3. f \in [1 .. L -> Listed(ms)]
  BY <1>1 DEF Listed
<1>4. DOMAIN f = 1 .. L
  OBVIOUS
<1>. HIDE DEF f
<1>5. IsInjective(f)
  BY <1>1, <1>2, <1>4 DEF Distinct, IsInjective
<1>6. \A t \in Listed(ms) : \E s \in 1 .. L : f[s] = t
  BY <1>1, <1>2 DEF Listed
<1>7. f \in Bijection(1 .. L, Listed(ms))
  BY <1>3, <1>5, <1>6 DEF Bijection, Injection, Surjection
<1>8. ExistsBijection(1 .. L, Listed(ms))
  BY <1>7 DEF ExistsBijection
<1>. HIDE DEF L
<1>9. L \in Nat
  BY <1>1 DEF L
<1>10. Cardinality(Listed(ms)) = L
  BY <1>8, <1>9, FS_CountingElements
<1>. QED BY <1>10 DEF L

(***************************************************************************)
(* Whatever the dictionary, the search and the moment it is cancelled, a   *)
(* search that was not cancelled has every word that begins with the one   *)
(* asked or a stem of it, once, and no other, unless it has as many as it  *)
(* may; and findArticles() has the articles of exactly the word.           *)
(***************************************************************************)
THEOREM AnswerExactHolds == SearchSpec => []AnswerExact
<1>1. SearchInv => SearchComplete
  <2>. SUFFICES ASSUME SearchInv, place \in {"done", "failed"}, ~search.articles
                PROVE  /\ Cardinality(Listed(matches)) = Len(matches)
                       /\ Listed(matches) \subseteq Wanted
                       /\ \/ Listed(matches) = Wanted
                          \/ isCancelled \/ place = "failed"
                          \/ Len(matches) >= search.maxResults
    BY DEF SearchComplete, Listed
  <2>1. SearchTypes /\ Stage /\ Reads /\ LookupInv
    BY DEF SearchInv
  <2>2. Cardinality(Listed(matches)) = Len(matches)
    BY <2>1, CountsDistinct DEF SearchTypes
  <2>3. /\ Listed(matches) \subseteq Words(Depth)
        /\ ~isCancelled /\ place # "failed" => Complete(ToChop)
    BY <2>1 DEF Reads
  <2>4. Words(Depth) \subseteq Wanted
    <3>1. str \in Targets /\ charsLeftToChop \in 0 .. ToChop
      BY <2>1 DEF SearchTypes, Stage
    <3>2. ToChop \in 0 .. initialFoldedSize /\ initialFoldedSize \in Nat
      BY <2>1, ToChopBound DEF SearchTypes
    <3>. DEFINE d == Depth
                e == ToChop
    <3>3. d \in 0 .. initialFoldedSize /\ e \in 0 .. initialFoldedSize /\ d <= e
      BY <3>1, <3>2 DEF Depth
    <3>4. \A k \in Keys : k \in Targets
      BY <2>1, KeysAre
    <3>. HIDE DEF d, e
    <3>5. \A k \in Keys : Begins(Stem(d), k) => Begins(Stem(e), k)
      BY <3>1, <3>3, <3>4, ShorterStem
    <3>6. Words(d) \subseteq Words(e)
      BY <3>5 DEF Words
    <3>. QED BY <3>6 DEF d, e, Wanted
  <2>. QED BY <2>2, <2>3, <2>4 DEF Complete, Wanted
<1>2. SearchInv => TypeOK /\ ArticlesExact
  BY DEF SearchInv, LookupInv
<1>. QED
  BY <1>1, <1>2, SearchInvHolds, PTL DEF AnswerExact

(***************************************************************************)
(* What a search by stems finds stands in the order of how much of the     *)
(* word it shares, at every moment.                                        *)
(***************************************************************************)
THEOREM NearestFirstHolds == SearchSpec => []NearestFirst
<1>1. SearchInv => NearestFirst
  BY DEF SearchInv, Ordered, NearestFirst
<1>. QED
  BY <1>1, SearchInvHolds, PTL
=============================================================================
