---------------------------- MODULE BtreeLookup ----------------------------
(***************************************************************************)
(* The lookup of a word in the index of a dictionary:                      *)
(* BtreeIndex::findChainOffsetExactOrPrefix() on the tree that             *)
(* buildBtreeNode() made (src/src/btreeidx.cc).                            *)
(*                                                                         *)
(* The tree is a function of the sorted keys: buildBtreeNode() gives a     *)
(* node the next `size` keys, makes it a leaf if they fit and otherwise    *)
(* cuts them evenly among its maxElements + 1 children, keeping the first  *)
(* key of every child but the leftmost as separator.  So a node is known   *)
(* by its first key and its size.  Leaves are written from left to right   *)
(* and each is linked to the next: the leaf after one that ends at key i   *)
(* starts with key i.  Words are numbers in the order of the comparison,   *)
(* 0 is the empty word; buildIndex() indexes no empty word.                *)
(***************************************************************************)
EXTENDS Integers, Sequences

CONSTANTS
    Indexes,        \* the sequences of indexed words: folded, in order
    MaxElements,    \* indexNodeSize
    Targets         \* the words looked up

ASSUME IndexesAssumption ==
    \A ks \in Indexes :
        /\ ks \in Seq(Nat \ {0})
        /\ \A i, j \in DOMAIN ks : i < j => ks[i] < ks[j]

ASSUME MaxElementsAssumption == MaxElements \in Nat \ {0}

ASSUME TargetsAssumption == Targets \subseteq Nat

VARIABLES
    keys,                   \* the index, from 1
    target,
    first, size,            \* the node reached: its first key, how many it has
    window, windowSize,     \* of the binary search in it
    returned,
    chain,                  \* the chain returned, or None
    exactMatch

vars == <<keys, target, first, size, window, windowSize, returned, chain, exactMatch>>

Total == Len(keys)
Position == 0 .. Total - 1
Key(i) == keys[i + 1]
None == -1

IsLeaf(s) == s <= MaxElements

\* buildIndex(): the size of the nodes for n words, where r * r is the
\* largest square not above n.
BtreeMinElements == 64
BtreeMaxElements == 8192

indexNodeSize(r) ==
    IF r + 1 < BtreeMinElements THEN BtreeMinElements
    ELSE IF r + 1 > BtreeMaxElements THEN BtreeMaxElements ELSE r + 1

\* curEntry: where child x of a node of s keys starts.
Cut(s, x) == (s * x) \div (MaxElements + 1)

\* The x-th separator of the node reached, the first key of child x + 1.
Separator(x) == Key(first + Cut(size, x + 1))

TypeOK ==
    /\ keys \in Indexes
    /\ target \in Targets
    /\ first \in 0 .. Total
    /\ size \in 0 .. Total
    /\ window \in Nat
    /\ windowSize \in Nat
    /\ returned \in BOOLEAN
    /\ chain \in Position \cup {None}
    /\ exactMatch \in BOOLEAN

\* A node's window is over its separators, a leaf's over its chains.
Elements(s) == IF IsLeaf(s) THEN s ELSE MaxElements

Init ==
    /\ keys \in Indexes
    /\ target \in Targets
    /\ first = 0
    /\ size = Total
    /\ window = 0
    /\ windowSize = Elements(Total)
    /\ returned = FALSE
    /\ chain = None
    /\ exactMatch = FALSE

-----------------------------------------------------------------------------
Return(c, exact) ==
    /\ returned' = TRUE
    /\ chain' = c
    /\ exactMatch' = exact
    /\ UNCHANGED <<keys, target, first, size, window, windowSize>>

Narrow(w, n) ==
    /\ window' = w
    /\ windowSize' = n
    /\ UNCHANGED <<keys, target, first, size, returned, chain, exactMatch>>

Descend(x) ==
    /\ first' = first + Cut(size, x)
    /\ size' = Cut(size, x + 1) - Cut(size, x)
    /\ window' = 0
    /\ windowSize' = Elements(size')
    /\ UNCHANGED <<keys, target, returned, chain, exactMatch>>

(***************************************************************************)
(* The empty word: the first chain of the leftmost leaf.                   *)
(***************************************************************************)
LeftmostChild ==
    /\ ~returned /\ target = 0 /\ ~IsLeaf(size)
    /\ Descend(0)

LeftmostChain ==
    /\ ~returned /\ target = 0 /\ IsLeaf(size)
    /\ Return(IF size = 0 THEN None ELSE first, FALSE)

(***************************************************************************)
(* One probe of a node.  The search shoots in the middle of the bytes of   *)
(* the strings in the window, which may be in any of them.                 *)
(***************************************************************************)
\* Mutant: the window does not shrink on the way to the right.
ProbeNodeStuck(x) ==
    LET s == Separator(x)
    IN  \/ target = s /\ Descend(x + 1)
        \/ /\ target < s
           /\ IF x = window THEN Descend(x) ELSE Narrow(window, x - window)
        \/ /\ target > s
           /\ IF windowSize = 1 THEN Descend(x + 1) ELSE Narrow(window, windowSize)

ProbeNode(x) ==
    LET s == Separator(x)
    IN  \/ target = s /\ Descend(x + 1)
        \/ /\ target < s
           /\ IF x = window THEN Descend(x) ELSE Narrow(window, x - window)
        \/ /\ target > s
           /\ LET left == windowSize - (x - window) - 1
              IN  IF left = 0 THEN Descend(x + 1) ELSE Narrow(x + 1, left)

SearchNode ==
    /\ ~returned /\ target # 0 /\ ~IsLeaf(size)
    /\ \E x \in window .. window + windowSize - 1 : ProbeNode(x)

(***************************************************************************)
(* The search in a leaf.  A word past its last chain may still be a prefix *)
(* of the first chain of the next leaf.                                    *)
(***************************************************************************)
\* Mutant: the next leaf is not looked at.
AfterInLeaf(c) == IF c = size - 1 THEN None ELSE first + c + 1

\* Mutant: the last leaf is taken to have a next one.
AfterPastEnd(c) == first + c + 1

After(c) ==
    IF c # size - 1 THEN first + c + 1
    ELSE IF first + size < Total THEN first + size ELSE None

EmptyLeaf ==
    /\ ~returned /\ target # 0 /\ size = 0
    /\ Return(None, FALSE)

SearchLeaf ==
    /\ ~returned /\ target # 0 /\ IsLeaf(size) /\ size # 0
    /\ LET c == window + windowSize \div 2
           word == Key(first + c)
           below == windowSize \div 2
           above == windowSize - (windowSize \div 2 + 1)
       IN  \/ target = word /\ Return(first + c, TRUE)
           \/ /\ target < word
              /\ IF below = 0 THEN Return(first + c, FALSE) ELSE Narrow(window, below)
           \/ /\ target > word
              /\ IF above = 0 THEN Return(After(c), FALSE) ELSE Narrow(c + 1, above)

Next == LeftmostChild \/ LeftmostChain \/ SearchNode \/ EmptyLeaf \/ SearchLeaf

Spec == Init /\ [][Next]_vars

-----------------------------------------------------------------------------
\* What the search has ruled out: keys outside the node, and separators or
\* chains outside the window.
Ruled ==
    target # 0 =>
        /\ \A i \in Position : i < first => Key(i) < target
        /\ \A i \in Position : first + size <= i => target < Key(i)
        /\ IsLeaf(size) =>
              \A c \in 0 .. size - 1 :
                  /\ c < window => Key(first + c) < target
                  /\ window + windowSize <= c => target < Key(first + c)
        /\ ~IsLeaf(size) =>
              \A x \in 0 .. MaxElements - 1 :
                  /\ x < window => Separator(x) < target
                  /\ window + windowSize <= x => target < Separator(x)

Shape ==
    /\ first + size <= Total
    /\ window + windowSize <= Elements(size)
    /\ size > 0 => windowSize > 0
    /\ size = 0 => Total = 0
    /\ target = 0 => first = 0

\* The first chain that is not before the word.
IsLowerBound(c, t) ==
    /\ c = None => \A i \in Position : Key(i) < t
    /\ c # None => /\ c \in Position
                   /\ t <= Key(c)
                   /\ \A i \in Position : i < c => Key(i) < t

(***************************************************************************)
(* The lookup returns the first chain of the index that is not before the  *)
(* word, so that every word that begins with it follows from there, and    *)
(* says exactly whether it is the word itself; also when the word falls    *)
(* between two leaves or on a separator.                                   *)
(***************************************************************************)
LookupCorrect ==
    returned =>
        /\ IsLowerBound(chain, target)
        /\ exactMatch = (chain # None /\ Key(chain) = target)
=============================================================================
