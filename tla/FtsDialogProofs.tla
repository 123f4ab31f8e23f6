--------------------------- MODULE FtsDialogProofs ---------------------------
(***************************************************************************)
(* Proofs about the full-text search dialog, for any number of             *)
(* dictionaries, of words they answer and of nested stops: the OK button   *)
(* is enabled just when no request is left, the list is what the requests  *)
(* of the last search have answered, and its count is of them only.        *)
(***************************************************************************)
EXTENDS FtsDialog, SequenceTheorems, FiniteSetTheorems, WellFoundedInduction, TLAPS

(***************************************************************************)
(* The inductive invariant                                                 *)
(***************************************************************************)

\* Where a worker is while it is not through with its request
Active == {"running", "counted", "flagged"}

Posts == [kind : {"count", "finished"}, req : Requests] \cup [kind : {"close"}, req : {<<>>}]

TypeInv ==
    /\ round \in 0..MaxRounds
    /\ reqs \in Seq(Requests)
    /\ worker \in [Requests -> Active \cup {"none", "ended"}]
    /\ isCancelled \subseteq Requests
    /\ found \in [Requests -> Seq(Words)]
    /\ \A r \in Requests : IsPrefix(found[r], Hits[r[2]])
    /\ events \in Seq(Posts)
    /\ settled \in BOOLEAN /\ okEnabled \in BOOLEAN
    /\ results \in Seq(Entries)
    /\ matchedCount \in Nat
    /\ frames \in Seq({"reject", "close"}) /\ Len(frames) <= MaxFrames
    /\ dialog \in {"none", "open", "accepting", "deleted"}

\* The requests of the list are those of the last search, and every worker that is not
\* through with it has its request in the list.
ReqsInv ==
    /\ \A r \in Requests : worker[r] # "none" => r[1] = round
    /\ \A r \in Requests : worker[r] \in Active => r \in ToSet(reqs)
    /\ \A r \in ToSet(reqs) : worker[r] # "none"

\* When there is no request and the posted events are delivered, none is left.
IdleInv ==
    /\ settled /\ reqs = <<>> => events = <<>>
    /\ dialog \in {"none", "deleted"} => reqs = <<>> /\ settled
    /\ dialog = "open" => (okEnabled <=> reqs = <<>>)
    /\ dialog = "accepting" => ~okEnabled
    /\ dialog # "none" => round # 0

Counts(q, r) == {i \in DOMAIN q : q[i].kind = "count" /\ q[i].req = r}

Once(q) == \A r \in Requests : \A i, j \in Counts(q, r) : i = j

\* The requests whose matches are still to be counted
Pend(q) == {r \in Requests : Counts(q, r) # {}}

\* The matches of a request are posted once, after its query.
PostedInv == Once(events) /\ \A r \in Pend(events) : worker[r] \notin {"none", "running"}

\* The dictionaries whose matches were counted, or never will be
Counted == {d \in 1..Dicts : /\ worker[<<round, d>>] \notin {"none", "running"}
                             /\ <<round, d>> \notin Pend(events)}

CountInv == dialog \in {"open", "accepting"} => matchedCount <= MatchesOf(Counted)

\* list has an entry that reads f under the name of d.
Has(list, f, d) == \E i \in DOMAIN list : Fold[list[i].word] = f /\ d \in list[i].dicts

\* s has a headword that reads f.
Reads(s, f) == \E i \in DOMAIN s : Fold[s[i]] = f

ListInv ==
    dialog \in {"open", "accepting"} =>
        \A f, d : Has(results, f, d) <=> d \in Gone /\ Reads(found[<<round, d>>], f)

IInv == TypeInv /\ ReqsInv /\ IdleInv /\ PostedInv /\ CountInv /\ ListInv


(***************************************************************************)
(* Loops: what a recursive function over 0..n is.                          *)
(***************************************************************************)
LEMMA SetInduction ==
  ASSUME NEW S, 0 \in S, \A n \in Nat : n \in S => n + 1 \in S
  PROVE  Nat \subseteq S
  <1> DEFINE T == Nat \ S
  <1> SUFFICES ASSUME T # {} PROVE FALSE
    OBVIOUS
  <1>1. T \subseteq Nat
    OBVIOUS
  <1>2. IsWellFoundedOn(OpToRel(<, Nat), Nat)
    BY Zenon, NatLessThanWellFounded
  <1> HIDE DEF T
  <1>3. PICK x \in T : \A y \in T : ~(<<y, x>> \in OpToRel(<, Nat))
    BY <1>1, <1>2, WFMin
  <1>4. x \in Nat /\ x # 0
    BY <1>1 DEF T
  <1>5. x - 1 \in Nat /\ x - 1 < x /\ (x - 1) + 1 = x
    BY <1>4
  <1>6. x - 1 \notin T
    BY <1>3, <1>4, <1>5 DEF OpToRel
  <1> QED BY <1>3, <1>4, <1>5, <1>6 DEF T

\* u begins with a and goes on, n times, by F.
Runs(u, D, n, a, F) ==
    u \in [0..n -> D] /\ u[0] = a /\ \A m \in 1..n : u[m] = F[<<m, u[m - 1]>>]

LEMMA RunExists ==
  ASSUME NEW D, NEW N \in Nat, NEW a \in D, NEW F \in [(1..N) \X D -> D]
  PROVE  \E u : Runs(u, D, N, a, F)
  <1> DEFINE S == {m \in Nat : m <= N => \E u : Runs(u, D, m, a, F)}
  <1>1. 0 \in S
    <2> DEFINE u == [m \in 0..0 |-> a]
    <2>1. Runs(u, D, 0, a, F)
      BY DEF Runs
    <2> QED BY <2>1
  <1>2. ASSUME NEW m \in Nat, m \in S PROVE m + 1 \in S
    <2> SUFFICES ASSUME m + 1 <= N PROVE \E u : Runs(u, D, m + 1, a, F)
      OBVIOUS
    <2>1. PICK u : Runs(u, D, m, a, F)
      BY <1>2
    <2> DEFINE v == [j \in 0..m + 1 |-> IF j = m + 1 THEN F[<<m + 1, u[m]>>] ELSE u[j]]
    <2>2. v[0] = u[0] /\ v[m + 1] = F[<<m + 1, u[m]>>] /\ v[m] = u[m]
      OBVIOUS
    <2>3. \A j \in 0..m : u[j] \in D
      BY <2>1 DEF Runs
    <2>4. m + 1 \in 1..N /\ u[m] \in D
      BY <2>3
    <2>5. <<m + 1, u[m]>> \in (1..N) \X D
      BY <2>4
    <2>6. F[<<m + 1, u[m]>>] \in D
      BY <2>5
    <2>7. v \in [0..m + 1 -> D]
      BY <2>3, <2>6
    <2>8. ASSUME NEW j \in 1..m + 1, j # m + 1 PROVE v[j] = F[<<j, v[j - 1]>>]
      <3>1. j \in 1..m /\ j \in 0..m + 1 /\ j - 1 \in 0..m + 1 /\ j - 1 # m + 1
        BY <2>8
      <3>2. v[j] = u[j] /\ v[j - 1] = u[j - 1]
        BY <2>8, <3>1
      <3> QED BY <2>1, <3>1, <3>2, Zenon DEF Runs
    <2>9. (m + 1) - 1 = m
      OBVIOUS
    <2> HIDE DEF v
    <2>10. u[0] = a
      BY <2>1 DEF Runs
    <2>11. \A j \in 1..m + 1 : v[j] = F[<<j, v[j - 1]>>]
      BY <2>2, <2>8, <2>9
    <2>12. Runs(v, D, m + 1, a, F)
      BY <2>2, <2>7, <2>10, <2>11, Zenon DEF Runs
    <2> QED BY <2>12
  <1> HIDE DEF S
  <1>3. N \in S
    BY <1>1, <1>2, SetInduction
  <1> QED BY <1>3 DEF S


LEMMA RunTyped ==
  ASSUME NEW D, NEW N \in Nat, NEW a \in D, NEW F \in [(1..N) \X D -> D], NEW u,
         u = [m \in 0..N |-> u[m]], u[0] = a,
         \A m \in 1..N : u[m - 1] \in D => u[m] = F[<<m, u[m - 1]>>]
  PROVE  Runs(u, D, N, a, F)
  <1> DEFINE S == {m \in Nat : m <= N => u[m] \in D}
  <1>1. 0 \in S
    OBVIOUS
  <1>2. ASSUME NEW m \in Nat, m \in S PROVE m + 1 \in S
    <2> SUFFICES ASSUME m + 1 <= N PROVE u[m + 1] \in D
      OBVIOUS
    <2>1. m + 1 \in 1..N /\ (m + 1) - 1 = m /\ u[m] \in D
      BY <1>2
    <2>2. u[m + 1] = F[<<m + 1, u[m]>>]
      BY <2>1
    <2>3. <<m + 1, u[m]>> \in (1..N) \X D
      BY <2>1
    <2> QED BY <2>2, <2>3
  <1> HIDE DEF S
  <1>3. Nat \subseteq S
    BY <1>1, <1>2, SetInduction
  <1>4. \A m \in 0..N : u[m] \in D
    BY <1>3 DEF S
  <1>5. u \in [0..N -> D]
    BY <1>4
  <1>6. \A m \in 1..N : u[m] = F[<<m, u[m - 1]>>]
    <2>1. \A m \in 1..N : m - 1 \in 0..N
      OBVIOUS
    <2> QED BY <1>4, <2>1
  <1> QED BY <1>5, <1>6 DEF Runs


LEMMA AppendedSet ==
  ASSUME NEW T, NEW s \in Seq(T), NEW e \in T
  PROVE  ToSet(Append(s, e)) = ToSet(s) \cup {e}
  <1>1. Len(s) \in Nat /\ DOMAIN s = 1..Len(s)
    BY LenProperties
  <1>2. /\ Append(s, e) \in Seq(T)
        /\ Len(Append(s, e)) = Len(s) + 1
        /\ \A i \in 1..Len(s) : Append(s, e)[i] = s[i]
        /\ Append(s, e)[Len(s) + 1] = e
    BY AppendProperties
  <1>3. DOMAIN Append(s, e) = 1..Len(s) + 1
    BY <1>2, LenProperties
  <1>4. \A i \in 1..Len(s) + 1 : i \in 1..Len(s) \/ i = Len(s) + 1
    BY <1>1
  <1>5. \A i \in 1..Len(s) : i \in 1..Len(s) + 1
    BY <1>1
  <1>6. Len(s) + 1 \in 1..Len(s) + 1
    BY <1>1
  <1>7. ToSet(Append(s, e)) \subseteq ToSet(s) \cup {e}
    BY <1>1, <1>2, <1>3, <1>4 DEF ToSet
  <1>8. ToSet(s) \cup {e} \subseteq ToSet(Append(s, e))
    BY <1>1, <1>2, <1>3, <1>5, <1>6 DEF ToSet
  <1> QED BY <1>7, <1>8

LEMMA ConcatSet ==
  ASSUME NEW T, NEW s \in Seq(T), NEW t \in Seq(T)
  PROVE  ToSet(s \o t) = ToSet(s) \cup ToSet(t)
  <1>1. Len(s) \in Nat /\ DOMAIN s = 1..Len(s) /\ Len(t) \in Nat /\ DOMAIN t = 1..Len(t)
    BY LenProperties
  <1>2. /\ s \o t \in Seq(T)
        /\ Len(s \o t) = Len(s) + Len(t)
        /\ \A i \in 1..Len(s) + Len(t) :
               (s \o t)[i] = IF i <= Len(s) THEN s[i] ELSE t[i - Len(s)]
    BY ConcatProperties
  <1>3. DOMAIN (s \o t) = 1..Len(s) + Len(t)
    BY <1>2, LenProperties
  <1>4. ASSUME NEW i \in 1..Len(s) + Len(t)
        PROVE  (s \o t)[i] \in ToSet(s) \cup ToSet(t)
    <2>1. CASE i <= Len(s)
      BY <1>1, <1>2, <2>1 DEF ToSet
    <2>2. CASE ~(i <= Len(s))
      <3>1. i - Len(s) \in 1..Len(t)
        BY <1>1, <2>2
      <3> QED BY <1>1, <1>2, <2>2, <3>1 DEF ToSet
    <2> QED BY <2>1, <2>2
  <1>5. ASSUME NEW i \in 1..Len(s) PROVE s[i] \in ToSet(s \o t)
    <2>1. i \in 1..Len(s) + Len(t) /\ i <= Len(s)
      BY <1>1
    <2> QED BY <1>2, <1>3, <2>1 DEF ToSet
  <1>6. ASSUME NEW i \in 1..Len(t) PROVE t[i] \in ToSet(s \o t)
    <2>1. i + Len(s) \in 1..Len(s) + Len(t) /\ ~(i + Len(s) <= Len(s)) /\ (i + Len(s)) - Len(s) = i
      BY <1>1
    <2>2. (s \o t)[i + Len(s)] = t[i]
      BY <1>2, <2>1
    <2> QED BY <1>3, <2>1, <2>2 DEF ToSet
  <1>7. ToSet(s \o t) \subseteq ToSet(s) \cup ToSet(t)
    <2>1. ASSUME NEW x \in ToSet(s \o t) PROVE x \in ToSet(s) \cup ToSet(t)
      <3>1. PICK i \in 1..Len(s) + Len(t) : x = (s \o t)[i]
        BY <1>3 DEF ToSet
      <3> QED BY <1>4, <3>1
    <2> QED BY <2>1
  <1>8. ToSet(s) \subseteq ToSet(s \o t) /\ ToSet(t) \subseteq ToSet(s \o t)
    <2>1. \A x \in ToSet(s) : x \in ToSet(s \o t)
      BY <1>1, <1>5 DEF ToSet
    <2>2. \A x \in ToSet(t) : x \in ToSet(s \o t)
      BY <1>1, <1>6 DEF ToSet
    <2> QED BY <2>1, <2>2
  <1> QED BY <1>7, <1>8

LEMMA EmptySet ==
  ASSUME NEW T, NEW s \in Seq(T)
  PROVE  ToSet(s) = {} <=> s = <<>>
  <1>1. Len(s) \in Nat /\ DOMAIN s = 1..Len(s)
    BY LenProperties
  <1>2. s # <<>> => 1 \in DOMAIN s
    BY <1>1, EmptySeq
  <1> QED BY <1>2 DEF ToSet

LEMMA SetOfSeq ==
  ASSUME NEW T, NEW s \in Seq(T)
  PROVE  ToSet(s) \subseteq T
  BY LenProperties, ElementOfSeq DEF ToSet

\* Members(s, S), turn by turn
Keeps(u, s, S, n) ==
    u[0] = <<>> /\ \A m \in 1..n : u[m] = IF s[m] \in S THEN Append(u[m - 1], s[m]) ELSE u[m - 1]

LEMMA MembersIs ==
  ASSUME NEW T, NEW s \in Seq(T), NEW S
  PROVE  \E u \in [0..Len(s) -> Seq(T)] : Keeps(u, s, S, Len(s)) /\ Members(s, S) = u[Len(s)]
  <1> DEFINE L == Len(s)
             D == Seq(T)
             step(m, b) == IF s[m] \in S THEN Append(b, s[m]) ELSE b
             F == [p \in (1..L) \X D |-> step(p[1], p[2])]
             body(g) == [n \in 0..L |-> IF n = 0 THEN <<>> ELSE step(n, g[n - 1])]
  <1>1. \E a : a = (CHOOSE g : g = body(g)) /\ Members(s, S) = a[L]
    BY Zenon DEF Members
  <1>2. PICK a : a = (CHOOSE g : g = body(g)) /\ Members(s, S) = a[L]
    BY <1>1
  <1>3. L \in Nat /\ \A n \in 1..L : s[n] \in T
    BY LenProperties, ElementOfSeq
  <1>4. <<>> \in D
    BY EmptySeq
  <1>5. F \in [(1..L) \X D -> D]
    <2>1. ASSUME NEW p \in (1..L) \X D PROVE step(p[1], p[2]) \in D
      <3>1. p[1] \in 1..L /\ p[2] \in D /\ s[p[1]] \in T
        BY <1>3
      <3>2. Append(p[2], s[p[1]]) \in D
        BY <3>1, AppendProperties
      <3> QED BY <3>1, <3>2
    <2> QED BY <2>1
  <1>6. \A m \in 1..L : \A b \in D : F[<<m, b>>] = step(m, b)
    OBVIOUS
  <1> HIDE DEF L, D, F, step
  <1>7. PICK h : Runs(h, D, L, <<>>, F)
    BY <1>3, <1>4, <1>5, RunExists
  <1>8. h = body(h)
    <2>1. \A m \in 1..L : m - 1 \in 0..L
      BY <1>3
    <2>2. h \in [0..L -> D] /\ h[0] = <<>> /\ \A m \in 1..L : h[m] = F[<<m, h[m - 1]>>]
      BY <1>7 DEF Runs
    <2>3. \A m \in 1..L : h[m - 1] \in D
      BY <2>1, <2>2
    <2>4. \A m \in 1..L : h[m] = step(m, h[m - 1])
      BY <1>6, <2>2, <2>3
    <2>5. \A m \in 0..L : m = 0 \/ m \in 1..L
      BY <1>3
    <2>6. h = [m \in 0..L |-> h[m]]
      BY <2>2
    <2> QED BY <2>2, <2>4, <2>5, <2>6
  <1>9. a = body(a)
    BY <1>2, <1>8, Zenon
  <1>10. a[0] = <<>> /\ \A m \in 1..L : a[m] = step(m, a[m - 1])
    BY <1>3, <1>9
  <1>11. Runs(a, D, L, <<>>, F)
    <2>1. a = [m \in 0..L |-> a[m]]
      BY <1>9
    <2>2. \A m \in 1..L : a[m - 1] \in D => a[m] = F[<<m, a[m - 1]>>]
      BY <1>6, <1>10, Zenon
    <2> QED BY <1>3, <1>4, <1>5, <1>10, <2>1, <2>2, RunTyped, Zenon
  <1> QED BY <1>2, <1>10, <1>11 DEF Runs, Keeps, L, D, step

LEMMA KeptMembers ==
  ASSUME NEW T, NEW s \in Seq(T), NEW S
  PROVE  Members(s, S) \in Seq(T) /\ ToSet(Members(s, S)) = ToSet(s) \cap S
  <1>1. PICK u \in [0..Len(s) -> Seq(T)] :
            Keeps(u, s, S, Len(s)) /\ Members(s, S) = u[Len(s)]
    BY MembersIs
  <1>2. Len(s) \in Nat /\ DOMAIN s = 1..Len(s) /\ \A n \in 1..Len(s) : s[n] \in T
    BY LenProperties, ElementOfSeq
  <1>3. \A n \in 0..Len(s) : u[n] \in Seq(T)
    OBVIOUS
  <1> DEFINE Upto(n) == {s[i] : i \in 1..n}
             A == {n \in Nat : n <= Len(s) => ToSet(u[n]) = Upto(n) \cap S}
  <1>4. 0 \in A
    <2>1. u[0] = <<>>
      BY <1>1 DEF Keeps
    <2>2. ToSet(u[0]) = {}
      BY <2>1 DEF ToSet
    <2>3. Upto(0) = {}
      OBVIOUS
    <2> QED BY <2>2, <2>3
  <1>5. ASSUME NEW n \in Nat, n \in A PROVE n + 1 \in A
    <2> SUFFICES ASSUME n + 1 <= Len(s) PROVE ToSet(u[n + 1]) = Upto(n + 1) \cap S
      OBVIOUS
    <2>1. n + 1 \in 1..Len(s) /\ (n + 1) - 1 = n /\ n \in 0..Len(s)
      BY <1>2
    <2>2. u[n] \in Seq(T) /\ s[n + 1] \in T /\ ToSet(u[n]) = Upto(n) \cap S
      BY <1>2, <1>3, <1>5, <2>1
    <2>3. u[n + 1] = IF s[n + 1] \in S THEN Append(u[n], s[n + 1]) ELSE u[n]
      BY <1>1, <2>1, Zenon DEF Keeps
    <2>4. Upto(n + 1) = Upto(n) \cup {s[n + 1]}
      <3>1. \A i \in 1..n + 1 : i \in 1..n \/ i = n + 1
        OBVIOUS
      <3>2. \A i \in 1..n : i \in 1..n + 1
        OBVIOUS
      <3>3. n + 1 \in 1..n + 1
        OBVIOUS
      <3> QED BY <3>1, <3>2, <3>3
    <2>5. ToSet(Append(u[n], s[n + 1])) = ToSet(u[n]) \cup {s[n + 1]}
      BY <2>2, AppendedSet
    <2> HIDE DEF Upto
    <2>6. CASE s[n + 1] \in S
      BY <2>2, <2>3, <2>4, <2>5, <2>6
    <2>7. CASE s[n + 1] \notin S
      BY <2>2, <2>3, <2>4, <2>7
    <2> QED BY <2>6, <2>7
  <1> HIDE DEF A
  <1>6. Nat \subseteq A
    BY <1>4, <1>5, SetInduction
  <1>7. ToSet(u[Len(s)]) = Upto(Len(s)) \cap S
    <2>1. Len(s) \in A /\ Len(s) <= Len(s)
      BY <1>2, <1>6
    <2> HIDE DEF Upto
    <2> QED BY <2>1 DEF A
  <1>8. Upto(Len(s)) = ToSet(s)
    BY <1>2 DEF ToSet
  <1>9. Members(s, S) \in Seq(T)
    BY <1>1, <1>2, <1>3
  <1> QED BY <1>1, <1>7, <1>8, <1>9

(***************************************************************************)
(* Lists: which headwords they show, and for which dictionaries.           *)
(***************************************************************************)
HasOf(e, f, d) == Fold[e.word] = f /\ d \in e.dicts

LEMMA HasEmpty ==
  ASSUME NEW f, NEW d
  PROVE  ~Has(<<>>, f, d)
  BY DEF Has

LEMMA HasAppend ==
  ASSUME NEW s \in Seq(Entries), NEW e \in Entries, NEW f, NEW d
  PROVE  Has(Append(s, e), f, d) <=> Has(s, f, d) \/ HasOf(e, f, d)
  <1>1. Len(s) \in Nat /\ DOMAIN s = 1..Len(s)
    BY LenProperties
  <1>2. /\ Append(s, e) \in Seq(Entries)
        /\ Len(Append(s, e)) = Len(s) + 1
        /\ \A i \in 1..Len(s) : Append(s, e)[i] = s[i]
        /\ Append(s, e)[Len(s) + 1] = e
    BY AppendProperties
  <1>3. DOMAIN Append(s, e) = 1..Len(s) + 1
    BY <1>2, LenProperties
  <1>4. \A i \in 1..Len(s) + 1 : i \in 1..Len(s) \/ i = Len(s) + 1
    BY <1>1
  <1>5. \A i \in 1..Len(s) : i \in 1..Len(s) + 1
    BY <1>1
  <1>6. Len(s) + 1 \in 1..Len(s) + 1
    BY <1>1
  <1>7. Has(Append(s, e), f, d) => Has(s, f, d) \/ HasOf(e, f, d)
    BY <1>1, <1>2, <1>3, <1>4, Zenon DEF Has, HasOf
  <1>8. Has(s, f, d) => Has(Append(s, e), f, d)
    BY <1>1, <1>2, <1>3, <1>5, Zenon DEF Has
  <1>9. HasOf(e, f, d) => Has(Append(s, e), f, d)
    BY <1>2, <1>3, <1>6, Zenon DEF Has, HasOf
  <1> QED BY <1>7, <1>8, <1>9

LEMMA HasSplit ==
  ASSUME NEW s \in Seq(Entries), s # <<>>, NEW f, NEW d
  PROVE  Has(s, f, d) <=> HasOf(Head(s), f, d) \/ Has(Tail(s), f, d)
  <1>1. Len(s) \in Nat \ {0} /\ DOMAIN s = 1..Len(s)
    BY LenProperties, EmptySeq
  <1>2. /\ Tail(s) \in Seq(Entries)
        /\ Len(Tail(s)) = Len(s) - 1
        /\ \A i \in 1..Len(Tail(s)) : Tail(s)[i] = s[i + 1]
    BY HeadTailProperties
  <1>3. DOMAIN Tail(s) = 1..Len(s) - 1
    BY <1>2, LenProperties
  <1>4. Head(s) = s[1]
    OBVIOUS
  <1>5. \A i \in 1..Len(s) - 1 : Tail(s)[i] = s[i + 1] /\ i + 1 \in 1..Len(s)
    BY <1>1, <1>2
  <1>6. \A i \in 1..Len(s) : i = 1 \/ \E j \in 1..Len(s) - 1 : i = j + 1
    <2>1. ASSUME NEW i \in 1..Len(s), i # 1 PROVE \E j \in 1..Len(s) - 1 : i = j + 1
      <3>1. i - 1 \in 1..Len(s) - 1 /\ i = (i - 1) + 1
        BY <1>1, <2>1
      <3> QED BY <3>1
    <2> QED BY <2>1
  <1>7. 1 \in 1..Len(s)
    BY <1>1
  <1>8. ASSUME Has(s, f, d) PROVE HasOf(Head(s), f, d) \/ Has(Tail(s), f, d)
    <2>1. PICK i \in 1..Len(s) : HasOf(s[i], f, d)
      BY <1>1, <1>8 DEF Has, HasOf
    <2>2. CASE i = 1
      BY <1>4, <2>1, <2>2
    <2>3. CASE i # 1
      <3>1. PICK j \in 1..Len(s) - 1 : i = j + 1
        BY <1>6, <2>3
      <3>2. HasOf(Tail(s)[j], f, d)
        BY <1>5, <2>1, <3>1
      <3> QED BY <1>3, <3>2 DEF Has, HasOf
    <2> QED BY <2>2, <2>3
  <1>9. Has(Tail(s), f, d) => Has(s, f, d)
    BY <1>1, <1>3, <1>5, Zenon DEF Has
  <1>10. HasOf(Head(s), f, d) => Has(s, f, d)
    BY <1>1, <1>4, <1>7, Zenon DEF Has, HasOf
  <1> QED BY <1>8, <1>9, <1>10

\* What a merge shows, all in all
InMerge(m, f, d) == Has(m.list, f, d) \/ Has(m.base, f, d) \/ Has(m.add, f, d)

LEMMA MergeFields ==
  ASSUME NEW m \in Merges
  PROVE  /\ m.base \in Seq(Entries) /\ m.add \in Seq(Entries) /\ m.list \in Seq(Entries)
         /\ m = [base |-> m.base, add |-> m.add, list |-> m.list]
  BY DEF Merges

\* A turn takes an entry of one of the lists, and nothing that is shown is lost or made up.
LEMMA TurnKeeps ==
  ASSUME NEW m \in Merges
  PROVE  /\ MergeTurn[m] \in Merges
         /\ m.base # <<>> \/ m.add # <<>> =>
                Len(MergeTurn[m].base) + Len(MergeTurn[m].add) = (Len(m.base) + Len(m.add)) - 1
         /\ m.base = <<>> /\ m.add = <<>> => MergeTurn[m] = m
         /\ \A f, d : InMerge(MergeTurn[m], f, d) <=> InMerge(m, f, d)
  <1> DEFINE b == m.base
             a == m.add
             l == m.list
             t == MergeTurn[m]
  <1>1. b \in Seq(Entries) /\ a \in Seq(Entries) /\ l \in Seq(Entries)
        /\ m = [base |-> b, add |-> a, list |-> l]
    BY MergeFields
  <1>2. Len(b) \in Nat /\ Len(a) \in Nat
    BY <1>1, LenProperties
  <1>3. t = IF b = <<>> /\ a = <<>> THEN m
            ELSE IF a # <<>> /\ (b = <<>> \/ Less(Head(a), Head(b)))
                 THEN [m EXCEPT !.add = Tail(@), !.list = Append(@, Head(a))]
            ELSE IF a # <<>> /\ Same(Head(a), Head(b))
                 THEN [m EXCEPT !.add = Tail(@), !.base[1].dicts = @ \cup Head(a).dicts]
            ELSE [m EXCEPT !.base = Tail(@), !.list = Append(@, Head(b))]
    BY DEF MergeTurn
  <1> HIDE DEF t, a, b, l
  <1>4. CASE b = <<>> /\ a = <<>>
    BY <1>3, <1>4 DEF a, b, t
  <1>5. CASE a # <<>> /\ (b = <<>> \/ Less(Head(a), Head(b)))
    <2>1. t = [base |-> b, add |-> Tail(a), list |-> Append(l, Head(a))]
      BY <1>1, <1>3, <1>5
    <2>2. Head(a) \in Entries /\ Tail(a) \in Seq(Entries) /\ Len(Tail(a)) = Len(a) - 1
      BY <1>1, <1>5, HeadTailProperties
    <2>3. Append(l, Head(a)) \in Seq(Entries)
      BY <1>1, <2>2, AppendProperties
    <2>4. t \in Merges
      BY <1>1, <2>1, <2>2, <2>3 DEF Merges
    <2>5. Len(t.base) + Len(t.add) = (Len(b) + Len(a)) - 1
      BY <1>2, <2>1, <2>2
    <2>6. ASSUME NEW f, NEW d PROVE InMerge(t, f, d) <=> InMerge(m, f, d)
      <3>1. Has(a, f, d) <=> HasOf(Head(a), f, d) \/ Has(Tail(a), f, d)
        BY <1>1, <1>5, HasSplit
      <3>2. Has(Append(l, Head(a)), f, d) <=> Has(l, f, d) \/ HasOf(Head(a), f, d)
        BY <1>1, <2>2, HasAppend
      <3>3. InMerge(t, f, d) <=> Has(Append(l, Head(a)), f, d) \/ Has(b, f, d) \/ Has(Tail(a), f, d)
        BY <2>1 DEF InMerge
      <3> QED BY <3>1, <3>2, <3>3 DEF InMerge, a, b, l
    <2> QED BY <1>5, <2>4, <2>5, <2>6 DEF a, b, t
  <1>6. CASE ~(b = <<>> /\ a = <<>>) /\ ~(a # <<>> /\ (b = <<>> \/ Less(Head(a), Head(b))))
             /\ a # <<>> /\ Same(Head(a), Head(b))
    <2>1. b # <<>>
      BY <1>6
    <2> DEFINE e == [b[1] EXCEPT !.dicts = @ \cup Head(a).dicts]
               c == [b EXCEPT ![1] = e]
    <2>2. t = [base |-> c, add |-> Tail(a), list |-> l]
      BY <1>1, <1>3, <1>6
    <2>3. Head(a) \in Entries /\ Tail(a) \in Seq(Entries) /\ Len(Tail(a)) = Len(a) - 1
      BY <1>1, <1>6, HeadTailProperties
    <2>4. Head(b) \in Entries /\ Tail(b) \in Seq(Entries) /\ Len(Tail(b)) = Len(b) - 1
          /\ \A i \in 1..Len(Tail(b)) : Tail(b)[i] = b[i + 1]
      BY <1>1, <2>1, HeadTailProperties
    <2>5. Head(b) = b[1]
      OBVIOUS
    <2>6. e \in Entries /\ e = [word |-> Head(b).word, dicts |-> Head(b).dicts \cup Head(a).dicts]
      <3>1. Head(b).word \in Words /\ Head(b).dicts \subseteq 1..Dicts
            /\ Head(a).dicts \subseteq 1..Dicts
            /\ Head(b) = [word |-> Head(b).word, dicts |-> Head(b).dicts]
        BY <2>3, <2>4, Zenon DEF Entries
      <3>2. e = [Head(b) EXCEPT !.dicts = @ \cup Head(a).dicts]
        BY <2>5
      <3> HIDE DEF e
      <3>3. e = [word |-> Head(b).word, dicts |-> Head(b).dicts \cup Head(a).dicts]
        BY <3>1, <3>2
      <3> QED BY <3>1, <3>3 DEF Entries
    <2>7. 1 \in 1..Len(b)
      BY <1>1, <2>1, EmptySeq
    <2> HIDE DEF e
    <2>8. c \in Seq(Entries) /\ Len(c) = Len(b)
          /\ \A j \in 1..Len(b) : c[j] = IF j = 1 THEN e ELSE b[j]
      BY <1>1, <2>6, <2>7, ExceptSeq
    <2> HIDE DEF c
    <2>9. c # <<>>
      BY <1>2, <2>7, <2>8, EmptySeq
    <2>10. Head(c) = e
      BY <2>7, <2>8
    <2>11. Tail(c) \in Seq(Entries) /\ Len(Tail(c)) = Len(c) - 1
           /\ \A i \in 1..Len(Tail(c)) : Tail(c)[i] = c[i + 1]
      BY <2>8, <2>9, HeadTailProperties
    <2>12. Tail(c) = Tail(b)
      <3>1. Len(Tail(c)) = Len(Tail(b))
        BY <2>4, <2>8, <2>11
      <3>2. ASSUME NEW i \in 1..Len(Tail(b)) PROVE Tail(c)[i] = Tail(b)[i]
        <4>1. i + 1 \in 1..Len(b) /\ i + 1 # 1
          BY <1>2, <2>4
        <4> QED BY <2>4, <2>8, <2>11, <3>1, <4>1
      <3> QED BY <2>4, <2>11, <3>1, <3>2, SeqEqual
    <2>13. t \in Merges
      BY <1>1, <2>2, <2>3, <2>8 DEF Merges
    <2>14. Len(t.base) + Len(t.add) = (Len(b) + Len(a)) - 1
      <3>1. t.base = c /\ t.add = Tail(a)
        BY <2>2
      <3>2. Len(c) = Len(b) /\ Len(Tail(a)) = Len(a) - 1
        BY <2>3, <2>8
      <3>3. \A x, y \in Nat : x + (y - 1) = (x + y) - 1
        BY SMTT(30)
      <3>4. Len(b) + (Len(a) - 1) = (Len(b) + Len(a)) - 1
        BY <1>2, <3>3, Zenon
      <3>5. Len(t.base) = Len(b) /\ Len(t.add) = Len(a) - 1
        BY <3>1, <3>2, Zenon
      <3> QED BY <3>4, <3>5, Zenon
    <2>15. ASSUME NEW f, NEW d PROVE InMerge(t, f, d) <=> InMerge(m, f, d)
      <3>1. Has(a, f, d) <=> HasOf(Head(a), f, d) \/ Has(Tail(a), f, d)
        BY <1>1, <1>6, HasSplit
      <3>2. Has(b, f, d) <=> HasOf(Head(b), f, d) \/ Has(Tail(b), f, d)
        BY <1>1, <2>1, HasSplit
      <3>3. Has(c, f, d) <=> HasOf(e, f, d) \/ Has(Tail(b), f, d)
        BY <2>8, <2>9, <2>10, <2>12, HasSplit
      <3>4. HasOf(e, f, d) <=> HasOf(Head(b), f, d) \/ HasOf(Head(a), f, d)
        <4>1. Fold[Head(a).word] = Fold[Head(b).word]
          BY <1>6 DEF Same
        <4>2. e.word = Head(b).word /\ e.dicts = Head(b).dicts \cup Head(a).dicts
          BY <2>6
        <4> QED BY <4>1, <4>2 DEF HasOf
      <3>5. InMerge(t, f, d) <=> Has(l, f, d) \/ Has(c, f, d) \/ Has(Tail(a), f, d)
        BY <2>2 DEF InMerge
      <3> QED BY <3>1, <3>2, <3>3, <3>4, <3>5 DEF InMerge, a, b, l
    <2> QED BY <1>6, <2>13, <2>14, <2>15 DEF a, b, t
  <1>7. CASE ~(b = <<>> /\ a = <<>>) /\ ~(a # <<>> /\ (b = <<>> \/ Less(Head(a), Head(b))))
             /\ ~(a # <<>> /\ Same(Head(a), Head(b)))
    <2>1. b # <<>>
      BY <1>7
    <2>2. t = [base |-> Tail(b), add |-> a, list |-> Append(l, Head(b))]
      BY <1>1, <1>3, <1>7
    <2>3. Head(b) \in Entries /\ Tail(b) \in Seq(Entries) /\ Len(Tail(b)) = Len(b) - 1
      BY <1>1, <2>1, HeadTailProperties
    <2>4. Append(l, Head(b)) \in Seq(Entries)
      BY <1>1, <2>3, AppendProperties
    <2>5. t \in Merges
      BY <1>1, <2>2, <2>3, <2>4 DEF Merges
    <2>6. Len(t.base) + Len(t.add) = (Len(b) + Len(a)) - 1
      BY <1>2, <2>2, <2>3
    <2>7. ASSUME NEW f, NEW d PROVE InMerge(t, f, d) <=> InMerge(m, f, d)
      <3>1. Has(b, f, d) <=> HasOf(Head(b), f, d) \/ Has(Tail(b), f, d)
        BY <1>1, <2>1, HasSplit
      <3>2. Has(Append(l, Head(b)), f, d) <=> Has(l, f, d) \/ HasOf(Head(b), f, d)
        BY <1>1, <2>3, HasAppend
      <3>3. InMerge(t, f, d) <=> Has(Append(l, Head(b)), f, d) \/ Has(Tail(b), f, d) \/ Has(a, f, d)
        BY <2>2 DEF InMerge
      <3> QED BY <3>1, <3>2, <3>3 DEF InMerge, a, b, l
    <2> QED BY <2>1, <2>5, <2>6, <2>7 DEF a, b, t
  <1> QED BY <1>4, <1>5, <1>6, <1>7

\* addSortedHeadwords() is done when both lists are used up: as many turns as they are long.
LEMMA MergeIs ==
  ASSUME NEW base \in Seq(Entries), NEW add \in Seq(Entries), base # <<>>
  PROVE  \E u \in [0..Len(base) + Len(add) -> Merges] :
             /\ u[0] = [base |-> base, add |-> add, list |-> <<>>]
             /\ \A m \in 1..Len(base) + Len(add) : u[m] = MergeTurn[u[m - 1]]
             /\ AddSortedHeadwords(base, add) = u[Len(base) + Len(add)].list
  <1> DEFINE L == Len(base) + Len(add)
             D == Merges
             first == [base |-> base, add |-> add, list |-> <<>>]
             F == [p \in (1..L) \X D |-> MergeTurn[p[2]]]
             body(g) == [k \in 0..L |-> IF k = 0 THEN first ELSE MergeTurn[g[k - 1]]]
  <1>1. \E a : a = (CHOOSE g : g = body(g)) /\ AddSortedHeadwords(base, add) = a[L].list
    BY Zenon DEF AddSortedHeadwords
  <1>2. PICK a : a = (CHOOSE g : g = body(g)) /\ AddSortedHeadwords(base, add) = a[L].list
    BY <1>1
  <1>3. L \in Nat
    BY LenProperties
  <1>4. first \in D
    BY EmptySeq DEF Merges
  <1>5. F \in [(1..L) \X D -> D]
    BY TurnKeeps
  <1>6. \A m \in 1..L : \A b \in D : F[<<m, b>>] = MergeTurn[b]
    OBVIOUS
  <1> HIDE DEF L, D, F, first
  <1>7. PICK h : Runs(h, D, L, first, F)
    BY <1>3, <1>4, <1>5, RunExists
  <1>8. h = body(h)
    <2>1. \A m \in 1..L : m - 1 \in 0..L
      BY <1>3
    <2>2. h \in [0..L -> D] /\ h[0] = first /\ \A m \in 1..L : h[m] = F[<<m, h[m - 1]>>]
      BY <1>7 DEF Runs
    <2>3. \A m \in 1..L : h[m - 1] \in D
      BY <2>1, <2>2
    <2>4. \A m \in 1..L : h[m] = MergeTurn[h[m - 1]]
      BY <1>6, <2>2, <2>3
    <2>5. \A m \in 0..L : m = 0 \/ m \in 1..L
      BY <1>3
    <2>6. h = [m \in 0..L |-> h[m]]
      BY <2>2
    <2> QED BY <2>2, <2>4, <2>5, <2>6
  <1>9. a = body(a)
    BY <1>2, <1>8, Zenon
  <1>10. a[0] = first /\ \A m \in 1..L : a[m] = MergeTurn[a[m - 1]]
    BY <1>3, <1>9
  <1>11. Runs(a, D, L, first, F)
    <2>1. a = [m \in 0..L |-> a[m]]
      BY <1>9
    <2>2. \A m \in 1..L : a[m - 1] \in D => a[m] = F[<<m, a[m - 1]>>]
      BY <1>6, <1>10, Zenon
    <2> QED BY <1>3, <1>4, <1>5, <1>10, <2>1, <2>2, RunTyped, Zenon
  <1> QED BY <1>2, <1>10, <1>11 DEF Runs, L, D, first

Alike(m, k) == \A f, d : InMerge(m, f, d) <=> InMerge(k, f, d)

\* A merged list shows what either list has shown, and nothing else.
LEMMA MergedList ==
  ASSUME NEW base \in Seq(Entries), NEW add \in Seq(Entries)
  PROVE  /\ AddSortedHeadwords(base, add) \in Seq(Entries)
         /\ \A f, d : Has(AddSortedHeadwords(base, add), f, d)
                          <=> Has(base, f, d) \/ Has(add, f, d)
  <1>1. CASE base = <<>>
    <2>1. AddSortedHeadwords(base, add) = add
      BY <1>1 DEF AddSortedHeadwords
    <2> QED BY <1>1, <2>1, HasEmpty
  <1>2. CASE base # <<>>
    <2> DEFINE L == Len(base) + Len(add)
               first == [base |-> base, add |-> add, list |-> <<>>]
    <2>1. PICK u \in [0..L -> Merges] :
              /\ u[0] = first
              /\ \A m \in 1..L : u[m] = MergeTurn[u[m - 1]]
              /\ AddSortedHeadwords(base, add) = u[L].list
      BY <1>2, MergeIs
    <2>2. L \in Nat
      BY LenProperties
    <2> HIDE DEF L
    <2>3. \A m \in 0..L : /\ u[m] \in Merges
                          /\ Len(u[m].base) \in Nat
                          /\ Len(u[m].add) \in Nat
      <3>1. ASSUME NEW m \in 0..L
            PROVE  u[m] \in Merges /\ Len(u[m].base) \in Nat /\ Len(u[m].add) \in Nat
        <4>1. u[m] \in Merges
          OBVIOUS
        <4> QED BY <4>1, MergeFields, LenProperties
      <3> QED BY <3>1
    <2> DEFINE Left(n) == Len(u[n].base) + Len(u[n].add)
               Kept(n) == Left(n) = L - n /\ Alike(u[n], first)
               A == {n \in Nat : n <= L => Kept(n)}
    <2>4. 0 \in A
      <3>1. Left(0) = L - 0
        <4>1. L - 0 = L
          BY <2>2
        <4> QED BY <2>1, <4>1 DEF L
      <3>2. Alike(u[0], first)
        BY <2>1 DEF Alike
      <3> QED BY <3>1, <3>2
    <2> HIDE DEF Kept
    <2>5. ASSUME NEW n \in Nat, n \in A PROVE n + 1 \in A
      <3>1. SUFFICES ASSUME n + 1 <= L PROVE Kept(n + 1)
        OBVIOUS
      <3>2. n \in 0..L /\ n + 1 \in 1..L /\ (n + 1) - 1 = n /\ n <= L
        BY <2>2, <3>1
      <3>3. Kept(n)
        BY <2>5, <3>2
      <3> HIDE DEF A
      <3>4. u[n + 1] = MergeTurn[u[n]]
        BY <2>1, <3>2
      <3>5. u[n] \in Merges /\ Len(u[n].base) \in Nat /\ Len(u[n].add) \in Nat
        BY <2>3, <3>2
      <3>6. u[n].base # <<>> \/ u[n].add # <<>>
        <4>1. Len(u[n].base) + Len(u[n].add) = L - n
          BY <3>3 DEF Kept
        <4>2. L - n # 0
          BY <2>2, <3>2
        <4>3. Len(<<>>) = 0
          OBVIOUS
        <4> HIDE DEF Left
        <4>4. SUFFICES ASSUME u[n].base = <<>>, u[n].add = <<>> PROVE FALSE
          OBVIOUS
        <4>5. Len(u[n].base) = 0 /\ Len(u[n].add) = 0
          BY <4>3, <4>4
        <4> QED BY <4>1, <4>2, <4>5
      <3>7. Left(n + 1) = Left(n) - 1
        <4>1. Len(MergeTurn[u[n]].base) + Len(MergeTurn[u[n]].add)
                  = (Len(u[n].base) + Len(u[n].add)) - 1
          BY <3>5, <3>6, TurnKeeps
        <4> QED BY <3>4, <4>1
      <3>8. Alike(u[n + 1], u[n])
        BY <3>4, <3>5, TurnKeeps DEF Alike
      <3> HIDE DEF Left
      <3>9. Left(n) = L - n /\ Alike(u[n], first)
        BY <3>3 DEF Kept
      <3>10. Alike(u[n + 1], first)
        BY <3>8, <3>9 DEF Alike
      <3>11. Left(n + 1) = L - (n + 1)
        BY <2>2, <3>7, <3>9
      <3> QED BY <3>10, <3>11 DEF Kept
    <2> HIDE DEF A
    <2>6. Nat \subseteq A
      BY <2>4, <2>5, SetInduction
    <2>7. Kept(L)
      <3>1. L \in A /\ L <= L
        BY <2>2, <2>6
      <3> QED BY <3>1 DEF A
    <2>8. L \in 0..L
      BY <2>2
    <2>9. u[L] \in Merges /\ Len(u[L].base) = 0 /\ Len(u[L].add) = 0
      <3> HIDE DEF Left
      <3>1. Left(L) = L - L
        BY <2>7 DEF Kept
      <3>2. Left(L) = 0
        BY <2>2, <3>1
      <3>3. u[L] \in Merges /\ Len(u[L].base) \in Nat /\ Len(u[L].add) \in Nat
        BY <2>3, <2>8
      <3>4. Len(u[L].base) + Len(u[L].add) = 0
        BY <3>2 DEF Left
      <3>5. \A x, y \in Nat : x + y = 0 => x = 0 /\ y = 0
        OBVIOUS
      <3> QED BY <3>3, <3>4, <3>5, Zenon
    <2>10. u[L].base \in Seq(Entries) /\ u[L].add \in Seq(Entries) /\ u[L].list \in Seq(Entries)
      BY <2>9, MergeFields
    <2>11. u[L].base = <<>> /\ u[L].add = <<>>
      BY <2>9, <2>10, EmptySeq
    <2>12. ASSUME NEW f, NEW d
           PROVE  Has(u[L].list, f, d) <=> Has(base, f, d) \/ Has(add, f, d)
      <3>1. InMerge(u[L], f, d) <=> Has(u[L].list, f, d)
        BY <2>11, HasEmpty DEF InMerge
      <3>2. InMerge(first, f, d) <=> Has(base, f, d) \/ Has(add, f, d)
        BY HasEmpty DEF InMerge
      <3>3. InMerge(u[L], f, d) <=> InMerge(first, f, d)
        BY <2>7 DEF Kept, Alike
      <3> QED BY <3>1, <3>2, <3>3
    <2> QED BY <2>1, <2>10, <2>12
  <1> QED BY <1>1, <1>2

\* What is inserted is shown, and so is what was there.
LEMMA Inserted ==
  ASSUME NEW list \in Seq(Entries), NEW e \in Entries
  PROVE  /\ Insert(list, e) \in Seq(Entries)
         /\ \A f, d : Has(Insert(list, e), f, d) <=> Has(list, f, d) \/ HasOf(e, f, d)
  <1>1. Len(list) \in Nat /\ DOMAIN list = 1..Len(list) /\ \A i \in 1..Len(list) : list[i] \in Entries
    BY LenProperties, ElementOfSeq
  <1> DEFINE S == {i \in DOMAIN list : ~Less(e, list[i])}
             n == Cardinality(S)
             t == [i \in 1..Len(list) + 1 |-> IF i <= n THEN list[i]
                                              ELSE IF i = n + 1 THEN e ELSE list[i - 1]]
  <1>2. Insert(list, e) = t
    BY DEF Insert
  <1>3. n \in 0..Len(list)
    <2>1. S \in SUBSET (1..Len(list))
      BY <1>1
    <2> HIDE DEF S
    <2>2. IsFiniteSet(1..Len(list)) /\ Cardinality(1..Len(list)) = Len(list)
      <3>1. 1 \in Int /\ Len(list) \in Int /\ Len(list) - 1 + 1 = Len(list)
        BY <1>1
      <3>2. IF 1 > Len(list) THEN 0 = Len(list) ELSE TRUE
        BY <1>1
      <3> HIDE DEF n, t
      <3> QED BY <3>1, <3>2, FS_Interval
    <2>3. IsFiniteSet(S) /\ Cardinality(S) <= Len(list)
      BY <2>1, <2>2, FS_Subset
    <2>4. Cardinality(S) \in Nat
      BY <2>3, FS_CardinalityType
    <2> QED BY <1>1, <2>3, <2>4
  <1> HIDE DEF n
  <1>4. /\ \A i \in 1..Len(list) : i <= n => i \in 1..Len(list) + 1 /\ t[i] = list[i]
        /\ \A i \in 1..Len(list) : ~(i <= n) => i + 1 \in 1..Len(list) + 1 /\ t[i + 1] = list[i]
        /\ n + 1 \in 1..Len(list) + 1 /\ t[n + 1] = e
    BY <1>1, <1>3
  <1>5. ASSUME NEW i \in 1..Len(list) + 1
        PROVE  t[i] = e \/ \E j \in 1..Len(list) : t[i] = list[j]
    <2>1. CASE i <= n
      <3>1. i \in 1..Len(list) /\ t[i] = list[i]
        BY <1>1, <1>3, <2>1
      <3> QED BY <3>1
    <2>2. CASE i = n + 1
      BY <1>4, <2>2
    <2>3. CASE ~(i <= n) /\ i # n + 1
      <3>1. i - 1 \in 1..Len(list) /\ t[i] = list[i - 1]
        BY <1>1, <1>3, <2>3
      <3> QED BY <3>1
    <2> QED BY <2>1, <2>2, <2>3
  <1>6. DOMAIN t = 1..Len(list) + 1
    OBVIOUS
  <1>7. t \in Seq(Entries)
    <2>1. \A i \in 1..Len(list) + 1 : t[i] \in Entries
      BY <1>1, <1>5
    <2>2. t \in [1..Len(list) + 1 -> Entries] /\ Len(list) + 1 \in Nat
      BY <1>1, <2>1
    <2> HIDE DEF t
    <2> QED BY <2>2, SeqDef
  <1> HIDE DEF t
  <1>8. ASSUME NEW f, NEW d PROVE Has(t, f, d) <=> Has(list, f, d) \/ HasOf(e, f, d)
    <2>1. Has(t, f, d) => Has(list, f, d) \/ HasOf(e, f, d)
      BY <1>1, <1>5, <1>6 DEF Has, HasOf
    <2>2. ASSUME Has(list, f, d) PROVE Has(t, f, d)
      <3>1. PICK i \in 1..Len(list) : HasOf(list[i], f, d)
        BY <1>1, <2>2 DEF Has, HasOf
      <3> QED BY <1>4, <1>6, <3>1 DEF Has, HasOf
    <2>3. HasOf(e, f, d) => Has(t, f, d)
      BY <1>4, <1>6 DEF Has, HasOf
    <2> QED BY <2>1, <2>2, <2>3
  <1> QED BY <1>2, <1>7, <1>8

LEMMA SortedIs ==
  ASSUME NEW r \in Requests, found[r] \in Seq(Words)
  PROVE  \E u \in [0..Len(found[r]) -> Seq(Entries)] :
             /\ u[0] = <<>>
             /\ \A m \in 1..Len(found[r]) : u[m] = Insert(u[m - 1], Entry(found[r][m], r[2]))
             /\ Sorted(r) = u[Len(found[r])]
  <1> DEFINE L == Len(found[r])
             D == Seq(Entries)
             step(m, b) == Insert(b, Entry(found[r][m], r[2]))
             F == [p \in (1..L) \X D |-> step(p[1], p[2])]
             body(g) == [n \in 0..L |-> IF n = 0 THEN <<>> ELSE step(n, g[n - 1])]
  <1>1. \E a : a = (CHOOSE g : g = body(g)) /\ Sorted(r) = a[L]
    BY Zenon DEF Sorted
  <1>2. PICK a : a = (CHOOSE g : g = body(g)) /\ Sorted(r) = a[L]
    BY <1>1
  <1>3. L \in Nat /\ \A m \in 1..L : Entry(found[r][m], r[2]) \in Entries
    <2>1. L \in Nat /\ r[2] \in 1..Dicts
      BY LenProperties DEF Requests
    <2>2. \A m \in 1..L : found[r][m] \in Words
      BY ElementOfSeq
    <2> QED BY <2>1, <2>2 DEF Entry, Entries
  <1>4. <<>> \in D
    BY EmptySeq
  <1>5. F \in [(1..L) \X D -> D]
    <2>1. ASSUME NEW p \in (1..L) \X D PROVE step(p[1], p[2]) \in D
      <3>1. p[1] \in 1..L /\ p[2] \in D
        OBVIOUS
      <3>2. Entry(found[r][p[1]], r[2]) \in Entries
        BY <1>3, <3>1
      <3> HIDE DEF L
      <3> QED BY <3>1, <3>2, Inserted
    <2> QED BY <2>1
  <1>6. \A m \in 1..L : \A b \in D : F[<<m, b>>] = step(m, b)
    OBVIOUS
  <1> HIDE DEF L, D, F, step
  <1>7. PICK h : Runs(h, D, L, <<>>, F)
    BY <1>3, <1>4, <1>5, RunExists
  <1>8. h = body(h)
    <2>1. \A m \in 1..L : m - 1 \in 0..L
      BY <1>3
    <2>2. h \in [0..L -> D] /\ h[0] = <<>> /\ \A m \in 1..L : h[m] = F[<<m, h[m - 1]>>]
      BY <1>7 DEF Runs
    <2>3. \A m \in 1..L : h[m - 1] \in D
      BY <2>1, <2>2
    <2>4. \A m \in 1..L : h[m] = step(m, h[m - 1])
      BY <1>6, <2>2, <2>3
    <2>5. \A m \in 0..L : m = 0 \/ m \in 1..L
      BY <1>3
    <2>6. h = [m \in 0..L |-> h[m]]
      BY <2>2
    <2> QED BY <2>2, <2>4, <2>5, <2>6
  <1>9. a = body(a)
    BY <1>2, <1>8, Zenon
  <1>10. a[0] = <<>> /\ \A m \in 1..L : a[m] = step(m, a[m - 1])
    BY <1>3, <1>9
  <1>11. Runs(a, D, L, <<>>, F)
    <2>1. a = [m \in 0..L |-> a[m]]
      BY <1>9
    <2>2. \A m \in 1..L : a[m - 1] \in D => a[m] = F[<<m, a[m - 1]>>]
      BY <1>6, <1>10, Zenon
    <2> QED BY <1>3, <1>4, <1>5, <1>10, <2>1, <2>2, RunTyped, Zenon
  <1> QED BY <1>2, <1>10, <1>11 DEF Runs, L, D, step

\* The answer of a request shows its headwords, under its dictionary.
LEMMA SortedList ==
  ASSUME NEW r \in Requests, found[r] \in Seq(Words)
  PROVE  /\ Sorted(r) \in Seq(Entries)
         /\ \A f, d : Has(Sorted(r), f, d) <=> d = r[2] /\ Reads(found[r], f)
  <1>1. PICK u \in [0..Len(found[r]) -> Seq(Entries)] :
            /\ u[0] = <<>>
            /\ \A m \in 1..Len(found[r]) : u[m] = Insert(u[m - 1], Entry(found[r][m], r[2]))
            /\ Sorted(r) = u[Len(found[r])]
    BY SortedIs
  <1> DEFINE L == Len(found[r])
             Upto(n, f) == \E i \in 1..n : Fold[found[r][i]] = f
             Shown(n) == \A f, d : Has(u[n], f, d) <=> d = r[2] /\ Upto(n, f)
             A == {n \in Nat : n <= L => Shown(n)}
  <1>2. L \in Nat /\ DOMAIN found[r] = 1..L /\ \A m \in 1..L : found[r][m] \in Words
    BY LenProperties, ElementOfSeq
  <1>3. \A m \in 1..L : Entry(found[r][m], r[2]) \in Entries
    <2>1. r[2] \in 1..Dicts
      BY DEF Requests
    <2> QED BY <1>2, <2>1 DEF Entry, Entries
  <1>4. 0 \in A
    <2>1. ASSUME NEW f, NEW d PROVE Has(u[0], f, d) <=> d = r[2] /\ Upto(0, f)
      <3>1. ~Has(u[0], f, d)
        BY <1>1, HasEmpty
      <3> QED BY <3>1
    <2> QED BY <2>1
  <1> HIDE DEF L, Shown
  <1>5. ASSUME NEW n \in Nat, n \in A PROVE n + 1 \in A
    <2>1. SUFFICES ASSUME n + 1 <= L PROVE Shown(n + 1)
      OBVIOUS
    <2>2. n \in 0..L /\ n + 1 \in 1..L /\ (n + 1) - 1 = n /\ n <= L
      BY <1>2, <2>1
    <2>3. Shown(n)
      BY <1>5, <2>2
    <2> HIDE DEF A
    <2> DEFINE e == Entry(found[r][n + 1], r[2])
    <2>4. u[n + 1] = Insert(u[n], e)
      BY <1>1, <2>2 DEF L
    <2>5. u[n] \in Seq(Entries)
      BY <2>2 DEF L
    <2>6. e \in Entries
      BY <1>3, <2>2
    <2>7. ASSUME NEW f, NEW d PROVE Has(u[n + 1], f, d) <=> d = r[2] /\ Upto(n + 1, f)
      <3>1. HasOf(e, f, d) <=> d = r[2] /\ Fold[found[r][n + 1]] = f
        BY DEF HasOf, Entry
      <3> HIDE DEF e
      <3>2. Has(u[n + 1], f, d) <=> Has(u[n], f, d) \/ HasOf(e, f, d)
        BY <2>4, <2>5, <2>6, Inserted
      <3>3. Has(u[n], f, d) <=> d = r[2] /\ Upto(n, f)
        BY <2>3 DEF Shown
      <3>4. Upto(n + 1, f) <=> Upto(n, f) \/ Fold[found[r][n + 1]] = f
        <4>1. \A i \in 1..n + 1 : i \in 1..n \/ i = n + 1
          OBVIOUS
        <4>2. \A i \in 1..n : i \in 1..n + 1
          OBVIOUS
        <4>3. n + 1 \in 1..n + 1
          OBVIOUS
        <4> QED BY <4>1, <4>2, <4>3
      <3> HIDE DEF Upto
      <3> QED BY <3>1, <3>2, <3>3, <3>4
    <2> QED BY <2>7 DEF Shown
  <1> HIDE DEF A
  <1>6. Nat \subseteq A
    BY <1>4, <1>5, SetInduction
  <1>7. Shown(L) /\ L \in 0..L
    <2>1. L \in A /\ L <= L /\ L \in 0..L
      BY <1>2, <1>6
    <2> QED BY <2>1 DEF A
  <1>8. u[L] \in Seq(Entries) /\ Sorted(r) = u[L]
    BY <1>1, <1>7 DEF L
  <1>9. \A f : Upto(L, f) <=> Reads(found[r], f)
    BY <1>2 DEF Reads
  <1> QED BY <1>7, <1>8, <1>9 DEF Shown

LEMMA TogetherIs ==
  ASSUME NEW done \in Seq(Requests), found \in [Requests -> Seq(Words)]
  PROVE  \E u \in [0..Len(done) -> Seq(Entries)] :
             /\ u[0] = <<>>
             /\ \A m \in 1..Len(done) : u[m] = AddSortedHeadwords(u[m - 1], Sorted(done[m]))
             /\ Together(done) = u[Len(done)]
  <1> DEFINE L == Len(done)
             D == Seq(Entries)
             step(m, b) == AddSortedHeadwords(b, Sorted(done[m]))
             F == [p \in (1..L) \X D |-> step(p[1], p[2])]
             body(g) == [n \in 0..L |-> IF n = 0 THEN <<>> ELSE step(n, g[n - 1])]
  <1>1. \E a : a = (CHOOSE g : g = body(g)) /\ Together(done) = a[L]
    BY Zenon DEF Together
  <1>2. PICK a : a = (CHOOSE g : g = body(g)) /\ Together(done) = a[L]
    BY <1>1
  <1>3. L \in Nat /\ \A m \in 1..L : Sorted(done[m]) \in Seq(Entries)
    <2>1. L \in Nat /\ \A m \in 1..L : done[m] \in Requests
      BY LenProperties, ElementOfSeq
    <2>2. \A m \in 1..L : found[done[m]] \in Seq(Words)
      BY <2>1
    <2> QED BY <2>1, <2>2, SortedList
  <1>4. <<>> \in D
    BY EmptySeq
  <1>5. F \in [(1..L) \X D -> D]
    <2>1. ASSUME NEW p \in (1..L) \X D PROVE step(p[1], p[2]) \in D
      <3>1. p[1] \in 1..L /\ p[2] \in D
        OBVIOUS
      <3>2. Sorted(done[p[1]]) \in Seq(Entries)
        BY <1>3, <3>1
      <3> HIDE DEF L
      <3> QED BY <3>1, <3>2, MergedList
    <2> QED BY <2>1
  <1>6. \A m \in 1..L : \A b \in D : F[<<m, b>>] = step(m, b)
    OBVIOUS
  <1> HIDE DEF L, D, F, step
  <1>7. PICK h : Runs(h, D, L, <<>>, F)
    BY <1>3, <1>4, <1>5, RunExists
  <1>8. h = body(h)
    <2>1. \A m \in 1..L : m - 1 \in 0..L
      BY <1>3
    <2>2. h \in [0..L -> D] /\ h[0] = <<>> /\ \A m \in 1..L : h[m] = F[<<m, h[m - 1]>>]
      BY <1>7 DEF Runs
    <2>3. \A m \in 1..L : h[m - 1] \in D
      BY <2>1, <2>2
    <2>4. \A m \in 1..L : h[m] = step(m, h[m - 1])
      BY <1>6, <2>2, <2>3
    <2>5. \A m \in 0..L : m = 0 \/ m \in 1..L
      BY <1>3
    <2>6. h = [m \in 0..L |-> h[m]]
      BY <2>2
    <2> QED BY <2>2, <2>4, <2>5, <2>6
  <1>9. a = body(a)
    BY <1>2, <1>8, Zenon
  <1>10. a[0] = <<>> /\ \A m \in 1..L : a[m] = step(m, a[m - 1])
    BY <1>3, <1>9
  <1>11. Runs(a, D, L, <<>>, F)
    <2>1. a = [m \in 0..L |-> a[m]]
      BY <1>9
    <2>2. \A m \in 1..L : a[m - 1] \in D => a[m] = F[<<m, a[m - 1]>>]
      BY <1>6, <1>10, Zenon
    <2> QED BY <1>3, <1>4, <1>5, <1>10, <2>1, <2>2, RunTyped, Zenon
  <1> QED BY <1>2, <1>10, <1>11 DEF Runs, L, D, step

\* The answers of several requests show what each of them has shown.
LEMMA TogetherList ==
  ASSUME NEW done \in Seq(Requests), found \in [Requests -> Seq(Words)]
  PROVE  /\ Together(done) \in Seq(Entries)
         /\ \A f, d : Has(Together(done), f, d)
                          <=> \E r \in ToSet(done) : d = r[2] /\ Reads(found[r], f)
  <1>1. PICK u \in [0..Len(done) -> Seq(Entries)] :
            /\ u[0] = <<>>
            /\ \A m \in 1..Len(done) : u[m] = AddSortedHeadwords(u[m - 1], Sorted(done[m]))
            /\ Together(done) = u[Len(done)]
    BY TogetherIs
  <1> DEFINE L == Len(done)
             Mine(r, f, d) == d = r[2] /\ Reads(found[r], f)
             Upto(n, f, d) == \E i \in 1..n : Mine(done[i], f, d)
             Shown(n) == \A f, d : Has(u[n], f, d) <=> Upto(n, f, d)
             A == {n \in Nat : n <= L => Shown(n)}
  <1>2. L \in Nat /\ DOMAIN done = 1..L /\ \A m \in 1..L : done[m] \in Requests
    BY LenProperties, ElementOfSeq
  <1> HIDE DEF Mine
  <1>3. \A m \in 1..L : /\ Sorted(done[m]) \in Seq(Entries)
                        /\ \A f, d : Has(Sorted(done[m]), f, d) <=> Mine(done[m], f, d)
    <2>1. ASSUME NEW m \in 1..L
          PROVE  /\ Sorted(done[m]) \in Seq(Entries)
                 /\ \A f, d : Has(Sorted(done[m]), f, d) <=> Mine(done[m], f, d)
      <3>1. done[m] \in Requests /\ found[done[m]] \in Seq(Words)
        BY <1>2
      <3> QED BY <3>1, SortedList DEF Mine
    <2> QED BY <2>1
  <1>4. 0 \in A
    <2>1. ASSUME NEW f, NEW d PROVE Has(u[0], f, d) <=> Upto(0, f, d)
      <3>1. ~Has(u[0], f, d)
        BY <1>1, HasEmpty
      <3> QED BY <3>1
    <2> QED BY <2>1
  <1> HIDE DEF L, Shown
  <1>5. ASSUME NEW n \in Nat, n \in A PROVE n + 1 \in A
    <2>1. SUFFICES ASSUME n + 1 <= L PROVE Shown(n + 1)
      OBVIOUS
    <2>2. n \in 0..L /\ n + 1 \in 1..L /\ (n + 1) - 1 = n /\ n <= L
      BY <1>2, <2>1
    <2>3. Shown(n)
      BY <1>5, <2>2
    <2> HIDE DEF A
    <2>4. u[n + 1] = AddSortedHeadwords(u[n], Sorted(done[n + 1]))
      BY <1>1, <2>2 DEF L
    <2>5. u[n] \in Seq(Entries)
      BY <2>2 DEF L
    <2>6. Sorted(done[n + 1]) \in Seq(Entries)
      BY <1>3, <2>2
    <2>7. ASSUME NEW f, NEW d PROVE Has(u[n + 1], f, d) <=> Upto(n + 1, f, d)
      <3>1. Has(Sorted(done[n + 1]), f, d) <=> Mine(done[n + 1], f, d)
        BY <1>3, <2>2
      <3>2. Has(u[n + 1], f, d) <=> Has(u[n], f, d) \/ Has(Sorted(done[n + 1]), f, d)
        BY <2>4, <2>5, <2>6, MergedList
      <3>3. Has(u[n], f, d) <=> Upto(n, f, d)
        BY <2>3 DEF Shown
      <3>4. Upto(n + 1, f, d) <=> Upto(n, f, d) \/ Mine(done[n + 1], f, d)
        <4>1. \A i \in 1..n + 1 : i \in 1..n \/ i = n + 1
          OBVIOUS
        <4>2. \A i \in 1..n : i \in 1..n + 1
          OBVIOUS
        <4>3. n + 1 \in 1..n + 1
          OBVIOUS
        <4> QED BY <4>1, <4>2, <4>3
      <3> HIDE DEF Upto
      <3> QED BY <3>1, <3>2, <3>3, <3>4
    <2> QED BY <2>7 DEF Shown
  <1> HIDE DEF A
  <1>6. Nat \subseteq A
    BY <1>4, <1>5, SetInduction
  <1>7. Shown(L) /\ L \in 0..L
    <2>1. L \in A /\ L <= L /\ L \in 0..L
      BY <1>2, <1>6
    <2> QED BY <2>1 DEF A
  <1>8. u[L] \in Seq(Entries) /\ Together(done) = u[L]
    BY <1>1, <1>7 DEF L
  <1>9. ToSet(done) = {done[i] : i \in 1..L}
    BY <1>2 DEF ToSet
  <1>10. \A f, d : Upto(L, f, d) <=> \E r \in ToSet(done) : Mine(r, f, d)
    BY <1>9
  <1> HIDE DEF Upto
  <1>11. \A f, d : Has(Together(done), f, d) <=> \E r \in ToSet(done) : Mine(r, f, d)
    BY <1>7, <1>8, <1>10 DEF Shown
  <1>12. Together(done) \in Seq(Entries)
    BY <1>8
  <1> QED BY <1>11, <1>12, Zenon DEF Mine

(***************************************************************************)
(* The count                                                               *)
(***************************************************************************)
LEMMA SumIs ==
  ASSUME NEW S
  PROVE  \E u \in [0..Dicts -> Nat] :
             /\ u[0] = 0
             /\ \A m \in 1..Dicts : u[m] = u[m - 1] + (IF m \in S THEN Len(Hits[m]) ELSE 0)
             /\ MatchesOf(S) = u[Dicts]
  <1> DEFINE L == Dicts
             D == Nat
             step(m, b) == b + (IF m \in S THEN Len(Hits[m]) ELSE 0)
             F == [p \in (1..L) \X D |-> step(p[1], p[2])]
             body(g) == [n \in 0..L |-> IF n = 0 THEN 0 ELSE step(n, g[n - 1])]
  <1>1. \E a : a = (CHOOSE g : g = body(g)) /\ MatchesOf(S) = a[L]
    BY Zenon DEF MatchesOf
  <1>2. PICK a : a = (CHOOSE g : g = body(g)) /\ MatchesOf(S) = a[L]
    BY <1>1
  <1>3. L \in Nat /\ \A m \in 1..L : Len(Hits[m]) \in Nat
    BY DictsAssumption, LenProperties
  <1>4. 0 \in D
    OBVIOUS
  <1>5. F \in [(1..L) \X D -> D]
    <2>1. ASSUME NEW p \in (1..L) \X D PROVE step(p[1], p[2]) \in D
      <3>1. p[1] \in 1..L /\ p[2] \in Nat
        OBVIOUS
      <3>2. Len(Hits[p[1]]) \in Nat
        BY <1>3, <3>1
      <3> QED BY <3>1, <3>2
    <2> QED BY <2>1
  <1>6. \A m \in 1..L : \A b \in D : F[<<m, b>>] = step(m, b)
    OBVIOUS
  <1> HIDE DEF L, D, F, step
  <1>7. PICK h : Runs(h, D, L, 0, F)
    BY <1>3, <1>4, <1>5, RunExists
  <1>8. h = body(h)
    <2>1. \A m \in 1..L : m - 1 \in 0..L
      BY <1>3
    <2>2. h \in [0..L -> D] /\ h[0] = 0 /\ \A m \in 1..L : h[m] = F[<<m, h[m - 1]>>]
      BY <1>7 DEF Runs
    <2>3. \A m \in 1..L : h[m - 1] \in D
      BY <2>1, <2>2
    <2>4. \A m \in 1..L : h[m] = step(m, h[m - 1])
      BY <1>6, <2>2, <2>3
    <2>5. \A m \in 0..L : m = 0 \/ m \in 1..L
      BY <1>3
    <2>6. h = [m \in 0..L |-> h[m]]
      BY <2>2
    <2> QED BY <2>2, <2>4, <2>5, <2>6
  <1>9. a = body(a)
    BY <1>2, <1>8, Zenon
  <1>10. a[0] = 0 /\ \A m \in 1..L : a[m] = step(m, a[m - 1])
    BY <1>3, <1>9
  <1>11. Runs(a, D, L, 0, F)
    <2>1. a = [m \in 0..L |-> a[m]]
      BY <1>9
    <2>2. \A m \in 1..L : a[m - 1] \in D => a[m] = F[<<m, a[m - 1]>>]
      BY <1>6, <1>10, Zenon
    <2> QED BY <1>3, <1>4, <1>5, <1>10, <2>1, <2>2, RunTyped, Zenon
  <1> QED BY <1>2, <1>10, <1>11 DEF Runs, L, D, step

\* Matches are never taken back ...
LEMMA SumGrows ==
  ASSUME NEW S, NEW T, S \subseteq T
  PROVE  MatchesOf(S) \in Nat /\ MatchesOf(T) \in Nat /\ MatchesOf(S) <= MatchesOf(T)
  <1> DEFINE more(R, m) == IF m \in R THEN Len(Hits[m]) ELSE 0
  <1>1. PICK u \in [0..Dicts -> Nat] :
            /\ u[0] = 0
            /\ \A m \in 1..Dicts : u[m] = u[m - 1] + more(S, m)
            /\ MatchesOf(S) = u[Dicts]
    BY SumIs
  <1>2. PICK v \in [0..Dicts -> Nat] :
            /\ v[0] = 0
            /\ \A m \in 1..Dicts : v[m] = v[m - 1] + more(T, m)
            /\ MatchesOf(T) = v[Dicts]
    BY SumIs
  <1>3. Dicts \in Nat /\ \A m \in 1..Dicts : Len(Hits[m]) \in Nat
    BY DictsAssumption, LenProperties
  <1>4. \A m \in 1..Dicts : more(S, m) \in Nat /\ more(T, m) \in Nat /\ more(S, m) <= more(T, m)
    BY <1>3
  <1> HIDE DEF more
  <1> DEFINE A == {n \in Nat : n <= Dicts => u[n] <= v[n]}
  <1>5. 0 \in A
    BY <1>1, <1>2
  <1>6. ASSUME NEW n \in Nat, n \in A PROVE n + 1 \in A
    <2>1. SUFFICES ASSUME n + 1 <= Dicts PROVE u[n + 1] <= v[n + 1]
      OBVIOUS
    <2>2. n \in 0..Dicts /\ n + 1 \in 1..Dicts /\ (n + 1) - 1 = n /\ n <= Dicts
      BY <1>3, <2>1
    <2>3. u[n] <= v[n] /\ u[n] \in Nat /\ v[n] \in Nat
      BY <1>6, <2>2
    <2>4. u[n + 1] = u[n] + more(S, n + 1) /\ v[n + 1] = v[n] + more(T, n + 1)
      BY <1>1, <1>2, <2>2
    <2> HIDE DEF A
    <2> QED BY <1>4, <2>2, <2>3, <2>4
  <1> HIDE DEF A
  <1>7. Nat \subseteq A
    BY <1>5, <1>6, SetInduction
  <1>8. Dicts \in A /\ Dicts \in 0..Dicts /\ Dicts <= Dicts
    BY <1>3, <1>7
  <1>9. u[Dicts] <= v[Dicts] /\ u[Dicts] \in Nat /\ v[Dicts] \in Nat
    BY <1>8 DEF A
  <1> QED BY <1>1, <1>2, <1>9

\* ... and one more dictionary adds its own.
LEMMA SumAdds ==
  ASSUME NEW S, NEW d \in 1..Dicts, d \notin S
  PROVE  MatchesOf(S \cup {d}) = MatchesOf(S) + Len(Hits[d])
  <1> DEFINE T == S \cup {d}
             more(R, m) == IF m \in R THEN Len(Hits[m]) ELSE 0
  <1>1. PICK u \in [0..Dicts -> Nat] :
            /\ u[0] = 0
            /\ \A m \in 1..Dicts : u[m] = u[m - 1] + more(S, m)
            /\ MatchesOf(S) = u[Dicts]
    BY SumIs
  <1>2. PICK v \in [0..Dicts -> Nat] :
            /\ v[0] = 0
            /\ \A m \in 1..Dicts : v[m] = v[m - 1] + more(T, m)
            /\ MatchesOf(T) = v[Dicts]
    BY SumIs
  <1>3. Dicts \in Nat /\ \A m \in 1..Dicts : Len(Hits[m]) \in Nat
    BY DictsAssumption, LenProperties
  <1>4. \A m \in 1..Dicts : more(S, m) \in Nat /\ more(T, m) \in Nat
    BY <1>3
  <1>5. /\ more(S, d) = 0
        /\ more(T, d) = Len(Hits[d])
        /\ \A m \in 1..Dicts : m # d => more(T, m) = more(S, m)
    OBVIOUS
  <1> HIDE DEF more, T
  <1> DEFINE plus(n) == IF n < d THEN 0 ELSE Len(Hits[d])
             A == {n \in Nat : n <= Dicts => v[n] = u[n] + plus(n)}
  <1>6. 0 \in A
    BY <1>1, <1>2
  <1>7. ASSUME NEW n \in Nat, n \in A PROVE n + 1 \in A
    <2>1. SUFFICES ASSUME n + 1 <= Dicts PROVE v[n + 1] = u[n + 1] + plus(n + 1)
      OBVIOUS
    <2>2. n \in 0..Dicts /\ n + 1 \in 1..Dicts /\ (n + 1) - 1 = n /\ n <= Dicts
      BY <1>3, <2>1
    <2>3. v[n] = u[n] + plus(n) /\ u[n] \in Nat /\ v[n] \in Nat
      BY <1>7, <2>2
    <2>4. u[n + 1] = u[n] + more(S, n + 1) /\ v[n + 1] = v[n] + more(T, n + 1)
      BY <1>1, <1>2, <2>2
    <2>5. more(S, n + 1) \in Nat /\ more(T, n + 1) \in Nat /\ Len(Hits[d]) \in Nat
      BY <1>3, <1>4, <2>2
    <2> HIDE DEF A
    <2>6. CASE n + 1 = d
      <3>1. plus(n) = 0 /\ plus(n + 1) = Len(Hits[d])
        BY <2>6
      <3>2. more(S, n + 1) = 0 /\ more(T, n + 1) = Len(Hits[d])
        BY <1>5, <2>6
      <3> HIDE DEF plus
      <3> QED BY <2>3, <2>4, <2>5, <3>1, <3>2
    <2>7. CASE n + 1 # d
      <3>1. plus(n + 1) = plus(n) /\ plus(n) \in Nat
        BY <2>2, <2>5, <2>7
      <3>2. more(T, n + 1) = more(S, n + 1)
        BY <1>5, <2>2, <2>7
      <3> HIDE DEF plus
      <3> QED BY <2>3, <2>4, <2>5, <3>1, <3>2
    <2> QED BY <2>6, <2>7
  <1> HIDE DEF A
  <1>8. Nat \subseteq A
    BY <1>6, <1>7, SetInduction
  <1>9. Dicts \in A /\ Dicts <= Dicts /\ ~(Dicts < d)
    BY <1>3, <1>8
  <1>10. v[Dicts] = u[Dicts] + Len(Hits[d])
    BY <1>9 DEF A
  <1> QED BY <1>1, <1>2, <1>10 DEF T

(***************************************************************************)
(* The posted events                                                       *)
(***************************************************************************)
LEMMA NothingPosted == Once(<<>>) /\ Pend(<<>>) = {}
  BY DEF Once, Pend, Counts

LEMMA PendAppend ==
  ASSUME NEW q \in Seq(Posts), NEW p \in Posts, Once(q),
         p.kind = "count" => p.req \notin Pend(q)
  PROVE  /\ Append(q, p) \in Seq(Posts)
         /\ Once(Append(q, p))
         /\ Pend(q) \subseteq Pend(Append(q, p))
         /\ Pend(Append(q, p)) \subseteq Pend(q) \cup (IF p.kind = "count" THEN {p.req} ELSE {})
  <1>1. Len(q) \in Nat /\ DOMAIN q = 1..Len(q)
    BY LenProperties
  <1>2. /\ Append(q, p) \in Seq(Posts)
        /\ Len(Append(q, p)) = Len(q) + 1
        /\ \A i \in 1..Len(q) : Append(q, p)[i] = q[i]
        /\ Append(q, p)[Len(q) + 1] = p
    BY AppendProperties
  <1>3. DOMAIN Append(q, p) = 1..Len(q) + 1
    BY <1>2, LenProperties
  <1>4. ASSUME NEW r \in Requests
        PROVE  Counts(Append(q, p), r) = Counts(q, r) \cup
                   (IF p.kind = "count" /\ p.req = r THEN {Len(q) + 1} ELSE {})
    <2>1. \A i \in 1..Len(q) + 1 : i \in 1..Len(q) \/ i = Len(q) + 1
      BY <1>1
    <2>2. \A i \in 1..Len(q) : i \in 1..Len(q) + 1 /\ i # Len(q) + 1
      BY <1>1
    <2>3. Len(q) + 1 \in 1..Len(q) + 1
      BY <1>1
    <2> QED BY <1>1, <1>2, <1>3, <2>1, <2>2, <2>3 DEF Counts
  <1>5. Once(Append(q, p))
    <2>1. SUFFICES ASSUME NEW r \in Requests, NEW i \in Counts(Append(q, p), r),
                          NEW j \in Counts(Append(q, p), r)
                   PROVE  i = j
      BY DEF Once
    <2>2. \A x, y \in Counts(q, r) : x = y
      BY DEF Once
    <2>3. p.kind = "count" /\ p.req = r => Counts(q, r) = {}
      BY DEF Pend
    <2> QED BY <1>4, <2>1, <2>2, <2>3
  <1>6. Pend(q) \subseteq Pend(Append(q, p))
    BY <1>4 DEF Pend
  <1>7. Pend(Append(q, p)) \subseteq Pend(q) \cup (IF p.kind = "count" THEN {p.req} ELSE {})
    BY <1>4 DEF Pend
  <1> QED BY <1>2, <1>5, <1>6, <1>7

LEMMA PendTail ==
  ASSUME NEW q \in Seq(Posts), q # <<>>, Once(q)
  PROVE  /\ Head(q) \in Posts /\ Tail(q) \in Seq(Posts)
         /\ Once(Tail(q))
         /\ Pend(Tail(q)) \subseteq Pend(q)
         /\ Head(q).kind = "count" =>
                Head(q).req \in Pend(q) /\ Pend(Tail(q)) = Pend(q) \ {Head(q).req}
         /\ Head(q).kind # "count" => Pend(Tail(q)) = Pend(q)
  <1>1. Len(q) \in Nat \ {0} /\ DOMAIN q = 1..Len(q)
    BY LenProperties, EmptySeq
  <1>2. /\ Head(q) \in Posts /\ Tail(q) \in Seq(Posts)
        /\ Len(Tail(q)) = Len(q) - 1
        /\ \A i \in 1..Len(Tail(q)) : Tail(q)[i] = q[i + 1]
    BY HeadTailProperties
  <1>3. DOMAIN Tail(q) = 1..Len(q) - 1
    BY <1>2, LenProperties
  <1>4. Head(q) = q[1] /\ 1 \in 1..Len(q)
    BY <1>1
  <1>5. \A i \in 1..Len(q) - 1 : Tail(q)[i] = q[i + 1] /\ i + 1 \in 1..Len(q) /\ i + 1 # 1
    BY <1>1, <1>2
  <1>6. \A i \in 1..Len(q) : i # 1 => \E j \in 1..Len(q) - 1 : i = j + 1
    <2>1. ASSUME NEW i \in 1..Len(q), i # 1 PROVE \E j \in 1..Len(q) - 1 : i = j + 1
      <3>1. i - 1 \in 1..Len(q) - 1 /\ i = (i - 1) + 1
        BY <1>1, <2>1
      <3> QED BY <3>1
    <2> QED BY <2>1
  <1>7. ASSUME NEW r \in Requests, NEW i \in Counts(Tail(q), r)
        PROVE  i \in 1..Len(q) - 1 /\ i + 1 \in Counts(q, r) /\ i + 1 # 1
    BY <1>1, <1>3, <1>5 DEF Counts
  <1>8. ASSUME NEW r \in Requests, NEW i \in Counts(q, r), i # 1
        PROVE  Counts(Tail(q), r) # {}
    <2>1. PICK j \in 1..Len(q) - 1 : i = j + 1
      BY <1>1, <1>6, <1>8 DEF Counts
    <2>2. j \in Counts(Tail(q), r)
      BY <1>3, <1>5, <2>1 DEF Counts
    <2> QED BY <2>2
  <1>9. Once(Tail(q))
    <2>1. SUFFICES ASSUME NEW r \in Requests, NEW i \in Counts(Tail(q), r),
                          NEW j \in Counts(Tail(q), r)
                   PROVE  i = j
      BY DEF Once
    <2>2. i + 1 \in Counts(q, r) /\ j + 1 \in Counts(q, r) /\ i \in Int /\ j \in Int
      BY <1>1, <1>7
    <2>3. i + 1 = j + 1
      BY <2>2 DEF Once
    <2> QED BY <2>2, <2>3
  <1>10. \A r \in Pend(Tail(q)) : r \in Pend(q)
    BY <1>7 DEF Pend
  <1>11. ASSUME Head(q).kind = "count"
         PROVE  Head(q).req \in Pend(q) /\ Pend(Tail(q)) = Pend(q) \ {Head(q).req}
    <2>1. Head(q).req \in Requests
      BY <1>2, <1>11 DEF Posts
    <2>2. 1 \in Counts(q, Head(q).req)
      BY <1>1, <1>4, <1>11 DEF Counts
    <2>3. Head(q).req \in Pend(q)
      BY <2>1, <2>2 DEF Pend
    <2>4. Head(q).req \notin Pend(Tail(q))
      BY <1>7, <2>1, <2>2 DEF Pend, Once
    <2>5. ASSUME NEW r \in Pend(q), r # Head(q).req PROVE r \in Pend(Tail(q))
      <3>1. PICK i \in Counts(q, r) : TRUE
        BY DEF Pend
      <3>2. i # 1
        BY <1>4, <2>5, <3>1 DEF Counts
      <3> QED BY <1>8, <3>1, <3>2 DEF Pend
    <2> QED BY <1>10, <2>3, <2>4, <2>5
  <1>12. ASSUME Head(q).kind # "count" PROVE Pend(Tail(q)) = Pend(q)
    <2>1. ASSUME NEW r \in Pend(q) PROVE r \in Pend(Tail(q))
      <3>1. PICK i \in Counts(q, r) : TRUE
        BY DEF Pend
      <3>2. i # 1
        BY <1>4, <1>12, <3>1 DEF Counts
      <3> QED BY <1>8, <3>1, <3>2 DEF Pend
    <2> QED BY <1>10, <2>1
  <1> QED BY <1>2, <1>9, <1>10, <1>11, <1>12

LEMMA PendFinished ==
  ASSUME NEW q \in Seq(Posts), Once(q), NEW late \in Seq(Requests)
  PROVE  LET t == q \o [i \in DOMAIN late |-> [kind |-> "finished", req |-> late[i]]]
         IN  t \in Seq(Posts) /\ Once(t) /\ Pend(t) = Pend(q)
  <1> DEFINE e == [i \in DOMAIN late |-> [kind |-> "finished", req |-> late[i]]]
             t == q \o e
  <1>1. Len(late) \in Nat /\ DOMAIN late = 1..Len(late) /\ \A i \in 1..Len(late) : late[i] \in Requests
    BY LenProperties, ElementOfSeq
  <1>2. \A i \in 1..Len(late) : e[i] \in Posts /\ e[i].kind = "finished"
    BY <1>1 DEF Posts
  <1>3. e \in Seq(Posts) /\ Len(e) = Len(late)
    <2>1. e \in [1..Len(late) -> Posts]
      BY <1>1, <1>2
    <2> HIDE DEF e
    <2>2. e \in Seq(Posts)
      BY <1>1, <2>1, SeqDef
    <2>3. DOMAIN e = 1..Len(late) /\ DOMAIN e = 1..Len(e) /\ Len(e) \in Nat
      BY <2>1, <2>2, LenProperties
    <2> QED BY <1>1, <2>2, <2>3
  <1> HIDE DEF e
  <1>4. Len(q) \in Nat /\ DOMAIN q = 1..Len(q)
    BY LenProperties
  <1>5. /\ t \in Seq(Posts)
        /\ Len(t) = Len(q) + Len(e)
        /\ \A i \in 1..Len(q) + Len(e) : t[i] = IF i <= Len(q) THEN q[i] ELSE e[i - Len(q)]
    BY <1>3, ConcatProperties
  <1>6. DOMAIN t = 1..Len(q) + Len(e)
    BY <1>5, LenProperties
  <1> HIDE DEF t
  <1>7. ASSUME NEW r \in Requests PROVE Counts(t, r) = Counts(q, r)
    <2>1. ASSUME NEW i \in Counts(t, r) PROVE i \in Counts(q, r)
      <3>1. i \in 1..Len(q) + Len(e) /\ t[i].kind = "count" /\ t[i].req = r
        BY <1>6 DEF Counts
      <3>2. CASE i <= Len(q)
        <4>1. i \in 1..Len(q) /\ t[i] = q[i]
          BY <1>4, <1>5, <3>1, <3>2
        <4> QED BY <1>4, <3>1, <4>1 DEF Counts
      <3>3. CASE ~(i <= Len(q))
        <4>1. i - Len(q) \in 1..Len(late) /\ t[i] = e[i - Len(q)]
          BY <1>1, <1>3, <1>4, <1>5, <3>1, <3>3
        <4> QED BY <1>2, <3>1, <4>1
      <3> QED BY <3>2, <3>3
    <2>2. ASSUME NEW i \in Counts(q, r) PROVE i \in Counts(t, r)
      <3>1. i \in 1..Len(q) /\ q[i].kind = "count" /\ q[i].req = r
        BY <1>4 DEF Counts
      <3>2. i \in 1..Len(q) + Len(e) /\ i <= Len(q)
        BY <1>1, <1>3, <1>4, <3>1
      <3>3. t[i] = q[i]
        BY <1>5, <3>2
      <3> QED BY <1>6, <3>1, <3>2, <3>3 DEF Counts
    <2> QED BY <2>1, <2>2
  <1>8. Once(t) /\ Pend(t) = Pend(q)
    BY <1>7 DEF Once, Pend
  <1> QED BY <1>5, <1>8 DEF t, e

(***************************************************************************)
(* The steps                                                               *)
(***************************************************************************)
LEMMA OfRound ==
  ASSUME TypeInv, IdleInv, dialog # "none", NEW d \in 1..Dicts
  PROVE  <<round, d>> \in Requests
  <1>1. round \in 1..MaxRounds
    BY BoundsAssumption DEF TypeInv, IdleInv
  <1> QED BY <1>1 DEF Requests

LEMMA EmptyPrefix ==
  ASSUME NEW d \in 1..Dicts
  PROVE  IsPrefix(<<>>, Hits[d])
  <1>1. Len(<<>>) = 0 /\ Hits[d] \in Seq(Words)
    BY DictsAssumption
  <1>2. Len(Hits[d]) \in Nat
    BY <1>1, LenProperties
  <1>3. SubSeq(<<>>, 1, 0) = <<>> /\ SubSeq(Hits[d], 1, 0) = <<>>
    BY SubSeqEmpty
  <1> QED BY <1>1, <1>2, <1>3 DEF IsPrefix

LEMMA InitHolds == Init => IInv
  <1> SUFFICES ASSUME Init PROVE IInv
    OBVIOUS
  <1>1. TypeInv
    <2>1. \A r \in Requests : r[2] \in 1..Dicts
      BY DEF Requests
    <2>2. found = [r \in Requests |-> <<>>] /\ <<>> \in Seq(Words)
      BY EmptySeq DEF Init
    <2>3. found \in [Requests -> Seq(Words)]
      BY <2>2
    <2>4. \A r \in Requests : IsPrefix(found[r], Hits[r[2]])
      BY <2>1, <2>2, EmptyPrefix
    <2>5. round \in 0..MaxRounds /\ Len(<<>>) <= MaxFrames
      BY BoundsAssumption DEF Init
    <2>6. worker \in [Requests -> Active \cup {"none", "ended"}]
      BY DEF Init
    <2>7. reqs \in Seq(Requests) /\ events \in Seq(Posts) /\ results \in Seq(Entries)
          /\ frames \in Seq({"reject", "close"}) /\ Len(frames) <= MaxFrames
      BY <2>5, EmptySeq DEF Init
    <2> QED BY <2>3, <2>4, <2>5, <2>6, <2>7 DEF Init, TypeInv
  <1>2. ReqsInv
    <2>1. \A r \in Requests : worker[r] = "none"
      BY DEF Init
    <2>2. ToSet(reqs) = {}
      BY DEF Init, ToSet
    <2> QED BY <2>1, <2>2 DEF ReqsInv, Active
  <1>3. IdleInv
    BY DEF Init, IdleInv
  <1>4. PostedInv
    BY NothingPosted DEF Init, PostedInv
  <1>5. CountInv /\ ListInv
    BY DEF Init, CountInv, ListInv
  <1> QED BY <1>1, <1>2, <1>3, <1>4, <1>5 DEF IInv

\* A worker goes on.
LEMMA WorkerKeeps ==
  ASSUME IInv, NEW r \in Requests, worker[r] \in Active,
         NEW st \in {"counted", "flagged", "ended"},
         worker' = [worker EXCEPT ![r] = st],
         found' \in [Requests -> Seq(Words)],
         \A x \in Requests : IsPrefix(found'[x], Hits[x[2]]),
         \A x \in Requests : x # r => found'[x] = found[x],
         events' \in Seq(Posts), Once(events'),
         Pend(events) \subseteq Pend(events'),
         Pend(events') \subseteq Pend(events) \cup {r},
         r \in Pend(events') => r \in Pend(events) \/ worker[r] = "running",
         UNCHANGED guiVars
  PROVE  IInv'
  <1> USE DEF guiVars
  <1>1. TypeInv /\ ReqsInv /\ IdleInv /\ PostedInv /\ CountInv /\ ListInv
    BY DEF IInv
  <1>2. r \in ToSet(reqs) /\ reqs # <<>>
    <2>1. r \in ToSet(reqs)
      BY <1>1 DEF ReqsInv
    <2> QED BY <2>1 DEF ToSet
  <1>3. worker'[r] = st /\ \A x \in Requests : x # r => worker'[x] = worker[x]
    BY <1>1 DEF TypeInv
  <1>4. TypeInv'
    <2>1. worker' \in [Requests -> Active \cup {"none", "ended"}]
      BY <1>1 DEF TypeInv, Active
    <2> QED BY <1>1, <2>1 DEF TypeInv
  <1>5. \A x \in Requests : worker'[x] # "none" <=> worker[x] # "none"
    BY <1>3 DEF Active
  <1>6. ReqsInv'
    <2>1. \A x \in Requests : worker'[x] \in Active => worker[x] \in Active
      BY <1>3 DEF Active
    <2>2. ToSet(reqs) \subseteq Requests
      BY <1>1, SetOfSeq DEF TypeInv
    <2> QED BY <1>1, <1>5, <2>1, <2>2 DEF ReqsInv
  <1>7. IdleInv'
    BY <1>1, <1>2 DEF IdleInv
  <1>8. PostedInv'
    <2>1. ASSUME NEW x \in Pend(events') PROVE worker'[x] \notin {"none", "running"}
      <3>1. x \in Requests
        BY DEF Pend
      <3>2. CASE x = r
        BY <1>3, <3>2
      <3>3. CASE x # r
        BY <1>1, <1>3, <3>1, <3>3 DEF PostedInv
      <3> QED BY <3>2, <3>3
    <2> QED BY <2>1 DEF PostedInv
  <1>9. dialog # "none" => \A d \in 1..Dicts : <<round, d>> \in Requests
    BY <1>1, OfRound
  <1>10. CountInv'
    <2>1. ASSUME dialog \in {"open", "accepting"} PROVE Counted \subseteq Counted'
      <3>1. ASSUME NEW d \in Counted PROVE d \in Counted'
        <4>1. d \in 1..Dicts /\ worker[<<round, d>>] \notin {"none", "running"}
              /\ <<round, d>> \notin Pend(events) /\ <<round, d>> \in Requests
          BY <1>9, <2>1 DEF Counted
        <4>2. worker'[<<round, d>>] \notin {"none", "running"}
          BY <1>3, <4>1
        <4>3. <<round, d>> \notin Pend(events')
          BY <4>1
        <4> QED BY <4>1, <4>2, <4>3 DEF Counted
      <3> QED BY <3>1
    <2>2. dialog \in {"open", "accepting"} => MatchesOf(Counted) <= MatchesOf(Counted')
          /\ MatchesOf(Counted) \in Nat /\ MatchesOf(Counted') \in Nat
      BY <2>1, SumGrows
    <2>3. matchedCount \in Nat
      BY <1>1 DEF TypeInv
    <2> QED BY <1>1, <2>2, <2>3 DEF CountInv
  <1>11. ListInv'
    <2>1. SUFFICES ASSUME dialog \in {"open", "accepting"}, NEW f, NEW d
                   PROVE  Has(results, f, d) <=> d \in Gone' /\ Reads(found'[<<round, d>>], f)
      BY DEF ListInv
    <2>2. Gone' = Gone
      BY <1>5, <1>9, <2>1 DEF Gone
    <2>3. d \in Gone => found'[<<round, d>>] = found[<<round, d>>]
      <3>1. ASSUME d \in Gone PROVE <<round, d>> \in Requests /\ <<round, d>> # r
        BY <1>2, <1>9, <2>1, <3>1 DEF Gone
      <3> QED BY <3>1
    <2> QED BY <1>1, <2>1, <2>2, <2>3 DEF ListInv
  <1> QED BY <1>4, <1>6, <1>7, <1>8, <1>10, <1>11 DEF IInv

LEMMA CountMatchesKeeps ==
  ASSUME IInv, NEW r \in Requests, CountMatches(r)
  PROVE  IInv'
  <1> DEFINE p == [kind |-> "count", req |-> r]
  <1>1. TypeInv /\ PostedInv
    BY DEF IInv
  <1>2. events' = Append(events, p) /\ worker[r] = "running" /\ found' = found
        /\ worker' = [worker EXCEPT ![r] = "counted"] /\ UNCHANGED guiVars
    BY DEF CountMatches, Post
  <1>3. p \in Posts /\ p.kind = "count" /\ p.req = r
    BY DEF Posts
  <1>4. r \notin Pend(events) /\ Once(events) /\ events \in Seq(Posts)
    BY <1>1, <1>2 DEF PostedInv, TypeInv
  <1> HIDE DEF p
  <1>5. /\ events' \in Seq(Posts) /\ Once(events')
        /\ Pend(events) \subseteq Pend(events')
        /\ Pend(events') \subseteq Pend(events) \cup {r}
    BY <1>2, <1>3, <1>4, PendAppend
  <1>6. found' \in [Requests -> Seq(Words)] /\ \A x \in Requests : IsPrefix(found'[x], Hits[x[2]])
    BY <1>1, <1>2 DEF TypeInv
  <1> QED BY <1>2, <1>5, <1>6, WorkerKeeps DEF Active

LEMMA AnswerKeeps ==
  ASSUME IInv, NEW r \in Requests, Answer(r)
  PROVE  IInv'
  <1>1. TypeInv /\ PostedInv
    BY DEF IInv
  <1>2. PICK n \in 0..Len(Hits[r[2]]) : found' = [found EXCEPT ![r] = SubSeq(Hits[r[2]], 1, n)]
    BY DEF Answer
  <1>3. worker[r] = "counted" /\ worker' = [worker EXCEPT ![r] = "flagged"]
        /\ events' = events /\ UNCHANGED guiVars
    BY DEF Answer
  <1> DEFINE h == Hits[r[2]]
             s == SubSeq(h, 1, n)
  <1>4. h \in Seq(Words) /\ Len(h) \in Nat
    <2>1. r[2] \in 1..Dicts
      BY DEF Requests
    <2> QED BY <2>1, DictsAssumption, LenProperties
  <1>5. s \in Seq(Words) /\ Len(s) = n /\ \A i \in 1..n : s[i] = h[i]
    <2>1. \A i \in 1..n : h[i] \in Words
      BY <1>4, ElementOfSeq
    <2> HIDE DEF h
    <2>2. /\ SubSeq(h, 1, n) \in Seq(Words)
          /\ Len(SubSeq(h, 1, n)) = IF 1 <= n THEN n - 1 + 1 ELSE 0
          /\ \A i \in 1..n - 1 + 1 : SubSeq(h, 1, n)[i] = h[1 + i - 1]
      BY <2>1, SubSeqProperties
    <2>3. n \in Nat
      OBVIOUS
    <2>4. Len(s) = n
      BY <2>2, <2>3
    <2>5. \A i \in 1..n : i \in 1..n - 1 + 1 /\ 1 + i - 1 = i
      BY <2>3
    <2> QED BY <2>2, <2>4, <2>5
  <1>6. IsPrefix(s, h)
    <2>1. SubSeq(s, 1, Len(s)) = s
      BY <1>5, SubSeqFull
    <2>2. n <= Len(h)
      BY <1>4
    <2> QED BY <1>5, <2>1, <2>2 DEF IsPrefix
  <1> HIDE DEF s
  <1>7. found'[r] = s /\ \A x \in Requests : x # r => found'[x] = found[x]
    BY <1>1, <1>2 DEF TypeInv, s
  <1>8. found' \in [Requests -> Seq(Words)]
    BY <1>1, <1>2, <1>5 DEF TypeInv, s
  <1>9. \A x \in Requests : IsPrefix(found'[x], Hits[x[2]])
    BY <1>1, <1>6, <1>7 DEF TypeInv
  <1>10. events' \in Seq(Posts) /\ Once(events') /\ Pend(events') = Pend(events)
    BY <1>1, <1>3 DEF TypeInv, PostedInv
  <1> QED BY <1>3, <1>7, <1>8, <1>9, <1>10, WorkerKeeps DEF Active

LEMMA FailKeeps ==
  ASSUME IInv, NEW r \in Requests, Fail(r)
  PROVE  IInv'
  <1>1. TypeInv /\ PostedInv
    BY DEF IInv
  <1>2. worker[r] \in {"running", "counted"} /\ worker' = [worker EXCEPT ![r] = "flagged"]
        /\ found' = found /\ events' = events /\ UNCHANGED guiVars
    BY DEF Fail
  <1>3. found' \in [Requests -> Seq(Words)] /\ \A x \in Requests : IsPrefix(found'[x], Hits[x[2]])
    BY <1>1, <1>2 DEF TypeInv
  <1>4. events' \in Seq(Posts) /\ Once(events') /\ Pend(events') = Pend(events)
    BY <1>1, <1>2 DEF TypeInv, PostedInv
  <1> QED BY <1>2, <1>3, <1>4, WorkerKeeps DEF Active

LEMMA EmitFinishedKeeps ==
  ASSUME IInv, NEW r \in Requests, EmitFinished(r)
  PROVE  IInv'
  <1> DEFINE p == [kind |-> "finished", req |-> r]
  <1>1. TypeInv /\ PostedInv
    BY DEF IInv
  <1>2. events' = Append(events, p) /\ worker[r] = "flagged" /\ found' = found
        /\ worker' = [worker EXCEPT ![r] = "ended"] /\ UNCHANGED guiVars
    BY DEF EmitFinished, Post
  <1>3. p \in Posts /\ p.kind # "count"
    BY DEF Posts
  <1>4. Once(events) /\ events \in Seq(Posts)
    BY <1>1 DEF PostedInv, TypeInv
  <1> HIDE DEF p
  <1>5. /\ events' \in Seq(Posts) /\ Once(events')
        /\ Pend(events) \subseteq Pend(events')
        /\ Pend(events') \subseteq Pend(events)
    BY <1>2, <1>3, <1>4, PendAppend
  <1>6. found' \in [Requests -> Seq(Words)] /\ \A x \in Requests : IsPrefix(found'[x], Hits[x[2]])
    BY <1>1, <1>2 DEF TypeInv
  <1> QED BY <1>2, <1>5, <1>6, WorkerKeeps DEF Active

\* A step that leaves the search alone, and posts no count
LEMMA QuietKeeps ==
  ASSUME IInv,
         UNCHANGED <<round, reqs, results, matchedCount, okEnabled, worker, found>>,
         isCancelled' \subseteq Requests,
         frames' \in Seq({"reject", "close"}), Len(frames') <= MaxFrames,
         events' \in Seq(Posts), Once(events'), Pend(events') \subseteq Pend(events),
         settled' \in BOOLEAN,
         settled' /\ reqs = <<>> => events' = <<>>,
         dialog \in {"none", "deleted"} => settled',
         dialog' = dialog \/ (dialog' = "deleted" /\ reqs = <<>> /\ settled' /\ dialog # "none")
  PROVE  IInv'
  <1>1. TypeInv /\ ReqsInv /\ IdleInv /\ PostedInv /\ CountInv /\ ListInv
    BY DEF IInv
  <1>2. TypeInv'
    BY <1>1 DEF TypeInv
  <1>3. ReqsInv'
    BY <1>1 DEF ReqsInv
  <1>4. IdleInv'
    BY <1>1 DEF IdleInv
  <1>5. PostedInv'
    BY <1>1 DEF PostedInv
  <1>6. dialog' \in {"open", "accepting"} => dialog \in {"open", "accepting"}
    OBVIOUS
  <1>7. CountInv'
    <2>1. Counted \subseteq Counted'
      BY DEF Counted
    <2>2. MatchesOf(Counted) <= MatchesOf(Counted')
          /\ MatchesOf(Counted) \in Nat /\ MatchesOf(Counted') \in Nat
      BY <2>1, SumGrows
    <2>3. matchedCount \in Nat
      BY <1>1 DEF TypeInv
    <2> QED BY <1>1, <1>6, <2>2, <2>3 DEF CountInv
  <1>8. ListInv'
    <2>1. Gone' = Gone
      BY DEF Gone
    <2> QED BY <1>1, <1>6, <2>1 DEF ListInv
  <1> QED BY <1>2, <1>3, <1>4, <1>5, <1>7, <1>8 DEF IInv

LEMMA StutterKeeps ==
  ASSUME IInv, UNCHANGED vars
  PROVE  IInv'
  <1>1. TypeInv /\ IdleInv /\ PostedInv
    BY DEF IInv
  <1> QED BY <1>1, QuietKeeps DEF TypeInv, IdleInv, PostedInv, vars

\* The stop of a search is one more frame.
LEMMA StopTyped ==
  ASSUME TypeInv, NEW caller \in {"reject", "close"}, StopSearch(caller)
  PROVE  /\ isCancelled' \subseteq Requests
         /\ frames' \in Seq({"reject", "close"}) /\ Len(frames') <= MaxFrames
  <1>1. ToSet(reqs) \subseteq Requests
    BY SetOfSeq DEF TypeInv
  <1>2. isCancelled' \subseteq Requests
    BY <1>1 DEF TypeInv, StopSearch
  <1>3. frames \in Seq({"reject", "close"}) /\ Len(frames) \in Nat
    BY LenProperties DEF TypeInv
  <1>4. frames' = Append(frames, caller) /\ Len(frames) < MaxFrames
    BY DEF StopSearch
  <1>5. frames' \in Seq({"reject", "close"}) /\ Len(frames') = Len(frames) + 1
    BY <1>3, <1>4, AppendProperties
  <1>6. Len(frames') <= MaxFrames
    BY <1>3, <1>4, <1>5, BoundsAssumption
  <1> QED BY <1>2, <1>5, <1>6

LEMMA CloseKeeps ==
  ASSUME IInv, dialog = "open", NEW rest \in Seq(Posts), Once(rest), Pend(rest) = Pend(events),
         CloseFullTextSearchDialog(rest)
  PROVE  IInv'
  <1>1. TypeInv
    BY DEF IInv
  <1>2. UNCHANGED <<round, reqs, results, matchedCount, okEnabled, worker, found>>
    BY DEF CloseFullTextSearchDialog, workerVars
  <1>3. CASE reqs = <<>>
    <2>1. dialog' = "deleted" /\ events' = <<>> /\ settled' = TRUE
          /\ UNCHANGED <<isCancelled, frames>>
      BY <1>3 DEF CloseFullTextSearchDialog, Delete
    <2>2. events' \in Seq(Posts) /\ Once(events') /\ Pend(events') = {}
      BY <2>1, EmptySeq, NothingPosted
    <2> QED BY <1>1, <1>2, <1>3, <2>1, <2>2, QuietKeeps DEF TypeInv
  <1>4. CASE reqs # <<>>
    <2>1. StopSearch("close") /\ events' = rest /\ settled' = (rest = <<>>) /\ dialog' = dialog
      BY <1>4 DEF CloseFullTextSearchDialog
    <2>2. /\ isCancelled' \subseteq Requests
          /\ frames' \in Seq({"reject", "close"}) /\ Len(frames') <= MaxFrames
      BY <1>1, <2>1, StopTyped
    <2> QED BY <1>2, <1>4, <2>1, <2>2, QuietKeeps
  <1> QED BY <1>3, <1>4

LEMMA DeliverCloseKeeps ==
  ASSUME IInv, DeliverClose
  PROVE  IInv'
  <1>1. dialog = "open" /\ events # <<>> /\ Head(events).kind = "close"
        /\ CloseFullTextSearchDialog(Tail(events))
    BY DEF DeliverClose
  <1>2. events \in Seq(Posts) /\ Once(events)
    BY DEF IInv, TypeInv, PostedInv
  <1>3. Tail(events) \in Seq(Posts) /\ Once(Tail(events)) /\ Pend(Tail(events)) = Pend(events)
    BY <1>1, <1>2, PendTail
  <1> QED BY <1>1, <1>3, CloseKeeps

LEMMA CloseClicked ==
  ASSUME IInv, Close
  PROVE  IInv'
  <1>1. dialog = "open" /\ CloseFullTextSearchDialog(events)
    BY DEF Close, UserMayAct
  <1>2. events \in Seq(Posts) /\ Once(events)
    BY DEF IInv, TypeInv, PostedInv
  <1> QED BY <1>1, <1>2, CloseKeeps

LEMMA RejectKeeps ==
  ASSUME IInv, Reject
  PROVE  IInv'
  <1>1. TypeInv /\ IdleInv /\ PostedInv
    BY DEF IInv
  <1>2. dialog = "open" /\ dialog' = dialog
        /\ UNCHANGED <<round, reqs, results, matchedCount, okEnabled, worker, found>>
    BY DEF Reject, UserMayAct, workerVars
  <1>3. CASE reqs # <<>>
    <2>1. StopSearch("reject") /\ UNCHANGED <<events, settled>>
      BY <1>3 DEF Reject
    <2>2. /\ isCancelled' \subseteq Requests
          /\ frames' \in Seq({"reject", "close"}) /\ Len(frames') <= MaxFrames
      BY <1>1, <2>1, StopTyped
    <2>3. events' \in Seq(Posts) /\ Once(events') /\ Pend(events') = Pend(events)
          /\ settled' \in BOOLEAN
      BY <1>1, <2>1 DEF TypeInv, PostedInv
    <2> QED BY <1>2, <1>3, <2>2, <2>3, QuietKeeps
  <1>4. CASE reqs = <<>>
    <2> DEFINE p == [kind |-> "close", req |-> <<>>]
    <2>1. events' = Append(events, p) /\ settled' = FALSE /\ UNCHANGED <<isCancelled, frames>>
      BY <1>4 DEF Reject, Post
    <2>2. p \in Posts /\ p.kind # "count"
      BY DEF Posts
    <2>3. Once(events) /\ events \in Seq(Posts)
      BY <1>1 DEF PostedInv, TypeInv
    <2> HIDE DEF p
    <2>4. events' \in Seq(Posts) /\ Once(events') /\ Pend(events') \subseteq Pend(events)
      BY <2>1, <2>2, <2>3, PendAppend
    <2>5. isCancelled' \subseteq Requests
          /\ frames' \in Seq({"reject", "close"}) /\ Len(frames') <= MaxFrames
      BY <1>1, <2>1 DEF TypeInv
    <2> QED BY <1>2, <2>1, <2>4, <2>5, QuietKeeps
  <1> QED BY <1>3, <1>4

LEMMA StopReturnsKeeps ==
  ASSUME IInv, StopReturns
  PROVE  IInv'
  <1>1. TypeInv /\ IdleInv /\ PostedInv
    BY DEF IInv
  <1>2. dialog = "open" /\ reqs = <<>> /\ settled /\ frames # <<>> /\ frames' = Front(frames)
        /\ UNCHANGED <<round, reqs, results, matchedCount, okEnabled, worker, found, isCancelled>>
    BY DEF StopReturns, workerVars
  <1>3. frames' \in Seq({"reject", "close"}) /\ Len(frames') <= MaxFrames
    <2>1. frames \in Seq({"reject", "close"}) /\ Len(frames) \in Nat \ {0} /\ Len(frames) <= MaxFrames
      BY <1>1, <1>2, EmptySeq DEF TypeInv
    <2>2. \A i \in 1..Len(frames) - 1 : frames[i] \in {"reject", "close"}
      <3>1. \A i \in 1..Len(frames) - 1 : i \in 1..Len(frames)
        BY <2>1
      <3> QED BY <2>1, <3>1, ElementOfSeq
    <2>3. /\ SubSeq(frames, 1, Len(frames) - 1) \in Seq({"reject", "close"})
          /\ Len(SubSeq(frames, 1, Len(frames) - 1)) =
                 IF 1 <= Len(frames) - 1 THEN (Len(frames) - 1) - 1 + 1 ELSE 0
      BY <2>1, <2>2, SubSeqProperties
    <2>4. Len(SubSeq(frames, 1, Len(frames) - 1)) <= MaxFrames
      BY <2>1, <2>3, BoundsAssumption
    <2> QED BY <1>2, <2>3, <2>4 DEF Front
  <1>4. isCancelled' \subseteq Requests /\ okEnabled' \in BOOLEAN
    BY <1>1, <1>2 DEF TypeInv
  <1>5. CASE Last(frames) = "close"
    <2>1. dialog' = "deleted" /\ events' = <<>> /\ settled' = TRUE
      BY <1>5 DEF StopReturns, Delete
    <2>2. events' \in Seq(Posts) /\ Once(events') /\ Pend(events') = {}
      BY <2>1, EmptySeq, NothingPosted
    <2> QED BY <1>2, <1>3, <1>4, <2>1, <2>2, QuietKeeps
  <1>6. CASE Last(frames) # "close"
    <2>1. UNCHANGED <<dialog, events, settled>>
      BY <1>6 DEF StopReturns
    <2>2. events' \in Seq(Posts) /\ Once(events') /\ Pend(events') = Pend(events)
          /\ settled' \in BOOLEAN /\ (settled' /\ reqs = <<>> => events' = <<>>)
      BY <1>1, <2>1 DEF TypeInv, PostedInv, IdleInv
    <2> QED BY <1>2, <1>3, <1>4, <2>1, <2>2, QuietKeeps
  <1> QED BY <1>5, <1>6

\* matchCount(): the matches of one more dictionary of the search.
LEMMA DeliverCountKeeps ==
  ASSUME IInv, DeliverCount
  PROVE  IInv'
  <1> DEFINE r == Head(events).req
             d == r[2]
  <1>1. TypeInv /\ ReqsInv /\ IdleInv /\ PostedInv /\ CountInv /\ ListInv
    BY DEF IInv
  <1>2. /\ dialog = "open" /\ events # <<>> /\ Head(events).kind = "count"
        /\ matchedCount' = matchedCount + Len(Hits[d])
        /\ events' = Tail(events)
        /\ settled' = (events' = <<>>)
        /\ UNCHANGED <<round, reqs, isCancelled, results, okEnabled, frames, dialog, worker, found>>
    BY DEF DeliverCount, workerVars
  <1>3. events \in Seq(Posts) /\ Once(events)
    BY <1>1 DEF TypeInv, PostedInv
  <1>4. events' \in Seq(Posts) /\ Once(events') /\ r \in Pend(events)
        /\ Pend(events') = Pend(events) \ {r}
    BY <1>2, <1>3, PendTail
  <1>5. r \in Requests /\ worker[r] \notin {"none", "running"} /\ r[1] = round
    BY <1>1, <1>4 DEF Pend, PostedInv, ReqsInv
  <1>6. d \in 1..Dicts /\ r = <<round, d>>
    BY <1>5 DEF Requests
  <1>7. Len(Hits[d]) \in Nat /\ matchedCount \in Nat
    BY <1>1, <1>6, DictsAssumption, LenProperties DEF TypeInv
  <1> HIDE DEF r, d
  <1>8. TypeInv'
    <2>1. matchedCount' \in Nat
      BY <1>2, <1>7
    <2> QED BY <1>1, <1>2, <1>4, <2>1 DEF TypeInv
  <1>9. ReqsInv'
    BY <1>1, <1>2 DEF ReqsInv
  <1>10. IdleInv'
    BY <1>1, <1>2 DEF IdleInv
  <1>11. PostedInv'
    BY <1>1, <1>2, <1>4 DEF PostedInv
  <1>12. CountInv'
    <2>1. d \notin Counted
      BY <1>4, <1>6 DEF Counted
    <2>2. Counted \cup {d} \subseteq Counted'
      <3>1. d \in Counted'
        BY <1>2, <1>4, <1>5, <1>6 DEF Counted
      <3>2. Counted \subseteq Counted'
        BY <1>2, <1>4 DEF Counted
      <3> QED BY <3>1, <3>2
    <2>3. MatchesOf(Counted \cup {d}) = MatchesOf(Counted) + Len(Hits[d])
      BY <1>6, <2>1, SumAdds
    <2>4. MatchesOf(Counted \cup {d}) <= MatchesOf(Counted')
          /\ MatchesOf(Counted \cup {d}) \in Nat /\ MatchesOf(Counted') \in Nat
      BY <2>2, SumGrows
    <2>5. MatchesOf(Counted) \in Nat
      BY SumGrows
    <2>6. matchedCount <= MatchesOf(Counted)
      BY <1>1, <1>2 DEF CountInv
    <2>7. matchedCount' <= MatchesOf(Counted')
      BY <1>2, <1>7, <2>3, <2>4, <2>5, <2>6
    <2> QED BY <2>7 DEF CountInv
  <1>13. ListInv'
    <2>1. Gone' = Gone
      BY <1>2 DEF Gone
    <2> QED BY <1>1, <1>2, <2>1 DEF ListInv
  <1> QED BY <1>8, <1>9, <1>10, <1>11, <1>12, <1>13 DEF IInv

\* A new list, with nothing left of the search before
LEMMA NewRoundKeeps ==
  ASSUME IInv, NEW asked \in SUBSET Requests, \A r \in asked : r[1] = round + 1,
         reqs = <<>>, events = <<>>, NewRound(asked),
         reqs' \in Seq(Requests), ToSet(reqs') = asked,
         UNCHANGED <<events, frames>>,
         settled' \in BOOLEAN, okEnabled' \in BOOLEAN,
         dialog' = "open" => (okEnabled' <=> reqs' = <<>>),
         dialog' = "accepting" => ~okEnabled',
         dialog' \in {"open", "accepting"}
  PROVE  IInv'
  <1>1. TypeInv
    BY DEF IInv
  <1>2. ToSet(reqs) = {}
    BY DEF ToSet
  <1>3. /\ round < MaxRounds /\ round' = round + 1 /\ results' = <<>> /\ matchedCount' = 0
        /\ worker' = [r \in Requests |-> IF r \in asked THEN "running" ELSE "none"]
        /\ found' = [r \in Requests |-> <<>>]
        /\ isCancelled' = {}
    BY <1>2 DEF NewRound
  <1>4. round' \in 0..MaxRounds /\ round' # 0
    BY <1>1, <1>3, BoundsAssumption DEF TypeInv
  <1>5. TypeInv'
    <2>1. \A r \in Requests : r[2] \in 1..Dicts
      BY DEF Requests
    <2>2. found' \in [Requests -> Seq(Words)]
      BY <1>3, EmptySeq
    <2>3. \A r \in Requests : IsPrefix(found'[r], Hits[r[2]])
      BY <1>3, <2>1, EmptyPrefix
    <2>4. worker' \in [Requests -> Active \cup {"none", "ended"}]
      BY <1>3 DEF Active
    <2>5. results' \in Seq(Entries) /\ matchedCount' \in Nat /\ isCancelled' \subseteq Requests
      BY <1>3, EmptySeq
    <2> QED BY <1>1, <1>4, <2>2, <2>3, <2>4, <2>5 DEF TypeInv
  <1>6. ReqsInv'
    <2>1. \A r \in Requests : worker'[r] # "none" => r \in asked
      BY <1>3
    <2>2. \A r \in asked : worker'[r] # "none"
      BY <1>3
    <2> QED BY <1>3, <2>1, <2>2 DEF ReqsInv, Active
  <1>7. IdleInv'
    BY <1>4 DEF IdleInv
  <1>8. PostedInv'
    <2>1. Once(events') /\ Pend(events') = {}
      BY NothingPosted
    <2> QED BY <2>1 DEF PostedInv
  <1>9. CountInv'
    <2>1. MatchesOf(Counted') \in Nat
      BY SumGrows
    <2>2. matchedCount' <= MatchesOf(Counted')
      BY <1>3, <2>1
    <2> QED BY <2>2 DEF CountInv
  <1>10. ListInv'
    <2>1. SUFFICES ASSUME NEW f, NEW d
                   PROVE  Has(results', f, d) <=> d \in Gone' /\ Reads(found'[<<round', d>>], f)
      BY DEF ListInv
    <2>2. ~Has(results', f, d)
      BY <1>3, HasEmpty
    <2>3. ASSUME d \in Gone' PROVE FALSE
      <3>1. d \in 1..Dicts /\ worker'[<<round', d>>] # "none" /\ <<round', d>> \notin asked
        BY <2>3 DEF Gone
      <3>2. <<round', d>> \in Requests
        BY <1>4, <3>1 DEF Requests
      <3> QED BY <1>3, <3>1, <3>2
    <2> QED BY <2>2, <2>3
  <1> QED BY <1>5, <1>6, <1>7, <1>8, <1>9, <1>10 DEF IInv

LEMMA OpenKeeps ==
  ASSUME IInv, Open
  PROVE  IInv'
  <1>1. dialog \in {"none", "deleted"} /\ NewRound({}) /\ dialog' = "open" /\ okEnabled' = TRUE
        /\ settled' = TRUE /\ UNCHANGED <<reqs, frames, events>>
    BY DEF Open
  <1>2. reqs = <<>> /\ events = <<>> /\ reqs \in Seq(Requests)
    BY <1>1 DEF IInv, IdleInv, TypeInv
  <1>3. ToSet(reqs') = {}
    BY <1>1, <1>2 DEF ToSet
  <1> QED BY <1>1, <1>2, <1>3, NewRoundKeeps

LEMMA AcceptRefusedKeeps ==
  ASSUME IInv, AcceptRefused
  PROVE  IInv'
  <1>1. dialog = "open" /\ settled /\ okEnabled /\ NewRound({})
        /\ UNCHANGED <<reqs, okEnabled, frames, dialog, settled, events>>
    BY DEF AcceptRefused, UserMayAct
  <1>2. reqs = <<>> /\ events = <<>> /\ reqs \in Seq(Requests)
        /\ settled \in BOOLEAN /\ okEnabled \in BOOLEAN
    BY <1>1 DEF IInv, IdleInv, TypeInv
  <1>3. ToSet(reqs') = {}
    BY <1>1, <1>2 DEF ToSet
  <1> QED BY <1>1, <1>2, <1>3, NewRoundKeeps

LEMMA AcceptKeeps ==
  ASSUME IInv, Accept
  PROVE  IInv'
  <1>1. dialog = "open" /\ settled /\ okEnabled /\ okEnabled' = FALSE /\ dialog' = "accepting"
        /\ UNCHANGED <<events, settled, frames>>
    BY DEF Accept, UserMayAct
  <1>2. TypeInv /\ reqs = <<>> /\ events = <<>>
    BY <1>1 DEF IInv, IdleInv
  <1> DEFINE all == [d \in 1..Dicts |-> <<round + 1, d>>]
  <1>3. PICK indexed \in SUBSET (1..Dicts) :
            LET asked == Members(all, {<<round + 1, d>> : d \in indexed})
            IN  NewRound(ToSet(asked)) /\ reqs' = reqs \o asked
    BY DEF Accept
  <1> DEFINE asked == Members(all, {<<round + 1, d>> : d \in indexed})
  <1>4. NewRound(ToSet(asked)) /\ reqs' = reqs \o asked
    BY <1>3
  <1>5. round + 1 \in 1..MaxRounds
    BY <1>2, <1>4, BoundsAssumption DEF TypeInv, NewRound
  <1> DEFINE Fresh == {<<round + 1, d>> : d \in 1..Dicts}
  <1>6. all \in Seq(Fresh) /\ Fresh \subseteq Requests
    <2>1. all \in [1..Dicts -> Fresh] /\ Dicts \in Nat
      BY DictsAssumption
    <2>2. Fresh \subseteq Requests
      BY <1>5 DEF Requests
    <2> HIDE DEF all, Fresh
    <2> QED BY <2>1, <2>2, SeqDef
  <1>7. asked \in Seq(Fresh)
    <2> HIDE DEF Fresh, all
    <2> QED BY <1>6, KeptMembers
  <1> HIDE DEF asked, all
  <1>8. ToSet(asked) \subseteq Fresh
    <2> HIDE DEF Fresh
    <2> QED BY <1>7, SetOfSeq
  <1>9. asked \in Seq(Requests)
    <2> HIDE DEF Fresh
    <2> QED BY <1>6, <1>7, SeqMonotonic
  <1>10. reqs' = asked
    BY <1>2, <1>4, <1>9, ConcatEmptySeq
  <1>11. ToSet(asked) \in SUBSET Requests /\ \A r \in ToSet(asked) : r[1] = round + 1
    BY <1>6, <1>8
  <1>12. settled' \in BOOLEAN
    BY <1>1, <1>2 DEF TypeInv
  <1> HIDE DEF Fresh
  <1> QED BY <1>1, <1>2, <1>4, <1>9, <1>10, <1>11, <1>12, NewRoundKeeps

\* searchReqFinished() takes the answers of the requests that have ended.
LEMMA FinishedKeeps ==
  ASSUME IInv, dialog \in {"open", "accepting"}, dialog' = "open",
         NEW rest \in Seq(Posts), Once(rest), Pend(rest) = Pend(events),
         SearchReqFinished(rest)
  PROVE  IInv'
  <1>1. TypeInv /\ ReqsInv /\ IdleInv /\ PostedInv /\ CountInv /\ ListInv
    BY DEF IInv
  <1> DEFINE done == Members(reqs, Finished)
             late == Members(reqs, Flagged)
             left == Members(reqs, Requests \ Finished)
             told == [i \in DOMAIN late |-> [kind |-> "finished", req |-> late[i]]]
  <1>2. /\ reqs' = left
        /\ worker' = [r \in Requests |-> IF r \in ToSet(late) THEN "ended" ELSE worker[r]]
        /\ events' = rest \o told
        /\ results' = AddSortedHeadwords(results, Together(done))
        /\ okEnabled' = (reqs' = <<>> \/ okEnabled)
        /\ settled' = (events' = <<>>)
        /\ UNCHANGED <<round, isCancelled, found, matchedCount, frames>>
    BY DEF SearchReqFinished
  <1>3. reqs \in Seq(Requests) /\ ToSet(reqs) \subseteq Requests
    BY <1>1, SetOfSeq DEF TypeInv
  <1>4. done \in Seq(Requests) /\ ToSet(done) = ToSet(reqs) \cap Finished
    BY <1>3, KeptMembers
  <1>5. late \in Seq(Requests) /\ ToSet(late) = ToSet(reqs) \cap Flagged
    BY <1>3, KeptMembers
  <1>6. left \in Seq(Requests) /\ ToSet(left) = ToSet(reqs) \cap (Requests \ Finished)
    BY <1>3, KeptMembers
  <1> HIDE DEF done, late, left
  <1>7. events' \in Seq(Posts) /\ Once(events') /\ Pend(events') = Pend(events)
    BY <1>2, <1>5, PendFinished
  <1> HIDE DEF told
  <1>8. \A r \in Requests : worker'[r] = IF r \in ToSet(reqs) /\ worker[r] = "flagged"
                                         THEN "ended" ELSE worker[r]
    BY <1>2, <1>5 DEF Flagged
  <1>9. Together(done) \in Seq(Entries)
        /\ \A f, d : Has(Together(done), f, d)
                         <=> \E r \in ToSet(done) : d = r[2] /\ Reads(found[r], f)
    BY <1>1, <1>4, TogetherList DEF TypeInv
  <1>10. results' \in Seq(Entries)
         /\ \A f, d : Has(results', f, d)
                          <=> Has(results, f, d) \/ Has(Together(done), f, d)
    BY <1>1, <1>2, <1>9, MergedList DEF TypeInv
  <1>11. \A d \in 1..Dicts : <<round, d>> \in Requests
    BY <1>1, OfRound
  <1>12. TypeInv'
    <2>1. worker' \in [Requests -> Active \cup {"none", "ended"}]
      BY <1>1, <1>2 DEF TypeInv
    <2>2. settled' \in BOOLEAN /\ okEnabled' \in BOOLEAN
      BY <1>1, <1>2 DEF TypeInv
    <2> QED BY <1>1, <1>2, <1>6, <1>7, <1>10, <2>1, <2>2 DEF TypeInv
  <1>13. ReqsInv'
    <2>1. ASSUME NEW r \in Requests PROVE worker'[r] # "none" => r[1] = round'
      BY <1>1, <1>2, <1>8 DEF ReqsInv
    <2>2. ASSUME NEW r \in Requests, worker'[r] \in Active PROVE r \in ToSet(reqs')
      <3>1. worker[r] \in Active /\ worker[r] # "ended" /\ r \in ToSet(reqs)
        BY <1>1, <1>8, <2>2 DEF ReqsInv, Active
      <3>2. worker[r] # "flagged"
        BY <1>8, <2>2, <3>1 DEF Active
      <3>3. r \notin Finished
        BY <3>1, <3>2 DEF Finished
      <3> QED BY <1>2, <1>6, <3>1, <3>3
    <2>3. ASSUME NEW r \in ToSet(reqs') PROVE worker'[r] # "none"
      <3>1. r \in ToSet(reqs) /\ r \in Requests
        BY <1>2, <1>6
      <3> QED BY <1>1, <1>8, <3>1 DEF ReqsInv
    <2> QED BY <2>1, <2>2, <2>3 DEF ReqsInv
  <1>14. IdleInv'
    <2>1. okEnabled => reqs = <<>>
      BY <1>1 DEF IdleInv
    <2>2. reqs = <<>> => reqs' = <<>>
      <3>1. ASSUME reqs = <<>> PROVE ToSet(left) = {}
        BY <1>6, <3>1 DEF ToSet
      <3> QED BY <1>2, <1>6, <3>1, EmptySet
    <2> QED BY <1>1, <1>2, <2>1, <2>2 DEF IdleInv
  <1>15. \A r \in Requests : worker'[r] \notin {"none", "running"}
                                 <=> worker[r] \notin {"none", "running"}
    BY <1>8
  <1>16. PostedInv'
    <2>1. \A r \in Pend(events) : r \in Requests
      BY DEF Pend
    <2> QED BY <1>1, <1>7, <1>15, <2>1 DEF PostedInv
  <1>17. CountInv'
    <2>1. Counted \subseteq Counted'
      BY <1>2, <1>7, <1>11, <1>15 DEF Counted
    <2>2. MatchesOf(Counted) <= MatchesOf(Counted')
          /\ MatchesOf(Counted) \in Nat /\ MatchesOf(Counted') \in Nat
      BY <2>1, SumGrows
    <2>3. matchedCount \in Nat
      BY <1>1 DEF TypeInv
    <2> QED BY <1>1, <1>2, <2>2, <2>3 DEF CountInv
  <1>18. ListInv'
    <2>1. SUFFICES ASSUME NEW f, NEW d
                   PROVE  Has(results', f, d) <=> d \in Gone' /\ Reads(found'[<<round', d>>], f)
      BY DEF ListInv
    <2>2. d \in Gone' <=> d \in Gone \/ (d \in 1..Dicts /\ <<round, d>> \in ToSet(done))
      <3>1. CASE d \in 1..Dicts
        <4>1. <<round, d>> \in Requests
          BY <1>11, <3>1
        <4>2. worker'[<<round, d>>] # "none" <=> worker[<<round, d>>] # "none"
          BY <1>8, <4>1
        <4>3. <<round, d>> \in ToSet(reqs') <=>
                  <<round, d>> \in ToSet(reqs) /\ <<round, d>> \notin ToSet(done)
          BY <1>2, <1>4, <1>6, <4>1
        <4>4. <<round, d>> \in ToSet(done) => worker[<<round, d>>] # "none"
          BY <1>1, <1>4 DEF ReqsInv
        <4> QED BY <1>2, <3>1, <4>2, <4>3, <4>4 DEF Gone
      <3>2. CASE d \notin 1..Dicts
        BY <3>2 DEF Gone
      <3> QED BY <3>1, <3>2
    <2>3. (\E r \in ToSet(done) : d = r[2] /\ Reads(found[r], f))
              <=> d \in 1..Dicts /\ <<round, d>> \in ToSet(done) /\ Reads(found[<<round, d>>], f)
      <3>1. ASSUME NEW r \in ToSet(done) PROVE r = <<round, r[2]>> /\ r[2] \in 1..Dicts
        <4>1. r \in Requests /\ r[1] = round
          BY <1>1, <1>3, <1>4 DEF ReqsInv
        <4> QED BY <4>1 DEF Requests
      <3>2. \A e \in 1..Dicts : <<round, e>>[2] = e
        OBVIOUS
      <3> QED BY <3>1, <3>2
    <2>4. Has(results, f, d) <=> d \in Gone /\ Reads(found[<<round, d>>], f)
      BY <1>1 DEF ListInv
    <2>5. Has(results', f, d) <=> Has(results, f, d) \/
              \E r \in ToSet(done) : d = r[2] /\ Reads(found[r], f)
      BY <1>9, <1>10
    <2> QED BY <1>2, <2>2, <2>3, <2>4, <2>5
  <1> QED BY <1>12, <1>13, <1>14, <1>16, <1>17, <1>18 DEF IInv

LEMMA DeliverFinishedKeeps ==
  ASSUME IInv, DeliverFinished
  PROVE  IInv'
  <1>1. dialog = "open" /\ dialog' = dialog /\ events # <<>> /\ Head(events).kind = "finished"
        /\ SearchReqFinished(Tail(events))
    BY DEF DeliverFinished
  <1>2. events \in Seq(Posts) /\ Once(events)
    BY DEF IInv, TypeInv, PostedInv
  <1>3. Tail(events) \in Seq(Posts) /\ Once(Tail(events)) /\ Pend(Tail(events)) = Pend(events)
    BY <1>1, <1>2, PendTail
  <1> QED BY <1>1, <1>3, FinishedKeeps

LEMMA AcceptEndsKeeps ==
  ASSUME IInv, AcceptEnds
  PROVE  IInv'
  <1>1. dialog = "accepting" /\ dialog' = "open" /\ SearchReqFinished(events)
    BY DEF AcceptEnds
  <1>2. events \in Seq(Posts) /\ Once(events)
    BY DEF IInv, TypeInv, PostedInv
  <1> QED BY <1>1, <1>2, FinishedKeeps

LEMMA NextKeeps == IInv /\ [Next]_vars => IInv'
  <1> SUFFICES ASSUME IInv, [Next]_vars PROVE IInv'
    OBVIOUS
  <1>1. CASE User
    BY <1>1, OpenKeeps, AcceptKeeps, AcceptRefusedKeeps, RejectKeeps, CloseClicked DEF User
  <1>2. CASE Loop
    BY <1>2, StopReturnsKeeps, DeliverFinishedKeeps, DeliverCountKeeps, DeliverCloseKeeps,
       AcceptEndsKeeps DEF Loop
  <1>3. ASSUME NEW r \in Requests, Worker(r) PROVE IInv'
    BY <1>3, CountMatchesKeeps, AnswerKeeps, FailKeeps, EmitFinishedKeeps DEF Worker
  <1>4. CASE UNCHANGED vars
    BY <1>4, StutterKeeps
  <1> QED BY <1>1, <1>2, <1>3, <1>4 DEF Next

LEMMA IInvHolds == Spec => []IInv
  BY InitHolds, NextKeeps, PTL DEF Spec

(***************************************************************************)
(* What it gives                                                           *)
(***************************************************************************)
LEMMA SoundOfInv == IInv => DialogSound
  <1> SUFFICES ASSUME IInv PROVE DialogSound
    OBVIOUS
  <1>1. TypeInv /\ ReqsInv /\ IdleInv
    BY DEF IInv
  <1>2. TypeOK
    <2>1. ToSet(reqs) \subseteq Requests
      BY <1>1, SetOfSeq DEF TypeInv
    <2>2. worker \in [Requests -> {"none", "running", "counted", "flagged", "ended"}]
      BY <1>1 DEF TypeInv, Active
    <2>3. \A i \in DOMAIN events : events[i].kind \in {"count", "finished", "close"}
      <3>1. \A i \in DOMAIN events : events[i] \in Posts
        BY <1>1, LenProperties, ElementOfSeq DEF TypeInv
      <3> QED BY <3>1 DEF Posts
    <2>4. \A e \in ToSet(results) : e.dicts \subseteq 1..Dicts
      <3>1. ToSet(results) \subseteq Entries
        BY <1>1, SetOfSeq DEF TypeInv
      <3> QED BY <3>1 DEF Entries
    <2>5. frames \in UNION {[1..n -> {"reject", "close"}] : n \in 0..MaxFrames}
      <3>1. Len(frames) \in 0..MaxFrames /\ frames \in [1..Len(frames) -> {"reject", "close"}]
        BY <1>1, BoundsAssumption, LenProperties DEF TypeInv
      <3> QED BY <3>1
    <2> QED BY <1>1, <2>1, <2>2, <2>3, <2>4, <2>5 DEF TypeInv, TypeOK
  <1>3. OkMeansIdle
    BY <1>1 DEF IdleInv, OkMeansIdle
  <1>4. NoOrphanSearch
    <2>1. ASSUME dialog = "deleted", NEW r \in Requests PROVE worker[r] \in {"none", "ended"}
      <3>1. ToSet(reqs) = {}
        BY <1>1, <2>1 DEF IdleInv, ToSet
      <3>2. worker[r] \notin Active
        BY <1>1, <3>1 DEF ReqsInv
      <3> QED BY <1>1, <3>2 DEF TypeInv
    <2> QED BY <2>1 DEF NoOrphanSearch
  <1> QED BY <1>2, <1>3, <1>4 DEF DialogSound

LEMMA ListOfInv == IInv => ResultsOfSearch
  <1> SUFFICES ASSUME IInv, dialog = "open" PROVE ResultsOfSearch
    BY DEF ResultsOfSearch
  <1>1. TypeInv /\ IdleInv
    BY DEF IInv
  <1>2. \A f, d : Has(results, f, d) <=> d \in Gone /\ Reads(found[<<round, d>>], f)
    BY DEF IInv, ListInv
  <1>3. \A f, d : Has(results, f, d) <=> \E e \in ToSet(results) : Fold[e.word] = f /\ d \in e.dicts
    BY DEF Has, ToSet
  <1>4. \A d, f : Reads(found[<<round, d>>], f)
                      <=> \E w \in ToSet(found[<<round, d>>]) : Fold[w] = f
    BY DEF Reads, ToSet
  <1>5. ASSUME NEW d \in Gone, NEW w \in ToSet(found[<<round, d>>])
        PROVE  \E e \in ToSet(results) : Shows(e, w) /\ d \in e.dicts
    BY <1>2, <1>3, <1>4 DEF Shows
  <1>6. ASSUME NEW e \in ToSet(results), NEW d \in e.dicts
        PROVE  d \in Gone /\ \E w \in ToSet(found[<<round, d>>]) : Shows(e, w)
    <2>1. Has(results, Fold[e.word], d)
      BY <1>3
    <2> QED BY <1>2, <1>4, <2>1 DEF Shows
  <1> QED BY <1>5, <1>6 DEF ResultsOfSearch

LEMMA CountOfInv == IInv => CountOfSearch
  <1> SUFFICES ASSUME IInv, dialog = "open" PROVE CountOfSearch
    BY DEF CountOfSearch
  <1> DEFINE S == {d \in 1..Dicts : worker[<<round, d>>] # "none"}
  <1>1. matchedCount <= MatchesOf(Counted) /\ matchedCount \in Nat
    BY DEF IInv, CountInv, TypeInv
  <1>2. Counted \subseteq S
    BY DEF Counted
  <1> HIDE DEF S
  <1>3. MatchesOf(Counted) <= MatchesOf(S) /\ MatchesOf(Counted) \in Nat /\ MatchesOf(S) \in Nat
    BY <1>2, SumGrows
  <1>4. matchedCount <= MatchesOf(S)
    BY <1>1, <1>3
  <1> QED BY <1>4 DEF CountOfSearch, S

(***************************************************************************)
(* The dialog is sound to whoever acts on it next: the OK button is        *)
(* enabled exactly when the search is over, and when the dialog is gone no *)
(* worker is left that would use a dictionary, however many stops are      *)
(* nested (accept(), stopSearch() and searchReqFinished() of               *)
(* fulltextsearch.cc, closeFullTextSearchDialog() of mainwindow.cc).       *)
(***************************************************************************)
THEOREM DialogSoundHolds == Spec => []DialogSound
  BY IInvHolds, SoundOfInv, PTL

(***************************************************************************)
(* The list of an open dialog is what the requests of its last search that *)
(* were taken have answered: every headword under the name of its          *)
(* dictionary, in whatever order they end, and nothing else                *)
(* (searchReqFinished() and addSortedHeadwords()).                         *)
(***************************************************************************)
THEOREM ResultsOfSearchHolds == Spec => []ResultsOfSearch
  BY IInvHolds, ListOfInv, PTL

(***************************************************************************)
(* The number of articles shown is at most what the dictionaries asked by  *)
(* the last search have found: no count posted by an earlier search is     *)
(* added after matchedCount was set to zero (matchCount() and accept()).   *)
(***************************************************************************)
THEOREM CountOfSearchHolds == Spec => []CountOfSearch
  BY IInvHolds, CountOfInv, PTL

=============================================================================
