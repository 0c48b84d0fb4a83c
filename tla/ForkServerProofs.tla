---- MODULE ForkServerProofs ----
(***************************************************************************)
(* Proofs about ForkServer, for any finite set of connections, any users,  *)
(* widths and limits, and every interleaving of the children.              *)
(***************************************************************************)
EXTENDS ForkServer, SequenceLemmas, SequenceTheorems, FiniteSetTheorems, TLAPS

LEMMA CountsAreNumbers ==
    /\ MAX_ATTEMPTS \in Nat \ {0} /\ 0 \in 0..MAX_ATTEMPTS
    /\ \A n \in 0..MAX_ATTEMPTS :
          Capped(n + 1) \in 1..MAX_ATTEMPTS /\ (Capped(n + 1) = n + 1 \/ Capped(n + 1) = MAX_ATTEMPTS)
BY LimitAssumption DEF Capped

(* Names: an end of an end is an end, and a whole userid is one.           *)
LEMMA EndsOfEnds ==
    ASSUME NEW u \in Seq(Letters), NEW e \in Ends(u)
    PROVE  /\ e \in Seq(Letters) /\ Len(e) <= Len(u) /\ Ends(e) \subseteq Ends(u)
           /\ \A k \in 0..Len(u) : SubSeq(u, k + 1, Len(u)) \in Ends(u)
           /\ u \in Ends(u) /\ <<>> \in Ends(u)
<1>1. Len(u) \in Nat /\ \A i \in 1..Len(u) : u[i] \in Letters
  BY LenProperties, ElementOfSeq
<1>2. ASSUME NEW k \in 1..(Len(u) + 1)
      PROVE  /\ SubSeq(u, k, Len(u)) \in Seq(Letters)
             /\ Len(SubSeq(u, k, Len(u))) = Len(u) - k + 1
             /\ \A i \in 1..(Len(u) - k + 1) : SubSeq(u, k, Len(u))[i] = u[k + i - 1]
  <2>1. \A i \in k..Len(u) : u[i] \in Letters
    BY <1>1
  <2> QED BY <1>1, <2>1, SubSeqProperties
<1>3. PICK k \in 1..(Len(u) + 1) : e = SubSeq(u, k, Len(u))
  BY DEF Ends
<1>4. e \in Seq(Letters) /\ Len(e) = Len(u) - k + 1
  BY <1>2, <1>3
<1>5. ASSUME NEW m \in 1..(Len(e) + 1)
      PROVE  SubSeq(e, m, Len(e)) \in Ends(u)
  <2> DEFINE f == SubSeq(e, m, Len(e))
             g == SubSeq(u, k + m - 1, Len(u))
  <2>1. Len(e) \in Nat /\ \A i \in m..Len(e) : e[i] \in Letters
    BY <1>4, LenProperties, ElementOfSeq
  <2>2. /\ f \in Seq(Letters) /\ Len(f) = Len(e) - m + 1
        /\ \A i \in 1..(Len(e) - m + 1) : f[i] = e[m + i - 1]
    BY <2>1, SubSeqProperties
  <2>3. k + m - 1 \in 1..(Len(u) + 1)
    BY <1>1, <1>4
  <2>4. /\ g \in Seq(Letters) /\ Len(g) = Len(u) - (k + m - 1) + 1
        /\ \A i \in 1..(Len(u) - (k + m - 1) + 1) : g[i] = u[(k + m - 1) + i - 1]
    BY <1>2, <2>3
  <2>5. \A i \in 1..(Len(e) - m + 1) : m + i - 1 \in 1..(Len(u) - k + 1)
    BY <1>1, <1>4
  <2>6. \A i \in 1..(Len(e) - m + 1) : e[m + i - 1] = u[k + (m + i - 1) - 1]
    BY <1>2, <1>3, <2>5
  <2>7. Len(f) = Len(g)
    BY <1>1, <1>4, <2>2, <2>4
  <2>8. ASSUME NEW i \in 1..Len(f) PROVE f[i] = g[i]
    <3>1. /\ i \in 1..(Len(e) - m + 1) /\ i \in 1..(Len(u) - (k + m - 1) + 1)
          /\ k + (m + i - 1) - 1 = (k + m - 1) + i - 1
      BY <1>1, <1>4, <2>2, <2>4, <2>7
    <3>2. f[i] = e[m + i - 1] /\ g[i] = u[(k + m - 1) + i - 1]
      BY <2>2, <2>4, <3>1
    <3> QED BY <2>6, <3>1, <3>2
  <2> HIDE DEF f, g
  <2>9. f = g
    BY <2>2, <2>4, <2>7, <2>8, SeqEqual
  <2> QED BY <2>3, <2>9 DEF Ends, f, g
<1>6. Ends(e) \subseteq Ends(u)
  BY <1>5 DEF Ends
<1>7. \A i \in 0..Len(u) : SubSeq(u, i + 1, Len(u)) \in Ends(u)
  <2>1. \A i \in 0..Len(u) : i + 1 \in 1..(Len(u) + 1)
    BY <1>1
  <2> QED BY <2>1 DEF Ends
<1>8. u \in Ends(u) /\ <<>> \in Ends(u)
  <2>1. SubSeq(u, 1, Len(u)) = u /\ SubSeq(u, Len(u) + 1, Len(u)) = <<>>
    BY <1>1, SubSeqFull, SubSeqEmpty
  <2>2. 1 \in 1..(Len(u) + 1) /\ Len(u) + 1 \in 1..(Len(u) + 1)
    BY <1>1
  <2> QED BY <2>1, <2>2 DEF Ends
<1> QED BY <1>1, <1>3, <1>4, <1>6, <1>7, <1>8

LEMMA NameFacts ==
    /\ Users \subseteq Name /\ Name \subseteq Seq(Letters)
    /\ \A u \in Users : u # <<>> /\ u # None
    /\ \A e \in Name : Ends(e) \subseteq Name /\ e \in Ends(e) /\ <<>> \in Ends(e)
<1>1. \A u \in Users : u \in Seq(Letters) /\ u # <<>> /\ u # None
  BY UsersAssumption
<1>2. \A u \in Users : u \in Ends(u)
  <2> SUFFICES ASSUME NEW u \in Users PROVE u \in Ends(u)
    OBVIOUS
  <2>1. SubSeq(u, 1, Len(u)) = u /\ Len(u) \in Nat
    BY <1>1, SubSeqFull, LenProperties
  <2>2. 1 \in 1..(Len(u) + 1)
    BY <2>1
  <2> QED BY <2>1, <2>2 DEF Ends
<1>3. ASSUME NEW e \in Name
      PROVE  e \in Seq(Letters) /\ Ends(e) \subseteq Name /\ e \in Ends(e) /\ <<>> \in Ends(e)
  <2>1. PICK u \in Users : e \in Ends(u)
    BY DEF Name
  <2>2. e \in Seq(Letters) /\ Ends(e) \subseteq Ends(u)
    BY <1>1, <2>1, EndsOfEnds
  <2>3. e \in Ends(e)
    <3>1. SubSeq(e, 1, Len(e)) = e /\ Len(e) \in Nat
      BY <2>2, SubSeqFull, LenProperties
    <3>2. 1 \in 1..(Len(e) + 1)
      BY <3>1
    <3> QED BY <3>1, <3>2 DEF Ends
  <2> QED BY <2>2, <2>3, EndsOfEnds DEF Name
<1> QED BY <1>1, <1>2, <1>3 DEF Name

----
(* Lines.  A set of lines that a cut does not leave is kept by everything  *)
(* that the children do with files: this is what the invariants below are  *)
(* stated with.                                                            *)
CutClosed(S) ==
    \A x \in S : /\ Width(x) \in Nat \ {0}
                 /\ \A k \in 0..(Width(x) - 1) : Cut(x, k) \in S
                 /\ Cut(x, 0) = x

LEMMA CutCount ==
    ASSUME NEW x \in Count
    PROVE  /\ Width(x) \in Nat \ {0} /\ Cut(x, 0) = x
           /\ \A k \in 0..(Width(x) - 1) :
                 Cut(x, k) \in Count /\ Cut(x, k).n = x.n /\ Cut(x, k).user \in Ends(x.user)
<1>1. /\ x \in [user : Name, n : 0..MAX_ATTEMPTS, left : 1..CountWidth]
      /\ x.user \in Name /\ x.user \in Seq(Letters) /\ x.left \in 1..3 /\ CountWidth = 3
      /\ x.user # <<>> => x.left = 3
  BY NameFacts DEF Count, CountWidth
<1>2. Len(x.user) \in Nat /\ Width(x) = Len(x.user) + x.left
  BY <1>1, LenProperties DEF Width
<1>3. SubSeq(x.user, 0 + 1, Len(x.user)) = x.user
  BY <1>1, SubSeqFull
<1>4. Cut(x, 0) = x
  BY <1>1, <1>2, <1>3 DEF Cut
<1>5. ASSUME NEW k \in 0..(Width(x) - 1)
      PROVE  Cut(x, k) \in Count /\ Cut(x, k).n = x.n /\ Cut(x, k).user \in Ends(x.user)
  <2>1. CASE k <= Len(x.user)
    <3> DEFINE e == SubSeq(x.user, k + 1, Len(x.user))
    <3>1. k \in 0..Len(x.user) /\ x.user \in Ends(x.user)
      BY <1>1, <1>2, <2>1, NameFacts
    <3>2. e \in Ends(x.user) /\ e \in Name
      BY <1>1, <3>1, EndsOfEnds, NameFacts
    <3>3. e # <<>> => x.user # <<>>
      <4>1. x.user = <<>> => e = <<>>
        BY <1>2, <3>1, SubSeqEmpty
      <4> QED BY <4>1
    <3> HIDE DEF e
    <3>4. Cut(x, k) = [x EXCEPT !.user = e]
      BY <2>1 DEF Cut, e
    <3> QED BY <1>1, <3>2, <3>3, <3>4 DEF Count, CountWidth
  <2>2. CASE ~ (k <= Len(x.user))
    <3>1. Width(x) - k \in 1..3 /\ <<>> \in Ends(x.user) /\ <<>> \in Name
      BY <1>1, <1>2, <2>2, NameFacts
    <3>2. Cut(x, k) = [x EXCEPT !.user = <<>>, !.left = Width(x) - k]
      BY <2>2 DEF Cut
    <3> QED BY <1>1, <3>1, <3>2 DEF Count, CountWidth
  <2> QED BY <2>1, <2>2
<1> QED BY <1>1, <1>2, <1>4, <1>5

LEMMA CutEntry ==
    ASSUME NEW x \in Entry
    PROVE  /\ Width(x) \in Nat \ {0} /\ Cut(x, 0) = x
           /\ \A k \in 0..(Width(x) - 1) :
                 Cut(x, k) \in Entry /\ Cut(x, k).conn = x.conn /\ Cut(x, k).user \in Ends(x.user)
<1>1. /\ x \in [user : Name, conn : Conns, left : Nat \ {0}]
      /\ x.user \in Name /\ x.user \in Seq(Letters) /\ x.conn \in Conns
      /\ x.left \in 1..AddressWidth[x.conn] /\ AddressWidth[x.conn] \in Nat \ {0}
      /\ x.user # <<>> => x.left = AddressWidth[x.conn]
  BY NameFacts, WidthAssumption DEF Entry
<1>2. Len(x.user) \in Nat /\ Width(x) = Len(x.user) + x.left
  BY <1>1, LenProperties DEF Width
<1>3. SubSeq(x.user, 0 + 1, Len(x.user)) = x.user
  BY <1>1, SubSeqFull
<1>4. Cut(x, 0) = x
  BY <1>1, <1>2, <1>3 DEF Cut
<1>5. ASSUME NEW k \in 0..(Width(x) - 1)
      PROVE  Cut(x, k) \in Entry /\ Cut(x, k).conn = x.conn /\ Cut(x, k).user \in Ends(x.user)
  <2>1. CASE k <= Len(x.user)
    <3> DEFINE e == SubSeq(x.user, k + 1, Len(x.user))
    <3>1. k \in 0..Len(x.user) /\ x.user \in Ends(x.user)
      BY <1>1, <1>2, <2>1, NameFacts
    <3>2. e \in Ends(x.user) /\ e \in Name
      BY <1>1, <3>1, EndsOfEnds, NameFacts
    <3>3. e # <<>> => x.user # <<>>
      <4>1. x.user = <<>> => e = <<>>
        BY <1>2, <3>1, SubSeqEmpty
      <4> QED BY <4>1
    <3> HIDE DEF e
    <3>4. Cut(x, k) = [x EXCEPT !.user = e]
      BY <2>1 DEF Cut, e
    <3> QED BY <1>1, <3>2, <3>3, <3>4 DEF Entry
  <2>2. CASE ~ (k <= Len(x.user))
    <3>1. /\ Width(x) - k \in 1..AddressWidth[x.conn] /\ Width(x) - k \in Nat \ {0}
          /\ <<>> \in Ends(x.user) /\ <<>> \in Name
      BY <1>1, <1>2, <2>2, NameFacts
    <3>2. Cut(x, k) = [x EXCEPT !.user = <<>>, !.left = Width(x) - k]
      BY <2>2 DEF Cut
    <3> DEFINE l == Width(x) - k
    <3>3. l \in 1..AddressWidth[x.conn] /\ l \in Nat \ {0} /\ Cut(x, k) = [x EXCEPT !.user = <<>>, !.left = l]
      BY <3>1, <3>2
    <3> HIDE DEF l
    <3>4. Cut(x, k) = [user |-> <<>>, conn |-> x.conn, left |-> l]
      BY <1>1, <3>3
    <3> QED BY <1>1, <3>1, <3>3, <3>4 DEF Entry
  <2> QED BY <2>1, <2>2
<1> QED BY <1>1, <1>2, <1>4, <1>5

LEMMA LinesAreCutClosed == CutClosed(Count) /\ CutClosed(Entry)
BY CutCount, CutEntry DEF CutClosed

(* Bytes: a line more is as many bytes more.                               *)
LEMMA SizeGrows ==
    ASSUME NEW S, CutClosed(S), NEW t \in Seq(S)
    PROVE  /\ Size(t, 0) = 0
           /\ \A n \in 0..Len(t) : Size(t, n) \in Nat
           /\ \A n \in 1..Len(t) : Size(t, n) = Size(t, n - 1) + Width(t[n])
<1> DEFINE bytes(n) == UNION {{i} \X (1..Width(t[i])) : i \in 1..n}
           L == Len(t)
<1>1. L \in Nat /\ \A i \in 1..L : Width(t[i]) \in Nat \ {0}
  BY LenProperties, ElementOfSeq DEF CutClosed
<1>2. bytes(0) = {}
  OBVIOUS
<1>3. ASSUME NEW n \in 1..L
      PROVE  /\ bytes(n) = bytes(n - 1) \cup ({n} \X (1..Width(t[n])))
             /\ bytes(n - 1) \cap ({n} \X (1..Width(t[n]))) = {}
  <2>1. \A i : i \in 1..n <=> i \in 1..(n - 1) \/ i = n
    BY <1>1
  <2>2. n \notin 1..(n - 1)
    BY <1>1
  <2> QED BY <2>1, <2>2
<1>4. ASSUME NEW n \in 1..L
      PROVE  /\ IsFiniteSet({n} \X (1..Width(t[n])))
             /\ Cardinality({n} \X (1..Width(t[n]))) = Width(t[n])
  <2> DEFINE w == Width(t[n])
             f == [b \in 1..w |-> <<n, b>>]
  <2>1. w \in Nat
    BY <1>1
  <2> HIDE DEF w
  <2>2. f \in Surjection(1..w, {n} \X (1..w)) /\ f \in Injection(1..w, {n} \X (1..w))
    BY <2>1 DEF Surjection, Injection, IsInjective
  <2> HIDE DEF f
  <2>3. IsFiniteSet(1..w) /\ Cardinality(1..w) = w
    BY <2>1, FS_Interval
  <2> QED BY <2>2, <2>3, FS_Surjection DEF w
<1> HIDE DEF bytes
<1>5. \A n \in 0..L : IsFiniteSet(bytes(n))
  <2> DEFINE B == {n \in 0..L : ~ IsFiniteSet(bytes(n))}
  <2>1. SUFFICES ASSUME B # {} PROVE FALSE
    OBVIOUS
  <2>2. B \subseteq Nat
    BY <1>1
  <2>3. PICK m \in B : \A k \in B : m <= k
    BY <2>1, <2>2, LeastNatural
  <2>4. m # 0
    BY <1>2, <2>3, FS_EmptySet
  <2>5. m \in 1..L /\ m - 1 \in 0..L /\ ~ (m <= m - 1)
    BY <1>1, <2>4
  <2>6. IsFiniteSet(bytes(m - 1))
    BY <2>3, <2>5
  <2>7. IsFiniteSet(bytes(m))
    <3> DEFINE row == {m} \X (1..Width(t[m]))
    <3>1. bytes(m) = bytes(m - 1) \cup row /\ IsFiniteSet(row)
      BY <1>3, <1>4, <2>5
    <3> HIDE DEF row
    <3>2. IsFiniteSet(bytes(m - 1) \cup row)
      BY <2>6, <3>1, FS_Union
    <3> QED BY <3>1, <3>2
  <2> QED BY <2>7
<1>6. \A n \in 0..L : Cardinality(bytes(n)) \in Nat
  BY <1>5, FS_CardinalityType
<1>7. ASSUME NEW n \in 1..L
      PROVE  Cardinality(bytes(n)) = Cardinality(bytes(n - 1)) + Width(t[n])
  <2>1. n - 1 \in 0..L /\ Width(t[n]) \in Nat
    BY <1>1
  <2> DEFINE row == {n} \X (1..Width(t[n]))
  <2>2. /\ bytes(n) = bytes(n - 1) \cup row /\ bytes(n - 1) \cap row = {}
        /\ IsFiniteSet(row) /\ Cardinality(row) = Width(t[n]) /\ IsFiniteSet(bytes(n - 1))
    BY <1>3, <1>4, <1>5, <2>1
  <2> HIDE DEF row
  <2>3. Cardinality(bytes(n)) = Cardinality(bytes(n - 1)) + Cardinality(row) - Cardinality(bytes(n - 1) \cap row)
    BY <2>2, FS_Union
  <2>4. Cardinality(bytes(n - 1)) \in Nat /\ Cardinality(bytes(n - 1) \cap row) = 0
    BY <1>6, <2>1, <2>2, FS_EmptySet
  <2> QED BY <2>1, <2>2, <2>3, <2>4
<1>8. \A n : Size(t, n) = Cardinality(bytes(n))
  BY DEF Size, bytes
<1> QED BY <1>1, <1>2, <1>6, <1>7, <1>8, FS_EmptySet

LEMMA SizeOrder ==
    ASSUME NEW S, CutClosed(S), NEW t \in Seq(S), NEW m \in 0..Len(t), NEW n \in 0..Len(t), m <= n
    PROVE  Size(t, m) <= Size(t, n)
<1> DEFINE B == {k \in m..Len(t) : Size(t, k) < Size(t, m)}
<1>1. Len(t) \in Nat /\ \A k \in 0..Len(t) : Size(t, k) \in Nat
  BY SizeGrows, LenProperties
<1>2. SUFFICES ASSUME B # {} PROVE FALSE
  BY <1>1
<1>3. PICK k \in B : \A j \in B : k <= j
  <2>1. B \subseteq Nat
    BY <1>1
  <2> HIDE DEF B
  <2> QED BY <1>2, <2>1, LeastNatural
<1>4. k # m
  BY <1>1, <1>3
<1>5. k \in 1..Len(t) /\ k - 1 \in m..Len(t) /\ k - 1 \in 0..Len(t) /\ ~ (k <= k - 1)
  BY <1>1, <1>3, <1>4
<1>6. Size(t, k) = Size(t, k - 1) + Width(t[k]) /\ Width(t[k]) \in Nat
  BY <1>5, SizeGrows, ElementOfSeq DEF CutClosed
<1>7. ~ (Size(t, k - 1) < Size(t, m))
  BY <1>3, <1>5
<1> QED BY <1>1, <1>3, <1>5, <1>6, <1>7

(* What is behind the bytes of s is a cut of a line and whole lines.       *)
LEMMA BehindIn ==
    ASSUME NEW S, CutClosed(S), NEW s \in Seq(S), NEW t \in Seq(S)
    PROVE  Behind(s, t) \in Seq(S) /\ s \o Behind(s, t) \in Seq(S)
<1> DEFINE from == Size(s, Len(s))
           beyond == {i \in DOMAIN t : Size(t, i) > from}
           hit == CHOOSE i \in beyond : \A j \in beyond : i <= j
<1>1. /\ Len(t) \in Nat /\ DOMAIN t = 1..Len(t) /\ from \in Nat
      /\ \A i \in 1..Len(t) : t[i] \in S
  BY SizeGrows, LenProperties, ElementOfSeq
<1>2. CASE beyond = {}
  <2>1. Behind(s, t) = <<>>
    BY <1>2 DEF Behind
  <2> QED BY <2>1, EmptySeq, ConcatProperties
<1>3. CASE beyond # {}
  <2>1. beyond \subseteq Nat
    BY <1>1
  <2>2. \E i \in beyond : \A j \in beyond : i <= j
    <3> HIDE DEF beyond
    <3> QED BY <1>3, <2>1, LeastNatural
  <2>3. hit \in beyond /\ \A j \in beyond : hit <= j
    BY <2>2
  <2>4. Behind(s, t) = <<Cut(t[hit], from - Size(t, hit - 1))>> \o SubSeq(t, hit + 1, Len(t))
    BY <1>3 DEF Behind
  <2> HIDE DEF hit
  <2>5. /\ hit \in 1..Len(t) /\ hit - 1 \in 0..Len(t) /\ Size(t, hit) > from
        /\ Size(t, hit) = Size(t, hit - 1) + Width(t[hit])
        /\ Size(t, hit - 1) \in Nat /\ Width(t[hit]) \in Nat
    <3>1. hit \in 1..Len(t) /\ hit - 1 \in 0..Len(t) /\ Size(t, hit) > from
      BY <1>1, <2>3
    <3>2. t[hit] \in S /\ Width(t[hit]) \in Nat
      BY <1>1, <3>1 DEF CutClosed
    <3>3. Size(t, hit) = Size(t, hit - 1) + Width(t[hit]) /\ Size(t, hit - 1) \in Nat
      BY <3>1, SizeGrows
    <3> QED BY <3>1, <3>2, <3>3
  <2>6. Size(t, hit - 1) <= from
    <3>1. CASE hit = 1
      BY <1>1, <3>1, SizeGrows
    <3>2. CASE hit # 1
      <4>1. hit - 1 \in 1..Len(t) /\ ~ (hit <= hit - 1)
        BY <1>1, <2>5, <3>2
      <4>2. hit - 1 \notin beyond
        BY <2>3, <4>1
      <4> QED BY <1>1, <2>5, <4>1, <4>2
    <3> QED BY <3>1, <3>2
  <2> HIDE DEF from, beyond
  <2>7. from - Size(t, hit - 1) \in 0..(Width(t[hit]) - 1)
    BY <1>1, <2>5, <2>6
  <2>8. Cut(t[hit], from - Size(t, hit - 1)) \in S
    BY <1>1, <2>5, <2>7 DEF CutClosed
  <2>9. \A i \in (hit + 1)..Len(t) : t[i] \in S
    BY <1>1, <2>5
  <2>10. SubSeq(t, hit + 1, Len(t)) \in Seq(S)
    BY <1>1, <2>5, <2>9, SubSeqProperties
  <2>11. <<Cut(t[hit], from - Size(t, hit - 1))>> \in Seq(S)
    BY <2>8
  <2>12. Behind(s, t) \in Seq(S)
    BY <2>4, <2>10, <2>11, ConcatProperties
  <2> QED BY <2>12, ConcatProperties
<1> QED BY <1>2, <1>3

(* Nothing is behind the whole of a file, and all of it behind nothing.    *)
LEMMA BehindWhole ==
    ASSUME NEW S, CutClosed(S), NEW t \in Seq(S)
    PROVE  Behind(t, t) = <<>> /\ Behind(<<>>, t) = t /\ Behind(t, <<>>) = <<>>
<1>1. Len(t) \in Nat /\ DOMAIN t = 1..Len(t) /\ \A i \in 1..Len(t) : t[i] \in S
  BY LenProperties, ElementOfSeq
<1>2. Behind(t, t) = <<>>
  <2>1. \A i \in 1..Len(t) : i \in 0..Len(t) /\ Len(t) \in 0..Len(t) /\ i <= Len(t)
    BY <1>1
  <2>2. \A i \in 1..Len(t) : Size(t, i) <= Size(t, Len(t)) /\ Size(t, i) \in Nat /\ Size(t, Len(t)) \in Nat
    BY <2>1, SizeOrder, SizeGrows
  <2>3. {i \in DOMAIN t : Size(t, i) > Size(t, Len(t))} = {}
    BY <1>1, <2>2
  <2> QED BY <2>3 DEF Behind
<1>3. Behind(<<>>, t) = t
  <2>1. Size(<<>>, Len(<<>>)) = 0
    <3>1. <<>> \in Seq(S) /\ Len(<<>>) = 0
      BY EmptySeq
    <3> QED BY <3>1, SizeGrows
  <2> DEFINE beyond == {i \in DOMAIN t : Size(t, i) > Size(<<>>, Len(<<>>))}
             hit == CHOOSE i \in beyond : \A j \in beyond : i <= j
  <2>2. \A i \in 1..Len(t) : i \in beyond
    <3> SUFFICES ASSUME NEW i \in 1..Len(t) PROVE i \in beyond
      OBVIOUS
    <3>1. /\ Size(t, i) = Size(t, i - 1) + Width(t[i]) /\ Width(t[i]) \in Nat \ {0}
          /\ i - 1 \in 0..Len(t)
      <4>1. t[i] \in S /\ Width(t[i]) \in Nat \ {0} /\ i - 1 \in 0..Len(t)
        BY <1>1 DEF CutClosed
      <4> QED BY <4>1, SizeGrows
    <3>2. Size(t, i - 1) \in Nat
      BY <3>1, SizeGrows
    <3> QED BY <1>1, <2>1, <3>1, <3>2
  <2>3. CASE t = <<>>
    <3>1. beyond = {}
      BY <1>1, <2>3, EmptySeq
    <3> QED BY <2>1, <2>3, <3>1 DEF Behind
  <2>4. CASE t # <<>>
    <3>1. Len(t) \in Nat \ {0}
      BY <2>4, EmptySeq
    <3>2. 1 \in beyond /\ \A j \in beyond : 1 <= j
      BY <1>1, <2>2, <3>1
    <3>3. \A i \in beyond : (\A j \in beyond : i <= j) => i = 1
      BY <1>1, <3>2
    <3>4. hit = 1
      BY <3>2, <3>3
    <3>5. Behind(<<>>, t) =
             <<Cut(t[hit], Size(<<>>, Len(<<>>)) - Size(t, hit - 1))>> \o SubSeq(t, hit + 1, Len(t))
      <4>1. beyond # {}
        BY <3>2
      <4> QED BY <4>1 DEF Behind
    <3> HIDE DEF hit, beyond
    <3>6. Behind(<<>>, t) = <<Cut(t[1], 0 - Size(t, 0))>> \o SubSeq(t, 1 + 1, Len(t))
      BY <2>1, <3>4, <3>5
    <3>7. Cut(t[1], 0 - Size(t, 0)) = t[1]
      BY <1>1, <3>1, SizeGrows DEF CutClosed
    <3>8. SubSeq(t, 1, Len(t)) = <<t[1]>> \o SubSeq(t, 1 + 1, Len(t))
      BY <3>1, SubSeqRecursiveFirst
    <3> QED BY <3>6, <3>7, <3>8, SubSeqFull
  <2> QED BY <2>3, <2>4
<1>4. Behind(t, <<>>) = <<>>
  <2>1. DOMAIN <<>> = {}
    OBVIOUS
  <2> QED BY <2>1 DEF Behind
<1> QED BY <1>2, <1>3, <1>4

(* The lines at some positions are lines of the file; all of them are it.  *)
LEMMA OnlyIn ==
    ASSUME NEW S, NEW lines \in Seq(S), NEW P \in SUBSET (1..Len(lines))
    PROVE  /\ Only(lines, P) \in Seq(S)
           /\ P = 1..Len(lines) => Only(lines, P) = lines
<1> DEFINE L == Len(lines)
           B(m) == {j \in P : j <= m}
           upTo(m) == Cardinality(B(m))
           at(k) == CHOOSE i \in P : upTo(i) = k
           new == Only(lines, P)
           C == Cardinality(P)
<1>1. L \in Nat /\ DOMAIN lines = 1..L /\ \A i \in 1..L : lines[i] \in S
  BY LenProperties, ElementOfSeq
<1>2. IsFiniteSet(P) /\ C \in Nat /\ IsFiniteSet(1..L)
  <2>1. IsFiniteSet(1..L) /\ P \in SUBSET (1..L)
    BY <1>1, FS_Interval
  <2>2. IsFiniteSet(P)
    BY <2>1, FS_Subset
  <2> QED BY <2>1, <2>2, FS_CardinalityType
<1>3. \A m : IsFiniteSet(B(m)) /\ upTo(m) \in Nat
  BY <1>2, FS_Subset, FS_CardinalityType
<1>4. B(0) = {} /\ B(L) = P
  <2>1. \A j \in P : j \in 1..L /\ ~ (j <= 0) /\ j <= L
    BY <1>1
  <2> QED BY <2>1
<1>5. ASSUME NEW m \in 1..L
      PROVE  upTo(m) = upTo(m - 1) + IF m \in P THEN 1 ELSE 0
  <2>1. \A j \in P : j <= m <=> j <= m - 1 \/ j = m
    BY <1>1
  <2>2. m \notin B(m - 1)
    BY <1>1
  <2>3. CASE m \in P
    <3>1. B(m) = B(m - 1) \cup {m}
      BY <1>1, <2>1, <2>3
    <3> HIDE DEF B
    <3> QED BY <1>3, <2>2, <2>3, <3>1, FS_AddElement
  <2>4. CASE m \notin P
    <3>1. B(m) = B(m - 1)
      BY <2>1, <2>4
    <3> HIDE DEF B
    <3> QED BY <1>3, <2>4, <3>1
  <2> QED BY <2>3, <2>4
<1>6. upTo(0) = 0 /\ upTo(L) = C
  BY <1>4, FS_EmptySet
<1>7. new = [k \in 1..C |-> lines[at(k)]]
  BY DEF Only
<1> HIDE DEF upTo, B, new, C
<1>8. ASSUME NEW k \in 1..C
      PROVE  \E i \in P : upTo(i) = k
  <2> DEFINE T == {m \in 0..L : upTo(m) >= k}
  <2>1. T # {} /\ T \subseteq Nat
    BY <1>1, <1>2, <1>6
  <2>2. PICK m \in T : \A j \in T : m <= j
    BY <2>1, LeastNatural
  <2>3. m \in Nat /\ m <= L /\ m > 0 /\ upTo(m) >= k
    BY <1>1, <1>2, <1>6, <2>2
  <2>4. m - 1 \in 0..L /\ ~ (m <= m - 1) /\ m \in 1..L
    BY <1>1, <2>3
  <2>5. m - 1 \notin T
    BY <2>2, <2>4
  <2>6. upTo(m - 1) < k /\ upTo(m - 1) \in Nat /\ upTo(m) \in Nat /\ k \in Nat
    BY <1>2, <1>3, <2>4, <2>5
  <2>7. upTo(m) = k /\ m \in P
    BY <1>5, <2>3, <2>4, <2>6
  <2> QED BY <2>7
<1>9. \A k \in 1..C : at(k) \in P /\ upTo(at(k)) = k
  BY <1>8
<1> HIDE DEF at
<1>10. new \in [1..C -> S]
  BY <1>1, <1>7, <1>9
<1>11. new \in Seq(S)
  BY <1>2, <1>10, FunctionIsSeq
<1>12. ASSUME P = 1..L PROVE new = lines
  <2>1. \A i \in 1..L : upTo(i) = i
    <3> SUFFICES ASSUME NEW i \in 1..L PROVE upTo(i) = i
      OBVIOUS
    <3>1. B(i) = 1..i
      BY <1>1, <1>12 DEF B
    <3>2. Cardinality(1..i) = i
      BY <1>1, FS_Interval
    <3> QED BY <3>1, <3>2 DEF upTo
  <2>2. C = L
    BY <1>1, <1>6, <2>1 DEF C
  <2>3. \A k \in 1..L : at(k) = k
    BY <1>9, <1>12, <2>1, <2>2
  <2>4. new \in [1..L -> S] /\ lines \in [1..L -> S]
    BY <1>1, <1>10, <2>2, LenProperties
  <2>5. \A k \in 1..L : new[k] = lines[k]
    BY <1>7, <2>2, <2>3
  <2> QED BY <2>4, <2>5
<1> QED BY <1>11, <1>12 DEF new

(* What a child reads of logged_in.txt, up to MAX_LISTED entries.          *)
LEMMA ListedIn ==
    ASSUME NEW S, NEW lines \in Seq(S)
    PROVE  /\ Listed(lines) \in Seq(S)
           /\ (\A x \in ToSet(lines) : x.user # <<>>) /\ Len(lines) <= MAX_LISTED => Listed(lines) = lines
<1> DEFINE P == {i \in DOMAIN lines : lines[i].user # <<>>}
           named == Only(lines, P)
<1>1. DOMAIN lines = 1..Len(lines) /\ Len(lines) \in Nat /\ P \in SUBSET (1..Len(lines))
  BY LenProperties
<1>2. named \in Seq(S) /\ (P = 1..Len(lines) => named = lines)
  BY <1>1, OnlyIn
<1>3. Listed(lines) = SubSeq(named, 1, IF Len(named) < MAX_LISTED THEN Len(named) ELSE MAX_LISTED)
  BY DEF Listed
<1>5. (\A x \in ToSet(lines) : x.user # <<>>) => P = 1..Len(lines)
  BY <1>1 DEF ToSet
<1> HIDE DEF named, P
<1>4. Len(named) \in Nat /\ MAX_LISTED \in Nat /\ \A i \in 1..Len(named) : named[i] \in S
  BY <1>2, LenProperties, ElementOfSeq, LimitAssumption
<1>6. Listed(lines) \in Seq(S)
  <2> DEFINE n == IF Len(named) < MAX_LISTED THEN Len(named) ELSE MAX_LISTED
  <2>1. n \in Nat /\ \A i \in 1..n : named[i] \in S
    BY <1>4
  <2> HIDE DEF n
  <2>2. SubSeq(named, 1, n) \in Seq(S)
    BY <2>1, SubSeqProperties
  <2> QED BY <1>3, <2>2 DEF n
<1>7. ASSUME named = lines, Len(lines) <= MAX_LISTED PROVE Listed(lines) = lines
  <2>1. (IF Len(lines) < MAX_LISTED THEN Len(lines) ELSE MAX_LISTED) = Len(lines)
    <3>1. Len(lines) \in Nat /\ MAX_LISTED \in Nat
      BY LenProperties, LimitAssumption
    <3>2. ~ (Len(lines) < MAX_LISTED) => MAX_LISTED = Len(lines)
      BY <1>7, <3>1
    <3> QED BY <3>2
  <2>2. SubSeq(lines, 1, Len(lines)) = lines
    BY SubSeqFull
  <2> QED BY <1>3, <1>7, <2>1, <2>2
<1> QED BY <1>2, <1>5, <1>6, <1>7

(* read_failed_attempts returns the count of a line of the user, or 0.     *)
LEMMA FailedOfIn ==
    ASSUME NEW u, NEW S \in SUBSET Count, NEW lines \in Seq(S)
    PROVE  \/ FailedOf(u, lines) = 0
           \/ \E x \in S : x.user = u /\ FailedOf(u, lines) = x.n
<1> DEFINE I == {i \in 1..Len(lines) : lines[i].user = u}
           f == SelectInSeq(lines, LAMBDA x : x.user = u)
<1>1. Len(lines) \in Nat /\ DOMAIN lines = 1..Len(lines) /\ \A i \in 1..Len(lines) : lines[i] \in S
  BY LenProperties, ElementOfSeq
<1>2. CASE I = {}
  BY <1>1, <1>2 DEF FailedOf
<1>3. CASE I # {}
  <2>1. f = CHOOSE x \in I : \A y \in I : x <= y
    BY <1>3 DEF SelectInSeq, Min
  <2>2. \E x \in I : \A y \in I : x <= y
    <3>1. I \subseteq Nat
      BY <1>1
    <3> HIDE DEF I
    <3> QED BY <1>3, <3>1, LeastNatural
  <2>3. f \in I
    BY <2>1, <2>2
  <2>4. FailedOf(u, lines) = lines[f].n
    BY <1>1, <1>3 DEF FailedOf
  <2> HIDE DEF f
  <2> QED BY <1>1, <2>3, <2>4
<1> QED BY <1>2, <1>3

(* What the writers of failed_attempts.txt keep of it, and add.            *)
LEMMA WithCountIn ==
    ASSUME NEW S, NEW u, NEW n, CountOf(u, n) \in S, NEW lines \in Seq(S)
    PROVE  WithCount(lines, u, n) \in Seq(S)
<1> DEFINE kept == Only(lines, Fields(lines))
           new == [i \in DOMAIN kept |-> IF kept[i].user = u THEN CountOf(u, n) ELSE kept[i]]
<1>1. kept \in Seq(S)
  <2>1. Fields(lines) \in SUBSET (1..Len(lines))
    BY LenProperties DEF Fields
  <2> QED BY <2>1, OnlyIn
<1> HIDE DEF kept
<1>2. Len(kept) \in Nat /\ DOMAIN kept = 1..Len(kept) /\ \A i \in 1..Len(kept) : kept[i] \in S
  BY <1>1, LenProperties, ElementOfSeq
<1>3. new \in [1..Len(kept) -> S]
  BY <1>2
<1>4. new \in Seq(S)
  BY <1>2, <1>3, FunctionIsSeq
<1>5. Append(kept, CountOf(u, n)) \in Seq(S)
  BY <1>1, AppendProperties
<1>6. WithCount(lines, u, n) \in {new, Append(kept, CountOf(u, n))}
  BY DEF WithCount, kept
<1> QED BY <1>4, <1>5, <1>6

LEMMA WithoutUserIn ==
    ASSUME NEW S, NEW u, NEW lines \in Seq(S)
    PROVE  WithoutUser(lines, u) \in Seq(S)
<1>1. {i \in Fields(lines) : lines[i].user # u} \in SUBSET (1..Len(lines))
  BY LenProperties DEF Fields
<1> QED BY <1>1, OnlyIn DEF WithoutUser

----
(* New lines.                                                              *)
LEMMA CountInCount ==
    \A u \in Users, n \in 0..MAX_ATTEMPTS :
        CountOf(u, n) \in Count /\ CountOf(u, n).user = u /\ CountOf(u, n).n = n
BY NameFacts DEF CountOf, Count, CountWidth

LEMMA EntryInEntry ==
    \A u \in Users, c \in Conns :
        EntryOf(u, c) \in Entry /\ EntryOf(u, c).user = u /\ EntryOf(u, c).conn = c
<1> SUFFICES ASSUME NEW u \in Users, NEW c \in Conns
             PROVE  EntryOf(u, c) \in Entry /\ EntryOf(u, c).user = u /\ EntryOf(u, c).conn = c
  OBVIOUS
<1>1. u \in Name /\ AddressWidth[c] \in Nat \ {0}
  BY NameFacts, WidthAssumption
<1>2. AddressWidth[c] <= AddressWidth[c]
  BY <1>1
<1> QED BY <1>1, <1>2 DEF EntryOf, Entry

WritesFailed == {"settrunc", "setflush", "cleartrunc", "clearflush"}
WritesListed == {"addtrunc", "addflush", "deltrunc", "delflush"}
HandlesLogin == {"accounts", "count", "setread", "settrunc", "setflush", "locktrunc", "lockflush",
                 "clearread", "cleartrunc", "clearflush", "addread", "addtrunc", "addflush"}
Removes == {"delread", "deltrunc", "delflush"}

(* The buffer of the child is for the lines of this file.                  *)
HasFailed(c) == pc[c] \in WritesFailed \cup ReadsFailed
HasListed(c) == pc[c] \in WritesListed \cup ReadsListed

(* A child that handles a LOGIN has a userid and no session yet, one that  *)
(* removes its entry has one.                                              *)
LocalsKnown(c) ==
    /\ HasFailed(c) => buf[c] \in Seq(Count)
    /\ HasListed(c) => buf[c] \in Seq(Entry)
    /\ ~HasFailed(c) /\ ~HasListed(c) => buf[c] = <<>>
    /\ pc[c] \in HandlesLogin => user[c] \in Users /\ session[c] = None
    /\ pc[c] \in Removes => session[c] \in Users
    /\ pc[c] = "free" => session[c] = None

TypeInv ==
    /\ TypeOK
    /\ file \in [failed : Seq(Count), listed : Seq(Entry)]
    /\ buf \in [Conns -> Seq(Count) \cup Seq(Entry)]
    /\ \A c \in Conns : LocalsKnown(c)

LEMMA TypeInductive == Spec => []TypeInv
<1> USE DEF Idle, ReadsFailed, ReadsListed, PCs, WritesFailed, WritesListed, HandlesLogin, Removes,
            HasFailed, HasListed
<1>1. Init => TypeInv
  <2> SUFFICES ASSUME Init PROVE TypeInv
    OBVIOUS
  <2>1. TypeOK
    <3>1. /\ file.failed \in Seq(Count) /\ file.listed \in Seq(Entry)
          /\ \A c \in Conns : buf[c] = <<>>
      BY EmptyFacts DEF Init
    <3>2. logins \in 0..MaxLogins /\ 0 \in 0..MAX_ATTEMPTS
      BY CountsAreNumbers, LimitAssumption DEF Init
    <3> QED BY <3>1, <3>2 DEF Init, TypeOK, Status, NoAccounts
  <2> QED BY <2>1, EmptyFacts DEF Init, TypeInv, LocalsKnown
<1>2. TypeInv /\ [Next]_vars => TypeInv'
  <2> SUFFICES ASSUME TypeInv, [Next]_vars PROVE TypeInv'
    OBVIOUS
  <2>0. /\ file.failed \in Seq(Count) /\ file.listed \in Seq(Entry)
        /\ \A c \in Conns : LocalsKnown(c)
    BY DEF TypeInv, TypeOK
  <2>1. ASSUME NEW c \in Conns, Connect(c) PROVE TypeInv'
    BY <2>1 DEF Connect, TypeInv, TypeOK, LocalsKnown, Goto, files, locals, history
  <2>2. ASSUME NEW c \in Conns, DisconnectIdle(c) PROVE TypeInv'
    BY <2>2 DEF DisconnectIdle, TypeInv, TypeOK, LocalsKnown, Goto, files, locals, history
  <2>3. ASSUME NEW c \in Conns, NEW u \in Users, RecvLogin(c, u) PROVE TypeInv'
    BY <2>3, LimitAssumption, EmptyFacts DEF RecvLogin, Begin, TypeInv, TypeOK, LocalsKnown, Goto, files
  <2>4. ASSUME NEW c \in Conns, NEW q \in BOOLEAN, StartRemoval(c, q) PROVE TypeInv'
    BY <2>4, EmptyFacts DEF StartRemoval, Begin, TypeInv, TypeOK, LocalsKnown, Goto, files
  <2>5. ASSUME NEW c \in Conns, LoginRefused(c) PROVE TypeInv'
    BY <2>5, CountsAreNumbers, EmptyFacts DEF LoginRefused, Fails, TypeInv, TypeOK, LocalsKnown, Goto, files, history,
       Status, NoAccounts
  <2>6. ASSUME NEW c \in Conns, LoginWrong(c) PROVE TypeInv'
    BY <2>6, EmptyFacts DEF LoginWrong, TypeInv, TypeOK, LocalsKnown, Goto, files, history
  <2>7. ASSUME NEW c \in Conns, LoginRight(c) PROVE TypeInv'
    <3>1. user[c] \in Users /\ session[c] = None
      BY <2>0, <2>7 DEF LoginRight, LocalsKnown
    <3>2. EntryOf(user[c], c) \in Entry
      BY <3>1, EntryInEntry
    <3> QED BY <2>7, <3>2, EmptyFacts DEF LoginRight, TypeInv, TypeOK, LocalsKnown, Goto, files, locals
  <2>8. ASSUME NEW c \in Conns, Read(c, "failed") \/ Read(c, "listed") PROVE TypeInv'
    <3>1. CASE Read(c, "failed")
      <4>1. /\ buf[c] \in Seq(Count) /\ HasFailed(c) /\ ~HasListed(c)
            /\ buf' = [buf EXCEPT ![c] = buf[c] \o Behind(buf[c], file.failed)]
        BY <2>0, <3>1 DEF Read, LocalsKnown, TypeInv
      <4>2. buf[c] \o Behind(buf[c], file.failed) \in Seq(Count)
        BY <2>0, <4>1, BehindIn, LinesAreCutClosed
      <4> QED BY <3>1, <4>1, <4>2 DEF Read, TypeInv, TypeOK, LocalsKnown, files, history
    <3>2. CASE Read(c, "listed")
      <4>1. /\ buf[c] \in Seq(Entry) /\ HasListed(c) /\ ~HasFailed(c)
            /\ buf' = [buf EXCEPT ![c] = buf[c] \o Behind(buf[c], file.listed)]
        BY <2>0, <3>2 DEF Read, LocalsKnown, TypeInv
      <4>2. buf[c] \o Behind(buf[c], file.listed) \in Seq(Entry)
        BY <2>0, <4>1, BehindIn, LinesAreCutClosed
      <4> QED BY <3>2, <4>1, <4>2 DEF Read, TypeInv, TypeOK, LocalsKnown, files, history
    <3> QED BY <2>8, <3>1, <3>2
  <2>9. ASSUME NEW c \in Conns, CountFailed(c) PROVE TypeInv'
    <3>1. buf[c] \in Seq(Count) /\ user[c] \in Users
      BY <2>0, <2>9 DEF CountFailed, LocalsKnown
    <3>2. attempts' = [attempts EXCEPT ![c] = Capped(FailedOf(user[c], buf[c]) + 1)]
      BY <2>9 DEF CountFailed
    <3>3. Capped(FailedOf(user[c], buf[c]) + 1) \in 0..MAX_ATTEMPTS
      <4>1. FailedOf(user[c], buf[c]) \in 0..MAX_ATTEMPTS
        BY <3>1, FailedOfIn, CountsAreNumbers DEF Count
      <4>2. Capped(FailedOf(user[c], buf[c]) + 1) \in 1..MAX_ATTEMPTS
        BY <4>1, CountsAreNumbers
      <4> QED BY <4>2, CountsAreNumbers
    <3>4. wrong' \in [Name -> 0..MAX_ATTEMPTS]
      <4>1. \A n \in 0..MAX_ATTEMPTS : Capped(n + 1) \in 0..MAX_ATTEMPTS
        BY CountsAreNumbers
      <4>2. \A e \in Name : wrong[e] \in 0..MAX_ATTEMPTS
        BY DEF TypeInv, TypeOK
      <4> QED BY <2>9, <4>1, <4>2 DEF CountFailed
    <3> QED BY <2>9, <3>2, <3>3, <3>4, EmptyFacts DEF CountFailed, TypeInv, TypeOK, LocalsKnown, Goto, files
  <2>10. ASSUME NEW c \in Conns, NEW lines \in Seq(Count) \cup Seq(Entry), NEW from, NEW to,
                Prepare(c, from, lines, to),
                \/ from = "setread" /\ to = "settrunc" /\ lines \in Seq(Count)
                \/ from = "clearread" /\ to = "cleartrunc" /\ lines \in Seq(Count)
                \/ from = "addread" /\ to = "addtrunc" /\ lines \in Seq(Entry)
                \/ from = "delread" /\ to = "deltrunc" /\ lines \in Seq(Entry)
         PROVE  TypeInv'
    BY <2>10 DEF Prepare, TypeInv, TypeOK, LocalsKnown, Goto, files, history
  <2>11. ASSUME NEW c \in Conns, SetRead(c) PROVE TypeInv'
    <3>1. /\ buf[c] \in Seq(Count) /\ user[c] \in Users /\ attempts[c] \in 0..MAX_ATTEMPTS
          /\ Prepare(c, "setread", WithCount(buf[c], user[c], attempts[c]), "settrunc")
      BY <2>0, <2>11 DEF SetRead, Prepare, LocalsKnown, TypeInv, TypeOK
    <3>2. WithCount(buf[c], user[c], attempts[c]) \in Seq(Count)
      BY <3>1, CountInCount, WithCountIn
    <3> QED BY <2>10, <3>1, <3>2
  <2>12. ASSUME NEW c \in Conns, ClearRead(c) PROVE TypeInv'
    <3>1. /\ buf[c] \in Seq(Count)
          /\ Prepare(c, "clearread", WithoutUser(buf[c], user[c]), "cleartrunc")
      BY <2>0, <2>12 DEF ClearRead, Prepare, LocalsKnown
    <3>2. WithoutUser(buf[c], user[c]) \in Seq(Count)
      BY <3>1, WithoutUserIn
    <3> QED BY <2>10, <3>1, <3>2
  <2>13. ASSUME NEW c \in Conns, AddRead(c) PROVE TypeInv'
    <3>1. /\ buf[c] \in Seq(Entry) /\ user[c] \in Users
          /\ Prepare(c, "addread", Append(Listed(buf[c]), EntryOf(user[c], c)), "addtrunc")
      BY <2>0, <2>13 DEF AddRead, Prepare, LocalsKnown
    <3>2. Append(Listed(buf[c]), EntryOf(user[c], c)) \in Seq(Entry)
      BY <3>1, EntryInEntry, ListedIn, AppendToSet
    <3> QED BY <2>10, <3>1, <3>2
  <2>14. ASSUME NEW c \in Conns, RemoveRead(c) PROVE TypeInv'
    <3>1. /\ buf[c] \in Seq(Entry) /\ Contains(Listed(buf[c]), EntryOf(session[c], c))
          /\ Prepare(c, "delread", RemoveFirst(Listed(buf[c]), EntryOf(session[c], c)), "deltrunc")
      BY <2>0, <2>14 DEF RemoveRead, Prepare, LocalsKnown
    <3>2. RemoveFirst(Listed(buf[c]), EntryOf(session[c], c)) \in Seq(Entry)
      BY <3>1, ListedIn, RemoveFirstIsRemoveAt, RemoveAtProperties
    <3> QED BY <2>10, <3>1, <3>2
  <2>15. ASSUME NEW c \in Conns, Truncates(c) PROVE TypeInv'
    <3>1. file' \in [failed : Seq(Count), listed : Seq(Entry)]
      BY <2>15, EmptyFacts DEF Truncates, Truncate, TypeInv
    <3>2. UNCHANGED <<account, user, snapshot, attempts, buf, session, closing,
                      logins, wrong, granted, overlap>>
      BY <2>15 DEF Truncates, Truncate, locals, history
    <3>3. ASSUME NEW from, NEW to, pc[c] = from, pc' = [pc EXCEPT ![c] = to],
                 <<from, to>> \in {<<"settrunc", "setflush">>, <<"cleartrunc", "clearflush">>,
                                   <<"addtrunc", "addflush">>, <<"deltrunc", "delflush">>}
          PROVE  TypeInv'
      <4>1. TypeOK'
        BY <3>1, <3>2, <3>3 DEF TypeInv, TypeOK
      <4>2. \A d \in Conns : LocalsKnown(d)'
        BY <2>0, <3>2, <3>3 DEF LocalsKnown, TypeInv, TypeOK
      <4> QED BY <3>1, <3>2, <4>1, <4>2 DEF TypeInv
    <3> QED BY <2>15, <3>3 DEF Truncates, Truncate, Goto
  <2>16. ASSUME NEW c \in Conns, LockTruncate(c) PROVE TypeInv'
    BY <2>16 DEF LockTruncate, TypeInv, TypeOK, LocalsKnown, Goto, locals, history, Status, NoAccounts
  <2>17. ASSUME NEW c \in Conns, LockFlush(c) PROVE TypeInv'
    BY <2>17, CountsAreNumbers, EmptyFacts DEF LockFlush, Fails, TypeInv, TypeOK, LocalsKnown, Goto, history,
       Status, NoAccounts
  <2>18. ASSUME NEW c \in Conns, NEW from \in {"setflush", "clearflush"}, Flush(c, from, "failed")
         PROVE  /\ file' \in [failed : Seq(Count), listed : Seq(Entry)]
                /\ UNCHANGED <<account, logins, wrong, granted, overlap>>
    <3>1. buf[c] \in Seq(Count)
      BY <2>0, <2>18 DEF Flush, LocalsKnown
    <3>2. file' = [file EXCEPT !["failed"] = buf[c] \o Behind(buf[c], file.failed)]
      BY <2>18 DEF Flush, TypeInv
    <3>3. buf[c] \o Behind(buf[c], file.failed) \in Seq(Count)
      BY <2>0, <3>1, BehindIn, LinesAreCutClosed
    <3> QED BY <2>18, <3>2, <3>3 DEF TypeInv, Flush, history
  <2>19. ASSUME NEW c \in Conns, NEW from \in {"addflush", "delflush"}, Flush(c, from, "listed")
         PROVE  /\ file' \in [failed : Seq(Count), listed : Seq(Entry)]
                /\ UNCHANGED <<account, logins, wrong, granted, overlap>>
    <3>1. buf[c] \in Seq(Entry)
      BY <2>0, <2>19 DEF Flush, LocalsKnown
    <3>2. file' = [file EXCEPT !["listed"] = buf[c] \o Behind(buf[c], file.listed)]
      BY <2>19 DEF Flush, TypeInv
    <3>3. buf[c] \o Behind(buf[c], file.listed) \in Seq(Entry)
      BY <2>0, <3>1, BehindIn, LinesAreCutClosed
    <3> QED BY <2>19, <3>2, <3>3 DEF TypeInv, Flush, history
  <2>20. ASSUME NEW c \in Conns, SetFlush(c) PROVE TypeInv'
    <3>1. /\ pc[c] = "setflush"
          /\ file' \in [failed : Seq(Count), listed : Seq(Entry)]
          /\ UNCHANGED <<account, logins, wrong, granted, overlap>>
      BY <2>18, <2>20 DEF SetFlush, Flush
    <3>2. CASE Goto(c, "locktrunc") /\ buf' = [buf EXCEPT ![c] = <<>>]
               /\ UNCHANGED <<user, snapshot, attempts, session, closing>>
      BY <3>1, <3>2, EmptyFacts DEF TypeInv, TypeOK, LocalsKnown, Goto
    <3>3. CASE Fails(c)
      BY <3>1, <3>3, CountsAreNumbers, EmptyFacts DEF Fails, TypeInv, TypeOK, LocalsKnown, Goto, Status, NoAccounts
    <3> QED BY <2>20, <3>2, <3>3 DEF SetFlush
  <2>21. ASSUME NEW c \in Conns, ClearFlush(c) PROVE TypeInv'
    <3>1. /\ pc[c] = "clearflush"
          /\ file' \in [failed : Seq(Count), listed : Seq(Entry)]
          /\ UNCHANGED <<account, logins, wrong, granted, overlap>>
      BY <2>18, <2>21 DEF ClearFlush, Flush
    <3> QED BY <2>21, <3>1, EmptyFacts DEF ClearFlush, TypeInv, TypeOK, LocalsKnown, Goto
  <2>22. ASSUME NEW c \in Conns, AddFlush(c) PROVE TypeInv'
    <3>1. /\ pc[c] = "addflush"
          /\ file' \in [failed : Seq(Count), listed : Seq(Entry)]
          /\ UNCHANGED <<account, logins, wrong, granted, overlap>>
      BY <2>19, <2>22 DEF AddFlush, Flush
    <3> QED BY <2>22, <3>1, EmptyFacts DEF AddFlush, Succeeds, TypeInv, TypeOK, LocalsKnown, Goto
  <2>23. ASSUME NEW c \in Conns, DelFlush(c) PROVE TypeInv'
    <3>1. /\ pc[c] = "delflush"
          /\ file' \in [failed : Seq(Count), listed : Seq(Entry)]
          /\ UNCHANGED <<account, logins, wrong, granted, overlap>>
      BY <2>19, <2>23 DEF DelFlush, Flush
    <3> QED BY <2>23, <3>1, EmptyFacts DEF DelFlush, Leaves, TypeInv, TypeOK, LocalsKnown, Goto
  <2>24. ASSUME NEW c \in Conns, AddNotNeeded(c) PROVE TypeInv'
    BY <2>24, EmptyFacts DEF AddNotNeeded, Succeeds, TypeInv, TypeOK, LocalsKnown, Goto, files, history
  <2>25. ASSUME NEW c \in Conns, RemoveNotFound(c) PROVE TypeInv'
    BY <2>25, EmptyFacts DEF RemoveNotFound, Leaves, TypeInv, TypeOK, LocalsKnown, Goto, files, history
  <2>26. CASE UNCHANGED vars
    BY <2>26 DEF vars, TypeInv, TypeOK, LocalsKnown
  <2> QED
    BY <2>1, <2>2, <2>3, <2>4, <2>5, <2>6, <2>7, <2>8, <2>9, <2>11, <2>12, <2>13, <2>14, <2>15,
       <2>16, <2>17, <2>20, <2>21, <2>22, <2>23, <2>24, <2>25, <2>26 DEF Next, Client, Child
<1> QED BY <1>1, <1>2, PTL DEF Spec

(* The files, the children's locals and the history keep their types.      *)
THEOREM TypeCorrect == Spec => []TypeOK
<1>1. TypeInv => TypeOK
  BY DEF TypeInv
<1> QED BY <1>1, TypeInductive, PTL

----
LEMMA SeqOfSubset ==
    ASSUME NEW S, NEW T, S \subseteq T, NEW s \in Seq(S)
    PROVE  s \in Seq(T)
<1>1. Len(s) \in Nat /\ s \in [1..Len(s) -> T]
  BY LenProperties, ElementOfSeq
<1> QED BY <1>1, FunctionIsSeq

(* Counts get lost and cut, but none is invented: the count in a line is   *)
(* no more than the wrong passwords given for userids that end in its      *)
(* userid, of which a shorter one has had the more.                        *)
Monotone == \A e \in Name : \A f \in Ends(e) : wrong[e] <= wrong[f]
Explained == {x \in Count : x.n <= wrong[x.user]}

Locks == {"locktrunc", "lockflush"}
Counted == {"setread", "settrunc", "setflush"} \cup Locks

LockInv ==
    /\ LockNeedsWrong
    /\ Monotone
    /\ \A c \in Conns, u \in Users : snapshot[c][u] = "locked" => wrong[u] = MAX_ATTEMPTS
    /\ file.failed \in Seq(Explained)
    /\ \A c \in Conns : HasFailed(c) => buf[c] \in Seq(Explained)
    /\ \A c \in Conns : pc[c] \in Counted => attempts[c] <= wrong[user[c]]
    /\ \A c \in Conns : pc[c] \in Locks => attempts[c] = MAX_ATTEMPTS

LEMMA ExplainedIsCutClosed ==
    ASSUME TypeInv, Monotone
    PROVE  CutClosed(Explained)
<1> SUFFICES ASSUME NEW x \in Explained
             PROVE  /\ Width(x) \in Nat \ {0} /\ Cut(x, 0) = x
                    /\ \A k \in 0..(Width(x) - 1) : Cut(x, k) \in Explained
  BY DEF CutClosed
<1>1. x \in Count /\ x.n <= wrong[x.user] /\ x.user \in Name /\ x.n \in Nat
  BY LimitAssumption DEF Explained, Count
<1>2. ASSUME NEW k \in 0..(Width(x) - 1) PROVE Cut(x, k) \in Explained
  <2>1. Cut(x, k) \in Count /\ Cut(x, k).n = x.n /\ Cut(x, k).user \in Ends(x.user)
    BY <1>1, CutCount
  <2>2. wrong[x.user] <= wrong[Cut(x, k).user]
    BY <1>1, <2>1 DEF Monotone
  <2>3. wrong[x.user] \in Nat /\ wrong[Cut(x, k).user] \in Nat
    BY <1>1, <2>1, NameFacts, LimitAssumption DEF TypeInv, TypeOK, Count
  <2> QED BY <1>1, <2>1, <2>2, <2>3 DEF Explained
<1> QED BY <1>1, <1>2, CutCount

(* A step of child c: what it has to keep.                                 *)
LEMMA LockStep ==
    ASSUME TypeInv, TypeInv', LockInv, NEW c \in Conns,
           \A e \in Name : wrong[e] <= wrong'[e], Monotone',
           \A d \in Conns \ {c} :
              /\ pc'[d] = pc[d] /\ user'[d] = user[d] /\ buf'[d] = buf[d]
              /\ snapshot'[d] = snapshot[d] /\ attempts'[d] = attempts[d],
           LockNeedsWrong',
           \A u \in Users : snapshot'[c][u] = "locked" => wrong'[u] = MAX_ATTEMPTS,
           file'.failed \in Seq(Explained) \/ file'.failed \in Seq(Explained'),
           HasFailed(c)' => buf'[c] \in Seq(Explained) \/ buf'[c] \in Seq(Explained'),
           pc'[c] \in Counted => attempts'[c] <= wrong'[user'[c]],
           pc'[c] \in Locks => attempts'[c] = MAX_ATTEMPTS
    PROVE  LockInv'
<1>1. /\ \A e \in Name : wrong[e] \in 0..MAX_ATTEMPTS /\ wrong'[e] \in 0..MAX_ATTEMPTS
      /\ MAX_ATTEMPTS \in Nat /\ \A d \in Conns : attempts[d] \in 0..MAX_ATTEMPTS
  BY LimitAssumption DEF TypeInv, TypeOK
<1>2. Explained \subseteq Explained'
  <2> SUFFICES ASSUME NEW x \in Explained PROVE x \in Explained'
    OBVIOUS
  <2>1. x \in Count /\ x.n \in Nat /\ x.user \in Name /\ x.n <= wrong[x.user]
    BY <1>1 DEF Explained, Count
  <2>2. wrong[x.user] <= wrong'[x.user] /\ wrong[x.user] \in Nat /\ wrong'[x.user] \in Nat
    BY <1>1, <2>1
  <2>3. x.n <= wrong'[x.user]
    BY <2>1, <2>2
  <2> QED BY <2>1, <2>3 DEF Explained
<1>3. ASSUME NEW s, s \in Seq(Explained) PROVE s \in Seq(Explained')
  <2> DEFINE E == Explained'
  <2>1. Explained \subseteq E
    BY <1>2
  <2> HIDE DEF E
  <2>2. s \in Seq(E)
    BY <1>3, <2>1, SeqOfSubset
  <2> QED BY <2>2 DEF E
<1>4. \A d \in Conns, u \in Users : snapshot'[d][u] = "locked" => wrong'[u] = MAX_ATTEMPTS
  <2> SUFFICES ASSUME NEW d \in Conns \ {c}, NEW u \in Users, snapshot'[d][u] = "locked"
               PROVE  wrong'[u] = MAX_ATTEMPTS
    OBVIOUS
  <2>1. wrong[u] = MAX_ATTEMPTS /\ u \in Name
    BY NameFacts DEF LockInv
  <2>2. wrong[u] <= wrong'[u]
    BY <2>1
  <2> QED BY <1>1, <2>1, <2>2
<1>5. \A d \in Conns : HasFailed(d)' => buf'[d] \in Seq(Explained')
  <2> SUFFICES ASSUME NEW d \in Conns, HasFailed(d)' PROVE buf'[d] \in Seq(Explained')
    OBVIOUS
  <2>1. CASE d = c
    BY <1>3, <2>1
  <2>2. CASE d # c
    <3>1. HasFailed(d) /\ buf'[d] = buf[d]
      BY <2>2 DEF HasFailed
    <3>2. buf[d] \in Seq(Explained)
      BY <3>1 DEF LockInv
    <3> QED BY <1>3, <3>1, <3>2
  <2> QED BY <2>1, <2>2
<1>6. \A d \in Conns : pc'[d] \in Counted => attempts'[d] <= wrong'[user'[d]]
  <2> SUFFICES ASSUME NEW d \in Conns \ {c}, pc[d] \in Counted
               PROVE  attempts[d] <= wrong'[user[d]]
    OBVIOUS
  <2>1. attempts[d] <= wrong[user[d]] /\ user[d] \in Name
    BY NameFacts DEF LockInv, TypeInv, LocalsKnown, HandlesLogin, Counted, Locks
  <2>2. wrong[user[d]] <= wrong'[user[d]]
    BY <2>1
  <2>3. attempts[d] \in Nat /\ wrong[user[d]] \in Nat /\ wrong'[user[d]] \in Nat
    BY <1>1, <2>1
  <2> QED BY <2>1, <2>2, <2>3
<1>7. \A d \in Conns : pc'[d] \in Locks => attempts'[d] = MAX_ATTEMPTS
  BY DEF LockInv
<1>8. file'.failed \in Seq(Explained')
  BY <1>3
<1> QED BY <1>4, <1>5, <1>6, <1>7, <1>8 DEF LockInv

LEMMA LockInductive == Spec => []LockInv
<1> USE DEF ReadsFailed, ReadsListed, WritesFailed, WritesListed, HasFailed, Counted, Locks
<1>1. Init => LockInv
  <2> SUFFICES ASSUME Init PROVE LockInv
    OBVIOUS
  <2>1. Monotone
    BY NameFacts DEF Init, Monotone
  <2> QED BY <2>1, EmptyFacts, CountsAreNumbers DEF Init, LockInv, LockNeedsWrong, NoAccounts
<1>2. TypeInv /\ TypeInv' /\ LockInv /\ [Next]_vars => LockInv'
  <2> SUFFICES ASSUME TypeInv, TypeInv', LockInv, [Next]_vars PROVE LockInv'
    OBVIOUS
  <2>0. /\ file \in [failed : Seq(Count), listed : Seq(Entry)]
        /\ pc \in [Conns -> PCs] /\ user \in [Conns -> Users \cup {None}]
        /\ buf \in [Conns -> Seq(Count) \cup Seq(Entry)]
        /\ snapshot \in [Conns -> [Users -> Status]] /\ account \in [Users -> Status]
        /\ attempts \in [Conns -> 0..MAX_ATTEMPTS] /\ wrong \in [Name -> 0..MAX_ATTEMPTS]
        /\ \A c \in Conns : LocalsKnown(c)
    BY DEF TypeInv, TypeOK
  <2>a. /\ file.failed \in Seq(Explained) /\ LockNeedsWrong /\ Monotone
        /\ \A u \in Users : account[u] = "locked" => wrong[u] = MAX_ATTEMPTS
        /\ \A c \in Conns, u \in Users : snapshot[c][u] = "locked" => wrong[u] = MAX_ATTEMPTS
        /\ \A c \in Conns : HasFailed(c) => buf[c] \in Seq(Explained)
    BY DEF LockInv, LockNeedsWrong
  <2>b. wrong' = wrong => /\ \A e \in Name : wrong[e] <= wrong'[e]
                          /\ Monotone'
                          /\ account' = account => LockNeedsWrong'
    <3>1. \A e \in Name : wrong[e] \in Nat
      BY <2>0, LimitAssumption
    <3> QED BY <2>a, <3>1 DEF Monotone, LockNeedsWrong
  (* Steps that neither count a wrong password nor change account.txt.     *)
  <2>1. ASSUME NEW c \in Conns, NEW to, pc' = [pc EXCEPT ![c] = to],
               UNCHANGED <<account, wrong>>,
               \A d \in Conns \ {c} : /\ user'[d] = user[d] /\ buf'[d] = buf[d]
                                      /\ snapshot'[d] = snapshot[d] /\ attempts'[d] = attempts[d],
               snapshot'[c] \in {snapshot[c], account, NoAccounts},
               file'.failed \in Seq(Explained),
               to \in WritesFailed \cup ReadsFailed => buf'[c] \in Seq(Explained),
               to \in Counted => pc[c] \in Counted /\ attempts'[c] = attempts[c] /\ user'[c] = user[c],
               to \in Locks => attempts[c] = MAX_ATTEMPTS
        PROVE  LockInv'
    <3>1. pc'[c] = to /\ \A d \in Conns \ {c} : pc'[d] = pc[d]
      BY <2>0, <2>1
    <3>2. \A u \in Users : snapshot'[c][u] = "locked" => wrong'[u] = MAX_ATTEMPTS
      BY <2>1, <2>a DEF NoAccounts
    <3>3. pc'[c] \in Counted => attempts'[c] <= wrong'[user'[c]]
      BY <2>1, <3>1 DEF LockInv
    <3>4. pc'[c] \in Locks => attempts'[c] = MAX_ATTEMPTS
      BY <2>1, <3>1
    <3>5. HasFailed(c)' => buf'[c] \in Seq(Explained)
      BY <2>1, <3>1
    <3> HIDE DEF HasFailed
    <3> QED BY <2>1, <2>b, <3>1, <3>2, <3>3, <3>4, <3>5, LockStep
  <2>2. ASSUME NEW c \in Conns,
               \/ Connect(c) \/ DisconnectIdle(c)
               \/ \E u \in Users : RecvLogin(c, u)
               \/ \E quit \in BOOLEAN : StartRemoval(c, quit)
               \/ LoginRefused(c) \/ LoginWrong(c) \/ LoginRight(c)
               \/ AddNotNeeded(c) \/ AddRead(c) \/ RemoveNotFound(c) \/ RemoveRead(c)
        PROVE  LockInv'
    <3>1. LoginRight(c) \/ LoginWrong(c) => buf'[c] = <<>>
      BY <2>0 DEF LoginRight, LoginWrong, locals, LocalsKnown, HasListed
    <3>2. LoginRight(c) \/ LoginWrong(c) => buf'[c] \in Seq(Explained)
      BY <3>1, EmptyFacts
    <3>3. CASE Connect(c) \/ DisconnectIdle(c) \/ LoginRight(c) \/ LoginWrong(c) \/ LoginRefused(c)
      BY <2>0, <2>a, <2>1, <3>2, <3>3
         DEF Connect, DisconnectIdle, LoginRight, LoginWrong, LoginRefused, Fails, Goto, files, locals, history
    <3>4. CASE (\E u \in Users : RecvLogin(c, u)) \/ (\E quit \in BOOLEAN : StartRemoval(c, quit))
      BY <2>0, <2>a, <2>1, <3>4 DEF RecvLogin, StartRemoval, Begin, Goto, files
    <3>5. CASE AddNotNeeded(c) \/ AddRead(c) \/ RemoveNotFound(c) \/ RemoveRead(c)
      BY <2>0, <2>a, <2>1, <3>5
         DEF AddNotNeeded, AddRead, RemoveNotFound, RemoveRead, Succeeds, Leaves, Prepare, Goto, files, history
    <3> QED BY <2>2, <3>3, <3>4, <3>5
  <2>3. ASSUME NEW c \in Conns, AddFlush(c) \/ DelFlush(c) PROVE LockInv'
    <3>1. file'.failed = file.failed
      BY <2>0, <2>3 DEF AddFlush, DelFlush, Flush
    <3> QED BY <2>0, <2>a, <2>1, <2>3, <3>1 DEF AddFlush, DelFlush, Flush, Succeeds, Leaves, Goto, history
  <2>4. ASSUME NEW c \in Conns, Truncates(c) PROVE LockInv'
    <3>1. file'.failed = <<>> \/ file'.failed = file.failed
      BY <2>0, <2>4 DEF Truncates, Truncate
    <3>2. file'.failed \in Seq(Explained)
      BY <2>a, <3>1, EmptyFacts
    <3> QED BY <2>0, <2>a, <2>1, <2>4, <3>2 DEF Truncates, Truncate, Goto, locals, history
  <2>5. ASSUME NEW c \in Conns, Read(c, "failed") PROVE LockInv'
    <3>1. /\ pc[c] \in ReadsFailed /\ buf' = [buf EXCEPT ![c] = buf[c] \o Behind(buf[c], file.failed)]
          /\ UNCHANGED <<file, account, pc, user, snapshot, attempts, wrong>>
      BY <2>0, <2>5 DEF Read, files, history
    <3>2. buf[c] \o Behind(buf[c], file.failed) \in Seq(Explained)
      BY <2>a, <3>1, ExplainedIsCutClosed, BehindIn
    <3>3. pc' = [pc EXCEPT ![c] = pc[c]]
      BY <2>0, <3>1
    <3> QED BY <2>0, <2>a, <2>1, <3>1, <3>2, <3>3
  <2>6. ASSUME NEW c \in Conns, Read(c, "listed") PROVE LockInv'
    <3>1. /\ pc[c] \in ReadsListed /\ \A d \in Conns \ {c} : buf'[d] = buf[d]
          /\ UNCHANGED <<file, account, pc, user, snapshot, attempts, wrong>>
      BY <2>0, <2>6 DEF Read, files, history
    <3>2. pc' = [pc EXCEPT ![c] = pc[c]]
      BY <2>0, <3>1
    <3> QED BY <2>0, <2>a, <2>1, <3>1, <3>2
  <2>7. ASSUME NEW c \in Conns, SetRead(c) PROVE LockInv'
    <3>1. /\ pc[c] = "setread" /\ buf[c] \in Seq(Explained) /\ user[c] \in Users
          /\ attempts[c] \in 0..MAX_ATTEMPTS /\ attempts[c] <= wrong[user[c]]
          /\ Prepare(c, "setread", WithCount(buf[c], user[c], attempts[c]), "settrunc")
      BY <2>0, <2>a, <2>7 DEF SetRead, Prepare, LocalsKnown, HandlesLogin, LockInv
    <3>2. CountOf(user[c], attempts[c]) \in Explained
      BY <3>1, CountInCount DEF Explained
    <3>3. WithCount(buf[c], user[c], attempts[c]) \in Seq(Explained)
      BY <3>1, <3>2, WithCountIn
    <3> QED BY <2>0, <2>a, <2>1, <3>1, <3>3 DEF Prepare, Goto, files, history
  <2>8. ASSUME NEW c \in Conns, ClearRead(c) PROVE LockInv'
    <3>1. /\ pc[c] = "clearread" /\ buf[c] \in Seq(Explained)
          /\ Prepare(c, "clearread", WithoutUser(buf[c], user[c]), "cleartrunc")
      BY <2>a, <2>8 DEF ClearRead, Prepare
    <3>2. WithoutUser(buf[c], user[c]) \in Seq(Explained)
      BY <3>1, WithoutUserIn
    <3> QED BY <2>0, <2>a, <2>1, <3>1, <3>2 DEF Prepare, Goto, files, history
  <2>9. ASSUME NEW c \in Conns, SetFlush(c) \/ ClearFlush(c) PROVE LockInv'
    <3>1. /\ file' = [file EXCEPT !["failed"] = buf[c] \o Behind(buf[c], file.failed)]
          /\ buf[c] \in Seq(Explained)
      BY <2>0, <2>a, <2>9 DEF SetFlush, ClearFlush, Flush
    <3>2. file'.failed \in Seq(Explained)
      <4>1. buf[c] \o Behind(buf[c], file.failed) \in Seq(Explained)
        BY <2>a, <3>1, ExplainedIsCutClosed, BehindIn
      <4> QED BY <2>0, <3>1, <4>1
    <3>3. attempts[c] >= MAX_ATTEMPTS => attempts[c] = MAX_ATTEMPTS
      BY <2>0, LimitAssumption
    <3>4. CASE SetFlush(c) /\ Goto(c, "locktrunc")
      BY <2>0, <2>1, <3>2, <3>3, <3>4 DEF SetFlush, Flush, Fails, Goto, history
    <3>5. CASE SetFlush(c) /\ Fails(c)
      BY <2>0, <2>1, <3>2, <3>5 DEF SetFlush, Flush, Fails, Goto, history
    <3>6. CASE ClearFlush(c)
      BY <2>0, <2>1, <3>2, <3>6 DEF ClearFlush, Flush, Goto, history
    <3> QED BY <2>9, <3>4, <3>5, <3>6 DEF SetFlush
  <2>10. ASSUME NEW c \in Conns, LockTruncate(c) PROVE LockInv'
    <3>1. /\ pc[c] = "locktrunc" /\ pc'[c] = "lockflush" /\ ~HasFailed(c)'
          /\ account' = NoAccounts /\ \A d \in Conns \ {c} : pc'[d] = pc[d]
          /\ UNCHANGED <<file, user, snapshot, attempts, buf, wrong>>
      BY <2>0, <2>10 DEF LockTruncate, Goto, locals, history
    <3>2. LockNeedsWrong'
      BY <3>1 DEF LockNeedsWrong, NoAccounts
    <3>3. attempts[c] <= wrong[user[c]] /\ attempts[c] = MAX_ATTEMPTS
      BY <3>1 DEF LockInv
    <3> HIDE DEF HasFailed
    <3> QED BY <2>a, <2>b, <3>1, <3>2, <3>3, LockStep
  <2>11. ASSUME NEW c \in Conns, LockFlush(c) PROVE LockInv'
    <3>1. /\ pc[c] = "lockflush" /\ pc'[c] = "recv" /\ ~HasFailed(c)'
          /\ account' = [snapshot[c] EXCEPT ![user[c]] = "locked"]
          /\ snapshot'[c] = NoAccounts /\ UNCHANGED <<file, wrong>> /\ user[c] \in Users
          /\ \A d \in Conns \ {c} : /\ pc'[d] = pc[d] /\ user'[d] = user[d] /\ buf'[d] = buf[d]
                                    /\ snapshot'[d] = snapshot[d] /\ attempts'[d] = attempts[d]
      BY <2>0, <2>11 DEF LockFlush, Fails, Goto, history, LocalsKnown, HandlesLogin
    <3>2. wrong[user[c]] = MAX_ATTEMPTS
      <4>1. attempts[c] <= wrong[user[c]] /\ attempts[c] = MAX_ATTEMPTS
        BY <3>1 DEF LockInv
      <4>2. wrong[user[c]] \in 0..MAX_ATTEMPTS /\ MAX_ATTEMPTS \in Nat
        BY <2>0, <3>1, NameFacts, LimitAssumption
      <4> QED BY <4>1, <4>2
    <3>3. LockNeedsWrong'
      BY <2>0, <2>a, <3>1, <3>2 DEF LockNeedsWrong
    <3> HIDE DEF HasFailed
    <3> QED BY <2>a, <2>b, <3>1, <3>3, LockStep DEF NoAccounts
  (* The count that is written is that of a line read, and one more.       *)
  <2>12. ASSUME NEW c \in Conns, CountFailed(c) PROVE LockInv'
    <3>1. /\ pc[c] = "count" /\ pc'[c] = "setread" /\ user[c] \in Users /\ user[c] \in Name
          /\ buf[c] \in Seq(Explained) /\ buf'[c] = <<>>
          /\ attempts'[c] = Capped(FailedOf(user[c], buf[c]) + 1)
          /\ wrong' = [e \in Name |-> IF e \in Ends(user[c]) THEN Capped(wrong[e] + 1) ELSE wrong[e]]
          /\ UNCHANGED <<file, account, user, snapshot>>
          /\ \A d \in Conns \ {c} : pc'[d] = pc[d] /\ buf'[d] = buf[d] /\ attempts'[d] = attempts[d]
      BY <2>0, <2>a, <2>12, NameFacts DEF CountFailed, Goto, files, LocalsKnown, HandlesLogin
    <3>2. ASSUME NEW m \in 0..MAX_ATTEMPTS, NEW n \in 0..MAX_ATTEMPTS, m <= n
          PROVE  Capped(m + 1) <= Capped(n + 1) /\ m <= Capped(n + 1)
      BY <3>2, LimitAssumption DEF Capped
    <3>3. \A e \in Name : wrong[e] \in 0..MAX_ATTEMPTS /\ wrong[e] <= wrong[e] /\ wrong[e] <= wrong'[e]
      <4>1. \A e \in Name : wrong[e] \in 0..MAX_ATTEMPTS /\ wrong[e] <= wrong[e]
        BY <2>0, LimitAssumption
      <4> QED BY <3>1, <3>2, <4>1
    <3>4. Monotone'
      <4> SUFFICES ASSUME NEW e \in Name, NEW f \in Ends(e) PROVE wrong'[e] <= wrong'[f]
        BY DEF Monotone
      <4>1. f \in Name /\ wrong[e] <= wrong[f] /\ wrong[f] <= wrong'[f]
        BY <2>a, <3>3, NameFacts DEF Monotone
      <4>2. e \in Ends(user[c]) => f \in Ends(user[c])
        <5>1. user[c] \in Seq(Letters)
          BY <3>1, NameFacts
        <5> QED BY <5>1, EndsOfEnds
      <4>3. CASE e \in Ends(user[c])
        BY <3>1, <3>2, <3>3, <4>1, <4>2, <4>3
      <4>4. CASE e \notin Ends(user[c])
        <5>1. wrong'[e] = wrong[e] /\ wrong[e] \in Nat /\ wrong[f] \in Nat /\ wrong'[f] \in Nat
          BY <3>1, <3>3, <4>1, <4>4, LimitAssumption DEF TypeInv, TypeOK
        <5> QED BY <4>1, <5>1
      <4> QED BY <4>3, <4>4
    <3>5. \A u \in Users : wrong[u] = MAX_ATTEMPTS => wrong'[u] = MAX_ATTEMPTS
      <4> SUFFICES ASSUME NEW u \in Users, wrong[u] = MAX_ATTEMPTS PROVE wrong'[u] = MAX_ATTEMPTS
        OBVIOUS
      <4>1. u \in Name /\ wrong'[u] \in 0..MAX_ATTEMPTS /\ wrong[u] <= wrong'[u] /\ MAX_ATTEMPTS \in Nat
        BY <3>3, NameFacts, LimitAssumption DEF TypeInv, TypeOK
      <4> QED BY <4>1
    <3>6. attempts'[c] <= wrong'[user[c]]
      <4>1. FailedOf(user[c], buf[c]) \in 0..MAX_ATTEMPTS /\ FailedOf(user[c], buf[c]) <= wrong[user[c]]
        <5>1. Explained \in SUBSET Count /\ wrong[user[c]] \in Nat
          BY <3>1, <3>3, LimitAssumption DEF Explained
        <5>2. CASE FailedOf(user[c], buf[c]) = 0
          BY <5>1, <5>2, CountsAreNumbers
        <5>3. ASSUME NEW x \in Explained, x.user = user[c], FailedOf(user[c], buf[c]) = x.n
              PROVE  FailedOf(user[c], buf[c]) \in 0..MAX_ATTEMPTS /\ FailedOf(user[c], buf[c]) <= wrong[user[c]]
          BY <5>3 DEF Explained, Count
        <5> QED BY <3>1, <5>1, <5>2, <5>3, FailedOfIn
      <4>2. user[c] \in Ends(user[c])
        BY <3>1, NameFacts
      <4> QED BY <3>1, <3>2, <3>3, <4>1, <4>2
    <3>7. LockNeedsWrong' /\ \A u \in Users : snapshot'[c][u] = "locked" => wrong'[u] = MAX_ATTEMPTS
      BY <2>a, <3>1, <3>5 DEF LockNeedsWrong
    <3> HIDE DEF HasFailed
    <3> QED BY <2>a, <3>1, <3>3, <3>4, <3>6, <3>7, EmptyFacts, LockStep
  <2>13. CASE UNCHANGED vars
    BY <2>13 DEF vars, LockInv, LockNeedsWrong, Monotone, Explained
  <2> QED
    BY <2>2, <2>3, <2>4, <2>5, <2>6, <2>7, <2>8, <2>9, <2>10, <2>11, <2>12, <2>13 DEF Next, Client, Child
<1> QED BY <1>1, <1>2, TypeInductive, PTL DEF Spec

(* However many children count at a time, and whatever they cut: nobody    *)
(* gets locked for fewer wrong passwords than the limit.                   *)
THEOREM LocksAreEarned == Spec => []LockNeedsWrong
<1>1. LockInv => LockNeedsWrong
  BY DEF LockInv
<1> QED BY <1>1, LockInductive, PTL

----
(* account.txt is whole, or empty while some child is rewriting it; the    *)
(* copy a child may write back was read when it was whole.                 *)
AccountsInv ==
    /\ (\A u \in Users : account[u] # "missing") \/ (\E c \in Conns : pc[c] = "lockflush")
    /\ account = NoAccounts \/ \A u \in Users : account[u] # "missing"
    /\ \A c \in Conns : pc[c] \in {"count", "setread", "settrunc", "setflush", "locktrunc", "lockflush"} =>
          \A u \in Users : snapshot[c][u] # "missing"

(* A child that was stopped while the file was empty never writes that     *)
(* back: no account is lost.                                               *)
THEOREM NoAccountIsLost == Spec => []AccountsSurvive
<1>1. Init => AccountsInv
  BY DEF Init, AccountsInv
<1>2. TypeInv /\ AccountsInv /\ [Next]_vars => AccountsInv'
  <2> SUFFICES ASSUME TypeInv, AccountsInv, [Next]_vars PROVE AccountsInv'
    OBVIOUS
  <2>0. /\ pc \in [Conns -> PCs] /\ snapshot \in [Conns -> [Users -> Status]]
        /\ account \in [Users -> Status] /\ \A c \in Conns : LocalsKnown(c)
    BY DEF TypeInv, TypeOK
  <2>1. ASSUME NEW c \in Conns, NEW to, pc' = [pc EXCEPT ![c] = to],
               to \in {"count", "setread", "settrunc", "setflush", "locktrunc"} =>
                  pc[c] \in {"count", "setread", "settrunc", "setflush"},
               to # "lockflush", pc[c] # "lockflush", UNCHANGED account,
               \A d \in Conns \ {c} : snapshot'[d] = snapshot[d],
               to \in {"count", "setread", "settrunc", "setflush", "locktrunc"} => snapshot'[c] = snapshot[c]
        PROVE  AccountsInv'
    <3>1. pc'[c] = to /\ \A d \in Conns \ {c} : pc'[d] = pc[d]
      BY <2>0, <2>1
    <3> QED BY <2>1, <3>1 DEF AccountsInv
  <2>2. ASSUME NEW c \in Conns,
               \/ Connect(c) \/ DisconnectIdle(c)
               \/ \E u \in Users : RecvLogin(c, u)
               \/ \E quit \in BOOLEAN : StartRemoval(c, quit)
               \/ LoginRight(c) \/ AddNotNeeded(c) \/ AddRead(c) \/ AddFlush(c)
               \/ RemoveNotFound(c) \/ RemoveRead(c) \/ DelFlush(c) \/ ClearRead(c) \/ ClearFlush(c)
        PROVE  AccountsInv'
    BY <2>0, <2>1, <2>2
       DEF Connect, DisconnectIdle, RecvLogin, StartRemoval, Begin, LoginRight, AddNotNeeded, AddRead,
           AddFlush, RemoveNotFound, RemoveRead, DelFlush, ClearRead, ClearFlush, Flush, Succeeds,
           Leaves, Prepare, Goto, files, locals, history
  <2>3. ASSUME NEW c \in Conns, CountFailed(c) \/ SetRead(c) \/ Truncates(c) PROVE AccountsInv'
    BY <2>0, <2>1, <2>3
       DEF CountFailed, SetRead, Prepare, Truncates, Truncate, Goto, files, locals, history
  <2>4. ASSUME NEW c \in Conns, LoginRefused(c) PROVE AccountsInv'
    BY <2>0, <2>1, <2>4 DEF LoginRefused, Fails, Goto, files, history
  <2>5. ASSUME NEW c \in Conns, SetFlush(c) PROVE AccountsInv'
    BY <2>0, <2>1, <2>5 DEF SetFlush, Flush, Fails, Goto, files, history
  <2>6. ASSUME NEW c \in Conns, LoginWrong(c) PROVE AccountsInv'
    <3>1. /\ pc[c] = "accounts" /\ pc' = [pc EXCEPT ![c] = "count"] /\ account' = account
          /\ snapshot' = [snapshot EXCEPT ![c] = account]
          /\ user[c] \in Users /\ account[user[c]] = "active"
      BY <2>0, <2>6 DEF LoginWrong, Goto, files, LocalsKnown, HandlesLogin
    <3>2. \A u \in Users : account[u] # "missing"
      BY <3>1 DEF AccountsInv, NoAccounts
    <3> QED BY <2>0, <3>1, <3>2 DEF AccountsInv
  <2>7. ASSUME NEW c \in Conns, LockTruncate(c) PROVE AccountsInv'
    <3>1. /\ pc[c] = "locktrunc" /\ pc' = [pc EXCEPT ![c] = "lockflush"]
          /\ account' = NoAccounts /\ snapshot' = snapshot
      BY <2>7 DEF LockTruncate, Goto, locals
    <3> QED BY <2>0, <3>1 DEF AccountsInv
  <2>8. ASSUME NEW c \in Conns, LockFlush(c) PROVE AccountsInv'
    <3>1. /\ pc[c] = "lockflush" /\ pc' = [pc EXCEPT ![c] = "recv"]
          /\ account' = [snapshot[c] EXCEPT ![user[c]] = "locked"]
          /\ snapshot' = [snapshot EXCEPT ![c] = NoAccounts]
          /\ snapshot[c] \in [Users -> Status]
      BY <2>0, <2>8 DEF LockFlush, Fails, Goto
    <3>2. \A u \in Users : account'[u] # "missing"
      BY <3>1 DEF AccountsInv
    <3> QED BY <2>0, <3>1, <3>2 DEF AccountsInv
  <2>9. CASE \/ UNCHANGED vars
             \/ \E c \in Conns : Read(c, "failed") \/ Read(c, "listed")
    BY <2>9 DEF vars, Read, files, AccountsInv
  <2> QED
    BY <2>2, <2>3, <2>4, <2>5, <2>6, <2>7, <2>8, <2>9 DEF Next, Client, Child
<1>3. AccountsInv => AccountsSurvive
  BY DEF AccountsInv, AccountsSurvive
<1> QED BY <1>1, <1>2, <1>3, TypeInductive, PTL DEF Spec

----
(* What is left of a line that was granted is left of a granted userid:    *)
(* such lines are all that a child reads of logged_in.txt, or writes there *)
(* once its password was checked.                                          *)
Granted ==
    {x \in Entry : x.user # <<>> => \E g \in granted : g.conn = x.conn /\ x.user \in Ends(g.user)}

Checked == {"clearread", "cleartrunc", "clearflush", "addread", "addtrunc", "addflush"}

GrantInv ==
    /\ file.listed \in Seq(Granted)
    /\ \A c \in Conns : HasListed(c) => buf[c] \in Seq(Granted)
    /\ \A c \in Conns : pc[c] \in Checked => EntryOf(user[c], c) \in granted

LEMMA GrantedIsCutClosed ==
    ASSUME TypeInv
    PROVE  CutClosed(Granted)
<1> SUFFICES ASSUME NEW x \in Granted
             PROVE  /\ Width(x) \in Nat \ {0} /\ Cut(x, 0) = x
                    /\ \A k \in 0..(Width(x) - 1) : Cut(x, k) \in Granted
  BY DEF CutClosed
<1>1. x \in Entry /\ x.user \in Seq(Letters)
  BY NameFacts DEF Granted, Entry
<1>2. ASSUME NEW k \in 0..(Width(x) - 1) PROVE Cut(x, k) \in Granted
  <2>1. Cut(x, k) \in Entry /\ Cut(x, k).conn = x.conn /\ Cut(x, k).user \in Ends(x.user)
    BY <1>1, CutEntry
  <2>2. SUFFICES ASSUME Cut(x, k).user # <<>>
                 PROVE  \E g \in granted : g.conn = Cut(x, k).conn /\ Cut(x, k).user \in Ends(g.user)
    BY <2>1 DEF Granted
  <2>3. x.user # <<>>
    <3>1. Cut(x, k).user \in Seq(Letters) /\ Len(Cut(x, k).user) <= Len(x.user)
      BY <1>1, <2>1, EndsOfEnds
    <3>2. Len(Cut(x, k).user) \in Nat \ {0} /\ Len(x.user) \in Nat
      BY <1>1, <2>2, <3>1, EmptySeq
    <3> QED BY <3>1, <3>2, EmptySeq
  <2>4. PICK g \in granted : g.conn = x.conn /\ x.user \in Ends(g.user)
    BY <2>3 DEF Granted
  <2>5. g.user \in Seq(Letters)
    BY NameFacts DEF TypeInv, TypeOK, Entry
  <2>6. Ends(x.user) \subseteq Ends(g.user)
    BY <2>4, <2>5, EndsOfEnds
  <2> QED BY <2>1, <2>4, <2>6
<1> QED BY <1>1, <1>2, CutEntry

(* A step of child c: what it has to keep.                                 *)
LEMMA GrantStep ==
    ASSUME GrantInv, NEW c \in Conns, granted \subseteq granted',
           \A d \in Conns \ {c} : pc'[d] = pc[d] /\ user'[d] = user[d] /\ buf'[d] = buf[d],
           file'.listed \in Seq(Granted),
           HasListed(c)' => buf'[c] \in Seq(Granted),
           pc'[c] \in Checked => EntryOf(user'[c], c) \in granted'
    PROVE  GrantInv'
<1>1. Granted \subseteq Granted'
  BY DEF Granted
<1>2. ASSUME NEW s, s \in Seq(Granted) PROVE s \in Seq(Granted')
  <2> DEFINE G == Granted'
  <2>1. Granted \subseteq G
    BY <1>1
  <2> HIDE DEF G
  <2>2. s \in Seq(G)
    BY <1>2, <2>1, SeqOfSubset
  <2> QED BY <2>2 DEF G
<1>3. \A d \in Conns : HasListed(d)' => buf'[d] \in Seq(Granted')
  <2> SUFFICES ASSUME NEW d \in Conns, HasListed(d)' PROVE buf'[d] \in Seq(Granted')
    OBVIOUS
  <2>1. CASE d = c
    BY <1>2, <2>1
  <2>2. CASE d # c
    <3>1. HasListed(d) /\ buf'[d] = buf[d]
      BY <2>2 DEF HasListed
    <3>2. buf[d] \in Seq(Granted)
      BY <3>1 DEF GrantInv
    <3> QED BY <1>2, <3>1, <3>2
  <2> QED BY <2>1, <2>2
<1>4. \A d \in Conns : pc'[d] \in Checked => EntryOf(user'[d], d) \in granted'
  BY DEF GrantInv
<1>5. file'.listed \in Seq(Granted')
  BY <1>2
<1> QED BY <1>3, <1>4, <1>5 DEF GrantInv

(* Whoever logged_in.txt names is what is left of somebody who gave the    *)
(* right password there, whatever the children write over each other.      *)
THEOREM ListedAreGranted == Spec => []AuthenticatedOnly
<1> USE DEF ReadsFailed, ReadsListed, WritesFailed, WritesListed, HasListed, Checked
<1>1. Init => GrantInv
  BY EmptyFacts DEF Init, GrantInv
<1>2. TypeInv /\ TypeInv' /\ GrantInv /\ [Next]_vars => GrantInv'
  <2> SUFFICES ASSUME TypeInv, TypeInv', GrantInv, [Next]_vars PROVE GrantInv'
    OBVIOUS
  <2>0. /\ file \in [failed : Seq(Count), listed : Seq(Entry)]
        /\ pc \in [Conns -> PCs] /\ user \in [Conns -> Users \cup {None}]
        /\ buf \in [Conns -> Seq(Count) \cup Seq(Entry)]
        /\ \A c \in Conns : LocalsKnown(c)
    BY DEF TypeInv, TypeOK
  <2>a. /\ file.listed \in Seq(Granted) /\ <<>> \in Seq(Granted)
        /\ \A c \in Conns : HasListed(c) => buf[c] \in Seq(Granted)
    BY EmptyFacts DEF GrantInv
  (* Steps that do not give anybody the right to be listed.                *)
  <2>1. ASSUME NEW c \in Conns, NEW to, pc' = [pc EXCEPT ![c] = to], granted' = granted,
               \A d \in Conns \ {c} : user'[d] = user[d] /\ buf'[d] = buf[d],
               file'.listed \in Seq(Granted),
               to \in ReadsListed \cup WritesListed => buf'[c] \in Seq(Granted),
               to \in Checked => pc[c] \in Checked /\ user'[c] = user[c]
        PROVE  GrantInv'
    <3>1. pc'[c] = to /\ \A d \in Conns \ {c} : pc'[d] = pc[d]
      BY <2>0, <2>1
    <3>2. HasListed(c)' => buf'[c] \in Seq(Granted)
      BY <2>1, <3>1
    <3>3. pc'[c] \in Checked => EntryOf(user'[c], c) \in granted'
      BY <2>1, <3>1 DEF GrantInv
    <3> HIDE DEF HasListed
    <3> QED BY <2>1, <3>1, <3>2, <3>3, GrantStep
  <2>2. ASSUME NEW c \in Conns,
               \/ Connect(c) \/ DisconnectIdle(c)
               \/ \E u \in Users : RecvLogin(c, u)
               \/ LoginRefused(c) \/ LoginWrong(c) \/ CountFailed(c) \/ SetRead(c)
               \/ LockTruncate(c) \/ LockFlush(c) \/ ClearRead(c)
               \/ AddNotNeeded(c) \/ RemoveNotFound(c)
        PROVE  GrantInv'
    BY <2>0, <2>a, <2>1, <2>2
       DEF Connect, DisconnectIdle, RecvLogin, Begin, LoginRefused, LoginWrong,
           CountFailed, SetRead, LockTruncate, LockFlush, ClearRead, AddNotNeeded, RemoveNotFound,
           Fails, Succeeds, Leaves, Prepare, Goto, files, locals, history
  <2>3. ASSUME NEW c \in Conns, \E quit \in BOOLEAN : StartRemoval(c, quit) PROVE GrantInv'
    <3>1. pc[c] = "recv" /\ buf' = buf /\ buf[c] = <<>>
      BY <2>0, <2>3 DEF StartRemoval, LocalsKnown, HasFailed
    <3> QED BY <2>0, <2>a, <2>1, <2>3, <3>1 DEF StartRemoval, Begin, Goto, files
  <2>4. ASSUME NEW c \in Conns, SetFlush(c) \/ ClearFlush(c) PROVE GrantInv'
    <3>1. file'.listed = file.listed
      BY <2>0, <2>4 DEF SetFlush, ClearFlush, Flush
    <3>2. file'.listed \in Seq(Granted)
      BY <2>a, <3>1
    <3>3. CASE SetFlush(c)
      BY <2>0, <2>1, <3>2, <3>3 DEF SetFlush, Flush, Fails, Goto, history
    <3>4. CASE ClearFlush(c)
      BY <2>0, <2>a, <2>1, <3>2, <3>4 DEF ClearFlush, Flush, Goto, history
    <3> QED BY <2>4, <3>3, <3>4
  <2>5. ASSUME NEW c \in Conns, LoginRight(c) PROVE GrantInv'
    <3>1. /\ pc'[c] = "clearread" /\ ~HasListed(c)'
          /\ granted' = granted \cup {EntryOf(user[c], c)}
          /\ \A d \in Conns \ {c} : pc'[d] = pc[d]
          /\ UNCHANGED <<file, user, buf>>
      BY <2>0, <2>5 DEF LoginRight, Goto, files, locals
    <3> HIDE DEF HasListed
    <3> QED BY <2>a, <3>1, GrantStep
  <2>6. ASSUME NEW c \in Conns, Read(c, "failed") PROVE GrantInv'
    <3>1. /\ pc[c] \in ReadsFailed /\ \A d \in Conns \ {c} : buf'[d] = buf[d]
          /\ UNCHANGED <<file, pc, user, granted>>
      BY <2>0, <2>6 DEF Read, files, history
    <3>2. pc' = [pc EXCEPT ![c] = pc[c]]
      BY <2>0, <3>1
    <3> QED BY <2>0, <2>a, <2>1, <3>1, <3>2
  <2>7. ASSUME NEW c \in Conns, Read(c, "listed") PROVE GrantInv'
    <3>1. /\ pc[c] \in ReadsListed /\ buf' = [buf EXCEPT ![c] = buf[c] \o Behind(buf[c], file.listed)]
          /\ UNCHANGED <<file, pc, user, granted>>
      BY <2>0, <2>7 DEF Read, files, history
    <3>2. buf[c] \o Behind(buf[c], file.listed) \in Seq(Granted)
      BY <2>a, <3>1, GrantedIsCutClosed, BehindIn
    <3>3. pc' = [pc EXCEPT ![c] = pc[c]]
      BY <2>0, <3>1
    <3> QED BY <2>0, <2>a, <2>1, <3>1, <3>2, <3>3
  <2>8. ASSUME NEW c \in Conns, Truncates(c) PROVE GrantInv'
    <3>1. file'.listed = <<>> \/ file'.listed = file.listed
      BY <2>0, <2>8 DEF Truncates, Truncate
    <3>2. file'.listed \in Seq(Granted)
      BY <2>a, <3>1
    <3> QED BY <2>0, <2>a, <2>1, <2>8, <3>2 DEF Truncates, Truncate, Goto, locals, history
  <2>9. ASSUME NEW c \in Conns, AddRead(c) PROVE GrantInv'
    <3>1. /\ pc[c] = "addread" /\ buf[c] \in Seq(Granted) /\ user[c] \in Users
          /\ EntryOf(user[c], c) \in granted
          /\ Prepare(c, "addread", Append(Listed(buf[c]), EntryOf(user[c], c)), "addtrunc")
      BY <2>0, <2>a, <2>9 DEF AddRead, Prepare, LocalsKnown, HandlesLogin, GrantInv
    <3>2. EntryOf(user[c], c) \in Granted
      <4>1. /\ EntryOf(user[c], c) \in Entry /\ EntryOf(user[c], c).user = user[c]
            /\ user[c] \in Ends(user[c])
        BY <3>1, EntryInEntry, NameFacts
      <4> QED BY <3>1, <4>1 DEF Granted
    <3>3. Append(Listed(buf[c]), EntryOf(user[c], c)) \in Seq(Granted)
      BY <3>1, <3>2, ListedIn, AppendToSet
    <3> QED BY <2>0, <2>a, <2>1, <3>1, <3>3 DEF Prepare, Goto, files, history
  <2>10. ASSUME NEW c \in Conns, RemoveRead(c) PROVE GrantInv'
    <3>1. /\ pc[c] = "delread" /\ buf[c] \in Seq(Granted)
          /\ Contains(Listed(buf[c]), EntryOf(session[c], c))
          /\ Prepare(c, "delread", RemoveFirst(Listed(buf[c]), EntryOf(session[c], c)), "deltrunc")
      BY <2>a, <2>10 DEF RemoveRead, Prepare
    <3>2. RemoveFirst(Listed(buf[c]), EntryOf(session[c], c)) \in Seq(Granted)
      BY <3>1, ListedIn, RemoveFirstIsRemoveAt, RemoveAtProperties
    <3> QED BY <2>0, <2>a, <2>1, <3>1, <3>2 DEF Prepare, Goto, files, history
  <2>11. ASSUME NEW c \in Conns, AddFlush(c) \/ DelFlush(c) PROVE GrantInv'
    <3>1. /\ file' = [file EXCEPT !["listed"] = buf[c] \o Behind(buf[c], file.listed)]
          /\ buf[c] \in Seq(Granted)
      BY <2>0, <2>a, <2>11 DEF AddFlush, DelFlush, Flush
    <3>2. file'.listed \in Seq(Granted)
      <4>1. buf[c] \o Behind(buf[c], file.listed) \in Seq(Granted)
        BY <2>a, <3>1, GrantedIsCutClosed, BehindIn
      <4> QED BY <2>0, <3>1, <4>1
    <3> QED BY <2>0, <2>a, <2>1, <2>11, <3>2 DEF AddFlush, DelFlush, Flush, Succeeds, Leaves, Goto, history
  <2>12. CASE UNCHANGED vars
    BY <2>12 DEF vars, GrantInv, Granted
  <2> QED
    BY <2>2, <2>3, <2>4, <2>5, <2>6, <2>7, <2>8, <2>9, <2>10, <2>11, <2>12 DEF Next, Client, Child
<1>3. GrantInv => AuthenticatedOnly
  <2> SUFFICES ASSUME GrantInv, NEW x \in ToSet(file.listed) PROVE x \in Granted
    BY DEF AuthenticatedOnly, Granted
  <2> QED BY ElementOfSeq, LenProperties DEF GrantInv, ToSet
<1> QED BY <1>1, <1>2, <1>3, TypeInductive, PTL DEF Spec

----
(* The entries logged_in.txt should have, and what a list of lines has to  *)
(* be: each session once, with or without one entry.                       *)
Sessions == {EntryOf(session[c], c) : c \in {d \in Conns : session[d] # None}}
Lists(s) == IsInjective(s) /\ \A e : e \in ToSet(s) <=> e \in Sessions
ListsWith(s, x) == IsInjective(s) /\ \A e : e \in ToSet(s) <=> e \in Sessions \/ e = x
ListsWithout(s, x) == IsInjective(s) /\ \A e : e \in ToSet(s) <=> e \in Sessions /\ e # x

Alone == ~overlap /\ Cardinality(Conns) <= MAX_LISTED

(* At most one child is busy; what it has in its buffer is right, and the  *)
(* file is empty while it rewrites it.                                     *)
AlonePhase(c) ==
    /\ pc[c] \in ReadsListed => buf[c] \in {<<>>, file.listed}
    /\ pc[c] \in {"addtrunc", "addflush"} => ListsWith(buf[c], EntryOf(user[c], c))
    /\ pc[c] \in {"deltrunc", "delflush"} => ListsWithout(buf[c], EntryOf(session[c], c))
    /\ pc[c] \in {"addflush", "delflush"} => file.listed = <<>>

AloneInv ==
    Alone => /\ \A c, d \in Conns : pc[c] \notin Idle /\ pc[d] \notin Idle => c = d
             /\ (\A c \in Conns : pc[c] \notin {"addflush", "delflush"}) => Lists(file.listed)
             /\ \A c \in Conns : AlonePhase(c)

(* The entry of a session is its own: no two sessions share one.           *)
LEMMA OwnEntry ==
    /\ \A e : e \in Sessions <=> \E c \in Conns : session[c] # None /\ e = EntryOf(session[c], c)
    /\ \A e \in Sessions : e.conn \in Conns /\ session[e.conn] # None /\ e = EntryOf(session[e.conn], e.conn)
BY DEF Sessions, EntryOf

(* A list of different entries of different connections is no longer than  *)
(* there are connections.                                                  *)
LEMMA ListFits ==
    ASSUME NEW s \in Seq(Entry), IsInjective(s), NEW C \in SUBSET Conns,
           \A e \in ToSet(s) : e.conn \in C,
           \A e, f \in ToSet(s) : e.conn = f.conn => e = f
    PROVE  Len(s) <= Cardinality(C)
<1> DEFINE conn == [i \in 1..Len(s) |-> s[i].conn]
<1>1. Len(s) \in Nat /\ DOMAIN s = 1..Len(s) /\ \A i \in 1..Len(s) : s[i] \in ToSet(s)
  BY LenProperties DEF ToSet
<1>2. conn \in Injection(1..Len(s), C)
  BY <1>1 DEF Injection, IsInjective
<1>3. IsFiniteSet(C)
  BY ConnsAssumption, FS_Subset
<1>4. Cardinality(1..Len(s)) <= Cardinality(C)
  BY <1>2, <1>3, FS_Injection
<1>5. Cardinality(1..Len(s)) = Len(s)
  BY <1>1, FS_Interval
<1> QED BY <1>4, <1>5

(* A child that is at the end of the file has read the list.              *)
LEMMA WholeRead ==
    ASSUME NEW c \in Conns, file.listed \in Seq(Entry), buf[c] \in {<<>>, file.listed},
           AtEnd(c, "listed"), \A x \in ToSet(file.listed) : x.user # <<>>,
           Len(file.listed) <= MAX_LISTED
    PROVE  Listed(buf[c]) = file.listed
<1>1. Behind(<<>>, file.listed) = file.listed
  BY LinesAreCutClosed, BehindWhole
<1>2. buf[c] = file.listed
  BY <1>1 DEF AtEnd
<1> QED BY <1>2, ListedIn

(* A step of child c that changes neither the list nor the sessions.       *)
LEMMA AloneStep ==
    ASSUME AloneInv, NEW c \in Conns, overlap => overlap',
           session' = session, file'.listed = file.listed,
           \A d \in Conns \ {c} : pc'[d] = pc[d] /\ user'[d] = user[d] /\ buf'[d] = buf[d],
           Alone' /\ pc'[c] \notin Idle => \A d \in Conns \ {c} : pc[d] \in Idle,
           pc[c] \notin {"addflush", "delflush"}, pc'[c] \notin WritesListed,
           Alone /\ pc'[c] \in ReadsListed => buf'[c] \in {<<>>, file.listed}
    PROVE  AloneInv'
<1> SUFFICES ASSUME Alone' PROVE AloneInv'
  BY DEF AloneInv
<1>1. Alone
  BY DEF Alone
<1>2. /\ \A a, d \in Conns : pc[a] \notin Idle /\ pc[d] \notin Idle => a = d
      /\ (\A a \in Conns : pc[a] \notin {"addflush", "delflush"}) => Lists(file.listed)
      /\ \A a \in Conns : AlonePhase(a)
  BY <1>1 DEF AloneInv
<1>3. \A a, d \in Conns : pc'[a] \notin Idle /\ pc'[d] \notin Idle => a = d
  BY <1>2
<1>4. ASSUME \A a \in Conns : pc'[a] \notin {"addflush", "delflush"}
      PROVE  Lists(file.listed)'
  <2>1. Lists(file.listed)
    BY <1>2, <1>4
  <2> QED BY <2>1 DEF Lists, Sessions
<1>5. ASSUME NEW a \in Conns PROVE AlonePhase(a)'
  <2>1. CASE a = c
    BY <1>1, <2>1 DEF AlonePhase, WritesListed
  <2>2. CASE a # c
    <3>1. AlonePhase(a)
      BY <1>2
    <3> QED BY <2>2, <3>1 DEF AlonePhase, ListsWith, ListsWithout, Sessions
  <2> QED BY <2>1, <2>2
<1> QED BY <1>3, <1>4, <1>5 DEF AloneInv

(* While one child at a time is busy, logged_in.txt is exact: every        *)
(* session once, and nothing else.                                         *)
THEOREM AloneTheListIsRight == Spec => []ListRightWhenAlone
<1> USE DEF ReadsFailed, ReadsListed, WritesFailed, WritesListed, HasFailed, HasListed
<1>1. Init => AloneInv
  <2> SUFFICES ASSUME Init PROVE AloneInv
    OBVIOUS
  <2>1. Lists(file.listed)
    <3>1. file.listed = <<>> /\ \A c \in Conns : session[c] = None
      BY DEF Init
    <3> QED BY <3>1, EmptyFacts DEF Lists, Sessions
  <2> QED BY <2>1 DEF Init, AloneInv, AlonePhase, Idle
<1>2. TypeInv /\ AloneInv /\ [Next]_vars => AloneInv'
  <2> SUFFICES ASSUME TypeInv, AloneInv, [Next]_vars PROVE AloneInv'
    OBVIOUS
  <2>0. /\ file.failed \in Seq(Count) /\ file.listed \in Seq(Entry)
        /\ file \in [failed : Seq(Count), listed : Seq(Entry)]
        /\ pc \in [Conns -> PCs] /\ user \in [Conns -> Users \cup {None}]
        /\ buf \in [Conns -> Seq(Count) \cup Seq(Entry)]
        /\ session \in [Conns -> Users \cup {None}] /\ overlap \in BOOLEAN
        /\ \A c \in Conns : LocalsKnown(c)
    BY DEF TypeInv, TypeOK
  <2>a. ASSUME NEW c \in Conns, Alone, pc[c] \notin Idle
        PROVE  /\ \A d \in Conns \ {c} : pc[d] \in Idle
               /\ pc[c] \notin {"addflush", "delflush"} => Lists(file.listed)
               /\ AlonePhase(c)
    <3>1. /\ \A d \in Conns \ {c} : pc[d] \in Idle
          /\ AlonePhase(c)
      BY <2>a DEF AloneInv
    <3>2. ASSUME pc[c] \notin {"addflush", "delflush"} PROVE Lists(file.listed)
      <4>1. \A d \in Conns : pc[d] \notin {"addflush", "delflush"}
        BY <3>1, <3>2 DEF Idle
      <4> QED BY <2>a, <4>1 DEF AloneInv
    <3> QED BY <3>1, <3>2
  (* All that the child reads is the list, and the list has room.          *)
  <2>b. ASSUME NEW c \in Conns, Alone, pc[c] \in ReadsListed, AtEnd(c, "listed")
        PROVE  /\ Listed(buf[c]) \in Seq(Entry) /\ Lists(Listed(buf[c]))
               /\ pc[c] = "addread" =>
                    EntryOf(user[c], c) \notin Sessions /\ Len(Listed(buf[c])) < MAX_LISTED
               /\ pc[c] = "delread" => EntryOf(session[c], c) \in Sessions
    <3> DEFINE s == file.listed
               lines == Listed(buf[c])
    <3>1. s \in Seq(Entry) /\ buf[c] \in {<<>>, s} /\ Lists(s)
      BY <2>0, <2>a, <2>b DEF AlonePhase, Idle
    <3>2. Cardinality(Conns) \in Nat /\ MAX_LISTED \in Nat /\ Len(s) \in Nat
          /\ Cardinality(Conns) <= MAX_LISTED
      BY <2>b, <3>1, ConnsAssumption, FS_CardinalityType, LimitAssumption, LenProperties DEF Alone
    <3>3. /\ IsInjective(s)
          /\ \A e \in ToSet(s) : e.conn \in Conns
          /\ \A e, f \in ToSet(s) : e.conn = f.conn => e = f
          /\ \A e \in ToSet(s) : session[e.conn] # None
      BY <3>1, OwnEntry DEF Lists
    <3>4. Len(s) <= Cardinality(Conns)
      BY <3>1, <3>3, ListFits
    <3>5. lines = s
      <4>1. \A e \in ToSet(s) : e.user # <<>>
        <5>1. \A d \in Conns : session[d] # None => session[d] # <<>>
          BY <2>0, NameFacts
        <5> QED BY <3>1, <5>1, OwnEntry DEF Lists, EntryOf
      <4>2. Len(s) <= MAX_LISTED
        BY <3>2, <3>4
      <4> HIDE DEF s, lines
      <4>3. Listed(buf[c]) = file.listed
        BY <2>0, <2>b, <3>1, <4>1, <4>2, WholeRead DEF s
      <4> QED BY <4>3 DEF s, lines
    <3>6. ASSUME pc[c] = "addread"
          PROVE  EntryOf(user[c], c) \notin Sessions /\ Len(lines) < MAX_LISTED
      <4>1. session[c] = None
        BY <2>0, <3>6 DEF LocalsKnown, HandlesLogin
      <4>2. EntryOf(user[c], c) \notin Sessions
        BY <4>1, OwnEntry DEF EntryOf
      <4>3. Conns \ {c} \in SUBSET Conns /\ \A e \in ToSet(s) : e.conn \in Conns \ {c}
        BY <3>3, <4>1
      <4>4. Len(s) <= Cardinality(Conns \ {c})
        BY <3>1, <3>3, <4>3, ListFits
      <4>5. Cardinality(Conns \ {c}) = Cardinality(Conns) - 1
        BY ConnsAssumption, FS_RemoveElement
      <4> QED BY <3>2, <3>5, <4>2, <4>4, <4>5
    <3>7. ASSUME pc[c] = "delread" PROVE EntryOf(session[c], c) \in Sessions
      <4>1. session[c] # None
        BY <2>0, <3>7, NameFacts DEF LocalsKnown, Removes
      <4> QED BY <4>1, OwnEntry
    <3> QED BY <3>1, <3>5, <3>6, <3>7
  (* Steps of the client.                                                  *)
  <2>1. ASSUME NEW c \in Conns, Connect(c) \/ DisconnectIdle(c) PROVE AloneInv'
    <3>1. /\ pc[c] \in {"free", "recv"} /\ pc'[c] \in Idle
          /\ pc'[c] \notin WritesListed \cup ReadsListed
          /\ \A d \in Conns \ {c} : pc'[d] = pc[d]
          /\ UNCHANGED <<overlap, session, file, user, buf>>
      BY <2>0, <2>1 DEF Connect, DisconnectIdle, Goto, files, locals, history, Idle
    <3> QED BY <3>1, AloneStep
  <2>2. ASSUME NEW c \in Conns,
               (\E u \in Users : RecvLogin(c, u)) \/ (\E quit \in BOOLEAN : StartRemoval(c, quit))
        PROVE  AloneInv'
    <3>1. /\ pc[c] = "recv" /\ pc'[c] \in {"accounts", "delread"}
          /\ overlap' = (overlap \/ \E d \in Conns \ {c} : pc[d] \notin Idle)
          /\ \A d \in Conns \ {c} : pc'[d] = pc[d] /\ user'[d] = user[d]
          /\ UNCHANGED <<session, file, buf>>
      BY <2>0, <2>2 DEF RecvLogin, StartRemoval, Begin, Goto, files
    <3>2. buf[c] = <<>>
      BY <2>0, <3>1 DEF LocalsKnown
    <3>3. Alone' => \A d \in Conns \ {c} : pc[d] \in Idle
      BY <3>1 DEF Alone
    <3> QED BY <3>1, <3>2, <3>3, AloneStep
  (* Steps of a child that leave the list and its session alone.           *)
  <2>3. ASSUME NEW c \in Conns, NEW to,
               pc[c] \notin Idle, pc[c] \notin {"addflush", "delflush"},
               pc' = [pc EXCEPT ![c] = to], to \notin WritesListed,
               Alone /\ to \in ReadsListed => buf'[c] \in {<<>>, file.listed},
               \A d \in Conns \ {c} : user'[d] = user[d] /\ buf'[d] = buf[d],
               file'.listed = file.listed, UNCHANGED <<session, overlap>>
        PROVE  AloneInv'
    <3>1. pc'[c] = to /\ \A d \in Conns \ {c} : pc'[d] = pc[d]
      BY <2>0, <2>3
    <3>2. Alone' => Alone
      BY <2>3 DEF Alone
    <3>3. Alone' => \A d \in Conns \ {c} : pc[d] \in Idle
      BY <2>a, <2>3, <3>2
    <3> QED BY <2>3, <3>1, <3>3, AloneStep
  <2>4. ASSUME NEW c \in Conns,
               \/ LoginRefused(c) \/ LoginWrong(c) \/ LoginRight(c) \/ CountFailed(c) \/ SetRead(c)
               \/ LockTruncate(c) \/ LockFlush(c) \/ ClearRead(c)
        PROVE  AloneInv'
    BY <2>0, <2>3, <2>4
       DEF LoginRefused, LoginWrong, LoginRight, CountFailed, SetRead, LockTruncate, LockFlush,
           ClearRead, Fails, Prepare, Goto, files, locals, history, Idle
  <2>5. ASSUME NEW c \in Conns, SetFlush(c) \/ ClearFlush(c) PROVE AloneInv'
    <3>1. file'.listed = file.listed
      BY <2>0, <2>5 DEF SetFlush, ClearFlush, Flush
    <3> QED BY <2>0, <2>3, <2>5, <3>1 DEF SetFlush, ClearFlush, Flush, Fails, Goto, history, Idle
  <2>6. ASSUME NEW c \in Conns, Read(c, "failed") \/ Read(c, "listed") PROVE AloneInv'
    <3>1. /\ UNCHANGED <<file, pc, user, session, overlap>>
          /\ \A d \in Conns \ {c} : buf'[d] = buf[d] /\ pc'[d] = pc[d] /\ user'[d] = user[d]
          /\ pc[c] \in ReadsListed =>
                /\ buf'[c] = buf[c] \o Behind(buf[c], file.listed)
                /\ Behind(buf[c], file.listed) # <<>>
          /\ pc[c] \notin WritesListed /\ pc[c] \notin Idle
      BY <2>0, <2>6 DEF Read, files, history, Idle
    <3>2. Alone' => \A d \in Conns \ {c} : pc[d] \in Idle
      BY <2>a, <3>1 DEF Alone
    <3>3. ASSUME Alone, pc[c] \in ReadsListed PROVE buf'[c] = file.listed
      <4>1. buf[c] \in {<<>>, file.listed} /\ file.listed \in Seq(Entry)
        BY <2>0, <2>a, <3>1, <3>3 DEF AlonePhase
      <4>2. Behind(file.listed, file.listed) = <<>> /\ Behind(<<>>, file.listed) = file.listed
        BY <4>1, LinesAreCutClosed, BehindWhole
      <4>3. buf'[c] = <<>> \o file.listed
        BY <3>1, <3>3, <4>1, <4>2
      <4> QED BY <4>1, <4>3, ConcatEmptySeq
    <3> HIDE DEF ReadsListed
    <3> QED BY <3>1, <3>2, <3>3, AloneStep
  (* Steps that change it: the other children are idle.                    *)
  <2>7. ASSUME NEW c \in Conns, pc[c] \notin Idle, UNCHANGED overlap,
               \A d \in Conns \ {c} : pc'[d] = pc[d],
               Alone => /\ pc'[c] \notin {"addflush", "delflush"} => Lists(file.listed)'
                        /\ AlonePhase(c)'
        PROVE  AloneInv'
    <3> SUFFICES ASSUME Alone' PROVE AloneInv'
      BY DEF AloneInv
    <3>1. Alone
      BY <2>7 DEF Alone
    <3>2. \A d \in Conns \ {c} : pc'[d] \in Idle
      BY <2>7, <2>a, <3>1
    <3>3. \A d \in Conns \ {c} : AlonePhase(d)'
      BY <3>2 DEF AlonePhase, Idle
    <3> QED BY <2>7, <3>1, <3>2, <3>3 DEF AloneInv
  <2>8. ASSUME NEW c \in Conns, Truncates(c) PROVE AloneInv'
    <3>1. CASE Truncate(c, "settrunc", "failed", "setflush") \/ Truncate(c, "cleartrunc", "failed", "clearflush")
      <4>1. file'.listed = file.listed
        BY <2>0, <3>1 DEF Truncate
      <4> QED BY <2>0, <2>3, <3>1, <4>1 DEF Truncate, Goto, locals, history, Idle
    <3>2. CASE Truncate(c, "addtrunc", "listed", "addflush") \/ Truncate(c, "deltrunc", "listed", "delflush")
      <4>1. /\ pc[c] \in {"addtrunc", "deltrunc"} /\ pc[c] \notin Idle
            /\ pc'[c] = IF pc[c] = "addtrunc" THEN "addflush" ELSE "delflush"
            /\ \A d \in Conns \ {c} : pc'[d] = pc[d]
            /\ file'.listed = <<>> /\ UNCHANGED <<session, user, buf, overlap>>
        BY <2>0, <3>2 DEF Truncate, Goto, locals, history, Idle
      <4>2. Alone => AlonePhase(c)'
        BY <2>a, <4>1 DEF AlonePhase, ListsWith, ListsWithout, Sessions
      <4> QED BY <2>7, <4>1, <4>2
    <3> QED BY <2>8, <3>1, <3>2 DEF Truncates
  <2>9. ASSUME NEW c \in Conns, AddRead(c) PROVE AloneInv'
    <3>1. /\ pc[c] = "addread" /\ pc[c] \notin Idle /\ AtEnd(c, "listed")
          /\ pc'[c] = "addtrunc" /\ \A d \in Conns \ {c} : pc'[d] = pc[d]
          /\ UNCHANGED <<file, user, session, overlap>>
      BY <2>0, <2>9 DEF AddRead, Prepare, Goto, files, history, Idle
    <3> DEFINE lines == Listed(buf[c])
    <3>2. buf'[c] = Append(lines, EntryOf(user[c], c))
      BY <2>0, <2>9 DEF AddRead, Prepare
    <3>3. ASSUME Alone PROVE ListsWith(buf[c], EntryOf(user[c], c))' /\ Lists(file.listed)'
      <4>1. /\ lines \in Seq(Entry) /\ Lists(lines) /\ EntryOf(user[c], c) \notin Sessions
            /\ Lists(file.listed)
        BY <2>a, <2>b, <3>1, <3>3
      <4>2. EntryOf(user[c], c) \in Entry
        BY <2>0, <3>1, EntryInEntry DEF LocalsKnown, HandlesLogin
      <4>3. /\ ToSet(buf'[c]) = ToSet(lines) \cup {EntryOf(user[c], c)}
            /\ IsInjective(buf'[c])
        BY <3>2, <4>1, <4>2, AppendToSet DEF Lists
      <4> QED BY <3>1, <4>1, <4>3 DEF Lists, ListsWith, Sessions
    <3>4. Alone => AlonePhase(c)'
      BY <3>1, <3>3 DEF AlonePhase
    <3> QED BY <2>7, <3>1, <3>3, <3>4
  <2>10. ASSUME NEW c \in Conns, RemoveRead(c) PROVE AloneInv'
    <3>1. /\ pc[c] = "delread" /\ pc[c] \notin Idle /\ AtEnd(c, "listed")
          /\ pc'[c] = "deltrunc" /\ \A d \in Conns \ {c} : pc'[d] = pc[d]
          /\ UNCHANGED <<file, user, session, overlap>>
      BY <2>0, <2>10 DEF RemoveRead, Prepare, Goto, files, history, Idle
    <3> DEFINE x == EntryOf(session[c], c)
               lines == Listed(buf[c])
    <3>2. Contains(lines, x) /\ buf'[c] = RemoveFirst(lines, x)
      BY <2>0, <2>10 DEF RemoveRead, Prepare
    <3>3. ASSUME Alone PROVE ListsWithout(buf[c], EntryOf(session[c], c))' /\ Lists(file.listed)'
      <4>1. lines \in Seq(Entry) /\ Lists(lines) /\ Lists(file.listed)
        BY <2>a, <2>b, <3>1, <3>3
      <4>2. PICK i \in 1..Len(lines) : lines[i] = x /\ RemoveFirst(lines, x) = RemoveAt(lines, i)
        BY <3>2, <4>1, RemoveFirstIsRemoveAt
      <4>3. /\ ToSet(buf'[c]) = ToSet(lines) \ {x}
            /\ IsInjective(buf'[c])
        BY <3>2, <4>1, <4>2, ToSetOfRemoveAt, RemoveAtKeepsInjective DEF Lists
      <4> QED BY <3>1, <4>1, <4>3 DEF Lists, ListsWithout, Sessions
    <3>4. Alone => AlonePhase(c)'
      BY <3>1, <3>3 DEF AlonePhase
    <3> QED BY <2>7, <3>1, <3>3, <3>4
  (* Alone, neither finds its work done already.                           *)
  <2>11. ASSUME NEW c \in Conns, AddNotNeeded(c) \/ RemoveNotFound(c) PROVE AloneInv'
    <3> DEFINE lines == Listed(buf[c])
    <3>1. /\ pc[c] \in ReadsListed /\ AtEnd(c, "listed") /\ overlap' = overlap
          /\ \/ pc[c] = "addread" /\ NeedsNoEntry(c, lines)
             \/ pc[c] = "delread" /\ ~Contains(lines, EntryOf(session[c], c))
      BY <2>11 DEF AddNotNeeded, RemoveNotFound, history
    <3>2. ~Alone
      <4> SUFFICES ASSUME Alone PROVE FALSE
        OBVIOUS
      <4>1. \/ pc[c] = "addread" /\ NeedsNoEntry(c, lines)
            \/ pc[c] = "delread" /\ ~Contains(lines, EntryOf(session[c], c))
        BY <3>1
      <4>2. lines \in Seq(Entry) /\ Lists(lines)
        BY <2>b, <3>1
      <4>3. Len(lines) \in Nat /\ MAX_LISTED \in Nat
        BY <4>2, LenProperties, LimitAssumption
      <4>4. CASE pc[c] = "addread"
        <5>1. EntryOf(user[c], c) \notin Sessions /\ Len(lines) < MAX_LISTED
          BY <2>b, <3>1, <4>4
        <5>2. ~Contains(lines, EntryOf(user[c], c))
          BY <4>2, <5>1, ContainsIsMember DEF Lists
        <5> QED BY <4>1, <4>3, <4>4, <5>1, <5>2 DEF NeedsNoEntry
      <4>5. CASE pc[c] = "delread"
        <5>1. EntryOf(session[c], c) \in ToSet(lines)
          BY <2>b, <3>1, <4>2, <4>5 DEF Lists
        <5> QED BY <4>1, <4>2, <4>5, <5>1, ContainsIsMember
      <4> QED BY <3>1, <4>4, <4>5
    <3> QED BY <3>1, <3>2 DEF AloneInv, Alone
  <2>12. ASSUME NEW c \in Conns, AddFlush(c) \/ DelFlush(c) PROVE AloneInv'
    <3>1. /\ pc[c] \in {"addflush", "delflush"} /\ pc[c] \notin Idle
          /\ pc'[c] \in {"free", "recv"} /\ overlap' = overlap
          /\ \A d \in Conns \ {c} : pc'[d] = pc[d]
          /\ session' = [session EXCEPT ![c] = IF pc[c] = "addflush" THEN user[c] ELSE None]
          /\ file' = [file EXCEPT !["listed"] = buf[c] \o Behind(buf[c], file.listed)]
      BY <2>0, <2>12 DEF AddFlush, DelFlush, Flush, Succeeds, Leaves, Goto, history, Idle
    <3>2. buf[c] \in Seq(Entry)
      BY <2>0, <3>1 DEF LocalsKnown
    <3>3. /\ session'[c] = IF pc[c] = "addflush" THEN user[c] ELSE None
          /\ \A d \in Conns \ {c} : session'[d] = session[d]
          /\ pc[c] = "addflush" => user[c] # None /\ session[c] = None
          /\ pc[c] = "delflush" => session[c] # None
      BY <2>0, <3>1, NameFacts DEF LocalsKnown, HandlesLogin, Removes
    <3>4. ASSUME Alone PROVE Lists(file.listed)'
      <4>1. /\ file.listed = <<>>
            /\ pc[c] = "addflush" => ListsWith(buf[c], EntryOf(user[c], c))
            /\ pc[c] = "delflush" => ListsWithout(buf[c], EntryOf(session[c], c))
        BY <2>a, <3>1, <3>4 DEF AlonePhase
      <4>2. file'.listed = buf[c]
        <5>1. file'.listed = buf[c] \o Behind(buf[c], <<>>)
          BY <2>0, <3>1, <4>1
        <5>2. Behind(buf[c], <<>>) = <<>>
          BY <3>2, LinesAreCutClosed, BehindWhole
        <5> QED BY <3>2, <5>1, <5>2, ConcatEmptySeq
      <4>3. \A e : e \in Sessions' <=>
                     \E d \in Conns : session'[d] # None /\ e = EntryOf(session'[d], d)
        BY DEF Sessions, EntryOf
      <4>4. CASE pc[c] = "addflush"
        <5>1. \A e : e \in Sessions' <=> e \in Sessions \/ e = EntryOf(user[c], c)
          BY <3>3, <4>3, <4>4, OwnEntry DEF EntryOf
        <5> QED BY <4>1, <4>2, <4>4, <5>1 DEF Lists, ListsWith
      <4>5. CASE pc[c] = "delflush"
        <5>1. \A e : e \in Sessions' <=> e \in Sessions /\ e # EntryOf(session[c], c)
          BY <3>3, <4>3, <4>5, OwnEntry DEF EntryOf
        <5> QED BY <4>1, <4>2, <4>5, <5>1 DEF Lists, ListsWithout
      <4> QED BY <3>1, <4>4, <4>5
    <3>5. AlonePhase(c)'
      BY <3>1 DEF AlonePhase
    <3> QED BY <2>7, <3>1, <3>4, <3>5
  <2>13. CASE UNCHANGED vars
    BY <2>13 DEF vars, AloneInv, Alone, AlonePhase, Lists, ListsWith, ListsWithout, Sessions
  <2> QED
    BY <2>1, <2>2, <2>4, <2>5, <2>6, <2>8, <2>9, <2>10, <2>11, <2>12, <2>13 DEF Next, Client, Child
<1>3. AloneInv => ListRightWhenAlone
  <2> SUFFICES ASSUME AloneInv, Alone, \A c \in Conns : pc[c] \in Idle
               PROVE  IsInjective(file.listed) /\ ToSet(file.listed) = Sessions
    BY DEF ListRightWhenAlone, Alone, Sessions
  <2>1. \A c \in Conns : pc[c] \notin {"addflush", "delflush"}
    BY DEF Idle
  <2>2. Lists(file.listed)
    BY <2>1 DEF AloneInv
  <2> QED BY <2>2 DEF Lists
<1> QED BY <1>1, <1>2, <1>3, TypeInductive, PTL DEF Spec
====
