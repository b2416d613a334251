-------------------------- MODULE XidRepListProofs --------------------------
(***************************************************************************)
(* rpcc::update_xid_rep on a list of any length computes the operator on   *)
(* sets that Rpcc uses, and keeps the acknowledged prefix in front.        *)
(***************************************************************************)
EXTENDS XidRepList, SequenceTheorems, WellFoundedInduction, Integers, TLAPS

-----------------------------------------------------------------------------
(* Lists *)

Sorted(l) == \A i, j \in 1 .. Len(l) : i <= j => l[i] <= l[j]

Window(l) == l \in Seq(Nat) /\ Len(l) > 0 /\ Sorted(l)

\* A non-empty set of naturals has a least element.
LEMMA LeastExists ==
  ASSUME NEW W \in SUBSET Nat, W # {}
  PROVE  \E f \in W : \A y \in W : f <= y
<1>1. IsWellFoundedOn(OpToRel(<, Nat), Nat)
  BY NatLessThanWellFounded
<1>2. PICK f \in W : \A y \in W : <<y, f>> \notin OpToRel(<, Nat)
  BY <1>1, WFMin, Zenon
<1>3. \A y \in W : <<y, f>> \in OpToRel(<, Nat) <=> y < f
  BY DEF OpToRel
<1>4. \A y \in W : ~(y < f)
  BY <1>2, <1>3, Zenon
<1> QED
  BY <1>4

\* What it means to be the first index at which a condition holds.
LEMMA MinFirst ==
  ASSUME NEW I \in SUBSET Nat, I # {}
  PROVE  Min(I) \in I /\ \A i \in I : Min(I) <= i
<1>1. \E x \in I : \A y \in I : x <= y
  BY LeastExists
<1> QED
  BY <1>1 DEF Min

\* The xid comes before the first greater element.
LEMMA InsertPlace ==
  ASSUME NEW l, Window(l), NEW x \in Nat, l[1] < x
  PROVE  \E j \in 2 .. Len(l) + 1 :
           /\ Insert(l, x) = SubSeq(l, 1, j - 1) \o <<x>> \o SubSeq(l, j, Len(l))
           /\ \A i \in 1 .. Len(l) : (i < j => l[i] <= x) /\ (i >= j => x < l[i])
<1> DEFINE I == {i \in 1 .. Len(l) : l[i] > x} \cup {Len(l) + 1}
           j == Min(I)
<1>1. l \in Seq(Nat) /\ Len(l) \in Nat /\ Len(l) > 0 /\ \A i \in 1 .. Len(l) : l[i] \in Nat
  BY DEF Window
<1>2. I \in SUBSET Nat /\ I # {}
  BY <1>1
<1>3. Insert(l, x) = SubSeq(l, 1, j - 1) \o <<x>> \o SubSeq(l, j, Len(l))
  BY DEF Insert, Seqs!InsertAt
<1>4. j \in I /\ \A i \in I : j <= i
  <2> HIDE DEF I
  <2> QED BY <1>2, MinFirst
<1> HIDE DEF j
<1>5. j \in 2 .. Len(l) + 1
  <2>1. j # 1
    BY <1>1, <1>4
  <2> QED BY <1>1, <1>4, <2>1
<1>6. ASSUME NEW i \in 1 .. Len(l), i < j PROVE l[i] <= x
  BY <1>1, <1>4, <1>5, <1>6
<1>7. ASSUME NEW i \in 1 .. Len(l), i >= j PROVE x < l[i]
  <2>1. j \in 1 .. Len(l) /\ l[j] > x
    BY <1>1, <1>4, <1>5, <1>7
  <2>2. l[j] <= l[i]
    BY <1>5, <1>7, <2>1 DEF Window, Sorted
  <2> QED BY <1>1, <2>1, <2>2
<1> QED
  BY <1>3, <1>5, <1>6, <1>7

LEMMA InsertAtIndex ==
  ASSUME NEW l \in Seq(Nat), NEW x \in Nat, NEW j \in 1 .. Len(l) + 1
  PROVE  LET m == SubSeq(l, 1, j - 1) \o <<x>> \o SubSeq(l, j, Len(l))
         IN  /\ m \in Seq(Nat) /\ Len(m) = Len(l) + 1
             /\ \A i \in 1 .. Len(l) + 1 : m[i] = IF i < j THEN l[i] ELSE IF i = j THEN x ELSE l[i - 1]
<1> DEFINE a == SubSeq(l, 1, j - 1)
           b == <<x>>
           c == SubSeq(l, j, Len(l))
           m == (a \o b) \o c
           n == Len(l)
<1>1. n \in Nat /\ j \in Nat /\ j >= 1 /\ j <= n + 1 /\ \A i \in 1 .. n : l[i] \in Nat
  OBVIOUS
<1>2. a \in Seq(Nat) /\ Len(a) = j - 1 /\ \A i \in 1 .. j - 1 : a[i] = l[i]
  <2> DEFINE h == j - 1
  <2>1. h \in Int /\ 1 \in Int /\ \A i \in 1 .. h : l[i] \in Nat
    BY <1>1
  <2> HIDE DEF h
  <2>2. /\ SubSeq(l, 1, h) \in Seq(Nat)
        /\ Len(SubSeq(l, 1, h)) = IF 1 <= h THEN h - 1 + 1 ELSE 0
        /\ \A i \in 1 .. h - 1 + 1 : SubSeq(l, 1, h)[i] = l[1 + i - 1]
    BY <2>1, SubSeqProperties
  <2> QED BY <1>1, <2>2 DEF h
<1>3. b \in Seq(Nat) /\ Len(b) = 1 /\ b[1] = x
  OBVIOUS
<1>4. c \in Seq(Nat) /\ Len(c) = n - j + 1 /\ \A i \in 1 .. n - j + 1 : c[i] = l[j + i - 1]
  <2>1. n \in Int /\ j \in Int /\ \A i \in j .. n : l[i] \in Nat
    BY <1>1
  <2> HIDE DEF n
  <2>2. /\ SubSeq(l, j, n) \in Seq(Nat)
        /\ Len(SubSeq(l, j, n)) = IF j <= n THEN n - j + 1 ELSE 0
        /\ \A i \in 1 .. n - j + 1 : SubSeq(l, j, n)[i] = l[j + i - 1]
    BY <2>1, SubSeqProperties
  <2> QED BY <1>1, <2>2 DEF n
<1> DEFINE d == a \o b
<1> HIDE DEF a, b, c, n
<1>5. /\ d \in Seq(Nat) /\ Len(d) = Len(a) + Len(b)
      /\ \A i \in 1 .. Len(a) + Len(b) : d[i] = IF i <= Len(a) THEN a[i] ELSE b[i - Len(a)]
  <2>1. a \in Seq(Nat) /\ b \in Seq(Nat)
    BY <1>2, <1>3
  <2> QED BY ONLY <2>1, ConcatProperties
<1> HIDE DEF d
<1>6. /\ d \o c \in Seq(Nat) /\ Len(d \o c) = Len(d) + Len(c)
      /\ \A i \in 1 .. Len(d) + Len(c) : (d \o c)[i] = IF i <= Len(d) THEN d[i] ELSE c[i - Len(d)]
  <2>1. d \in Seq(Nat) /\ c \in Seq(Nat)
    BY <1>4, <1>5
  <2> QED BY ONLY <2>1, ConcatProperties
<1>7. Len(d) = j /\ Len(d) + Len(c) = n + 1 /\ Len(a) = j - 1 /\ Len(a) + Len(b) = j
  BY <1>1, <1>2, <1>3, <1>4, <1>5
<1>8. ASSUME NEW i \in 1 .. n + 1
      PROVE  (d \o c)[i] = IF i < j THEN l[i] ELSE IF i = j THEN x ELSE l[i - 1]
  <2>1. CASE i < j
    <3>1. i \in 1 .. j - 1 /\ i \in 1 .. j /\ i <= j - 1 /\ i <= j
      BY <1>1, <2>1
    <3>2. (d \o c)[i] = d[i]
      BY <1>6, <1>7, <3>1
    <3>3. d[i] = a[i]
      BY <1>5, <1>7, <3>1
    <3> QED BY <1>2, <2>1, <3>1, <3>2, <3>3
  <2>2. CASE i = j
    <3>0. i \in 1 .. j /\ i <= j /\ ~(i <= j - 1) /\ i - (j - 1) = 1 /\ i \in 1 .. n + 1
      BY <1>1, <2>2
    <3>1. (d \o c)[i] = d[i] /\ d[i] = b[1]
      <4>1. (d \o c)[i] = d[i]
        BY <1>6, <1>7, <3>0
      <4>2. d[i] = b[1]
        BY <1>5, <1>7, <3>0
      <4> QED BY <4>1, <4>2
    <3> QED BY <1>1, <1>3, <2>2, <3>1
  <2>3. CASE i > j
    <3>1. i - j \in 1 .. n - j + 1 /\ j + (i - j) - 1 = i - 1 /\ ~(i <= j)
      BY <1>1, <2>3
    <3>2. (d \o c)[i] = c[i - j]
      BY <1>6, <1>7, <3>1
    <3>3. c[i - j] = l[j + (i - j) - 1]
      BY <1>4, <3>1
    <3> QED BY <1>1, <2>3, <3>1, <3>2, <3>3
  <2>4. i < j \/ i = j \/ i > j
    BY <1>1
  <2> QED BY <2>1, <2>2, <2>3, <2>4
<1>9. /\ d \o c \in Seq(Nat) /\ Len(d \o c) = Len(l) + 1
      /\ \A i \in 1 .. Len(l) + 1 : (d \o c)[i] = IF i < j THEN l[i] ELSE IF i = j THEN x ELSE l[i - 1]
  BY <1>6, <1>7, <1>8 DEF n
<1>10. d \o c = SubSeq(l, 1, j - 1) \o <<x>> \o SubSeq(l, j, Len(l))
  BY DEF d, a, b, c, n
<1> HIDE DEF m
<1> QED
  BY <1>9, <1>10, Zenon

\* Inserting keeps the front and the order, and adds the xid to the elements.
LEMMA InsertOK ==
  ASSUME NEW l, Window(l), NEW x \in Nat, l[1] < x
  PROVE  /\ Window(Insert(l, x)) /\ Insert(l, x)[1] = l[1]
         /\ Seqs!ToSet(Insert(l, x)) = Seqs!ToSet(l) \cup {x}
<1>1. PICK j \in 2 .. Len(l) + 1 :
        /\ Insert(l, x) = SubSeq(l, 1, j - 1) \o <<x>> \o SubSeq(l, j, Len(l))
        /\ \A i \in 1 .. Len(l) : (i < j => l[i] <= x) /\ (i >= j => x < l[i])
  BY InsertPlace
<1> DEFINE m == Insert(l, x)
<1>2. l \in Seq(Nat) /\ Len(l) \in Nat /\ Len(l) > 0 /\ \A i \in 1 .. Len(l) : l[i] \in Nat
  BY DEF Window
<1>3. /\ m \in Seq(Nat) /\ Len(m) = Len(l) + 1
      /\ \A i \in 1 .. Len(l) + 1 : m[i] = IF i < j THEN l[i] ELSE IF i = j THEN x ELSE l[i - 1]
  <2>1. j \in 1 .. Len(l) + 1
    BY <1>2
  <2> QED BY <1>1, <1>2, <2>1, InsertAtIndex
<1> HIDE DEF m
<1>4. Sorted(m)
  <2> SUFFICES ASSUME NEW a \in 1 .. Len(l) + 1, NEW b \in 1 .. Len(l) + 1, a <= b PROVE m[a] <= m[b]
    BY <1>3 DEF Sorted
  <2>1. \A i, k \in 1 .. Len(l) : i <= k => l[i] <= l[k]
    BY DEF Window, Sorted
  <2> DEFINE n == Len(l)
  <2>2. /\ m[a] = IF a < j THEN l[a] ELSE IF a = j THEN x ELSE l[a - 1]
        /\ m[b] = IF b < j THEN l[b] ELSE IF b = j THEN x ELSE l[b - 1]
    BY <1>3
  <2>7. n \in Nat /\ j \in 2 .. n + 1 /\ a \in 1 .. n + 1 /\ b \in 1 .. n + 1
    BY <1>2
  <2>8. /\ a < j => a \in 1 .. n /\ l[a] \in Nat /\ l[a] <= x
        /\ b < j => b \in 1 .. n /\ l[b] \in Nat
        /\ a > j => a - 1 \in 1 .. n /\ l[a - 1] \in Nat
        /\ b > j => b - 1 \in 1 .. n /\ l[b - 1] \in Nat /\ x < l[b - 1]
    <3>1. a < j => a \in 1 .. n
      BY <2>7
    <3>2. b < j => b \in 1 .. n
      BY <2>7
    <3>3. a > j => a - 1 \in 1 .. n
      BY <2>7
    <3>4. b > j => b - 1 \in 1 .. n /\ b - 1 >= j
      BY <2>7
    <3> QED BY <1>1, <1>2, <3>1, <3>2, <3>3, <3>4
  <2> HIDE DEF n
  <2>3. CASE b < j
    <3>1. a < j
      BY <2>3, <2>7
    <3>2. l[a] <= l[b]
      BY <2>1, <2>3, <2>8, <3>1 DEF n
    <3> QED BY <2>2, <2>3, <3>1, <3>2
  <2>4. CASE b = j
    <3>1. a < j \/ a = j
      BY <2>4, <2>7
    <3> QED BY <2>2, <2>4, <2>7, <2>8, <3>1
  <2>5. CASE b > j /\ (a < j \/ a = j)
    BY <2>2, <2>5, <2>7, <2>8
  <2>6. CASE b > j /\ a > j
    <3>1. a - 1 <= b - 1
      BY <2>7
    <3>2. l[a - 1] <= l[b - 1]
      BY <2>1, <2>6, <2>8, <3>1 DEF n
    <3> QED BY <2>2, <2>6, <2>7, <3>2
  <2>9. b < j \/ b = j \/ (b > j /\ (a < j \/ a = j)) \/ (b > j /\ a > j)
    BY <2>7
  <2> QED BY <2>3, <2>4, <2>5, <2>6, <2>9
<1>5. Seqs!ToSet(m) = Seqs!ToSet(l) \cup {x}
  <2>1. DOMAIN m = 1 .. Len(l) + 1 /\ DOMAIN l = 1 .. Len(l)
    BY <1>2, <1>3
  <2>2. ASSUME NEW i \in 1 .. Len(l) + 1 PROVE m[i] \in Seqs!ToSet(l) \cup {x}
    <3>1. i < j => i \in 1 .. Len(l)
      BY <1>2
    <3>2. i > j => i - 1 \in 1 .. Len(l)
      BY <1>2
    <3>3. i = j \/ i < j \/ i > j
      BY <1>2
    <3> QED BY <1>3, <2>1, <3>1, <3>2, <3>3 DEF Seqs!ToSet
  <2>3. ASSUME NEW i \in 1 .. Len(l) PROVE l[i] \in Seqs!ToSet(m)
    <3>1. CASE i < j
      <4>1. i \in 1 .. Len(l) + 1 /\ m[i] = l[i]
        BY <1>2, <1>3, <3>1
      <4> QED BY <2>1, <4>1 DEF Seqs!ToSet
    <3>2. CASE ~(i < j)
      <4>1. i + 1 \in 1 .. Len(l) + 1 /\ ~(i + 1 < j) /\ i + 1 # j /\ (i + 1) - 1 = i
        BY <1>2, <3>2
      <4>2. m[i + 1] = l[i]
        BY <1>3, <4>1
      <4> QED BY <2>1, <4>1, <4>2 DEF Seqs!ToSet
    <3> QED BY <3>1, <3>2
  <2>4. x \in Seqs!ToSet(m)
    <3>1. j \in 1 .. Len(l) + 1 /\ m[j] = x
      BY <1>2, <1>3
    <3> QED BY <2>1, <3>1 DEF Seqs!ToSet
  <2>5. Seqs!ToSet(m) \subseteq Seqs!ToSet(l) \cup {x}
    BY <2>1, <2>2 DEF Seqs!ToSet
  <2>6. Seqs!ToSet(l) \subseteq Seqs!ToSet(m)
    BY <2>1, <2>3 DEF Seqs!ToSet
  <2> QED BY <2>4, <2>5, <2>6
<1>6. m[1] = l[1]
  BY <1>2, <1>3
<1> QED
  BY <1>2, <1>3, <1>4, <1>5, <1>6 DEF Window, m

-----------------------------------------------------------------------------
(* The loop after the label compress *)

\* s is what is left of l when the first p - 1 elements are popped.
Suffix(s, l, p) ==
  /\ p \in 1 .. Len(l) /\ s \in Seq(Nat) /\ Len(s) = Len(l) - p + 1
  /\ \A i \in 1 .. Len(s) : s[i] = l[p + i - 1]

\* When the iterator has visited the first i elements: what was popped is less
\* than the front, every number from the old front to the new one occurs, and
\* the successor of the front has not been seen.
Visited(s, l, p, i) ==
  /\ Suffix(s, l, p) /\ p <= i
  /\ \A q \in 1 .. Len(l) : q < p => l[q] < l[p]
  /\ \A v \in Nat : l[1] <= v /\ v <= l[p] => \E q \in 1 .. Len(l) : l[q] = v
  /\ \A q \in 1 .. i : l[q] # l[p] + 1

\* PopBefore drops the elements before the first whose successor is not v.
LEMMA PopPlace ==
  ASSUME NEW s \in Seq(Nat), Len(s) > 0, NEW v \in Nat
  PROVE  \E j \in 1 .. Len(s) + 1 :
           /\ PopBefore(s, v) = SubSeq(s, j, Len(s))
           /\ \A i \in 1 .. Len(s) : i < j => s[i] + 1 = v
           /\ j <= Len(s) => s[j] + 1 # v
<1> DEFINE I == {i \in 1 .. Len(s) : s[i] + 1 # v} \cup {Len(s) + 1}
           j == Min(I)
<1>1. I \in SUBSET Nat /\ I # {}
  OBVIOUS
<1>2. j \in I /\ \A i \in I : j <= i
  <2> HIDE DEF I
  <2> QED BY <1>1, MinFirst
<1>3. PopBefore(s, v) = SubSeq(s, j, Len(s))
  BY DEF PopBefore
<1> HIDE DEF j
<1>4. /\ j \in 1 .. Len(s) + 1
      /\ \A i \in 1 .. Len(s) : i < j => s[i] + 1 = v
      /\ j <= Len(s) => s[j] + 1 # v
  <2>1. Len(s) \in Nat
    OBVIOUS
  <2>2. j \in 1 .. Len(s) + 1
    BY <1>2, <2>1
  <2>3. ASSUME NEW i \in 1 .. Len(s), i < j PROVE s[i] + 1 = v
    <3>1. i \notin I
      <4> HIDE DEF I
      <4> QED BY <1>2, <2>1, <2>2, <2>3
    <3> QED BY <3>1
  <2>4. ASSUME j <= Len(s) PROVE s[j] + 1 # v
    BY <1>2, <2>1, <2>4
  <2> QED BY <2>2, <2>3, <2>4
<1> HIDE DEF I
<1> QED
  BY <1>3, <1>4

LEMMA SuffixSub ==
  ASSUME NEW l, NEW s, NEW p, Suffix(s, l, p), l \in Seq(Nat), NEW j \in 1 .. Len(s)
  PROVE  Suffix(SubSeq(s, j, Len(s)), l, p + j - 1)
<1> DEFINE n == Len(s)
           t == SubSeq(s, j, n)
           k == Len(l)
<1>1. n \in Nat /\ k \in Nat /\ s \in Seq(Nat) /\ p \in 1 .. k /\ n = k - p + 1 /\ j \in 1 .. n
      /\ \A i \in 1 .. n : s[i] = l[p + i - 1]
  BY DEF Suffix
<1>2. \A i \in j .. n : s[i] \in Nat
  BY <1>1
<1> HIDE DEF n, k
<1>3. /\ SubSeq(s, j, n) \in Seq(Nat)
      /\ Len(SubSeq(s, j, n)) = IF j <= n THEN n - j + 1 ELSE 0
      /\ \A i \in 1 .. n - j + 1 : SubSeq(s, j, n)[i] = s[j + i - 1]
  <2>1. j \in Int /\ n \in Int
    BY <1>1
  <2> QED BY ONLY <1>2, <2>1, SubSeqProperties
<1>4. Len(t) = k - (p + j - 1) + 1 /\ p + j - 1 \in 1 .. k
  BY <1>1, <1>3
<1>5. ASSUME NEW i \in 1 .. Len(t) PROVE t[i] = l[(p + j - 1) + i - 1]
  <2>0. Len(t) = n - j + 1
    BY <1>1, <1>3
  <2> HIDE DEF t
  <2>1. i \in 1 .. n - j + 1 /\ j + i - 1 \in 1 .. n /\ p + (j + i - 1) - 1 = (p + j - 1) + i - 1
    <3>1. n \in Nat /\ p \in Nat /\ j \in Nat /\ j >= 1 /\ j <= n /\ i \in Nat /\ i >= 1 /\ i <= n - j + 1
      BY <1>1, <1>5, <2>0
    <3> QED BY ONLY <3>1
  <2>2. t[i] = s[j + i - 1]
    BY <1>3, <2>1 DEF t
  <2>3. s[j + i - 1] = l[p + (j + i - 1) - 1]
    BY <1>1, <2>1
  <2> QED BY <2>1, <2>2, <2>3
<1>6. t \in Seq(Nat)
  BY <1>3
<1> HIDE DEF t
<1>7. Suffix(t, l, p + j - 1)
  BY <1>4, <1>5, <1>6 DEF Suffix, k
<1> QED
  BY <1>7 DEF t, n

\* Nothing is popped
LEMMA VisitStay ==
  ASSUME NEW l, Window(l), NEW i \in 2 .. Len(l), NEW s, NEW p, Visited(s, l, p, i - 1),
         l[p] + 1 # l[i]
  PROVE  Visited(PopBefore(s, l[i]), l, p, i)
<1>1. /\ l \in Seq(Nat) /\ Len(l) \in Nat /\ p \in 1 .. Len(l) /\ s \in Seq(Nat) /\ Len(s) = Len(l) - p + 1
      /\ \A k \in 1 .. Len(s) : s[k] = l[p + k - 1]
      /\ p <= i - 1 /\ l[i] \in Nat
  BY DEF Window, Visited, Suffix
<1>2. Len(s) > 0 /\ 1 \in 1 .. Len(s) /\ p + 1 - 1 = p
  BY <1>1
<1>3. s[1] = l[p]
  BY <1>1, <1>2
<1>4. PICK j \in 1 .. Len(s) + 1 :
        /\ PopBefore(s, l[i]) = SubSeq(s, j, Len(s))
        /\ \A k \in 1 .. Len(s) : k < j => s[k] + 1 = l[i]
  BY <1>1, <1>2, PopPlace
<1>5. j = 1
  <2>1. ~(1 < j)
    BY <1>2, <1>3, <1>4
  <2> QED BY <2>1
<1>6. PopBefore(s, l[i]) = s
  BY <1>1, <1>4, <1>5, SubSeqFull
<1>7. \A q \in 1 .. i : l[q] # l[p] + 1
  <2>1. \A q \in 1 .. i - 1 : l[q] # l[p] + 1
    BY DEF Visited
  <2>2. \A q \in 1 .. i : q = i \/ q \in 1 .. i - 1
    OBVIOUS
  <2> QED BY <2>1, <2>2
<1>8. p <= i
  BY <1>1
<1> QED
  BY <1>6, <1>7, <1>8 DEF Visited

\* The front is popped until it is the element that is visited.
LEMMA VisitPop ==
  ASSUME NEW l, Window(l), NEW i \in 2 .. Len(l), NEW s, NEW p, Visited(s, l, p, i - 1),
         l[p] + 1 = l[i]
  PROVE  \E r : Visited(PopBefore(s, l[i]), l, r, i)
<1> DEFINE n == Len(l)
           x == l[i]
           z == Len(s)
<1>1. /\ l \in Seq(Nat) /\ n \in Nat /\ p \in 1 .. n /\ s \in Seq(Nat) /\ z = n - p + 1
      /\ \A k \in 1 .. z : s[k] = l[p + k - 1]
      /\ p <= i - 1 /\ x \in Nat /\ l[p] \in Nat /\ \A k \in 1 .. n : l[k] \in Nat
  <2>1. /\ p \in 1 .. n /\ s \in Seq(Nat) /\ z = n - p + 1
        /\ \A k \in 1 .. z : s[k] = l[p + k - 1]
        /\ p <= i - 1
    BY DEF Visited, Suffix
  <2>2. l \in Seq(Nat)
    BY DEF Window
  <2>3. n \in Nat /\ \A k \in 1 .. n : l[k] \in Nat
    BY <2>2
  <2>4. i \in 1 .. n
    OBVIOUS
  <2> HIDE DEF z
  <2> QED BY <2>1, <2>2, <2>3, <2>4
<1>2. \A a, b \in 1 .. n : a <= b => l[a] <= l[b]
  BY DEF Window, Sorted
<1>3. i \in 1 .. n /\ i \in 2 .. n /\ l[i] = x /\ l[p] + 1 = x
  OBVIOUS
<1>4. PICK j \in 1 .. z + 1 :
        /\ PopBefore(s, x) = SubSeq(s, j, z)
        /\ \A k \in 1 .. z : k < j => s[k] + 1 = x
        /\ j <= z => s[j] + 1 # x
  <2>1. Len(s) > 0
    BY <1>1
  <2> QED BY <1>1, <2>1, PopPlace
<1> HIDE DEF n, x, z
<1> DEFINE h == i - p + 1
<1>5. h \in 1 .. z /\ s[h] = x
  <2>1. h \in 1 .. z /\ p + h - 1 = i
    BY <1>1, <1>3
  <2> QED BY <1>1, <1>3, <2>1
<1>6. j <= h
  <2> SUFFICES ASSUME h < j PROVE FALSE
    BY <1>5
  <2>1. x + 1 = x
    BY <1>4, <1>5
  <2> QED BY <1>1, <2>1
<1> DEFINE r == p + j - 1
<1>7. j \in 1 .. z /\ r \in 1 .. n /\ r <= i /\ p <= r
  BY <1>1, <1>3, <1>5, <1>6
<1>8. Suffix(PopBefore(s, x), l, r)
  <2>1. Suffix(s, l, p)
    BY DEF Visited
  <2>2. Suffix(SubSeq(s, j, Len(s)), l, p + j - 1)
    BY <1>1, <1>7, <2>1, SuffixSub DEF z
  <2> QED BY <1>4, <2>2 DEF z
<1>9. l[r] = s[j] /\ l[r] \in Nat /\ l[r] + 1 # x
  <2>1. s[j] = l[r]
    BY <1>1, <1>7
  <2>2. j <= z
    BY <1>1, <1>7
  <2>3. s[j] + 1 # x
    BY <1>4, <2>2
  <2>4. l[r] \in Nat
    BY <1>1, <1>7
  <2> HIDE DEF r
  <2> QED BY <2>1, <2>3, <2>4
<1> HIDE DEF r, h
<1>10. l[p] <= l[r] /\ l[r] <= x
  BY <1>1, <1>2, <1>3, <1>7
<1>11. l[r] = x
  <2> DEFINE y == l[r]
             w == l[p]
  <2>1. y \in Nat /\ w \in Nat /\ x \in Nat /\ w <= y /\ y <= x /\ y + 1 # x /\ w + 1 = x
    BY <1>1, <1>3, <1>9, <1>10
  <2> HIDE DEF y, w
  <2>2. y = x
    BY <2>1
  <2> QED BY <2>2 DEF y
<1>12. ASSUME NEW q \in 1 .. n, q < r PROVE l[q] < l[r]
  <2>1. CASE q < p
    <3>1. l[q] < l[p]
      BY <2>1 DEF Visited, n
    <3>2. l[q] \in Nat /\ l[p] \in Nat /\ l[p] + 1 = l[r]
      BY <1>1, <1>3, <1>11, <1>12
    <3> QED BY ONLY <3>1, <3>2
  <2>2. CASE ~(q < p)
    <3>1. q - p + 1 \in 1 .. z /\ q - p + 1 < j /\ p + (q - p + 1) - 1 = q
      BY <1>1, <1>7, <1>12, <2>2 DEF r
    <3>2. s[q - p + 1] + 1 = x
      BY <1>4, <3>1
    <3>3. s[q - p + 1] = l[q]
      BY <1>1, <3>1
    <3> QED BY <1>1, <1>11, <3>2, <3>3
  <2> QED BY <2>1, <2>2
<1>13. ASSUME NEW v \in Nat, l[1] <= v, v <= l[r] PROVE \E q \in 1 .. n : l[q] = v
  <2>1. CASE v = x
    BY <1>3, <2>1
  <2>2. CASE v # x
    <3>1. v <= l[p]
      BY <1>1, <1>3, <1>11, <1>13, <2>2
    <3> QED BY <1>13, <3>1 DEF Visited, n
  <2> QED BY <2>1, <2>2
<1>14. ASSUME NEW q \in 1 .. i PROVE l[q] # l[r] + 1
  <2>1. q \in 1 .. n /\ q <= i
    BY <1>1, <1>3
  <2>2. l[q] <= x /\ l[q] \in Nat
    BY <1>1, <1>2, <1>3, <2>1
  <2> QED BY <1>1, <1>11, <2>2
<1>15. Visited(PopBefore(s, x), l, r, i)
  <2> DEFINE t == PopBefore(s, x)
  <2>1. Suffix(t, l, r)
    BY <1>8
  <2> HIDE DEF t
  <2>2. Visited(t, l, r, i)
    BY <1>7, <1>12, <1>13, <1>14, <2>1 DEF Visited, n
  <2> QED BY <2>2 DEF t
<1> QED
  BY <1>15 DEF x

IsLoop(f, l) == f = [i \in 1 .. Len(l) |-> IF i = 1 THEN l ELSE PopBefore(f[i - 1], l[i])]

LEMMA CompressDef ==
  ASSUME NEW l
  PROVE  CompressList(l) = (CHOOSE f : IsLoop(f, l))[Len(l)]
BY DEF CompressList, IsLoop

\* What the loop has done after the first n elements exists.
LEMMA LoopExists ==
  ASSUME NEW l, NEW n \in Nat, n >= 1
  PROVE  \E f : f = [i \in 1 .. n |-> IF i = 1 THEN l ELSE PopBefore(f[i - 1], l[i])]
<1> DEFINE P(m) == \E f : f = [i \in 1 .. m |-> IF i = 1 THEN l ELSE PopBefore(f[i - 1], l[i])]
           S == {m \in Nat : m >= 1 /\ ~P(m)}
<1>1. S = {}
  <2> SUFFICES ASSUME S # {} PROVE FALSE
    OBVIOUS
  <2>1. S \in SUBSET Nat
    OBVIOUS
  <2> HIDE DEF S
  <2>2. PICK m \in S : \A y \in S : m <= y
    BY <2>1, LeastExists
  <2>3. m \in Nat /\ m >= 1 /\ ~P(m)
    BY DEF S
  <2>4. m # 1
    <3> SUFFICES ASSUME m = 1 PROVE FALSE
      OBVIOUS
    <3> DEFINE g == [i \in 1 .. 1 |-> l]
               h == [i \in 1 .. 1 |-> IF i = 1 THEN l ELSE PopBefore(g[i - 1], l[i])]
    <3>1. g = h
      OBVIOUS
    <3> QED BY <2>3, <3>1
  <2>5. m - 1 \in Nat /\ m - 1 >= 1 /\ ~(m <= m - 1)
    BY <2>3, <2>4
  <2>6. P(m - 1)
    BY <2>2, <2>5 DEF S
  <2>7. PICK f : f = [i \in 1 .. m - 1 |-> IF i = 1 THEN l ELSE PopBefore(f[i - 1], l[i])]
    BY <2>6
  <2> DEFINE g == [i \in 1 .. m |-> IF i = m THEN PopBefore(f[m - 1], l[m]) ELSE f[i]]
             h == [i \in 1 .. m |-> IF i = 1 THEN l ELSE PopBefore(g[i - 1], l[i])]
  <2>8. ASSUME NEW i \in 1 .. m PROVE g[i] = h[i]
    <3>1. CASE i = m
      <4>1. m - 1 \in 1 .. m /\ m - 1 # m /\ m # 1
        BY <2>3, <2>4, <2>5
      <4>2. g[m - 1] = f[m - 1]
        BY <4>1
      <4> QED BY <3>1, <4>1, <4>2
    <3>2. CASE i # m
      <4>1. i \in 1 .. m - 1
        BY <2>3, <3>2
      <4>2. g[i] = f[i]
        BY <3>2
      <4>3. f[i] = IF i = 1 THEN l ELSE PopBefore(f[i - 1], l[i])
        BY <2>7, <4>1
      <4>4. i # 1 => i - 1 \in 1 .. m /\ i - 1 # m
        BY <2>3, <3>2
      <4>5. i # 1 => g[i - 1] = f[i - 1]
        BY <4>4
      <4> QED BY <4>2, <4>3, <4>5
    <3> QED BY <3>1, <3>2
  <2>9. g = h
    BY <2>8
  <2> QED BY <2>3, <2>9
<1> QED
  BY <1>1

\* What the loop leaves: the elements from the end of the run of consecutive
\* numbers at the front.
LEMMA CompressOK ==
  ASSUME NEW l, Window(l)
  PROVE  \E p : Visited(CompressList(l), l, p, Len(l))
<1> DEFINE n == Len(l)
           f == CHOOSE g : IsLoop(g, l)
<1>1. n \in Nat /\ n >= 1 /\ l \in Seq(Nat) /\ \A i \in 1 .. n : l[i] \in Nat
  BY DEF Window
<1>2. IsLoop(f, l)
  <2>1. \E g : IsLoop(g, l)
    BY <1>1, LoopExists DEF IsLoop
  <2> QED BY <2>1
<1>3. CompressList(l) = f[n]
  BY CompressDef
<1> HIDE DEF f
<1>4. f = [i \in 1 .. n |-> IF i = 1 THEN l ELSE PopBefore(f[i - 1], l[i])]
  BY <1>2 DEF IsLoop
<1>5. f[1] = l
  BY <1>1, <1>4
<1>6. ASSUME NEW i \in 2 .. n PROVE f[i] = PopBefore(f[i - 1], l[i])
  <2>1. i \in 1 .. n /\ i # 1
    OBVIOUS
  <2> QED BY <1>4, <2>1
<1> DEFINE P(i) == \E p : Visited(f[i], l, p, i)
           S == {i \in 1 .. n : ~P(i)}
<1>7. S = {}
  <2> SUFFICES ASSUME S # {} PROVE FALSE
    OBVIOUS
  <2>1. S \in SUBSET Nat
    OBVIOUS
  <2> HIDE DEF S
  <2>2. PICK i \in S : \A y \in S : i <= y
    BY <2>1, LeastExists
  <2>3. i \in 1 .. n /\ ~P(i)
    BY DEF S
  <2>4. i # 1
    <3>1. Visited(l, l, 1, 1)
      <4>1. Suffix(l, l, 1)
        BY <1>1 DEF Suffix
      <4>2. \A q \in 1 .. n : ~(q < 1)
        OBVIOUS
      <4>3. 1 \in 1 .. n /\ \A v \in Nat : l[1] <= v /\ v <= l[1] => l[1] = v
        BY <1>1
      <4>4. \A q \in 1 .. 1 : l[q] # l[1] + 1
        BY <1>1
      <4> QED BY <4>1, <4>2, <4>3, <4>4 DEF Visited
    <3> QED BY <1>5, <2>3, <3>1
  <2>5. i \in 2 .. n /\ i - 1 \in 1 .. n /\ ~(i <= i - 1)
    BY <1>1, <2>3, <2>4
  <2>6. PICK p : Visited(f[i - 1], l, p, i - 1)
    BY <2>2, <2>5 DEF S
  <2> DEFINE s == f[i - 1]
  <2>7. Visited(s, l, p, i - 1) /\ f[i] = PopBefore(s, l[i])
    BY <1>6, <2>5, <2>6
  <2> HIDE DEF s
  <2>8. \E r : Visited(PopBefore(s, l[i]), l, r, i)
    <3>1. CASE l[p] + 1 # l[i]
      BY <2>5, <2>7, <3>1, VisitStay
    <3>2. CASE l[p] + 1 = l[i]
      BY <2>5, <2>7, <3>2, VisitPop
    <3> QED BY <3>1, <3>2
  <2> QED BY <2>3, <2>7, <2>8
<1>8. P(n)
  BY <1>1, <1>7
<1> QED
  BY <1>3, <1>8

\* In terms of sets: the front h is the end of a run, the rest is in order.
LEMMA CompressElements ==
  ASSUME NEW l, Window(l)
  PROVE  \E h \in Nat :
           /\ Window(CompressList(l)) /\ CompressList(l)[1] = h
           /\ l[1] <= h /\ h + 1 \notin Seqs!ToSet(l)
           /\ \A v \in Nat : l[1] <= v /\ v <= h => v \in Seqs!ToSet(l)
           /\ Seqs!ToSet(CompressList(l)) = {v \in Seqs!ToSet(l) : h <= v}
<1> DEFINE s == CompressList(l)
           n == Len(l)
<1>1. PICK p : Visited(s, l, p, n)
  BY CompressOK
<1>2. /\ l \in Seq(Nat) /\ n \in Nat /\ n >= 1 /\ p \in 1 .. n /\ s \in Seq(Nat) /\ Len(s) = n - p + 1
      /\ \A k \in 1 .. Len(s) : s[k] = l[p + k - 1]
      /\ \A i \in 1 .. n : l[i] \in Nat
  BY <1>1 DEF Window, Visited, Suffix
<1>3. \A a, b \in 1 .. n : a <= b => l[a] <= l[b]
  BY DEF Window, Sorted
<1>4. /\ \A q \in 1 .. n : q < p => l[q] < l[p]
      /\ \A v \in Nat : l[1] <= v /\ v <= l[p] => \E q \in 1 .. n : l[q] = v
      /\ \A q \in 1 .. n : l[q] # l[p] + 1
  BY <1>1 DEF Visited
<1> HIDE DEF s
<1>5. Len(s) > 0 /\ s[1] = l[p]
  <2>1. 1 \in 1 .. Len(s) /\ p + 1 - 1 = p
    BY <1>2
  <2> QED BY <1>2, <2>1
<1>6. Sorted(s)
  <2> SUFFICES ASSUME NEW a \in 1 .. Len(s), NEW b \in 1 .. Len(s), a <= b PROVE s[a] <= s[b]
    BY DEF Sorted
  <2>1. p + a - 1 \in 1 .. n /\ p + b - 1 \in 1 .. n /\ p + a - 1 <= p + b - 1
    BY <1>2
  <2> QED BY <1>2, <1>3, <2>1
<1>7. Seqs!ToSet(l) = {l[i] : i \in 1 .. n} /\ Seqs!ToSet(s) = {s[i] : i \in 1 .. Len(s)}
  <2>1. DOMAIN l = 1 .. n /\ DOMAIN s = 1 .. Len(s)
    BY <1>2
  <2> QED BY <2>1 DEF Seqs!ToSet
<1>8. ASSUME NEW i \in 1 .. Len(s) PROVE s[i] \in Seqs!ToSet(l) /\ l[p] <= s[i]
  <2>1. p + i - 1 \in 1 .. n /\ p <= p + i - 1 /\ s[i] = l[p + i - 1]
    BY <1>2
  <2> QED BY <1>2, <1>3, <1>7, <2>1
<1>9. ASSUME NEW q \in 1 .. n, l[p] <= l[q] PROVE l[q] \in Seqs!ToSet(s)
  <2>1. ~(q < p)
    <3>1. l[q] \in Nat /\ l[p] \in Nat
      BY <1>2
    <3> QED BY <1>4, <1>9, <3>1
  <2>2. q - p + 1 \in 1 .. Len(s) /\ p + (q - p + 1) - 1 = q
    BY <1>2, <2>1
  <2>3. s[q - p + 1] = l[q]
    BY <1>2, <2>2
  <2> QED BY <1>7, <2>2, <2>3
<1>10. Seqs!ToSet(s) = {v \in Seqs!ToSet(l) : l[p] <= v}
  <2>1. Seqs!ToSet(s) \subseteq {v \in Seqs!ToSet(l) : l[p] <= v}
    BY <1>7, <1>8
  <2>2. {v \in Seqs!ToSet(l) : l[p] <= v} \subseteq Seqs!ToSet(s)
    BY <1>7, <1>9
  <2> QED BY <2>1, <2>2
<1>11. l[p] \in Nat /\ l[1] <= l[p] /\ l[p] + 1 \notin Seqs!ToSet(l)
  <2>1. 1 \in 1 .. n /\ 1 <= p
    BY <1>2
  <2> QED BY <1>2, <1>3, <1>4, <1>7, <2>1
<1>12. \A v \in Nat : l[1] <= v /\ v <= l[p] => v \in Seqs!ToSet(l)
  BY <1>4, <1>7
<1>13. Window(s)
  BY <1>2, <1>5, <1>6 DEF Window
<1> QED
  BY <1>5, <1>10, <1>11, <1>12, <1>13 DEF s

-----------------------------------------------------------------------------
(* The window as a list and as a set *)

\* The front of a sorted list is the least of its elements.
LEMMA FrontIsHead ==
  ASSUME NEW l, Window(l)
  PROVE  Front(Seqs!ToSet(l)) = l[1] /\ l[1] \in Seqs!ToSet(l) /\ \A y \in Seqs!ToSet(l) : y \in Nat /\ l[1] <= y
<1> DEFINE W == Seqs!ToSet(l)
<1>1. l \in Seq(Nat) /\ Len(l) \in Nat /\ Len(l) >= 1 /\ \A i \in 1 .. Len(l) : l[i] \in Nat
  BY DEF Window
<1>2. W = {l[i] : i \in 1 .. Len(l)}
  BY <1>1 DEF Seqs!ToSet
<1>3. l[1] \in W
  <2>1. 1 \in 1 .. Len(l)
    BY <1>1
  <2> QED BY <1>2, <2>1
<1>4. ASSUME NEW y \in W PROVE y \in Nat /\ l[1] <= y
  <2>1. PICK i \in 1 .. Len(l) : y = l[i]
    BY <1>2
  <2>2. 1 \in 1 .. Len(l) /\ 1 <= i
    BY <1>1
  <2> QED BY <1>1, <2>1, <2>2 DEF Window, Sorted
<1> HIDE DEF W
<1>5. ASSUME NEW f \in W, \A y \in W : f <= y PROVE f = l[1]
  <2>1. f <= l[1] /\ l[1] <= f /\ f \in Nat /\ l[1] \in Nat
    BY <1>3, <1>4, <1>5
  <2> QED BY <2>1
<1>6. Front(W) = l[1]
  BY <1>3, <1>4, <1>5 DEF Front
<1> QED
  BY <1>3, <1>4, <1>6 DEF W

\* A run of consecutive elements from the least one to h, and a gap behind it:
\* Compress keeps what is not less than h.
LEMMA CompressIsRest ==
  ASSUME NEW W \in SUBSET Nat, NEW m \in W, \A y \in W : m <= y, NEW h \in Nat, m <= h, h + 1 \notin W,
         \A v \in Nat : m <= v /\ v <= h => v \in W
  PROVE  Compress(W) = {v \in W : h <= v}
<1>1. ASSUME NEW y \in W, h <= y PROVE y \in Compress(W)
  <2>1. h \in W
    OBVIOUS
  <2> QED BY <1>1, <2>1 DEF Compress
<1>2. ASSUME NEW y \in Compress(W) PROVE h <= y
  <2>1. PICK z \in W : z <= y /\ z + 1 \notin W
    BY DEF Compress
  <2>2. z \in Nat /\ m <= z /\ m \in Nat /\ y \in Nat
    BY DEF Compress
  <2>3. ~(z + 1 <= h)
    <3> SUFFICES ASSUME z + 1 <= h PROVE FALSE
      OBVIOUS
    <3>1. z + 1 \in Nat /\ m <= z + 1
      BY <2>2
    <3> QED BY <2>1, <3>1
  <2> QED BY <2>1, <2>2, <2>3
<1>3. Compress(W) \subseteq W
  BY DEF Compress
<1> QED
  BY <1>1, <1>2, <1>3

\* What a call of update_xid_rep does to the list.
LEMMA UpdateOK ==
  ASSUME NEW l, Window(l), NEW x \in Nat, l[1] < x
  PROVE  LET m == CompressList(Insert(l, x))
             W == Seqs!ToSet(l) \cup {x}
         IN  \E h \in Nat :
               /\ Window(m) /\ m[1] = h
               /\ l[1] <= h /\ h + 1 \notin W /\ \A v \in Nat : l[1] <= v /\ v <= h => v \in W
               /\ Seqs!ToSet(m) = {v \in W : h <= v}
               /\ Seqs!ToSet(m) = Compress(W)
<1> DEFINE i == Insert(l, x)
           m == CompressList(i)
           W == Seqs!ToSet(l) \cup {x}
<1>1. Window(i) /\ i[1] = l[1] /\ Seqs!ToSet(i) = W
  BY InsertOK
<1> HIDE DEF i
<1>2. PICK h \in Nat :
        /\ Window(m) /\ m[1] = h
        /\ l[1] <= h /\ h + 1 \notin W
        /\ \A v \in Nat : l[1] <= v /\ v <= h => v \in W
        /\ Seqs!ToSet(m) = {v \in W : h <= v}
  BY <1>1, CompressElements
<1>3. l[1] \in W /\ W \in SUBSET Nat /\ \A y \in W : l[1] <= y
  <2>1. l[1] \in Seqs!ToSet(i) /\ \A y \in Seqs!ToSet(i) : y \in Nat /\ l[1] <= y
    BY <1>1, FrontIsHead
  <2> QED BY <1>1, <2>1
<1>4. Compress(W) = {v \in W : h <= v}
  <2> DEFINE a == l[1]
  <2>1. a \in W /\ W \in SUBSET Nat /\ (\A y \in W : a <= y) /\ h \in Nat /\ a <= h /\ h + 1 \notin W
        /\ \A v \in Nat : a <= v /\ v <= h => v \in W
    BY <1>2, <1>3
  <2> HIDE DEF a, W
  <2> QED BY <2>1, CompressIsRest
<1> HIDE DEF m, W
<1>5. \E g \in Nat :
        /\ Window(m) /\ m[1] = g
        /\ l[1] <= g /\ g + 1 \notin W /\ \A v \in Nat : l[1] <= v /\ v <= g => v \in W
        /\ Seqs!ToSet(m) = {v \in W : g <= v}
        /\ Seqs!ToSet(m) = Compress(W)
  BY <1>2, <1>4
<1> QED
  BY <1>5 DEF m, W, i

\* The inductive invariant: the list is sorted, its front ends the prefix that
\* has been answered, and its elements are the answered xids from there on.
ListInv ==
  /\ Window(list) /\ answered \subseteq Nat
  /\ \A v \in Nat : v <= list[1] => v \in answered
  /\ list[1] + 1 \notin answered
  /\ Seqs!ToSet(list) = {v \in answered : list[1] <= v}

LEMMA ListInvInit == ListInit => ListInv
<1> SUFFICES ASSUME ListInit PROVE ListInv
  OBVIOUS
<1>1. list = <<0>> /\ answered = {0}
  BY DEF ListInit
<1>2. list \in Seq(Nat) /\ Len(list) = 1 /\ list[1] = 0
  BY <1>1
<1>3. Window(list)
  BY <1>2 DEF Window, Sorted
<1>4. Seqs!ToSet(list) = {0}
  <2>1. DOMAIN list = 1 .. 1
    BY <1>2
  <2>2. {list[i] : i \in 1 .. 1} = {0}
    BY <1>2
  <2> QED BY <2>1, <2>2 DEF Seqs!ToSet
<1> QED
  BY <1>1, <1>2, <1>3, <1>4 DEF ListInv

\* A call does to the list what update_xid_rep does to the set of its elements,
\* and keeps the invariant.
LEMMA UpdateListOK ==
  ASSUME ListInv, NEW x \in 1 .. MaxXid, UpdateList(x)
  PROVE  ListInv' /\ Seqs!ToSet(list') = update_xid_rep(Seqs!ToSet(list), x)
<1>1. Window(list) /\ x \in Nat /\ x >= 1
  BY ListConstants DEF ListInv
<1>2. list \in Seq(Nat) /\ Len(list) > 0 /\ list[1] \in Nat /\ Head(list) = list[1]
  BY <1>1 DEF Window
<1>3. Front(Seqs!ToSet(list)) = list[1]
  BY <1>1, FrontIsHead
<1>4. CASE x <= list[1]
  <2>1. list' = list
    BY <1>2, <1>4 DEF UpdateList
  <2>2. answered' = answered
    BY <1>1, <1>4 DEF UpdateList, ListInv
  <2>3. update_xid_rep(Seqs!ToSet(list), x) = Seqs!ToSet(list)
    BY <1>3, <1>4 DEF update_xid_rep
  <2>4. ListInv'
    BY <2>1, <2>2 DEF ListInv
  <2> QED BY <2>1, <2>3, <2>4
<1>5. CASE ~(x <= list[1])
  <2> DEFINE m == CompressList(Insert(list, x))
             W == Seqs!ToSet(list) \cup {x}
             a == list[1]
  <2>1. list' = m /\ answered' = answered \cup {x}
    BY <1>2, <1>5 DEF UpdateList
  <2>2. update_xid_rep(Seqs!ToSet(list), x) = Compress(W)
    BY <1>3, <1>5 DEF update_xid_rep
  <2>3. PICK h \in Nat :
          /\ Window(m) /\ m[1] = h
          /\ a <= h /\ h + 1 \notin W /\ \A v \in Nat : a <= v /\ v <= h => v \in W
          /\ Seqs!ToSet(m) = {v \in W : h <= v}
          /\ Seqs!ToSet(m) = Compress(W)
    <3>1. list[1] < x
      BY <1>1, <1>2, <1>5
    <3> QED BY <1>1, <3>1, UpdateOK
  <2>4. /\ answered \subseteq Nat /\ \A v \in Nat : v <= a => v \in answered
        /\ Seqs!ToSet(list) = {v \in answered : a <= v}
    BY DEF ListInv
  <2>5. W = {v \in answered' : a <= v} /\ a \in Nat /\ answered' \subseteq Nat
    BY <1>1, <1>2, <1>5, <2>1, <2>4
  <2> HIDE DEF m, W, a
  <2>6. Seqs!ToSet(m) = {v \in answered' : h <= v}
    <3>1. a \in Nat /\ h \in Nat /\ a <= h /\ answered' \subseteq Nat
      BY <2>3, <2>5
    <3>2. ASSUME NEW v \in answered', h <= v PROVE a <= v
      <4>1. v \in Nat
        BY <3>1
      <4> QED BY <3>1, <3>2, <4>1
    <3>3. {v \in W : h <= v} = {v \in answered' : h <= v}
      <4>1. W = {v \in answered' : a <= v}
        BY <2>5
      <4> QED BY <3>2, <4>1, Zenon
    <3> QED BY <2>3, <3>3, Zenon
  <2>7. \A v \in Nat : v <= h => v \in answered'
    <3> TAKE v \in Nat
    <3>1. CASE v <= a
      BY <2>1, <2>4, <3>1
    <3>2. CASE ~(v <= a)
      BY <2>3, <2>5, <3>2
    <3> QED BY <3>1, <3>2
  <2>8. h + 1 \notin answered'
    BY <2>3, <2>5
  <2>9. ListInv'
    BY <2>1, <2>3, <2>5, <2>6, <2>7, <2>8 DEF ListInv
  <2> QED BY <2>1, <2>2, <2>3, <2>9
<1> QED
  BY <1>4, <1>5

LEMMA ListInvNext == ListInv /\ [ListNext]_listVars => ListInv'
<1> SUFFICES ASSUME ListInv, [ListNext]_listVars PROVE ListInv'
  OBVIOUS
<1>1. CASE ListNext
  BY <1>1, UpdateListOK DEF ListNext
<1>2. CASE UNCHANGED listVars
  BY <1>2 DEF listVars, ListInv
<1> QED
  BY <1>1, <1>2

LEMMA ListInvMeans == ListInv => FrontIsAnsweredPrefix
<1> SUFFICES ASSUME ListInv PROVE FrontIsAnsweredPrefix
  OBVIOUS
<1> DEFINE a == list[1]
           T == Seqs!ToSet(Tail(list))
           M == {n \in answered : 0 .. n \subseteq answered}
<1>1. /\ list \in Seq(Nat) /\ Len(list) \in Nat /\ Len(list) > 0 /\ a \in Nat /\ Head(list) = a
      /\ \A i \in 1 .. Len(list) : list[i] \in Nat
  BY DEF ListInv, Window
<1>2. \A i, j \in 1 .. Len(list) : i <= j => list[i] <= list[j]
  BY DEF ListInv, Window, Sorted
<1>3. Window(list)
  BY DEF ListInv
<1>4. /\ answered \subseteq Nat /\ \A v \in Nat : v <= a => v \in answered
      /\ a + 1 \notin answered /\ Seqs!ToSet(list) = {v \in answered : a <= v}
  BY DEF ListInv
<1> HIDE DEF a
<1>5. a = Max(M)
  <2>1. a \in M
    BY <1>1, <1>4
  <2>2. ASSUME NEW n \in M PROVE a >= n
    <3>1. n \in Nat /\ 0 .. n \subseteq answered
      BY <1>4
    <3>2. a + 1 \notin 0 .. n
      BY <1>4, <3>1
    <3> QED BY <1>1, <3>1, <3>2
  <2>3. ASSUME NEW n \in M, \A y \in M : n >= y PROVE n = a
    <3>1. n >= a /\ a >= n /\ n \in Nat
      BY <1>4, <2>1, <2>2, <2>3
    <3> QED BY <1>1, <3>1
  <2> HIDE DEF M
  <2> QED BY <2>1, <2>2, <2>3 DEF Max
<1>6. T \ {a} = {n \in answered : n > a}
  <2>1. /\ Tail(list) \in Seq(Nat) /\ Len(Tail(list)) = Len(list) - 1
        /\ \A i \in 1 .. Len(list) - 1 : Tail(list)[i] = list[i + 1]
    BY <1>1
  <2>2. T = {Tail(list)[i] : i \in 1 .. Len(list) - 1}
    <3>1. DOMAIN Tail(list) = 1 .. Len(list) - 1
      BY <1>1, <2>1
    <3> QED BY <3>1 DEF Seqs!ToSet
  <2>3. Seqs!ToSet(list) = {list[i] : i \in 1 .. Len(list)}
    <3>1. DOMAIN list = 1 .. Len(list)
      BY <1>1
    <3> QED BY <3>1 DEF Seqs!ToSet
  <2> HIDE DEF T
  <2>4. ASSUME NEW v \in T PROVE v \in Seqs!ToSet(list)
    <3>1. PICK i \in 1 .. Len(list) - 1 : v = Tail(list)[i]
      BY <2>2
    <3>2. i + 1 \in 1 .. Len(list) /\ v = list[i + 1]
      BY <1>1, <2>1, <3>1
    <3> QED BY <2>3, <3>2
  <2>5. ASSUME NEW v \in Seqs!ToSet(list), v # a PROVE v \in T
    <3>1. PICK i \in 1 .. Len(list) : v = list[i]
      BY <2>3
    <3>2. i # 1
      BY <2>5, <3>1 DEF a
    <3>3. i - 1 \in 1 .. Len(list) - 1 /\ (i - 1) + 1 = i
      BY <1>1, <3>2
    <3>4. Tail(list)[i - 1] = v
      BY <2>1, <3>1, <3>3
    <3> QED BY <2>2, <3>3, <3>4
  <2>6. ASSUME NEW v \in T, v # a PROVE v \in answered /\ v > a
    <3>1. v \in answered /\ a <= v /\ v \in Nat
      BY <1>4, <2>4
    <3> QED BY <1>1, <2>6, <3>1
  <2>7. ASSUME NEW v \in answered, v > a PROVE v \in T /\ v # a
    <3>1. v \in Nat /\ a <= v /\ v # a
      BY <1>1, <1>4, <2>7
    <3> QED BY <1>4, <2>5, <3>1
  <2> QED BY <2>6, <2>7
<1>7. \A i \in 1 .. Len(list) - 1 : list[i] <= list[i + 1]
  BY <1>1, <1>2
<1> QED
  BY <1>1, <1>5, <1>6, <1>7 DEF FrontIsAnsweredPrefix

\* update_xid_rep keeps the list sorted, its front the end of the answered
\* prefix, and its elements the xids answered from the front on.
THEOREM ListInvCorrect == ListSpec => []ListInv
<1> QED
  BY ListInvInit, ListInvNext, PTL DEF ListSpec

\* For any number of calls, recorded any number of times in any order, the
\* front of the sorted list ends exactly the prefix of answered xids, and the
\* rest holds the xids answered after it.
THEOREM FrontCorrect == ListSpec => []FrontIsAnsweredPrefix
BY ListInvCorrect, ListInvMeans, PTL

\* Every step of rpcc::update_xid_rep on the list is a step of the operator on
\* sets that Rpcc uses, so that what is proved of Rpc holds of the code's list.
THEOREM ListImplementsSetCorrect == ListSpec => ListImplementsSet
<1> DEFINE A == \E x \in 1 .. MaxXid : Seqs!ToSet(list') = update_xid_rep(Seqs!ToSet(list), x)
<1>1. ListInv /\ [ListNext]_listVars => [A]_list
  <2> SUFFICES ASSUME ListInv, ListNext PROVE A
    BY DEF listVars
  <2>1. PICK x \in 1 .. MaxXid : UpdateList(x)
    BY DEF ListNext
  <2> QED BY <2>1, UpdateListOK
<1> QED
  BY <1>1, ListInvCorrect, PTL DEF ListSpec, ListImplementsSet

=============================================================================
