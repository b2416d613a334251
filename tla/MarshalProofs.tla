--------------------------- MODULE MarshalProofs ----------------------------
(***************************************************************************)
(* The buffer of a marshall is never written outside the memory that was   *)
(* allocated, for every first capacity, every call and every value: what   *)
(* the writes are decides how the buffer grows, not what they contain.     *)
(***************************************************************************)
EXTENDS Marshal, WellFoundedInduction, TLAPS

-----------------------------------------------------------------------------
(* Numbers and sequences *)

\* A non-empty set of naturals has a least element.
LEMMA LeastIn ==
  ASSUME NEW W \in SUBSET Nat, W # {}
  PROVE  \E f \in W : \A y \in W : f <= y
<1>1. IsWellFoundedOn(OpToRel(<, Nat), Nat)
  BY NatLessThanWellFounded
<1>2. PICK f \in W : \A y \in W : <<y, f>> \notin OpToRel(<, Nat)
  BY <1>1, WFMin, Zenon
<1>3. \A y \in W : <<y, f>> \in OpToRel(<, Nat) <=> y < f
  BY DEF OpToRel
<1>4. \A y \in W : ~(y < f)
  BY <1>2, <1>3, Zenon
<1> QED
  BY <1>4

\* The recursion of FlattenSeq up to the n-th of its sequences
IsFlat(f, ss, n) == f = [i \in 1 .. n |-> IF i = 1 THEN ss[i] ELSE f[i - 1] \o ss[i]]

LEMMA FlattenDef ==
  ASSUME NEW ss, Len(ss) # 0
  PROVE  FlattenSeq(ss) = (CHOOSE f : IsFlat(f, ss, Len(ss)))[Len(ss)]
BY DEF FlattenSeq, IsFlat

\* One more step of a recursion that exists up to n
LEMMA FlatExtends ==
  ASSUME NEW ss, NEW n \in Nat, n >= 1, NEW f, IsFlat(f, ss, n)
  PROVE  \E g : IsFlat(g, ss, n + 1)
<1> DEFINE g == [i \in 1 .. n + 1 |-> IF i <= n THEN f[i] ELSE f[n] \o ss[n + 1]]
           h == [i \in 1 .. n + 1 |-> IF i = 1 THEN ss[i] ELSE g[i - 1] \o ss[i]]
<1>1. \A i \in 1 .. n : f[i] = IF i = 1 THEN ss[i] ELSE f[i - 1] \o ss[i]
  BY DEF IsFlat
<1>2. ASSUME NEW i \in 1 .. n + 1 PROVE g[i] = h[i]
  <2>1. CASE i = n + 1
    <3>1. i # 1 /\ ~(i <= n) /\ i - 1 = n /\ i - 1 \in 1 .. n + 1 /\ n <= n
      BY <2>1
    <3> QED BY <2>1, <3>1
  <2>2. CASE i # n + 1
    <3>1. i \in 1 .. n /\ i <= n
      BY <2>2
    <3>2. g[i] = f[i]
      BY <3>1
    <3>3. CASE i = 1
      BY <1>1, <3>1, <3>2, <3>3
    <3>4. CASE i # 1
      <4>1. i - 1 \in 1 .. n + 1 /\ i - 1 <= n
        BY <3>1, <3>4
      <4>2. g[i - 1] = f[i - 1]
        BY <4>1
      <4>3. h[i] = g[i - 1] \o ss[i]
        BY <3>4
      <4> QED BY <1>1, <3>1, <3>2, <3>4, <4>2, <4>3
    <3> QED BY <3>3, <3>4
  <2> QED BY <2>1, <2>2
<1>3. g = h
  BY <1>2
<1> HIDE DEF g
<1> QED
  BY <1>3 DEF IsFlat

LEMMA FlatExists ==
  ASSUME NEW ss, NEW n \in Nat, n >= 1
  PROVE  \E f : IsFlat(f, ss, n)
<1> DEFINE S == {q \in Nat : q >= 1 /\ ~ \E f : IsFlat(f, ss, q)}
<1>1. S = {}
  <2> SUFFICES ASSUME S # {} PROVE FALSE
    OBVIOUS
  <2>1. S \in SUBSET Nat
    OBVIOUS
  <2> HIDE DEF S
  <2>2. PICK q \in S : \A y \in S : q <= y
    BY <2>1, LeastIn
  <2>3. q \in Nat /\ q >= 1 /\ ~ \E f : IsFlat(f, ss, q)
    BY DEF S
  <2>4. q # 1
    <3>1. IsFlat([i \in 1 .. 1 |-> ss[i]], ss, 1)
      BY DEF IsFlat
    <3> QED BY <2>3, <3>1
  <2>5. q - 1 \in Nat /\ q - 1 >= 1 /\ ~(q <= q - 1) /\ (q - 1) + 1 = q
    BY <2>3, <2>4
  <2>6. \E f : IsFlat(f, ss, q - 1)
    BY <2>2, <2>5 DEF S
  <2>7. \E f : IsFlat(f, ss, (q - 1) + 1)
    BY <2>5, <2>6, FlatExtends
  <2> QED BY <2>3, <2>5, <2>7
<1> QED
  BY <1>1

\* Sequences over a set, one after the other, are a sequence over that set.
LEMMA FlattenInSeq ==
  ASSUME NEW S, NEW ss \in Seq(Seq(S))
  PROVE  FlattenSeq(ss) \in Seq(S)
<1> DEFINE n == Len(ss)
<1>1. CASE n = 0
  <2>1. FlattenSeq(ss) = ss
    BY <1>1, Zenon DEF FlattenSeq
  <2>2. ss = <<>>
    BY <1>1
  <2> QED BY <2>1, <2>2
<1>2. CASE n # 0
  <2> DEFINE f == CHOOSE g : IsFlat(g, ss, n)
  <2>1. n \in Nat /\ n >= 1 /\ \A i \in 1 .. n : ss[i] \in Seq(S)
    BY <1>2
  <2>2. IsFlat(f, ss, n)
    BY <2>1, FlatExists
  <2>3. FlattenSeq(ss) = f[n]
    BY <1>2, FlattenDef
  <2> HIDE DEF f
  <2>4. \A i \in 1 .. n : f[i] = IF i = 1 THEN ss[i] ELSE f[i - 1] \o ss[i]
    BY <2>2 DEF IsFlat
  <2> DEFINE W == {i \in 1 .. n : f[i] \notin Seq(S)}
  <2>5. W = {}
    <3> SUFFICES ASSUME W # {} PROVE FALSE
      OBVIOUS
    <3>1. W \in SUBSET Nat
      OBVIOUS
    <3> HIDE DEF W
    <3>2. PICK i \in W : \A y \in W : i <= y
      BY <3>1, LeastIn
    <3>3. i \in 1 .. n /\ f[i] \notin Seq(S)
      BY DEF W
    <3>4. i # 1
      BY <2>1, <2>4, <3>3
    <3>5. i - 1 \in 1 .. n /\ ~(i <= i - 1)
      BY <2>1, <3>3, <3>4
    <3>6. f[i - 1] \in Seq(S)
      BY <3>2, <3>5 DEF W
    <3>7. f[i] = f[i - 1] \o ss[i]
      BY <2>4, <3>3, <3>4
    <3> QED BY <2>1, <3>3, <3>6, <3>7
  <2>6. n \in 1 .. n
    BY <2>1
  <2> QED BY <2>3, <2>5, <2>6
<1> QED
  BY <1>1, <1>2

-----------------------------------------------------------------------------
(* The raw writes that a value is marshalled into *)

\* A byte of a number, as shifting and masking yield it
ByteValue == {(x \div Byte ^ e) % Byte : x \in Int, e \in Int}

ByteWrite == [op : {"rawbyte"}, s : {<<b>> : b \in ByteValue}]
RawWrite  == ByteWrite \cup [op : {"rawbytes"}, s : Seq(Number)]

\* A function on 1 .. n is a sequence of length n.
LEMMA FunSeq ==
  ASSUME NEW S, NEW n \in Nat, NEW f \in [1 .. n -> S]
  PROVE  f \in Seq(S) /\ Len(f) = n
OBVIOUS

LEMMA SeqMonotone ==
  ASSUME NEW A, NEW B, A \subseteq B
  PROVE  Seq(A) \subseteq Seq(B)
OBVIOUS

LEMMA DigitsType ==
  ASSUME NEW s \in Seq(Int), NEW w \in {1, 2, 4}
  PROVE  Digits(s, w) \in Seq(ByteValue) /\ Len(Digits(s, w)) = w * Len(s)
<1> DEFINE n == w * Len(s)
           i(j) == ((j - 1) \div w) + 1
           e(j) == w - 1 - ((j - 1) % w)
<1>1. Len(s) \in Nat /\ w \in Nat /\ w >= 1 /\ n \in Nat
  OBVIOUS
<1>2. ASSUME NEW j \in 1 .. n PROVE s[i(j)] \in Int /\ e(j) \in Int
  <2>1. i(j) \in 1 .. Len(s) /\ e(j) \in Int
    <3>1. CASE w = 1
      BY <1>1, <3>1
    <3>2. CASE w = 2
      BY <1>1, <3>2
    <3>3. CASE w = 4
      BY <1>1, <3>3
    <3> QED BY <3>1, <3>2, <3>3
  <2> QED BY <2>1
<1>3. \A j \in 1 .. n : (s[i(j)] \div Byte ^ e(j)) % Byte \in ByteValue
  <2> HIDE DEF i, e, n
  <2> QED BY <1>2 DEF ByteValue
<1>4. Digits(s, w) = [j \in 1 .. n |-> (s[i(j)] \div Byte ^ e(j)) % Byte]
  BY DEF Digits
<1> HIDE DEF n, i, e
<1>5. Digits(s, w) \in [1 .. n -> ByteValue]
  BY <1>3, <1>4
<1> QED
  BY <1>1, <1>5, FunSeq DEF n

LEMMA EachByteType ==
  ASSUME NEW bs \in Seq(ByteValue)
  PROVE  EachByte(bs) \in Seq(ByteWrite) /\ Len(EachByte(bs)) = Len(bs)
<1>1. DOMAIN bs = 1 .. Len(bs) /\ Len(bs) \in Nat /\ \A j \in 1 .. Len(bs) : bs[j] \in ByteValue
  OBVIOUS
<1>2. \A j \in 1 .. Len(bs) : [op |-> "rawbyte", s |-> <<bs[j]>>] \in ByteWrite
  BY <1>1 DEF ByteWrite
<1>3. EachByte(bs) \in [1 .. Len(bs) -> ByteWrite]
  BY <1>1, <1>2 DEF EachByte
<1> QED
  BY <1>1, <1>3, FunSeq

\* Numbers of a fixed size are written byte by byte.
LEMMA NumbersWritten ==
  ASSUME NEW s \in Seq(Int), NEW w \in {1, 2, 4}
  PROVE  EachByte(Digits(s, w)) \in Seq(ByteWrite) /\ Len(EachByte(Digits(s, w))) = w * Len(s)
BY DigitsType, EachByteType

LEMMA NumberFacts == Number \subseteq Int /\ 0 \in Number /\ Refusal \subseteq Number
<1>1. Word \in Nat /\ Word > 0
  <2> DEFINE b == Byte * Byte
  <2>1. b \in Nat /\ b > 0
    BY MarshalConstants
  <2> HIDE DEF b
  <2>2. b * Byte \in Nat /\ b * Byte > 0
    BY <2>1, MarshalConstants
  <2> DEFINE c == b * Byte
  <2> HIDE DEF c
  <2>3. c * Byte \in Nat /\ c * Byte > 0
    BY <2>2, MarshalConstants DEF c
  <2> QED BY <2>3 DEF Word, c, b
<1>2. Refusal \subseteq Word \div 2 .. Word - 1
  BY MarshalConstants
<1>3. Word \div 2 \in Nat
  BY <1>1
<1> HIDE DEF Word
<1> QED
  BY <1>1, <1>2, <1>3 DEF Number

LEMMA PutType ==
  ASSUME NEW v \in Value
  PROVE  Put(v) \in Seq(RawWrite)
<1>1. v.t \in Type /\ v.v \in Seq(Number) /\ v.v \in Seq(Int) /\ Len(v.v) \in Nat
  <2>1. v.t \in Type /\ v.v \in Seq(Number)
    BY DEF Value
  <2>2. Seq(Number) \subseteq Seq(Int)
    BY NumberFacts, SeqMonotone, Zenon
  <2> QED BY <2>1, <2>2
<1>2. Seq(ByteWrite) \subseteq Seq(RawWrite)
  <2>1. ByteWrite \subseteq RawWrite
    BY DEF RawWrite
  <2> QED BY <2>1, SeqMonotone, Zenon
<1>3. CASE v.t = "string"
  <2>1. <<Len(v.v)>> \in Seq(Int) /\ IntSz \in {1, 2, 4}
    BY <1>1 DEF IntSz
  <2>2. EachByte(Digits(<<Len(v.v)>>, IntSz)) \in Seq(RawWrite)
    BY <1>2, <2>1, NumbersWritten
  <2>3. [op |-> "rawbytes", s |-> v.v] \in RawWrite
    BY <1>1 DEF RawWrite
  <2>4. <<[op |-> "rawbytes", s |-> v.v]>> \in Seq(RawWrite)
    BY <2>3
  <2> HIDE DEF IntSz
  <2> QED BY <1>3, <2>2, <2>4 DEF Put
<1>4. CASE v.t # "string"
  <2>1. SizeField(v) \in Seq(Int)
    <3>1. Len(v.v) \div 2 \in Int
      BY <1>1
    <3> QED BY <1>1, <3>1 DEF SizeField
  <2>2. SizeField(v) \o v.v \in Seq(Int)
    BY <1>1, <2>1
  <2>3. WidthOf(v.t) \in {1, 2, 4}
    BY DEF WidthOf, IntSz
  <2>4. EachByte(Digits(SizeField(v) \o v.v, WidthOf(v.t))) \in Seq(RawWrite)
    BY <1>2, <2>2, <2>3, NumbersWritten
  <2> QED BY <1>4, <2>4 DEF Put
<1> QED
  BY <1>3, <1>4

LEMMA PutAllType ==
  ASSUME NEW vs \in Seq(Value)
  PROVE  PutAll(vs) \in Seq(RawWrite)
<1> DEFINE ss == [i \in DOMAIN vs |-> Put(vs[i])]
<1>1. DOMAIN vs = 1 .. Len(vs) /\ Len(vs) \in Nat /\ \A i \in 1 .. Len(vs) : vs[i] \in Value
  OBVIOUS
<1>2. ss \in [1 .. Len(vs) -> Seq(RawWrite)]
  BY <1>1, PutType
<1> HIDE DEF ss
<1>3. ss \in Seq(Seq(RawWrite))
  BY <1>1, <1>2, FunSeq
<1>4. FlattenSeq(ss) \in Seq(RawWrite)
  BY <1>3, FlattenInSeq
<1> QED
  BY <1>4 DEF PutAll, ss

-----------------------------------------------------------------------------
(* The buffer *)

\* The inductive invariant: the buffer always has room for a header, what was
\* written lies inside it, and what is still to be written of a header, byte
\* by byte, ends where the body begins.
BufferInv ==
  /\ k \in CallRecord
  /\ m = [buf |-> m.buf, capa |-> m.capa, ind |-> m.ind]
  /\ m.capa \in Nat /\ m.ind \in Nat /\ RPC_HEADER_SZ <= m.capa /\ m.ind <= m.capa
  /\ todo \in Seq(RawWrite)
  /\ pc = "pack" => /\ todo \in Seq(ByteWrite) /\ m.ind + Len(todo) <= RPC_HEADER_SZ
                    /\ saved \in Nat /\ saved <= m.capa

LEMMA BufferInvMeans == BufferInv => WritesInside
<1> SUFFICES ASSUME BufferInv PROVE WritesInside
  OBVIOUS
<1>1. m.ind \in Nat /\ Len(todo) \in Nat /\ RPC_HEADER_SZ \in Nat
  BY DEF BufferInv, RPC_HEADER_SZ, IntSz
<1>2. pc = "pack" => m.ind <= RPC_HEADER_SZ
  BY <1>1 DEF BufferInv
<1> QED
  BY <1>2 DEF BufferInv, WritesInside

LEMMA FreshFacts ==
  /\ Fresh = [buf |-> Fresh.buf, capa |-> Fresh.capa, ind |-> Fresh.ind]
  /\ Fresh.capa \in Nat /\ Fresh.ind \in Nat
  /\ RPC_HEADER_SZ <= Fresh.capa /\ Fresh.ind <= Fresh.capa
<1>1. Fresh.capa = DEFAULT_RPC_SZ /\ Fresh.ind = RPC_HEADER_SZ /\ RPC_HEADER_SZ \in Nat
  BY DEF Fresh, RPC_HEADER_SZ, IntSz
<1>2. Fresh = [buf |-> Fresh.buf, capa |-> Fresh.capa, ind |-> Fresh.ind]
  BY DEF Fresh
<1> QED
  BY <1>1, <1>2, MarshalConstants

\* A buffer that was just made, with anything to write
LEMMA StartsFresh ==
  ASSUME k' \in CallRecord, m' = Fresh, todo' \in Seq(RawWrite), pc' # "pack"
  PROVE  BufferInv'
<1> HIDE DEF Fresh
<1> QED
  BY FreshFacts DEF BufferInv

\* A message is being read.
LEMMA BufferStays ==
  ASSUME BufferInv, UNCHANGED <<k, m, todo>>, pc' # "pack"
  PROVE  BufferInv'
BY DEF BufferInv

\* s is written at the end of a buffer that has grown to c if it had to.
LEMMA WriteFits ==
  ASSUME BufferInv, NEW c \in Nat, NEW s, Len(s) \in Nat, m.capa <= c, m.ind + Len(s) <= c,
         m' = Write(c, s), UNCHANGED <<k, saved, pc>>, todo' = Tail(todo), todo # <<>>,
         pc = "pack" => Len(s) = 1
  PROVE  BufferInv'
<1>1. /\ m' = [buf |-> m'.buf, capa |-> m'.capa, ind |-> m'.ind]
      /\ m'.capa = c /\ m'.ind = m.ind + Len(s)
  BY DEF Write
<1>2. m.ind \in Nat /\ m.capa \in Nat /\ RPC_HEADER_SZ <= m.capa /\ RPC_HEADER_SZ \in Nat
  BY DEF BufferInv, RPC_HEADER_SZ, IntSz
<1>3. m'.capa \in Nat /\ m'.ind \in Nat /\ RPC_HEADER_SZ <= m'.capa /\ m'.ind <= m'.capa
  BY <1>1, <1>2
<1>4. todo' \in Seq(RawWrite) /\ Len(todo') = Len(todo) - 1 /\ Len(todo) \in Nat
  BY DEF BufferInv
<1>5. ASSUME pc = "pack"
      PROVE  /\ todo' \in Seq(ByteWrite) /\ m'.ind + Len(todo') <= RPC_HEADER_SZ
             /\ saved' \in Nat /\ saved' <= m'.capa
  <2>1. /\ todo \in Seq(ByteWrite) /\ m.ind + Len(todo) <= RPC_HEADER_SZ
        /\ saved \in Nat /\ saved <= m.capa /\ Len(s) = 1
    BY <1>5 DEF BufferInv
  <2>2. todo' \in Seq(ByteWrite)
    BY <2>1
  <2>3. m'.ind + Len(todo') <= RPC_HEADER_SZ
    BY <1>1, <1>2, <1>4, <2>1
  <2>4. saved' \in Nat /\ saved' <= m'.capa
    BY <1>1, <1>2, <2>1
  <2> QED BY <2>2, <2>3, <2>4
<1>6. k' \in CallRecord /\ pc' = pc
  BY DEF BufferInv
<1> QED
  BY <1>1, <1>3, <1>4, <1>5, <1>6 DEF BufferInv

LEMMA rawbyteFits ==
  ASSUME BufferInv, rawbyte
  PROVE  BufferInv'
<1> DEFINE s == Head(todo).s
           c == IF m.ind >= m.capa THEN 2 * m.capa ELSE m.capa
<1>1. /\ todo # <<>> /\ m' = Write(c, s) /\ todo' = Tail(todo) /\ UNCHANGED <<k, saved, pc>>
      /\ Head(todo).op = "rawbyte"
  BY DEF rawbyte, Writing
<1>2. Head(todo) \in RawWrite
  BY <1>1 DEF BufferInv
<1>3. Len(s) = 1
  BY <1>1, <1>2 DEF RawWrite, ByteWrite
<1>4. m.capa \in Nat /\ m.ind \in Nat /\ RPC_HEADER_SZ <= m.capa /\ m.ind <= m.capa /\ RPC_HEADER_SZ >= 1
  BY DEF BufferInv, RPC_HEADER_SZ, IntSz
<1>5. c \in Nat /\ m.capa <= c /\ m.ind + Len(s) <= c /\ Len(s) \in Nat
  <2> HIDE DEF s
  <2>1. RPC_HEADER_SZ \in Nat
    BY DEF RPC_HEADER_SZ, IntSz
  <2> QED BY <1>3, <1>4, <2>1
<1> HIDE DEF s, c
<1> QED
  BY <1>1, <1>3, <1>5, WriteFits

LEMMA rawbytesFits ==
  ASSUME BufferInv, rawbytes
  PROVE  BufferInv'
<1> DEFINE s == Head(todo).s
           c == IF m.ind + Len(s) > m.capa THEN Grown(m.capa, Len(s)) ELSE m.capa
<1>1. /\ todo # <<>> /\ m' = Write(c, s) /\ todo' = Tail(todo) /\ UNCHANGED <<k, saved, pc>>
      /\ Head(todo).op = "rawbytes"
  BY DEF rawbytes, Writing
<1>2. Head(todo) \in RawWrite
  BY <1>1 DEF BufferInv
<1>3. Len(s) \in Nat
  <2>1. s \in Seq(Number)
    BY <1>1, <1>2 DEF RawWrite, ByteWrite
  <2> QED BY <2>1
<1>4. m.capa \in Nat /\ m.ind \in Nat /\ m.ind <= m.capa
  BY DEF BufferInv
<1>5. c \in Nat /\ m.capa <= c /\ m.ind + Len(s) <= c
  <2> HIDE DEF s
  <2> QED BY <1>3, <1>4 DEF Grown
<1>6. pc # "pack"
  <2> SUFFICES ASSUME pc = "pack" PROVE FALSE
    OBVIOUS
  <2>1. todo \in Seq(ByteWrite)
    BY DEF BufferInv
  <2>2. Head(todo) \in ByteWrite
    BY <1>1, <2>1
  <2> QED BY <1>1, <2>2 DEF ByteWrite
<1> HIDE DEF s, c
<1> QED
  BY <1>1, <1>3, <1>5, <1>6, WriteFits

\* The header fits in front of the body, and the body's end is remembered.
LEMMA packFits ==
  ASSUME BufferInv, pack_header
  PROVE  BufferInv'
<1>1. k \in CallRecord /\ m.capa \in Nat /\ m.ind \in Nat /\ RPC_HEADER_SZ <= m.capa /\ m.ind <= m.capa
      /\ m = [buf |-> m.buf, capa |-> m.capa, ind |-> m.ind]
  BY DEF BufferInv
<1>2. HeaderOf \in Seq(Int) /\ Len(HeaderOf) \in Nat /\ Len(HeaderOf) <= 5
  <2>1. k.head \in [1 .. 5 -> Number] /\ k.ret \in Number
    BY <1>1 DEF CallRecord
  <2>2. k.head \in Seq(Number) /\ Len(k.head) = 5
    BY <2>1, FunSeq
  <2>3. k.head \in Seq(Int)
    BY <2>2, NumberFacts, SeqMonotone, Zenon
  <2>4. k.head[1] \in Int /\ k.ret \in Int
    <3>1. k.head[1] \in Number
      BY <2>1
    <3> QED BY <2>1, <3>1, NumberFacts, Zenon
  <2>5. <<k.head[1], k.ret>> \in Seq(Int) /\ Len(<<k.head[1], k.ret>>) = 2
    BY <2>4
  <2>6. CASE side = "request"
    <3>1. HeaderOf = k.head
      BY <2>6, Zenon DEF HeaderOf
    <3>2. Len(k.head) \in Nat /\ Len(k.head) <= 5
      <4>1. Len(k.head) = 5
        BY <2>2
      <4> QED BY <4>1
    <3> QED BY <2>3, <3>1, <3>2, Zenon
  <2>7. CASE side # "request"
    <3>1. HeaderOf = <<k.head[1], k.ret>>
      BY <2>7, Zenon DEF HeaderOf
    <3> QED BY <2>5, <3>1
  <2> QED BY <2>6, <2>7
<1>3. IntSz = 4 /\ RPC_HEADER_SZ = 24
  BY DEF IntSz, RPC_HEADER_SZ
<1>4. todo' \in Seq(ByteWrite) /\ Len(todo') = 4 * Len(HeaderOf)
  <2>1. todo' = EachByte(Digits(HeaderOf, 4))
    BY <1>3 DEF pack_header
  <2> QED BY <1>2, <2>1, NumbersWritten
<1>5. m'.capa = m.capa /\ m'.ind = 4 /\ m' = [buf |-> m'.buf, capa |-> m'.capa, ind |-> m'.ind]
  <2>1. m' = [m EXCEPT !.ind = 4]
    BY <1>3 DEF pack_header
  <2> QED BY <1>1, <2>1
<1>6. k' = k /\ saved' = m.ind
  BY DEF pack_header
<1>7. todo' \in Seq(RawWrite)
  <2>1. ByteWrite \subseteq RawWrite
    BY DEF RawWrite
  <2>2. Seq(ByteWrite) \subseteq Seq(RawWrite)
    BY <2>1, SeqMonotone, Zenon
  <2> QED BY <1>4, <2>2
<1>8. m'.ind + Len(todo') <= RPC_HEADER_SZ
  BY <1>2, <1>3, <1>4, <1>5
<1>9. m'.capa \in Nat /\ m'.ind \in Nat /\ RPC_HEADER_SZ <= m'.capa /\ m'.ind <= m'.capa
  BY <1>1, <1>3, <1>5
<1> QED
  BY <1>1, <1>4, <1>5, <1>6, <1>7, <1>8, <1>9 DEF BufferInv

LEMMA sendFits ==
  ASSUME BufferInv, send
  PROVE  BufferInv'
<1>1. /\ m' = [m EXCEPT !.ind = saved] /\ pc' = "unpack" /\ pc = "pack"
      /\ UNCHANGED <<k, todo>>
  BY DEF send
<1>2. saved \in Nat /\ saved <= m.capa
  BY <1>1 DEF BufferInv
<1>3. m'.capa = m.capa /\ m'.ind = saved /\ m' = [buf |-> m'.buf, capa |-> m'.capa, ind |-> m'.ind]
  BY <1>1 DEF BufferInv
<1> QED
  BY <1>1, <1>2, <1>3 DEF BufferInv

LEMMA refuseFits ==
  ASSUME BufferInv, NEW e \in Refusal, refuse(e)
  PROVE  BufferInv'
<1>1. k' = [k EXCEPT !.ret = e] /\ m' = Fresh /\ todo' = <<>> /\ pc' = "put"
  BY DEF refuse
<1>2. k' \in CallRecord
  BY <1>1, NumberFacts DEF BufferInv, CallRecord
<1> HIDE DEF Fresh
<1> QED
  BY <1>1, <1>2, StartsFresh

LEMMA BufferInvInit == Init => BufferInv
<1> SUFFICES ASSUME Init PROVE BufferInv
  OBVIOUS
<1>1. NoCall \in CallRecord
  <2>1. <<0, 0, 0, 0, 0>> \in [1 .. 5 -> Number]
    <3>1. /\ DOMAIN <<0, 0, 0, 0, 0>> = 1 .. 5
          /\ \A i \in 1 .. 5 : <<0, 0, 0, 0, 0>>[i] = 0
      OBVIOUS
    <3>2. <<0, 0, 0, 0, 0>> = [i \in 1 .. 5 |-> 0]
      OBVIOUS
    <3> HIDE DEF Number
    <3> QED BY <3>2, NumberFacts
  <2>2. <<0>> \in Seq(Number)
    BY NumberFacts
  <2>3. [t |-> "int", v |-> <<0>>] \in Value
    BY <2>2 DEF Value, Type
  <2>4. <<>> \in Seq(Value) /\ <<>> \in Seq(Type) /\ <<>> \in Seq(Number) /\ "int" \in Type
    BY DEF Type
  <2>5. 0 \in Number
    BY NumberFacts
  <2> HIDE DEF Number, Type, Value
  <2> QED BY <2>1, <2>3, <2>4, <2>5 DEF NoCall, CallRecord
<1>2. k = NoCall /\ m = Fresh /\ todo = <<>> /\ pc = "idle"
  BY DEF Init
<1> HIDE DEF Fresh, NoCall
<1> QED
  BY <1>1, <1>2, FreshFacts DEF BufferInv

LEMMA BufferInvNext == BufferInv /\ [Next]_vars => BufferInv'
<1> SUFFICES ASSUME BufferInv, [Next]_vars PROVE BufferInv'
  OBVIOUS
<1>1. ASSUME NEW c \in Call, call(c) PROVE BufferInv'
  <2>1. k' = c /\ m' = Fresh /\ todo' = PutAll(c.args) /\ pc' = "put" /\ c \in CallRecord
    BY <1>1, MarshalConstants DEF call
  <2>2. c.args \in Seq(Value)
    BY <2>1 DEF CallRecord
  <2> HIDE DEF Fresh
  <2> QED BY <2>1, <2>2, PutAllType, StartsFresh
<1>2. CASE fn
  <2>1. k' = k /\ m' = Fresh /\ todo' = Put(k.r) /\ pc' = "put" /\ k \in CallRecord
    BY <1>2 DEF fn, BufferInv
  <2>2. k.r \in Value
    BY <2>1 DEF CallRecord
  <2> HIDE DEF Fresh
  <2> QED BY <2>1, <2>2, PutType, StartsFresh
<1>3. CASE unpack_header
  BY <1>3, BufferStays DEF unpack_header
<1>4. CASE get
  BY <1>4, BufferStays DEF get
<1>5. CASE overread
  BY <1>5, BufferStays DEF overread
<1>6. CASE call_m
  BY <1>6, BufferStays DEF call_m
<1>7. CASE verify_failed
  BY <1>7, BufferStays DEF verify_failed
<1>8. CASE UNCHANGED vars
  BY <1>8 DEF vars, BufferInv
<1> QED
  BY <1>1, <1>2, <1>3, <1>4, <1>5, <1>6, <1>7, <1>8,
     rawbyteFits, rawbytesFits, packFits, sendFits, refuseFits DEF Next

\* The inductive invariant of the buffer: rawbyte and rawbytes grow it enough,
\* and a header, packed last, fits in front of the body.
THEOREM BufferInvCorrect == Spec => []BufferInv
<1> QED
  BY BufferInvInit, BufferInvNext, PTL DEF Spec

\* Whatever the first capacity, the arguments and the results, marshall writes
\* only memory that it has allocated, and the header never grows the buffer.
THEOREM WritesInsideCorrect == Spec => []WritesInside
BY BufferInvCorrect, BufferInvMeans, PTL

=============================================================================
