---------------------------- MODULE ExtentProofs ----------------------------
(***************************************************************************)
(* The file system for disks, inode tables and files of any size: while it *)
(* is young, no two intact files share a block and get returns what was    *)
(* put, whatever is created, rewritten and removed in between.             *)
(***************************************************************************)
EXTENDS ExtentServer, SequenceTheorems, WellFoundedInduction, TLAPS

-----------------------------------------------------------------------------
(* Numbers *)

\* A nonempty set of natural numbers has a least element.
LEMMA LeastNat ==
  ASSUME NEW S, S \subseteq Nat, S # {}
  PROVE  \E x \in S : \A y \in S : x <= y
<1> DEFINE R == {p \in Nat \X Nat : p[1] < p[2]}
<1>1. IsWellFoundedOn(R, Nat)
  BY NatLessThanWellFounded DEF OpToRel
<1>2. PICK x \in S : \A y \in S : ~(<<y, x>> \in R)
  BY <1>1, WFMin
<1>3. ASSUME NEW y \in S PROVE x <= y
  <2>1. ~(y < x)
    BY <1>2
  <2> QED BY <2>1
<1> QED
  BY <1>3

\* Division with remainder.
LEMMA Division ==
  ASSUME NEW a \in Nat, NEW n \in Nat, n > 0
  PROVE  /\ a \div n \in Nat /\ a % n \in Nat /\ a % n < n
         /\ n * (a \div n) \in Nat /\ n * (a \div n) + (a % n) = a
<1> DEFINE m == n * (a \div n)
           t == a % n
<1>1. a \div n \in Nat /\ m \in Nat /\ t \in Nat /\ t < n
  OBVIOUS
<1>2. t = a - m
  OBVIOUS
<1> HIDE DEF m, t
<1>3. m + t = a
  BY <1>1, <1>2
<1> QED
  BY <1>1, <1>3, Zenon DEF m, t

\* Products keep the order of their factors.
LEMMA Products ==
  ASSUME NEW n \in Nat, NEW a \in Nat, NEW b \in Nat, a <= b
  PROVE  n * a \in Nat /\ n * b \in Nat /\ n * a <= n * b
OBVIOUS

\* Quotient and remainder are unique.
LEMMA Unique ==
  ASSUME NEW n \in Nat, n > 0, NEW q \in Nat, NEW r \in Nat, NEW d \in Nat, NEW t \in Nat,
         r < n, t < n, n * q + r = n * d + t
  PROVE  q = d /\ r = t
<1>1. PICK x \in Nat : x = n * q
  OBVIOUS
<1>2. PICK y \in Nat : y = n * d
  OBVIOUS
<1>3. x + r = y + t
  BY <1>1, <1>2
<1>4. ~(d + 1 <= q)
  <2> SUFFICES ASSUME d + 1 <= q PROVE FALSE
    OBVIOUS
  <2>1. n * (d + 1) <= n * q /\ n * (d + 1) = n * d + n
    BY Products
  <2>2. y + n <= x
    BY <1>1, <1>2, <2>1
  <2> QED BY <1>3, <2>2
<1>5. ~(q + 1 <= d)
  <2> SUFFICES ASSUME q + 1 <= d PROVE FALSE
    OBVIOUS
  <2>1. n * (q + 1) <= n * d /\ n * (q + 1) = n * q + n
    BY Products
  <2>2. x + n <= y
    BY <1>1, <1>2, <2>1
  <2> QED BY <1>3, <2>2
<1>6. q = d
  BY <1>4, <1>5
<1>7. x = y
  BY <1>1, <1>2, <1>6
<1> QED
  BY <1>3, <1>6, <1>7

LEMMA Quotient ==
  ASSUME NEW n \in Nat, n > 0, NEW q \in Nat, NEW r \in Nat, r < n
  PROVE  (n * q + r) \div n = q /\ (n * q + r) % n = r
<1>1. PICK a \in Nat : a = n * q + r
  OBVIOUS
<1>2. PICK d \in Nat : d = a \div n
  BY Division
<1>3. PICK t \in Nat : t = a % n
  BY Division
<1>4. t < n /\ n * d + t = a
  BY <1>2, <1>3, Division
<1>5. q = d /\ r = t
  BY <1>1, <1>4, Unique
<1> QED
  BY <1>1, <1>2, <1>3, <1>5

\* Division keeps the order.
LEMMA DivOrder ==
  ASSUME NEW n \in Nat, n > 0, NEW a \in Nat, NEW b \in Nat, a <= b
  PROVE  a \div n <= b \div n
<1>1. /\ a \div n \in Nat /\ n * (a \div n) \in Nat /\ n * (a \div n) <= a
      /\ b \div n \in Nat /\ n * (b \div n) \in Nat /\ b < n * (b \div n) + n
  <2>1. a % n \in Nat /\ n * (a \div n) + (a % n) = a /\ b % n < n /\ n * (b \div n) + (b % n) = b /\ b % n \in Nat
    BY Division
  <2> QED BY <2>1, Division
<1> DEFINE c == a \div n
           d == b \div n
<1> HIDE DEF c, d
<1> SUFFICES ASSUME d + 1 <= c PROVE FALSE
  BY <1>1 DEF c, d
<1>2. n * (d + 1) <= n * c /\ n * (d + 1) = n * d + n
  BY <1>1, Products DEF c, d
<1> QED
  BY <1>1, <1>2 DEF c, d

\* The constants of the disk.
LEMMA Sizes ==
  /\ BLOCK_NUM \in Nat /\ BPB \in Nat /\ BYTE \in Nat /\ UINT8 \in Nat
  /\ BLOCK_NUM > 0 /\ BPB > 0 /\ BYTE > 0 /\ UINT8 > 0
  /\ FirstBlock \in Nat /\ FirstBlock > 0
  /\ UINT8 * BYTE \in Nat /\ FirstBlock < UINT8 * BYTE
  /\ UINT8 * BYTE <= BPB /\ BPB <= BLOCK_NUM
  /\ \E m \in Nat : BLOCK_NUM = BYTE * m
<1>1. /\ BLOCK_NUM \in Nat /\ BPB \in Nat /\ BYTE \in Nat /\ UINT8 \in Nat /\ INODE_NUM \in Nat /\ IPB \in Nat
      /\ BLOCK_NUM > 0 /\ BPB > 0 /\ BYTE > 0 /\ UINT8 > 0 /\ IPB > 0
  BY BlockConstants
<1>2. PICK u \in Nat : u = UINT8 * BYTE
  BY <1>1
<1>3. 2 * UINT8 * BYTE = 2 * u
  BY <1>1, <1>2
<1>4. BPB = 2 * u
  BY <1>3, BlockConstants
<1>5. PICK q \in Nat : BLOCK_NUM = BPB * q
  <2>1. BPB * (BLOCK_NUM \div BPB) + 0 = BLOCK_NUM /\ BLOCK_NUM \div BPB \in Nat
    BY <1>1, BlockConstants, Division
  <2>2. PICK m \in Nat : m = BPB * (BLOCK_NUM \div BPB)
    BY <1>1, <2>1
  <2>3. m = BLOCK_NUM
    BY <1>1, <2>1, <2>2
  <2> QED BY <2>1, <2>2, <2>3
<1>6. BPB <= BLOCK_NUM
  <2>1. q # 0
    BY <1>1, <1>5
  <2>2. BPB * 1 <= BPB * q
    BY <1>1, <2>1, Products
  <2> QED BY <1>1, <1>5, <2>2
<1>7. BLOCK_NUM \div BPB \in Nat /\ INODE_NUM \div IPB \in Nat
  BY <1>1, Division
<1>8. FirstBlock \in Nat /\ FirstBlock > 0
  BY <1>7 DEF FirstBlock, IBLOCK
<1>9. BLOCK_NUM = BYTE * (2 * UINT8 * q) /\ 2 * UINT8 * q \in Nat
  <2>1. BPB * q = (2 * (UINT8 * BYTE)) * q
    BY <1>2, <1>4
  <2>2. (2 * (UINT8 * BYTE)) * q = BYTE * (2 * UINT8 * q)
    BY <1>1
  <2> QED BY <1>1, <1>5, <2>1, <2>2
<1>10. u <= BPB /\ FirstBlock < u
  BY <1>2, <1>4, BlockConstants
<1> QED
  BY <1>1, <1>2, <1>6, <1>8, <1>9, <1>10

\* The bit of a block is a bit of the bitmap, and in the young part of the disk
\* it is the block's own.
LEMMA BitOfRange ==
  ASSUME NEW id \in BlockId
  PROVE  BitOf(id) \in BlockId /\ (id < UINT8 * BYTE => BitOf(id) = id)
<1>1. /\ BLOCK_NUM \in Nat /\ BPB \in Nat /\ BYTE \in Nat /\ UINT8 \in Nat
      /\ BPB > 0 /\ BYTE > 0 /\ UINT8 > 0 /\ UINT8 * BYTE <= BPB /\ id \in Nat
  BY Sizes DEF BlockId
<1>2. PICK u \in Nat : u = UINT8 * BYTE /\ u <= BPB
  BY <1>1, Sizes
<1>3. PICK j \in Nat : j = id % BPB
  BY <1>1, Division
<1>4. j <= id /\ (id < u => j = id)
  <2>1. PICK m \in Nat : m = BPB * (id \div BPB)
    BY <1>1, Division
  <2>2. m + j = id
    BY <1>1, <1>3, <2>1, Division
  <2>3. ASSUME id < u PROVE j = id
    <3>1. BPB * 0 + id = id /\ id < BPB
      BY <1>1, <1>2, <2>3
    <3>2. (BPB * 0 + id) % BPB = id
      BY <1>1, <3>1, Quotient
    <3> QED BY <1>3, <3>1, <3>2
  <2> QED BY <1>1, <2>2, <2>3
<1>5. PICK c \in Nat : c = j \div BYTE
  BY <1>1, Division
<1>6. PICK z \in Nat : z = j % BYTE
  BY <1>1, Division
<1>7. PICK y \in Nat : y = BYTE * c /\ y + z = j
  BY <1>1, <1>5, <1>6, Division
<1>8. PICK e \in Nat : e = c % UINT8
  BY <1>1, Division
<1>9. e <= c
  <2>1. PICK m \in Nat : m = UINT8 * (c \div UINT8)
    BY <1>1, Division
  <2>2. m + e = c
    BY <1>1, <1>8, <2>1, Division
  <2> QED BY <2>2
<1>10. id < u => e = c
  <2> SUFFICES ASSUME id < u PROVE e = c
    OBVIOUS
  <2>1. c < UINT8
    <3> SUFFICES ASSUME UINT8 <= c PROVE FALSE
      BY <1>1
    <3>1. BYTE * UINT8 <= BYTE * c /\ BYTE * UINT8 = UINT8 * BYTE
      BY <1>1, Products
    <3>2. u <= y
      BY <1>2, <1>7, <3>1
    <3> QED BY <1>1, <1>4, <1>7, <3>2
  <2>2. UINT8 * 0 + c = c
    BY <1>1
  <2>3. (UINT8 * 0 + c) % UINT8 = c
    BY <1>1, <2>1, Quotient
  <2> QED BY <1>8, <2>2, <2>3
<1>11. PICK x \in Nat : x = e * BYTE
  BY <1>1
<1>12. x <= y /\ (e = c => x = y)
  <2>1. BYTE * e <= BYTE * c /\ e * BYTE = BYTE * e
    BY <1>1, <1>9, Products
  <2> QED BY <1>7, <1>11, <2>1
<1>13. BitOf(id) = (id - j) + x + z
  BY <1>3, <1>5, <1>6, <1>8, <1>11 DEF BitOf
<1>14. BitOf(id) \in Nat /\ BitOf(id) <= id /\ (id < u => BitOf(id) = id)
  BY <1>1, <1>4, <1>7, <1>10, <1>12, <1>13
<1> QED
  BY <1>1, <1>2, <1>14 DEF BlockId

\* The last bit of the byte of a bit.
LEMMA ByteEnd ==
  ASSUME NEW b \in BlockId
  PROVE  (b \div BYTE) * BYTE + BYTE - 1 \in BlockId
<1>1. BLOCK_NUM \in Nat /\ BYTE \in Nat /\ BYTE > 0 /\ b \in Nat /\ b < BLOCK_NUM
  BY Sizes DEF BlockId
<1>2. PICK m \in Nat : BLOCK_NUM = BYTE * m
  BY Sizes
<1>3. PICK c \in Nat : c = b \div BYTE
  BY <1>1, Division
<1>4. PICK y \in Nat : y = BYTE * c /\ y <= b
  <2>1. PICK z \in Nat : z = b % BYTE
    BY <1>1, Division
  <2>2. PICK y \in Nat : y = BYTE * c
    BY <1>1
  <2>3. y + z = b
    BY <1>1, <1>3, <2>1, <2>2, Division
  <2> QED BY <2>2, <2>3
<1>5. c + 1 <= m
  <2> SUFFICES ASSUME m <= c PROVE FALSE
    OBVIOUS
  <2>1. BYTE * m <= BYTE * c
    BY <1>1, Products
  <2>2. BLOCK_NUM <= y
    BY <1>2, <1>4, <2>1
  <2> QED BY <1>1, <1>4, <2>2
<1>6. BYTE * (c + 1) <= BYTE * m /\ BYTE * (c + 1) = BYTE * c + BYTE /\ c * BYTE = BYTE * c
  BY <1>1, <1>5, Products
<1>7. y + BYTE <= BLOCK_NUM /\ (b \div BYTE) * BYTE = y
  BY <1>2, <1>3, <1>4, <1>6
<1> QED
  BY <1>1, <1>7 DEF BlockId

\* free_block changes a byte in front of the ones of the data blocks, if the
\* position it is given is in the first bitmap block.
LEMMA FreedBytes ==
  ASSUME NEW id \in 0 .. BPB - 1, NEW b \in Nat, FirstBlock <= b
  PROVE  FreedByte(id) # b \div BYTE
<1>1. BPB \in Nat /\ BYTE \in Nat /\ UINT8 \in Nat /\ BPB > 0 /\ BYTE > 0 /\ UINT8 > 0 /\ id \in Nat /\ id < BPB
  BY Sizes
<1>2. id % BPB = id
  <2>1. BPB * 0 + id = id
    BY <1>1
  <2>2. (BPB * 0 + id) % BPB = id
    BY <1>1, Quotient
  <2> QED BY <2>1, <2>2
<1>3. PICK t \in Nat : t = id % UINT8 /\ t <= UINT8 - 1
  <2>1. PICK t \in Nat : t = id % UINT8
    BY <1>1, Division
  <2>2. t < UINT8
    BY <1>1, <2>1, Division
  <2> QED BY <1>1, <2>1, <2>2
<1>4. FreedByte(id) = t \div BYTE
  <2>1. (id - id) + t = t
    BY <1>1
  <2> QED BY <1>2, <1>3, <2>1 DEF FreedByte
<1>5. t \div BYTE <= (UINT8 - 1) \div BYTE /\ FirstBlock \div BYTE <= b \div BYTE
  <2>1. UINT8 - 1 \in Nat /\ FirstBlock \in Nat
    BY <1>1, Sizes
  <2> QED BY <1>1, <1>3, <2>1, DivOrder
<1>6. /\ t \div BYTE \in Nat /\ (UINT8 - 1) \div BYTE \in Nat /\ FirstBlock \div BYTE \in Nat
      /\ b \div BYTE \in Nat
  <2>1. UINT8 - 1 \in Nat /\ FirstBlock \in Nat
    BY <1>1, Sizes
  <2> QED BY <1>1, <2>1, Division
<1> DEFINE p == t \div BYTE
           q == (UINT8 - 1) \div BYTE
           r == FirstBlock \div BYTE
           v == b \div BYTE
<1>7. q < r
  BY BlockConstants
<1> HIDE DEF p, q, r, v
<1>8. p < v
  BY <1>5, <1>6, <1>7 DEF p, q, r, v
<1>9. p # v
  BY <1>6, <1>8 DEF p, v
<1> QED
  BY <1>4, <1>9 DEF p, v

-----------------------------------------------------------------------------
(* The allocator *)

\* alloc_block returns a block of the disk.
LEMMA AllocRange ==
  ASSUME NEW B
  PROVE  alloc_block(B) \in BlockId /\ (B \subseteq BlockId => Marked(B) \subseteq BlockId)
<1>1. FreeIds(B) \subseteq BlockId /\ FreeIds(B) \subseteq Nat /\ 0 \in BlockId
  BY Sizes DEF FreeIds, BlockId
<1>2. CASE FreeIds(B) = {}
  BY <1>1, <1>2 DEF alloc_block, Marked
<1>3. CASE FreeIds(B) # {}
  <2>1. \E x \in FreeIds(B) : \A y \in FreeIds(B) : x <= y
    BY <1>1, <1>3, LeastNat
  <2>2. alloc_block(B) \in FreeIds(B)
    BY <1>3, <2>1 DEF alloc_block
  <2>3. alloc_block(B) \in BlockId
    BY <1>1, <2>2
  <2>4. BitOf(alloc_block(B)) \in BlockId
    BY <2>3, BitOfRange
  <2> QED BY <1>3, <2>3, <2>4 DEF Marked
<1> QED
  BY <1>2, <1>3

\* The first m blocks of the data area
Prefix(m) == FirstBlock .. FirstBlock + m - 1

\* With the first m blocks taken, alloc_block returns the next one.
LEMMA AllocNext ==
  ASSUME NEW m \in Nat, FirstBlock + m < UINT8 * BYTE
  PROVE  alloc_block(Prefix(m)) = FirstBlock + m /\ Marked(Prefix(m)) = Prefix(m + 1)
<1>1. FirstBlock \in Nat /\ BLOCK_NUM \in Nat /\ UINT8 * BYTE \in Nat /\ UINT8 * BYTE <= BLOCK_NUM
  <2>1. PICK u \in Nat : u = UINT8 * BYTE
    BY Sizes
  <2>2. u <= BPB /\ BPB <= BLOCK_NUM /\ BPB \in Nat /\ BLOCK_NUM \in Nat
    BY <2>1, Sizes
  <2> QED BY <2>1, <2>2, Sizes
<1>2. PICK u \in Nat : u = UINT8 * BYTE
  BY <1>1
<1>3. \A id \in 0 .. u - 1 : BitOf(id) = id
  <2> TAKE id \in 0 .. u - 1
  <2>1. id \in BlockId /\ id < UINT8 * BYTE
    BY <1>1, <1>2 DEF BlockId
  <2> QED BY <2>1, BitOfRange
<1> DEFINE a == FirstBlock + m
           S == FreeIds(Prefix(m))
<1>4. a \in Nat /\ a < u /\ a \in 0 .. u - 1 /\ a \in FirstBlock .. BLOCK_NUM - 1 /\ a \notin Prefix(m)
  BY <1>1, <1>2 DEF Prefix
<1>5. a \in S
  BY <1>3, <1>4 DEF FreeIds
<1>6. ASSUME NEW x \in S PROVE a <= x
  <2>1. x \in FirstBlock .. BLOCK_NUM - 1 /\ BitOf(x) \notin Prefix(m)
    BY DEF FreeIds
  <2> SUFFICES ASSUME x < a PROVE FALSE
    BY <1>1, <1>4, <2>1
  <2>2. x \in 0 .. u - 1 /\ x \in Prefix(m)
    BY <1>1, <1>4, <2>1 DEF Prefix
  <2> QED BY <1>3, <2>1, <2>2
<1>7. ASSUME NEW x \in S, \A y \in S : x <= y PROVE x = a
  <2>1. x <= a /\ a <= x /\ x \in Nat
    BY <1>1, <1>5, <1>6, <1>7 DEF FreeIds
  <2> QED BY <1>4, <2>1
<1> HIDE DEF a
<1>8. (CHOOSE x \in S : \A y \in S : x <= y) = a
  BY <1>5, <1>6, <1>7
<1>9. S # {}
  BY <1>5
<1>10. alloc_block(Prefix(m)) = a
  BY <1>8, <1>9 DEF alloc_block
<1>11. Marked(Prefix(m)) = Prefix(m) \cup {a}
  BY <1>3, <1>4, <1>9, <1>10 DEF Marked
<1>12. Prefix(m) \cup {a} = Prefix(m + 1)
  BY <1>1 DEF Prefix, a
<1> QED
  BY <1>10, <1>11, <1>12 DEF a

\* One call of alloc_block, as AllocBlocks records it
Base(B) == [ids |-> <<>>, bitmap |-> B]
Call(p) == [ids |-> Append(p.ids, alloc_block(p.bitmap)), bitmap |-> Marked(p.bitmap)]

IsRun(f, B, n) == f = [k \in 0 .. n |-> IF k = 0 THEN Base(B) ELSE Call(f[k - 1])]

LEMMA AllocDef ==
  ASSUME NEW B, NEW n
  PROVE  AllocBlocks(B, n) = (CHOOSE f : IsRun(f, B, n))[n]
BY DEF AllocBlocks, IsRun, Base, Call

\* The record of any number of calls exists.
LEMMA RunExists ==
  ASSUME NEW B, NEW n \in Nat
  PROVE  \E f : IsRun(f, B, n)
<1> DEFINE S == {m \in Nat : ~ \E f : IsRun(f, B, m)}
<1> SUFFICES ASSUME S # {} PROVE FALSE
  OBVIOUS
<1>1. PICK m \in S : \A y \in S : m <= y
  BY LeastNat
<1>2. m \in Nat /\ ~ \E f : IsRun(f, B, m)
  OBVIOUS
<1>3. m # 0
  <2> SUFFICES ASSUME m = 0 PROVE FALSE
    OBVIOUS
  <2> DEFINE g == [k \in 0 .. 0 |-> Base(B)]
  <2>1. g = [k \in 0 .. 0 |-> IF k = 0 THEN Base(B) ELSE Call(g[k - 1])]
    OBVIOUS
  <2> QED BY <1>2, <2>1 DEF IsRun
<1>4. m - 1 \in Nat /\ ~(m <= m - 1)
  BY <1>2, <1>3
<1>5. m - 1 \notin S
  BY <1>1, <1>4
<1>6. PICK f : IsRun(f, B, m - 1)
  BY <1>4, <1>5
<1> DEFINE g == [k \in 0 .. m |-> IF k = m THEN Call(f[m - 1]) ELSE f[k]]
           h == [k \in 0 .. m |-> IF k = 0 THEN Base(B) ELSE Call(g[k - 1])]
<1>7. ASSUME NEW k \in 0 .. m PROVE g[k] = h[k]
  <2>1. \A i \in 0 .. m - 1 : f[i] = IF i = 0 THEN Base(B) ELSE Call(f[i - 1])
    BY <1>6 DEF IsRun
  <2>2. CASE k = m
    <3>1. g[m] = Call(f[m - 1]) /\ g[m - 1] = f[m - 1]
      BY <1>2, <1>3
    <3> QED BY <1>3, <2>2, <3>1
  <2>3. CASE k # m /\ k = 0
    BY <1>4, <2>1, <2>3
  <2>4. CASE k # m /\ k # 0
    <3>1. k \in 0 .. m - 1 /\ k - 1 \in 0 .. m /\ k - 1 # m /\ k # 0
      BY <1>2, <2>4
    <3>2. g[k] = f[k] /\ g[k - 1] = f[k - 1] /\ h[k] = Call(g[k - 1])
      BY <2>4, <3>1
    <3>3. f[k] = Call(f[k - 1])
      BY <2>1, <3>1
    <3> QED BY <3>2, <3>3
  <2> QED BY <2>2, <2>3, <2>4
<1>8. g = h
  BY <1>7
<1> QED
  BY <1>2, <1>8 DEF IsRun

\* The calls one after the other
LEMMA RunSteps ==
  ASSUME NEW B, NEW n \in Nat
  PROVE  \E f : /\ f[0] = Base(B) /\ f[n] = AllocBlocks(B, n)
                /\ \A k \in 1 .. n : f[k] = Call(f[k - 1])
<1> DEFINE f == CHOOSE g : IsRun(g, B, n)
<1>1. IsRun(f, B, n)
  BY RunExists
<1>2. f[n] = AllocBlocks(B, n)
  BY AllocDef
<1> HIDE DEF f
<1>3. f = [k \in 0 .. n |-> IF k = 0 THEN Base(B) ELSE Call(f[k - 1])]
  BY <1>1 DEF IsRun
<1>4. f[0] = Base(B)
  BY <1>3
<1>5. ASSUME NEW k \in 1 .. n PROVE f[k] = Call(f[k - 1])
  <2>1. k \in 0 .. n /\ k # 0
    OBVIOUS
  <2> QED BY <1>3, <2>1
<1> QED
  BY <1>2, <1>4, <1>5

\* n calls return n blocks of the disk.
LEMMA AllocTyped ==
  ASSUME NEW B, B \subseteq BlockId, NEW n \in Nat
  PROVE  /\ AllocBlocks(B, n).ids \in Seq(BlockId) /\ Len(AllocBlocks(B, n).ids) = n
         /\ AllocBlocks(B, n).bitmap \subseteq BlockId
<1>1. PICK f : /\ f[0] = Base(B) /\ f[n] = AllocBlocks(B, n)
               /\ \A k \in 1 .. n : f[k] = Call(f[k - 1])
  BY RunSteps
<1> DEFINE P(k) == f[k].ids \in Seq(BlockId) /\ Len(f[k].ids) = k /\ f[k].bitmap \subseteq BlockId
           S == {k \in 0 .. n : ~P(k)}
<1>2. S = {}
  <2> SUFFICES ASSUME S # {} PROVE FALSE
    OBVIOUS
  <2>a. S \subseteq Nat
    OBVIOUS
  <2> HIDE DEF S
  <2>1. PICK k \in S : \A y \in S : k <= y
    BY <2>a, LeastNat
  <2>2. k \in 0 .. n /\ ~P(k)
    BY DEF S
  <2>3. k # 0
    <3>1. P(0)
      BY <1>1 DEF Base
    <3> QED BY <2>2, <3>1
  <2>4. k - 1 \in 0 .. n /\ ~(k <= k - 1) /\ k \in 1 .. n
    BY <2>2, <2>3
  <2>5. P(k - 1)
    BY <2>1, <2>4 DEF S
  <2> DEFINE p == f[k - 1]
  <2>6. f[k] = Call(p)
    BY <1>1, <2>4
  <2>7. p.ids \in Seq(BlockId) /\ Len(p.ids) = k - 1 /\ p.bitmap \subseteq BlockId
    BY <2>5
  <2> HIDE DEF p
  <2>8. f[k].ids = Append(p.ids, alloc_block(p.bitmap)) /\ f[k].bitmap = Marked(p.bitmap)
    BY <2>6 DEF Call
  <2>9. alloc_block(p.bitmap) \in BlockId /\ Marked(p.bitmap) \subseteq BlockId
    BY <2>7, AllocRange
  <2>10. f[k].ids \in Seq(BlockId) /\ Len(f[k].ids) = k
    <3>1. Append(p.ids, alloc_block(p.bitmap)) \in Seq(BlockId)
      BY <2>7, <2>9, AppendProperties
    <3>2. Len(Append(p.ids, alloc_block(p.bitmap))) = (k - 1) + 1
      BY <2>7, <2>9, AppendProperties
    <3> QED BY <2>4, <2>8, <3>1, <3>2
  <2> QED BY <2>2, <2>8, <2>9, <2>10
<1>3. P(n)
  BY <1>2
<1> QED
  BY <1>1, <1>3

\* While the disk is young, n calls return the next n blocks.
LEMMA AllocYoung ==
  ASSUME NEW m \in Nat, NEW n \in Nat, FirstBlock + m + n <= UINT8 * BYTE
  PROVE  /\ AllocBlocks(Prefix(m), n).bitmap = Prefix(m + n)
         /\ \A j \in 1 .. n : AllocBlocks(Prefix(m), n).ids[j] = FirstBlock + m + j - 1
         /\ Len(AllocBlocks(Prefix(m), n).ids) = n
<1>1. PICK f : /\ f[0] = Base(Prefix(m)) /\ f[n] = AllocBlocks(Prefix(m), n)
               /\ \A k \in 1 .. n : f[k] = Call(f[k - 1])
  BY RunSteps
<1>2. PICK u \in Nat : u = UINT8 * BYTE
  BY Sizes
<1>3. FirstBlock \in Nat
  BY Sizes
<1> DEFINE P(k) == /\ f[k].ids \in Seq(Nat) /\ Len(f[k].ids) = k /\ f[k].bitmap = Prefix(m + k)
                   /\ \A j \in 1 .. k : f[k].ids[j] = FirstBlock + m + j - 1
           S == {k \in 0 .. n : ~P(k)}
<1>4. S = {}
  <2> SUFFICES ASSUME S # {} PROVE FALSE
    OBVIOUS
  <2>a. S \subseteq Nat
    OBVIOUS
  <2> HIDE DEF S
  <2>1. PICK k \in S : \A y \in S : k <= y
    BY <2>a, LeastNat
  <2>2. k \in 0 .. n /\ ~P(k)
    BY DEF S
  <2>3. k # 0
    <3>1. f[0].ids = << >> /\ f[0].bitmap = Prefix(m) /\ m + 0 = m
      BY <1>1 DEF Base
    <3>2. P(0)
      BY <3>1
    <3> QED BY <2>2, <3>2
  <2>4. k - 1 \in 0 .. n /\ ~(k <= k - 1) /\ k \in 1 .. n
    BY <2>2, <2>3
  <2>5. P(k - 1)
    BY <2>1, <2>4 DEF S
  <2> DEFINE p == f[k - 1]
             a == FirstBlock + (m + (k - 1))
  <2>6. f[k] = Call(p)
    BY <1>1, <2>4
  <2>7. /\ p.ids \in Seq(Nat) /\ Len(p.ids) = k - 1 /\ p.bitmap = Prefix(m + (k - 1))
        /\ \A j \in 1 .. k - 1 : p.ids[j] = FirstBlock + m + j - 1
    BY <2>5
  <2> HIDE DEF p
  <2>8. m + (k - 1) \in Nat /\ a < UINT8 * BYTE /\ (m + (k - 1)) + 1 = m + k /\ a \in Nat
    BY <1>2, <1>3, <2>4
  <2>9. alloc_block(p.bitmap) = a /\ Marked(p.bitmap) = Prefix(m + k)
    BY <2>7, <2>8, AllocNext
  <2> HIDE DEF a
  <2>10. f[k].ids = Append(p.ids, a) /\ f[k].bitmap = Prefix(m + k)
    BY <2>6, <2>9 DEF Call
  <2>11. /\ f[k].ids \in Seq(Nat) /\ Len(f[k].ids) = k /\ f[k].ids[k] = a
         /\ \A j \in 1 .. k - 1 : f[k].ids[j] = p.ids[j]
    <3> DEFINE q == p.ids
    <3>1. q \in Seq(Nat) /\ Len(q) = k - 1 /\ a \in Nat
      BY <2>7, <2>8
    <3> HIDE DEF q
    <3>2. /\ Append(q, a) \in Seq(Nat) /\ Len(Append(q, a)) = Len(q) + 1
          /\ \A j \in 1 .. Len(q) : Append(q, a)[j] = q[j]
          /\ Append(q, a)[Len(q) + 1] = a
      BY <3>1, AppendProperties
    <3>3. Len(q) + 1 = k
      BY <2>4, <3>1
    <3> QED BY <2>10, <3>1, <3>2, <3>3 DEF q
  <2>12. ASSUME NEW j \in 1 .. k PROVE f[k].ids[j] = FirstBlock + m + j - 1
    <3>1. CASE j = k
      <4>1. a = FirstBlock + m + k - 1
        BY <1>3, <2>4 DEF a
      <4> QED BY <2>11, <3>1, <4>1
    <3>2. CASE j # k
      <4>1. j \in 1 .. k - 1
        BY <2>4, <3>2
      <4> QED BY <2>7, <2>11, <4>1
    <3> QED BY <3>1, <3>2
  <2> QED BY <2>2, <2>10, <2>11, <2>12
<1>5. P(n)
  BY <1>4
<1> QED
  BY <1>1, <1>5

\* free_block keeps to the bits of the bitmap,
LEMMA FreeTyped ==
  ASSUME NEW B, B \subseteq BlockId, NEW S
  PROVE  FreeBlocks(B, S) \subseteq BlockId
<1>1. \A b \in B : (b \div BYTE) * BYTE + BYTE - 1 \in BlockId
  BY ByteEnd
<1> QED
  BY <1>1 DEF FreeBlocks

\* and while the disk is young it frees nothing.
LEMMA FreeYoung ==
  ASSUME NEW m \in Nat, NEW S, S \subseteq 0 .. BPB - 1
  PROVE  FreeBlocks(Prefix(m), S) = Prefix(m)
<1>1. FirstBlock \in Nat
  BY Sizes
<1> DEFINE bytes == {FreedByte(id) : id \in S}
<1>2. ASSUME NEW b \in Prefix(m) PROVE b \div BYTE \notin bytes
  <2>1. b \in Nat /\ FirstBlock <= b
    BY <1>1 DEF Prefix
  <2> SUFFICES ASSUME NEW id \in S, FreedByte(id) = b \div BYTE PROVE FALSE
    OBVIOUS
  <2> QED BY <2>1, FreedBytes
<1>3. FreeBlocks(Prefix(m), S) =
        {b \in Prefix(m) : b \div BYTE \notin bytes}
        \cup {(b \div BYTE) * BYTE + BYTE - 1 : b \in {x \in Prefix(m) : x \div BYTE \in bytes}}
  BY DEF FreeBlocks
<1> HIDE DEF bytes
<1>4. {x \in Prefix(m) : x \div BYTE \in bytes} = {}
  BY <1>2
<1>5. {b \in Prefix(m) : b \div BYTE \notin bytes} = Prefix(m)
  BY <1>2
<1> QED
  BY <1>3, <1>4, <1>5

\* What the disk holds after a file is written.
LEMMA WrittenOther ==
  ASSUME NEW d, NEW ids, NEW data, NEW b \in BlockId, \A j \in 1 .. Len(ids) : ids[j] # b
  PROVE  Written(d, ids, data)[b] = d[b]
BY DEF Written

LEMMA WrittenAt ==
  ASSUME NEW d, NEW ids, Len(ids) \in Nat, NEW data, NEW j \in 1 .. Len(ids), ids[j] \in BlockId,
         \A k \in 1 .. Len(ids) : k # j => ids[k] # ids[j]
  PROVE  Written(d, ids, data)[ids[j]] = Data(data[j])
<1> DEFINE b == ids[j]
           L(k) == ids[k] = b /\ \A m \in k + 1 .. Len(ids) : ids[m] # b
<1>1. L(j)
  <2>1. \A m \in j + 1 .. Len(ids) : m \in 1 .. Len(ids) /\ m # j
    OBVIOUS
  <2> QED BY <2>1
<1>2. \A k \in 1 .. Len(ids) : L(k) => k = j
  OBVIOUS
<1> HIDE DEF b
<1>3. (CHOOSE k \in 1 .. Len(ids) : L(k)) = j
  BY <1>1, <1>2
<1>4. \E k \in 1 .. Len(ids) : ids[k] = b
  BY DEF b
<1>5. b \in BlockId
  BY DEF b
<1>6. Written(d, ids, data)[b] = Data(data[CHOOSE k \in 1 .. Len(ids) : L(k)])
  BY <1>4, <1>5 DEF Written
<1> QED
  BY <1>3, <1>6 DEF b

\* A block that is not zeroes never becomes zeroes again.
LEMMA WrittenZero ==
  ASSUME NEW d, NEW ids, NEW data
  PROVE  /\ DOMAIN Written(d, ids, data) = BlockId
         /\ \A b \in BlockId : Written(d, ids, data)[b] = Zero => d[b] = Zero
<1>1. DOMAIN Written(d, ids, data) = BlockId
  BY DEF Written
<1>2. ASSUME NEW b \in BlockId, Written(d, ids, data)[b] = Zero PROVE d[b] = Zero
  <2>1. \A v : Data(v) # Zero
    <3>1. \A v : Data(v).kind = "data" /\ Zero.kind = "zero"
      BY DEF Data, Zero
    <3> QED BY <3>1
  <2>2. CASE \E j \in 1 .. Len(ids) : ids[j] = b
    <3>1. Written(d, ids, data)[b] =
            Data(data[CHOOSE j \in 1 .. Len(ids) : ids[j] = b /\ \A m \in j + 1 .. Len(ids) : ids[m] # b])
      BY <2>2 DEF Written
    <3> QED BY <1>2, <2>1, <3>1
  <2>3. CASE ~ \E j \in 1 .. Len(ids) : ids[j] = b
    BY <1>2, <2>3 DEF Written
  <2> QED BY <2>2, <2>3
<1> QED
  BY <1>1, <1>2

-----------------------------------------------------------------------------
(* The parts of Grow *)

Old(i)       == inode[i].size
DirectNew(i, n) == MinOf(n, NDIRECT) - Old(i)
More(n)      == IF n > NDIRECT THEN 1 + n - NDIRECT ELSE 0
Fresh(i, n)  == AllocBlocks(bitmap, DirectNew(i, n) + More(n))
Blks(i, n)   == [k \in 0 .. NDIRECT |->
                   IF Old(i) <= k /\ k < Old(i) + DirectNew(i, n) THEN Fresh(i, n).ids[k - Old(i) + 1]
                   ELSE IF k = NDIRECT /\ More(n) > 0 THEN Fresh(i, n).ids[DirectNew(i, n) + 1]
                   ELSE inode[i].blocks[k]]
Tabled(i, n) == SubSeq(Fresh(i, n).ids, DirectNew(i, n) + 2, DirectNew(i, n) + More(n))
Disked(i, n) == IF More(n) > 0 THEN [disk EXCEPT ![Blks(i, n)[NDIRECT]] = Table(Tabled(i, n))] ELSE disk
Clash(i, n)  == More(n) > 0 /\ \E k \in 0 .. NDIRECT - 1 : Blks(i, n)[k] = Blks(i, n)[NDIRECT]

LEMMA GrowDef ==
  ASSUME NEW i, NEW n, NEW data, Grow(i, n, data)
  PROVE  \/ fault' = "garbage" /\ UNCHANGED <<bitmap, inode, disk>>
         \/ /\ ~Clash(i, n) /\ bitmap' = Fresh(i, n).bitmap
            /\ inode' = [inode EXCEPT ![i].size = n, ![i].blocks = Blks(i, n)]
            /\ disk' = Written(Disked(i, n), Direct(Blks(i, n), n) \o Tabled(i, n), data)
            /\ UNCHANGED fault
BY DEF Grow, Old, DirectNew, More, Fresh, Blks, Tabled, Disked, Clash

-----------------------------------------------------------------------------
(* Types *)

\* The constants of the inode table.
LEMMA InodeSizes ==
  /\ NDIRECT \in Nat /\ NDIRECT > 0 /\ NDIRECT <= BPB /\ NINDIRECT \in Nat
  /\ MAXFILE \in Nat /\ NDIRECT <= MAXFILE /\ MaxAlloc \in Nat /\ Inum \subseteq Nat
  /\ PutSizes \subseteq 0 .. MAXFILE
BY InodeConstants, ExtentConstants, BlockConstants DEF MAXFILE, Inum

\* The inode table is in the part of the disk that the variable disk covers.
LEMMA InodeBlock ==
  ASSUME NEW i \in Inum
  PROVE  IBLOCK(i) \in BlockId
<1>1. i \in Nat /\ i <= INODE_NUM /\ INODE_NUM \in Nat /\ IPB \in Nat /\ IPB > 0
  BY BlockConstants DEF Inum
<1>2. i \div IPB <= INODE_NUM \div IPB /\ i \div IPB \in Nat /\ INODE_NUM \div IPB \in Nat
  BY <1>1, DivOrder, Division
<1>3. BLOCK_NUM \div BPB \in Nat
  BY Sizes, Division
<1>4. IBLOCK(i) \in Nat /\ IBLOCK(i) <= FirstBlock
  BY <1>2, <1>3 DEF IBLOCK, FirstBlock
<1>5. PICK u \in Nat : u = UINT8 * BYTE
  BY Sizes
<1>6. FirstBlock < u /\ u <= BPB /\ BPB <= BLOCK_NUM /\ BPB \in Nat /\ BLOCK_NUM \in Nat /\ FirstBlock \in Nat
  BY <1>5, Sizes
<1> QED
  BY <1>4, <1>6 DEF BlockId

\* alloc_inode stops at an inode that is free or no longer in the table.
LEMMA FirstFreeOK ==
  ASSUME \E i \in Inum : ~InTable(i) \/ ~Exists(i)
  PROVE  FirstFree \in Inum /\ (~InTable(FirstFree) \/ ~Exists(FirstFree))
<1> DEFINE C == {i \in Inum : ~InTable(i) \/ ~Exists(i)}
<1>1. C \subseteq Nat /\ C # {}
  BY InodeSizes
<1> HIDE DEF C
<1>2. \E x \in C : \A y \in C : x <= y
  BY <1>1, LeastNat
<1>3. (CHOOSE x \in C : \A y \in C : x <= y) \in C
  BY <1>2
<1>4. FirstFree = CHOOSE x \in C : \A y \in C : x <= y
  BY DEF FirstFree, C
<1> QED
  BY <1>3, <1>4 DEF C

\* What is known of a file that is to grow.
GrowPre(i, n) ==
  i \in Inum /\ n \in 0 .. MAXFILE /\ Old(i) < n /\ Old(i) <= NDIRECT

LEMMA GrowSizes ==
  ASSUME TypeOK, NEW i, NEW n, GrowPre(i, n)
  PROVE  /\ Old(i) \in Nat /\ DirectNew(i, n) \in Nat /\ More(n) \in Nat
         /\ n > NDIRECT => DirectNew(i, n) = NDIRECT - Old(i) /\ More(n) = n - NDIRECT + 1
         /\ n <= NDIRECT => DirectNew(i, n) = n - Old(i) /\ More(n) = 0
         /\ Allocs(i, n) = DirectNew(i, n) + More(n)
<1>1. Old(i) \in Nat /\ n \in Nat /\ NDIRECT \in Nat
  BY InodeSizes DEF GrowPre, Old, TypeOK, InodeTypeOK
<1>2. Allocs(i, n) = n - Old(i) + (IF n > NDIRECT THEN 1 ELSE 0)
  BY <1>1 DEF Allocs, Old, GrowPre
<1>3. CASE n > NDIRECT
  <2>1. MinOf(n, NDIRECT) = NDIRECT
    BY <1>1, <1>3 DEF MinOf
  <2> QED BY <1>1, <1>2, <1>3, <2>1 DEF DirectNew, More, GrowPre
<1>4. CASE n <= NDIRECT
  <2>1. MinOf(n, NDIRECT) = n
    BY <1>1, <1>4 DEF MinOf
  <2> QED BY <1>1, <1>2, <1>4, <2>1 DEF DirectNew, More, GrowPre
<1> QED
  BY <1>1, <1>3, <1>4

LEMMA GrowTyped ==
  ASSUME TypeOK, NEW i, NEW n, GrowPre(i, n)
  PROVE  /\ Fresh(i, n).bitmap \subseteq BlockId
         /\ Fresh(i, n).ids \in Seq(BlockId)
         /\ Len(Fresh(i, n).ids) = DirectNew(i, n) + More(n)
         /\ Blks(i, n) \in [0 .. NDIRECT -> BlockId]
<1> DEFINE m == DirectNew(i, n) + More(n)
           a == Fresh(i, n)
<1>1. m \in Nat /\ bitmap \subseteq BlockId
  BY GrowSizes DEF TypeOK, InodeTypeOK
<1>2. a.bitmap \subseteq BlockId /\ a.ids \in Seq(BlockId) /\ Len(a.ids) = m
  BY <1>1, AllocTyped DEF Fresh
<1>3. \A j \in 1 .. m : a.ids[j] \in BlockId
  BY <1>2
<1>4. inode[i].blocks \in [0 .. NDIRECT -> BlockId]
  BY DEF TypeOK, InodeTypeOK, GrowPre
<1>5. ASSUME NEW k \in 0 .. NDIRECT PROVE Blks(i, n)[k] \in BlockId
  <2>1. /\ Old(i) \in Nat /\ DirectNew(i, n) \in Nat /\ More(n) \in Nat /\ NDIRECT \in Nat
    BY GrowSizes, InodeSizes
  <2>2. CASE Old(i) <= k /\ k < Old(i) + DirectNew(i, n)
    <3>1. k - Old(i) + 1 \in 1 .. m
      BY <2>1, <2>2
    <3>2. Blks(i, n)[k] = a.ids[k - Old(i) + 1]
      BY <2>2 DEF Blks
    <3> QED BY <1>3, <3>1, <3>2
  <2>3. CASE ~(Old(i) <= k /\ k < Old(i) + DirectNew(i, n)) /\ k = NDIRECT /\ More(n) > 0
    <3>1. DirectNew(i, n) + 1 \in 1 .. m
      BY <2>1, <2>3
    <3>2. Blks(i, n)[k] = a.ids[DirectNew(i, n) + 1]
      BY <2>3 DEF Blks
    <3> QED BY <1>3, <3>1, <3>2
  <2>4. CASE ~(Old(i) <= k /\ k < Old(i) + DirectNew(i, n)) /\ ~(k = NDIRECT /\ More(n) > 0)
    <3>1. Blks(i, n)[k] = inode[i].blocks[k]
      BY <2>4 DEF Blks
    <3> QED BY <1>4, <3>1
  <2> QED BY <2>2, <2>3, <2>4
<1>6. Blks(i, n) \in [0 .. NDIRECT -> BlockId]
  <2>1. Blks(i, n) = [k \in 0 .. NDIRECT |-> Blks(i, n)[k]]
    BY DEF Blks
  <2> QED BY <1>5, <2>1
<1> QED
  BY <1>2, <1>6

\* The length of what is put, and its blocks.
LEMMA ContentOK ==
  ASSUME NEW v \in Val, NEW n \in 0 .. MAXFILE
  PROVE  Content(v, n) \in Seq(Val \X (1 .. MAXFILE)) /\ Len(Content(v, n)) = n
<1>1. n \in Nat /\ \A k \in 1 .. n : <<v, k>> \in Val \X (1 .. MAXFILE)
  BY InodeSizes
<1> QED
  BY <1>1 DEF Content

\* What put does to the variables of inode_manager, when nothing goes wrong.
LEMMA PutCases ==
  ASSUME TypeOK, NEW i \in Inum, NEW v \in Val, NEW n \in PutSizes, put(i, v, n)
  PROVE  /\ fault = "none" /\ (~InTable(i) \/ Exists(i)) /\ n \in 0 .. MAXFILE
         /\ file' = [file EXCEPT ![i] = Content(v, n)]
         /\ nalloc' = nalloc + Allocs(i, n) /\ nalloc + Allocs(i, n) <= MaxAlloc
         /\ \/ InTable(i) /\ TableOK(i) /\ GrowPre(i, n) /\ Grow(i, n, Content(v, n))
            \/ InTable(i) /\ TableOK(i) /\ n <= Old(i) /\ n <= NDIRECT /\ Shrink(i, n, Content(v, n))
            \/ fault' \in Faults \ {"none"} /\ UNCHANGED <<bitmap, inode, disk>>
<1>1. n \in 0 .. MAXFILE
  BY InodeSizes
<1>2. Len(Content(v, n)) = n
  BY <1>1, ContentOK
<1> QED
  BY <1>1, <1>2 DEF put, write_file, GrowPre, Old, Faults

LEMMA AllocsNat ==
  ASSUME TypeOK, NEW i \in Inum, NEW n \in 0 .. MAXFILE
  PROVE  Allocs(i, n) \in Nat
<1>1. inode[i].size \in Nat /\ n \in Nat /\ NDIRECT \in Nat
  BY InodeSizes DEF TypeOK, InodeTypeOK
<1> QED
  BY <1>1 DEF Allocs

\* put keeps the types.
LEMMA PutTyped ==
  ASSUME TypeOK, NEW i \in Inum, NEW v \in Val, NEW n \in PutSizes, put(i, v, n)
  PROVE  TypeOK'
<1> DEFINE I == [used : BOOLEAN, size : 0 .. MAXFILE, blocks : [0 .. NDIRECT -> BlockId]]
<1>1. /\ bitmap \subseteq BlockId /\ inode \in [Inum -> I] /\ DOMAIN disk = BlockId /\ fault \in Faults
      /\ file \in [Inum -> Seq(Val \X (1 .. MAXFILE))] /\ nalloc \in Nat
  BY DEF TypeOK, InodeTypeOK
<1>2. n \in 0 .. MAXFILE
  BY InodeSizes
<1>3. file' \in [Inum -> Seq(Val \X (1 .. MAXFILE))]
  <2>1. Content(v, n) \in Seq(Val \X (1 .. MAXFILE)) /\ file' = [file EXCEPT ![i] = Content(v, n)]
    BY <1>2, ContentOK, PutCases
  <2> DEFINE Q == Seq(Val \X (1 .. MAXFILE))
             c == Content(v, n)
  <2>2. c \in Q /\ file' = [file EXCEPT ![i] = c] /\ file \in [Inum -> Q]
    BY <1>1, <2>1
  <2> HIDE DEF Q, c
  <2>3. file' \in [Inum -> Q]
    BY <2>2
  <2> QED BY <2>3 DEF Q
<1>4. nalloc' \in 0 .. MaxAlloc
  <2>1. nalloc' = nalloc + Allocs(i, n) /\ nalloc + Allocs(i, n) <= MaxAlloc /\ Allocs(i, n) \in Nat
    BY <1>2, PutCases, AllocsNat
  <2> QED BY <1>1, <2>1
<1>5. InodeTypeOK'
  <2>1. CASE fault' \in Faults \ {"none"} /\ UNCHANGED <<bitmap, inode, disk>>
    BY <1>1, <2>1 DEF InodeTypeOK
  <2>2. CASE GrowPre(i, n) /\ Grow(i, n, Content(v, n))
    <3>1. CASE fault' = "garbage" /\ UNCHANGED <<bitmap, inode, disk>>
      BY <1>1, <3>1 DEF InodeTypeOK, Faults
    <3>2. CASE /\ ~Clash(i, n) /\ bitmap' = Fresh(i, n).bitmap
               /\ inode' = [inode EXCEPT ![i].size = n, ![i].blocks = Blks(i, n)]
               /\ disk' = Written(Disked(i, n), Direct(Blks(i, n), n) \o Tabled(i, n), Content(v, n))
               /\ UNCHANGED fault
      <4>1. bitmap' \subseteq BlockId /\ Blks(i, n) \in [0 .. NDIRECT -> BlockId]
        BY <2>2, <3>2, GrowTyped
      <4>2. inode' \in [Inum -> I]
        <5> DEFINE b == Blks(i, n)
        <5>1. b \in [0 .. NDIRECT -> BlockId] /\ inode' = [inode EXCEPT ![i].size = n, ![i].blocks = b]
          BY <3>2, <4>1
        <5> HIDE DEF b
        <5> QED BY <1>1, <1>2, <5>1
      <4>3. DOMAIN disk' = BlockId
        BY <3>2, WrittenZero
      <4> QED BY <1>1, <3>2, <4>1, <4>2, <4>3 DEF InodeTypeOK
    <3> QED BY <2>2, <3>1, <3>2, GrowDef
  <2>3. CASE n <= Old(i) /\ n <= NDIRECT /\ Shrink(i, n, Content(v, n))
    <3>1. /\ \E S : bitmap' = FreeBlocks(bitmap, S)
          /\ inode' = [inode EXCEPT ![i].size = n, ![i].blocks = Used(@, n)]
          /\ disk' = Written(disk, Direct(inode[i].blocks, n), Content(v, n))
          /\ UNCHANGED fault
      BY <2>3 DEF Shrink, NewSize
    <3>2. bitmap' \subseteq BlockId
      BY <1>1, <3>1, FreeTyped
    <3>3. inode' \in [Inum -> I]
      <4> DEFINE b == Used(inode[i].blocks, n)
      <4>1. b \in [0 .. NDIRECT -> BlockId]
        <5>1. inode[i].blocks \in [0 .. NDIRECT -> BlockId] /\ 0 \in BlockId
          BY <1>1, Sizes DEF BlockId
        <5> QED BY <5>1 DEF Used
      <4>2. inode' = [inode EXCEPT ![i].size = n, ![i].blocks = b]
        BY <1>1, <3>1
      <4> HIDE DEF b
      <4> QED BY <1>1, <1>2, <4>1, <4>2
    <3>4. DOMAIN disk' = BlockId
      BY <3>1, WrittenZero
    <3> QED BY <1>1, <3>1, <3>2, <3>3, <3>4 DEF InodeTypeOK
  <2> QED BY <2>1, <2>2, <2>3, PutCases
<1> QED
  BY <1>3, <1>4, <1>5 DEF TypeOK

\* A free inode is an inode.
LEMMA NoInodeTyped ==
  NoInode \in [used : BOOLEAN, size : 0 .. MAXFILE, blocks : [0 .. NDIRECT -> BlockId]]
<1>1. 0 \in BlockId /\ 0 \in 0 .. MAXFILE
  BY Sizes, InodeSizes DEF BlockId
<1>2. [k \in 0 .. NDIRECT |-> 0] \in [0 .. NDIRECT -> BlockId]
  BY <1>1
<1> QED
  BY <1>1, <1>2 DEF NoInode

LEMMA InitTyped == Init => TypeOK
<1> SUFFICES ASSUME Init PROVE TypeOK
  OBVIOUS
<1> DEFINE I == [used : BOOLEAN, size : 0 .. MAXFILE, blocks : [0 .. NDIRECT -> BlockId]]
<1>1. NoInode \in I
  BY NoInodeTyped
<1>2. inode = [i \in Inum |-> [NoInode EXCEPT !.used = (i = 1)]]
  BY DEF Init, InodeInit
<1>3. \A i \in Inum : [NoInode EXCEPT !.used = (i = 1)] \in I
  BY <1>1
<1>4. inode \in [Inum -> I]
  BY <1>2, <1>3
<1>5. file \in [Inum -> Seq(Val \X (1 .. MAXFILE))]
  <2>1. <<>> \in Seq(Val \X (1 .. MAXFILE))
    OBVIOUS
  <2> QED BY <2>1 DEF Init
<1>6. nalloc \in 0 .. MaxAlloc
  BY InodeSizes DEF Init
<1> QED
  BY <1>4, <1>5, <1>6 DEF Init, InodeInit, TypeOK, InodeTypeOK, Faults

LEMMA NextTyped == TypeOK /\ [Next]_vars => TypeOK'
<1> SUFFICES ASSUME TypeOK, [Next]_vars PROVE TypeOK'
  OBVIOUS
<1> DEFINE I == [used : BOOLEAN, size : 0 .. MAXFILE, blocks : [0 .. NDIRECT -> BlockId]]
           Q == Seq(Val \X (1 .. MAXFILE))
<1>1. /\ bitmap \subseteq BlockId /\ inode \in [Inum -> I] /\ DOMAIN disk = BlockId /\ fault \in Faults
      /\ file \in [Inum -> Q] /\ nalloc \in 0 .. MaxAlloc /\ NoInode \in I /\ <<>> \in Q
  BY NoInodeTyped DEF TypeOK, InodeTypeOK
<1>2. CASE create
  <2>1. /\ FirstFree \in Inum /\ UNCHANGED <<bitmap, disk, nalloc>>
        /\ file' = IF fault' = "none" THEN [file EXCEPT ![FirstFree] = <<>>] ELSE file
        /\ \/ inode' = [inode EXCEPT ![FirstFree] = [NoInode EXCEPT !.used = TRUE]] /\ UNCHANGED fault
           \/ fault' = "garbage" /\ UNCHANGED inode
    BY <1>2, FirstFreeOK DEF create, alloc_inode
  <2>2. [NoInode EXCEPT !.used = TRUE] \in I
    BY <1>1
  <2> DEFINE c == [NoInode EXCEPT !.used = TRUE]
             e == FirstFree
  <2> HIDE DEF c, e, I, Q
  <2>3. inode' \in [Inum -> I] /\ file' \in [Inum -> Q]
    BY <1>1, <2>1, <2>2 DEF c, e
  <2> QED BY <1>1, <2>1, <2>3 DEF TypeOK, InodeTypeOK, Faults, I, Q
<1>3. CASE \E i \in Inum, v \in Val, n \in PutSizes : put(i, v, n)
  BY <1>3, PutTyped
<1>4. CASE \E i \in Inum : remove(i)
  <2>1. PICK i \in Inum : remove(i)
    BY <1>4
  <2>2. /\ UNCHANGED <<disk, nalloc>> /\ file' = [file EXCEPT ![i] = <<>>]
        /\ \/ /\ \E S : bitmap' = FreeBlocks(bitmap, S)
              /\ inode' = [inode EXCEPT ![i] = NoInode] /\ UNCHANGED fault
           \/ fault' = "garbage" /\ UNCHANGED <<bitmap, inode>>
    BY <2>1 DEF remove, remove_file
  <2>3. bitmap' \subseteq BlockId
    BY <1>1, <2>2, FreeTyped
  <2> HIDE DEF I, Q
  <2>4. inode' \in [Inum -> I] /\ file' \in [Inum -> Q]
    BY <1>1, <2>2
  <2> QED BY <1>1, <2>2, <2>3, <2>4 DEF TypeOK, InodeTypeOK, Faults, I, Q
<1>5. CASE Faulted \/ UNCHANGED vars
  BY <1>1, <1>5 DEF Faulted, vars, inodeVars, TypeOK, InodeTypeOK
<1> QED
  BY <1>2, <1>3, <1>4, <1>5 DEF Next

\* The bitmap keeps to the blocks of the disk, every inode has a size that a
\* file may have and refers to blocks of the disk, whatever alloc_block and
\* free_block truncate, for every size of the disk and of the inode table.
THEOREM ExtentTypeCorrect == Spec => []TypeOK
<1>1. Init => TypeOK
  BY InitTyped
<1>2. TypeOK /\ [Next]_vars => TypeOK'
  BY NextTyped
<1> QED
  BY <1>1, <1>2, PTL DEF Spec

-----------------------------------------------------------------------------
(* The invariant of the young file system *)

\* The number of references of a file of n blocks, and the place among them of
\* its k-th block
Count(n) == IF n > NDIRECT THEN n + 1 ELSE n
Place(k) == IF k <= NDIRECT THEN k ELSE k + 1

\* Inode i becomes r, whose references are N[1] .. N[Count(n)], with the given
\* data, and no other block than these changes.
Rewrite(i, n, data, r, N, t) ==
  /\ inode' = [inode EXCEPT ![i] = r]
  /\ r.size = n
  /\ \A k \in 1 .. Count(n) : k <= NDIRECT + 1 => r.blocks[k - 1] = N[k]
  /\ \A k \in 1 .. n : disk'[N[Place(k)]] = Data(data[k])
  /\ n > NDIRECT => /\ disk'[N[NDIRECT + 1]] = Table(t)
                    /\ t \in Seq(BlockId) /\ Len(t) = n - NDIRECT
                    /\ \A k \in 1 .. n - NDIRECT : t[k] = N[NDIRECT + 1 + k]
  /\ \A b \in BlockId : disk'[b] = Zero => disk[b] = Zero
  /\ \A b \in BlockId : (\A k \in 1 .. Count(n) : N[k] # b) => disk'[b] = disk[b]
  /\ file' = [file EXCEPT ![i] = data]

\* The references of the rewritten file are distinct blocks that are taken now
\* and do not belong to other files.
Separate(i, n, N) ==
  /\ \A k, l \in 1 .. Count(n) : N[k] = N[l] => k = l
  /\ \A k \in 1 .. Count(n) : N[k] \in Taken'
  /\ \A j \in Inum : Intact(j) /\ j # i =>
       \A k \in 1 .. Count(n), l \in 1 .. RefCount(j) : N[k] # RefAt(j, l)

\* Blocks taken stay taken, and are blocks of the disk while it is young.
LEMMA TakenGrows ==
  ASSUME TypeOK, nalloc' \in Nat, nalloc <= nalloc'
  PROVE  /\ Taken \subseteq Taken'
         /\ Young' => Young /\ Taken' \subseteq BlockId /\ Taken \subseteq BlockId
<1>1. nalloc \in Nat /\ FirstBlock \in Nat
  BY Sizes DEF TypeOK
<1>2. PICK u \in Nat : u = UINT8 * BYTE
  BY Sizes
<1>3. u <= BPB /\ BPB <= BLOCK_NUM /\ BPB \in Nat /\ BLOCK_NUM \in Nat
  BY <1>2, Sizes
<1>4. Young' => nalloc' <= u - FirstBlock
  BY <1>2 DEF Young
<1>5. nalloc' <= u - FirstBlock => Young
  BY <1>1, <1>2 DEF Young
<1>8. PICK m \in Nat : m = nalloc'
  OBVIOUS
<1>9. Taken' = FirstBlock .. FirstBlock + m - 1 /\ Taken = FirstBlock .. FirstBlock + nalloc - 1
  BY <1>8 DEF Taken
<1>10. nalloc <= m
  BY <1>8
<1>6. Taken \subseteq Taken'
  BY <1>1, <1>9, <1>10
<1>7. m <= u - FirstBlock => Taken' \subseteq BlockId /\ Taken \subseteq BlockId
  BY <1>1, <1>3, <1>9, <1>10 DEF BlockId
<1> QED
  BY <1>4, <1>5, <1>6, <1>7, <1>8

\* A file that is not touched keeps its references.
LEMMA OtherFile ==
  ASSUME TypeOK, TypeOK', RefsInv, TablesInv, Taken \subseteq BlockId,
         NEW i \in Inum, NEW n, NEW data, NEW r, NEW N, NEW t,
         Rewrite(i, n, data, r, N, t), Separate(i, n, N),
         NEW j \in Inum, j # i, Intact(j)'
  PROVE  /\ Intact(j) /\ inode'[j] = inode[j] /\ RefCount(j)' = RefCount(j)
         /\ \A k \in 1 .. RefCount(j) : /\ RefAt(j, k)' = RefAt(j, k)
                                        /\ RefAt(j, k) \in Taken
                                        /\ disk'[RefAt(j, k)] = disk[RefAt(j, k)]
         /\ inode[j].size > NDIRECT => /\ Indirect(j)' = Indirect(j)
                                       /\ disk'[inode[j].blocks[NDIRECT]] = disk[inode[j].blocks[NDIRECT]]
<1>1. inode'[j] = inode[j]
  BY DEF Rewrite, TypeOK, InodeTypeOK
<1>2. Intact(j)
  <2>1. IBLOCK(j) \in BlockId
    BY InodeBlock
  <2>2. disk'[IBLOCK(j)] = Zero /\ inode'[j].used
    BY DEF Intact, InTable, Exists
  <2>3. disk[IBLOCK(j)] = Zero
    BY <2>1, <2>2 DEF Rewrite
  <2> QED BY <1>1, <2>2, <2>3 DEF Intact, InTable, Exists
<1>3. RefCount(j)' = RefCount(j)
  BY <1>1 DEF RefCount
<1>4. \A k \in 1 .. RefCount(j) : RefAt(j, k) \in Taken
  BY <1>2 DEF RefsInv
<1>5. ASSUME NEW k \in 1 .. RefCount(j) PROVE disk'[RefAt(j, k)] = disk[RefAt(j, k)]
  <2>1. RefAt(j, k) \in BlockId
    BY <1>4
  <2>2. \A l \in 1 .. Count(n) : N[l] # RefAt(j, k)
    BY <1>2 DEF Separate
  <2> QED BY <2>1, <2>2 DEF Rewrite
<1>6. ASSUME inode[j].size > NDIRECT
      PROVE  /\ Indirect(j)' = Indirect(j)
             /\ disk'[inode[j].blocks[NDIRECT]] = disk[inode[j].blocks[NDIRECT]]
  <2>1. inode[j].size \in Nat /\ NDIRECT \in Nat
    BY InodeSizes DEF TypeOK, InodeTypeOK
  <2>2. NDIRECT + 1 \in 1 .. RefCount(j) /\ RefAt(j, NDIRECT + 1) = inode[j].blocks[NDIRECT]
    BY <1>6, <2>1 DEF RefCount, RefAt
  <2>3. disk'[inode[j].blocks[NDIRECT]] = disk[inode[j].blocks[NDIRECT]]
    BY <1>5, <2>2
  <2> QED BY <1>1, <2>3 DEF Indirect
<1>7. ASSUME NEW k \in 1 .. RefCount(j) PROVE RefAt(j, k)' = RefAt(j, k)
  <2>1. inode[j].size \in Nat /\ NDIRECT \in Nat
    BY InodeSizes DEF TypeOK, InodeTypeOK
  <2>2. CASE k <= NDIRECT + 1
    BY <1>1, <2>2 DEF RefAt
  <2>3. CASE ~(k <= NDIRECT + 1)
    <3>1. inode[j].size > NDIRECT
      BY <2>1, <2>3 DEF RefCount
    <3>2. Indirect(j)' = Indirect(j)
      BY <1>6, <3>1
    <3> QED BY <2>3, <3>2 DEF RefAt
  <2> QED BY <2>2, <2>3
<1> QED
  BY <1>1, <1>2, <1>3, <1>4, <1>5, <1>6, <1>7

\* The file that is rewritten has the references it is given.
LEMMA ThisFile ==
  ASSUME TypeOK, NEW i \in Inum, NEW n \in 0 .. MAXFILE, NEW data, NEW r, NEW N, NEW t,
         Rewrite(i, n, data, r, N, t)
  PROVE  /\ inode'[i] = r /\ inode'[i].size = n /\ RefCount(i)' = Count(n) /\ file'[i] = data
         /\ \A k \in 1 .. Count(n) : RefAt(i, k)' = N[k]
         /\ n > NDIRECT => Indirect(i)' = t /\ disk'[inode'[i].blocks[NDIRECT]] = Table(t)
<1>1. inode'[i] = r /\ inode'[i].size = n /\ file'[i] = data
  BY DEF Rewrite, TypeOK, InodeTypeOK
<1>2. n \in Nat /\ NDIRECT \in Nat
  BY InodeSizes
<1>3. RefCount(i)' = Count(n)
  BY <1>1 DEF RefCount, Count
<1>4. ASSUME n > NDIRECT
      PROVE  Indirect(i)' = t /\ disk'[inode'[i].blocks[NDIRECT]] = Table(t)
  <2>1. NDIRECT + 1 \in 1 .. Count(n) /\ NDIRECT + 1 <= NDIRECT + 1 /\ (NDIRECT + 1) - 1 = NDIRECT
    BY <1>2, <1>4 DEF Count
  <2>2. r.blocks[NDIRECT] = N[NDIRECT + 1]
    BY <2>1 DEF Rewrite
  <2>3. disk'[r.blocks[NDIRECT]] = Table(t)
    BY <1>4, <2>2 DEF Rewrite
  <2> QED BY <1>1, <2>3 DEF Indirect, Table
<1>5. ASSUME NEW k \in 1 .. Count(n) PROVE RefAt(i, k)' = N[k]
  <2>1. CASE k <= NDIRECT + 1
    BY <1>1, <2>1 DEF RefAt, Rewrite
  <2>2. CASE ~(k <= NDIRECT + 1)
    <3>1. n > NDIRECT /\ k - NDIRECT - 1 \in 1 .. n - NDIRECT /\ NDIRECT + 1 + (k - NDIRECT - 1) = k
      BY <1>2, <2>2 DEF Count
    <3>2. t[k - NDIRECT - 1] = N[NDIRECT + 1 + (k - NDIRECT - 1)]
      BY <3>1 DEF Rewrite
    <3> QED BY <1>4, <2>2, <3>1, <3>2 DEF RefAt
  <2> QED BY <2>1, <2>2
<1> QED
  BY <1>1, <1>3, <1>4, <1>5

\* Rewriting a file in this way keeps the references apart, the tables and the
\* contents of all files.
LEMMA Rewritten ==
  ASSUME TypeOK, TypeOK', RefsInv, TablesInv, FilesInv, Taken \subseteq BlockId, Taken \subseteq Taken',
         NEW i \in Inum, NEW n \in 0 .. MAXFILE, NEW data, Len(data) = n, NEW r, NEW N, NEW t,
         Rewrite(i, n, data, r, N, t), Separate(i, n, N)
  PROVE  RefsInv' /\ TablesInv' /\ FilesInv'
<1>1. \A j \in Inum : j # i /\ Intact(j)' =>
        /\ Intact(j) /\ inode'[j] = inode[j] /\ RefCount(j)' = RefCount(j)
        /\ \A k \in 1 .. RefCount(j) : /\ RefAt(j, k)' = RefAt(j, k)
                                       /\ RefAt(j, k) \in Taken
                                       /\ disk'[RefAt(j, k)] = disk[RefAt(j, k)]
        /\ inode[j].size > NDIRECT => /\ Indirect(j)' = Indirect(j)
                                      /\ disk'[inode[j].blocks[NDIRECT]] = disk[inode[j].blocks[NDIRECT]]
  BY OtherFile
<1>2. /\ inode'[i] = r /\ inode'[i].size = n /\ RefCount(i)' = Count(n) /\ file'[i] = data
      /\ \A k \in 1 .. Count(n) : RefAt(i, k)' = N[k]
      /\ n > NDIRECT => Indirect(i)' = t /\ disk'[inode'[i].blocks[NDIRECT]] = Table(t)
  BY ThisFile
<1>3. RefsInv'
  <2> SUFFICES ASSUME NEW j \in Inum, NEW h \in Inum, Intact(j)', Intact(h)',
                      NEW k \in 1 .. RefCount(j)', NEW l \in 1 .. RefCount(h)'
               PROVE  /\ RefAt(j, k)' \in Taken'
                      /\ (RefAt(j, k)' = RefAt(h, l)' => j = h /\ k = l)
    BY DEF RefsInv
  <2>1. RefAt(j, k)' \in Taken'
    <3>1. CASE j = i
      <4>1. k \in 1 .. Count(n) /\ RefAt(i, k)' = N[k]
        BY <1>2, <3>1
      <4> QED BY <3>1, <4>1 DEF Separate
    <3>2. CASE j # i
      BY <1>1, <3>2
    <3> QED BY <3>1, <3>2
  <2>2. CASE j = i /\ h = i
    <3>1. k \in 1 .. Count(n) /\ l \in 1 .. Count(n) /\ RefAt(j, k)' = N[k] /\ RefAt(h, l)' = N[l]
      BY <1>2, <2>2
    <3> QED BY <2>1, <2>2, <3>1 DEF Separate
  <2>3. CASE j = i /\ h # i
    <3>1. k \in 1 .. Count(n) /\ RefAt(j, k)' = N[k]
      BY <1>2, <2>3
    <3>2. Intact(h) /\ l \in 1 .. RefCount(h) /\ RefAt(h, l)' = RefAt(h, l)
      BY <1>1, <2>3
    <3> QED BY <2>1, <2>3, <3>1, <3>2 DEF Separate
  <2>4. CASE j # i /\ h = i
    <3>1. l \in 1 .. Count(n) /\ RefAt(h, l)' = N[l]
      BY <1>2, <2>4
    <3>2. Intact(j) /\ k \in 1 .. RefCount(j) /\ RefAt(j, k)' = RefAt(j, k)
      BY <1>1, <2>4
    <3> QED BY <2>1, <2>4, <3>1, <3>2 DEF Separate
  <2>5. CASE j # i /\ h # i
    <3>1. Intact(j) /\ k \in 1 .. RefCount(j) /\ RefAt(j, k)' = RefAt(j, k)
      BY <1>1, <2>5
    <3>2. Intact(h) /\ l \in 1 .. RefCount(h) /\ RefAt(h, l)' = RefAt(h, l)
      BY <1>1, <2>5
    <3>3. RefAt(j, k) = RefAt(h, l) => j = h /\ k = l
      BY <3>1, <3>2 DEF RefsInv
    <3> QED BY <2>1, <3>1, <3>2, <3>3
  <2> QED BY <2>2, <2>3, <2>4, <2>5
<1>4. TablesInv'
  <2> SUFFICES ASSUME NEW j \in Inum, Intact(j)', inode'[j].size > NDIRECT
               PROVE  /\ disk'[inode'[j].blocks[NDIRECT]] = Table(Indirect(j)')
                      /\ Indirect(j)' \in Seq(BlockId) /\ Len(Indirect(j)') = inode'[j].size - NDIRECT
    BY DEF TablesInv
  <2>1. CASE j = i
    BY <1>2, <2>1 DEF Rewrite
  <2>2. CASE j # i
    <3>1. Intact(j) /\ inode'[j] = inode[j] /\ inode[j].size > NDIRECT
      BY <1>1, <2>2
    <3>2. Indirect(j)' = Indirect(j) /\ disk'[inode[j].blocks[NDIRECT]] = disk[inode[j].blocks[NDIRECT]]
      BY <1>1, <2>2, <3>1
    <3>3. /\ disk[inode[j].blocks[NDIRECT]] = Table(Indirect(j))
          /\ Indirect(j) \in Seq(BlockId) /\ Len(Indirect(j)) = inode[j].size - NDIRECT
      BY <3>1 DEF TablesInv
    <3> QED BY <3>1, <3>2, <3>3
  <2> QED BY <2>1, <2>2
<1>5. FilesInv'
  <2>a. NDIRECT \in Nat /\ n \in Nat
    BY InodeSizes
  <2> SUFFICES ASSUME NEW j \in Inum, Intact(j)'
               PROVE  /\ Len(file'[j]) = inode'[j].size
                      /\ \A k \in 1 .. inode'[j].size : disk'[DataAt(j, k)'] = Data(file'[j][k])
    BY DEF FilesInv
  <2>1. \A k : DataAt(j, k)' = RefAt(j, Place(k))'
    BY DEF DataAt, Place
  <2>2. CASE j = i
    <3>1. ASSUME NEW k \in 1 .. n PROVE disk'[DataAt(i, k)'] = Data(data[k])
      <4>1. Place(k) \in 1 .. Count(n)
        BY <2>a DEF Place, Count
      <4>2. DataAt(i, k)' = N[Place(k)]
        BY <1>2, <2>1, <2>2, <4>1
      <4> QED BY <4>2 DEF Rewrite
    <3> QED BY <1>2, <2>2, <3>1
  <2>3. CASE j # i
    <3>1. Intact(j) /\ inode'[j] = inode[j]
      BY <1>1, <2>3
    <3>2. file'[j] = file[j]
      BY <2>3 DEF Rewrite, TypeOK
    <3>3. /\ Len(file[j]) = inode[j].size
          /\ \A k \in 1 .. inode[j].size : disk[DataAt(j, k)] = Data(file[j][k])
      BY <3>1 DEF FilesInv
    <3>4. inode[j].size \in Nat
      BY DEF TypeOK, InodeTypeOK
    <3>5. ASSUME NEW k \in 1 .. inode[j].size PROVE disk'[DataAt(j, k)'] = Data(file[j][k])
      <4>1. Place(k) \in 1 .. RefCount(j)
        BY <2>a, <3>4 DEF Place, RefCount
      <4>2. DataAt(j, k) = RefAt(j, Place(k))
        BY DEF DataAt, Place
      <4>3. RefAt(j, Place(k))' = RefAt(j, Place(k)) /\ disk'[RefAt(j, Place(k))] = disk[RefAt(j, Place(k))]
        BY <1>1, <2>3, <4>1
      <4> QED BY <2>1, <3>3, <4>2, <4>3
    <3> QED BY <3>1, <3>2, <3>3, <3>5
  <2> QED BY <2>2, <2>3
<1> QED
  BY <1>3, <1>4, <1>5

YoungParts == bitmap = Taken /\ RefsInv /\ TablesInv /\ FilesInv

\* The blocks of an intact file are in the first bitmap block.
LEMMA RefsLow ==
  ASSUME TypeOK, Young, RefsInv, NEW i \in Inum, Intact(i), NEW k \in 1 .. RefCount(i)
  PROVE  RefAt(i, k) \in Taken /\ RefAt(i, k) \in 0 .. BPB - 1
<1>1. RefAt(i, k) \in Taken
  BY DEF RefsInv
<1>2. nalloc \in Nat /\ FirstBlock \in Nat
  BY Sizes DEF TypeOK
<1>3. PICK u \in Nat : u = UINT8 * BYTE
  BY Sizes
<1>4. u <= BPB /\ BPB \in Nat
  BY <1>3, Sizes
<1>5. nalloc <= u - FirstBlock
  BY <1>3 DEF Young
<1> DEFINE x == RefAt(i, k)
<1>6. x \in FirstBlock .. FirstBlock + nalloc - 1
  BY <1>1 DEF Taken
<1> HIDE DEF x
<1>7. x \in 0 .. BPB - 1
  BY <1>2, <1>4, <1>5, <1>6
<1> QED
  BY <1>1, <1>7 DEF x

\* What write_file and remove_file free of an intact file is in the first
\* bitmap block: positions of direct blocks, and blocks of the file.
LEMMA FreedLow ==
  ASSUME TypeOK, Young, RefsInv, NEW i \in Inum, Intact(i), NEW m \in Nat,
         NEW S, S \subseteq (m .. MinOf(Old(i), NDIRECT) - 1)
                  \cup (IF Old(i) > NDIRECT
                        THEN {inode[i].blocks[NDIRECT]} \cup {Indirect(i)[k] : k \in 1 .. Old(i) - NDIRECT}
                        ELSE {})
  PROVE  S \subseteq 0 .. BPB - 1
<1>1. Old(i) \in Nat /\ NDIRECT \in Nat /\ NDIRECT <= BPB /\ BPB \in Nat
  BY InodeSizes, Sizes DEF TypeOK, InodeTypeOK, Old
<1>2. m .. MinOf(Old(i), NDIRECT) - 1 \subseteq 0 .. BPB - 1
  BY <1>1 DEF MinOf
<1>3. ASSUME Old(i) > NDIRECT PROVE inode[i].blocks[NDIRECT] \in 0 .. BPB - 1
  <2>1. NDIRECT + 1 \in 1 .. RefCount(i) /\ RefAt(i, NDIRECT + 1) = inode[i].blocks[NDIRECT]
    BY <1>1, <1>3 DEF RefCount, RefAt, Old
  <2> QED BY <2>1, RefsLow
<1>4. ASSUME Old(i) > NDIRECT, NEW k \in 1 .. Old(i) - NDIRECT
      PROVE  Indirect(i)[k] \in 0 .. BPB - 1
  <2>1. /\ NDIRECT + 1 + k \in 1 .. RefCount(i)
        /\ ~(NDIRECT + 1 + k <= NDIRECT + 1) /\ (NDIRECT + 1 + k) - NDIRECT - 1 = k
    BY <1>1, <1>4 DEF RefCount, Old
  <2>2. RefAt(i, NDIRECT + 1 + k) = Indirect(i)[k]
    BY <2>1 DEF RefAt
  <2> QED BY <2>1, <2>2, RefsLow
<1> QED
  BY <1>2, <1>3, <1>4

\* While it is young, create keeps the parts of the invariant,
LEMMA CreateYoung ==
  ASSUME TypeOK, TypeOK', YoungParts, Young', create, fault' = "none"
  PROVE  YoungParts'
<1> DEFINE i == FirstFree
           r == [NoInode EXCEPT !.used = TRUE]
           e == <<>>
<1>1. /\ i \in Inum /\ UNCHANGED <<bitmap, disk, nalloc>>
      /\ file' = [file EXCEPT ![i] = <<>>] /\ inode' = [inode EXCEPT ![i] = r]
  BY FirstFreeOK DEF create, alloc_inode
<1>2. Taken' = Taken /\ nalloc' \in Nat /\ nalloc <= nalloc'
  BY <1>1 DEF Taken, TypeOK
<1>3. Taken \subseteq BlockId
  BY <1>2, TakenGrows
<1>4. r.size = 0
  BY DEF NoInode
<1>5. NDIRECT \in Nat /\ ~(0 > NDIRECT) /\ Count(0) = 0 /\ 0 \in 0 .. MAXFILE
  BY InodeSizes DEF Count
<1> HIDE DEF i, r
<1>6. Rewrite(i, 0, e, r, e, e) /\ Separate(i, 0, e)
  BY <1>1, <1>4, <1>5 DEF Rewrite, Separate
<1>7. Len(e) = 0
  OBVIOUS
<1> HIDE DEF e
<1>8. RefsInv' /\ TablesInv' /\ FilesInv'
  BY <1>1, <1>2, <1>3, <1>5, <1>6, <1>7, Rewritten DEF YoungParts
<1> QED
  BY <1>1, <1>2, <1>8 DEF YoungParts

\* and so does remove.
LEMMA RemoveYoung ==
  ASSUME TypeOK, TypeOK', YoungParts, Young', NEW i \in Inum, remove(i), fault' = "none"
  PROVE  YoungParts'
<1> DEFINE e == <<>>
           S == (0 .. MinOf(Old(i), NDIRECT) - 1)
                \cup (IF Old(i) > NDIRECT THEN {Indirect(i)[k] : k \in 1 .. Old(i) - NDIRECT} ELSE {})
<1>1. /\ UNCHANGED <<disk, nalloc>> /\ file' = [file EXCEPT ![i] = <<>>]
      /\ inode' = [inode EXCEPT ![i] = NoInode] /\ Intact(i)
      /\ bitmap' = FreeBlocks(bitmap, S)
  BY DEF remove, remove_file, Intact, Old
<1>2. Taken' = Taken /\ nalloc' \in Nat /\ nalloc <= nalloc' /\ nalloc \in Nat
  BY <1>1 DEF Taken, TypeOK
<1>3. Taken \subseteq BlockId /\ Young
  BY <1>2, TakenGrows
<1>4. S \subseteq 0 .. BPB - 1
  BY <1>1, <1>3, FreedLow DEF YoungParts
<1> HIDE DEF S
<1>5. bitmap' = Taken
  <2>1. bitmap = Prefix(nalloc) /\ Taken = Prefix(nalloc)
    BY DEF YoungParts, Taken, Prefix
  <2> QED BY <1>1, <1>2, <1>4, <2>1, FreeYoung
<1>6. NoInode.size = 0
  BY DEF NoInode
<1>7. NDIRECT \in Nat /\ ~(0 > NDIRECT) /\ Count(0) = 0 /\ 0 \in 0 .. MAXFILE
  BY InodeSizes DEF Count
<1>8. Rewrite(i, 0, e, NoInode, e, e) /\ Separate(i, 0, e)
  BY <1>1, <1>6, <1>7 DEF Rewrite, Separate
<1>9. Len(e) = 0
  OBVIOUS
<1> HIDE DEF e
<1>10. RefsInv' /\ TablesInv' /\ FilesInv'
  BY <1>2, <1>3, <1>7, <1>8, <1>9, Rewritten DEF YoungParts
<1> QED
  BY <1>2, <1>5, <1>10 DEF YoungParts

\* A file that does not get longer keeps its first blocks.
LEMMA ShrinkYoung ==
  ASSUME TypeOK, TypeOK', YoungParts, Young', NEW i \in Inum, NEW n \in 0 .. MAXFILE, NEW data,
         Len(data) = n, Intact(i), n <= Old(i), n <= NDIRECT, Shrink(i, n, data),
         UNCHANGED nalloc, file' = [file EXCEPT ![i] = data]
  PROVE  YoungParts'
<1> DEFINE S == (n .. MinOf(Old(i), NDIRECT) - 1)
                \cup (IF Old(i) > NDIRECT
                      THEN {inode[i].blocks[NDIRECT]} \cup {Indirect(i)[k] : k \in 1 .. Old(i) - NDIRECT}
                      ELSE {})
           N == [k \in 1 .. n |-> inode[i].blocks[k - 1]]
           r == [inode[i] EXCEPT !.size = n, !.blocks = Used(@, n)]
<1>1. /\ bitmap' = FreeBlocks(bitmap, S)
      /\ inode' = [inode EXCEPT ![i] = r]
      /\ disk' = Written(disk, Direct(inode[i].blocks, n), data)
  BY DEF Shrink, NewSize, Old, TypeOK, InodeTypeOK
<1>2. Taken' = Taken /\ nalloc' \in Nat /\ nalloc <= nalloc' /\ nalloc \in Nat
  BY DEF Taken, TypeOK
<1>3. Taken \subseteq BlockId /\ Young
  BY <1>2, TakenGrows
<1>4. S \subseteq 0 .. BPB - 1
  <2>1. n \in Nat
    OBVIOUS
  <2> QED BY <1>3, <2>1, FreedLow DEF YoungParts
<1> HIDE DEF S
<1>5. bitmap' = Taken
  <2>1. bitmap = Prefix(nalloc) /\ Taken = Prefix(nalloc)
    BY DEF YoungParts, Taken, Prefix
  <2> QED BY <1>1, <1>2, <1>4, <2>1, FreeYoung
<1>6. NDIRECT \in Nat /\ n \in Nat /\ Count(n) = n /\ Old(i) \in Nat /\ ~(n > NDIRECT)
  BY InodeSizes DEF Count, Old, TypeOK, InodeTypeOK
<1>7. Direct(inode[i].blocks, n) = N
  <2>1. MinOf(n, NDIRECT) = n
    BY <1>6 DEF MinOf
  <2> QED BY <2>1 DEF Direct
<1>8. \A k \in 1 .. n : k \in 1 .. RefCount(i) /\ N[k] = RefAt(i, k) /\ Place(k) = k /\ k <= NDIRECT
  BY <1>6 DEF RefCount, RefAt, Place, Old
<1>9. \A k \in 1 .. n : N[k] \in Taken /\ N[k] \in BlockId
  BY <1>3, <1>8, RefsLow DEF YoungParts
<1>10. Separate(i, n, N)
  <2>1. \A k, l \in 1 .. n : N[k] = N[l] => k = l
    BY <1>8 DEF YoungParts, RefsInv
  <2>2. ASSUME NEW j \in Inum, Intact(j), j # i, NEW k \in 1 .. n, NEW l \in 1 .. RefCount(j)
        PROVE  N[k] # RefAt(j, l)
    <3>1. k \in 1 .. RefCount(i) /\ N[k] = RefAt(i, k)
      BY <1>8
    <3>2. RefAt(i, k) # RefAt(j, l)
      BY <2>2, <3>1 DEF YoungParts, RefsInv
    <3> QED BY <3>1, <3>2
  <2> HIDE DEF N
  <2> QED BY <1>2, <1>6, <1>9, <2>1, <2>2 DEF Separate
<1>11. r.size = n /\ \A k \in 1 .. n : r.blocks[k - 1] = N[k]
  <2>1. r.size = n /\ r.blocks = Used(inode[i].blocks, n)
    BY DEF TypeOK, InodeTypeOK
  <2>2. \A k \in 1 .. n : k - 1 \in 0 .. NDIRECT /\ k - 1 < n
    BY <1>6
  <2>3. \A k \in 1 .. n : Used(inode[i].blocks, n)[k - 1] = inode[i].blocks[k - 1]
    BY <2>2 DEF Used
  <2> QED BY <2>1, <2>3
<1>12. Len(N) = n /\ disk' = Written(disk, N, data)
  BY <1>1, <1>6, <1>7
<1> HIDE DEF N, r
<1>13. ASSUME NEW k \in 1 .. n PROVE disk'[N[k]] = Data(data[k])
  <2>1. \A l \in 1 .. Len(N) : l # k => N[l] # N[k]
    BY <1>6, <1>10, <1>12 DEF Separate
  <2> QED BY <1>6, <1>9, <1>12, <2>1, WrittenAt
<1>14. ASSUME NEW b \in BlockId, \A k \in 1 .. n : N[k] # b PROVE disk'[b] = disk[b]
  BY <1>12, <1>14, WrittenOther
<1>15. \A b \in BlockId : disk'[b] = Zero => disk[b] = Zero
  BY <1>12, WrittenZero
<1>16. Rewrite(i, n, data, r, N, <<>>)
  BY <1>1, <1>6, <1>8, <1>11, <1>13, <1>14, <1>15 DEF Rewrite
<1>17. RefsInv' /\ TablesInv' /\ FilesInv'
  BY <1>2, <1>3, <1>10, <1>16, Rewritten DEF YoungParts
<1> QED
  BY <1>2, <1>5, <1>17 DEF YoungParts

\* The references of a file that grows: those it had, and the next free blocks.
NewRefs(i, n) ==
  [k \in 1 .. Count(n) |->
     IF k <= Old(i) THEN inode[i].blocks[k - 1] ELSE FirstBlock + nalloc + (k - Old(i)) - 1]

LEMMA GrowRefs ==
  ASSUME TypeOK, YoungParts, NEW i, NEW n, GrowPre(i, n), nalloc' = nalloc + Allocs(i, n), Young'
  PROVE  /\ Fresh(i, n).bitmap = Taken'
         /\ \A k \in Old(i) + 1 .. Count(n) :
              /\ k - Old(i) \in 1 .. DirectNew(i, n) + More(n)
              /\ Fresh(i, n).ids[k - Old(i)] = NewRefs(i, n)[k]
         /\ Fresh(i, n).ids \in Seq(BlockId)
         /\ Len(Fresh(i, n).ids) = DirectNew(i, n) + More(n)
<1> DEFINE m == DirectNew(i, n) + More(n)
           o == Old(i)
           a == Fresh(i, n)
<1>1. /\ o \in Nat /\ DirectNew(i, n) \in Nat /\ More(n) \in Nat /\ Allocs(i, n) = m
      /\ NDIRECT \in Nat /\ n \in Nat /\ o < n /\ o <= NDIRECT
  BY GrowSizes, InodeSizes DEF GrowPre
<1>2. Count(n) = o + m
  <2>1. CASE n > NDIRECT
    <3>1. DirectNew(i, n) = NDIRECT - o /\ More(n) = n - NDIRECT + 1
      BY <2>1, GrowSizes
    <3> QED BY <1>1, <2>1, <3>1 DEF Count
  <2>2. CASE n <= NDIRECT
    <3>1. DirectNew(i, n) = n - o /\ More(n) = 0
      BY <2>2, GrowSizes
    <3> QED BY <1>1, <2>2, <3>1 DEF Count
  <2> QED BY <1>1, <2>1, <2>2
<1>3. bitmap = Prefix(nalloc) /\ nalloc \in Nat /\ FirstBlock \in Nat /\ nalloc' = nalloc + m
  BY <1>1, Sizes DEF YoungParts, Taken, Prefix, TypeOK
<1>4. a = AllocBlocks(Prefix(nalloc), m)
  BY <1>3 DEF Fresh
<1>5. PICK u \in Nat : u = UINT8 * BYTE
  BY Sizes
<1>6. nalloc + m <= u - FirstBlock
  <2>1. nalloc' <= u - FirstBlock
    BY <1>5 DEF Young
  <2> QED BY <1>3, <2>1
<1> HIDE DEF m
<1>7. m \in Nat
  BY <1>1 DEF m
<1>8. FirstBlock + nalloc + m <= UINT8 * BYTE
  BY <1>3, <1>5, <1>6, <1>7
<1>9. /\ a.bitmap = Prefix(nalloc + m) /\ Len(a.ids) = m
      /\ \A j \in 1 .. m : a.ids[j] = FirstBlock + nalloc + j - 1
  BY <1>3, <1>4, <1>7, <1>8, AllocYoung
<1>10. a.bitmap = Taken'
  BY <1>3, <1>9 DEF Prefix, Taken
<1>11. ASSUME NEW k \in o + 1 .. Count(n)
       PROVE  k - o \in 1 .. m /\ a.ids[k - o] = NewRefs(i, n)[k]
  <2>1. k - o \in 1 .. m /\ k \in 1 .. Count(n) /\ ~(k <= o)
    BY <1>1, <1>2, <1>7
  <2>2. NewRefs(i, n)[k] = FirstBlock + nalloc + (k - o) - 1
    BY <2>1 DEF NewRefs
  <2> QED BY <1>9, <2>1, <2>2
<1>12. a.ids \in Seq(BlockId)
  BY GrowTyped
<1> QED
  BY <1>9, <1>10, <1>11, <1>12 DEF m

\* They are what write_file puts into the array and into the indirect block.
LEMMA GrowPlaces ==
  ASSUME TypeOK, YoungParts, NEW i, NEW n, GrowPre(i, n), nalloc' = nalloc + Allocs(i, n), Young'
  PROVE  /\ \A k \in 1 .. Count(n) : k <= NDIRECT + 1 => Blks(i, n)[k - 1] = NewRefs(i, n)[k]
         /\ n > NDIRECT => /\ Tabled(i, n) \in Seq(BlockId) /\ Len(Tabled(i, n)) = n - NDIRECT
                           /\ \A k \in 1 .. n - NDIRECT : Tabled(i, n)[k] = NewRefs(i, n)[NDIRECT + 1 + k]
         /\ n <= NDIRECT => Tabled(i, n) = <<>>
<1> DEFINE o == Old(i)
           d == DirectNew(i, n)
           w == More(n)
           s == Fresh(i, n).ids
<1>1. /\ o \in Nat /\ d \in Nat /\ w \in Nat
      /\ NDIRECT \in Nat /\ n \in Nat /\ o < n /\ o <= NDIRECT
      /\ n > NDIRECT => d = NDIRECT - o /\ w = n - NDIRECT + 1
      /\ n <= NDIRECT => d = n - o /\ w = 0
  BY GrowSizes, InodeSizes DEF GrowPre
<1>2. /\ \A k \in o + 1 .. Count(n) : k - o \in 1 .. d + w /\ s[k - o] = NewRefs(i, n)[k]
      /\ s \in Seq(BlockId) /\ Len(s) = d + w
  BY GrowRefs
<1>3. ASSUME NEW k \in 1 .. Count(n), k <= NDIRECT + 1 PROVE Blks(i, n)[k - 1] = NewRefs(i, n)[k]
  <2>1. k - 1 \in 0 .. NDIRECT
    BY <1>1, <1>3
  <2>2. CASE k <= o
    <3>1. ~(o <= k - 1) /\ k - 1 # NDIRECT
      BY <1>1, <2>2
    <3>2. Blks(i, n)[k - 1] = inode[i].blocks[k - 1]
      BY <2>1, <3>1 DEF Blks
    <3> QED BY <2>2, <3>2 DEF NewRefs
  <2>3. CASE ~(k <= o) /\ k - 1 < o + d
    <3>1. o <= k - 1 /\ k - 1 - o + 1 = k - o /\ k \in o + 1 .. Count(n)
      BY <1>1, <2>3
    <3>2. Blks(i, n)[k - 1] = s[k - 1 - o + 1]
      BY <2>1, <2>3, <3>1 DEF Blks
    <3> QED BY <1>2, <3>1, <3>2
  <2>4. CASE ~(k <= o) /\ ~(k - 1 < o + d)
    <3>1. k - 1 = NDIRECT /\ w > 0 /\ d + 1 = k - o /\ k \in o + 1 .. Count(n)
      BY <1>1, <1>3, <2>4 DEF Count
    <3>2. Blks(i, n)[k - 1] = s[d + 1]
      BY <2>1, <2>4, <3>1 DEF Blks
    <3> QED BY <1>2, <3>1, <3>2
  <2> QED BY <2>2, <2>3, <2>4
<1>4. ASSUME n > NDIRECT
      PROVE  /\ Tabled(i, n) \in Seq(BlockId) /\ Len(Tabled(i, n)) = n - NDIRECT
             /\ \A k \in 1 .. n - NDIRECT : Tabled(i, n)[k] = NewRefs(i, n)[NDIRECT + 1 + k]
  <2>1. Tabled(i, n) = SubSeq(s, d + 2, d + w)
    BY DEF Tabled
  <2>2. d + 2 <= d + w /\ (d + w) - (d + 2) + 1 = n - NDIRECT /\ d + 2 \in Int /\ d + w \in Int
    BY <1>1, <1>4
  <2>5. \A k \in d + 2 .. d + w : s[k] \in BlockId
    <3> HIDE DEF d, w, s
    <3> QED BY <1>1, <1>2
  <2>3. /\ SubSeq(s, d + 2, d + w) \in Seq(BlockId)
        /\ Len(SubSeq(s, d + 2, d + w)) = n - NDIRECT
        /\ \A k \in 1 .. n - NDIRECT : SubSeq(s, d + 2, d + w)[k] = s[d + 2 + k - 1]
    <3> DEFINE x == d + 2
               y == d + w
    <3> HIDE DEF x, y, s
    <3>1. /\ SubSeq(s, x, y) \in Seq(BlockId)
          /\ Len(SubSeq(s, x, y)) = IF x <= y THEN y - x + 1 ELSE 0
          /\ \A k \in 1 .. y - x + 1 : SubSeq(s, x, y)[k] = s[x + k - 1]
      BY <2>2, <2>5, SubSeqProperties DEF x, y
    <3> QED BY <2>2, <3>1 DEF x, y
  <2> HIDE DEF d, w, s
  <2>4. ASSUME NEW k \in 1 .. n - NDIRECT
        PROVE  Tabled(i, n)[k] = NewRefs(i, n)[NDIRECT + 1 + k]
    <3>1. d + 2 + k - 1 = (NDIRECT + 1 + k) - o /\ NDIRECT + 1 + k \in o + 1 .. Count(n)
      BY <1>1, <1>4 DEF Count
    <3> QED BY <1>2, <2>1, <2>3, <3>1
  <2> QED BY <2>1, <2>3, <2>4
<1>5. ASSUME n <= NDIRECT PROVE Tabled(i, n) = <<>>
  <2>1. Tabled(i, n) = SubSeq(s, d + 2, d + w) /\ w = 0
    BY <1>1, <1>5 DEF Tabled
  <2> HIDE DEF d, w, s
  <2> QED BY <1>1, <1>2, <2>1
<1> QED
  BY <1>3, <1>4, <1>5

\* The references are apart from each other and from those of other files.
LEMMA GrowSeparate ==
  ASSUME TypeOK, YoungParts, NEW i, NEW n, GrowPre(i, n), Intact(i),
         nalloc' = nalloc + Allocs(i, n), Young'
  PROVE  Separate(i, n, NewRefs(i, n)) /\ \A k \in 1 .. Count(n) : NewRefs(i, n)[k] \in BlockId
<1> DEFINE o == Old(i)
           N == NewRefs(i, n)
           a == FirstBlock + nalloc
<1>1. /\ o \in Nat /\ NDIRECT \in Nat /\ n \in Nat /\ o < n /\ o <= NDIRECT /\ i \in Inum
      /\ nalloc \in Nat /\ FirstBlock \in Nat /\ Allocs(i, n) \in Nat
  <2>1. i \in Inum /\ n \in 0 .. MAXFILE /\ o < n /\ o <= NDIRECT /\ n \in Nat
    BY DEF GrowPre
  <2>2. Allocs(i, n) \in Nat /\ o \in Nat
    BY <2>1, AllocsNat, GrowSizes
  <2> QED BY <2>1, <2>2, InodeSizes, Sizes DEF TypeOK
<1>2. Count(n) = o + Allocs(i, n)
  <2>1. Allocs(i, n) = DirectNew(i, n) + More(n)
    BY GrowSizes
  <2>2. CASE n > NDIRECT
    <3>1. DirectNew(i, n) = NDIRECT - o /\ More(n) = n - NDIRECT + 1
      BY <2>2, GrowSizes
    <3> QED BY <1>1, <2>1, <2>2, <3>1 DEF Count
  <2>3. CASE n <= NDIRECT
    <3>1. DirectNew(i, n) = n - o /\ More(n) = 0
      BY <2>3, GrowSizes
    <3> QED BY <1>1, <2>1, <2>3, <3>1 DEF Count
  <2> QED BY <1>1, <2>2, <2>3
<1>3. nalloc' \in Nat /\ nalloc <= nalloc' /\ nalloc' = nalloc + Allocs(i, n)
  BY <1>1
<1>4. Taken \subseteq Taken' /\ Taken' \subseteq BlockId
  BY <1>3, TakenGrows
<1>5. ASSUME NEW k \in 1 .. Count(n), k <= o
      PROVE  k \in 1 .. RefCount(i) /\ N[k] = RefAt(i, k) /\ N[k] \in Taken
  <2>1. k \in 1 .. RefCount(i)
    BY <1>1, <1>5 DEF RefCount, Old
  <2>2. N[k] = inode[i].blocks[k - 1] /\ k <= NDIRECT + 1
    BY <1>1, <1>5 DEF NewRefs
  <2>3. N[k] = RefAt(i, k)
    BY <2>2 DEF RefAt
  <2> QED BY <1>1, <2>1, <2>3 DEF YoungParts, RefsInv
<1>6. ASSUME NEW k \in 1 .. Count(n), ~(k <= o)
      PROVE  N[k] = a + (k - o) - 1 /\ N[k] \notin Taken /\ N[k] \in Taken'
  <2>1. N[k] = a + (k - o) - 1
    BY <1>6 DEF NewRefs
  <2>2. k \in Nat /\ k - o \in 1 .. Allocs(i, n)
    BY <1>1, <1>2, <1>6
  <2>3. a + (k - o) - 1 >= FirstBlock + nalloc /\ a + (k - o) - 1 <= FirstBlock + nalloc + Allocs(i, n) - 1
    BY <1>1, <2>2
  <2>4. a + (k - o) - 1 \in Nat
    BY <1>1, <2>2
  <2> DEFINE x == a + (k - o) - 1
  <2> HIDE DEF x, a
  <2>5. x \notin Taken
    BY <1>1, <2>3, <2>4 DEF Taken, x
  <2>6. Taken' = FirstBlock .. FirstBlock + (nalloc + Allocs(i, n)) - 1
    BY DEF Taken
  <2>7. x \in Taken'
    BY SMTT(40), <1>1, <2>3, <2>4, <2>6 DEF x
  <2> QED BY <2>1, <2>5, <2>7 DEF x
<1> HIDE DEF N
<1>7. \A k \in 1 .. Count(n) : N[k] \in Taken'
  BY <1>4, <1>5, <1>6
<1>8. ASSUME NEW k \in 1 .. Count(n), NEW l \in 1 .. Count(n), N[k] = N[l] PROVE k = l
  <2>1. CASE k <= o /\ l <= o
    <3>1. k \in 1 .. RefCount(i) /\ l \in 1 .. RefCount(i) /\ RefAt(i, k) = RefAt(i, l)
      BY <1>5, <1>8, <2>1
    <3> QED BY <1>1, <3>1 DEF YoungParts, RefsInv
  <2>2. CASE ~(k <= o) /\ ~(l <= o)
    <3>1. a + (k - o) - 1 = a + (l - o) - 1
      BY <1>6, <1>8, <2>2
    <3> QED BY <1>1, <3>1
  <2>3. CASE (k <= o /\ ~(l <= o)) \/ (l <= o /\ ~(k <= o))
    BY <1>5, <1>6, <1>8, <2>3
  <2> QED BY <2>1, <2>2, <2>3
<1>9. ASSUME NEW j \in Inum, Intact(j), j # i, NEW k \in 1 .. Count(n), NEW l \in 1 .. RefCount(j)
      PROVE  N[k] # RefAt(j, l)
  <2>1. RefAt(j, l) \in Taken
    BY <1>9 DEF YoungParts, RefsInv
  <2>2. CASE k <= o
    <3>1. k \in 1 .. RefCount(i) /\ N[k] = RefAt(i, k)
      BY <1>5, <2>2
    <3>2. RefAt(i, k) # RefAt(j, l)
      BY <1>1, <1>9, <3>1 DEF YoungParts, RefsInv
    <3> QED BY <3>1, <3>2
  <2>3. CASE ~(k <= o)
    BY <1>6, <2>1, <2>3
  <2> QED BY <2>2, <2>3
<1>10. Separate(i, n, N)
  BY <1>7, <1>8, <1>9 DEF Separate
<1> QED
  BY <1>4, <1>7, <1>10 DEF N

\* The blocks that write_file writes, one by one.
LEMMA GrowData ==
  ASSUME TypeOK, YoungParts, NEW i, NEW n, GrowPre(i, n), Intact(i),
         nalloc' = nalloc + Allocs(i, n), Young'
  PROVE  LET L == Direct(Blks(i, n), n) \o Tabled(i, n)
         IN Len(L) = n /\ \A k \in 1 .. n : Place(k) \in 1 .. Count(n) /\ L[k] = NewRefs(i, n)[Place(k)]
<1> DEFINE D == Direct(Blks(i, n), n)
           T == Tabled(i, n)
           L == D \o T
           N == NewRefs(i, n)
           m == MinOf(n, NDIRECT)
<1>1. NDIRECT \in Nat /\ n \in Nat /\ m \in Nat /\ m <= n /\ m <= NDIRECT
  BY InodeSizes DEF GrowPre, MinOf
<1>2. /\ \A k \in 1 .. Count(n) : k <= NDIRECT + 1 => Blks(i, n)[k - 1] = N[k]
      /\ n > NDIRECT => /\ T \in Seq(BlockId) /\ Len(T) = n - NDIRECT
                        /\ \A k \in 1 .. n - NDIRECT : T[k] = N[NDIRECT + 1 + k]
      /\ n <= NDIRECT => T = <<>>
  BY GrowPlaces
<1>3. Blks(i, n) \in [0 .. NDIRECT -> BlockId]
  BY GrowTyped
<1>4. D \in Seq(BlockId) /\ Len(D) = m /\ \A k \in 1 .. m : D[k] = N[k]
  <2>1. D = [k \in 1 .. m |-> Blks(i, n)[k - 1]]
    BY DEF Direct
  <2>2. \A k \in 1 .. m : k - 1 \in 0 .. NDIRECT /\ k \in 1 .. Count(n) /\ k <= NDIRECT + 1
    BY <1>1 DEF Count
  <2>3. \A k \in 1 .. m : Blks(i, n)[k - 1] \in BlockId /\ Blks(i, n)[k - 1] = N[k]
    BY <1>2, <1>3, <2>2
  <2> DEFINE e(k) == Blks(i, n)[k - 1]
  <2>4. D = [k \in 1 .. m |-> e(k)] /\ \A k \in 1 .. m : e(k) \in BlockId /\ e(k) = N[k]
    BY <2>1, <2>3
  <2> HIDE DEF m, N, D, e
  <2>5. D \in [1 .. m -> BlockId] /\ \A k \in 1 .. m : D[k] = N[k]
    BY <2>4, Zenon
  <2>6. D \in Seq(BlockId) /\ Len(D) = m
    BY ONLY <1>1, <2>5
  <2> QED BY <2>5, <2>6
<1>5. T \in Seq(BlockId) /\ Len(T) = n - m
  <2>1. CASE n > NDIRECT
    BY <1>1, <1>2, <2>1 DEF MinOf
  <2>2. CASE n <= NDIRECT
    <3>1. T = <<>> /\ m = n
      BY <1>1, <1>2, <2>2 DEF MinOf
    <3> QED BY <1>1, <3>1
  <2> QED BY <1>1, <2>1, <2>2
<1> HIDE DEF D, T
<1>6. /\ L \in Seq(BlockId) /\ Len(L) = Len(D) + Len(T)
      /\ \A k \in 1 .. Len(D) + Len(T) : L[k] = IF k <= Len(D) THEN D[k] ELSE T[k - Len(D)]
  BY <1>4, <1>5, ConcatProperties
<1>7. Len(L) = n
  <2> HIDE DEF m, L
  <2> QED BY <1>1, <1>4, <1>5, <1>6
<1>8. ASSUME NEW k \in 1 .. n PROVE Place(k) \in 1 .. Count(n) /\ L[k] = N[Place(k)]
  <2>1. Place(k) \in 1 .. Count(n)
    BY <1>1 DEF Place, Count
  <2>2. CASE k <= NDIRECT
    <3>1. k <= m /\ Place(k) = k
      BY <1>1, <2>2 DEF MinOf, Place
    <3>2. L[k] = D[k]
      <4> HIDE DEF m, L
      <4> QED BY <1>1, <1>4, <1>5, <1>6, <3>1
    <3> QED BY <1>1, <1>4, <2>1, <3>1, <3>2
  <2>3. CASE ~(k <= NDIRECT)
    <3>1. n > NDIRECT /\ m = NDIRECT /\ Place(k) = k + 1 /\ k - NDIRECT \in 1 .. n - NDIRECT
          /\ NDIRECT + 1 + (k - NDIRECT) = k + 1
      BY <1>1, <2>3 DEF MinOf, Place
    <3>2. L[k] = T[k - NDIRECT]
      <4> HIDE DEF m, L
      <4> QED BY <1>1, <1>4, <1>5, <1>6, <3>1, <2>3
    <3>3. T[k - NDIRECT] = N[NDIRECT + 1 + (k - NDIRECT)]
      BY <1>2, <3>1
    <3> QED BY <2>1, <3>1, <3>2, <3>3
  <2> QED BY <2>2, <2>3
<1> QED
  BY <1>7, <1>8 DEF D, T

\* A file that gets longer keeps its blocks and gets the next free ones.
LEMMA GrowYoung ==
  ASSUME TypeOK, TypeOK', YoungParts, Young', NEW i, NEW n, GrowPre(i, n), Intact(i), NEW data,
         Len(data) = n, Grow(i, n, data), fault' = "none",
         nalloc' = nalloc + Allocs(i, n), file' = [file EXCEPT ![i] = data]
  PROVE  YoungParts'
<1> DEFINE N == NewRefs(i, n)
           T == Tabled(i, n)
           L == Direct(Blks(i, n), n) \o T
           r == [inode[i] EXCEPT !.size = n, !.blocks = Blks(i, n)]
<1>1. /\ bitmap' = Fresh(i, n).bitmap
      /\ inode' = [inode EXCEPT ![i].size = n, ![i].blocks = Blks(i, n)]
      /\ disk' = Written(Disked(i, n), L, data)
  BY GrowDef
<1>2. i \in Inum /\ n \in 0 .. MAXFILE /\ n \in Nat /\ NDIRECT \in Nat
  BY InodeSizes DEF GrowPre
<1>3. nalloc' \in Nat /\ nalloc <= nalloc'
  <2>1. Allocs(i, n) \in Nat /\ nalloc \in Nat
    BY <1>2, AllocsNat DEF TypeOK
  <2> QED BY <2>1
<1>4. Taken \subseteq Taken' /\ Taken \subseteq BlockId
  BY <1>3, TakenGrows
<1>5. bitmap' = Taken'
  BY <1>1, GrowRefs
<1>6. Separate(i, n, N) /\ \A k \in 1 .. Count(n) : N[k] \in BlockId
  BY GrowSeparate
<1>7. /\ \A k \in 1 .. Count(n) : k <= NDIRECT + 1 => Blks(i, n)[k - 1] = N[k]
      /\ n > NDIRECT => /\ T \in Seq(BlockId) /\ Len(T) = n - NDIRECT
                        /\ \A k \in 1 .. n - NDIRECT : T[k] = N[NDIRECT + 1 + k]
  BY GrowPlaces
<1>8. Len(L) = n /\ \A k \in 1 .. n : Place(k) \in 1 .. Count(n) /\ L[k] = N[Place(k)]
  BY GrowData
<1>9. inode' = [inode EXCEPT ![i] = r] /\ r.size = n /\ r.blocks = Blks(i, n)
  BY <1>1, <1>2 DEF TypeOK, InodeTypeOK
<1>10. \A k, l \in 1 .. n : Place(k) = Place(l) => k = l
  BY <1>2 DEF Place
<1>11. n > NDIRECT => /\ NDIRECT + 1 \in 1 .. Count(n) /\ Blks(i, n)[NDIRECT] = N[NDIRECT + 1]
                      /\ \A k \in 1 .. n : Place(k) # NDIRECT + 1
  <2> SUFFICES ASSUME n > NDIRECT
               PROVE  /\ NDIRECT + 1 \in 1 .. Count(n) /\ Blks(i, n)[NDIRECT] = N[NDIRECT + 1]
                      /\ \A k \in 1 .. n : Place(k) # NDIRECT + 1
    OBVIOUS
  <2>1. NDIRECT + 1 \in 1 .. Count(n) /\ NDIRECT + 1 <= NDIRECT + 1 /\ (NDIRECT + 1) - 1 = NDIRECT
    BY <1>2 DEF Count
  <2>2. Blks(i, n)[NDIRECT] = N[NDIRECT + 1]
    BY <1>7, <2>1
  <2>3. \A k \in 1 .. n : Place(k) # NDIRECT + 1
    BY <1>2 DEF Place
  <2> QED BY <2>1, <2>2, <2>3
<1>12. DOMAIN disk = BlockId
  BY DEF TypeOK, InodeTypeOK
<1>13. /\ n > NDIRECT => Disked(i, n) = [disk EXCEPT ![N[NDIRECT + 1]] = Table(T)]
       /\ ~(n > NDIRECT) => Disked(i, n) = disk
  <2>1. n > NDIRECT => More(n) > 0
    BY <1>2 DEF More
  <2>2. ~(n > NDIRECT) => ~(More(n) > 0)
    BY DEF More
  <2> QED BY <1>11, <2>1, <2>2 DEF Disked
<1> DEFINE d == Disked(i, n)
<1>14. /\ \A b \in BlockId : d[b] = Zero => disk[b] = Zero
       /\ \A b \in BlockId : (\A k \in 1 .. Count(n) : N[k] # b) => d[b] = disk[b]
       /\ n > NDIRECT => d[N[NDIRECT + 1]] = Table(T)
  <2>1. CASE n > NDIRECT
    <3>1. Table(T).kind = "table" /\ Zero.kind = "zero"
      BY DEF Table, Zero
    <3>2. Table(T) # Zero
      BY <3>1
    <3>3. N[NDIRECT + 1] \in BlockId /\ NDIRECT + 1 \in 1 .. Count(n)
      BY <1>6, <1>11, <2>1
    <3> DEFINE x == N[NDIRECT + 1]
               y == Table(T)
    <3>4. d = [disk EXCEPT ![x] = y] /\ x \in BlockId /\ y # Zero
      BY <1>13, <2>1, <3>2, <3>3
    <3>5. \A b : (\A k \in 1 .. Count(n) : N[k] # b) => b # x
      BY <3>3
    <3> HIDE DEF x, y, d
    <3>6. d[x] = y /\ \A b \in BlockId : b # x => d[b] = disk[b]
      BY <1>12, <3>4
    <3> QED BY <3>4, <3>5, <3>6 DEF x, y
  <2>2. CASE ~(n > NDIRECT)
    BY <1>13, <2>2
  <2> QED BY <2>1, <2>2
<1> HIDE DEF N, T, L, r, d
<1>15. disk' = Written(d, L, data)
  BY <1>1 DEF L, T, d
<1>16. ASSUME NEW k \in 1 .. n PROVE disk'[N[Place(k)]] = Data(data[k])
  <2>1. L[k] = N[Place(k)] /\ L[k] \in BlockId
    BY <1>6, <1>8
  <2>2. ASSUME NEW l \in 1 .. Len(L), l # k PROVE L[l] # L[k]
    <3>1. l \in 1 .. n
      BY <1>8
    <3>2. Place(l) # Place(k) /\ Place(l) \in 1 .. Count(n) /\ Place(k) \in 1 .. Count(n)
      BY <1>8, <1>10, <2>2, <3>1
    <3>3. N[Place(l)] # N[Place(k)]
      BY <1>6, <3>2 DEF Separate
    <3> QED BY <1>8, <3>1, <3>3
  <2>3. Len(L) \in Nat /\ k \in 1 .. Len(L)
    BY <1>2, <1>8
  <2>4. Written(d, L, data)[L[k]] = Data(data[k])
    BY <2>1, <2>2, <2>3, WrittenAt
  <2> QED BY <1>15, <2>1, <2>4
<1>17. ASSUME n > NDIRECT PROVE disk'[N[NDIRECT + 1]] = Table(T)
  <2>1. N[NDIRECT + 1] \in BlockId
    BY <1>6, <1>11, <1>17
  <2>2. ASSUME NEW l \in 1 .. Len(L) PROVE L[l] # N[NDIRECT + 1]
    <3>1. l \in 1 .. n
      BY <1>8
    <3>2. Place(l) # NDIRECT + 1 /\ Place(l) \in 1 .. Count(n) /\ NDIRECT + 1 \in 1 .. Count(n)
      BY <1>8, <1>11, <1>17, <3>1
    <3>3. N[Place(l)] # N[NDIRECT + 1]
      BY <1>6, <3>2 DEF Separate
    <3> QED BY <1>8, <3>1, <3>3
  <2>3. disk'[N[NDIRECT + 1]] = d[N[NDIRECT + 1]]
    BY <1>15, <2>1, <2>2, WrittenOther
  <2> QED BY <1>14, <1>17, <2>3
<1>18. ASSUME NEW b \in BlockId, \A k \in 1 .. Count(n) : N[k] # b PROVE disk'[b] = disk[b]
  <2>1. \A l \in 1 .. Len(L) : L[l] # b
    BY <1>8, <1>18
  <2>2. disk'[b] = d[b]
    BY <1>15, <2>1, WrittenOther
  <2> QED BY <1>14, <1>18, <2>2
<1>19. \A b \in BlockId : disk'[b] = Zero => disk[b] = Zero
  BY <1>14, <1>15, WrittenZero
<1>20. Rewrite(i, n, data, r, N, T)
  BY <1>7, <1>9, <1>16, <1>17, <1>18, <1>19 DEF Rewrite
<1>21. RefsInv' /\ TablesInv' /\ FilesInv'
  BY <1>2, <1>4, <1>6, <1>20, Rewritten DEF YoungParts
<1> QED
  BY <1>5, <1>21 DEF YoungParts

\* While the file system is young, put keeps the parts of the invariant.
LEMMA PutYoung ==
  ASSUME TypeOK, TypeOK', YoungParts, Young', NEW i \in Inum, NEW v \in Val, NEW n \in PutSizes,
         put(i, v, n), fault' = "none"
  PROVE  YoungParts'
<1> DEFINE c == Content(v, n)
<1>1. /\ (~InTable(i) \/ Exists(i)) /\ n \in 0 .. MAXFILE
      /\ file' = [file EXCEPT ![i] = c] /\ nalloc' = nalloc + Allocs(i, n)
      /\ \/ InTable(i) /\ GrowPre(i, n) /\ Grow(i, n, c)
         \/ InTable(i) /\ n <= Old(i) /\ n <= NDIRECT /\ Shrink(i, n, c)
  BY PutCases
<1>2. Len(c) = n
  BY <1>1, ContentOK
<1>3. Intact(i)
  BY <1>1 DEF Intact
<1> HIDE DEF c
<1>4. CASE GrowPre(i, n) /\ Grow(i, n, c)
  BY <1>1, <1>2, <1>3, <1>4, GrowYoung
<1>5. CASE n <= Old(i) /\ n <= NDIRECT /\ Shrink(i, n, c)
  <2>1. Allocs(i, n) = 0 /\ nalloc \in Nat
    BY <1>5 DEF Allocs, Old, TypeOK
  <2>2. nalloc' = nalloc
    BY <1>1, <2>1
  <2> QED BY <1>1, <1>2, <1>3, <1>5, <2>2, ShrinkYoung
<1> QED
  BY <1>1, <1>4, <1>5

ExtentInv == TypeOK /\ YoungInv

LEMMA InitYoung == Init => ExtentInv
<1> SUFFICES ASSUME Init PROVE ExtentInv
  OBVIOUS
<1>1. TypeOK
  BY InitTyped
<1>2. NDIRECT \in Nat /\ FirstBlock \in Nat /\ ~(0 > NDIRECT)
  BY InodeSizes, Sizes
<1>3. \A i \in Inum : inode[i].size = 0 /\ file[i] = <<>> /\ RefCount(i) = 0
  <2>1. \A i \in Inum : inode[i].size = 0 /\ file[i] = <<>>
    BY DEF Init, InodeInit, NoInode
  <2> QED BY <1>2, <2>1 DEF RefCount
<1>4. bitmap = Taken
  BY <1>2 DEF Init, InodeInit, Taken
<1>5. RefsInv
  BY <1>3 DEF RefsInv
<1>6. TablesInv
  BY <1>2, <1>3 DEF TablesInv
<1>7. FilesInv
  BY <1>3 DEF FilesInv
<1> QED
  BY <1>1, <1>4, <1>5, <1>6, <1>7 DEF ExtentInv, YoungInv

LEMMA NextYoung == ExtentInv /\ [Next]_vars => ExtentInv'
<1> SUFFICES ASSUME TypeOK, YoungInv, [Next]_vars, Young', fault' = "none"
             PROVE  YoungParts'
  BY NextTyped DEF ExtentInv, YoungInv, YoungParts
<1>1. TypeOK'
  BY NextTyped
<1>2. CASE UNCHANGED vars
  <2>1. Young /\ fault = "none" /\ UNCHANGED <<bitmap, inode, disk, file, nalloc>>
    BY <1>2 DEF vars, inodeVars, Young
  <2>2. YoungParts
    BY <2>1 DEF YoungInv, YoungParts
  <2>3. bitmap' = Taken'
    BY <2>1, <2>2 DEF YoungParts, Taken
  <2>4. RefsInv'
    BY <2>1, <2>2 DEF YoungParts, Taken, RefsInv, Intact, InTable, Exists, RefCount, RefAt, Indirect
  <2>5. TablesInv'
    BY <2>1, <2>2 DEF YoungParts, TablesInv, Intact, InTable, Exists, Indirect
  <2>6. FilesInv'
    BY <2>1, <2>2 DEF YoungParts, FilesInv, Intact, InTable, Exists, RefAt, DataAt, Indirect
  <2> QED BY <2>3, <2>4, <2>5, <2>6 DEF YoungParts
<1>3. CASE Next
  <2>1. fault = "none"
    BY <1>3 DEF Next, create, put, remove, Faulted, vars, inodeVars
  <2>2. nalloc' \in Nat /\ nalloc <= nalloc'
    <3>1. nalloc \in Nat /\ nalloc' \in Nat
      BY <1>1 DEF TypeOK
    <3>2. CASE \E i \in Inum, v \in Val, n \in PutSizes : put(i, v, n)
      <4>1. PICK i \in Inum, n \in PutSizes : nalloc' = nalloc + Allocs(i, n)
        BY <3>2 DEF put
      <4>2. Allocs(i, n) \in Nat
        BY InodeSizes, AllocsNat
      <4> QED BY <3>1, <4>1, <4>2
    <3>3. CASE UNCHANGED nalloc
      BY <3>1, <3>3
    <3> QED BY <1>3, <3>2, <3>3 DEF Next, create, remove, Faulted, vars
  <2>3. YoungParts
    BY <2>1, <2>2, TakenGrows DEF YoungInv, YoungParts
  <2>4. CASE create
    BY <1>1, <2>3, <2>4, CreateYoung
  <2>5. CASE \E i \in Inum, v \in Val, n \in PutSizes : put(i, v, n)
    BY <1>1, <2>3, <2>5, PutYoung
  <2>6. CASE \E i \in Inum : remove(i)
    BY <1>1, <2>3, <2>6, RemoveYoung
  <2> QED BY <1>3, <2>1, <2>4, <2>5, <2>6 DEF Next, Faulted
<1> QED
  BY <1>2, <1>3

-----------------------------------------------------------------------------
(* What follows from the invariant *)

\* RefAt and RefCount describe References.
LEMMA ReferencesAt ==
  ASSUME TypeOK, TablesInv, NEW i \in Inum, Intact(i)
  PROVE  /\ Len(References(i)) = RefCount(i)
         /\ \A k \in 1 .. RefCount(i) : References(i)[k] = RefAt(i, k)
<1> DEFINE z == inode[i].size
           B == inode[i].blocks
           m == MinOf(z, NDIRECT)
           D == Direct(B, z)
           q == Indirect(i)
           E == <<B[NDIRECT]>> \o SubSeq(q, 1, z - NDIRECT)
<1>1. z \in Nat /\ B \in [0 .. NDIRECT -> BlockId] /\ NDIRECT \in Nat
  BY InodeSizes DEF TypeOK, InodeTypeOK
<1>2. References(i) = D \o (IF z > NDIRECT THEN E ELSE <<>>)
  BY DEF References
<1>3. m \in Nat /\ m <= NDIRECT /\ m <= z /\ (z > NDIRECT => m = NDIRECT) /\ (~(z > NDIRECT) => m = z)
  BY <1>1 DEF MinOf
<1>4. D \in Seq(BlockId) /\ Len(D) = m /\ \A k \in 1 .. m : D[k] = B[k - 1]
  <2>1. D = [k \in 1 .. m |-> B[k - 1]]
    BY DEF Direct
  <2>2. \A k \in 1 .. m : B[k - 1] \in BlockId
    BY <1>1, <1>3
  <2> HIDE DEF m, B, D
  <2> QED BY <1>3, <2>1, <2>2
<1>5. RefCount(i) = IF z > NDIRECT THEN z + 1 ELSE z
  BY DEF RefCount
<1>6. \A k : k <= NDIRECT + 1 => RefAt(i, k) = B[k - 1]
  BY DEF RefAt
<1>7. CASE ~(z > NDIRECT)
  <2>1. References(i) = D
    <3> HIDE DEF D
    <3>1. D \o <<>> = D
      BY <1>4
    <3> QED BY <1>2, <1>7, <3>1
  <2>2. RefCount(i) = m /\ \A k \in 1 .. m : k <= NDIRECT + 1
    BY <1>1, <1>3, <1>5, <1>7
  <2> HIDE DEF D, m, B
  <2> QED BY <1>4, <1>6, <2>1, <2>2
<1>8. CASE z > NDIRECT
  <2>1. q \in Seq(BlockId) /\ Len(q) = z - NDIRECT
    BY <1>8 DEF TablesInv
  <2>2. B[NDIRECT] \in BlockId
    BY <1>1
  <2> DEFINE h == <<B[NDIRECT]>>
             s == SubSeq(q, 1, z - NDIRECT)
  <2>3. s = q
    BY <2>1, SubSeqFull
  <2>4. h \in Seq(BlockId) /\ Len(h) = 1 /\ h[1] = B[NDIRECT]
    BY <2>2
  <2>5. E = h \o q
    BY <2>3
  <2> HIDE DEF q, h, D, E
  <2>6. /\ E \in Seq(BlockId) /\ Len(E) = Len(h) + Len(q)
        /\ \A k \in 1 .. Len(h) + Len(q) : E[k] = IF k <= Len(h) THEN h[k] ELSE q[k - Len(h)]
    BY <2>1, <2>4, <2>5, ConcatProperties
  <2>7. /\ Len(D \o E) = Len(D) + Len(E)
        /\ \A k \in 1 .. Len(D) + Len(E) : (D \o E)[k] = IF k <= Len(D) THEN D[k] ELSE E[k - Len(D)]
    <3>1. D \in Seq(BlockId) /\ E \in Seq(BlockId)
      BY <1>4, <2>6
    <3> QED BY ONLY <3>1, ConcatProperties
  <2>8. References(i) = D \o E
    BY <1>2, <1>8
  <2> HIDE DEF B, z, m
  <2>9. Len(References(i)) = RefCount(i) /\ RefCount(i) = NDIRECT + 1 + (z - NDIRECT)
    BY <1>1, <1>3, <1>4, <1>5, <1>8, <2>1, <2>4, <2>6, <2>7, <2>8
  <2>10. ASSUME NEW k \in 1 .. RefCount(i) PROVE References(i)[k] = RefAt(i, k)
    <3>1. k \in 1 .. Len(D) + Len(E)
      BY <1>1, <2>7, <2>8, <2>9
    <3>2. CASE k <= NDIRECT
      <4>1. (D \o E)[k] = D[k] /\ k \in 1 .. m /\ k <= NDIRECT + 1
        BY <1>1, <1>3, <1>4, <1>8, <2>7, <3>1, <3>2
      <4> QED BY <1>4, <1>6, <2>8, <4>1
    <3>3. CASE k = NDIRECT + 1
      <4>1. (D \o E)[k] = E[1] /\ E[1] = h[1]
        <5>1. ~(k <= Len(D)) /\ k - Len(D) = 1
          BY <1>1, <1>3, <1>4, <1>8, <3>3
        <5>2. (D \o E)[k] = E[k - Len(D)]
          BY <2>7, <3>1, <5>1
        <5>3. 1 \in 1 .. Len(h) + Len(q) /\ 1 <= Len(h)
          BY <2>1, <2>4
        <5> QED BY <2>6, <5>1, <5>2, <5>3
      <4>2. RefAt(i, k) = B[NDIRECT]
        BY <1>1, <1>6, <3>3
      <4> QED BY <2>4, <2>8, <4>1, <4>2
    <3>4. CASE k > NDIRECT + 1
      <4>1. (D \o E)[k] = E[k - NDIRECT] /\ E[k - NDIRECT] = q[k - NDIRECT - 1]
        <5>1. ~(k <= Len(D)) /\ k - Len(D) = k - NDIRECT
          BY <1>1, <1>3, <1>4, <1>8, <3>4
        <5>2. (D \o E)[k] = E[k - NDIRECT]
          BY <2>7, <3>1, <5>1
        <5>3. k - NDIRECT \in 1 .. Len(h) + Len(q) /\ ~(k - NDIRECT <= Len(h))
              /\ (k - NDIRECT) - Len(h) = k - NDIRECT - 1
          BY <1>1, <1>3, <1>4, <1>8, <2>1, <2>4, <2>6, <2>9, <3>1, <3>4
        <5> QED BY <2>6, <5>2, <5>3
      <4>2. RefAt(i, k) = q[k - NDIRECT - 1]
        BY <1>1, <3>4 DEF RefAt, q
      <4> QED BY <2>8, <4>1, <4>2
    <3> QED BY <1>1, <2>9, <3>2, <3>3, <3>4
  <2> QED BY <2>9, <2>10
<1> QED
  BY <1>7, <1>8

LEMMA YoungDisjoint == ExtentInv => DisjointWhileYoung
<1> SUFFICES ASSUME TypeOK, RefsInv, TablesInv, NEW o \in Owned, NEW p \in Owned
             PROVE  o[1] # 0 /\ (o[1] = p[1] => o = p)
  BY DEF ExtentInv, YoungInv, DisjointWhileYoung, NoSharing
<1>1. ASSUME NEW x \in Owned
      PROVE  \E i \in Inum : Intact(i) /\ \E k \in 1 .. RefCount(i) : x = <<RefAt(i, k), i, k>>
  <2>1. PICK i \in Inum : Intact(i) /\ x \in {<<References(i)[k], i, k>> : k \in 1 .. Len(References(i))}
    BY DEF Owned
  <2>2. PICK k \in 1 .. Len(References(i)) : x = <<References(i)[k], i, k>>
    BY <2>1
  <2>3. k \in 1 .. RefCount(i) /\ References(i)[k] = RefAt(i, k)
    BY <2>1, ReferencesAt
  <2> QED BY <2>1, <2>2, <2>3
<1>2. PICK i \in Inum : Intact(i) /\ \E k \in 1 .. RefCount(i) : o = <<RefAt(i, k), i, k>>
  BY <1>1
<1>3. PICK k \in 1 .. RefCount(i) : o = <<RefAt(i, k), i, k>>
  BY <1>2
<1>4. PICK j \in Inum : Intact(j) /\ \E l \in 1 .. RefCount(j) : p = <<RefAt(j, l), j, l>>
  BY <1>1
<1>5. PICK l \in 1 .. RefCount(j) : p = <<RefAt(j, l), j, l>>
  BY <1>4
<1>6. RefAt(i, k) \in Taken /\ (RefAt(i, k) = RefAt(j, l) => i = j /\ k = l)
  BY <1>2, <1>4 DEF RefsInv
<1>7. RefAt(i, k) # 0
  BY <1>6, Sizes DEF Taken, TypeOK
<1> QED
  BY <1>3, <1>5, <1>6, <1>7

LEMMA YoungGet == ExtentInv => GetReturnsPut
<1> SUFFICES ASSUME TypeOK, FilesInv, NEW i \in Inum, Intact(i)
             PROVE  read_file(i) = [k \in 1 .. Len(file[i]) |-> Data(file[i][k])]
  BY DEF ExtentInv, YoungInv, GetReturnsPut
<1>1. inode[i].size \in Nat /\ NDIRECT \in Nat
  BY InodeSizes DEF TypeOK, InodeTypeOK
<1>2. /\ Len(file[i]) = inode[i].size
      /\ \A k \in 1 .. inode[i].size : disk[DataAt(i, k)] = Data(file[i][k])
  BY DEF FilesInv
<1>3. ASSUME NEW k \in 1 .. inode[i].size
      PROVE  DataAt(i, k) = IF k <= NDIRECT THEN inode[i].blocks[k - 1] ELSE Indirect(i)[k - NDIRECT]
  <2>1. CASE k <= NDIRECT
    BY <1>1, <2>1 DEF DataAt, RefAt
  <2>2. CASE ~(k <= NDIRECT)
    <3> DEFINE h == k + 1
    <3>1. ~(h <= NDIRECT + 1) /\ h - NDIRECT - 1 = k - NDIRECT
      BY <1>1, <2>2
    <3>2. DataAt(i, k) = RefAt(i, h)
      BY <2>2 DEF DataAt
    <3> HIDE DEF h
    <3>3. RefAt(i, h) = Indirect(i)[h - NDIRECT - 1]
      BY <3>1 DEF RefAt
    <3> QED BY <2>2, <3>1, <3>2, <3>3
  <2> QED BY <2>1, <2>2
<1> QED
  BY <1>2, <1>3 DEF read_file

\* The inductive invariant: while the file system is young and no fault has
\* occurred, the bitmap is exactly the blocks ever allocated, which no intact
\* file shares with another, and each holds the table or the data of its file.
THEOREM ExtentInvariant == Spec => []ExtentInv
<1>1. Init => ExtentInv
  BY InitYoung
<1>2. ExtentInv /\ [Next]_vars => ExtentInv'
  BY NextYoung
<1> QED
  BY <1>1, <1>2, PTL DEF Spec

\* As long as fewer blocks were allocated than the positions that a uint8_t
\* tells apart, no block belongs to two intact files, twice to one, or is block
\* 0, although free_block clears the wrong bits.
THEOREM DisjointWhileYoungCorrect == Spec => []DisjointWhileYoung
BY ExtentInvariant, YoungDisjoint, PTL

\* For as long, read_file returns for every intact inode what write_file was
\* last given for it.
THEOREM GetReturnsPutCorrect == Spec => []GetReturnsPut
BY ExtentInvariant, YoungGet, PTL

=============================================================================
