------------------------ MODULE ConnectionImplProofs ------------------------
(***************************************************************************)
(* A connection implements PduChannel, for any number of senders, PDUs of  *)
(* any length and a socket buffer of any size.  The invariant of           *)
(* ConnectionProofs is extended by what the received stream holds and by   *)
(* each sender putting its PDU on the wire once.                           *)
(***************************************************************************)
EXTENDS ConnectionProofs, SequenceTheorems

-----------------------------------------------------------------------------
(* The steps of the channel *)

\* The step as the channel of g sees it
ChanStep(g) == [Chan(g)!Next]_(Chan(g)!vars)

\* The channel of a connection whose state in the mapping stays as it is
LEMMA ChanStays ==
  ASSUME NEW g \in Fd, dead_'[g] = dead_[g], out'[g] = out[g], got'[g] = got[g],
         \A s \in SendersOf(g) : ret'[s] = ret[s]
  PROVE  ChanStep(g)
<1>1. LineOf(g)' = LineOf(g)
  BY DEF LineOf
<1>2. GotOf(g)' = GotOf(g)
  BY DEF GotOf, PduOf
<1>3. ResOf(g)' = ResOf(g)
  BY DEF ResOf, SendersOf
<1> QED
  BY <1>1, <1>2, <1>3 DEF ChanStep, Chan!vars

\* The connection dies.
LEMMA ChanDies ==
  ASSUME NEW g \in Fd, dead_ \in [Fd -> BOOLEAN], dead_' \in [Fd -> BOOLEAN], dead_[g] => dead_'[g],
         out'[g] = out[g], got'[g] = got[g], \A s \in SendersOf(g) : ret'[s] = ret[s]
  PROVE  ChanStep(g)
<1>1. CASE dead_'[g] = dead_[g]
  BY <1>1, ChanStays
<1>2. CASE dead_'[g] # dead_[g]
  <2>1. dead_[g] = FALSE /\ dead_'[g] = TRUE
    BY <1>2
  <2>2. LineOf(g)' = LineOf(g)
    BY DEF LineOf
  <2>3. GotOf(g)' = GotOf(g)
    BY DEF GotOf, PduOf
  <2>4. ResOf(g)' = ResOf(g)
    BY DEF ResOf, SendersOf
  <2> QED BY <2>1, <2>2, <2>3, <2>4 DEF ChanStep, Chan!Next, Chan!Die
<1> QED
  BY <1>1, <1>2

\* send returns.
LEMMA ChanReturns ==
  ASSUME NEW g \in Fd, NEW s \in SendersOf(g), NEW v, ret \in [Sender -> {"none", "true", "false"}],
         ret[s] = "none", ret' = [ret EXCEPT ![s] = v],
         dead_'[g] = dead_[g], out'[g] = out[g], got'[g] = got[g],
         \/ v = "true" /\ ~dead_[g] /\ \E i \in 1 .. Len(LineOf(g)) : LineOf(g)[i] = s
         \/ v = "false" /\ dead_[g]
  PROVE  ChanStep(g)
<1>1. LineOf(g)' = LineOf(g)
  BY DEF LineOf
<1>2. GotOf(g)' = GotOf(g)
  BY DEF GotOf, PduOf
<1>3. ResOf(g)' = [ResOf(g) EXCEPT ![s] = v] /\ ResOf(g)[s] = "none"
  BY DEF ResOf, SendersOf
<1>4. Chan(g)!Return(s)
  BY <1>1, <1>2, <1>3 DEF Chan!Return, Chan!OnLine
<1> QED
  BY <1>4 DEF ChanStep, Chan!Next

\* A PDU goes to the line, with or without the return of its send.
LEMMA ChanSends ==
  ASSUME NEW g \in Fd, NEW s \in SendersOf(g), ret \in [Sender -> {"none", "true", "false"}],
         ret[s] = "none", ret' = ret \/ ret' = [ret EXCEPT ![s] = "true"],
         ~dead_[g], dead_'[g] = dead_[g], got'[g] = got[g],
         LineOf(g)' = Append(LineOf(g), s), \A i \in 1 .. Len(LineOf(g)) : LineOf(g)[i] # s
  PROVE  ChanStep(g)
<1>2. GotOf(g)' = GotOf(g)
  BY DEF GotOf, PduOf
<1>3. ResOf(g)[s] = "none"
  BY DEF ResOf, SendersOf
<1>4. CASE ret' = ret
  <2>1. ResOf(g)' = ResOf(g)
    BY <1>4 DEF ResOf, SendersOf
  <2>2. Chan(g)!Transmit(s)
    BY <1>2, <1>3, <2>1 DEF Chan!Transmit, Chan!OnLine
  <2> QED BY <2>2 DEF ChanStep, Chan!Next
<1>5. CASE ret' = [ret EXCEPT ![s] = "true"]
  <2>1. ResOf(g)' = [ResOf(g) EXCEPT ![s] = "true"]
    BY <1>5 DEF ResOf, SendersOf
  <2>2. Chan(g)!SendNow(s)
    BY <1>2, <1>3, <2>1 DEF Chan!SendNow, Chan!OnLine
  <2> QED BY <2>2 DEF ChanStep, Chan!Next
<1> QED
  BY <1>4, <1>5

\* A part of a PDU goes out: nothing the channel sees.
LEMMA ChanWaits ==
  ASSUME NEW g \in Fd, dead_'[g] = dead_[g], LineOf(g)' = LineOf(g), got'[g] = got[g],
         \A s \in SendersOf(g) : ret'[s] = ret[s]
  PROVE  ChanStep(g)
<1>2. GotOf(g)' = GotOf(g)
  BY DEF GotOf, PduOf
<1>3. ResOf(g)' = ResOf(g)
  BY DEF ResOf, SendersOf
<1> QED
  BY <1>2, <1>3 DEF ChanStep, Chan!vars

\* Multiples of a positive number are ordered as the factors are.
LEMMA Multiples ==
  ASSUME NEW n \in Nat, n > 0, NEW a \in Nat, NEW b \in Nat, a * n <= b * n
  PROVE  a <= b
<1> SUFFICES ASSUME b + 1 <= a PROVE FALSE
  OBVIOUS
<1>1. (b + 1) * n <= a * n
  OBVIOUS
<1>2. (b + 1) * n = b * n + n
  OBVIOUS
<1> QED
  BY <1>1, <1>2

\* The PDU with number k, and no other, is PduUnits(k).
LEMMA PduOfUnits ==
  ASSUME NEW f \in Fd, NEW k \in 1 .. NIn[f]
  PROVE  PduOf(f, PduUnits(k)) = k
<1>1. InSz \in Nat /\ InSz > 0 /\ NIn[f] \in Nat
  BY ConnConstants
<1>2. ASSUME NEW j \in 1 .. NIn[f], PduUnits(j) = PduUnits(k) PROVE j = k
  <2>1. j \in Nat /\ k \in Nat /\ j - 1 \in Nat /\ k - 1 \in Nat
    BY <1>1
  <2>2. PICK a \in Nat : a = (j - 1) * InSz
    BY <1>1, <2>1
  <2>3. PICK b \in Nat : b = (k - 1) * InSz
    BY <1>1, <2>1
  <2>4. PduUnits(j)[1] = a + 1 /\ PduUnits(k)[1] = b + 1
    <3>1. 1 \in 1 .. InSz
      BY <1>1
    <3> QED BY <2>2, <2>3, <3>1 DEF PduUnits, Units
  <2>5. a = b
    BY <1>2, <2>4
  <2>6. j - 1 <= k - 1 /\ k - 1 <= j - 1
    <3>1. (j - 1) * InSz <= (k - 1) * InSz /\ (k - 1) * InSz <= (j - 1) * InSz
      BY <2>2, <2>3, <2>5
    <3> QED BY <1>1, <2>1, <3>1, Multiples
  <2> QED BY <2>1, <2>6
<1>3. \E j \in 1 .. NIn[f] : PduUnits(k) = PduUnits(j)
  OBVIOUS
<1> QED
  BY <1>2, <1>3 DEF PduOf

\* The next PDU of the peer is consumed.
LEMMA ChanReceives ==
  ASSUME NEW g \in Fd, ~dead_[g], dead_'[g] = dead_[g], out'[g] = out[g],
         \A s \in SendersOf(g) : ret'[s] = ret[s], got[g] \in Seq(Seq(Nat)),
         Len(got[g]) < NIn[g], got'[g] = Append(got[g], PduUnits(Len(got[g]) + 1))
  PROVE  ChanStep(g)
<1>1. LineOf(g)' = LineOf(g)
  BY DEF LineOf
<1>2. ResOf(g)' = ResOf(g)
  BY DEF ResOf, SendersOf
<1> DEFINE n == Len(got[g])
<1>3. n \in Nat /\ n + 1 \in 1 .. NIn[g] /\ NIn[g] \in Nat
  BY ConnConstants
<1>4. PduOf(g, PduUnits(n + 1)) = n + 1
  BY <1>3, PduOfUnits
<1>a. \A b : PduOf(g, b)' = PduOf(g, b)
  BY DEF PduOf
<1>5. PduUnits(n + 1) \in Seq(Nat)
  <2>1. (n + 1) - 1 \in Nat /\ InSz \in Nat
    BY <1>3, ConnConstants
  <2>2. ((n + 1) - 1) * InSz \in Nat
    BY <2>1
  <2> QED BY <2>1, <2>2, UnitsSeq DEF PduUnits
<1> DEFINE u == PduUnits(n + 1)
<1> HIDE DEF u
<1>6. /\ Len(got'[g]) = n + 1 /\ got'[g][n + 1] = u
      /\ \A i \in 1 .. n : got'[g][i] = got[g][i]
  BY <1>3, <1>5 DEF u
<1>7. GotOf(g)' = Append(GotOf(g), n + 1) /\ Len(GotOf(g)) = n
  <2> DEFINE A == GotOf(g)
             B == GotOf(g)'
  <2>1. B = [i \in 1 .. n + 1 |-> PduOf(g, got'[g][i])]
    BY <1>6, <1>a DEF GotOf, PduOf
  <2>2. A = [i \in 1 .. n |-> PduOf(g, got[g][i])] /\ Len(A) = n
    BY <1>3 DEF GotOf
  <2> HIDE DEF A, B, n
  <2>3. Append(A, n + 1) = [i \in 1 .. n + 1 |-> IF i = n + 1 THEN n + 1 ELSE A[i]]
    BY <1>3, <2>2
  <2>4. ASSUME NEW i \in 1 .. n + 1 PROVE B[i] = IF i = n + 1 THEN n + 1 ELSE A[i]
    <3>1. CASE i = n + 1
      BY <1>4, <1>6, <2>1, <3>1 DEF u
    <3>2. CASE i # n + 1
      <4>1. i \in 1 .. n
        BY <1>3, <3>2
      <4> QED BY <1>6, <2>1, <2>2, <3>2, <4>1
    <3> QED BY <3>1, <3>2
  <2>5. B = [i \in 1 .. n + 1 |-> IF i = n + 1 THEN n + 1 ELSE A[i]]
    BY <2>1, <2>4
  <2> QED BY <2>2, <2>3, <2>5 DEF A, B
<1>8. Chan(g)!Receive
  BY <1>1, <1>2, <1>3, <1>7 DEF Chan!Receive
<1> QED
  BY <1>8 DEF ChanStep, Chan!Next

\* With p units behind k whole PDUs, the line holds k PDUs.
LEMMA LineLength ==
  ASSUME NEW w, NEW k \in Nat, NEW p \in Nat, p < OutSz, Len(w) = OutSz * k + p
  PROVE  Len(w) \div OutSz = k
<1>1. OutSz \in Nat /\ OutSz > 0
  BY ConnConstants
<1>2. PICK m \in Nat : m = OutSz * k
  BY <1>1
<1>3. m + p + 1 \in m + 1 .. m + OutSz
  BY <1>1, <1>2
<1>4. ((m + p + 1) - 1) \div OutSz = k
  BY <1>1, <1>2, <1>3, PduPosition
<1>5. (m + p + 1) - 1 = Len(w)
  BY <1>2
<1> QED
  BY <1>4, <1>5

\* The last unit of the PDU with number i, of k.
LEMMA LastUnit ==
  ASSUME NEW k \in Nat, NEW i \in 1 .. k
  PROVE  i * OutSz \in 1 .. OutSz * k
<1>1. OutSz \in Nat /\ OutSz > 0
  BY ConnConstants
<1>2. i * OutSz <= k * OutSz /\ 1 * OutSz <= i * OutSz
  BY <1>1
<1>3. k * OutSz = OutSz * k /\ 1 * OutSz = OutSz /\ i * OutSz \in Nat /\ k * OutSz \in Nat
  BY <1>1
<1> QED
  BY <1>1, <1>2, <1>3

\* The PDU of x reaches the line with its last unit.
LEMMA LineGrows ==
  ASSUME NEW f \in Fd, NEW x \in Sender, NEW n \in Nat, NEW k \in Nat, NEW p \in Nat,
         p < OutSz, p + n <= OutSz, out[f] \in Seq(Sender), Ends(out[f], k, p, x),
         out'[f] \in Seq(Sender), IsExtended(out'[f], out[f], n, x)
  PROVE  /\ p + n < OutSz => LineOf(f)' = LineOf(f)
         /\ p + n = OutSz => LineOf(f)' = Append(LineOf(f), x)
<1>1. OutSz \in Nat /\ OutSz > 0
  BY ConnConstants
<1>2. PICK m \in Nat : m = OutSz * k
  BY <1>1
<1>3. Len(out[f]) = m + p /\ Len(out'[f]) = m + p + n /\ \A i \in 1 .. m + p : out'[f][i] = out[f][i]
  BY <1>2 DEF Ends, IsExtended
<1>4. Len(out[f]) \div OutSz = k
  BY <1>2, <1>3, LineLength
<1>5. LineOf(f) = [i \in 1 .. k |-> out[f][i * OutSz]]
  BY <1>4 DEF LineOf
<1>6. ASSUME NEW i \in 1 .. k PROVE out'[f][i * OutSz] = out[f][i * OutSz]
  <2>1. i * OutSz \in 1 .. m
    BY <1>2, LastUnit
  <2>2. i * OutSz \in 1 .. m + p
    BY <1>2, <2>1
  <2> QED BY <1>3, <2>2
<1>7. ASSUME p + n < OutSz PROVE LineOf(f)' = LineOf(f)
  <2>1. p + n \in Nat /\ Len(out'[f]) = OutSz * k + (p + n)
    BY <1>2, <1>3
  <2>2. Len(out'[f]) \div OutSz = k
    BY <1>7, <2>1, LineLength
  <2>3. LineOf(f)' = [i \in 1 .. k |-> out'[f][i * OutSz]]
    BY <2>2 DEF LineOf
  <2> QED BY <1>5, <1>6, <2>3
<1>8. ASSUME p + n = OutSz PROVE LineOf(f)' = Append(LineOf(f), x)
  <2>1. OutSz * (k + 1) = m + OutSz /\ (k + 1) * OutSz = m + OutSz /\ k + 1 \in Nat
    BY <1>1, <1>2
  <2>2. Len(out'[f]) = OutSz * (k + 1) + 0
    BY <1>1, <1>2, <1>3, <1>8, <2>1
  <2>3. Len(out'[f]) \div OutSz = k + 1
    BY <1>1, <2>1, <2>2, LineLength
  <2>4. LineOf(f)' = [i \in 1 .. k + 1 |-> out'[f][i * OutSz]]
    BY <2>3 DEF LineOf
  <2>5. out'[f][(k + 1) * OutSz] = x
    <3>1. m + OutSz \in m + p + 1 .. m + p + n
      BY <1>1, <1>8
    <3>2. \A i \in Len(out[f]) + 1 .. Len(out[f]) + n : out'[f][i] = x
      BY DEF IsExtended
    <3> QED BY <1>3, <2>1, <3>1, <3>2
  <2> DEFINE L == LineOf(f)
  <2>6. Len(L) = k /\ L = [i \in 1 .. k |-> out[f][i * OutSz]]
    BY <1>5
  <2> HIDE DEF L
  <2>7. Append(L, x) = [i \in 1 .. k + 1 |-> IF i = k + 1 THEN x ELSE L[i]]
    BY <2>6
  <2>8. ASSUME NEW i \in 1 .. k + 1 PROVE out'[f][i * OutSz] = IF i = k + 1 THEN x ELSE L[i]
    <3>1. i = k + 1 \/ i \in 1 .. k
      OBVIOUS
    <3> QED BY <1>6, <2>5, <2>6, <3>1
  <2> QED BY <2>4, <2>7, <2>8 DEF L
<1> QED
  BY <1>7, <1>8

\* A sender with nothing on the wire but the last p units is not on the line.
LEMMA NotOnLine ==
  ASSUME NEW f \in Fd, NEW x, NEW k \in Nat, NEW p \in Nat, p < OutSz, Len(out[f]) = OutSz * k + p,
         \A i \in 1 .. Len(out[f]) - p : out[f][i] # x
  PROVE  \A i \in 1 .. Len(LineOf(f)) : LineOf(f)[i] # x
<1>1. OutSz \in Nat /\ OutSz > 0
  BY ConnConstants
<1>2. PICK m \in Nat : m = OutSz * k
  BY <1>1
<1>3. Len(out[f]) \div OutSz = k
  BY LineLength
<1>4. LineOf(f) = [i \in 1 .. k |-> out[f][i * OutSz]] /\ Len(LineOf(f)) = k
  BY <1>3 DEF LineOf
<1>5. ASSUME NEW i \in 1 .. k PROVE out[f][i * OutSz] # x
  <2>1. i * OutSz \in 1 .. m
    BY <1>2, LastUnit
  <2> QED BY <1>2, <2>1
<1> QED
  BY <1>4, <1>5

\* The owner of a PDU that is written is on the line.
LEMMA WrittenOnLine ==
  ASSUME LineInv, NEW f \in Fd, ~dead_[f], wpdu_[f].solong = OutSz
  PROVE  \E i \in 1 .. Len(LineOf(f)) : LineOf(f)[i] = wpdu_[f].buf
<1>1. OutSz \in Nat /\ OutSz > 0
  BY ConnConstants
<1>2. PICK k \in Nat : /\ Len(out[f]) = OutSz * k + OutSz
                       /\ \A i \in OutSz * k + 1 .. Len(out[f]) : out[f][i] = wpdu_[f].buf
  BY DEF LineInv
<1>3. PICK m \in Nat : m = OutSz * k
  BY <1>1
<1>4. OutSz * (k + 1) = m + OutSz /\ (k + 1) * OutSz = m + OutSz /\ k + 1 \in Nat
  BY <1>1, <1>3
<1>5. Len(out[f]) = OutSz * (k + 1) + 0
  BY <1>1, <1>2, <1>3, <1>4
<1>6. Len(out[f]) \div OutSz = k + 1
  BY <1>1, <1>4, <1>5, LineLength
<1>7. LineOf(f) = [i \in 1 .. k + 1 |-> out[f][i * OutSz]] /\ Len(LineOf(f)) = k + 1
  BY <1>4, <1>6 DEF LineOf
<1>8. m + OutSz \in m + 1 .. Len(out[f])
  BY <1>1, <1>2, <1>3
<1>9. LineOf(f)[k + 1] = wpdu_[f].buf
  BY <1>2, <1>3, <1>4, <1>7, <1>8
<1> QED
  BY <1>4, <1>7, <1>9

-----------------------------------------------------------------------------
(* The steps of a connection as steps of its channel *)

\* A call of send before its first write, and after its end
Early(p) == p \in {"idle", "ref"} \cup Waiting
Late(p)  == p \in {"sent", "done"}

\* No call goes back before its first write or after its end.
Forward ==
  \A t \in Sender : /\ Early(pc'[t]) => Early(pc[t])
                    /\ ~Late(pc'[t]) => ~Late(pc[t])

\* A step keeps the invariant and is a step of every channel.
Faithful == StreamInv' /\ OnceInv' /\ \A g \in Fd : ChanStep(g)

ImplInv == ConnInv /\ StreamInv /\ OnceInv

\* What is between the wire and the stream, for one connection
StreamOK(f) ==
  /\ eaten[f] <= arrived[f] /\ arrived[f] <= NIn[f] * InSz
  /\ Len(got[f]) <= NIn[f]
  /\ \A i \in 1 .. Len(got[f]) : got[f][i] = PduUnits(i)
  /\ ~dead_[f] =>
       /\ eaten[f] = Len(got[f]) * InSz + Len(rpdu_[f].buf)
       /\ rpdu_[f].buf = Units(Len(got[f]) * InSz, Len(rpdu_[f].buf))
       /\ rpdu_[f].sz = 0 => rpdu_[f].buf = <<>>

OnceOK(f) ==
  ~dead_[f] => \A i \in 1 .. Len(out[f]) - wpdu_[f].solong : out[f][i] # wpdu_[f].buf

\* The peer's stream stays as it is.
LEMMA StreamStays ==
  ASSUME StreamInv, UNCHANGED <<dead_, rpdu_, got, eaten, arrived>>
  PROVE  StreamInv'
<1>1. ASSUME NEW g \in Fd PROVE StreamOK(g)'
  <2>1. StreamOK(g)
    BY DEF StreamInv, StreamOK
  <2> QED BY <2>1 DEF StreamOK, PduUnits, Units
<1> QED
  BY <1>1 DEF StreamInv, StreamOK

\* Nothing goes out and nothing comes in; a connection may die.
LEMMA Settles ==
  ASSUME ImplInv, TypeOK', UNCHANGED <<ret, out, got>>, Forward,
         \A g \in Fd : /\ dead_[g] => dead_'[g]
                       /\ eaten'[g] <= arrived'[g] /\ arrived'[g] <= NIn[g] * InSz
                       /\ \/ dead_'[g]
                          \/ rpdu_'[g] = rpdu_[g] /\ eaten'[g] = eaten[g] /\ wpdu_'[g] = wpdu_[g]
  PROVE  Faithful
<1>1. TypeOK /\ StreamInv /\ OnceInv /\ dead_ \in [Fd -> BOOLEAN] /\ dead_' \in [Fd -> BOOLEAN]
  BY DEF ImplInv, ConnInv, TypeOK
<1>2. ASSUME NEW g \in Fd PROVE ChanStep(g)
  BY <1>1, ChanDies
<1>3. StreamInv'
  <2>1. ASSUME NEW g \in Fd PROVE StreamOK(g)'
    <3>1. StreamOK(g)
      BY <1>1 DEF StreamInv, StreamOK
    <3>2. /\ Len(got'[g]) <= NIn[g] /\ \A i \in 1 .. Len(got'[g]) : got'[g][i] = PduUnits(i)
      BY <3>1 DEF StreamOK
    <3>3. CASE dead_'[g]
      BY <3>2, <3>3 DEF StreamOK, PduUnits, Units
    <3>4. CASE ~dead_'[g]
      <4>1. rpdu_'[g] = rpdu_[g] /\ eaten'[g] = eaten[g] /\ ~dead_[g]
        BY <3>4
      <4> QED BY <3>1, <3>2, <4>1 DEF StreamOK, PduUnits, Units
    <3> QED BY <3>3, <3>4
  <2> QED BY <2>1 DEF StreamInv, StreamOK
<1>4. OnceInv'
  <2>1. ASSUME NEW g \in Fd PROVE OnceOK(g)'
    <3>1. CASE dead_'[g]
      BY <3>1 DEF OnceOK
    <3>2. CASE ~dead_'[g]
      <4>1. wpdu_'[g] = wpdu_[g] /\ out'[g] = out[g] /\ ~dead_[g]
        BY <3>2
      <4>2. OnceOK(g)
        BY <1>1 DEF OnceInv, OnceOK
      <4> QED BY <4>1, <4>2 DEF OnceOK
    <3> QED BY <3>1, <3>2
  <2> QED BY <1>1, <2>1 DEF OnceInv, OnceOK, Forward, Early, Late
<1> QED
  BY <1>2, <1>3, <1>4 DEF Faithful

\* The same, when nothing of a connection changes but its sender's place.
LEMMA Quiet ==
  ASSUME ImplInv, TypeOK', UNCHANGED <<ret, out, got, dead_, rpdu_, wpdu_, eaten, arrived>>, Forward
  PROVE  Faithful
<1>1. StreamInv
  BY DEF ImplInv
<1>2. \A g \in Fd : eaten'[g] <= arrived'[g] /\ arrived'[g] <= NIn[g] * InSz
  BY <1>1 DEF StreamInv
<1> QED
  BY <1>2, Settles

\* send returns: wpdu_ is free again, or was not this sender's.
LEMMA Returns ==
  ASSUME ImplInv, TypeOK', NEW s \in Sender, NEW f \in Fd, f = ConnOf[s], NEW v,
         UNCHANGED <<dead_, rpdu_, out, got, eaten, arrived>>, StepOf(s), Late(pc'[s]), ~Late(pc[s]),
         ret' = [ret EXCEPT ![s] = v],
         wpdu_'[f] = EmptyW \/ (dead_[f] /\ wpdu_'[f] = wpdu_[f]),
         \A g \in Fd : g # f => wpdu_'[g] = wpdu_[g],
         \/ v = "true" /\ ~dead_[f] /\ \E i \in 1 .. Len(LineOf(f)) : LineOf(f)[i] = s
         \/ v = "false" /\ dead_[f]
  PROVE  Faithful
<1>1. /\ TypeOK /\ StreamInv /\ OnceInv /\ ret \in [Sender -> {"none", "true", "false"}]
      /\ out \in [Fd -> Seq(Sender)]
  BY DEF ImplInv, ConnInv, TypeOK
<1>2. ret[s] = "none"
  BY <1>1 DEF OnceInv, Late
<1>3. ASSUME NEW g \in Fd PROVE ChanStep(g)
  <2>1. CASE g = f
    <3>1. s \in SendersOf(g)
      BY <2>1 DEF SendersOf
    <3> QED BY <1>1, <1>2, <2>1, <3>1, ChanReturns
  <2>2. CASE g # f
    <3>1. \A t \in SendersOf(g) : ret'[t] = ret[t]
      BY <1>1, <2>2 DEF SendersOf
    <3> QED BY <3>1, ChanStays
  <2> QED BY <2>1, <2>2
<1>4. StreamInv'
  BY <1>1, StreamStays
<1>5. Forward
  BY DEF Forward, StepOf, Early, Late, Waiting
<1>6. OnceInv'
  <2>1. ASSUME NEW g \in Fd, ~dead_'[g], NEW i \in 1 .. Len(out'[g]) - wpdu_'[g].solong
        PROVE  out'[g][i] # wpdu_'[g].buf
    <3>1. CASE wpdu_'[g] = wpdu_[g]
      BY <1>1, <2>1, <3>1 DEF OnceInv
    <3>2. CASE wpdu_'[g] # wpdu_[g]
      <4>1. wpdu_'[g] = EmptyW
        BY <3>2
      <4>2. wpdu_'[g].solong = 0 /\ wpdu_'[g].buf = NULL
        BY <4>1 DEF EmptyW
      <4>3. i \in 1 .. Len(out[g]) /\ out[g] \in Seq(Sender)
        BY <1>1, <4>2
      <4>4. out[g][i] \in Sender
        BY <4>3
      <4> QED BY <4>2, <4>4, ConnConstants DEF NULL
    <3> QED BY <3>1, <3>2
  <2>2. \A t \in Sender : ~Late(pc'[t]) => ret'[t] = "none"
    <3>1. \A t \in Sender : t # s => ret'[t] = ret[t]
      BY <1>1
    <3> QED BY <1>1, <1>5, <3>1 DEF OnceInv, Forward, Late
  <2>3. \A t \in Sender : Early(pc'[t]) => \A i \in 1 .. Len(out'[ConnOf[t]]) : out'[ConnOf[t]][i] # t
    BY <1>1, <1>5 DEF OnceInv, Forward, Early
  <2> QED BY <2>1, <2>2, <2>3 DEF OnceInv, Early, Late
<1> QED
  BY <1>3, <1>4, <1>6 DEF Faithful

\* write accepts n more units of the PDU of x, behind p units of it: the last of
\* them are its transmission, and may be the end of send too.
LEMMA Writes ==
  ASSUME ImplInv, TypeOK', NEW x \in Sender, NEW f \in Fd, f = ConnOf[x],
         NEW n \in Nat, NEW k \in Nat, NEW p \in Nat, p < OutSz, p + n <= OutSz, ~dead_[f],
         Ends(out[f], k, p, x), \A i \in 1 .. Len(out[f]) - p : out[f][i] # x,
         Forward, ~Late(pc[x]), ~Early(pc'[x]),
         out' = [out EXCEPT ![f] = @ \o [i \in 1 .. n |-> x]],
         UNCHANGED <<dead_, rpdu_, got, eaten, arrived>>,
         \A g \in Fd : g # f => wpdu_'[g] = wpdu_[g],
         \/ ret' = ret /\ wpdu_'[f].buf = x /\ wpdu_'[f].solong = p + n
         \/ /\ p + n = OutSz /\ ret' = [ret EXCEPT ![x] = "true"]
            /\ Late(pc'[x]) /\ wpdu_'[f] = EmptyW
  PROVE  Faithful
<1>1. /\ TypeOK /\ StreamInv /\ OnceInv /\ ret \in [Sender -> {"none", "true", "false"}]
      /\ out \in [Fd -> Seq(Sender)] /\ out' \in [Fd -> Seq(Sender)]
  BY DEF ImplInv, ConnInv, TypeOK
<1>2. ret[x] = "none" /\ x \in SendersOf(f)
  <2>1. \A t \in Sender : ~Late(pc[t]) => ret[t] = "none"
    BY <1>1 DEF OnceInv, Late
  <2> QED BY <2>1 DEF SendersOf
<1> DEFINE c == Extended(out[f], n, x)
<1>3. out'[f] = c /\ \A g \in Fd : g # f => out'[g] = out[g]
  BY <1>1 DEF Extended
<1>4. IsExtended(c, out[f], n, x)
  <2>1. out[f] \in Seq(Sender)
    BY <1>1
  <2> QED BY <2>1, Copies
<1> HIDE DEF c
<1>5. /\ Len(out'[f]) = Len(out[f]) + n /\ Len(out[f]) \in Nat /\ Len(out'[f]) \in Nat
      /\ \A i \in 1 .. Len(out[f]) : out'[f][i] = out[f][i]
      /\ \A i \in Len(out[f]) + 1 .. Len(out[f]) + n : out'[f][i] = x
  BY <1>1, <1>3, <1>4 DEF IsExtended
<1>6. /\ p + n < OutSz => LineOf(f)' = LineOf(f)
      /\ p + n = OutSz => LineOf(f)' = Append(LineOf(f), x)
  <2>1. out[f] \in Seq(Sender) /\ out'[f] \in Seq(Sender)
    BY <1>1
  <2>2. IsExtended(out'[f], out[f], n, x)
    BY <1>3, <1>4
  <2>3. /\ f \in Fd /\ x \in Sender /\ n \in Nat /\ k \in Nat /\ p \in Nat
        /\ p < OutSz /\ p + n <= OutSz /\ Ends(out[f], k, p, x)
    OBVIOUS
  <2> QED BY ONLY <2>1, <2>2, <2>3, LineGrows
<1>7. \A i \in 1 .. Len(LineOf(f)) : LineOf(f)[i] # x
  <2>1. Len(out[f]) = OutSz * k + p
    BY DEF Ends
  <2> QED BY <2>1, NotOnLine
<1>8. ASSUME NEW g \in Fd PROVE ChanStep(g)
  <2>1. CASE g # f
    <3>1. \A t \in SendersOf(g) : t \in Sender /\ t # x
      BY <2>1 DEF SendersOf
    <3>2. \A t \in Sender : t # x => ret'[t] = ret[t]
      BY <1>1
    <3> QED BY <1>3, <2>1, <3>1, <3>2, ChanStays
  <2>2. CASE g = f /\ p + n < OutSz
    <3>1. ret' = ret
      BY <2>2, ConnConstants
    <3> QED BY <1>6, <2>2, <3>1, ChanWaits
  <2>3. CASE g = f /\ ~(p + n < OutSz)
    <3>1. LineOf(f)' = Append(LineOf(f), x)
      BY <1>6, <2>3, ConnConstants
    <3> QED BY <1>1, <1>2, <1>7, <2>3, <3>1, ChanSends
  <2> QED BY <2>1, <2>2, <2>3
<1>9. StreamInv'
  BY <1>1, StreamStays
<1>10. OnceInv'
  <2>1. ASSUME NEW g \in Fd, ~dead_'[g], NEW i \in 1 .. Len(out'[g]) - wpdu_'[g].solong
        PROVE  out'[g][i] # wpdu_'[g].buf
    <3>1. CASE g # f
      <4>1. out'[g] = out[g] /\ wpdu_'[g] = wpdu_[g] /\ ~dead_[g]
        BY <1>3, <2>1, <3>1
      <4>2. OnceOK(g)
        BY <1>1 DEF OnceInv, OnceOK
      <4> QED BY <4>1, <4>2 DEF OnceOK
    <3>2. CASE g = f /\ wpdu_'[f].buf = x /\ wpdu_'[f].solong = p + n
      <4>1. i \in 1 .. Len(out[f]) - p /\ i \in 1 .. Len(out[f])
        BY <1>5, <3>2
      <4> QED BY <1>5, <3>2, <4>1
    <3>3. CASE g = f /\ wpdu_'[f] = EmptyW
      <4>1. wpdu_'[f].solong = 0 /\ wpdu_'[f].buf = NULL
        BY <3>3 DEF EmptyW
      <4>2. i \in 1 .. Len(out'[f]) /\ out'[f] \in Seq(Sender)
        BY <1>1, <1>5, <3>3, <4>1
      <4>3. out'[f][i] \in Sender
        BY <4>2
      <4> QED BY <3>3, <4>1, <4>3, ConnConstants DEF NULL
    <3> QED BY <3>1, <3>2, <3>3
  <2>2. \A t \in Sender : ~Late(pc'[t]) => ret'[t] = "none"
    <3>1. \A t \in Sender : t # x => ret'[t] = ret[t]
      BY <1>1
    <3>2. \A t \in Sender : ~Late(pc'[t]) => ret[t] = "none"
      BY <1>1 DEF OnceInv, Forward, Late
    <3>3. ~Late(pc'[x]) => ret' = ret
      OBVIOUS
    <3> QED BY <3>1, <3>2, <3>3
  <2>3. ASSUME NEW t \in Sender, Early(pc'[t]), NEW i \in 1 .. Len(out'[ConnOf[t]])
        PROVE  out'[ConnOf[t]][i] # t
    <3>1. t # x /\ \A j \in 1 .. Len(out[ConnOf[t]]) : out[ConnOf[t]][j] # t
      BY <1>1, <2>3 DEF OnceInv, Forward, Early
    <3>2. CASE ConnOf[t] # f
      <4>1. ConnOf[t] \in Fd
        BY ConnConstants
      <4> QED BY <1>3, <3>1, <3>2, <4>1
    <3>3. CASE ConnOf[t] = f
      <4>1. i \in 1 .. Len(out[f]) \/ i \in Len(out[f]) + 1 .. Len(out[f]) + n
        BY <1>5, <3>3
      <4> QED BY <1>5, <3>1, <3>3, <4>1
    <3> QED BY <3>2, <3>3
  <2> QED BY <2>1, <2>2, <2>3 DEF OnceInv, Early, Late
<1> QED
  BY <1>8, <1>9, <1>10 DEF Faithful

\* read takes no more than has arrived.
LEMMA ReadArrived ==
  ASSUME TypeOK, NEW f \in Fd, NEW pos \in Nat, pos <= arrived[f], NEW n \in Nat,
         NEW r \in ReadResults(f, pos, n)
  PROVE  r[2] \in Nat /\ r[2] <= n /\ pos + r[2] <= arrived[f]
<1>1. r[2] \in Nat /\ r[2] <= n
  BY ReadReturns
<1>2. arrived[f] \in Nat
  BY DEF TypeOK
<1>3. \/ arrived[f] - pos > 0 /\ r = <<"ok", AtMost(arrived[f] - pos, n)>>
      \/ r = <<"end", 0>> \/ r = <<"again", 0>> \/ r = <<"error", 0>>
  BY DEF ReadResults
<1>4. AtMost(arrived[f] - pos, n) <= arrived[f] - pos
  BY <1>2 DEF AtMost
<1> QED
  BY <1>1, <1>2, <1>3, <1>4

\* The units that follow one another in the stream
LEMMA UnitsJoin ==
  ASSUME NEW q \in Nat, NEW a \in Nat, NEW b \in Nat
  PROVE  Units(q, a) \o Units(q + a, b) = Units(q, a + b)
<1> DEFINE A == Units(q, a)
           B == Units(q + a, b)
           C == Units(q, a + b)
<1>1. /\ A \in Seq(Nat) /\ Len(A) = a /\ B \in Seq(Nat) /\ Len(B) = b /\ q + a \in Nat
      /\ C \in Seq(Nat) /\ Len(C) = a + b
  BY UnitsSeq
<1>2. /\ \A i \in 1 .. a : A[i] = q + i
      /\ \A i \in 1 .. b : B[i] = q + a + i
      /\ \A i \in 1 .. a + b : C[i] = q + i
  BY DEF Units
<1> HIDE DEF A, B, C
<1>3. /\ A \o B \in Seq(Nat) /\ Len(A \o B) = a + b
      /\ \A i \in 1 .. a + b : (A \o B)[i] = IF i <= a THEN A[i] ELSE B[i - a]
  BY <1>1, ConcatProperties
<1>4. ASSUME NEW i \in 1 .. a + b PROVE (A \o B)[i] = C[i]
  <2>1. CASE i <= a
    <3>1. i \in 1 .. a
      BY <2>1
    <3> QED BY <1>2, <1>3, <2>1, <3>1
  <2>2. CASE ~(i <= a)
    <3>1. i - a \in 1 .. b
      BY <2>2
    <3>2. B[i - a] = q + a + (i - a) /\ C[i] = q + i
      BY <1>2, <3>1
    <3>3. q + a + (i - a) = q + i
      OBVIOUS
    <3> QED BY <1>3, <2>2, <3>2, <3>3
  <2> QED BY <2>1, <2>2
<1> QED
  BY <1>1, <1>3, <1>4, SeqEqual DEF A, B, C

\* The beginning of the PDU that read_cb reads
StartOf(f) == Len(got[f]) * InSz

\* An end of readpdu that fits the stream
Fits(f, o) ==
  /\ o.pos <= arrived[f]
  /\ ~o.succ => o.buf = <<>>
  /\ o.succ => o.pos = StartOf(f) + Len(o.buf) /\ o.buf = Units(StartOf(f), Len(o.buf))

LEMMA BodyFits ==
  ASSUME TypeOK, NEW f \in Fd, NEW a \in Nat, a <= InSz, StartOf(f) + a <= arrived[f],
         NEW o \in BodyRead(f, Units(StartOf(f), a), StartOf(f) + a)
  PROVE  Fits(f, o)
<1>1. StartOf(f) \in Nat /\ InSz \in Nat /\ eagain \in BOOLEAN
  <2>1. Len(got[f]) \in Nat /\ InSz \in Nat
    BY ConnConstants DEF TypeOK
  <2> QED BY <2>1 DEF StartOf, TypeOK
<1>2. PICK q \in Nat : q = StartOf(f)
  BY <1>1
<1> DEFINE b == Units(q, a)
<1>3. b \in Seq(Nat) /\ Len(b) = a
  BY UnitsSeq
<1>4. PICK r \in ReadResults(f, q + a, InSz - a) :
        o = CASE r[1] = "ok"    -> Outcome(TRUE, b \o Units(q + a, r[2]), q + a + r[2], eagain)
              [] r[1] = "again" -> Outcome(TRUE, b, q + a, TRUE)
              [] r[1] = "end"   -> Outcome(eagain, IF eagain THEN b ELSE <<>>, q + a, eagain)
              [] OTHER          -> Outcome(FALSE, <<>>, q + a, FALSE)
  BY <1>2, <1>3 DEF BodyRead
<1>5. r[2] \in Nat /\ q + a + r[2] <= arrived[f]
  <2>1. q + a \in Nat /\ InSz - a \in Nat /\ q + a <= arrived[f]
    BY <1>1, <1>2
  <2> QED BY <2>1, ReadArrived
<1>6. CASE r[1] = "ok"
  <2>1. b \o Units(q + a, r[2]) = Units(q, a + r[2])
    BY <1>5, UnitsJoin
  <2>2. o = Outcome(TRUE, Units(q, a + r[2]), q + a + r[2], eagain)
    BY <1>4, <1>6, <2>1
  <2>3. Len(Units(q, a + r[2])) = a + r[2]
    <3>1. a + r[2] \in Nat
      BY <1>5
    <3> QED BY <3>1, UnitsSeq
  <2> QED BY <1>2, <1>5, <2>2, <2>3 DEF Fits, Outcome
<1>7. CASE r[1] # "ok"
  <2>1. \/ o.succ = TRUE /\ o.buf = b /\ o.pos = q + a
        \/ o.succ = FALSE /\ o.buf = << >> /\ o.pos = q + a
    <3>1. CASE r[1] = "again"
      BY <1>4, <3>1 DEF Outcome
    <3>2. CASE r[1] = "end"
      <4>1. o = Outcome(eagain, IF eagain THEN b ELSE <<>>, q + a, eagain)
        BY <1>4, <3>2
      <4> QED BY <1>1, <4>1 DEF Outcome
    <3>3. CASE r[1] \notin {"ok", "again", "end"}
      BY <1>4, <3>3 DEF Outcome
    <3> QED BY <1>7, <3>1, <3>2, <3>3
  <2> QED BY <1>2, <1>3, <2>1 DEF Fits
<1> QED
  BY <1>6, <1>7

LEMMA HeaderFits ==
  ASSUME TypeOK, NEW f \in Fd, eaten[f] = StartOf(f), eaten[f] <= arrived[f], NEW o \in HeaderRead(f)
  PROVE  Fits(f, o)
<1>1. eaten[f] \in Nat /\ HdrSz \in Nat /\ InSz \in Nat /\ HdrSz <= InSz
  BY ConnConstants DEF TypeOK
<1>2. PICK r \in ReadResults(f, eaten[f], HdrSz) :
        o \in IF r[1] = "ok" /\ WholeHeader(r[2])
              THEN BodyRead(f, Units(eaten[f], r[2]), eaten[f] + r[2])
              ELSE {Outcome(FALSE, <<>>, eaten[f] + r[2], eagain /\ r[1] # "error")}
  BY DEF HeaderRead
<1>3. r[2] \in Nat /\ r[2] <= HdrSz /\ eaten[f] + r[2] <= arrived[f]
  BY <1>1, ReadArrived
<1>4. CASE r[1] = "ok" /\ WholeHeader(r[2])
  <2>1. o \in BodyRead(f, Units(StartOf(f), r[2]), StartOf(f) + r[2])
    BY <1>2, <1>4
  <2>2. r[2] <= InSz /\ StartOf(f) + r[2] <= arrived[f]
    BY <1>1, <1>3
  <2> QED BY <1>3, <2>1, <2>2, BodyFits
<1>5. CASE ~(r[1] = "ok" /\ WholeHeader(r[2]))
  <2>1. o = Outcome(FALSE, <<>>, eaten[f] + r[2], eagain /\ r[1] # "error")
    BY <1>2, <1>5
  <2> QED BY <1>3, <2>1 DEF Fits, Outcome
<1> QED
  BY <1>4, <1>5

\* A callback that signals send_complete_ sends nobody back.
LEMMA SignalForward ==
  ASSUME NEW f \in Fd, Signal(f)
  PROVE  Forward
BY DEF Signal, Forward, Early, Late, Waiting, Writing

\* read_cb after readpdu: the connection dies, or a PDU is consumed, or kept.
LEMMA Reads ==
  ASSUME ImplInv, TypeOK', NEW f \in Fd, ~dead_[f], NEW o, GoodOutcome(o), Fits(f, o),
         AfterRead(f, o), UNCHANGED <<wpdu_, ret, out, arrived>>
  PROVE  Faithful
<1>1. /\ TypeOK /\ StreamInv /\ OnceInv /\ dead_ \in [Fd -> BOOLEAN] /\ eaten \in [Fd -> Nat]
      /\ rpdu_ \in [Fd -> [buf : Seq(Nat), sz : {0, InSz}]] /\ got \in [Fd -> Seq(Seq(Nat))]
      /\ arrived[f] \in Nat
  BY DEF ImplInv, ConnInv, TypeOK
<1> DEFINE r == [buf |-> o.buf, sz |-> IF o.buf = <<>> THEN 0 ELSE InSz]
<1>2. /\ eaten' = [eaten EXCEPT ![f] = o.pos] /\ eagain' = o.again
      /\ IF o.succ
         THEN UNCHANGED <<aioVars, tabVars, dead_, pc>>
         ELSE /\ del_callback(f, CB_RDWR)
              /\ dead_' = [dead_ EXCEPT ![f] = TRUE]
              /\ signal_complete(f)
  BY DEF AfterRead, read_signal
<1>3. \/ /\ Full(r)
         /\ got' = [got EXCEPT ![f] = Append(@, o.buf)]
         /\ rpdu_' = [rpdu_ EXCEPT ![f] = EmptyR]
      \/ rpdu_' = [rpdu_ EXCEPT ![f] = r] /\ UNCHANGED got
  BY DEF AfterRead, Reset
<1>4. /\ o.pos \in Nat /\ o.pos <= arrived[f] /\ o.buf \in Seq(Nat) /\ o.succ \in BOOLEAN
      /\ Len(o.buf) <= InSz /\ Len(o.buf) \in Nat
  BY DEF GoodOutcome, Fits
<1>5. /\ \A g \in Fd : g # f => eaten'[g] = eaten[g] /\ rpdu_'[g] = rpdu_[g] /\ got'[g] = got[g]
      /\ eaten'[f] = o.pos
  BY <1>1, <1>2, <1>3
<1>6. Signal(f) /\ Forward
  <2>1. signal_complete(f) \/ UNCHANGED pc
    BY <1>2
  <2> QED BY <1>1, <2>1, Signals, SignalForward
<1>7. CASE ~o.succ
  <2>1. o.buf = << >>
    BY <1>7 DEF Fits
  <2>2. ~Full(r)
    BY <2>1 DEF Full
  <2>3. UNCHANGED got
    BY <1>3, <2>2
  <2>4. dead_'[f] /\ \A g \in Fd : g # f => dead_'[g] = dead_[g]
    BY <1>1, <1>2, <1>7
  <2>5. ASSUME NEW g \in Fd
        PROVE  /\ dead_[g] => dead_'[g]
               /\ eaten'[g] <= arrived'[g] /\ arrived'[g] <= NIn[g] * InSz
               /\ \/ dead_'[g]
                  \/ rpdu_'[g] = rpdu_[g] /\ eaten'[g] = eaten[g] /\ wpdu_'[g] = wpdu_[g]
    <3>1. eaten[g] <= arrived[g] /\ arrived[g] <= NIn[g] * InSz
      BY <1>1 DEF StreamInv
    <3> QED BY <1>4, <1>5, <2>4, <3>1
  <2> QED BY <1>6, <2>3, <2>5, Settles
<1>8. CASE o.succ
  <2>1. UNCHANGED <<dead_, pc>>
    BY <1>2, <1>8
  <2>2. PICK n \in Nat : n = Len(got[f])
    BY <1>1
  <2>3. InSz \in Nat /\ InSz > 0 /\ NIn[f] \in Nat
    BY ConnConstants
  <2>4. PICK q \in Nat : q = n * InSz
    BY <2>3
  <2>5. o.pos = q + Len(o.buf) /\ o.buf = Units(q, Len(o.buf))
    BY <1>8, <2>2, <2>4 DEF Fits, StartOf
  <2>6. StreamOK(f)
    BY <1>1 DEF StreamInv, StreamOK
  <2>7. OnceInv'
    BY <1>1, <2>1 DEF OnceInv
  <2>8. ASSUME NEW g \in Fd, g # f PROVE ChanStep(g) /\ StreamOK(g)'
    <3>1. ChanStep(g)
      BY <1>5, <2>1, <2>8, ChanStays
    <3>2. StreamOK(g)
      BY <1>1 DEF StreamInv, StreamOK
    <3>3. /\ eaten'[g] = eaten[g] /\ rpdu_'[g] = rpdu_[g] /\ got'[g] = got[g]
          /\ arrived'[g] = arrived[g] /\ dead_'[g] = dead_[g]
      BY <1>5, <2>1, <2>8
    <3> QED BY <3>1, <3>2, <3>3 DEF StreamOK, PduUnits, Units
  <2>9. CASE rpdu_' = [rpdu_ EXCEPT ![f] = r] /\ UNCHANGED got
    <3>1. ChanStep(f)
      BY <2>1, <2>9, ChanStays
    <3>2. rpdu_'[f] = r
      BY <1>1, <2>9
    <3>3. rpdu_'[f].buf = o.buf /\ (rpdu_'[f].sz = 0 => o.buf = << >>)
      BY <2>3, <3>2
    <3>4. StreamOK(f)'
      <4>1. Len(got'[f]) = n /\ got'[f] = got[f]
        BY <2>2, <2>9
      <4>2. /\ Len(got'[f]) <= NIn[f] /\ \A i \in 1 .. Len(got'[f]) : got'[f][i] = PduUnits(i)
            /\ arrived'[f] <= NIn[f] * InSz
        BY <2>6, <4>1 DEF StreamOK
      <4> QED BY <1>4, <1>5, <2>4, <2>5, <3>3, <4>1, <4>2 DEF StreamOK, PduUnits, Units
    <3> QED BY <2>7, <2>8, <3>1, <3>4 DEF Faithful, StreamInv, StreamOK
  <2>10. CASE /\ Full(r)
              /\ got' = [got EXCEPT ![f] = Append(@, o.buf)]
              /\ rpdu_' = [rpdu_ EXCEPT ![f] = EmptyR]
    <3>1. Len(o.buf) = InSz
      BY <2>10 DEF Full
    <3>2. (n + 1) - 1 = n /\ (n + 1) * InSz = q + InSz
      BY <2>3, <2>4
    <3>3. o.buf = PduUnits(n + 1)
      BY <2>4, <2>5, <3>1, <3>2 DEF PduUnits
    <3>4. n + 1 <= NIn[f]
      <4>1. arrived[f] <= NIn[f] * InSz /\ NIn[f] * InSz \in Nat
        BY <2>3, <2>6 DEF StreamOK
      <4>2. (n + 1) * InSz <= NIn[f] * InSz
        BY <1>1, <1>4, <2>3, <2>5, <3>1, <3>2, <4>1
      <4> QED BY <2>3, <4>2, Multiples
    <3>5. got'[f] = Append(got[f], PduUnits(n + 1)) /\ got[f] \in Seq(Seq(Nat))
      BY <1>1, <2>10, <3>3
    <3>6. ChanStep(f)
      BY <2>1, <2>2, <2>3, <3>4, <3>5, ChanReceives
    <3>7. rpdu_'[f] = EmptyR
      BY <1>1, <2>10
    <3>8. rpdu_'[f].buf = << >> /\ Len(rpdu_'[f].buf) = 0
      BY <3>7 DEF EmptyR
    <3>9. /\ Len(got'[f]) = n + 1 /\ got'[f][n + 1] = PduUnits(n + 1)
          /\ \A i \in 1 .. n : got'[f][i] = got[f][i]
      <4>1. PduUnits(n + 1) \in Seq(Nat)
        BY <1>4, <3>3
      <4> QED BY <2>2, <3>5, <4>1, AppendProperties
    <3>10. StreamOK(f)'
      <4>1. Len(got'[f]) <= NIn[f] /\ arrived'[f] <= NIn[f] * InSz
        BY <2>6, <3>4, <3>9 DEF StreamOK
      <4>2. \A i \in 1 .. Len(got'[f]) : got'[f][i] = PduUnits(i)
        <5>1. \A i \in 1 .. n : got[f][i] = PduUnits(i)
          BY <2>2, <2>6 DEF StreamOK
        <5>2. ASSUME NEW i \in 1 .. n + 1 PROVE got'[f][i] = PduUnits(i)
          <6>1. i = n + 1 \/ i \in 1 .. n
            OBVIOUS
          <6> QED BY <3>9, <5>1, <6>1
        <5> QED BY <3>9, <5>2
      <4>3. eaten'[f] = Len(got'[f]) * InSz + Len(rpdu_'[f].buf) /\ eaten'[f] <= arrived'[f]
        <5>1. Len(got'[f]) * InSz = q + InSz
          BY <3>2, <3>9
        <5>2. eaten'[f] = q + InSz
          BY <1>5, <2>5, <3>1
        <5> QED BY <1>4, <1>5, <2>3, <3>8, <5>1, <5>2
      <4>4. rpdu_'[f].buf = Units(Len(got'[f]) * InSz, Len(rpdu_'[f].buf))
        <5>1. Units(Len(got'[f]) * InSz, 0) = << >>
          BY DEF Units
        <5> QED BY <3>8, <5>1
      <4> QED BY <3>8, <4>1, <4>2, <4>3, <4>4 DEF StreamOK, PduUnits, Units
    <3> QED BY <2>7, <2>8, <3>6, <3>10 DEF Faithful, StreamInv, StreamOK
  <2> QED BY <1>3, <2>9, <2>10
<1> QED
  BY <1>4, <1>7, <1>8

\* The parts of the invariant.
LEMMA ImplParts ==
  ASSUME ImplInv
  PROVE  /\ ConnInv /\ TypeOK /\ StreamInv /\ OnceInv /\ BufInv /\ LineInv /\ KillInv
         /\ \A g \in Fd : eaten[g] <= arrived[g] /\ arrived[g] <= NIn[g] * InSz
         /\ \A s \in Sender : ConnOf[s] \in Fd
         /\ pc \in [Sender -> Places] /\ dead_ \in [Fd -> BOOLEAN]
BY ConnConstants DEF ImplInv, ConnInv, StreamInv, TypeOK, Places

\* A sender that moves from p to q, neither back nor to its end.
LEMMA MovesForward ==
  ASSUME ImplInv, NEW s \in Sender, NEW q, pc' = [pc EXCEPT ![s] = q],
         Early(q) => Early(pc[s]), Late(pc[s]) => Late(q)
  PROVE  Forward
BY ImplParts DEF Forward

\* The steps of the poll thread but for the callbacks.
LEMMA PollFaithful ==
  ASSUME ImplInv, TypeOK', PollKeeps
  PROVE  Faithful
<1>1. UNCHANGED <<pc, ret, out, got, dead_, rpdu_, wpdu_, eaten, arrived>>
  BY DEF PollKeeps, objVars, sendVars, sockVars
<1>2. Forward
  BY <1>1 DEF Forward
<1> QED
  BY <1>1, <1>2, Quiet

\* The steps of the owner and of the peer.
LEMMA EnvironmentFaithful ==
  ASSUME ImplInv, TypeOK', NEW f \in Fd,
         \/ connection(f) \/ closeconn(f) \/ CloseStep(f)
         \/ PeerSends(f) \/ PeerReads(f) \/ PeerCloses(f)
  PROVE  Faithful
<1>1. /\ \A g \in Fd : eaten[g] <= arrived[g] /\ arrived[g] <= NIn[g] * InSz
      /\ dead_ \in [Fd -> BOOLEAN] /\ arrived \in [Fd -> Nat] /\ eaten \in [Fd -> Nat]
  BY ImplParts DEF TypeOK
<1>2. UNCHANGED pc => Forward
  BY DEF Forward
<1>4. CASE connection(f) \/ CloseStep(f) \/ PeerReads(f) \/ PeerCloses(f)
  <2>1. UNCHANGED <<pc, ret, out, got, dead_, rpdu_, wpdu_, eaten, arrived>>
    BY <1>4 DEF connection, CloseStep, close_remove, close_removed, owner_decref, PeerReads, PeerCloses,
                objVars, sendVars, sockVars
  <2> QED BY <1>2, <2>1, Quiet
<1>5. CASE closeconn(f)
  <2>1. /\ UNCHANGED <<pc, ret, out, got, rpdu_, wpdu_, eaten, arrived>>
        /\ dead_' = [dead_ EXCEPT ![f] = TRUE]
    BY <1>5 DEF closeconn, sendVars
  <2>2. \A g \in Fd : dead_[g] => dead_'[g]
    BY <1>1, <2>1
  <2> QED BY <1>1, <1>2, <2>1, <2>2, Settles
<1>6. CASE PeerSends(f)
  <2>1. /\ UNCHANGED <<pc, ret, out, got, dead_, rpdu_, wpdu_, eaten>>
        /\ arrived[f] < NIn[f] * InSz /\ arrived' = [arrived EXCEPT ![f] = arrived[f] + 1]
    BY <1>6 DEF PeerSends, objVars, sendVars
  <2>2. ASSUME NEW g \in Fd
        PROVE  eaten'[g] <= arrived'[g] /\ arrived'[g] <= NIn[g] * InSz
    <3>1. CASE g = f
      <4>1. arrived'[f] = arrived[f] + 1 /\ eaten'[f] = eaten[f] /\ arrived[f] \in Nat /\ eaten[f] \in Nat
        BY <1>1, <2>1
      <4>2. NIn[f] \in Nat /\ InSz \in Nat
        BY ConnConstants
      <4>3. PICK m \in Nat : m = NIn[f] * InSz
        BY <4>2
      <4>4. eaten[f] <= arrived[f] /\ arrived[f] < m
        BY <1>1, <2>1, <4>3
      <4>5. eaten'[f] <= arrived'[f] /\ arrived'[f] <= m
        BY <4>1, <4>4
      <4> QED BY <3>1, <4>3, <4>5
    <3>2. CASE g # f
      <4>1. arrived'[g] = arrived[g] /\ eaten'[g] = eaten[g]
        BY <1>1, <2>1, <3>2
      <4> QED BY <1>1, <4>1
    <3> QED BY <3>1, <3>2
  <2>3. Forward
    BY <1>2, <2>1
  <2>4. \A g \in Fd : /\ dead_[g] => dead_'[g]
                      /\ rpdu_'[g] = rpdu_[g] /\ eaten'[g] = eaten[g] /\ wpdu_'[g] = wpdu_[g]
    BY <2>1
  <2>5. UNCHANGED <<ret, out, got>>
    BY <2>1
  <2> QED BY <2>2, <2>3, <2>4, <2>5, Settles
<1> QED
  BY <1>4, <1>5, <1>6

\* The steps of a sender that the channel does not see.
LEMMA SenderFaithful ==
  ASSUME ImplInv, TypeOK', NEW s \in Sender,
         incref(s) \/ sender_decref(s) \/ send_remove(s) \/ send_removed(s)
  PROVE  Faithful
<1>1. /\ UNCHANGED <<ret, out, got, dead_, rpdu_, wpdu_, eaten, arrived>>
      /\ \/ pc[s] = "idle" /\ pc' = [pc EXCEPT ![s] = "ref"]
         \/ pc[s] = "sent" /\ pc' = [pc EXCEPT ![s] = "done"]
         \/ pc[s] = "remove" /\ pc' = [pc EXCEPT ![s] = "removing"]
         \/ pc[s] = "removing" /\ pc' = [pc EXCEPT ![s] = "removed"]
  BY DEF incref, sender_decref, send_remove, send_removed, objVars, sockVars
<1>2. Forward
  BY <1>1, MovesForward DEF Early, Late, Waiting
<1> QED
  BY <1>1, <1>2, Quiet

\* The end of send after a failed write, or after a signal.
LEMMA FinishFaithful ==
  ASSUME ImplInv, TypeOK', NEW s \in Sender, send_resume(s) \/ send_failed(s)
  PROVE  Faithful
<1>1. /\ TypeOK /\ BufInv /\ LineInv /\ KillInv /\ ConnOf[s] \in Fd /\ dead_ \in [Fd -> BOOLEAN]
  BY ImplParts
<1>2. PICK f \in Fd : f = ConnOf[s]
  BY <1>1
<1>3. s \in SendersOf(f) /\ s # NULL
  BY <1>2, ConnConstants DEF SendersOf, NULL
<1>4. /\ UNCHANGED <<dead_, rpdu_, out, got, eaten, arrived>>
      /\ pc[s] \in {"signalled", "removed"}
  BY DEF send_resume, send_failed, sockVars
<1>5. wpdu_[f].buf = s
  BY <1>1, <1>2, <1>3, <1>4 DEF BufInv, Writing, Removing
<1>6. CASE UNCHANGED <<ret, wpdu_>> /\ pc' = [pc EXCEPT ![s] = "complete"]
  <2>1. Forward
    BY <1>4, <1>6, MovesForward DEF Early, Late, Waiting
  <2> QED BY <1>4, <1>6, <2>1, Quiet
<1>7. ASSUME NEW v \in BOOLEAN, send_finish(s, f, v), v = ~dead_[f], v => wpdu_[f].solong = OutSz
      PROVE  Faithful
  <2>1. /\ StepOf(s) /\ pc'[s] = "sent" /\ wpdu_'[f] = EmptyW
        /\ \A g \in Fd : g # f => wpdu_'[g] = wpdu_[g]
    BY <1>1, <1>7, Finishes
  <2>2. Late(pc'[s]) /\ ~Late(pc[s])
    BY <1>4, <2>1 DEF Late
  <2>3. CASE v
    <3>1. ret' = [ret EXCEPT ![s] = "true"]
      BY <1>7, <2>3 DEF send_finish
    <3>2. \E i \in 1 .. Len(LineOf(f)) : LineOf(f)[i] = s
      BY <1>1, <1>5, <1>7, <2>3, WrittenOnLine
    <3> QED BY <1>2, <1>4, <1>7, <2>1, <2>2, <2>3, <3>1, <3>2, Returns
  <2>4. CASE ~v
    <3>1. ret' = [ret EXCEPT ![s] = "false"]
      BY <1>7, <2>4 DEF send_finish
    <3>2. dead_[f]
      BY <1>1, <1>7, <2>4
    <3> QED BY <1>2, <1>4, <2>1, <2>2, <3>1, <3>2, Returns
  <2> QED BY <2>3, <2>4
<1>8. CASE send_failed(s)
  <2>1. send_finish(s, f, FALSE) /\ pc[s] = "removed"
    BY <1>2, <1>8 DEF send_failed
  <2>2. dead_[f] = TRUE
    BY <1>1, <1>3, <2>1 DEF KillInv, Removing
  <2> QED BY <1>7, <2>1, <2>2
<1>9. CASE send_resume(s)
  <2>1. IF ~dead_[f] /\ wpdu_[f].solong >= 0 /\ wpdu_[f].solong < wpdu_[f].sz
        THEN pc' = [pc EXCEPT ![s] = "complete"] /\ UNCHANGED <<ret, wpdu_>>
        ELSE send_finish(s, f, ~dead_[f] /\ wpdu_[f].solong = wpdu_[f].sz)
    BY <1>2, <1>9 DEF send_resume
  <2>2. CASE ~dead_[f] /\ wpdu_[f].solong >= 0 /\ wpdu_[f].solong < wpdu_[f].sz
    BY <1>6, <2>1, <2>2
  <2>3. CASE ~(~dead_[f] /\ wpdu_[f].solong >= 0 /\ wpdu_[f].solong < wpdu_[f].sz)
    <3>1. send_finish(s, f, ~dead_[f] /\ wpdu_[f].solong = wpdu_[f].sz)
      BY <2>1, <2>3
    <3>2. CASE dead_[f]
      <4>1. (~dead_[f] /\ wpdu_[f].solong = wpdu_[f].sz) = FALSE
        BY <3>2
      <4>2. send_finish(s, f, FALSE) /\ FALSE = ~dead_[f]
        BY <3>1, <3>2, <4>1
      <4> QED BY <1>7, <4>2
    <3>3. CASE ~dead_[f]
      <4>1. wpdu_[f].sz = OutSz /\ OutSz \in Nat /\ OutSz > 0
        BY <1>1, <1>3, <1>5, <3>3, ConnConstants DEF BufInv
      <4>2. wpdu_[f].solong = OutSz
        BY <1>1, <2>3, <3>3, <4>1, BufTyped DEF BufInv
      <4>3. (~dead_[f] /\ wpdu_[f].solong = wpdu_[f].sz) = TRUE
        BY <3>3, <4>1, <4>2
      <4>4. send_finish(s, f, TRUE) /\ TRUE = ~dead_[f]
        BY <1>1, <3>1, <3>3, <4>3
      <4> QED BY <1>7, <4>2, <4>4
    <3> QED BY <3>2, <3>3
  <2> QED BY <2>2, <2>3
<1> QED
  BY <1>8, <1>9

\* send on a dead connection, behind another PDU, and with wpdu_ free
LEMMA SendFaithful ==
  ASSUME ImplInv, TypeOK', NEW s \in Sender, send(s)
  PROVE  Faithful
<1>1. /\ ConnInv /\ TypeOK /\ OnceInv /\ ConnOf[s] \in Fd /\ dead_ \in [Fd -> BOOLEAN]
      /\ wpdu_ \in [Fd -> [buf : Sender \cup {NULL}, sz : {0, OutSz}, solong : -1 .. OutSz]]
      /\ \A g \in Fd : eaten[g] <= arrived[g] /\ arrived[g] <= NIn[g] * InSz
  BY ImplParts DEF TypeOK
<1>2. PICK f \in Fd : f = ConnOf[s]
  BY <1>1
<1>3. pc[s] \in {"ref", "woken"} /\ UNCHANGED <<rpdu_, arrived, eaten, got>>
  BY DEF send
<1>4. Early(pc[s]) /\ ~Late(pc[s])
  BY <1>3 DEF Early, Late, Waiting
<1>5. CASE dead_[f]
  <2>1. /\ pc' = [pc EXCEPT ![s] = "sent"] /\ ret' = [ret EXCEPT ![s] = "false"]
        /\ UNCHANGED <<dead_, wpdu_, out>>
    BY <1>2, <1>5 DEF send
  <2>2. StepOf(s) /\ pc'[s] = "sent"
    BY <1>1, <2>1, Moves DEF Places
  <2>3. Late(pc'[s])
    BY <2>2 DEF Late
  <2> QED BY <1>2, <1>3, <1>4, <1>5, <2>1, <2>2, <2>3, Returns
<1>6. CASE ~dead_[f] /\ Busy(f)
  <2>1. pc' = [pc EXCEPT ![s] = "wait"] /\ UNCHANGED <<dead_, wpdu_, ret, out>>
    BY <1>2, <1>6 DEF send
  <2>2. Forward
    BY <1>4, <2>1, MovesForward
  <2> QED BY <1>3, <2>1, <2>2, Quiet
<1>7. CASE ~dead_[f] /\ ~Busy(f)
  <2>1. send_write(s, f)
    BY <1>2, <1>7 DEF send
  <2> DEFINE W(n) ==
        /\ out' = [out EXCEPT ![f] = @ \o [i \in 1 .. n |-> s]]
        /\ \/ /\ n = -1
              /\ dead_' = [dead_ EXCEPT ![f] = TRUE]
              /\ wpdu_' = [wpdu_ EXCEPT ![f] = [buf |-> s, sz |-> 0, solong |-> -1]]
              /\ pc' = [pc EXCEPT ![s] = "remove"]
              /\ ret' = ret
           \/ n = OutSz /\ send_finish(s, f, TRUE) /\ dead_' = dead_
           \/ /\ n \in 0 .. OutSz - 1
              /\ wpdu_' = [wpdu_ EXCEPT ![f] = [buf |-> s, sz |-> OutSz, solong |-> n]]
              /\ pc' = [pc EXCEPT ![s] = "complete"]
              /\ ret' = ret /\ dead_' = dead_
  <2>2. \E n : W(n)
    BY <2>1 DEF send_write
  <2>3. PICK n : W(n)
    BY <2>2
  <2>4. OutSz \in Nat /\ OutSz > 0
    BY ConnConstants
  <2>5. PICK k \in Nat : Ends(out[f], k, 0, s)
    BY <1>1, <1>7, FreeLine DEF Busy
  <2>6. out \in [Fd -> Seq(Sender)] /\ out[f] \in Seq(Sender)
    BY <1>1 DEF TypeOK
  <2>7. \A i \in 1 .. Len(out[f]) - 0 : out[f][i] # s
    <3>1. \A i \in 1 .. Len(out[f]) : out[f][i] # s
      BY <1>1, <1>2, <1>4 DEF OnceInv, Early
    <3>2. Len(out[f]) - 0 = Len(out[f])
      BY <2>6
    <3> QED BY <3>1, <3>2
  <2>8. CASE n = -1
    <3>1. /\ dead_' = [dead_ EXCEPT ![f] = TRUE] /\ ret' = ret
          /\ wpdu_' = [wpdu_ EXCEPT ![f] = [buf |-> s, sz |-> 0, solong |-> -1]]
          /\ pc' = [pc EXCEPT ![s] = "remove"]
      <4>1. n # OutSz /\ n \notin 0 .. OutSz - 1
        BY <2>4, <2>8
      <4> QED BY <2>3, <4>1
    <3>2. UNCHANGED out
      <4>1. out' = [out EXCEPT ![f] = Extended(out[f], n, s)]
        BY <2>3 DEF Extended
      <4>2. Extended(out[f], n, s) = out[f]
        BY <2>6, <2>8, NoUnits
      <4> QED BY <2>6, <4>1, <4>2
    <3>3. Forward
      BY <1>4, <3>1, MovesForward DEF Early, Waiting
    <3>4. dead_'[f] /\ \A g \in Fd : g # f => dead_'[g] = dead_[g] /\ wpdu_'[g] = wpdu_[g]
      BY <1>1, <3>1
    <3>5. \A g \in Fd : /\ dead_[g] => dead_'[g]
                        /\ \/ dead_'[g]
                           \/ rpdu_'[g] = rpdu_[g] /\ eaten'[g] = eaten[g] /\ wpdu_'[g] = wpdu_[g]
      BY <1>3, <3>4
    <3> QED BY <1>1, <1>3, <3>1, <3>2, <3>3, <3>5, Settles
  <2>9. CASE n = OutSz
    <3>1. send_finish(s, f, TRUE) /\ dead_' = dead_
      <4>1. n # -1 /\ n \notin 0 .. OutSz - 1
        BY <2>4, <2>9
      <4> QED BY <2>3, <4>1
    <3>2. /\ StepOf(s) /\ pc'[s] = "sent" /\ wpdu_'[f] = EmptyW
          /\ \A g \in Fd : g # f => wpdu_'[g] = wpdu_[g]
      BY <1>1, <3>1, Finishes
    <3>3. ret' = [ret EXCEPT ![s] = "true"]
      BY <3>1 DEF send_finish
    <3>4. Forward /\ Late(pc'[s]) /\ ~Early(pc'[s])
      BY <1>4, <3>2 DEF Forward, StepOf, Early, Late, Waiting
    <3>5. n \in Nat /\ 0 \in Nat /\ 0 < OutSz /\ 0 + n <= OutSz /\ 0 + n = OutSz
      BY <2>4, <2>9
    <3>6. out' = [out EXCEPT ![f] = @ \o [i \in 1 .. n |-> s]]
      BY <2>3
    <3>7. UNCHANGED <<dead_, rpdu_, got, eaten, arrived>>
      BY <1>3, <3>1
    <3>8. ImplInv /\ TypeOK' /\ s \in Sender /\ f \in Fd /\ k \in Nat
      OBVIOUS
    <3> QED BY ONLY <1>2, <1>4, <1>7, <2>5, <2>7, <3>2, <3>3, <3>4, <3>5, <3>6, <3>7, <3>8, Writes
  <2>10. CASE n \in 0 .. OutSz - 1
    <3>1. /\ wpdu_' = [wpdu_ EXCEPT ![f] = [buf |-> s, sz |-> OutSz, solong |-> n]]
          /\ pc' = [pc EXCEPT ![s] = "complete"] /\ ret' = ret /\ dead_' = dead_
      <4>1. n # -1 /\ n # OutSz
        BY <2>4, <2>10
      <4> QED BY <2>3, <4>1
    <3>2. Forward /\ pc'[s] = "complete"
      BY <1>4, <3>1, MovesForward, ImplParts DEF Early, Waiting
    <3>3. ~Early(pc'[s])
      BY <3>2 DEF Early, Waiting
    <3>4. /\ wpdu_'[f].buf = s /\ wpdu_'[f].solong = n
          /\ \A g \in Fd : g # f => wpdu_'[g] = wpdu_[g]
      BY <1>1, <3>1
    <3>5. n \in Nat /\ 0 \in Nat /\ 0 < OutSz /\ 0 + n <= OutSz /\ 0 + n = n
      BY <2>4, <2>10
    <3>6. out' = [out EXCEPT ![f] = @ \o [i \in 1 .. n |-> s]]
      BY <2>3
    <3>7. UNCHANGED <<dead_, rpdu_, got, eaten, arrived>> /\ ret' = ret
      BY <1>3, <3>1
    <3>8. ImplInv /\ TypeOK' /\ s \in Sender /\ f \in Fd /\ k \in Nat
      OBVIOUS
    <3> QED BY ONLY <1>2, <1>4, <1>7, <2>5, <2>7, <3>2, <3>3, <3>4, <3>5, <3>6, <3>7, <3>8, Writes
  <2> QED BY <2>3, <2>8, <2>9, <2>10
<1> QED
  BY <1>5, <1>6, <1>7

\* write_cb
LEMMA WriteFaithful ==
  ASSUME ImplInv, TypeOK', NEW f \in Fd, write_cb(f)
  PROVE  Faithful
<1>1. /\ TypeOK /\ OnceInv /\ BufInv /\ LineInv /\ dead_ \in [Fd -> BOOLEAN]
      /\ wpdu_ \in [Fd -> [buf : Sender \cup {NULL}, sz : {0, OutSz}, solong : -1 .. OutSz]]
      /\ \A g \in Fd : eaten[g] <= arrived[g] /\ arrived[g] <= NIn[g] * InSz
  BY ImplParts DEF TypeOK
<1>2. UNCHANGED <<rpdu_, ret, arrived, eaten, got>>
  BY DEF write_cb
<1>3. /\ wpdu_[f].buf \in Sender \cup {NULL} /\ wpdu_[f].sz \in {0, OutSz}
      /\ wpdu_[f].solong \in -1 .. OutSz /\ OutSz \in Nat /\ OutSz > 0
  BY <1>1, BufTyped, ConnConstants
<1>4. CASE UNCHANGED <<dead_, wpdu_, out>> /\ (signal_complete(f) \/ UNCHANGED pc)
  <2>1. Forward
    BY <1>1, <1>4, Signals, SignalForward
  <2> QED BY <1>2, <1>4, <2>1, Quiet
<1>5. CASE ~dead_[f] /\ wpdu_[f].sz # 0 /\ wpdu_[f].solong # wpdu_[f].sz
  <2>1. PICK n \in WriteResults(f, wpdu_[f].sz - wpdu_[f].solong, shut[f]) :
          /\ out' = [out EXCEPT ![f] = @ \o [i \in 1 .. n |-> wpdu_[f].buf]]
          /\ dead_' = [dead_ EXCEPT ![f] = n = -1]
          /\ wpdu_' = [wpdu_ EXCEPT ![f].solong = IF n = -1 THEN -1 ELSE @ + n,
                                    ![f].sz = IF n = -1 THEN 0 ELSE @]
          /\ signal_complete(f) \/ UNCHANGED pc
    BY <1>5 DEF write_cb
  <2>2. wpdu_[f].buf # NULL
    BY <1>1, <1>5 DEF BufInv, EmptyW
  <2>3. PICK x \in Sender : x = wpdu_[f].buf
    BY <1>3, <2>2
  <2>4. wpdu_[f].sz = OutSz /\ wpdu_[f].solong >= 0
    BY <1>1, <1>3, <1>5 DEF BufInv
  <2>5. PICK p \in Nat : p = wpdu_[f].solong
    BY <1>3, <2>4
  <2>6. p < OutSz /\ OutSz - p \in Nat /\ OutSz - p > 0
    BY <1>3, <1>5, <2>4, <2>5
  <2>7. n \in -1 .. OutSz - p
    <3>1. n \in WriteResults(f, OutSz - p, shut[f]) /\ shut[f] \in BOOLEAN
      BY <1>1, <2>4, <2>5 DEF TypeOK
    <3> QED BY <1>1, <2>6, <3>1, WriteReturns
  <2>8. \A g \in Fd : g # f => wpdu_'[g] = wpdu_[g] /\ dead_'[g] = dead_[g]
    BY <1>1, <2>1
  <2>9. wpdu_'[f].buf = x /\ (n # -1 => wpdu_'[f].solong = p + n)
    BY <1>1, <2>1, <2>3, <2>5
  <2>10. Signal(f) /\ Forward
    BY <1>1, <2>1, Signals, SignalForward
  <2>11. out \in [Fd -> Seq(Sender)] /\ out[f] \in Seq(Sender)
    BY <1>1 DEF TypeOK
  <2>12. CASE n = -1
    <3>1. UNCHANGED out
      <4>1. out' = [out EXCEPT ![f] = Extended(out[f], n, x)]
        BY <2>1, <2>3 DEF Extended
      <4>2. Extended(out[f], n, x) = out[f]
        BY <2>11, <2>12, NoUnits
      <4> QED BY <2>11, <4>1, <4>2
    <3>2. dead_'[f]
      BY <1>1, <2>1, <2>12
    <3>3. \A g \in Fd : /\ dead_[g] => dead_'[g]
                        /\ \/ dead_'[g]
                           \/ rpdu_'[g] = rpdu_[g] /\ eaten'[g] = eaten[g] /\ wpdu_'[g] = wpdu_[g]
      BY <1>2, <2>8, <3>2
    <3> QED BY <1>1, <1>2, <2>10, <3>1, <3>3, Settles
  <2>13. CASE n # -1
    <3>1. n \in Nat /\ p + n <= OutSz
      BY <1>3, <2>6, <2>7, <2>13
    <3>2. PICK k \in Nat : /\ Len(out[f]) = OutSz * k + wpdu_[f].solong
                           /\ \A i \in OutSz * k + 1 .. Len(out[f]) : out[f][i] = wpdu_[f].buf
      BY <1>1, <1>5 DEF LineInv
    <3>3. Ends(out[f], k, p, x)
      BY <2>3, <2>5, <3>2 DEF Ends
    <3>4. \A i \in 1 .. Len(out[f]) - p : out[f][i] # x
      BY <1>1, <1>5, <2>3, <2>5 DEF OnceInv
    <3>5. out' = [out EXCEPT ![f] = @ \o [i \in 1 .. n |-> x]]
      BY <2>1, <2>3
    <3>6. ConnOf[x] = f /\ pc[x] \in Writing \cup Removing
      BY <1>1, <2>2, <2>3 DEF BufInv
    <3>7. ~Late(pc[x]) /\ ~Early(pc'[x])
      BY <2>10, <3>6 DEF Signal, Late, Early, Writing, Removing, Waiting
    <3>8. dead_' = dead_
      <4>1. dead_' = [dead_ EXCEPT ![f] = FALSE] /\ dead_[f] = FALSE
        BY <1>1, <1>5, <2>1, <2>13
      <4> QED BY <1>1, <4>1
    <3> QED BY ZenonT(40), <1>2, <1>5, <2>6, <2>8, <2>9, <2>10, <2>13, <3>1, <3>3, <3>4, <3>5, <3>6, <3>7, <3>8, Writes
  <2> QED BY <2>12, <2>13
<1> QED
  <2>1. ~(wpdu_[f].solong = wpdu_[f].sz) \/ ~(wpdu_[f].solong < wpdu_[f].sz)
    BY <1>3
  <2> QED BY <1>4, <1>5, <2>1 DEF write_cb

\* read_cb
LEMMA ReadFaithful ==
  ASSUME ImplInv, TypeOK', NEW f \in Fd, read_cb(f)
  PROVE  Faithful
<1>1. /\ ConnInv /\ TypeOK /\ StreamInv /\ ReadInv /\ StreamOK(f)
  BY ImplParts, Parts DEF StreamInv, StreamOK
<1>2. /\ UNCHANGED <<wpdu_, ret, out, arrived>>
  BY DEF read_cb
<1>3. rpdu_[f].buf \in Seq(Nat) /\ Len(rpdu_[f].buf) \in Nat /\ Len(rpdu_[f].buf) <= InSz
  <2>1. rpdu_[f] \in [buf : Seq(Nat), sz : {0, InSz}]
    BY <1>1 DEF TypeOK
  <2> QED BY <1>1, <2>1 DEF ReadInv
<1>4. eaten[f] \in Nat /\ eagain \in BOOLEAN
  BY <1>1 DEF TypeOK
<1>5. CASE UNCHANGED <<dead_, rpdu_, pc, eaten, got>>
  <2>1. Forward
    BY <1>5 DEF Forward
  <2> QED BY <1>2, <1>5, <2>1, Quiet
<1>6. CASE ~dead_[f] /\ \E o : GoodOutcome(o) /\ Fits(f, o) /\ AfterRead(f, o)
  BY <1>2, <1>6, Reads
<1>7. ASSUME ~dead_[f]
      PROVE  /\ eaten[f] = StartOf(f) + Len(rpdu_[f].buf) /\ eaten[f] <= arrived[f]
             /\ rpdu_[f].buf = Units(StartOf(f), Len(rpdu_[f].buf))
             /\ rpdu_[f].sz = 0 => eaten[f] = StartOf(f)
  <2>1. StartOf(f) \in Nat
    <3>1. Len(got[f]) \in Nat /\ InSz \in Nat
      BY <1>1, ConnConstants DEF TypeOK
    <3> QED BY <3>1 DEF StartOf
  <2>2. /\ eaten[f] = StartOf(f) + Len(rpdu_[f].buf) /\ eaten[f] <= arrived[f]
        /\ rpdu_[f].buf = Units(StartOf(f), Len(rpdu_[f].buf))
        /\ rpdu_[f].sz = 0 => rpdu_[f].buf = << >>
    BY <1>1, <1>7 DEF StreamOK, StartOf
  <2> QED BY <2>1, <2>2
<1>8. CASE dead_[f]
  BY <1>5, <1>8 DEF read_cb
<1>9. CASE ~dead_[f] /\ Full(rpdu_[f])
  <2> DEFINE o == Outcome(TRUE, rpdu_[f].buf, eaten[f], eagain)
  <2>1. AfterRead(f, o)
    BY <1>9 DEF read_cb, Full
  <2>2. GoodOutcome(o)
    BY <1>3, <1>4 DEF GoodOutcome, Outcome
  <2>3. Fits(f, o)
    BY <1>7, <1>9 DEF Fits, Outcome
  <2> QED BY <1>6, <1>9, <2>1, <2>2, <2>3
<1>10. CASE ~dead_[f] /\ rpdu_[f].sz # 0 /\ ~Full(rpdu_[f])
  <2>1. PICK o \in BodyRead(f, rpdu_[f].buf, eaten[f]) : AfterRead(f, o)
    BY <1>10 DEF read_cb
  <2>2. GoodOutcome(o)
    BY <1>1, <1>3, <1>4, BodyOutcome
  <2>3. Fits(f, o)
    BY <1>1, <1>3, <1>7, <1>10, BodyFits
  <2> QED BY <1>6, <1>10, <2>1, <2>2, <2>3
<1>11. CASE ~dead_[f] /\ rpdu_[f].sz = 0
  <2>1. CASE <<"again", 0>> \in ReadResults(f, eaten[f], HdrSz)
    BY <1>5, <1>11, <2>1 DEF read_cb, Full
  <2>2. CASE <<"again", 0>> \notin ReadResults(f, eaten[f], HdrSz)
    <3>1. PICK o \in HeaderRead(f) : AfterRead(f, o)
      BY <1>11, <2>2 DEF read_cb, Full
    <3>2. GoodOutcome(o)
      BY <1>1, HeaderOutcome
    <3>3. Fits(f, o)
      BY <1>1, <1>7, <1>11, HeaderFits
    <3> QED BY <1>6, <1>11, <3>1, <3>2, <3>3
  <2> QED BY <2>1, <2>2
<1> QED
  BY <1>8, <1>9, <1>10, <1>11

\* The beginning
LEMMA InitImpl ==
  ASSUME Init
  PROVE  ImplInv /\ \A f \in Fd : Chan(f)!Init
<1>1. ConnInv
  BY InitConn
<1>2. /\ \A f \in Fd : /\ dead_[f] = FALSE /\ wpdu_[f] = EmptyW /\ rpdu_[f] = EmptyR
                       /\ out[f] = << >> /\ got[f] = << >> /\ arrived[f] = 0 /\ eaten[f] = 0
      /\ \A s \in Sender : ret[s] = "none" /\ ConnOf[s] \in Fd
  BY ConnConstants DEF Init
<1>3. ASSUME NEW f \in Fd PROVE StreamOK(f)
  <2>1. NIn[f] \in Nat /\ InSz \in Nat
    BY ConnConstants
  <2>2. NIn[f] * InSz \in Nat /\ 0 * InSz = 0
    BY <2>1
  <2>3. /\ eaten[f] = 0 /\ arrived[f] = 0 /\ got[f] = << >> /\ Len(got[f]) = 0
        /\ rpdu_[f].buf = << >> /\ Len(rpdu_[f].buf) = 0
    BY <1>2 DEF EmptyR
  <2>4. Units(Len(got[f]) * InSz, 0) = << >>
    BY DEF Units
  <2>5. /\ eaten[f] <= arrived[f] /\ arrived[f] <= NIn[f] * InSz /\ Len(got[f]) <= NIn[f]
        /\ \A i \in 1 .. Len(got[f]) : got[f][i] = PduUnits(i)
    BY <2>1, <2>2, <2>3
  <2>6. eaten[f] = Len(got[f]) * InSz + Len(rpdu_[f].buf)
    BY <2>2, <2>3
  <2> QED BY <2>3, <2>4, <2>5, <2>6 DEF StreamOK
<1>4. StreamInv
  BY <1>3 DEF StreamInv, StreamOK
<1>5. OnceInv
  BY <1>2 DEF OnceInv, EmptyW
<1>6. ASSUME NEW f \in Fd PROVE Chan(f)!Init
  <2>1. LineOf(f) = << >>
    <3>1. OutSz \in Nat /\ OutSz > 0
      BY ConnConstants
    <3>2. Len(out[f]) = OutSz * 0 + 0 /\ 0 \in Nat /\ 0 < OutSz
      BY <1>2, <3>1
    <3>3. Len(out[f]) \div OutSz = 0
      BY <3>2, LineLength
    <3> QED BY <3>3 DEF LineOf
  <2>2. GotOf(f) = << >>
    BY <1>2 DEF GotOf
  <2>3. ResOf(f) = [s \in SendersOf(f) |-> "none"]
    BY <1>2 DEF ResOf, SendersOf
  <2> QED BY <1>2, <2>1, <2>2, <2>3 DEF Chan!Init
<1> QED
  BY <1>1, <1>4, <1>5, <1>6 DEF ImplInv

\* Every step keeps the invariant and is a step of every channel, or none.
LEMMA NextImpl ==
  ASSUME ImplInv, [Next]_vars
  PROVE  ImplInv' /\ \A f \in Fd : ChanStep(f)
<1>1. ConnInv'
  BY NextConn DEF ImplInv
<1>2. TypeOK'
  BY <1>1 DEF ConnInv
<1>3. CASE UNCHANGED vars
  <2>1. UNCHANGED <<pc, ret, out, got, dead_, rpdu_, wpdu_, eaten, arrived>>
    BY <1>3 DEF vars, objVars, sendVars, sockVars
  <2>2. Forward
    BY <2>1 DEF Forward
  <2>3. Faithful
    BY <1>2, <2>1, <2>2, Quiet
  <2> QED BY <1>1, <2>3 DEF Faithful, ImplInv
<1>4. CASE Next
  <2>1. CASE PollStep
    <3>1. ASSUME PollKeeps PROVE Faithful
      BY <1>2, <3>1, PollFaithful
    <3>2. ASSUME NEW f \in Fd, read_cb(f) \/ write_cb(f) PROVE Faithful
      BY <1>2, <3>2, ReadFaithful, WriteFaithful
    <3>3. Faithful
      BY <2>1, <3>1, <3>2 DEF PollStep
    <3> QED BY <1>1, <3>3 DEF Faithful, ImplInv
  <2>2. CASE PollSelect \/ PollInterrupted
    <3>1. Faithful
      BY <1>2, <2>2, PollFaithful DEF PollSelect, PollInterrupted
    <3> QED BY <1>1, <3>1 DEF Faithful, ImplInv
  <2>3. ASSUME NEW s \in Sender, incref(s) \/ SendStep(s) PROVE Faithful
    BY <1>2, <2>3, SendFaithful, SenderFaithful, FinishFaithful DEF SendStep
  <2>4. ASSUME NEW f \in Fd, connection(f) \/ closeconn(f) \/ CloseStep(f) PROVE Faithful
    BY <1>2, <2>4, EnvironmentFaithful
  <2>5. ASSUME NEW f \in Fd, PeerSends(f) \/ PeerReads(f) \/ PeerCloses(f) PROVE Faithful
    BY <1>2, <2>5, EnvironmentFaithful
  <2>6. Faithful => ImplInv' /\ \A f \in Fd : ChanStep(f)
    BY <1>1 DEF Faithful, ImplInv
  <2> QED BY <1>4, <2>1, <2>2, <2>3, <2>4, <2>5, <2>6 DEF Next
<1> QED
  BY <1>3, <1>4

\* Every connection is a channel: under any interleaving of senders, callbacks,
\* closeconn, partial reads and writes, its PDUs go out whole and in one order,
\* the peer's come in whole, in order and once each, and send returns true only
\* for a PDU that is all on the line, false only on a dead connection.
THEOREM ChannelCorrect == Spec => ImplementsPduChannel
<1>1. Init => ImplInv /\ \A f \in Fd : Chan(f)!Init
  BY InitImpl
<1>2. ImplInv /\ [Next]_vars => ImplInv' /\ \A f \in Fd : ChanStep(f)
  BY NextImpl
<1>3. (\A f \in Fd : ChanStep(f)) <=> (\A f \in Fd : [Chan(f)!Next]_(Chan(f)!vars))
  BY DEF ChanStep
<1>4. ImplInv /\ [Next]_vars => ImplInv' /\ \A f \in Fd : [Chan(f)!Next]_(Chan(f)!vars)
  BY <1>2, <1>3
<1> QED
  BY <1>1, <1>4, PTL DEF Spec, ImplementsPduChannel

\* The same, as the implementation of PduChannel's specification.
THEOREM ImplementsChannel == ASSUME NEW f \in Fd PROVE Spec => Chan(f)!Spec
<1>1. Init => ImplInv /\ Chan(f)!Init
  BY InitImpl
<1>2. ImplInv /\ [Next]_vars => ImplInv' /\ [Chan(f)!Next]_(Chan(f)!vars)
  BY NextImpl DEF ChanStep
<1> QED
  BY <1>1, <1>2, PTL DEF Spec, Chan!Spec

=============================================================================
