------------------------------ MODULE Marshal -------------------------------
(***************************************************************************)
(* The classes marshall and unmarshall, and the templates built on them:   *)
(* rpcc::call and call_m on the client, the handlers made by rpcs::reg on  *)
(* the server.  One call: the client marshalls arguments and header, the   *)
(* server unpacks them and runs the handler if they fit the types it was   *)
(* registered with, and the reply travels back the same way.  (Calls share *)
(* no buffer: marshall and unmarshall are local variables.)  Every raw     *)
(* write is a step, so that the capacity of the buffer can be watched; a   *)
(* value is read in one step.                                              *)
(*                                                                         *)
(* Sizes are the code's, in bytes; a byte has Byte values instead of 256.  *)
(* A value is [t |-> its type, v |-> a sequence of numbers]: one number    *)
(* for bool (0 or 1), char, short and int, two for unsigned long long,     *)
(* five for extent_protocol::attr, the bytes of a string, the elements of  *)
(* a vector of ints, and keys and values in turn, keys ascending, for a    *)
(* map of unsigned ints.                                                   *)
(* A signed number is its residue modulo Word, as the conversions to       *)
(* unsigned make it.                                                       *)
(***************************************************************************)
EXTENDS Integers, SequencesExt

CONSTANTS Byte,            \* number of values of a byte
          DEFAULT_RPC_SZ,  \* first capacity of a buffer
          Call,            \* the calls an application may make
          Refusal          \* what dispatch answers without running a handler

IntSz == 4
Word  == Byte * Byte * Byte * Byte

\* req_header is the larger of the two headers; rpc_sz_t comes before it.
RPC_HEADER_SZ == IntSz + 5 * IntSz

Type   == {"bool", "char", "short", "int", "ull", "attr", "string", "vector", "map"}
Number == 0 .. Word - 1
Value  == [t : Type, v : Seq(Number)]

\* One call, as both sides see it: arguments, types of the handler, header,
\* return value and result, type and old value of the application's variable.
CallRecord ==
  [args : Seq(Value), sig : Seq(Type), head : [1 .. 5 -> Number],
   ret : Number, r : Value, rtype : Type, old : Seq(Number)]

ASSUME MarshalConstants ==
  /\ Byte \in Nat /\ Byte > 1
  /\ DEFAULT_RPC_SZ \in Nat /\ DEFAULT_RPC_SZ >= RPC_HEADER_SZ
  /\ Call \subseteq CallRecord
  /\ Refusal \subseteq Word \div 2 .. Word - 1

Uninit == -1     \* a byte that malloc or realloc left as it was

VARIABLES
  pc,     \* idle, put, pack, unpack, get, done; or abort when the process dies
  k,      \* the call being made
  side,   \* whether the request or the reply is being handled
  m,      \* the marshall: _buf, _capa and _ind
  saved,  \* saved_sz of pack_req_header and pack_reply_header
  todo,   \* raw writes that are still to be made
  pdu,    \* the message the other side received
  u,      \* its unmarshall: _ind and _ok (_sz is the length of pdu)
  hdr,    \* the header that was unpacked
  left,   \* types that are still to be read
  got     \* the values that were read

vars == <<pc, k, side, m, saved, todo, pdu, u, hdr, left, got>>

-----------------------------------------------------------------------------
(* marshall *)

\* Mutant: the capacity is doubled whatever the length of the data.
Doubled(capa, n) == 2 * capa

\* The new capacity in rawbytes.
Grown(capa, n) == IF capa > n THEN 2 * capa ELSE capa + n

\* realloc to capacity c, then n bytes s at _ind.
Write(c, s) ==
  [buf  |-> [i \in 0 .. c - 1 |->
               IF i \in m.ind .. m.ind + Len(s) - 1 THEN s[i - m.ind + 1]
               ELSE IF i < m.capa THEN m.buf[i] ELSE Uninit],
   capa |-> c,
   ind  |-> m.ind + Len(s)]

\* marshall::marshall
Fresh == [buf  |-> [i \in 0 .. DEFAULT_RPC_SZ - 1 |-> Uninit],
          capa |-> DEFAULT_RPC_SZ,
          ind  |-> RPC_HEADER_SZ]

Writing == pc \in {"put", "pack"} /\ todo # <<>>

rawbyte ==
  /\ Writing
  /\ Head(todo).op = "rawbyte"
  /\ m' = Write(IF m.ind >= m.capa THEN 2 * m.capa ELSE m.capa, Head(todo).s)
  /\ todo' = Tail(todo)
  /\ UNCHANGED <<pc, k, side, saved, pdu, u, hdr, left, got>>

rawbytes ==
  /\ Writing
  /\ Head(todo).op = "rawbytes"
  /\ LET s == Head(todo).s
     IN  m' = Write(IF m.ind + Len(s) > m.capa THEN Grown(m.capa, Len(s)) ELSE m.capa, s)
  /\ todo' = Tail(todo)
  /\ UNCHANGED <<pc, k, side, saved, pdu, u, hdr, left, got>>

\* The numbers s, each in w bytes, the most significant byte first.
Digits(s, w) ==
  [j \in 1 .. w * Len(s) |->
     (s[((j - 1) \div w) + 1] \div Byte ^ (w - 1 - ((j - 1) % w))) % Byte]

\* The calls of rawbyte that write the bytes bs.
EachByte(bs) == [j \in DOMAIN bs |-> [op |-> "rawbyte", s |-> <<bs[j]>>]]

\* The bytes of one number of type t, or of one element of it.
WidthOf(t) == CASE t \in {"bool", "char"} -> 1 [] t = "short" -> 2 [] OTHER -> IntSz

\* The number of elements, which comes before those of a vector or a map.
SizeField(v) ==
  CASE v.t = "vector" -> <<Len(v.v)>>
    [] v.t = "map"    -> <<Len(v.v) \div 2>>
    [] OTHER          -> <<>>

\* The operators <<: the raw writes that marshall a value.
Put(v) ==
  IF v.t = "string"
  THEN EachByte(Digits(<<Len(v.v)>>, IntSz)) \o <<[op |-> "rawbytes", s |-> v.v]>>
  ELSE EachByte(Digits(SizeField(v) \o v.v, WidthOf(v.t)))

PutAll(vs) == FlattenSeq([i \in DOMAIN vs |-> Put(vs[i])])

\* What call1 and dispatch put into the header.
HeaderOf == IF side = "request" THEN k.head ELSE <<k.head[1], k.ret>>

\* The first half of pack_req_header and of pack_reply_header.
pack_header ==
  /\ pc = "put" /\ todo = <<>>
  /\ saved' = m.ind
  /\ m' = [m EXCEPT !.ind = IntSz]
  /\ todo' = EachByte(Digits(HeaderOf, IntSz))
  /\ pc' = "pack"
  /\ UNCHANGED <<k, side, pdu, u, hdr, left, got>>

\* The second half, _ind = saved_sz; then connection::send, which writes the
\* size over the first bytes, takes the message to the other side.  dispatch
\* gives the buffer away before that (take_buf); call1 keeps it.
send ==
  /\ pc = "pack" /\ todo = <<>>
  /\ pdu' = Digits(<<saved>>, IntSz) \o [i \in 1 .. saved - IntSz |-> m.buf[IntSz + i - 1]]
  /\ m' = [m EXCEPT !.ind = saved]
  /\ pc' = "unpack"
  /\ UNCHANGED <<k, side, saved, todo, u, hdr, left, got>>

-----------------------------------------------------------------------------
(* unmarshall *)

\* Mutant: a byte is used as rawbyte returned it.
Unmasked(c) == c

\* rawbyte returns a char as an unsigned int, which extends its sign; its
\* users mask it with 0xff.
Extended(c) == IF 2 * c >= Byte THEN c - Byte + Word ELSE c

Masked(c) == c % Byte

\* What the j-th call of rawbyte from here on, counted from 0, returns.
At(r, j) == IF r.ind + j < Len(pdu) THEN Extended(pdu[r.ind + j + 1]) ELSE 0

\* The state after n calls of rawbyte, all of which may fail.
Skip(r, n) ==
  [ind |-> IF r.ind + n <= Len(pdu) THEN r.ind + n
           ELSE IF r.ind < Len(pdu) THEN Len(pdu) ELSE r.ind,
   ok  |-> r.ok /\ (n = 0 \/ r.ind + n <= Len(pdu))]

\* n numbers of w bytes each.
Numbers(r, n, w) ==
  [i \in 1 .. n |->
     FoldLeft(LAMBDA a, d : a * Byte + d, 0,
              [j \in 1 .. w |-> Masked(At(r, (i - 1) * w + j - 1))])]

\* Mutant: data that ends with the buffer is refused.
TooLongByOne(r, n) == (r.ind + n) % Word >= Len(pdu)

\* The test of unmarshall::rawbytes, in unsigned arithmetic.
TooLong(r, n) == (r.ind + n) % Word > Len(pdu)

\* The sum has wrapped around, and the length passes although the data does not
\* lie in the buffer.
Wraps(r, n) == ~TooLong(r, n) /\ r.ind + n > Len(pdu)

\* The n bytes that rawbytes copies; those behind the buffer may be anything.
Copied(r, n) ==
  [j \in 1 .. n |-> IF r.ind + j <= Len(pdu) THEN pdu[r.ind + j] ELSE Uninit]

\* operator>> for bool: any byte but 0 is true.
BoolRead(c) == IF c = 0 THEN 0 ELSE 1

\* operator>> for vectors: push_back, without clearing v first.
VectorRead(old, xs) == old \o xs

\* Mutant: operator>> keeps what the map held.
MapInserted(old, ps) == old \o ps

\* operator>> for maps: d is cleared, then d[a] = b for each pair.
MapRead(old, ps) ==
  LET n    == Len(ps) \div 2
      keys == {ps[2 * i - 1] : i \in 1 .. n}
      ks   == SetToSortSeq(keys, LAMBDA a, b : a < b)
      at(a) == ps[2 * CHOOSE i \in 1 .. n :
                        ps[2 * i - 1] = a /\ \A j \in i + 1 .. n : ps[2 * j - 1] # a]
  IN  FlattenSeq([i \in DOMAIN ks |-> <<ks[i], at(ks[i])>>])

\* How many numbers a value of a type of fixed size consists of.
FixedCount(t) == CASE t = "ull" -> 2 [] t = "attr" -> 5 [] OTHER -> 1

\* The unsigned int in front of a string, a vector or a map.
SizeRead(r) == Numbers(r, 1, IntSz)[1]

\* The operators >>: the value of type t that is read into a variable that
\* held old, and the unmarshall afterwards.
Get(r, t, old) ==
  LET n    == SizeRead(r)
      body == Skip(r, IntSz)
  IN  CASE t = "string" /\ ~body.ok -> [v |-> old, r |-> body]
        [] t = "string" /\ body.ok ->
             IF TooLong(body, n) THEN [v |-> old, r |-> [body EXCEPT !.ok = FALSE]]
             ELSE [v |-> Copied(body, n), r |-> [body EXCEPT !.ind = (@ + n) % Word]]
        [] t = "vector" -> [v |-> VectorRead(old, Numbers(body, n, IntSz)),
                            r |-> Skip(body, n * IntSz)]
        [] t = "map"    -> [v |-> MapRead(old, Numbers(body, 2 * n, IntSz)),
                            r |-> Skip(body, 2 * n * IntSz)]
        [] t = "bool"   -> [v |-> <<BoolRead(At(r, 0))>>, r |-> Skip(r, 1)]
        [] OTHER        -> [v |-> Numbers(r, FixedCount(t), WidthOf(t)),
                            r |-> Skip(r, FixedCount(t) * WidthOf(t))]

\* unpack_req_header in dispatch, unpack_reply_header in rpcc::got_pdu, which
\* hands the buffer to the caller with take_in.  Without a whole header the
\* message is dropped.
unpack_header ==
  /\ pc = "unpack"
  /\ LET start == [ind |-> IntSz, ok |-> TRUE]
         n     == Len(HeaderOf)
     IN  /\ hdr' = Numbers(start, n, IntSz)
         /\ Skip(start, n * IntSz).ok
         /\ u' = [ind |-> RPC_HEADER_SZ, ok |-> Len(pdu) >= RPC_HEADER_SZ]
  /\ left' = IF side = "request" THEN k.sig ELSE <<k.rtype>>
  /\ got' = <<>>
  /\ pc' = "get"
  /\ UNCHANGED <<k, side, m, saved, todo, pdu>>

\* call_m returns before it unmarshalls anything if call1's result is negative.
Refused == side = "reply" /\ 2 * hdr[2] >= Word

\* A handler's variables are fresh; the client's r is the application's.
get ==
  /\ pc = "get" /\ left # <<>> /\ ~Refused
  /\ LET g == Get(u, Head(left), IF side = "request" THEN <<>> ELSE k.old)
     IN  /\ got' = Append(got, [t |-> Head(left), v |-> g.v])
         /\ u' = g.r
  /\ left' = Tail(left)
  /\ UNCHANGED <<pc, k, side, m, saved, todo, pdu, hdr>>

\* rawbytes with a length that wraps around copies memory behind the buffer: the
\* process may also die of it, or of a string that cannot be that long.
overread ==
  /\ pc = "get" /\ left # <<>> /\ ~Refused
  /\ Head(left) = "string"
  /\ LET body == Skip(u, IntSz)
     IN  body.ok /\ Wraps(body, SizeRead(u))
  /\ pc' = "abort"
  /\ UNCHANGED <<k, side, m, saved, todo, pdu, u, hdr, left, got>>

\* Mutant: what lies behind the last argument is not looked at.
OkOnly(r) == r.ok

okdone(r) == r.ok /\ r.ind = Len(pdu)

-----------------------------------------------------------------------------
(* rpcc::call, the handlers and rpcc::call_m *)

\* call: one << for each argument, in order.
call(c) ==
  /\ pc = "idle"
  /\ k' = c
  /\ side' = "request"
  /\ m' = Fresh
  /\ todo' = PutAll(c.args)
  /\ pc' = "put"
  /\ UNCHANGED <<saved, pdu, u, hdr, left, got>>

Read == pc = "get" /\ left = <<>>

\* handler::fn: the arguments fit, the method runs, and its result is marshalled.
fn ==
  /\ Read /\ side = "request" /\ okdone(u)
  /\ side' = "reply"
  /\ m' = Fresh
  /\ todo' = Put(k.r)
  /\ pc' = "put"
  /\ UNCHANGED <<k, saved, pdu, u, hdr, left, got>>

\* dispatch answers an old instance's or a forgotten request with a header.
refuse(e) ==
  /\ pc = "get" /\ side = "request" /\ got = <<>>
  /\ k' = [k EXCEPT !.ret = e]
  /\ side' = "reply"
  /\ m' = Fresh
  /\ todo' = <<>>
  /\ pc' = "put"
  /\ UNCHANGED <<saved, pdu, u, hdr, left, got>>

\* unmarshal_args_failure in dispatch, or the failure in call_m: VERIFY(0).
verify_failed ==
  /\ Read /\ ~okdone(u)
  /\ pc' = "abort"
  /\ UNCHANGED <<k, side, m, saved, todo, pdu, u, hdr, left, got>>

call_m ==
  /\ pc = "get" /\ side = "reply"
  /\ Refused \/ (Read /\ okdone(u))
  /\ pc' = "done"
  /\ UNCHANGED <<k, side, m, saved, todo, pdu, u, hdr, left, got>>

NoCall == [args |-> <<>>, sig |-> <<>>, head |-> <<0, 0, 0, 0, 0>>, ret |-> 0,
           r |-> [t |-> "int", v |-> <<0>>], rtype |-> "int", old |-> <<>>]

Init ==
  /\ pc = "idle"
  /\ k = NoCall
  /\ side = "request"
  /\ m = Fresh
  /\ saved = 0
  /\ todo = <<>>
  /\ pdu = <<>>
  /\ u = [ind |-> 0, ok |-> FALSE]
  /\ hdr = <<>>
  /\ left = <<>>
  /\ got = <<>>

Next ==
  \/ \E c \in Call : call(c)
  \/ rawbyte \/ rawbytes \/ pack_header \/ send
  \/ unpack_header \/ get \/ overread \/ fn \/ call_m \/ verify_failed
  \/ \E e \in Refusal : refuse(e)

Spec == Init /\ [][Next]_vars

-----------------------------------------------------------------------------
(* Properties *)

TypesOf(vs) == [i \in DOMAIN vs |-> vs[i].t]

\* No write of rawbyte or rawbytes goes past the memory that was allocated,
\* whatever the sizes of the values and whichever of the ways to grow a
\* buffer they take; and the header is never what makes it grow.
WritesInside ==
  /\ m.ind <= m.capa
  /\ pc = "pack" => m.ind <= RPC_HEADER_SZ /\ saved <= m.capa

\* A handler registered with the types of the arguments runs with exactly
\* those arguments and with the header that call1 packed: header and body do
\* not overlap, and each >> undoes its <<.
Invoked == side = "reply" /\ pc \in {"put", "pack"}

ArgsArrive ==
  Invoked /\ k.sig = TypesOf(k.args) /\ k.ret \notin Refusal
    => /\ got = k.args
       /\ hdr = k.head

\* With the return type of the handler the caller gets its result, and what
\* call1 returns is what the handler returned.  A vector is appended to what
\* the application's variable held; anything else replaces it.
ReplyArrives ==
  pc = "done" /\ k.rtype = k.r.t
    => /\ hdr = <<k.head[1], k.ret>>
       /\ k.ret \notin Refusal =>
            got = <<[k.r EXCEPT !.v = IF k.r.t = "vector" THEN k.old \o @ ELSE @]>>

\* rawbytes has copied a string that is longer than the message it came in.
Overread == \E i \in DOMAIN got : got[i].t = "string" /\ Len(got[i].v) > Len(pdu)

\* Types are not sent.  A handler may therefore run although it was registered
\* with other types than the caller used, but then its arguments, marshalled
\* again, are the message: okdone() lets through no arguments that were made
\* up from missing bytes, and none that leave bytes unread.  Two types have
\* several encodings of one value: a bool may have been any byte but 0, and a
\* map that was sent a key twice has kept its last value only, so that it is
\* shorter than what it was read from.  The test in rawbytes does not protect
\* against a length that wraps around (Overread), and nothing is said then.
AcceptedIsExact ==
  Invoked /\ k.ret \notin Refusal /\ ~Overread
    => LET ws    == PutAll(got)
           again == FlattenSeq([i \in DOMAIN ws |-> ws[i].s])
           body  == SubSeq(pdu, RPC_HEADER_SZ + 1, Len(pdu))
           Has(t) == \E i \in DOMAIN got : got[i].t = t
       IN  /\ Len(again) <= Len(body)
           /\ ~Has("map") =>
                /\ Len(again) = Len(body)
                /\ \A j \in DOMAIN body :
                     again[j] = body[j] \/ (Has("bool") /\ again[j] = 1 /\ body[j] # 0)

\* The process stops, by VERIFY(0) in dispatch and in call_m or by reading behind
\* the buffer in rawbytes, only in programs in which client and server disagree
\* about the types, as the messages printed before VERIFY(0) say.
AbortMeansMismatch ==
  pc = "abort" => IF side = "request" THEN k.sig # TypesOf(k.args) ELSE k.rtype # k.r.t
=============================================================================
