--------------------------- MODULE OutputBufferProofs ---------------------------
(***************************************************************************)
(* That the output side of a connection implements ClientStream, for any     *)
(* positions, buttons, sizes of messages and size of the buffer.             *)
(*                                                                         *)
(* The methods that write are looked at first, from any sound record on:     *)
(* what each adds to the messages, wherever the buffer overflows on the way. *)
(***************************************************************************)
EXTENDS OutputBuffer, SequenceTheorems, TLAPS

\* All the client has said, in order.
Said(o) == o.wire \o o.buffer

\* What holds of the buffer in the middle of a handler.
Sound(o) ==
    /\ o \in OutType /\ ~o.overrun
    /\ o.len = 0 <=> o.buffer = <<>>
    /\ o.lastIsMove => o.buffer # <<>>

\* What holds of it between handlers: it is empty, or keeps one movement.
Settled(o) ==
    /\ Sound(o)
    /\ o.len = Len(o.buffer) * Size("move")
    /\ o.buffer # <<>> => /\ o.lastIsMove /\ Len(o.buffer) = 1
                          /\ o.buffer[1].kind = "move"

\* What was written stays written, and more may have been.
Writes(o, p) == Len(o.wire) <= Len(p.wire)

\* Every message was written.
Flushed(o) == o.buffer = <<>> /\ o.len = 0 /\ ~o.lastIsMove

-----------------------------------------------------------------------------
(* Sequences of messages. *)

LEMMA AppendType ==
    ASSUME NEW t \in Seq(Message), NEW m \in Message
    PROVE  /\ Append(t, m) \in Seq(Message) /\ Append(t, m) # <<>>
           /\ Len(t) \in Nat /\ Len(Append(t, m)) = Len(t) + 1
           /\ \A i \in 1..Len(t) : Append(t, m)[i] = t[i]
           /\ Append(t, m)[Len(t) + 1] = m
BY AppendProperties, LenProperties

LEMMA ConcatAppend ==
    ASSUME NEW t \in Seq(Message), NEW u \in Seq(Message), NEW m \in Message
    PROVE  t \o Append(u, m) = Append(t \o u, m)
<1>1. <<m>> \in Seq(Message) /\ t \o u \in Seq(Message)
  BY ConcatProperties
<1>2. Append(u, m) = u \o <<m>> /\ Append(t \o u, m) = (t \o u) \o <<m>>
  BY <1>1, AppendIsConcat
<1>3. (t \o u) \o <<m>> = t \o (u \o <<m>>)
  BY <1>1, ConcatAssociative
<1> QED BY <1>2, <1>3

-----------------------------------------------------------------------------
(* The methods that write. *)

LEMMA SoundType ==
    ASSUME NEW o, Sound(o)
    PROVE  /\ o.wire \in Seq(Message) /\ o.buffer \in Seq(Message)
           /\ o.len \in 0..BufferSize /\ o.lastIsMove \in BOOLEAN
           /\ o.overrun = FALSE
           /\ Said(o) \in Seq(Message)
           /\ Len(Said(o)) = Len(o.wire) + Len(o.buffer)
           /\ Len(o.wire) \in Nat /\ Len(o.buffer) \in Nat
<1>1. o.wire \in Seq(Message) /\ o.buffer \in Seq(Message)
  BY DEF Sound, OutType
<1> QED BY <1>1, ConcatProperties, LenProperties DEF Sound, OutType, Said

LEMMA SizeType ==
    /\ \A kind \in Kinds : Size(kind) \in Nat /\ Size(kind) > 0
    /\ BufferSize \in Nat /\ Size("move") <= BufferSize
    /\ Size("click") = Size("move") /\ Size("move") \in Nat /\ Size("move") > 0
BY OutputAssumption DEF Kinds

\* writeBuffer changes nothing but where the messages are.
LEMMA WriteBufferWrites ==
    ASSUME NEW o, Sound(o)
    PROVE  LET p == WriteBuffer(o) IN
           /\ Sound(p) /\ Flushed(p) /\ Said(p) = Said(o) /\ Writes(o, p)
<1> DEFINE p == WriteBuffer(o)
<1>1. CASE o.len = 0
  <2>1. p = o /\ o.buffer = <<>> /\ ~o.lastIsMove
    BY <1>1 DEF WriteBuffer, Sound
  <2>2. Len(o.wire) <= Len(o.wire)
    BY SoundType
  <2> QED BY <1>1, <2>1, <2>2 DEF Flushed, Writes
<1>2. CASE o.len # 0
  <2>1. /\ p \in OutType /\ p.wire = Said(o) /\ p.buffer = <<>>
        /\ p.len = 0 /\ p.lastIsMove = FALSE /\ p.overrun = FALSE
    <3>1. p = [o EXCEPT !.wire = Said(o), !.buffer = <<>>, !.len = 0,
                        !.lastIsMove = FALSE]
      BY <1>2 DEF WriteBuffer, Said
    <3>2. Said(o) \in Seq(Message)
      BY SoundType, Zenon
    <3> <<>> \in Seq(Message)
      OBVIOUS
    <3>3. 0 \in 0..BufferSize
      BY SizeType
    <3> QED BY <3>1, <3>2, <3>3, SoundType DEF Sound, OutType
  <2>2. Said(p) = Said(o)
    BY <2>1, SoundType, ConcatEmptySeq DEF Said
  <2>3. Writes(o, p)
    <3>1. PICK a \in Nat, b \in Nat : a = Len(o.wire) /\ b = Len(o.buffer)
      BY SoundType, Zenon
    <3>2. Len(p.wire) = a + b
      BY <2>1, <3>1, SoundType, Zenon
    <3>3. a <= a + b
      OBVIOUS
    <3> QED BY <3>1, <3>2, <3>3, Zenon DEF Writes
  <2> QED BY <2>1, <2>2, <2>3 DEF Sound, Flushed
<1> QED BY <1>1, <1>2

\* What it takes of the buffer to be added to.
Fits(o, m) == o.len + Size(m.kind) <= BufferSize

LEMMA BufferedAdds ==
    ASSUME NEW o, Sound(o), NEW m \in Message, Fits(o, m)
    PROVE  LET p == Buffered(o, m) IN
           /\ Sound(p) /\ Said(p) = Append(Said(o), m)
           /\ p.wire = o.wire /\ p.len > 0
<1> DEFINE p == Buffered(o, m)
<1>1. m.kind \in Kinds
  BY DEF Message
<1>2. PICK n \in Nat : n = Size(m.kind) /\ n > 0
  BY <1>1, SizeType
<1>3. PICK l \in 0..BufferSize : l = o.len
  BY SoundType
<1>4. l + n \in 0..BufferSize /\ l + n > 0 /\ ~(l + n > BufferSize)
  BY <1>2, <1>3, SizeType DEF Fits
<1>5. Append(o.buffer, m) \in Seq(Message) /\ Append(o.buffer, m) # <<>>
  BY SoundType, AppendType, Zenon
<1>6. p = [o EXCEPT !.buffer = Append(o.buffer, m), !.len = l + n,
                    !.lastIsMove = FALSE, !.overrun = FALSE]
  BY <1>2, <1>3, <1>4, SoundType DEF Buffered
<1>7. /\ p \in OutType /\ p.wire = o.wire /\ p.buffer = Append(o.buffer, m)
      /\ p.len = l + n /\ p.lastIsMove = FALSE /\ p.overrun = FALSE
  BY <1>4, <1>5, <1>6, SoundType DEF Sound, OutType
<1>8. Said(p) = Append(Said(o), m)
  <2>1. o.wire \o Append(o.buffer, m) = Append(o.wire \o o.buffer, m)
    BY SoundType, ConcatAppend, Zenon
  <2> QED BY <1>7, <2>1 DEF Said
<1> QED BY <1>4, <1>5, <1>7, <1>8 DEF Sound

LEMMA ReallyWriteAdds ==
    ASSUME NEW o, Sound(o), o.buffer = <<>>, NEW m \in Message
    PROVE  LET p == ReallyWrite(o, m) IN
           /\ Sound(p) /\ Said(p) = Append(Said(o), m)
           /\ p.wire = Append(o.wire, m) /\ Writes(o, p)
           /\ p.buffer = o.buffer /\ p.len = o.len /\ p.lastIsMove = o.lastIsMove
<1> DEFINE p == ReallyWrite(o, m)
<1>1. /\ Append(o.wire, m) \in Seq(Message)
      /\ Len(Append(o.wire, m)) = Len(o.wire) + 1
  BY SoundType, AppendType, Zenon
<1>2. /\ p \in OutType /\ p.wire = Append(o.wire, m) /\ p.buffer = o.buffer
      /\ p.len = o.len /\ p.lastIsMove = o.lastIsMove /\ p.overrun = o.overrun
  BY <1>1 DEF ReallyWrite, Sound, OutType
<1>3. Said(p) = Append(o.wire, m) /\ Said(o) = o.wire
  <2>1. o.wire \o <<>> = o.wire /\ Append(o.wire, m) \o <<>> = Append(o.wire, m)
    BY <1>1, SoundType, ConcatEmptySeq
  <2> QED BY <1>2, <2>1 DEF Said
<1>4. Writes(o, p)
  BY <1>1, <1>2, SoundType DEF Writes
<1> QED BY <1>2, <1>3, <1>4 DEF Sound

\* writeBufferedBytes: adds the message, whether the buffer has room for it,
\* must be written first, or is too small for it.
LEMMA WriteBufferedAdds ==
    ASSUME NEW o, Sound(o), NEW m \in Message
    PROVE  LET p == WriteBuffered(o, m) IN
           Sound(p) /\ Said(p) = Append(Said(o), m) /\ Writes(o, p)
<1> DEFINE q == IF o.len + Size(m.kind) > BufferSize THEN WriteBuffer(o) ELSE o
           p == WriteBuffered(o, m)
<1>1. PICK n \in Nat : n = Size(m.kind) /\ n > 0
  BY SizeType DEF Message
<1>2. o.len \in Nat /\ BufferSize \in Nat /\ Len(o.wire) \in Nat
  <2>1. o.len \in 0..BufferSize /\ BufferSize \in Nat /\ Len(o.wire) \in Nat
    BY SoundType, SizeType, Zenon
  <2> QED BY <2>1
<1>3. Sound(q) /\ Said(q) = Said(o) /\ Writes(o, q)
  <2>1. CASE o.len + Size(m.kind) > BufferSize
    BY <2>1, WriteBufferWrites
  <2>2. CASE ~(o.len + Size(m.kind) > BufferSize)
    BY <1>2, <2>2 DEF Writes
  <2> QED BY <2>1, <2>2
<1>4. CASE n > BufferSize
  <2>1. o.len + Size(m.kind) > BufferSize
    BY <1>1, <1>2, <1>4
  <2>2. q.buffer = <<>> /\ p = ReallyWrite(q, m)
    BY <1>1, <1>4, <2>1, WriteBufferWrites DEF WriteBuffered, Flushed
  <2>3. Sound(p) /\ Said(p) = Append(Said(q), m) /\ Writes(q, p)
    BY <1>3, <2>2, ReallyWriteAdds
  <2>4. Writes(o, p)
    BY <1>2, <1>3, <2>3, SoundType DEF Writes
  <2> QED BY <1>3, <2>3, <2>4
<1>5. CASE ~(n > BufferSize)
  <2>1. p = Buffered(q, m)
    BY <1>1, <1>5 DEF WriteBuffered
  <2>2. Fits(q, m)
    <3>1. CASE o.len + Size(m.kind) > BufferSize
      <4>1. q.len = 0
        BY <3>1, WriteBufferWrites DEF Flushed
      <4> QED BY <1>1, <1>2, <1>5, <4>1 DEF Fits
    <3>2. CASE ~(o.len + Size(m.kind) > BufferSize)
      BY <1>1, <1>2, <3>2 DEF Fits
    <3> QED BY <3>1, <3>2
  <2>3. Sound(p) /\ Said(p) = Append(Said(q), m) /\ p.wire = q.wire
    BY <1>3, <2>1, <2>2, BufferedAdds
  <2> QED BY <1>3, <2>3 DEF Writes
<1> QED BY <1>1, <1>2, <1>4, <1>5

LEMMA WritesTransitive ==
    ASSUME NEW o, Sound(o), NEW p, Sound(p), NEW q, Sound(q),
           Writes(o, p), Writes(p, q)
    PROVE  Writes(o, q)
BY SoundType DEF Writes

\* Nor does writeBytes: let it overtake what is buffered.
LEMMA WriteBytesAdds ==
    ASSUME NEW o, Sound(o), NEW m \in Message
    PROVE  LET p == WriteBytes(o, m) IN
           /\ Sound(p) /\ Said(p) = Append(Said(o), m) /\ Writes(o, p)
           /\ Flushed(p)
<1>1. CASE o.len > 0
  <2> DEFINE q == WriteBuffered(o, m)
  <2>1. Sound(q) /\ Said(q) = Append(Said(o), m) /\ Writes(o, q)
    BY WriteBufferedAdds
  <2>2. WriteBytes(o, m) = WriteBuffer(q)
    BY <1>1 DEF WriteBytes
  <2> HIDE DEF q
  <2> QED BY <2>1, <2>2, WriteBufferWrites, WritesTransitive
<1>2. CASE ~(o.len > 0)
  <2>1. o.len \in 0..BufferSize /\ BufferSize \in Nat
    BY SoundType, SizeType, Zenon
  <2>2. o.len = 0
    BY <1>2, <2>1
  <2>3. o.buffer = <<>> /\ ~o.lastIsMove
    BY <2>2 DEF Sound
  <2> QED BY <1>2, <2>2, <2>3, ReallyWriteAdds DEF WriteBytes, Flushed
<1> QED BY <1>1, <1>2

\* A handler that adds one message and then writes the buffer.
LEMMA FlushAdds ==
    ASSUME NEW o, Sound(o), NEW m \in Message
    PROVE  LET p == WriteBuffer(WriteBuffered(o, m)) IN
           /\ Sound(p) /\ Said(p) = Append(Said(o), m) /\ Writes(o, p)
           /\ Flushed(p)
<1> DEFINE q == WriteBuffered(o, m)
<1>1. Sound(q) /\ Said(q) = Append(Said(o), m) /\ Writes(o, q)
  BY WriteBufferedAdds
<1> HIDE DEF q
<1>2. LET p == WriteBuffer(q) IN
      Sound(p) /\ Said(p) = Said(q) /\ Writes(q, p) /\ Flushed(p)
  BY <1>1, WriteBufferWrites
<1>3. Writes(o, WriteBuffer(q))
  BY <1>1, <1>2, WritesTransitive
<1> QED BY <1>1, <1>2, <1>3 DEF q

LEMMA FlushedIsSettled ==
    ASSUME NEW o, Sound(o), Flushed(o)
    PROVE  Settled(o)
<1>1. Len(o.buffer) = 0 /\ 0 * Size("move") = 0
  BY SizeType DEF Flushed
<1> QED BY <1>1 DEF Settled, Flushed

-----------------------------------------------------------------------------
(* What was said. *)

\* All that was said or written stays, and more may have been.
Gives(o, p) ==
    /\ Writes(o, p)
    /\ Len(Said(o)) <= Len(Said(p))
    /\ \A i \in 1..Len(Said(o)) : Said(p)[i] = Said(o)[i]

LEMMA SameGives ==
    ASSUME NEW o, Sound(o), NEW p, Sound(p), Writes(o, p), Said(p) = Said(o)
    PROVE  Gives(o, p)
<1>1. PICK t \in Seq(Message) : t = Said(o)
  BY SoundType, Zenon
<1>2. Len(t) <= Len(t)
  BY <1>1, LenProperties
<1> QED BY <1>1, <1>2 DEF Gives

LEMMA AppendGives ==
    ASSUME NEW o, Sound(o), NEW p, Sound(p), Writes(o, p), NEW m \in Message,
           Said(p) = Append(Said(o), m)
    PROVE  Gives(o, p)
<1>1. PICK t \in Seq(Message) : t = Said(o)
  BY SoundType, Zenon
<1>2. Len(t) <= Len(Append(t, m)) /\ \A i \in 1..Len(t) : Append(t, m)[i] = t[i]
  BY AppendType
<1> QED BY <1>1, <1>2, Zenon DEF Gives

LEMMA GivesTransitive ==
    ASSUME NEW o, Sound(o), NEW p, Sound(p), NEW q, Sound(q),
           Gives(o, p), Gives(p, q)
    PROVE  Gives(o, q)
<1>1. Writes(o, q)
  BY WritesTransitive DEF Gives
<1>2. PICK t \in Seq(Message), u \in Seq(Message), v \in Seq(Message) :
        t = Said(o) /\ u = Said(p) /\ v = Said(q)
  BY SoundType, Zenon
<1>3. Len(t) \in Nat /\ Len(u) \in Nat /\ Len(v) \in Nat
  BY LenProperties
<1>4. /\ Len(t) <= Len(u) /\ \A i \in 1..Len(t) : u[i] = t[i]
      /\ Len(u) <= Len(v) /\ \A i \in 1..Len(u) : v[i] = u[i]
  BY <1>2 DEF Gives
<1>5. Len(t) <= Len(v) /\ \A i \in 1..Len(t) : v[i] = t[i]
  BY <1>3, <1>4
<1> QED BY <1>1, <1>2, <1>5, Zenon DEF Gives

\* What t has told of the mouse last, if anything.
Knows(t, pos, mask) ==
    \A i \in 1..Len(t) :
        IsPointer(t[i]) /\ (\A j \in i + 1..Len(t) : ~IsPointer(t[j]))
        => t[i].pos = pos /\ t[i].mask = mask

LEMMA KnowsPlain ==
    ASSUME NEW t \in Seq(Message), NEW m \in Message, ~IsPointer(m),
           NEW pos, NEW mask, Knows(t, pos, mask)
    PROVE  Knows(Append(t, m), pos, mask)
<1> DEFINE u == Append(t, m)
           n == Len(t)
<1>1. /\ n \in Nat /\ Len(u) = n + 1 /\ u[n + 1] = m
      /\ \A i \in 1..n : u[i] = t[i]
  BY AppendType
<1>2. ASSUME NEW i \in 1..Len(u), IsPointer(u[i]),
             \A j \in i + 1..Len(u) : ~IsPointer(u[j])
      PROVE  u[i].pos = pos /\ u[i].mask = mask
  <2>1. i \in 1..n /\ u[i] = t[i]
    BY <1>1, <1>2
  <2>2. ASSUME NEW j \in i + 1..n PROVE ~IsPointer(t[j])
    <3>1. j \in i + 1..Len(u) /\ u[j] = t[j]
      BY <1>1, <2>1
    <3> QED BY <1>2, <3>1
  <2> QED BY <1>2, <2>1, <2>2 DEF Knows
<1> QED BY <1>2 DEF Knows

LEMMA KnowsPointer ==
    ASSUME NEW t \in Seq(Message), NEW m \in Message, IsPointer(m)
    PROVE  Knows(Append(t, m), m.pos, m.mask)
<1> DEFINE u == Append(t, m)
           n == Len(t)
<1>1. /\ n \in Nat /\ Len(u) = n + 1 /\ u[n + 1] = m
  BY AppendType
<1>2. ASSUME NEW i \in 1..Len(u), IsPointer(u[i]),
             \A j \in i + 1..Len(u) : ~IsPointer(u[j])
      PROVE  u[i].pos = m.pos /\ u[i].mask = m.mask
  <2>1. CASE i = n + 1
    BY <1>1, <2>1
  <2>2. CASE i # n + 1
    <3>1. n + 1 \in i + 1..Len(u)
      BY <1>1, <2>2
    <3> QED BY <1>1, <1>2, <3>1
  <2> QED BY <2>1, <2>2
<1> QED BY <1>2 DEF Knows

\* The message that t ends with, if it is one of the mouse.
LEMMA KnowsLast ==
    ASSUME NEW t \in Seq(Message), NEW m \in Message, IsPointer(m),
           NEW pos, NEW mask, Knows(Append(t, m), pos, mask)
    PROVE  m.mask = mask
<1> DEFINE u == Append(t, m)
           n == Len(t) + 1
<1>1. n \in Nat /\ n > 0 /\ Len(u) = n /\ u[n] = m
  BY AppendType
<1>2. n \in 1..Len(u) /\ \A j \in n + 1..Len(u) : ~IsPointer(u[j])
  BY <1>1
<1> QED BY <1>1, <1>2 DEF Knows

LEMMA PointerType ==
    /\ \A kind \in {"move", "click"}, mask \in Masks, pos \in Positions :
          LET m == Pointer(kind, mask, pos) IN
          /\ m \in Message /\ IsPointer(m)
          /\ m.kind = kind /\ m.mask = mask /\ m.pos = pos
    /\ \A kind \in {"key", "other"} :
          Plain(kind) \in Message /\ ~IsPointer(Plain(kind))
BY DEF Pointer, Plain, IsPointer, Message, Kinds

-----------------------------------------------------------------------------
(* The handlers. *)

\* What is buffered while no update is received, was written; and what the
\* server knows of the mouse counts what is still buffered.
IInv ==
    /\ TypeOK /\ Settled(out)
    /\ out.buffer # <<>> => receiving
    /\ Knows(Said(out), mouse, pressed)

\* A handler that leaves nothing in the buffer.
LEMMA FlushedStep ==
    ASSUME IInv, TypeOK', Sound(out'), Flushed(out'), Gives(out, out'),
           Knows(Said(out'), mouse', pressed')
    PROVE  IInv' /\ Stream!Next
<1>1. IInv'
  <2>1. Settled(out')
    BY FlushedIsSettled
  <2> QED BY <2>1 DEF IInv, Flushed
<1>2. Sound(out)
  BY DEF IInv, Settled
<1>3. PICK t \in Seq(Message), u \in Seq(Message) : t = Said(out) /\ u = Said(out')
  BY <1>2, SoundType, Zenon
<1>4. PICK a \in Nat, b \in Nat : a = Len(out.wire) /\ b = Len(out'.wire)
  BY <1>2, SoundType, Zenon
<1>5. b <= Len(u)
  <2>1. Len(u) = b + Len(out'.buffer) /\ Len(out'.buffer) = 0
    BY <1>3, <1>4, SoundType, Zenon DEF Flushed
  <2> QED BY <2>1
<1>6. a <= b /\ Len(t) <= Len(u) /\ \A i \in 1..Len(t) : u[i] = t[i]
  BY <1>3, <1>4, Zenon DEF Gives, Writes
<1>7. Told = t /\ Told' = u
  BY <1>3 DEF Told, Said
<1>8. b \in a..Len(u) /\ Len(u) >= Len(t)
  BY <1>5, <1>6, LenProperties
<1> QED BY <1>1, <1>4, <1>6, <1>7, <1>8 DEF Stream!Next, Stream!Extend

LEMMA SettledParts ==
    ASSUME IInv
    PROVE  /\ Sound(out) /\ Said(out) \in Seq(Message)
           /\ mouse \in Positions \cup {NoPosition} /\ pressed \in Masks
           /\ receiving \in BOOLEAN /\ open \in BOOLEAN
BY SoundType DEF IInv, Settled, TypeOK

\* Adding a message that is none of the mouse, and one that is.
LEMMA PlainStep ==
    ASSUME IInv, NEW kind \in {"key", "other"}, receiving' \in BOOLEAN,
           UNCHANGED <<mouse, pressed>>, open' \in BOOLEAN, Sound(out'),
           Flushed(out'), Writes(out, out'),
           Said(out') = Append(Said(out), Plain(kind))
    PROVE  IInv' /\ Stream!Next
<1>1. Plain(kind) \in Message /\ ~IsPointer(Plain(kind))
  BY PointerType, Zenon
<1>2. Gives(out, out')
  BY <1>1, SettledParts, AppendGives
<1>3. Knows(Said(out'), mouse', pressed')
  <2>1. Knows(Append(Said(out), Plain(kind)), mouse, pressed)
    BY <1>1, SettledParts, KnowsPlain DEF IInv
  <2> QED BY <2>1
<1>4. TypeOK'
  BY SettledParts DEF TypeOK, Sound
<1> QED BY <1>2, <1>3, <1>4, FlushedStep

LEMMA PointerStep ==
    ASSUME IInv, NEW kind \in {"move", "click"}, NEW mask \in Masks,
           NEW pos \in Positions, receiving' \in BOOLEAN, open' \in BOOLEAN,
           mouse' = pos, pressed' = mask, Sound(out'), Flushed(out'),
           Writes(out, out'),
           Said(out') = Append(Said(out), Pointer(kind, mask, pos))
    PROVE  IInv' /\ Stream!Next
<1> DEFINE m == Pointer(kind, mask, pos)
<1>1. m \in Message /\ IsPointer(m) /\ m.mask = mask /\ m.pos = pos
  BY PointerType
<1> HIDE DEF m
<1>2. Said(out') = Append(Said(out), m)
  BY DEF m
<1>3. Gives(out, out')
  BY <1>1, <1>2, SettledParts, AppendGives
<1>4. Knows(Said(out'), mouse', pressed')
  <2>1. Knows(Append(Said(out), m), m.pos, m.mask)
    BY <1>1, SettledParts, KnowsPointer
  <2> QED BY <1>1, <1>2, <2>1
<1>5. TypeOK'
  BY DEF TypeOK, Sound
<1> QED BY <1>3, <1>4, <1>5, FlushedStep

\* A movement during an update takes the place of the one that waits.
LEMMA MoveWaits ==
    ASSUME IInv, receiving, NEW pos \in Positions
    PROVE  LET m == Pointer("move", pressed, pos)
               p == MouseAt(out, pos)
           IN  /\ p \in OutType /\ p.wire = out.wire /\ p.buffer = <<m>>
               /\ p.len = Size("move") /\ p.lastIsMove = TRUE /\ p.overrun = FALSE
<1> DEFINE m == Pointer("move", pressed, pos)
           q == DropMove(out)
<1>1. PICK n \in Nat : n = Size("move") /\ n > 0 /\ n <= BufferSize
  BY SizeType
<1>2. BufferSize \in Nat /\ Sound(out) /\ out.overrun = FALSE
  BY SizeType, SettledParts DEF Sound, OutType
<1>3. m \in Message /\ m.kind = "move"
  BY SettledParts, PointerType
<1>4. /\ q \in OutType /\ q.wire = out.wire /\ q.buffer = <<>>
      /\ q.len = 0 /\ q.overrun = FALSE
  <2>1. CASE out.buffer = <<>>
    <3>1. out.lastIsMove = FALSE /\ out.len = 0
      BY <1>2, <2>1, SoundType DEF Sound
    <3> QED BY <1>2, <2>1, <3>1 DEF DropMove, Sound
  <2>2. CASE out.buffer # <<>>
    <3>1. out.lastIsMove /\ Len(out.buffer) = 1 /\ out.len = Len(out.buffer) * n
      BY <1>1, <2>2 DEF IInv, Settled
    <3>2. out.len - n = 0 /\ 0 \in 0..BufferSize
      BY <1>1, <1>2, <3>1
    <3>3. SubSeq(out.buffer, 1, Len(out.buffer) - 1) = <<>>
      BY <1>2, <3>1, SoundType, SubSeqEmpty
    <3>4. q = [out EXCEPT !.buffer = <<>>, !.len = 0]
      BY <1>1, <3>1, <3>2, <3>3 DEF DropMove
    <3>5. <<>> \in Seq(Message)
      OBVIOUS
    <3> QED BY <1>2, <3>2, <3>4, <3>5 DEF Sound, OutType
  <2> QED BY <2>1, <2>2
<1> HIDE DEF q
<1>5. ~(q.len + Size(m.kind) > BufferSize) /\ ~(Size(m.kind) > BufferSize)
  BY <1>1, <1>2, <1>3, <1>4
<1> HIDE DEF m
<1>6. WriteBuffered(q, m) = Buffered(q, m)
  BY <1>5 DEF WriteBuffered
<1>7. MouseAt(out, pos) = [Buffered(q, m) EXCEPT !.lastIsMove = TRUE]
  BY <1>6 DEF MouseAt, m, q
<1>8. Append(<<>>, m) = <<m>> /\ <<m>> \in Seq(Message) /\ 0 + n = n
      /\ n \in 0..BufferSize /\ ~(0 + n > BufferSize)
  BY <1>1, <1>2, <1>3
<1>9. Buffered(q, m) = [q EXCEPT !.buffer = <<m>>, !.len = n,
                                 !.lastIsMove = FALSE, !.overrun = FALSE]
  BY <1>1, <1>3, <1>4, <1>8 DEF Buffered
<1>10. MouseAt(out, pos) = [q EXCEPT !.buffer = <<m>>, !.len = n,
                                     !.lastIsMove = TRUE, !.overrun = FALSE]
  BY <1>4, <1>7, <1>9 DEF OutType
<1> QED BY <1>1, <1>4, <1>8, <1>10 DEF OutType, m

LEMMA MoveStep ==
    ASSUME IInv, NEW pos \in Positions, Move(pos)
    PROVE  IInv' /\ Stream!Next
<1> DEFINE m == Pointer("move", pressed, pos)
<1>1. /\ m \in Message /\ IsPointer(m) /\ m.kind = "move"
      /\ m.mask = pressed /\ m.pos = pos
  BY SettledParts, PointerType
<1>2. /\ mouse' = pos /\ receiving' = receiving /\ pressed' = pressed
      /\ open' = open /\ out' = MouseAt(out, pos)
  BY DEF Move
<1>3. Sound(out) /\ out.wire \in Seq(Message) /\ receiving \in BOOLEAN
  BY SettledParts, SoundType
<1>4. CASE ~receiving
  <2>1. out.buffer = <<>> /\ out.lastIsMove = FALSE /\ ~(out.len > 0)
    <3>1. out.buffer = <<>>
      BY <1>4 DEF IInv
    <3>2. out.len = 0 /\ ~out.lastIsMove
      BY <1>3, <3>1 DEF Sound
    <3> QED BY <1>3, <3>1, <3>2, SoundType
  <2>2. DropMove(out) = out /\ WriteBytes(out, m) = ReallyWrite(out, m)
    BY <2>1 DEF DropMove, WriteBytes
  <2>3. out' = [ReallyWrite(out, m) EXCEPT !.lastIsMove = FALSE]
    BY <1>2, <1>4, <2>2 DEF MouseAt
  <2> DEFINE p == ReallyWrite(out, m)
  <2>4. /\ Sound(p) /\ Said(p) = Append(Said(out), m) /\ Writes(out, p)
        /\ p.buffer = <<>> /\ p.len = out.len /\ p.lastIsMove = FALSE
    BY <1>1, <1>3, <2>1, ReallyWriteAdds
  <2> HIDE DEF p, m
  <2>5. out' = p
    BY <2>3, <2>4 DEF p, Sound, OutType
  <2>6. Flushed(out')
    BY <1>3, <2>1, <2>4, <2>5 DEF Flushed, Sound
  <2> QED BY <1>2, <1>3, <2>4, <2>5, <2>6, SettledParts, PointerStep DEF m
<1>5. CASE receiving
  <2>1. /\ out' \in OutType /\ out'.wire = out.wire /\ out'.buffer = <<m>>
        /\ out'.len = Size("move") /\ out'.lastIsMove = TRUE
        /\ out'.overrun = FALSE
    BY <1>2, <1>5, MoveWaits
  <2> HIDE DEF m
  <2>2. <<m>> # <<>> /\ Len(<<m>>) = 1 /\ <<m>>[1] = m
    OBVIOUS
  <2>3. Settled(out')
    <3>1. PICK n \in Nat : n = Size("move") /\ n > 0
      BY SizeType
    <3>2. n = 1 * n /\ n # 0
      BY <3>1
    <3>3. Sound(out')
      BY <2>1, <2>2, <3>1, <3>2 DEF Sound
    <3>4. out'.len = Len(out'.buffer) * Size("move")
      BY <2>1, <2>2, <3>1, <3>2
    <3> QED BY <1>1, <2>1, <2>2, <3>3, <3>4 DEF Settled
  <2>4. Said(out') = Append(out.wire, m)
    BY <1>1, <1>3, <2>1, AppendIsConcat DEF Said
  <2>5. TypeOK'
    BY <1>2, <2>1, SettledParts DEF TypeOK
  <2>6. IInv'
    <3>1. Knows(Append(out.wire, m), m.pos, m.mask)
      BY <1>1, <1>3, KnowsPointer
    <3> QED BY <1>1, <1>2, <1>5, <2>3, <2>4, <2>5, <3>1 DEF IInv
  <2>7. /\ Append(out.wire, m) \in Seq(Message) /\ Len(out.wire) \in Nat
        /\ Len(Append(out.wire, m)) = Len(out.wire) + 1
        /\ \A i \in 1..Len(out.wire) : Append(out.wire, m)[i] = out.wire[i]
        /\ Append(out.wire, m)[Len(out.wire) + 1] = m
    BY <1>1, <1>3, AppendType
  <2>8. Told = Said(out) /\ Told' = Append(out.wire, m)
        /\ Len(out.wire)' = Len(out.wire)
    BY <2>1, <2>4 DEF Told, Said
  <2>9. Len(out.wire)' \in Len(out.wire)..Len(Told')
    BY <2>7, <2>8
  <2>10. CASE out.buffer = <<>>
    <3>1. Said(out) = out.wire
      BY <1>3, <2>10, ConcatEmptySeq DEF Said
    <3>2. Stream!Extend
      BY <2>7, <2>8, <3>1 DEF Stream!Extend
    <3> QED BY <2>6, <2>7, <2>8, <2>9, <3>2 DEF Stream!Next
  <2>11. CASE out.buffer # <<>>
    <3>1. Len(out.buffer) = 1 /\ out.buffer[1].kind = "move"
          /\ out.buffer \in Seq(Message)
      BY <1>3, <2>11, SoundType DEF IInv, Settled
    <3>2. PICK b \in Message : out.buffer = <<b>> /\ b.kind = "move"
      BY <3>1
    <3>3. Said(out) = Append(out.wire, b)
      BY <1>3, <3>2, AppendIsConcat DEF Said
    <3>4. IsPointer(b) /\ b.mask = pressed
      <4>1. IsPointer(b)
        BY <3>2 DEF IsPointer
      <4>2. Knows(Append(out.wire, b), mouse, pressed)
        BY <3>3 DEF IInv
      <4> QED BY <1>3, <4>1, <4>2, KnowsLast
    <3>5. /\ Len(Append(out.wire, b)) = Len(out.wire) + 1
          /\ \A i \in 1..Len(out.wire) : Append(out.wire, b)[i] = out.wire[i]
          /\ Append(out.wire, b)[Len(out.wire) + 1] = b
      BY <1>3, AppendType
    <3>6. MovesTo(b, m)
      BY <1>1, <3>2, <3>4 DEF MovesTo
    <3>7. Stream!Supersede
      BY <2>7, <2>8, <3>3, <3>5, <3>6 DEF Stream!Supersede
    <3> QED BY <2>6, <2>7, <2>8, <2>9, <3>7 DEF Stream!Next
  <2> QED BY <2>10, <2>11
<1> QED BY <1>3, <1>4, <1>5

LEMMA ClickStep ==
    ASSUME IInv, NEW mask \in Masks, NEW pos \in Positions, Click(mask, pos)
    PROVE  IInv' /\ Stream!Next
<1> DEFINE m == Pointer("click", mask, pos)
<1>1. /\ mouse' = pos /\ pressed' = mask /\ receiving' = receiving
      /\ open' = open /\ out' = WriteBuffer(WriteBuffered(out, m))
  BY DEF Click, MouseClickedAt
<1>2. m \in Message
  BY PointerType
<1> HIDE DEF m
<1>3. /\ Sound(out') /\ Said(out') = Append(Said(out), m) /\ Writes(out, out')
      /\ Flushed(out')
  BY <1>1, <1>2, SettledParts, FlushAdds
<1> QED BY <1>1, <1>3, SettledParts, PointerStep DEF m

\* The last of two messages is what the server knows.
LEMMA ScrollStep ==
    ASSUME IInv, NEW mask \in Masks, NEW pos \in Positions, Scroll(mask, pos)
    PROVE  IInv' /\ Stream!Next
<1> DEFINE m1 == Pointer("click", mask, pos)
           m2 == Pointer("click", pressed, pos)
           q == WriteBuffered(out, m1)
<1>1. /\ mouse' = pos /\ UNCHANGED <<receiving, pressed, open>>
      /\ out' = WriteBuffer(WriteBuffered(q, m2))
  BY DEF Scroll, MouseClickedAt
<1>2. /\ m1 \in Message /\ m2 \in Message /\ IsPointer(m2)
      /\ m2.mask = pressed /\ m2.pos = pos
  BY SettledParts, PointerType
<1> HIDE DEF m1, m2
<1>3. Sound(q) /\ Said(q) = Append(Said(out), m1) /\ Writes(out, q)
  BY <1>2, SettledParts, WriteBufferedAdds
<1> HIDE DEF q
<1>4. /\ Sound(out') /\ Said(out') = Append(Said(q), m2) /\ Writes(q, out')
      /\ Flushed(out')
  BY <1>1, <1>2, <1>3, FlushAdds
<1>5. Gives(out, q) /\ Gives(q, out')
  BY <1>2, <1>3, <1>4, SettledParts, AppendGives
<1>6. Gives(out, out')
  BY <1>3, <1>4, <1>5, SettledParts, GivesTransitive
<1>7. Knows(Said(out'), mouse', pressed')
  <2>1. Knows(Append(Said(q), m2), m2.pos, m2.mask)
    BY <1>2, <1>3, SoundType, KnowsPointer
  <2> QED BY <1>1, <1>2, <1>4, <2>1
<1>8. TypeOK'
  BY <1>1, <1>4, SettledParts DEF TypeOK, Sound
<1> QED BY <1>4, <1>6, <1>7, <1>8, FlushedStep

LEMMA KeysStep ==
    ASSUME IInv, Keys
    PROVE  IInv' /\ Stream!Next
<1> DEFINE m == Plain("key")
           q == WriteBuffered(out, m)
<1>1. m \in Message /\ ~IsPointer(m)
  BY PointerType
<1> HIDE DEF m
<1>2. UNCHANGED <<receiving, mouse, pressed, open>>
  BY DEF Keys
<1>3. CASE out' = WriteBuffer(q)
  <2>1. /\ Sound(out') /\ Said(out') = Append(Said(out), m)
        /\ Writes(out, out') /\ Flushed(out')
    BY <1>1, <1>3, SettledParts, FlushAdds
  <2> QED BY <1>2, <2>1, SettledParts, PlainStep DEF m
<1>4. CASE out' = WriteBuffer(WriteBuffered(q, m))
  <2>1. Sound(q) /\ Said(q) = Append(Said(out), m) /\ Writes(out, q)
    BY <1>1, SettledParts, WriteBufferedAdds
  <2> HIDE DEF q
  <2>2. /\ Sound(out') /\ Said(out') = Append(Said(q), m) /\ Writes(q, out')
        /\ Flushed(out')
    BY <1>1, <1>4, <2>1, FlushAdds
  <2>3. Gives(out, q) /\ Gives(q, out')
    BY <1>1, <2>1, <2>2, SettledParts, AppendGives
  <2>4. Gives(out, out')
    BY <2>1, <2>2, <2>3, SettledParts, GivesTransitive
  <2>5. Knows(Said(out'), mouse', pressed')
    <3>1. Knows(Said(q), mouse, pressed)
      BY <1>1, <2>1, SettledParts, KnowsPlain DEF IInv
    <3>2. Knows(Append(Said(q), m), mouse, pressed)
      BY <1>1, <2>1, <3>1, SoundType, KnowsPlain
    <3> QED BY <1>2, <2>2, <3>2
  <2>6. TypeOK'
    BY <1>2, <2>2, SettledParts DEF TypeOK, Sound
  <2> QED BY <2>2, <2>4, <2>5, <2>6, FlushedStep
<1> QED BY <1>3, <1>4 DEF Keys, m

\* A request for an update, in a handler of its own or at the end of one.
LEMMA RequestStep ==
    ASSUME IInv, receiving' \in BOOLEAN, UNCHANGED <<mouse, pressed, open>>,
           out' = WriteBytes(out, Plain("other"))
    PROVE  IInv' /\ Stream!Next
<1>1. Plain("other") \in Message
  BY PointerType, Zenon
<1>2. /\ Sound(out') /\ Said(out') = Append(Said(out), Plain("other"))
      /\ Writes(out, out') /\ Flushed(out')
  BY <1>1, SettledParts, WriteBytesAdds
<1> QED BY <1>2, SettledParts, PlainStep

LEMMA UpdateCompleteStep ==
    ASSUME IInv, NEW asks \in BOOLEAN, UpdateComplete(asks)
    PROVE  IInv' /\ Stream!Next
<1>1. receiving' \in BOOLEAN /\ UNCHANGED <<mouse, pressed, open>>
  BY DEF UpdateComplete
<1>2. CASE asks
  <2> DEFINE q == WriteBytes(out, Plain("other"))
  <2>1. Plain("other") \in Message
    BY PointerType, Zenon
  <2>2. /\ Sound(q) /\ Said(q) = Append(Said(out), Plain("other"))
        /\ Writes(out, q)
    BY <2>1, SettledParts, WriteBytesAdds
  <2> HIDE DEF q
  <2>3. out' = WriteBuffer(q)
    BY <1>2 DEF UpdateComplete, q
  <2>4. /\ Sound(out') /\ Said(out') = Said(q) /\ Writes(q, out')
        /\ Flushed(out')
    BY <2>2, <2>3, WriteBufferWrites
  <2>5. Writes(out, out')
    BY <2>2, <2>4, SettledParts, WritesTransitive
  <2> QED BY <1>1, <2>2, <2>4, <2>5, SettledParts, PlainStep
<1>3. CASE ~asks
  <2>1. out' = WriteBuffer(out)
    BY <1>3 DEF UpdateComplete
  <2>2. /\ Sound(out') /\ Said(out') = Said(out) /\ Writes(out, out')
        /\ Flushed(out')
    BY <2>1, SettledParts, WriteBufferWrites
  <2>3. Gives(out, out')
    BY <2>2, SettledParts, SameGives
  <2>4. Knows(Said(out'), mouse', pressed')
    BY <1>1, <2>2 DEF IInv
  <2>5. TypeOK'
    BY <1>1, <2>2, SettledParts DEF TypeOK, Sound
  <2> QED BY <2>2, <2>3, <2>4, <2>5, FlushedStep
<1> QED BY <1>2, <1>3

\* Handlers that write nothing.
LEMMA QuietStep ==
    ASSUME IInv, UNCHANGED <<out, mouse, pressed>>, open' \in BOOLEAN,
           receiving' \in {receiving, TRUE}
    PROVE  IInv' /\ Stream!Next
<1>1. IInv'
  BY SettledParts DEF IInv, TypeOK
<1>2. PICK t \in Seq(Message) : t = Told
  BY SettledParts DEF Told, Said
<1>3. PICK n \in Nat : n = Len(out.wire)
  BY SettledParts, SoundType, Zenon
<1>4. n <= Len(t)
  <2>1. Len(t) = n + Len(out.buffer) /\ Len(out.buffer) \in Nat
    BY <1>2, <1>3, SettledParts, SoundType, Zenon DEF Told, Said
  <2> QED BY <2>1
<1>5. n \in n..Len(t) /\ Len(t) >= Len(t)
  BY <1>4, LenProperties
<1>6. Told' = t /\ Len(out.wire)' = n
  BY <1>2, <1>3 DEF Told
<1> QED BY <1>1, <1>2, <1>3, <1>5, <1>6 DEF Stream!Next, Stream!Extend

-----------------------------------------------------------------------------
(* The theorems. *)

\* Every handler keeps the invariant and says more, or the last move anew.
LEMMA StepIsStreams ==
    ASSUME IInv, Next
    PROVE  IInv' /\ Stream!Next
<1>1. ASSUME NEW pos \in Positions, Move(pos)
      PROVE  IInv' /\ Stream!Next
  BY <1>1, MoveStep
<1>2. ASSUME NEW mask \in Masks, NEW pos \in Positions,
             Click(mask, pos) \/ Scroll(mask, pos)
      PROVE  IInv' /\ Stream!Next
  BY <1>2, ClickStep, ScrollStep
<1>3. CASE Keys
  BY <1>3, KeysStep
<1>4. CASE Other \/ UpdateCompleteWithResize
  <2>1. /\ receiving' \in BOOLEAN /\ UNCHANGED <<mouse, pressed, open>>
        /\ out' = WriteBytes(out, Plain("other"))
    BY <1>4, SettledParts DEF Other, UpdateCompleteWithResize
  <2> QED BY <2>1, RequestStep
<1>5. ASSUME NEW asks \in BOOLEAN, UpdateComplete(asks)
      PROVE  IInv' /\ Stream!Next
  BY <1>5, UpdateCompleteStep
<1>6. CASE UpdateBeginning
  <2>1. UNCHANGED <<out, mouse, pressed, open>> /\ receiving' = TRUE
    BY <1>6 DEF UpdateBeginning
  <2>2. receiving' \in {receiving, TRUE}
    BY <2>1
  <2> QED BY <2>1, <2>2, SettledParts, QuietStep
<1>7. CASE Fail
  <2>1. UNCHANGED <<out, receiving, mouse, pressed>> /\ open' = FALSE
    BY <1>7 DEF Fail
  <2>2. receiving' \in {receiving, TRUE}
    BY <2>1
  <2> QED BY <2>1, <2>2, SettledParts, QuietStep
<1> QED BY <1>1, <1>2, <1>3, <1>4, <1>5, <1>6, <1>7 DEF Next

LEMMA InitIInv ==
    ASSUME Init
    PROVE  IInv /\ Stream!Init
<1>1. /\ out.wire = <<>> /\ out.buffer = <<>> /\ out.len = 0
      /\ out.lastIsMove = FALSE /\ out.overrun = FALSE /\ out \in OutType
  BY SizeType DEF Init, OutType
<1>2. Sound(out) /\ Flushed(out)
  BY <1>1 DEF Sound, Flushed
<1>3. Said(out) = <<>> /\ Len(<<>>) = 0
  BY <1>1 DEF Said
<1>4. Knows(<<>>, mouse, pressed)
  BY DEF Knows
<1>5. TypeOK
  BY <1>1 DEF Init, TypeOK
<1>6. IInv
  BY <1>1, <1>2, <1>3, <1>4, <1>5, FlushedIsSettled DEF IInv
<1> QED BY <1>1, <1>3, <1>6 DEF Stream!Init, Told, Said

THEOREM Invariant == Spec => []IInv
<1>1. Init => IInv
  BY InitIInv
<1>2. IInv /\ [Next]_vars => IInv'
  <2>1. ASSUME IInv, UNCHANGED vars
        PROVE  IInv'
    BY <2>1 DEF vars, IInv, TypeOK
  <2> QED BY <2>1, StepIsStreams
<1> QED BY <1>1, <1>2, PTL DEF Spec

\* The buffer has its type: bufferLen never exceeds BUFFER_SIZE.
THEOREM TypeCorrect == Spec => []TypeOK
<1>1. IInv => TypeOK
  BY DEF IInv
<1> QED BY <1>1, Invariant, PTL

\* Nothing is copied past the end of writeBuffer, and between handlers at most
\* one movement waits there, while an update is being received.
THEOREM BufferIsBounded == Spec => []BufferFits
<1>1. IInv => BufferFits
  BY DEF IInv, Settled, Sound, BufferFits, OnlyAMoveWaits
<1> QED BY <1>1, Invariant, PTL

\* However clicks, scrolls, keys and movements follow one another, what was
\* last written or kept of the mouse is where the client believes it to be.
THEOREM PointerIsKnown == Spec => []ServerKnowsPointer
<1>1. IInv => ServerKnowsPointer
  <2>1. IInv => DOMAIN Told = 1..Len(Told) /\ Told = Said(out)
    BY SettledParts, LenProperties DEF Told, Said
  <2> QED BY <2>1 DEF IInv, ServerKnowsPointer, Knows
<1> QED BY <1>1, Invariant, PTL

\* The buffering of RFBConnection implements ClientStream: no message is lost
\* or overtaken, and only a movement gives way to the next.
THEOREM Implements == Spec => ReachesServer
<1>1. Init => Stream!Init
  BY InitIInv
<1>2. IInv /\ [Next]_vars => [Stream!Next]_<<Told, Len(out.wire)>>
  <2>1. ASSUME UNCHANGED vars
        PROVE  UNCHANGED <<Told, Len(out.wire)>>
    BY <2>1 DEF vars, Told
  <2> QED BY <2>1, StepIsStreams
<1> QED BY <1>1, <1>2, Invariant, PTL DEF Spec, ReachesServer, Stream!Spec

=============================================================================
