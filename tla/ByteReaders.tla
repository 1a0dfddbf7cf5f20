------------------------------ MODULE ByteReaders ------------------------------
(***************************************************************************)
(* How RFBConnection.readData: drives the byte readers: read() brings bytes  *)
(* up to any point of the stream, the current reader takes as many of them   *)
(* as it can use, and when its item is complete calls its target, which sets *)
(* the reader of the next item from within the call.                         *)
(*                                                                         *)
(* A byte is known by its place in the stream; 0 is a byte of memory that    *)
(* was never written.                                                        *)
(***************************************************************************)
EXTENDS Integers, Sequences

CONSTANTS Streams,      \* the items that a server may send
          MaxSize,      \* of an item
          ReadBufSize   \* READ_BUF_SIZE

Cards == {"card16", "card32"}
Kinds == {"card8", "string", "block", "zlib"} \cup Cards
CardReaders == Cards \cup {"length"}        \* that of a string's length
BlockReaders == {"block", "content"}        \* and that of its content

CardSize(reader) == IF reader = "card16" THEN 2 ELSE 4
HeaderSize(kind) == IF kind = "string" THEN CardSize("length") ELSE 0

Item == {item \in [kind: Kinds, size: 0..MaxSize] :
            /\ item.kind \in Cards => item.size = CardSize(item.kind)
            /\ item.kind = "card8" => item.size = 1
            /\ item.kind = "zlib" => item.size > 0}

ASSUME StreamAssumption ==
    /\ MaxSize \in Nat /\ ReadBufSize \in Nat \ {0}
    /\ \A stream \in Streams : stream \in Seq(Item) /\ stream # <<>>

VARIABLES items,        \* a member of Streams
          received,     \* how many bytes read() has brought
          chunk,        \* how many of those are still in buf
          current,      \* currentReader, and the state of the readers:
          card, block, zlib,
          delivered,    \* what the targets were given
          outcome       \* how the connection has ended

readers == <<current, card, block, zlib>>
vars == <<items, received, chunk, readers, delivered, outcome>>

CardType == [bytesToRead: 0..4, value: [1..4 -> Nat]]
BlockType == [size: 0..MaxSize, bytesRead: 0..MaxSize, capacity: 0..MaxSize,
              buffer: [1..MaxSize -> Nat]]
ZlibType == [bytesLeft: 0..MaxSize, inflated: Seq(Nat)]

TypeOK ==
    /\ items \in Streams
    /\ received \in Nat /\ chunk \in 0..received
    /\ current \in {"nil", "card8", "zlib"} \cup CardReaders \cup BlockReaders
    /\ card \in [CardReaders -> CardType]
    /\ block \in [BlockReaders -> BlockType]
    /\ zlib \in ZlibType
    /\ delivered \in Seq(Seq(Nat))
    /\ outcome \in {"open", "finished", "protocolError", "serverClosed"}

NewCard == [bytesToRead |-> 0, value |-> [j \in 1..4 |-> 0]]
Memory == [j \in 1..MaxSize |-> 0]
NewBlock == [size |-> 0, bytesRead |-> 0, capacity |-> 0, buffer |-> Memory]

-----------------------------------------------------------------------------
(* setReader:, as the targets call it for item i, from what the readers are  *)
(* by then.  After the last item a target sets no reader.                    *)

First(i) ==
    IF i \notin DOMAIN items THEN "nil"
    ELSE IF items[i].kind = "string" THEN "length" ELSE items[i].kind

ResetCard(reader, c) == [c EXCEPT !.bytesToRead = CardSize(reader)]

\* Mutant: a block is read on where the last one ended.
ResetBlockMutant(b, size) == [b EXCEPT !.size = size]

\* setBufferSize: and resetReader
ResetBlock(b, size) == [b EXCEPT !.size = size, !.bytesRead = 0]

ResetCards(i, cards) ==
    [r \in CardReaders |-> IF r = First(i) THEN ResetCard(r, cards[r]) ELSE cards[r]]

ResetBlocks(i, blocks) ==
    [r \in BlockReaders |-> IF r = First(i) THEN ResetBlock(blocks[r], items[i].size)
                                            ELSE blocks[r]]

\* setCompressedSize:maxUncompressed:
ResetZlib(i, z) ==
    IF First(i) = "zlib" THEN [bytesLeft |-> items[i].size, inflated |-> <<>>] ELSE z

Init ==
    /\ items \in Streams
    /\ received = 0 /\ chunk = 0 /\ delivered = <<>> /\ outcome = "open"
    /\ current = First(1)
    /\ card = ResetCards(1, [r \in CardReaders |-> NewCard])
    /\ block = ResetBlocks(1, [r \in BlockReaders |-> NewBlock])
    /\ zlib = ResetZlib(1, [bytesLeft |-> 0, inflated |-> <<>>])

-----------------------------------------------------------------------------
(* readData:  What it does when it has ended, outcome stands for. *)

\* Any number of bytes, up to the size of the buffer.
Read ==
    /\ outcome = "open" /\ chunk = 0
    /\ \E n \in 1..ReadBufSize : received' = received + n /\ chunk' = n
    /\ UNCHANGED <<items, readers, delivered, outcome>>

\* The server has closed the connection.
ServerCloses ==
    /\ outcome = "open" /\ chunk = 0
    /\ outcome' = "serverClosed"
    /\ UNCHANGED <<items, received, chunk, readers, delivered>>

\* Byte j of those that are still in buf.
Byte(j) == received - chunk + j
Bytes(n) == [j \in 1..n |-> Byte(j)]

\* memcpy() of n bytes behind the first `at` ones.
Copied(memory, at, n) ==
    [j \in DOMAIN memory |-> IF j \in at + 1..at + n THEN Byte(j - at) ELSE memory[j]]

\* The reader takes n bytes and waits for more.
Takes(n) ==
    /\ chunk' = chunk - n
    /\ UNCHANGED <<items, received, delivered, outcome>>

\* It takes n bytes and calls its target with an item, which sets the reader of
\* the next one; the readers are left as cards, blocks and z by then.
Completes(n, item, cards, blocks, z) ==
    LET i == Len(delivered) + 1 IN
    /\ chunk' = chunk - n
    /\ delivered' = Append(delivered, item)
    /\ current' = First(i + 1)
    /\ card' = ResetCards(i + 1, cards)
    /\ block' = ResetBlocks(i + 1, blocks)
    /\ zlib' = ResetZlib(i + 1, z)
    /\ outcome' = IF n = 0 THEN "protocolError"
                  ELSE IF i = Len(items) THEN "finished" ELSE "open"
    /\ UNCHANGED <<items, received>>

\* What a reader that lacks so many bytes takes from buf.
\* Mutant: takes all there is.
CanConsumeMutant(lacks) == chunk

CanConsume(lacks) == IF chunk < lacks THEN chunk ELSE lacks

-----------------------------------------------------------------------------
(* readBytes:length: of the readers. *)

Reads(reader) == outcome = "open" /\ chunk > 0 /\ current = reader

ReadCard8 == Reads("card8") /\ Completes(1, Bytes(1), card, block, zlib)

\* A number's reader after it has taken n bytes.
Filled(reader, n) ==
    LET c == card[reader] IN
    [bytesToRead |-> c.bytesToRead - n,
     value |-> Copied(c.value, CardSize(reader) - c.bytesToRead, n)]

ReadCard(kind) ==
    /\ Reads(kind)
    /\ LET n == CanConsume(card[kind].bytesToRead)
           filled == Filled(kind, n)
           cards == [card EXCEPT ![kind] = filled]
       IN IF filled.bytesToRead = 0
          THEN Completes(n, SubSeq(filled.value, 1, CardSize(kind)),
                         cards, block, zlib)
          ELSE Takes(n) /\ card' = cards /\ UNCHANGED <<current, block, zlib>>

\* RFBStringReader.setLength:, which makes a new reader for the content.
ReadLength ==
    /\ Reads("length")
    /\ LET n == CanConsume(card["length"].bytesToRead)
           filled == Filled("length", n)
           cards == [card EXCEPT !["length"] = filled]
           size == items[Len(delivered) + 1].size
       IN IF filled.bytesToRead > 0
          THEN Takes(n) /\ card' = cards /\ UNCHANGED <<current, block, zlib>>
          ELSE IF size = 0 THEN Completes(n, <<>>, cards, block, zlib)
          ELSE /\ Takes(n) /\ card' = cards /\ current' = "content"
               /\ block' = [block EXCEPT !["content"] = ResetBlock(NewBlock, size)]
               /\ UNCHANGED zlib

\* Block b with n more bytes, in memory that is large enough for all.
Extended(b, n) ==
    LET large == b.size > b.capacity IN
    [size |-> b.size, bytesRead |-> b.bytesRead + n,
     capacity |-> IF large THEN b.size ELSE b.capacity,
     buffer |-> Copied(IF large THEN Memory ELSE b.buffer, b.bytesRead, n)]

\* ByteBlockReader: a whole block is not copied, a part of one is.
ReadBlock(reader) ==
    /\ Reads(reader)
    /\ LET b == block[reader]
           n == CanConsume(b.size - b.bytesRead)
           extended == Extended(b, n)
       IN IF n = b.size
          THEN Completes(n, Bytes(n), card,
                         [block EXCEPT ![reader].bytesRead = b.size], zlib)
          ELSE IF extended.bytesRead = b.size
          THEN Completes(n, SubSeq(extended.buffer, 1, b.size), card,
                         [block EXCEPT ![reader] = extended], zlib)
          ELSE /\ Takes(n) /\ block' = [block EXCEPT ![reader] = extended]
               /\ UNCHANGED <<current, card, zlib>>

\* ZlibStreamReader, of data that inflate to what was announced.
ReadZlib ==
    /\ Reads("zlib")
    /\ LET n == CanConsume(zlib.bytesLeft)
           z == [bytesLeft |-> zlib.bytesLeft - n,
                 inflated |-> zlib.inflated \o Bytes(n)]
       IN IF z.bytesLeft = 0 THEN Completes(n, z.inflated, card, block, z)
          ELSE Takes(n) /\ zlib' = z /\ UNCHANGED <<current, card, block>>

ReadBytes ==
    \/ ReadCard8 \/ ReadLength \/ ReadZlib
    \/ \E kind \in Cards : ReadCard(kind)
    \/ \E reader \in BlockReaders : ReadBlock(reader)

Next == Read \/ ServerCloses \/ ReadBytes

Spec == Init /\ [][Next]_vars

\* readData: goes on until it has used what it has read.
FairSpec == Spec /\ WF_vars(ReadBytes)

-----------------------------------------------------------------------------
(* What must hold. *)

\* What the current reader has taken of its item.
Taken ==
    IF current \in CardReaders THEN CardSize(current) - card[current].bytesToRead
    ELSE IF current = "block" THEN block["block"].bytesRead
    ELSE IF current = "content" THEN HeaderSize("string") + block["content"].bytesRead
    ELSE IF current = "zlib" THEN items[Len(delivered) + 1].size - zlib.bytesLeft
    ELSE 0

Stream == INSTANCE ItemStream WITH used <- received - chunk - Taken

\* However the stream is cut, each item goes to its target once, in order, with
\* its bytes and no others, as soon as they are there (readData:, readBytes:).
DeliversItems == Stream!FairSpec
=============================================================================
