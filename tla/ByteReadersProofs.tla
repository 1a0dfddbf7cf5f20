--------------------------- MODULE ByteReadersProofs ---------------------------
(***************************************************************************)
(* That the byte readers implement ItemStream, for streams of any items, and *)
(* whatever number of bytes read() brings.                                   *)
(***************************************************************************)
EXTENDS ByteReaders, TLAPS

\* The item that is being read, and how many bytes were used before it.
At == Len(delivered) + 1
Used == received - chunk - Taken

-----------------------------------------------------------------------------
(* The invariant. *)

\* The current reader is one of the item's, which has come in part only.
ReadsItem(i) ==
    \/ current = "card8" /\ items[i].kind = "card8"
    \/ current \in Cards /\ items[i].kind = current
    \/ current \in {"length", "content"} /\ items[i].kind = "string"
    \/ current = "block" /\ items[i].kind = "block"
    \/ current = "zlib" /\ items[i].kind = "zlib"

\* What the reader of a number lacks; it has the bytes from the item's first on.
CardSound(r) ==
    /\ card[r].bytesToRead \in 1..CardSize(r)
    /\ \A j \in 1..CardSize(r) - card[r].bytesToRead : card[r].value[j] = Used + j

\* A block that has come in part is in memory that is large enough.
BlockSound(r, i, header) ==
    LET b == block[r] IN
    /\ b.size = items[i].size
    /\ b.bytesRead < b.size \/ (r = "block" /\ b.size = 0 /\ b.bytesRead = 0)
    /\ b.bytesRead > 0 => b.size <= b.capacity
    /\ \A j \in 1..b.bytesRead : b.buffer[j] = Used + header + j

ZlibSound(i) ==
    /\ zlib.bytesLeft \in 1..items[i].size
    /\ Len(zlib.inflated) = items[i].size - zlib.bytesLeft
    /\ \A j \in 1..Len(zlib.inflated) : zlib.inflated[j] = Used + j

Reading ==
    LET i == At IN
    /\ i \in DOMAIN items
    /\ ReadsItem(i)
    /\ current \in CardReaders => CardSound(current)
    /\ current = "block" => BlockSound("block", i, 0)
    /\ current = "content" => BlockSound("content", i, 4)
    /\ current = "zlib" => ZlibSound(i)

IInv == TypeOK /\ (outcome = "open" => Reading)

-----------------------------------------------------------------------------
(* What the invariant says of the item. *)

LEMMA ItemType ==
    ASSUME IInv, outcome = "open"
    PROVE  /\ items \in Seq(Item) /\ At \in 1..Len(items)
           /\ items[At].kind \in Kinds /\ items[At].size \in 0..MaxSize
           /\ items[At].kind \in Cards => items[At].size = CardSize(items[At].kind)
           /\ items[At].kind = "card8" => items[At].size = 1
           /\ items[At].kind = "zlib" => items[At].size > 0
           /\ MaxSize \in Nat
<1>1. items \in Seq(Item) /\ MaxSize \in Nat
  BY StreamAssumption DEF IInv, TypeOK
<1>2. At \in 1..Len(items)
  BY <1>1 DEF IInv, Reading
<1>3. items[At] \in Item
  BY <1>1, <1>2
<1>4. items[At] \in [kind: Kinds, size: 0..MaxSize]
  BY <1>3 DEF Item
<1> QED BY <1>1, <1>2, <1>3, <1>4 DEF Item

\* Part of the item has come, but not all of it.
LEMMA TakenIsPart ==
    ASSUME IInv, outcome = "open"
    PROVE  /\ Stream!WireSize(At) = HeaderSize(items[At].kind) + items[At].size
           /\ Stream!WireSize(At) \in Nat /\ Taken \in Nat
           /\ Taken < Stream!WireSize(At) \/ (Taken = 0 /\ Stream!WireSize(At) = 0)
<1>1. Stream!WireSize(At) = HeaderSize(items[At].kind) + items[At].size
  BY DEF Stream!WireSize
<1>2. HeaderSize(items[At].kind) \in {0, 4}
  BY DEF HeaderSize, CardSize
<1>3. Taken \in Nat /\ (Taken < HeaderSize(items[At].kind) + items[At].size
                       \/ (Taken = 0 /\ HeaderSize(items[At].kind) + items[At].size = 0))
  <2>1. CASE current = "card8"
    <3>1. items[At].size = 1 /\ Taken = 0
      BY <2>1, ItemType DEF IInv, Reading, ReadsItem, Taken, CardReaders, Cards
    <3> QED BY <3>1, <1>2
  <2>2. CASE current \in CardReaders
    <3>1. card[current].bytesToRead \in 1..CardSize(current) /\ CardSize(current) \in {2, 4}
      BY <2>2 DEF IInv, Reading, CardSound, CardSize
    <3>2. CardSize(current) <= HeaderSize(items[At].kind) + items[At].size
      BY <2>2, ItemType DEF IInv, Reading, ReadsItem, CardReaders, Cards, HeaderSize, CardSize
    <3>3. Taken = CardSize(current) - card[current].bytesToRead
      BY <2>2 DEF Taken
    <3> QED BY <3>1, <3>2, <3>3, <1>2, ItemType
  <2>3. CASE current \in BlockReaders
    <3>1. block[current].bytesRead \in Nat
      BY <2>3 DEF IInv, TypeOK, BlockType
    <3>2. CASE current = "block"
      <4>1. Taken = block["block"].bytesRead /\ HeaderSize(items[At].kind) = 0
        BY <3>2 DEF Taken, CardReaders, Cards, IInv, Reading, ReadsItem, HeaderSize
      <4> QED BY <3>1, <3>2, <4>1, ItemType DEF IInv, Reading, BlockSound
    <3>3. CASE current = "content"
      <4>1. Taken = 4 + block["content"].bytesRead /\ HeaderSize(items[At].kind) = 4
        BY <3>3 DEF Taken, CardReaders, Cards, IInv, Reading, ReadsItem, HeaderSize, CardSize
      <4> QED BY <3>1, <3>3, <4>1, ItemType DEF IInv, Reading, BlockSound
    <3> QED BY <2>3, <3>2, <3>3 DEF BlockReaders
  <2>4. CASE current = "zlib"
    <3>1. Taken = items[At].size - zlib.bytesLeft
      BY <2>4 DEF Taken, CardReaders, Cards, BlockReaders, At
    <3>2. zlib.bytesLeft \in 1..items[At].size
      BY <2>4 DEF IInv, Reading, ZlibSound
    <3> QED BY <3>1, <3>2, <1>2, ItemType
  <2> QED BY <2>1, <2>2, <2>3, <2>4 DEF IInv, Reading, ReadsItem, CardReaders, Cards, BlockReaders
<1> QED BY <1>1, <1>2, <1>3, ItemType

-----------------------------------------------------------------------------
(* Setting the reader of item i. *)

LEMMA FirstReader ==
    ASSUME items \in Seq(Item), NEW i \in 1..Len(items)
    PROVE  /\ First(i) \in {"card8", "card16", "card32", "length", "block", "zlib"}
           /\ First(i) = "length" <=> items[i].kind = "string"
           /\ First(i) # "length" => items[i].kind = First(i)
           /\ items[i].size \in 0..MaxSize
           /\ First(i) = "zlib" => items[i].size \in 1..MaxSize
<1>1. items[i] \in Item
  OBVIOUS
<1>2. /\ items[i].kind \in Kinds /\ items[i].size \in 0..MaxSize
      /\ items[i].kind = "zlib" => items[i].size > 0
  BY <1>1 DEF Item
<1> QED BY <1>2 DEF First, Kinds, Cards

LEMMA ResetBlockType ==
    ASSUME MaxSize \in Nat, NEW b \in BlockType, NEW size \in 0..MaxSize
    PROVE  /\ ResetBlock(b, size) \in BlockType
           /\ ResetBlock(b, size).size = size /\ ResetBlock(b, size).bytesRead = 0
<1>1. 0 \in 0..MaxSize
  OBVIOUS
<1>2. ResetBlock(b, size) \in BlockType
  BY <1>1 DEF ResetBlock, BlockType
<1> QED BY <1>2 DEF ResetBlock, BlockType

LEMMA SetReader ==
    ASSUME items \in Seq(Item), MaxSize \in Nat, NEW i \in Nat,
           NEW cards \in [CardReaders -> CardType],
           NEW blocks \in [BlockReaders -> BlockType], NEW z \in ZlibType
    PROVE  /\ First(i) \in {"nil", "card8", "zlib"} \cup CardReaders \cup BlockReaders
           /\ ResetCards(i, cards) \in [CardReaders -> CardType]
           /\ ResetBlocks(i, blocks) \in [BlockReaders -> BlockType]
           /\ ResetZlib(i, z) \in ZlibType
           /\ First(i) \in CardReaders =>
                 ResetCards(i, cards)[First(i)].bytesToRead = CardSize(First(i))
           /\ First(i) = "block" =>
                 /\ ResetBlocks(i, blocks)["block"].size = items[i].size
                 /\ ResetBlocks(i, blocks)["block"].bytesRead = 0
           /\ First(i) = "zlib" =>
                 /\ ResetZlib(i, z).bytesLeft = items[i].size
                 /\ ResetZlib(i, z).inflated = <<>>
<1>1. i \notin DOMAIN items => First(i) = "nil"
  BY DEF First
<1>2. i \in DOMAIN items => i \in 1..Len(items)
  OBVIOUS
<1>3. First(i) \in {"nil", "card8", "zlib"} \cup CardReaders \cup BlockReaders
  BY <1>1, <1>2, FirstReader DEF CardReaders, Cards, BlockReaders
<1>4. First(i) # "nil" => i \in 1..Len(items)
  BY <1>1, <1>2
<1>5. ASSUME NEW r \in CardReaders
      PROVE ResetCard(r, cards[r]) \in CardType
            /\ ResetCard(r, cards[r]).bytesToRead = CardSize(r)
  <2>1. cards[r] \in CardType /\ CardSize(r) \in 0..4
    BY DEF CardSize
  <2> QED BY <2>1 DEF ResetCard, CardType
<1>6. /\ ResetCards(i, cards) \in [CardReaders -> CardType]
      /\ First(i) \in CardReaders =>
            ResetCards(i, cards)[First(i)].bytesToRead = CardSize(First(i))
  BY <1>5 DEF ResetCards
<1>7. ASSUME NEW r \in BlockReaders, r = First(i)
      PROVE /\ ResetBlock(blocks[r], items[i].size) \in BlockType
            /\ ResetBlock(blocks[r], items[i].size).size = items[i].size
            /\ ResetBlock(blocks[r], items[i].size).bytesRead = 0
  <2>1. blocks[r] \in BlockType /\ items[i].size \in 0..MaxSize
    BY <1>4, <1>7, FirstReader DEF BlockReaders
  <2> QED BY <2>1, ResetBlockType
<1>8. /\ ResetBlocks(i, blocks) \in [BlockReaders -> BlockType]
      /\ First(i) = "block" => /\ ResetBlocks(i, blocks)["block"].size = items[i].size
                               /\ ResetBlocks(i, blocks)["block"].bytesRead = 0
  BY <1>7 DEF ResetBlocks, BlockReaders
<1>9. /\ ResetZlib(i, z) \in ZlibType
      /\ First(i) = "zlib" => /\ ResetZlib(i, z).bytesLeft = items[i].size
                              /\ ResetZlib(i, z).inflated = <<>>
  BY <1>4, FirstReader DEF ResetZlib, ZlibType
<1> QED BY <1>3, <1>6, <1>8, <1>9
-----------------------------------------------------------------------------
LEMMA InitSound == Init => IInv /\ Stream!Init
<1> SUFFICES ASSUME Init PROVE IInv /\ Stream!Init
  OBVIOUS
<1> DEFINE cards == [r \in CardReaders |-> NewCard]
           blocks == [r \in BlockReaders |-> NewBlock]
           z == [bytesLeft |-> 0, inflated |-> <<>>]
<1>1. items \in Seq(Item) /\ items # <<>> /\ MaxSize \in Nat
  BY StreamAssumption DEF Init
<1>2. cards \in [CardReaders -> CardType] /\ z \in ZlibType
  BY <1>1 DEF NewCard, CardType, ZlibType
<1>3. NewBlock \in BlockType
  BY <1>1 DEF NewBlock, Memory, BlockType
<1>4. blocks \in [BlockReaders -> BlockType]
  BY <1>3
<1>5. /\ current = First(1) /\ card = ResetCards(1, cards)
      /\ block = ResetBlocks(1, blocks) /\ zlib = ResetZlib(1, z)
  BY DEF Init
<1> HIDE DEF cards, blocks, z
<1>6. 1 \in 1..Len(items) /\ At = 1 /\ 1 \in DOMAIN items /\ 1 \in Nat
  BY <1>1 DEF Init, At
<1>7. TypeOK
  BY <1>1, <1>2, <1>4, <1>5, <1>6, SetReader DEF TypeOK, Init
<1>8. Taken = 0
  BY <1>1, <1>2, <1>4, <1>5, <1>6, SetReader, FirstReader
  DEF Taken, CardReaders, Cards, CardSize, At
<1>9. Reading
  <2>1. ReadsItem(1)
    BY <1>1, <1>5, <1>6, FirstReader DEF ReadsItem, Cards
  <2>2. current \in CardReaders => CardSound(current)
    BY <1>1, <1>2, <1>4, <1>5, <1>6, SetReader DEF CardSound, CardSize
  <2>3. current = "block" => BlockSound("block", 1, 0)
    BY <1>1, <1>2, <1>4, <1>5, <1>6, SetReader, FirstReader DEF BlockSound
  <2>4. current = "zlib" => ZlibSound(1)
    BY <1>1, <1>2, <1>4, <1>5, <1>6, SetReader, FirstReader DEF ZlibSound
  <2> QED BY <1>1, <1>5, <1>6, <2>1, <2>2, <2>3, <2>4, FirstReader DEF Reading
<1> QED BY <1>7, <1>8, <1>9 DEF IInv, Init, Stream!Init

-----------------------------------------------------------------------------
(* An item is complete, its target is called, and sets the next reader. *)

LEMMA Completion ==
    ASSUME IInv, outcome = "open", NEW n \in 0..chunk, NEW item \in Seq(Nat),
           NEW cards \in [CardReaders -> CardType],
           NEW blocks \in [BlockReaders -> BlockType], NEW z \in ZlibType,
           chunk > 0, Taken + n = Stream!WireSize(At),
           n = 0 => Stream!WireSize(At) = 0,
           item = Stream!Payload(At), Completes(n, item, cards, blocks, z)
    PROVE  IInv' /\ Stream!Deliver
<1>1. /\ items \in Seq(Item) /\ At \in 1..Len(items) /\ MaxSize \in Nat
      /\ received \in Nat /\ chunk \in 0..received
      /\ delivered \in Seq(Seq(Nat))
  BY ItemType DEF IInv, TypeOK
<1>2. /\ chunk' = chunk - n /\ delivered' = Append(delivered, item)
      /\ current' = First(At + 1) /\ card' = ResetCards(At + 1, cards)
      /\ block' = ResetBlocks(At + 1, blocks) /\ zlib' = ResetZlib(At + 1, z)
      /\ outcome' = IF n = 0 THEN "protocolError"
                    ELSE IF At = Len(items) THEN "finished" ELSE "open"
      /\ items' = items /\ received' = received
  BY DEF Completes, At
<1>3. At' = At + 1 /\ At + 1 \in Nat /\ Len(delivered') = Len(delivered) + 1
  BY <1>1, <1>2 DEF At
<1>4. chunk' \in 0..received' /\ delivered' \in Seq(Seq(Nat))
  BY <1>1, <1>2
<1>5. outcome' \in {"open", "finished", "protocolError", "serverClosed"}
  BY <1>2
<1>6. TypeOK'
  BY <1>1, <1>2, <1>3, <1>4, <1>5, SetReader DEF TypeOK, IInv
<1>7. At + 1 \in 1..Len(items) => At + 1 \in DOMAIN items
  BY <1>1
<1>8. /\ current' \in CardReaders =>
            card'[current'].bytesToRead = CardSize(current') /\ CardSize(current') \in {2, 4}
      /\ current' = "block" => /\ block'["block"].size = items[At + 1].size
                               /\ block'["block"].bytesRead = 0
      /\ current' = "zlib" => /\ zlib'.bytesLeft = items[At + 1].size
                              /\ zlib'.inflated = <<>>
  BY <1>1, <1>2, <1>3, SetReader DEF CardSize
<1>9. At + 1 \in 1..Len(items) =>
        /\ current' \in {"card8", "card16", "card32", "length", "block", "zlib"}
        /\ current' = "length" <=> items[At + 1].kind = "string"
        /\ current' # "length" => items[At + 1].kind = current'
        /\ items[At + 1].size \in 0..MaxSize
        /\ current' = "zlib" => items[At + 1].size \in 1..MaxSize
  BY <1>1, <1>2, FirstReader
<1>10. Taken' = 0
  <2>1. CASE At + 1 \in 1..Len(items)
    <3>1. CASE current' \in CardReaders
      BY <3>1, <1>8 DEF Taken
    <3>2. CASE current' = "block"
      BY <3>2, <1>8 DEF Taken, CardReaders, Cards
    <3>3. CASE current' = "zlib"
      <4>1. Taken' = items'[At'].size - zlib'.bytesLeft
        BY <3>3 DEF Taken, CardReaders, Cards, BlockReaders, At
      <4> QED BY <3>3, <4>1, <1>8, <1>9, <2>1, <1>2, <1>3
    <3>4. CASE current' = "card8"
      BY <3>4 DEF Taken, CardReaders, Cards, BlockReaders
    <3> QED BY <2>1, <1>9, <3>1, <3>2, <3>3, <3>4 DEF CardReaders, Cards
  <2>2. CASE At + 1 \notin 1..Len(items)
    <3>1. current' = "nil"
      BY <2>2, <1>1, <1>2 DEF First
    <3> QED BY <3>1 DEF Taken, CardReaders, Cards, BlockReaders
  <2> QED BY <2>1, <2>2
<1>11. outcome' = "open" => Reading'
  <2> SUFFICES ASSUME outcome' = "open" PROVE Reading'
    OBVIOUS
  <2>1. At + 1 \in 1..Len(items) /\ At' \in DOMAIN items'
    BY <1>1, <1>2, <1>3, <1>7
  <2>2. ReadsItem(At)'
    BY <1>2, <1>3, <2>1, <1>9 DEF ReadsItem, Cards
  <2>3. current' \in CardReaders => CardSound(current)'
    <3> SUFFICES ASSUME current' \in CardReaders PROVE CardSound(current)'
      OBVIOUS
    <3>1. 1..CardSize(current') - card'[current'].bytesToRead = {}
      BY <1>8
    <3> QED BY <3>1, <1>8 DEF CardSound
  <2>4. current' = "block" => BlockSound("block", At, 0)'
    <3> SUFFICES ASSUME current' = "block" PROVE BlockSound("block", At, 0)'
      OBVIOUS
    <3>1. /\ block'["block"].size = items'[At'].size /\ block'["block"].size \in Nat
          /\ block'["block"].bytesRead = 0
      BY <1>8, <1>9, <1>2, <1>3, <2>1
    <3>2. 1..block'["block"].bytesRead = {}
      BY <3>1
    <3> QED BY <3>1, <3>2 DEF BlockSound
  <2>5. current' = "zlib" => ZlibSound(At)'
    <3> SUFFICES ASSUME current' = "zlib" PROVE ZlibSound(At)'
      OBVIOUS
    <3>1. /\ zlib'.bytesLeft = items'[At'].size /\ zlib'.bytesLeft \in Nat \ {0}
          /\ Len(zlib'.inflated) = 0
      BY <1>8, <1>9, <1>2, <1>3, <2>1
    <3>2. 1..Len(zlib'.inflated) = {}
      BY <3>1
    <3> QED BY <3>1, <3>2 DEF ZlibSound
  <2>6. current' # "content"
    BY <1>1, <1>2, <2>1, FirstReader
  <2> QED BY <2>1, <2>2, <2>3, <2>4, <2>5, <2>6 DEF Reading
<1>12. Stream!Deliver
  <2>1. received >= Used + Stream!WireSize(At)
    BY <1>1, TakenIsPart DEF Used
  <2>2. Stream!WireSize(At) = 0 => received > Used
    BY <1>1, TakenIsPart DEF Used
  <2>3. Stream!Arrived(At)
    BY <1>1, <2>1, <2>2 DEF Stream!Arrived, Used
  <2>4. Used' = Used + Stream!WireSize(At)
    BY <1>1, <1>2, <1>10, TakenIsPart DEF Used
  <2>5. n = 0 <=> Stream!WireSize(At) = 0
    BY <1>1, TakenIsPart
  <2> QED BY <1>2, <2>3, <2>4, <2>5 DEF Stream!Deliver, At, Used
<1> QED BY <1>6, <1>11, <1>12 DEF IInv
-----------------------------------------------------------------------------
(* What the readers do with the bytes. *)

LEMMA NextBytes ==
    ASSUME IInv, outcome = "open"
    PROVE  /\ \A j \in Nat : Byte(j) = Used + Taken + j /\ Byte(j) \in Nat
           /\ Used \in Int
<1>1. received \in Nat /\ chunk \in 0..received /\ Taken \in Nat
  BY TakenIsPart DEF IInv, TypeOK
<1> QED BY <1>1 DEF Byte, Used

LEMMA Consumes ==
    ASSUME IInv, chunk > 0, NEW lacks \in Nat
    PROVE  /\ CanConsume(lacks) \in 0..chunk /\ CanConsume(lacks) \in 0..lacks
           /\ lacks > 0 => CanConsume(lacks) > 0
<1>1. chunk \in Nat
  BY DEF IInv, TypeOK
<1> QED BY <1>1 DEF CanConsume

\* Copied behind what has been copied of the item before.
LEMMA CopiedBytes ==
    ASSUME IInv, outcome = "open"
    PROVE  \A m \in Nat : \A memory \in [1..m -> Nat] :
             \A at \in Nat, n \in Nat, base \in Int :
               /\ Copied(memory, at, n) \in [1..m -> Nat]
               /\ /\ at + n <= m /\ Used + Taken = base + at
                  /\ \A j \in 1..at : memory[j] = base + j
                  => \A j \in 1..at + n : Copied(memory, at, n)[j] = base + j
<1> SUFFICES ASSUME NEW m \in Nat, NEW memory \in [1..m -> Nat],
                    NEW at \in Nat, NEW n \in Nat, NEW base \in Int
             PROVE  /\ Copied(memory, at, n) \in [1..m -> Nat]
                    /\ /\ at + n <= m /\ Used + Taken = base + at
                       /\ \A j \in 1..at : memory[j] = base + j
                       => \A j \in 1..at + n : Copied(memory, at, n)[j] = base + j
  OBVIOUS
<1>1. \A j \in 1..m : j \in at + 1..at + n =>
        j - at \in Nat /\ Byte(j - at) = Used + Taken + (j - at) /\ Byte(j - at) \in Nat
  BY NextBytes
<1>2. Copied(memory, at, n) \in [1..m -> Nat]
  BY <1>1 DEF Copied
<1>3. \A j \in 1..m : Copied(memory, at, n)[j] =
                      IF j \in at + 1..at + n THEN Used + Taken + (j - at) ELSE memory[j]
  BY <1>1 DEF Copied
<1>4. Taken \in Nat /\ Used \in Int
  BY TakenIsPart, NextBytes
<1>5. ASSUME at + n <= m, Used + Taken = base + at, \A j \in 1..at : memory[j] = base + j,
             NEW j \in 1..at + n
      PROVE  Copied(memory, at, n)[j] = base + j
  <2>1. j \in 1..m
    BY <1>5
  <2>2. CASE j \in 1..at
    BY <1>3, <1>5, <2>1, <2>2
  <2>3. CASE j \in at + 1..at + n
    <3>1. Copied(memory, at, n)[j] = Used + Taken + (j - at)
      BY <1>3, <2>1, <2>3
    <3> QED BY <3>1, <1>4, <1>5
  <2> QED BY <2>2, <2>3
<1> QED BY <1>2, <1>5

LEMMA FirstPart ==
    ASSUME NEW m \in Nat, NEW memory \in [1..m -> Nat], NEW n \in 0..m
    PROVE  SubSeq(memory, 1, n) = [j \in 1..n |-> memory[j]]
           /\ SubSeq(memory, 1, n) \in Seq(Nat)
OBVIOUS

LEMMA StepOfCard8 ==
    ASSUME IInv, ReadCard8
    PROVE  IInv' /\ Stream!Deliver
<1>1. /\ outcome = "open" /\ chunk > 0 /\ current = "card8"
      /\ Completes(1, Bytes(1), card, block, zlib)
  BY DEF ReadCard8, Reads
<1>2. Taken = 0 /\ items[At].size = 1 /\ items[At].kind = "card8"
  BY <1>1, ItemType DEF IInv, Reading, ReadsItem, Taken, CardReaders, Cards, BlockReaders
<1>3. Stream!WireSize(At) = 1
  BY <1>1, <1>2, TakenIsPart DEF HeaderSize
<1>4. Bytes(1) = Stream!Payload(At)
  BY <1>1, <1>2, NextBytes DEF Bytes, Stream!Payload, Used, HeaderSize
<1>5. Bytes(1) \in Seq(Nat)
  BY <1>1, NextBytes DEF Bytes
<1>6. 1 \in 0..chunk
  BY <1>1 DEF IInv, TypeOK
<1>7. /\ card \in [CardReaders -> CardType] /\ block \in [BlockReaders -> BlockType]
      /\ zlib \in ZlibType
  BY DEF IInv, TypeOK
<1> QED BY <1>1, <1>2, <1>3, <1>4, <1>5, <1>6, <1>7, Completion

LEMMA NumberFilled ==
    ASSUME IInv, outcome = "open", chunk > 0, current \in CardReaders,
           NEW n, n = CanConsume(card[current].bytesToRead)
    PROVE  /\ n \in 1..chunk
           /\ Filled(current, n) \in CardType
           /\ Filled(current, n).bytesToRead = CardSize(current) - (Taken + n)
           /\ Filled(current, n).bytesToRead \in 0..CardSize(current)
           /\ \A j \in 1..Taken + n : Filled(current, n).value[j] = Used + j
           /\ CardSize(current) \in {2, 4}
<1> DEFINE c == card[current]
           at == CardSize(current) - c.bytesToRead
<1>1. c \in CardType /\ c.bytesToRead \in 1..CardSize(current) /\ CardSize(current) \in {2, 4}
  BY DEF IInv, TypeOK, Reading, CardSound, CardSize
<1>2. n \in 1..chunk /\ n <= c.bytesToRead /\ n \in Nat
  BY <1>1, Consumes DEF IInv, TypeOK
<1>3. Taken = at /\ at \in Nat
  BY <1>1 DEF Taken
<1>4. c.value \in [1..4 -> Nat]
  BY <1>1 DEF CardType
<1>5. \A j \in 1..at : c.value[j] = Used + j
  BY DEF IInv, Reading, CardSound
<1>6. Filled(current, n) = [bytesToRead |-> c.bytesToRead - n, value |-> Copied(c.value, at, n)]
  BY DEF Filled
<1> HIDE DEF c, at
<1>7. /\ Copied(c.value, at, n) \in [1..4 -> Nat]
      /\ \A j \in 1..at + n : Copied(c.value, at, n)[j] = Used + j
  <2>1. Used \in Int /\ at + n <= 4 /\ Used + Taken = Used + at /\ 4 \in Nat
    BY <1>1, <1>2, <1>3, NextBytes DEF at
  <2>2. \A a \in Nat, k \in Nat, base \in Int :
          /\ Copied(c.value, a, k) \in [1..4 -> Nat]
          /\ /\ a + k <= 4 /\ Used + Taken = base + a
             /\ \A j \in 1..a : c.value[j] = base + j
             => \A j \in 1..a + k : Copied(c.value, a, k)[j] = base + j
    BY <2>1, <1>4, CopiedBytes, Zenon
  <2> QED BY <2>1, <2>2, <1>2, <1>3, <1>5
<1>8. c.bytesToRead - n \in 0..CardSize(current) /\ c.bytesToRead - n = CardSize(current) - (Taken + n)
  BY <1>1, <1>2, <1>3 DEF at
<1> QED BY <1>1, <1>2, <1>3, <1>6, <1>7, <1>8 DEF CardType

\* The reader of a number waits for more.
LEMMA NumberWaits ==
    ASSUME IInv, outcome = "open", chunk > 0, current \in CardReaders,
           NEW n, n = CanConsume(card[current].bytesToRead),
           Filled(current, n).bytesToRead > 0,
           Takes(n), card' = [card EXCEPT ![current] = Filled(current, n)],
           UNCHANGED <<current, block, zlib>>
    PROVE  IInv' /\ UNCHANGED Stream!vars
<1>1. /\ n \in 1..chunk /\ Filled(current, n) \in CardType
      /\ Filled(current, n).bytesToRead = CardSize(current) - (Taken + n)
      /\ Filled(current, n).bytesToRead \in 1..CardSize(current)
      /\ \A j \in 1..Taken + n : Filled(current, n).value[j] = Used + j
      /\ CardSize(current) \in {2, 4}
  BY NumberFilled
<1>2. /\ chunk' = chunk - n /\ items' = items /\ received' = received
      /\ delivered' = delivered /\ outcome' = outcome
      /\ current' = current /\ block' = block /\ zlib' = zlib
  BY DEF Takes
<1>3. card'[current] = Filled(current, n) /\ card' \in [CardReaders -> CardType]
  BY <1>1 DEF IInv, TypeOK
<1>4. TypeOK'
  BY <1>1, <1>2, <1>3 DEF IInv, TypeOK
<1>5. Taken' = Taken + n /\ Taken \in Nat
  <2>1. Taken' = CardSize(current) - card'[current].bytesToRead
    BY <1>2 DEF Taken
  <2> QED BY <2>1, <1>1, <1>3, TakenIsPart
<1>6. Used' = Used
  BY <1>1, <1>2, <1>5 DEF Used, IInv, TypeOK
<1>7. CardSound(current)'
  <2>1. CardSize(current) - card'[current].bytesToRead = Taken + n
    BY <1>1, <1>3, <1>5
  <2> QED BY <1>1, <1>2, <1>3, <1>6, <2>1 DEF CardSound
<1>8. At' = At /\ ReadsItem(At)' /\ At \in DOMAIN items
  BY <1>2 DEF IInv, Reading, ReadsItem, At
<1>9. current # "block" /\ current # "content" /\ current # "zlib"
  BY DEF Cards, CardReaders
<1>10. Reading'
  BY <1>2, <1>7, <1>8, <1>9 DEF Reading
<1> QED BY <1>2, <1>4, <1>6, <1>10 DEF IInv, Stream!vars, Used

LEMMA StepOfCard ==
    ASSUME IInv, NEW kind \in Cards, ReadCard(kind)
    PROVE  IInv' /\ (Stream!Deliver \/ UNCHANGED Stream!vars)
<1> DEFINE n == CanConsume(card[kind].bytesToRead)
           filled == Filled(kind, n)
           cards == [card EXCEPT ![kind] = filled]
<1>1. outcome = "open" /\ chunk > 0 /\ current = kind /\ kind \in CardReaders
  BY DEF ReadCard, Reads, CardReaders
<1>2. /\ n \in 1..chunk /\ filled \in CardType
      /\ filled.bytesToRead = CardSize(kind) - (Taken + n)
      /\ filled.bytesToRead \in 0..CardSize(kind)
      /\ \A j \in 1..Taken + n : filled.value[j] = Used + j
      /\ CardSize(kind) \in {2, 4}
  BY <1>1, NumberFilled
<1>3. CASE filled.bytesToRead > 0
  <2>1. Takes(n) /\ card' = cards /\ UNCHANGED <<current, block, zlib>>
    BY <1>3, <1>2 DEF ReadCard
  <2> QED BY <1>1, <1>3, <2>1, NumberWaits
<1>4. CASE filled.bytesToRead = 0
  <2> DEFINE item == SubSeq(filled.value, 1, CardSize(kind))
  <2>1. Completes(n, item, cards, block, zlib)
    BY <1>4 DEF ReadCard
  <2>2. items[At].kind = kind /\ items[At].size = CardSize(kind)
    BY <1>1, ItemType DEF IInv, Reading, ReadsItem, Cards
  <2>3. HeaderSize(kind) = 0
    BY DEF HeaderSize, Cards
  <2>4. Taken \in Nat /\ Stream!WireSize(At) = CardSize(kind) /\ Used \in Int
    BY <1>1, <1>2, <2>2, <2>3, TakenIsPart, NextBytes
  <2>5. Taken + n = CardSize(kind) /\ n # 0 /\ n \in 0..chunk
    BY <1>2, <1>4, <2>4 DEF IInv, TypeOK
  <2>6. filled.value \in [1..4 -> Nat]
    BY <1>2 DEF CardType
  <2>7. item = [j \in 1..CardSize(kind) |-> filled.value[j]] /\ item \in Seq(Nat)
    BY <2>6, <1>2, FirstPart
  <2>8. Stream!Payload(At) = [j \in 1..CardSize(kind) |-> Used + 0 + j]
    BY <2>2, <2>3 DEF Stream!Payload, Used
  <2>9. item = Stream!Payload(At)
    BY <1>2, <2>4, <2>5, <2>7, <2>8
  <2>10. /\ cards \in [CardReaders -> CardType] /\ block \in [BlockReaders -> BlockType]
         /\ zlib \in ZlibType
    BY <1>2 DEF IInv, TypeOK
  <2> HIDE DEF n, filled, cards, item
  <2> QED BY <1>1, <2>1, <2>4, <2>5, <2>7, <2>9, <2>10, Completion
<1> QED BY <1>2, <1>3, <1>4

LEMMA StepOfLength ==
    ASSUME IInv, ReadLength
    PROVE  IInv' /\ (Stream!Deliver \/ UNCHANGED Stream!vars)
<1> DEFINE n == CanConsume(card["length"].bytesToRead)
           filled == Filled("length", n)
           cards == [card EXCEPT !["length"] = filled]
           size == items[At].size
<1>1. outcome = "open" /\ chunk > 0 /\ current = "length" /\ "length" \in CardReaders
  BY DEF ReadLength, Reads, CardReaders
<1>2. /\ n \in 1..chunk /\ filled \in CardType
      /\ filled.bytesToRead = 4 - (Taken + n) /\ filled.bytesToRead \in 0..4
  BY <1>1, NumberFilled DEF CardSize
<1>3. /\ items[At].kind = "string" /\ size \in 0..MaxSize /\ MaxSize \in Nat
      /\ HeaderSize("string") = 4
  BY <1>1, ItemType DEF IInv, Reading, ReadsItem, Cards, HeaderSize, CardSize
<1>4. /\ Taken \in Nat /\ Stream!WireSize(At) = 4 + size /\ Used \in Int
      /\ chunk \in 0..received /\ received \in Nat
  BY <1>1, <1>3, TakenIsPart, NextBytes DEF IInv, TypeOK
<1>5. cards \in [CardReaders -> CardType]
  BY <1>2 DEF IInv, TypeOK
<1>6. CASE filled.bytesToRead > 0
  <2>1. Takes(n) /\ card' = cards /\ UNCHANGED <<current, block, zlib>>
    BY <1>6 DEF ReadLength
  <2> QED BY <1>1, <1>6, <2>1, NumberWaits
<1>7. CASE filled.bytesToRead = 0 /\ size = 0
  <2>1. Completes(n, <<>>, cards, block, zlib)
    BY <1>7 DEF ReadLength, At
  <2>2. Stream!Payload(At) = <<>>
    BY <1>3, <1>7 DEF Stream!Payload
  <2>3. /\ Taken + n = Stream!WireSize(At) /\ n \in 0..chunk /\ n # 0 /\ <<>> \in Seq(Nat)
        /\ block \in [BlockReaders -> BlockType] /\ zlib \in ZlibType
    BY <1>2, <1>4, <1>7 DEF IInv, TypeOK
  <2> HIDE DEF n, cards, filled, size
  <2> QED BY <1>1, <1>5, <2>1, <2>2, <2>3, Completion
<1>8. CASE filled.bytesToRead = 0 /\ size # 0
  <2>1. /\ Takes(n) /\ card' = cards /\ current' = "content" /\ zlib' = zlib
        /\ block' = [block EXCEPT !["content"] = ResetBlock(NewBlock, size)]
    BY <1>8 DEF ReadLength, At
  <2>2. /\ chunk' = chunk - n /\ items' = items /\ received' = received
        /\ delivered' = delivered /\ outcome' = outcome
    BY <2>1 DEF Takes
  <2>3. NewBlock \in BlockType
    BY <1>3 DEF NewBlock, Memory, BlockType
  <2>4. /\ ResetBlock(NewBlock, size) \in BlockType
        /\ ResetBlock(NewBlock, size).size = size
        /\ ResetBlock(NewBlock, size).bytesRead = 0
    BY <1>3, <2>3, ResetBlockType
  <2>5. /\ block' \in [BlockReaders -> BlockType]
        /\ block'["content"].size = size /\ block'["content"].bytesRead = 0
    BY <2>1, <2>4 DEF IInv, TypeOK, BlockReaders
  <2>6. chunk' \in 0..received' /\ current' \in BlockReaders
    BY <1>2, <1>4, <2>1, <2>2 DEF BlockReaders
  <2>7. TypeOK'
    BY <1>5, <2>1, <2>2, <2>5, <2>6 DEF IInv, TypeOK
  <2>8. Taken' = 4
    BY <1>3, <2>1, <2>5 DEF Taken, CardReaders, Cards
  <2>9. Used' = Used
    BY <1>2, <1>4, <1>8, <2>2, <2>8 DEF Used
  <2>10. BlockSound("content", At, 4)'
    <3>1. 1..block'["content"].bytesRead = {} /\ size > 0
      BY <1>3, <1>8, <2>5
    <3>2. items'[At'].size = size
      BY <2>2 DEF At
    <3> QED BY <1>3, <2>5, <3>1, <3>2 DEF BlockSound
  <2>11. At' = At /\ At \in DOMAIN items /\ ReadsItem(At)'
    BY <1>1, <1>3, <2>1, <2>2 DEF IInv, Reading, ReadsItem, At
  <2>12. Reading'
    BY <2>1, <2>2, <2>10, <2>11 DEF Reading, CardReaders, Cards
  <2> QED BY <2>2, <2>7, <2>9, <2>12 DEF IInv, Stream!vars, Used
<1> QED BY <1>2, <1>6, <1>7, <1>8

\* What is known of the block that is being read, and of its memory afterwards.
LEMMA BlockExtended ==
    ASSUME IInv, outcome = "open", chunk > 0, current \in BlockReaders,
           NEW n, n = CanConsume(block[current].size - block[current].bytesRead)
    PROVE  /\ block[current] \in BlockType /\ block[current].size = items[At].size
           /\ Taken = HeaderSize(items[At].kind) + block[current].bytesRead
           /\ n \in 0..chunk /\ n + block[current].bytesRead <= block[current].size
           /\ n = 0 => block[current].size = 0 /\ HeaderSize(items[At].kind) = 0
           /\ Extended(block[current], n) \in BlockType
           /\ Extended(block[current], n).size = block[current].size
           /\ Extended(block[current], n).size <= Extended(block[current], n).capacity
           /\ Extended(block[current], n).bytesRead = block[current].bytesRead + n
           /\ \A j \in 1..block[current].bytesRead + n :
                Extended(block[current], n).buffer[j] =
                    Used + HeaderSize(items[At].kind) + j
<1> DEFINE b == block[current]
           header == HeaderSize(items[At].kind)
           before == IF b.size > b.capacity THEN Memory ELSE b.buffer
<1>1. b \in BlockType /\ MaxSize \in Nat
  BY ItemType DEF IInv, TypeOK
<1>2. /\ b.size \in 0..MaxSize /\ b.bytesRead \in 0..MaxSize /\ b.capacity \in 0..MaxSize
      /\ b.buffer \in [1..MaxSize -> Nat]
  BY <1>1 DEF BlockType
<1>3. /\ b.size = items[At].size
      /\ b.bytesRead < b.size \/ (b.size = 0 /\ b.bytesRead = 0 /\ header = 0)
      /\ b.bytesRead > 0 => b.size <= b.capacity
      /\ Taken = header + b.bytesRead /\ header \in Nat
      /\ \A j \in 1..b.bytesRead : b.buffer[j] = Used + header + j
  <2>1. CASE current = "block"
    <3>1. header = 0 /\ Taken = b.bytesRead
      BY <2>1 DEF IInv, Reading, ReadsItem, HeaderSize, Taken, CardReaders, Cards
    <3>2. BlockSound("block", At, 0)
      BY <2>1 DEF IInv, Reading
    <3> QED BY <1>2, <2>1, <3>1, <3>2 DEF BlockSound
  <2>2. CASE current = "content"
    <3>1. header = 4 /\ Taken = 4 + b.bytesRead
      BY <2>2 DEF IInv, Reading, ReadsItem, HeaderSize, CardSize, Taken, CardReaders, Cards
    <3>2. BlockSound("content", At, 4)
      BY <2>2 DEF IInv, Reading
    <3> QED BY <1>2, <2>2, <3>1, <3>2 DEF BlockSound
  <2> QED BY <2>1, <2>2 DEF BlockReaders
<1>4. b.size - b.bytesRead \in Nat
  BY <1>1, <1>2, <1>3
<1>5. /\ n \in 0..chunk /\ n \in Nat /\ n + b.bytesRead <= b.size
      /\ n = 0 => b.size = 0 /\ header = 0
  <2>1. chunk \in Nat
    BY DEF IInv, TypeOK
  <2>2. PICK lacks \in Nat : lacks = b.size - b.bytesRead
    BY <1>4
  <2>3. n \in 0..chunk /\ n \in 0..lacks /\ (lacks > 0 => n > 0)
    BY <2>2, Consumes
  <2> QED BY <1>2, <1>3, <2>1, <2>2, <2>3
<1>6. before \in [1..MaxSize -> Nat]
  BY <1>2 DEF Memory
<1>7. \A j \in 1..b.bytesRead : before[j] = Used + header + j
  BY <1>2, <1>3
<1>8. Extended(b, n) =
        [size |-> b.size, bytesRead |-> b.bytesRead + n,
         capacity |-> IF b.size > b.capacity THEN b.size ELSE b.capacity,
         buffer |-> Copied(before, b.bytesRead, n)]
  BY DEF Extended
<1> HIDE DEF b, header, before
<1>9. /\ Copied(before, b.bytesRead, n) \in [1..MaxSize -> Nat]
      /\ \A j \in 1..b.bytesRead + n :
            Copied(before, b.bytesRead, n)[j] = Used + header + j
  <2>1. \A a \in Nat, k \in Nat, base \in Int :
          /\ Copied(before, a, k) \in [1..MaxSize -> Nat]
          /\ /\ a + k <= MaxSize /\ Used + Taken = base + a
             /\ \A j \in 1..a : before[j] = base + j
             => \A j \in 1..a + k : Copied(before, a, k)[j] = base + j
    BY <1>1, <1>6, CopiedBytes, Zenon
  <2>2. Used \in Int /\ Used + header \in Int
    BY <1>3, NextBytes
  <2>3. b.bytesRead + n <= MaxSize /\ b.bytesRead \in Nat
    BY <1>1, <1>2, <1>5
  <2>4. Used + Taken = (Used + header) + b.bytesRead
    BY <1>3, <2>2, <2>3
  <2> QED BY <1>5, <1>7, <2>1, <2>2, <2>3, <2>4
<1>10. Extended(b, n) \in BlockType
  <2>1. b.bytesRead + n \in 0..MaxSize
    BY <1>1, <1>2, <1>5
  <2> QED BY <1>2, <1>8, <1>9, <2>1 DEF BlockType
<1>11. Extended(b, n).size <= Extended(b, n).capacity
  BY <1>2, <1>8
<1> QED BY <1>1, <1>3, <1>5, <1>8, <1>9, <1>10, <1>11 DEF b, header

LEMMA StepOfBlock ==
    ASSUME IInv, NEW reader \in BlockReaders, ReadBlock(reader)
    PROVE  IInv' /\ (Stream!Deliver \/ UNCHANGED Stream!vars)
<1> DEFINE b == block[reader]
           n == CanConsume(b.size - b.bytesRead)
           header == HeaderSize(items[At].kind)
           extended == Extended(b, n)
<1>1. outcome = "open" /\ chunk > 0 /\ current = reader
  BY DEF ReadBlock, Reads
<1>2. /\ b \in BlockType /\ b.size = items[At].size /\ Taken = header + b.bytesRead
      /\ n \in 0..chunk /\ n + b.bytesRead <= b.size 
      /\ n = 0 => b.size = 0 /\ header = 0
      /\ extended \in BlockType /\ extended.size = b.size
      /\ extended.size <= extended.capacity /\ extended.bytesRead = b.bytesRead + n
      /\ \A j \in 1..b.bytesRead + n : extended.buffer[j] = Used + header + j
  BY <1>1, BlockExtended
<1>3. /\ b.size \in 0..MaxSize /\ b.bytesRead \in 0..MaxSize
      /\ extended.buffer \in [1..MaxSize -> Nat] /\ MaxSize \in Nat
  BY <1>1, <1>2, ItemType DEF BlockType
<1>4. /\ Taken \in Nat /\ Stream!WireSize(At) = header + b.size /\ Used \in Int
      /\ header \in {0, 4} /\ chunk \in 0..received /\ received \in Nat
  BY <1>1, <1>2, TakenIsPart, NextBytes DEF IInv, TypeOK, HeaderSize, CardSize
<1>5. Stream!Payload(At) = [j \in 1..b.size |-> Used + header + j]
  BY <1>2 DEF Stream!Payload, Used
<1>6. card \in [CardReaders -> CardType] /\ zlib \in ZlibType
      /\ block \in [BlockReaders -> BlockType]
  BY DEF IInv, TypeOK
<1>7. CASE n = b.size
  <2> DEFINE blocks == [block EXCEPT ![reader].bytesRead = b.size]
  <2>1. Completes(n, Bytes(n), card, blocks, zlib)
    BY <1>7 DEF ReadBlock
  <2>2. b.bytesRead = 0 /\ Taken + n = Stream!WireSize(At) /\ n \in Nat
    BY <1>2, <1>3, <1>4, <1>7
  <2>3. Bytes(n) = Stream!Payload(At)
    <3>1. \A j \in 1..n : Byte(j) = Used + header + j
      BY <1>1, <1>2, <1>4, <2>2, NextBytes
    <3> QED BY <1>5, <1>7, <3>1 DEF Bytes
  <2>4. Bytes(n) \in Seq(Nat)
    BY <1>1, <2>2, NextBytes DEF Bytes
  <2>5. n = 0 => Stream!WireSize(At) = 0
    BY <1>2, <1>4, <2>2
  <2>6. blocks \in [BlockReaders -> BlockType]
    <3>1. [b EXCEPT !.bytesRead = b.size] \in BlockType
      BY <1>2, <1>3 DEF BlockType
    <3> QED BY <1>6, <3>1
  <2> HIDE DEF b, n, header, extended, blocks
  <2> QED BY <1>1, <1>2, <1>6, <2>1, <2>2, <2>3, <2>4, <2>5, <2>6, Completion
<1>8. CASE n # b.size /\ extended.bytesRead = b.size
  <2> DEFINE item == SubSeq(extended.buffer, 1, b.size)
             blocks == [block EXCEPT ![reader] = extended]
  <2>1. Completes(n, item, card, blocks, zlib)
    BY <1>8 DEF ReadBlock
  <2>2. Taken + n = Stream!WireSize(At) /\ n # 0
    BY <1>2, <1>3, <1>4, <1>8
  <2>3. item = [j \in 1..b.size |-> extended.buffer[j]] /\ item \in Seq(Nat)
    BY <1>3, FirstPart
  <2>4. item = Stream!Payload(At)
    BY <1>2, <1>5, <1>8, <2>3
  <2>5. blocks \in [BlockReaders -> BlockType]
    BY <1>2, <1>6
  <2> HIDE DEF b, n, header, extended, item, blocks
  <2> QED BY <1>1, <1>2, <1>6, <2>1, <2>2, <2>3, <2>4, <2>5, Completion
<1>9. CASE n # b.size /\ extended.bytesRead # b.size
  <2>1. /\ Takes(n) /\ block' = [block EXCEPT ![reader] = extended]
        /\ current' = current /\ card' = card /\ zlib' = zlib
    BY <1>9 DEF ReadBlock
  <2>2. /\ chunk' = chunk - n /\ items' = items /\ received' = received
        /\ delivered' = delivered /\ outcome' = outcome
    BY <2>1 DEF Takes
  <2>3. block'[reader] = extended /\ block' \in [BlockReaders -> BlockType]
    BY <1>2, <1>6, <2>1
  <2>4. chunk' \in 0..received'
    BY <1>2, <1>4, <2>2
  <2>5. TypeOK'
    BY <2>1, <2>2, <2>3, <2>4 DEF IInv, TypeOK
  <2> HIDE DEF n, extended
  <2>6. Taken' = header + extended.bytesRead
    <3>1. CASE reader = "block"
      <4>1. header = 0
        BY <1>1, <3>1 DEF IInv, Reading, ReadsItem, HeaderSize, Cards
      <4> QED BY <1>1, <1>2, <1>3, <2>1, <2>3, <3>1, <4>1 DEF Taken, CardReaders, Cards, BlockType
    <3>2. CASE reader = "content"
      <4>1. header = 4 /\ HeaderSize("string") = 4
        BY <1>1, <3>2 DEF IInv, Reading, ReadsItem, HeaderSize, CardSize, Cards
      <4> QED BY <1>1, <2>1, <2>3, <3>2, <4>1 DEF Taken, CardReaders, Cards
    <3> QED BY <3>1, <3>2 DEF BlockReaders
  <2>7. Used' = Used
    BY <1>2, <1>3, <1>4, <2>2, <2>6 DEF Used
  <2>8. /\ block'[reader].size = items'[At'].size
        /\ block'[reader].bytesRead < block'[reader].size
        /\ block'[reader].size <= block'[reader].capacity
        /\ \A j \in 1..block'[reader].bytesRead :
              block'[reader].buffer[j] = Used' + header + j
    <3>1. items'[At'].size = b.size
      BY <1>2, <2>2 DEF At
    <3>2. b.bytesRead + n < b.size
      <4>1. b.bytesRead + n # b.size /\ n \in Nat
        BY <1>2, <1>4, <1>9
      <4>2. b.size \in Nat /\ b.bytesRead \in Nat
        BY <1>3
      <4>3. n + b.bytesRead <= b.size
        BY <1>2
      <4> HIDE DEF b
      <4> QED BY <4>1, <4>2, <4>3
    <3> QED BY <1>2, <2>3, <2>7, <3>1, <3>2
  <2>9. At' = At /\ At \in DOMAIN items /\ ReadsItem(At)'
    BY <1>1, <2>1, <2>2 DEF IInv, Reading, ReadsItem, At
  <2>10. CASE reader = "block"
    <3>1. header = 0
      BY <1>1, <2>10 DEF IInv, Reading, ReadsItem, HeaderSize, Cards
    <3>2. BlockSound("block", At, 0)'
      BY <2>8, <2>10, <3>1 DEF BlockSound
    <3>3. Reading'
      BY <1>1, <2>1, <2>2, <2>9, <2>10, <3>2 DEF Reading, CardReaders, Cards
    <3> QED BY <2>2, <2>5, <2>7, <3>3 DEF IInv, Stream!vars, Used
  <2>11. CASE reader = "content"
    <3>1. header = 4
      BY <1>1, <2>11 DEF IInv, Reading, ReadsItem, HeaderSize, CardSize, Cards
    <3>2. BlockSound("content", At, 4)'
      BY <2>8, <2>11, <3>1 DEF BlockSound
    <3>3. Reading'
      BY <1>1, <2>1, <2>2, <2>9, <2>11, <3>2 DEF Reading, CardReaders, Cards
    <3> QED BY <2>2, <2>5, <2>7, <3>3 DEF IInv, Stream!vars, Used
  <2> QED BY <2>10, <2>11 DEF BlockReaders
<1> QED BY <1>7, <1>8, <1>9

LEMMA BytesOfBuffer ==
    ASSUME IInv, outcome = "open", NEW n \in Nat
    PROVE  /\ Bytes(n) \in Seq(Nat) /\ Len(Bytes(n)) = n
           /\ \A j \in 1..n : Bytes(n)[j] = Used + Taken + j
<1>1. \A j \in 1..n : Byte(j) = Used + Taken + j /\ Byte(j) \in Nat
  BY NextBytes
<1> QED BY <1>1 DEF Bytes

LEMMA Joined ==
    ASSUME NEW s \in Seq(Nat), NEW t \in Seq(Nat)
    PROVE  /\ s \o t \in Seq(Nat) /\ Len(s \o t) = Len(s) + Len(t)
           /\ \A j \in 1..Len(s) + Len(t) :
                (s \o t)[j] = IF j <= Len(s) THEN s[j] ELSE t[j - Len(s)]
OBVIOUS

LEMMA StepOfZlib ==
    ASSUME IInv, ReadZlib
    PROVE  IInv' /\ (Stream!Deliver \/ UNCHANGED Stream!vars)
<1> DEFINE n == CanConsume(zlib.bytesLeft)
           size == items[At].size
           old == zlib.inflated
           new == old \o Bytes(n)
           z == [bytesLeft |-> zlib.bytesLeft - n, inflated |-> new]
<1>1. outcome = "open" /\ chunk > 0 /\ current = "zlib"
  BY DEF ReadZlib, Reads
<1>2. /\ items[At].kind = "zlib" /\ size \in 1..MaxSize /\ MaxSize \in Nat
      /\ HeaderSize("zlib") = 0
  BY <1>1, ItemType DEF IInv, Reading, ReadsItem, Cards, HeaderSize
<1>3. /\ zlib.bytesLeft \in 1..size /\ Len(old) = size - zlib.bytesLeft
      /\ \A j \in 1..Len(old) : old[j] = Used + j
      /\ old \in Seq(Nat) /\ Taken = size - zlib.bytesLeft
  BY <1>1 DEF IInv, TypeOK, ZlibType, Reading, ZlibSound, Taken, At, CardReaders, Cards, BlockReaders
<1>4. zlib.bytesLeft \in Nat /\ zlib.bytesLeft > 0
  BY <1>2, <1>3
<1>5. n \in 0..chunk /\ n \in 0..zlib.bytesLeft /\ n > 0 /\ n \in Nat
  BY <1>1, <1>4, Consumes
<1>6. /\ Taken \in Nat /\ Stream!WireSize(At) = size /\ Used \in Int
      /\ chunk \in 0..received /\ received \in Nat
  <2>1. chunk \in 0..received /\ received \in Nat
    BY DEF IInv, TypeOK
  <2>2. Stream!WireSize(At) = 0 + size /\ Taken \in Nat
    BY <1>1, <1>2, TakenIsPart
  <2>3. Stream!WireSize(At) = size
    BY <1>2, <2>2
  <2> QED BY <1>1, <2>1, <2>2, <2>3, NextBytes
<1>7. Bytes(n) \in Seq(Nat) /\ Len(Bytes(n)) = n
      /\ \A j \in 1..n : Bytes(n)[j] = Used + Taken + j
  <2> HIDE DEF n
  <2> QED BY <1>1, <1>5, BytesOfBuffer
<1> HIDE DEF n, size, old
<1>8. /\ new \in Seq(Nat) /\ Len(new) = Taken + n
      /\ \A j \in 1..Taken + n : new[j] = Used + j
  <2>1. PICK t \in Seq(Nat) : t = Bytes(n)
    BY <1>7
  <2>2. /\ old \o t \in Seq(Nat) /\ Len(old \o t) = Len(old) + Len(t)
        /\ \A j \in 1..Len(old) + Len(t) :
             (old \o t)[j] = IF j <= Len(old) THEN old[j] ELSE t[j - Len(old)]
    BY <1>3, <2>1, Joined
  <2>3. Len(old) = Taken /\ Len(t) = n /\ new = old \o t
    BY <1>3, <1>7, <2>1
  <2>4. ASSUME NEW j \in 1..Taken + n PROVE new[j] = Used + j
    <3>1. CASE j <= Taken
      <4>1. j \in 1..Len(old)
        BY <1>5, <1>6, <2>3, <3>1
      <4> QED BY <1>3, <2>2, <2>3, <3>1, <4>1
    <3>2. CASE ~(j <= Taken)
      <4>1. j - Taken \in 1..n
        BY <1>5, <1>6, <3>2
      <4>2. new[j] = t[j - Taken]
        BY <2>2, <2>3, <3>2
      <4>3. t[j - Taken] = Used + Taken + (j - Taken)
        BY <1>7, <2>1, <4>1
      <4> QED BY <1>6, <4>2, <4>3
    <3> QED BY <3>1, <3>2
  <2> QED BY <2>2, <2>3, <2>4
<1>9. z \in ZlibType /\ z.bytesLeft = size - (Taken + n) /\ z.inflated = new
  <2>1. zlib.bytesLeft - n \in 0..MaxSize
    BY <1>2, <1>3, <1>5
  <2> HIDE DEF new
  <2>2. z.bytesLeft = zlib.bytesLeft - n /\ z.inflated = new /\ z \in ZlibType
    BY <1>8, <2>1 DEF ZlibType
  <2>3. size \in Nat /\ zlib.bytesLeft \in Nat
    BY <1>2, <1>4
  <2> HIDE DEF z
  <2> QED BY <1>3, <1>5, <2>2, <2>3
<1> HIDE DEF new, z
<1>10. CASE z.bytesLeft = 0
  <2>1. Completes(n, new, card, block, z)
    BY <1>9, <1>10 DEF ReadZlib, n, z, new, old
  <2>2. Stream!Payload(At) = [j \in 1..size |-> Used + 0 + j]
    BY <1>2 DEF Stream!Payload, Used, size
  <2>3. Taken + n = size /\ n # 0
    BY <1>2, <1>5, <1>6, <1>9, <1>10
  <2>4. new = Stream!Payload(At)
    BY <1>6, <1>8, <2>2, <2>3
  <2>5. card \in [CardReaders -> CardType] /\ block \in [BlockReaders -> BlockType]
    BY DEF IInv, TypeOK
  <2> QED BY <1>1, <1>5, <1>6, <1>8, <1>9, <2>1, <2>3, <2>4, <2>5, Completion
<1>11. CASE z.bytesLeft # 0
  <2>1. /\ Takes(n) /\ zlib' = z /\ current' = current /\ card' = card /\ block' = block
    BY <1>11 DEF ReadZlib, n, z, new, old
  <2>2. /\ chunk' = chunk - n /\ items' = items /\ received' = received
        /\ delivered' = delivered /\ outcome' = outcome
    BY <2>1 DEF Takes
  <2>3. chunk' \in 0..received'
    BY <1>5, <1>6, <2>2
  <2>4. TypeOK'
    BY <1>9, <2>1, <2>2, <2>3 DEF IInv, TypeOK
  <2>5. At' = At /\ At \in DOMAIN items /\ ReadsItem(At)' /\ items'[At'].size = size
    BY <1>1, <2>1, <2>2 DEF IInv, Reading, ReadsItem, At, size
  <2>6. z.bytesLeft \in 1..size /\ Len(z.inflated) = size - z.bytesLeft
    <3>1. z.bytesLeft \in Nat
      BY <1>9 DEF ZlibType
    <3>2. size \in Nat /\ z.bytesLeft = size - (Taken + n)
      BY <1>2, <1>9
    <3>3. z.bytesLeft \in 1..size
      BY <1>5, <1>6, <1>11, <3>1, <3>2
    <3>4. Len(z.inflated) = Taken + n
      BY <1>8, <1>9
    <3> QED BY <1>5, <1>6, <3>2, <3>3, <3>4
  <2>7. Taken' = Taken + n
    <3>1. Taken' = items'[At'].size - zlib'.bytesLeft
      BY <1>1, <2>1 DEF Taken, At, CardReaders, Cards, BlockReaders
    <3> QED BY <1>2, <1>5, <1>6, <1>9, <2>1, <2>5, <3>1
  <2>8. Used' = Used
    BY <1>5, <1>6, <2>2, <2>7 DEF Used
  <2>9. ZlibSound(At)'
    BY <1>8, <1>9, <2>1, <2>5, <2>6, <2>8 DEF ZlibSound
  <2>10. Reading'
    BY <1>1, <2>1, <2>5, <2>9, <2>2 DEF Reading, CardReaders, Cards
  <2> QED BY <2>2, <2>4, <2>8, <2>10 DEF IInv, Stream!vars, Used
<1> QED BY <1>10, <1>11

LEMMA StepOfRead ==
    ASSUME IInv, Read
    PROVE  IInv' /\ Stream!Receive
<1>1. PICK n \in 1..ReadBufSize : received' = received + n /\ chunk' = n
  BY DEF Read
<1>2. /\ outcome = "open" /\ chunk = 0 /\ items' = items /\ delivered' = delivered
      /\ outcome' = outcome /\ current' = current /\ card' = card
      /\ block' = block /\ zlib' = zlib
  BY DEF Read, readers
<1>3. received \in Nat /\ ReadBufSize \in Nat
  BY StreamAssumption DEF IInv, TypeOK
<1>4. received' \in Nat /\ received' > received /\ chunk' \in 0..received'
  BY <1>1, <1>3
<1>5. TypeOK'
  BY <1>2, <1>4 DEF IInv, TypeOK
<1>6. Taken' = Taken /\ Taken \in Nat
  BY <1>2, TakenIsPart DEF Taken
<1>7. Used' = Used
  BY <1>1, <1>2, <1>3, <1>6 DEF Used
<1>8. Reading'
  BY <1>2, <1>7 DEF IInv, Reading, ReadsItem, CardSound, BlockSound, ZlibSound, At
<1> QED BY <1>2, <1>4, <1>5, <1>7, <1>8 DEF IInv, Stream!Receive, Used

LEMMA StepOfServerCloses ==
    ASSUME IInv, ServerCloses
    PROVE  IInv' /\ Stream!ServerCloses
<1>1. /\ outcome = "open" /\ chunk = 0 /\ outcome' = "serverClosed"
      /\ items' = items /\ received' = received /\ chunk' = chunk
      /\ delivered' = delivered /\ current' = current /\ card' = card
      /\ block' = block /\ zlib' = zlib
  BY DEF ServerCloses, readers
<1>2. TypeOK'
  BY <1>1 DEF IInv, TypeOK
<1>3. Used' = Used
  BY <1>1 DEF Used, Taken
<1>4. received = Used + Taken /\ Used \in Int /\ received \in Nat
  BY <1>1, TakenIsPart, NextBytes DEF Used, IInv, TypeOK
<1>5. ~Stream!Arrived(At)
  BY <1>1, <1>4, TakenIsPart DEF Stream!Arrived, Used
<1> QED BY <1>1, <1>2, <1>3, <1>5 DEF IInv, Stream!ServerCloses, Used, At

-----------------------------------------------------------------------------
LEMMA NextSound ==
    ASSUME IInv, [Next]_vars
    PROVE  IInv' /\ [Stream!Next]_(Stream!vars)
<1>1. CASE Read
  BY <1>1, StepOfRead DEF Stream!Next
<1>2. CASE ServerCloses
  BY <1>2, StepOfServerCloses DEF Stream!Next
<1>3. CASE ReadBytes
  <2>1. IInv' /\ (Stream!Deliver \/ UNCHANGED Stream!vars)
    BY <1>3, StepOfCard8, StepOfLength, StepOfZlib, StepOfCard, StepOfBlock DEF ReadBytes
  <2> QED BY <2>1 DEF Stream!Next
<1>4. CASE UNCHANGED vars
  <2>1. /\ items' = items /\ received' = received /\ chunk' = chunk
        /\ delivered' = delivered /\ outcome' = outcome /\ current' = current
        /\ card' = card /\ block' = block /\ zlib' = zlib
    BY <1>4 DEF vars, readers
  <2>2. Taken' = Taken
    BY <2>1 DEF Taken
  <2>3. Used' = Used /\ At' = At
    BY <2>1, <2>2 DEF Used, At
  <2>4. IInv'
    BY <2>1, <2>3 DEF IInv, TypeOK, Reading, ReadsItem, CardSound, BlockSound, ZlibSound
  <2> QED BY <2>1, <2>3, <2>4 DEF Stream!vars, Used
<1> QED BY <1>1, <1>2, <1>3, <1>4 DEF Next

(***************************************************************************)
(* The readers keep to their types: no reader takes more bytes than it lacks *)
(* or than there are (readBytes:length:).                                    *)
(***************************************************************************)
THEOREM TypeCorrect == Spec => []TypeOK
<1>1. IInv => TypeOK
  BY DEF IInv
<1>2. Init => IInv
  BY InitSound
<1>3. IInv /\ [Next]_vars => IInv'
  BY NextSound
<1> QED BY <1>1, <1>2, <1>3, PTL DEF Spec

(***************************************************************************)
(* Wherever read() cuts the stream, the targets are given each item once, in *)
(* order, with its bytes, and no item that has come is lost when the server  *)
(* closes: the readers implement ItemStream (readData:, readBytes:length:).   *)
(***************************************************************************)
THEOREM ReadersDeliver == Spec => Stream!Spec
<1>1. Init => IInv /\ Stream!Init
  BY InitSound
<1>2. IInv /\ [Next]_vars => IInv' /\ [Stream!Next]_(Stream!vars)
  BY NextSound
<1> QED BY <1>1, <1>2, PTL DEF Spec, Stream!Spec
=============================================================================
