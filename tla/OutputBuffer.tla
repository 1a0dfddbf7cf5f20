----------------------------- MODULE OutputBuffer -----------------------------
(***************************************************************************)
(* The output side of RFBConnection: messages are written at once, or kept  *)
(* in a buffer until the handler that writes them is done.  While an update *)
(* of the frame buffer is being received, a mouse movement stays in the     *)
(* buffer, where the next one takes its place.                              *)
(*                                                                         *)
(* Each action is a whole handler on the main thread.                       *)
(***************************************************************************)
EXTENDS Integers, Sequences

CONSTANTS Positions,    \* of the mouse
          Masks,        \* buttons of a pointer message
          Size(_),      \* the bytes of a message, by its kind
          BufferSize,   \* BUFFER_SIZE
          MaxMessages   \* bound on what is written

Kinds == {"move", "click", "key", "other"}
NoPosition == "nowhere"
NoMask == "none"

ASSUME OutputAssumption ==
    /\ \A kind \in Kinds : Size(kind) \in Nat \ {0}
    /\ Size("click") = Size("move") /\ Size("move") <= BufferSize
    /\ BufferSize \in Nat /\ MaxMessages \in Nat
    /\ NoPosition \notin Positions

\* A movement and a click are both pointer messages to the server.
Message == [kind : Kinds, mask : Masks \cup {NoMask},
            pos : Positions \cup {NoPosition}]

Pointer(kind, mask, pos) == [kind |-> kind, mask |-> mask, pos |-> pos]
Plain(kind) == [kind |-> kind, mask |-> NoMask, pos |-> NoPosition]
IsPointer(m) == m.kind \in {"move", "click"}

VARIABLES
    out,        \* what was written, and the buffer: see OutType
    receiving,  \* isReceivingUpdate
    mouse,      \* lastMouseX and lastMouseY
    pressed,    \* _pressedButtons of the EventFilter, among Masks
    open        \* the socket takes what is written

vars == <<out, receiving, mouse, pressed, open>>

OutType == [wire : Seq(Message),        \* what reallyWriteBytes has written
            buffer : Seq(Message),      \* writeBuffer
            len : 0..BufferSize,        \* bufferLen
            lastIsMove : BOOLEAN,       \* lastBufferedIsMouseMovement
            overrun : BOOLEAN]          \* memcpy has left writeBuffer

TypeOK == /\ out \in OutType /\ receiving \in BOOLEAN
          /\ mouse \in Positions \cup {NoPosition}
          /\ pressed \in Masks /\ open \in BOOLEAN

Init == /\ out = [wire |-> <<>>, buffer |-> <<>>, len |-> 0,
                  lastIsMove |-> FALSE, overrun |-> FALSE]
        /\ receiving = FALSE /\ mouse = NoPosition
        /\ pressed \in Masks /\ open = TRUE

-----------------------------------------------------------------------------
(* Writing. *)

ReallyWrite(o, m) == [o EXCEPT !.wire = Append(@, m)]

\* Mutant: forgets that the last movement is no longer in the buffer.
WriteBufferMutant(o) ==
    IF o.len = 0 THEN o
    ELSE [o EXCEPT !.wire = @ \o o.buffer, !.buffer = <<>>, !.len = 0]

WriteBuffer(o) ==
    IF o.len = 0 THEN o
    ELSE [o EXCEPT !.wire = @ \o o.buffer, !.buffer = <<>>, !.len = 0,
                   !.lastIsMove = FALSE]

Buffered(o, m) ==
    [o EXCEPT !.buffer = Append(@, m), !.len = @ + Size(m.kind),
              !.lastIsMove = FALSE,
              !.overrun = @ \/ o.len + Size(m.kind) > BufferSize]

\* Mutant: makes room only for what does not fit at all.
WriteBufferedMutant(o, m) ==
    IF Size(m.kind) > BufferSize THEN ReallyWrite(WriteBuffer(o), m)
                                 ELSE Buffered(o, m)

WriteBuffered(o, m) ==
    LET flushed == IF o.len + Size(m.kind) > BufferSize THEN WriteBuffer(o)
                                                        ELSE o
    IN IF Size(m.kind) > BufferSize THEN ReallyWrite(flushed, m)
                                    ELSE Buffered(flushed, m)

\* Mutant: passes the buffer by.
WriteBytesMutant(o, m) == ReallyWrite(o, m)

WriteBytes(o, m) ==
    IF o.len > 0 THEN WriteBuffer(WriteBuffered(o, m)) ELSE ReallyWrite(o, m)

\* The movement that was buffered last gives way.
DropMove(o) ==
    IF o.lastIsMove
    THEN [o EXCEPT !.buffer = SubSeq(@, 1, Len(@) - 1),
                   !.len = @ - Size("move")]
    ELSE o

MouseAt(o, pos) ==
    LET m == Pointer("move", pressed, pos)
    IN IF receiving
       THEN [WriteBuffered(DropMove(o), m) EXCEPT !.lastIsMove = TRUE]
       ELSE [WriteBytes(DropMove(o), m) EXCEPT !.lastIsMove = FALSE]

MouseClickedAt(o, mask, pos) == WriteBuffered(o, Pointer("click", mask, pos))

-----------------------------------------------------------------------------
(* The handlers. *)

Room == open /\ Len(out.wire) + Len(out.buffer) < MaxMessages

\* Mutant: takes where it saw the mouse for where it told the server of it.
MoveMutant(pos) ==
    /\ Room
    /\ mouse' = pos
    /\ out' = IF receiving /\ out.lastIsMove THEN out ELSE MouseAt(out, pos)
    /\ UNCHANGED <<receiving, pressed, open>>

\* mouseMoved: a movement to where the server knows the mouse is not sent.
Move(pos) ==
    /\ Room /\ pos # mouse
    /\ mouse' = pos
    /\ out' = MouseAt(out, pos)
    /\ UNCHANGED <<receiving, pressed, open>>

\* A button of the mouse, or an emulated one, changes.
Click(mask, pos) ==
    /\ Room /\ mask # pressed
    /\ pressed' = mask /\ mouse' = pos
    /\ out' = WriteBuffer(MouseClickedAt(out, mask, pos))
    /\ UNCHANGED <<receiving, open>>

\* scrollWheel: presses a button of its own and releases it.
Scroll(mask, pos) ==
    /\ Room
    /\ mouse' = pos
    /\ out' = WriteBuffer(MouseClickedAt(MouseClickedAt(out, mask, pos),
                                         pressed, pos))
    /\ UNCHANGED <<receiving, pressed, open>>

\* One key event, or a press and a release as in sendPauseKeyCode: and its
\* like; handlers that write more of them write more of the same.
Keys ==
    /\ Room
    /\ \/ out' = WriteBuffer(WriteBuffered(out, Plain("key")))
       \/ out' = WriteBuffer(WriteBuffered(WriteBuffered(out, Plain("key")),
                                           Plain("key")))
    /\ UNCHANGED <<receiving, mouse, pressed, open>>

\* A request for an update, new encodings or the pasteboard.
Other ==
    /\ Room
    /\ out' = WriteBytes(out, Plain("other"))
    /\ UNCHANGED <<receiving, mouse, pressed, open>>

UpdateBeginning ==
    /\ open /\ ~receiving /\ receiving' = TRUE
    /\ UNCHANGED <<out, mouse, pressed, open>>

\* Mutant: a manual or delayed connection keeps what is buffered.
UpdateCompleteMutant(asks) ==
    /\ open /\ receiving /\ receiving' = FALSE
    /\ out' = IF asks THEN WriteBuffer(WriteBytes(out, Plain("other"))) ELSE out
    /\ UNCHANGED <<mouse, pressed, open>>

\* frameBufferUpdateComplete: asks for the next update at once, or does not.
UpdateComplete(asks) ==
    /\ open /\ receiving /\ receiving' = FALSE
    /\ asks => Len(out.wire) + Len(out.buffer) < MaxMessages
    /\ out' = WriteBuffer(IF asks THEN WriteBytes(out, Plain("other")) ELSE out)
    /\ UNCHANGED <<mouse, pressed, open>>

\* frameBufferUpdateCompleteWithResize: leaves it to the request to flush.
UpdateCompleteWithResize ==
    /\ receiving /\ receiving' = FALSE
    /\ Room
    /\ out' = WriteBytes(out, Plain("other"))
    /\ UNCHANGED <<mouse, pressed, open>>

\* A write fails, or the connection is closed for another reason.
Fail == open /\ open' = FALSE /\ UNCHANGED <<out, receiving, mouse, pressed>>

Next ==
    \/ \E pos \in Positions : Move(pos)
    \/ \E mask \in Masks, pos \in Positions : Click(mask, pos) \/ Scroll(mask, pos)
    \/ Keys \/ Other
    \/ UpdateBeginning \/ UpdateCompleteWithResize
    \/ \E asks \in BOOLEAN : UpdateComplete(asks)
    \/ Fail

Spec == Init /\ [][Next]_vars

\* The server sends the rest of an update it has begun.
UpdateEnds ==
    UpdateCompleteWithResize \/ \E asks \in BOOLEAN : UpdateComplete(asks)
FairSpec == Spec /\ WF_vars(UpdateEnds)

-----------------------------------------------------------------------------
(* What must hold. *)

Told == out.wire \o out.buffer

MovesTo(m1, m2) == m1.kind = "move" /\ m2.kind = "move" /\ m1.mask = m2.mask

Stream == INSTANCE ClientStream WITH stream <- Told, sent <- Len(out.wire)

\* Nothing the client has to say is lost or overtaken, except a movement by
\* the next one (writeBytes:, writeBufferedBytes:, mouseAt:buttons:).
ReachesServer == Stream!Spec

\* Between handlers nothing waits but one movement, and that only while an
\* update is being received.
OnlyAMoveWaits ==
    out.buffer # <<>> => /\ receiving /\ out.lastIsMove
                         /\ Len(out.buffer) = 1 /\ out.buffer[1].kind = "move"

\* bufferLen is the size of what is buffered, and at no moment of a handler
\* was that more than BUFFER_SIZE (writeBufferedBytes:).
BufferFits ==
    ~out.overrun /\ out.len = Len(out.buffer) * Size("move") /\ OnlyAMoveWaits

\* The last pointer message the server gets has the position and the buttons
\* the client believes it to know.
ServerKnowsPointer ==
    \A i \in DOMAIN Told :
        IsPointer(Told[i]) /\ (\A j \in i + 1..Len(Told) : ~IsPointer(Told[j]))
        => Told[i].pos = mouse /\ Told[i].mask = pressed

\* A movement does not wait for ever.
MovesArrive == out.buffer # <<>> ~> out.buffer = <<>> \/ ~open

=============================================================================
