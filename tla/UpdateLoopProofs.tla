-------------------------- MODULE UpdateLoopProofs --------------------------
(***************************************************************************)
(* The safety properties of UpdateLoop, for updates of any length and any   *)
(* number of open requests.                                                 *)
(***************************************************************************)
EXTENDS UpdateLoop, CopyRect, TLAPS

USE BoundAssumption

\* What the properties need to be inductive: rectangles are read only while
\* some are left, only a listed rectangle is painted, and an update answers
\* something only while it is being read.
Reads ==
    /\ reader \in {"rectHeader", "rect"} => numberOfRects > 0
    /\ painted \subseteq invalidRects
    /\ reader = "rect" /\ encoding = "pixels" => numberOfRects \in invalidRects
    /\ reader \in {"type", "message"} => answering = {}

IInv == /\ TypeOK /\ Reads /\ NoStall
        /\ ReceivingIsReading /\ PaintedIsShown /\ BlankIsAskedFor

\* The loop starts in a state of the invariant: start: has asked for everything.
LEMMA InitIInv == Init => IInv
  <1> SUFFICES ASSUME Init PROVE IInv
    OBVIOUS
  <1>1. /\ requests \in Seq(Kinds) /\ requests # <<>>
        /\ 1 \in DOMAIN requests /\ requests[1] = "full"
    BY DEF Init, Kinds
  <1>2. TypeOK
    <2>1. numberOfRects \in 0..MaxRects
      BY DEF Init
    <2>2. invalidRects \subseteq 1..MaxRects /\ painted \subseteq 1..MaxRects
      BY DEF Init
    <2>3. answering \subseteq Kinds
      BY DEF Init
    <2> QED
      BY <1>1, <2>1, <2>2, <2>3 DEF Init, TypeOK, Readers, Encodings, Rates
  <1>3. Reads /\ NoStall /\ ReceivingIsReading /\ PaintedIsShown
    BY DEF Init, Reads, NoStall, ReceivingIsReading, PaintedIsShown
  <1>4. BlankIsAskedFor
    BY <1>1 DEF Init, BlankIsAskedFor
  <1> QED
    BY <1>2, <1>3, <1>4 DEF IInv

-----------------------------------------------------------------------------
(* Asking. *)

Asked(kind, q) == \E j \in DOMAIN q : q[j] = kind

\* Writing a request keeps those that were written before it.
LEMMA AppendRequest ==
  ASSUME NEW q \in Seq(Kinds), NEW kind \in Kinds
  PROVE  /\ Append(q, kind) \in Seq(Kinds) /\ Append(q, kind) # <<>>
         /\ Asked(kind, Append(q, kind))
         /\ \A k \in Kinds : Asked(k, q) => Asked(k, Append(q, kind))
  <1> DEFINE r == Append(q, kind)
  <1>1. r \in Seq(Kinds) /\ Len(r) = Len(q) + 1 /\ r[Len(r)] = kind
    OBVIOUS
  <1>2. \A j \in DOMAIN q : j \in DOMAIN r /\ r[j] = q[j]
    OBVIOUS
  <1>3. Asked(kind, r)
    <2>1. Len(r) \in DOMAIN r
      BY <1>1
    <2> QED
      BY <1>1, <2>1 DEF Asked
  <1>4. r # <<>>
    BY <1>1
  <1> QED
    BY <1>1, <1>2, <1>3, <1>4 DEF Asked

\* Whether a step asks or not, what was asked for stays asked for.
Kept == /\ requests' \in Seq(Kinds) /\ timer' \in BOOLEAN
        /\ requests # <<>> => requests' # <<>>
        /\ Asked("full", requests) => Asked("full", requests')

\* requestFrameBufferUpdate: takes no request back.
LEMMA RequestKeeps ==
  ASSUME TypeOK, RequestFrameBufferUpdate
  PROVE  Kept /\ requests' # <<>>
  <1>1. requests \in Seq(Kinds) /\ "incremental" \in Kinds /\ "full" \in Kinds
    BY DEF TypeOK, Kinds
  <1> QED
    BY <1>1, AppendRequest
    DEF RequestFrameBufferUpdate, RequestUpdate, Kept

\* The request after a resize is one for the whole frame buffer.
LEMMA FullRequestKeeps ==
  ASSUME TypeOK, RequestUpdate("full"), UNCHANGED timer
  PROVE  Kept /\ requests' # <<>> /\ Asked("full", requests')
  <1>1. requests \in Seq(Kinds) /\ "full" \in Kinds /\ timer \in BOOLEAN
    BY DEF TypeOK, Kinds
  <1> QED
    BY <1>1, AppendRequest DEF RequestUpdate, Kept

\* queueUpdateRequest leaves a request or a timer behind.
LEMMA QueueKeeps ==
  ASSUME TypeOK, QueueUpdateRequest
  PROVE  Kept /\ (requests' # <<>> \/ timer')
  <1>1. CASE rate = "delayed"
    BY <1>1 DEF QueueUpdateRequest, Kept, TypeOK
  <1>2. CASE rate # "delayed"
    BY <1>2, RequestKeeps DEF QueueUpdateRequest
  <1> QED
    BY <1>1, <1>2

-----------------------------------------------------------------------------
(* The end of an update and of a rectangle. *)

\* The end of an update, with a resize or without one, keeps the invariant.
LEMMA CompleteStep ==
  ASSUME IInv, Connected,
         NEW painting \in SUBSET invalidRects, NEW resizing \in BOOLEAN,
         UpdateComplete(painting, resizing),
         rate' = rate, encoding' \in Encodings, numberOfRects' \in 0..MaxRects
  PROVE  IInv'
  <1>1. TypeOK
    BY DEF IInv
  <1>2. /\ Kept
        /\ rate # "manual" => requests' # <<>> \/ timer'
        /\ blank' => Asked("full", requests')
        /\ painted' = {} /\ invalidRects' \subseteq 1..MaxRects
        /\ isReceivingUpdate' = FALSE /\ blank' \in BOOLEAN
    <2>1. CASE resizing
      <3>1. RequestUpdate("full") /\ UNCHANGED timer
        BY <2>1 DEF UpdateComplete, CompleteWithResize
      <3>2. Kept /\ requests' # <<>> /\ Asked("full", requests')
        BY <1>1, <3>1, FullRequestKeeps
      <3> QED
        BY <1>1, <2>1, <3>2 DEF UpdateComplete, CompleteWithResize, TypeOK
    <2>2. CASE ~resizing
      <3>1. FrameBufferUpdateComplete /\ painted' = {} /\ invalidRects' = {}
        BY <2>2 DEF UpdateComplete
      <3>2. Kept /\ (rate # "manual" => requests' # <<>> \/ timer')
        <4>1. CASE rate = "manual"
          BY <1>1, <3>1, <4>1 DEF FrameBufferUpdateComplete, Kept, TypeOK
        <4>2. CASE rate # "manual"
          BY <1>1, <3>1, <4>2, QueueKeeps DEF FrameBufferUpdateComplete
        <4> QED
          BY <4>1, <4>2
      <3>3. blank' => Asked("full", requests')
        BY <3>1, <3>2
        DEF FrameBufferUpdateComplete, Kept, IInv, BlankIsAskedFor, Asked
      <3> QED
        BY <1>1, <3>1, <3>2, <3>3 DEF FrameBufferUpdateComplete, TypeOK
    <2> QED
      BY <2>1, <2>2
  <1>3. reader' = "type" /\ answering' = {} /\ shouldResize' = FALSE
    BY DEF UpdateComplete
  <1>4. TypeOK'
    BY <1>1, <1>2, <1>3 DEF TypeOK, Kept, Readers
  <1>5. Reads' /\ ReceivingIsReading' /\ PaintedIsShown'
    BY <1>2, <1>3 DEF Reads, ReceivingIsReading, PaintedIsShown
  <1>6. NoStall'
    BY <1>2, <1>3 DEF NoStall
  <1> QED
    BY <1>2, <1>3, <1>4, <1>5, <1>6 DEF IInv, BlankIsAskedFor, Asked

\* didRect: goes on to the next rectangle or to the end of the update.
LEMMA DidRectStep ==
  ASSUME IInv, reader \in {"rectHeader", "rect"},
         NEW painting \in SUBSET invalidRects, NEW resizing \in BOOLEAN,
         DidRect(painting, resizing)
  PROVE  IInv'
  <1>1. /\ numberOfRects' \in 0..MaxRects /\ rate' = rate
        /\ encoding' = encoding /\ encoding \in Encodings /\ Connected
    BY DEF IInv, TypeOK, Reads, DidRect, Connected
  <1>2. CASE numberOfRects > 1
    <2>1. /\ reader' = "rectHeader" /\ shouldResize' = resizing
          /\ painted' = painting /\ numberOfRects' > 0
          /\ UNCHANGED <<invalidRects, isReceivingUpdate, timer, requests,
                         answering, blank>>
      BY <1>2 DEF DidRect, asking, IInv, TypeOK
    <2>2. TypeOK'
      BY <1>1, <2>1 DEF IInv, TypeOK, Readers
    <2>3. Reads' /\ ReceivingIsReading' /\ PaintedIsShown'
      BY <2>1
      DEF IInv, Reads, ReceivingIsReading, PaintedIsShown
    <2>4. NoStall' /\ BlankIsAskedFor'
      BY <1>1, <2>1 DEF IInv, NoStall, BlankIsAskedFor, Connected
    <2> QED
      BY <2>2, <2>3, <2>4 DEF IInv
  <1>3. CASE ~(numberOfRects > 1)
    <2>1. UpdateComplete(painting, resizing)
      BY <1>3 DEF DidRect
    <2> QED
      BY <1>1, <2>1, CompleteStep
  <1> QED
    BY <1>2, <1>3

\* Closing leaves nothing to be asked, read or shown.
LEMMA CloseStep == IInv /\ Close => IInv'
  <1> SUFFICES ASSUME IInv, Close PROVE IInv'
    OBVIOUS
  <1>1. /\ reader' = "nil" /\ timer' = FALSE /\ isReceivingUpdate' = FALSE
        /\ UNCHANGED <<numberOfRects, shouldResize, invalidRects, painted,
                       encoding, rate, requests, answering, blank>>
    BY DEF Close, frame
  <1>2. TypeOK'
    BY <1>1 DEF IInv, TypeOK, Readers
  <1>3. /\ Reads' /\ NoStall' /\ ReceivingIsReading' /\ PaintedIsShown'
        /\ BlankIsAskedFor'
    BY <1>1 DEF IInv, Reads, NoStall, ReceivingIsReading, PaintedIsShown,
                BlankIsAskedFor, Connected
  <1> QED
    BY <1>2, <1>3 DEF IInv

\* A request from the timer, the user or a new rate.
LEMMA RequestStep ==
  ASSUME IInv, RequestFrameBufferUpdate \/ UNCHANGED <<timer, requests>>,
         rate' \in Rates,
         Connected /\ rate' # "manual" /\ UNCHANGED <<timer, requests>> =>
            rate # "manual",
         UNCHANGED <<reader, frame, isReceivingUpdate, answering, blank>>
  PROVE  IInv'
  <1>1. UNCHANGED <<reader, numberOfRects, shouldResize, invalidRects, painted,
                    encoding, isReceivingUpdate, answering, blank>>
    BY DEF frame
  <1>2. TypeOK
    BY DEF IInv
  <1>3. Kept /\ (requests' # <<>> \/ UNCHANGED <<timer, requests>>)
    <2>1. CASE RequestFrameBufferUpdate
      BY <1>2, <2>1, RequestKeeps
    <2>2. CASE UNCHANGED <<timer, requests>>
      BY <1>2, <2>2 DEF Kept, TypeOK
    <2> QED
      BY <2>1, <2>2
  <1>4. TypeOK'
    BY <1>1, <1>2, <1>3 DEF TypeOK, Kept
  <1>5. Reads' /\ ReceivingIsReading' /\ PaintedIsShown'
    BY <1>1 DEF IInv, Reads, ReceivingIsReading, PaintedIsShown
  <1>6. NoStall'
    BY <1>1, <1>3 DEF IInv, NoStall, Connected
  <1>7. BlankIsAskedFor'
    BY <1>1, <1>3 DEF IInv, BlankIsAskedFor, Kept, Asked, Connected
  <1> QED
    BY <1>4, <1>5, <1>6, <1>7 DEF IInv

-----------------------------------------------------------------------------
(* Reading. *)

\* The server takes its requests from the front; what it answers with a full
\* update it was asked for in full.
LEMMA ReceiveStep ==
  ASSUME IInv, NEW n \in 1..MaxRequests, ReceiveUpdate(n)
  PROVE  IInv'
  <1>1. /\ reader = "type" /\ n <= Len(requests) /\ requests \in Seq(Kinds)
        /\ n \in Nat \ {0}
    BY DEF ReceiveUpdate, IInv, TypeOK
  <1>2. /\ answering' = {requests[j] : j \in 1..n}
        /\ requests' = SubSeq(requests, n + 1, Len(requests))
        /\ reader' = "header" /\ isReceivingUpdate' = TRUE
        /\ UNCHANGED <<numberOfRects, shouldResize, invalidRects, painted,
                       encoding, rate, timer, blank>>
    BY DEF ReceiveUpdate, frame
  <1>3. requests' \in Seq(Kinds) /\ answering' \subseteq Kinds
    BY <1>1, <1>2
  <1>4. TypeOK'
    BY <1>2, <1>3 DEF IInv, TypeOK, Readers
  <1>5. Reads' /\ ReceivingIsReading' /\ PaintedIsShown' /\ NoStall'
    BY <1>1, <1>2
    DEF IInv, Reads, ReceivingIsReading, PaintedIsShown, NoStall
  <1>6. BlankIsAskedFor'
    <2> SUFFICES ASSUME blank
                 PROVE  Asked("full", requests') \/ "full" \in answering'
      BY <1>2 DEF BlankIsAskedFor, Asked
    <2>1. answering = {}
      BY <1>1 DEF IInv, Reads
    <2>2. PICK j \in DOMAIN requests : requests[j] = "full"
      BY <1>1, <2>1 DEF IInv, BlankIsAskedFor, Connected
    <2>3. CASE j <= n
      BY <1>1, <1>2, <2>2, <2>3
    <2>4. CASE j > n
      <3>1. /\ j - n \in DOMAIN requests'
            /\ requests'[j - n] = requests[j]
        BY <1>1, <1>2, <2>2, <2>4
      <3> QED
        BY <2>2, <3>1 DEF Asked
    <2> QED
      BY <1>1, <2>2, <2>3, <2>4
  <1> QED
    BY <1>4, <1>5, <1>6 DEF IInv

\* The other messages of the server have nothing to do with the loop.
LEMMA ReceiveOtherStep == IInv /\ ReceiveOther => IInv'
  <1> SUFFICES ASSUME IInv, ReceiveOther PROVE IInv'
    OBVIOUS
  <1>1. /\ reader \in {"type", "message"} /\ reader' \in {"type", "message"}
        /\ UNCHANGED <<numberOfRects, shouldResize, invalidRects, painted,
                       encoding, isReceivingUpdate, rate, timer, requests,
                       answering, blank>>
    BY DEF ReceiveOther, frame, asking
  <1>2. TypeOK'
    BY <1>1 DEF IInv, TypeOK, Readers
  <1>3. /\ Reads' /\ NoStall' /\ ReceivingIsReading' /\ PaintedIsShown'
        /\ BlankIsAskedFor'
    BY <1>1 DEF IInv, Reads, NoStall, ReceivingIsReading, PaintedIsShown,
                BlankIsAskedFor, Connected
  <1> QED
    BY <1>2, <1>3 DEF IInv

\* setHeader: begins with the first rectangle, or ends an empty update.
LEMMA SetHeaderStep ==
  ASSUME IInv, NEW n \in 0..MaxRects, SetHeader(n)
  PROVE  IInv'
  <1>1. /\ reader = "header" /\ numberOfRects' = n
        /\ rate' = rate /\ encoding' = encoding
    BY DEF SetHeader
  <1>2. CASE n > 0
    <2>1. /\ reader' = "rectHeader"
          /\ UNCHANGED <<shouldResize, invalidRects, painted,
                         isReceivingUpdate, timer, requests, answering, blank>>
      BY <1>2 DEF SetHeader, asking
    <2>2. TypeOK'
      BY <1>1, <2>1 DEF IInv, TypeOK, Readers
    <2>3. /\ Reads' /\ NoStall' /\ ReceivingIsReading' /\ PaintedIsShown'
          /\ BlankIsAskedFor'
      BY <1>1, <1>2, <2>1
      DEF IInv, Reads, NoStall, ReceivingIsReading, PaintedIsShown,
          BlankIsAskedFor, Connected
    <2> QED
      BY <2>2, <2>3 DEF IInv
  <1>3. CASE ~(n > 0)
    <2>1. UpdateComplete(painted, shouldResize)
      BY <1>3 DEF SetHeader
    <2>2. /\ painted \in SUBSET invalidRects /\ shouldResize \in BOOLEAN
          /\ encoding \in Encodings /\ Connected
      BY <1>1 DEF IInv, Reads, TypeOK, Connected
    <2> QED
      BY <1>1, <2>1, <2>2, CompleteStep
  <1> QED
    BY <1>2, <1>3

\* setRect: hands over to the reader of an encoding.
LEMMA ReadRectStep ==
  ASSUME IInv, NEW e \in Encodings, ReadRect(e),
         \/ invalidRects' = invalidRects \cup {numberOfRects}
         \/ e = "pseudo" /\ UNCHANGED invalidRects
  PROVE  IInv'
  <1>1. /\ reader = "rectHeader" /\ reader' = "rect" /\ encoding' = e
        /\ UNCHANGED <<numberOfRects, shouldResize, painted,
                       isReceivingUpdate, rate, timer, requests, answering,
                       blank>>
    BY DEF ReadRect, asking
  <1>2. numberOfRects \in 1..MaxRects
    BY <1>1 DEF IInv, TypeOK, Reads
  <1>3. TypeOK'
    BY <1>1, <1>2 DEF IInv, TypeOK, Readers
  <1>4. /\ Reads' /\ NoStall' /\ ReceivingIsReading' /\ PaintedIsShown'
        /\ BlankIsAskedFor'
    BY <1>1, <1>2
    DEF IInv, Reads, NoStall, ReceivingIsReading, PaintedIsShown,
        BlankIsAskedFor, Connected
  <1> QED
    BY <1>3, <1>4 DEF IInv

-----------------------------------------------------------------------------
\* Every handler keeps the invariant.
LEMMA NextIInv == IInv /\ [Next]_vars => IInv'
  <1> SUFFICES ASSUME IInv, [Next]_vars PROVE IInv'
    OBVIOUS
  <1>0. /\ painted \in SUBSET invalidRects /\ shouldResize \in BOOLEAN
        /\ rate \in Rates
    BY DEF IInv, Reads, TypeOK
  <1>1. CASE UpdateTimer
    BY <1>0, <1>1, RequestStep DEF UpdateTimer, RequestFrameBufferUpdate
  <1>2. CASE Refresh
    BY <1>0, <1>2, RequestStep DEF Refresh
  <1>3. ASSUME NEW new \in Rates, SetFrameBufferUpdateSeconds(new) PROVE IInv'
    <2>1. UNCHANGED <<timer, requests>> /\ rate' # "manual" => rate # "manual"
      <3> SUFFICES ASSUME UNCHANGED <<timer, requests>>, rate' # "manual",
                          rate = "manual"
                   PROVE  FALSE
        OBVIOUS
      <3>1. RequestFrameBufferUpdate
        BY <1>3 DEF SetFrameBufferUpdateSeconds
      <3>2. requests \in Seq(Kinds) /\ requests' = Append(requests, "incremental")
        BY <3>1 DEF RequestFrameBufferUpdate, RequestUpdate, IInv, TypeOK
      <3>3. Len(requests') = Len(requests) + 1 /\ Len(requests) \in Nat
        BY <3>2
      <3> QED
        BY <3>3
    <2> QED
      BY <1>3, <2>1, RequestStep DEF SetFrameBufferUpdateSeconds
  <1>4. ASSUME NEW n \in 1..MaxRequests, ReceiveUpdate(n) PROVE IInv'
    BY <1>4, ReceiveStep
  <1>5. CASE ReceiveOther
    BY <1>5, ReceiveOtherStep
  <1>6. ASSUME NEW n \in 0..MaxRects, SetHeader(n) PROVE IInv'
    BY <1>6, SetHeaderStep
  <1>7. ASSUME NEW e \in {"pixels", "noPixels"}, SetRectPixels(e) PROVE IInv'
    BY <1>7, ReadRectStep DEF SetRectPixels, Encodings
  <1>8. CASE SetRectPseudo
    BY <1>8, ReadRectStep DEF SetRectPseudo, Encodings
  <1>9. CASE SetRectNothing
    BY <1>0, <1>9, DidRectStep DEF SetRectNothing
  <1>10. CASE SetRectLast
    <2>1. Connected /\ encoding' \in Encodings /\ numberOfRects' \in 0..MaxRects
      BY <1>10 DEF SetRectLast, Connected, IInv, TypeOK
    <2> QED
      BY <1>0, <1>10, <2>1, CompleteStep DEF SetRectLast
  <1>11. CASE SetRectDesktopSize
    BY <1>0, <1>11, DidRectStep DEF SetRectDesktopSize
  <1>12. CASE RectRead
    <2> DEFINE p == IF encoding = "pixels" THEN painted \cup {numberOfRects}
                                           ELSE painted
    <2>1. p \in SUBSET invalidRects
      BY <1>0, <1>12 DEF RectRead, IInv, Reads
    <2> QED
      BY <1>0, <1>12, <2>1, DidRectStep DEF RectRead
  <1>13. CASE EmptyRectRead \/ Fail
    BY <1>13, CloseStep DEF EmptyRectRead, Fail
  <1>14. CASE UNCHANGED vars
    BY <1>14 DEF vars, IInv, TypeOK, Reads, NoStall, ReceivingIsReading,
                 PaintedIsShown, BlankIsAskedFor, Connected
  <1> QED
    BY <1>1, <1>2, <1>3, <1>4, <1>5, <1>6, <1>7, <1>8, <1>9, <1>10, <1>11,
       <1>12, <1>13, <1>14 DEF Next

\* So it always holds.
LEMMA Invariance == Spec => []IInv
  BY InitIInv, NextIInv, PTL DEF Spec

\* Every value the code stores is of its type.
THEOREM TypeCorrect == Spec => []TypeOK
  <1>1. IInv => TypeOK
    BY DEF IInv
  <1> QED
    BY <1>1, Invariance, PTL

\* The update loop never stops by itself: queueUpdateRequest is reached after
\* every update, and setFrameBufferUpdateSeconds: starts the loop again.
THEOREM LoopGoesOn == Spec => []NoStall
  <1>1. IInv => NoStall
    BY DEF IInv
  <1> QED
    BY <1>1, Invariance, PTL

\* The state of the protocol agrees with the reader, and what an update has
\* painted is redrawn by its end.
THEOREM ReadingIsSound == Spec => [](ReceivingIsReading /\ PaintedIsShown)
  <1>1. IInv => ReceivingIsReading /\ PaintedIsShown
    BY DEF IInv
  <1> QED
    BY <1>1, Invariance, PTL

\* However the resizes, requests and updates overlap, a new frame buffer is
\* asked for in full until it is filled.
THEOREM BlankGetsFilled == Spec => []BlankIsAskedFor
  <1>1. IInv => BlankIsAskedFor
    BY DEF IInv
  <1> QED
    BY <1>1, Invariance, PTL


-----------------------------------------------------------------------------
(* A rectangle of an update may move a part of the picture.  The loop of     *)
(* copyRect:to: does that as if it took all of the part up before it put it   *)
(* down, for frame buffers, rectangles and places of any size.  The invariant *)
(* says how far the loop has come: which cells of the target it has filled,   *)
(* and where its pointers are.                                                *)

\* The column, counted within the rectangle, that is copied after k others;
\* and the number of columns copied before column k.
NthColumn(k) == IF Forwards(from.x, to.x) THEN k ELSE from.w - 1 - k
NthRow(k) == IF Forwards(from.y, to.y) THEN k ELSE from.h - 1 - k

DoneRows == from.h - lines
DonePixels == from.w - i

\* Cell a of the target has been filled.
Filled(a) ==
    /\ Inside(a, Target)
    /\ \/ NthRow(Row(a) - to.y) < DoneRows
       \/ /\ NthRow(Row(a) - to.y) = DoneRows
          /\ NthColumn(Column(a) - to.x) < DonePixels

Source(a) == a + (from.y - to.y) * Width + from.x - to.x

Fits ==
    /\ from.w \in 1..Width /\ from.x \in 0..Width - from.w /\ to.x \in 0..Width - from.w
    /\ from.h \in 1..Height /\ from.y \in 0..Height - from.h /\ to.y \in 0..Height - from.h

AtWork ==
    /\ lines \in 1..from.h /\ i \in 1..from.w
    /\ src = (from.y + NthRow(DoneRows)) * Width + from.x + NthColumn(DonePixels)
    /\ dst = (to.y + NthRow(DoneRows)) * Width + to.x + NthColumn(DonePixels)
    /\ \A a \in Cells : pixels[a] = IF Filled(a) THEN before[Source(a)] ELSE before[a]

Memory == pixels \in [Cells -> Pixel] /\ before \in [Cells -> Pixel]

CopyInv ==
    /\ Memory
    /\ from \in [x: Nat, y: Nat, w: Nat, h: Nat] /\ to \in [x: Nat, y: Nat]
    /\ lines \in Nat
    /\ lines > 0 => Fits /\ AtWork

-----------------------------------------------------------------------------
(* Addresses. *)

LEMMA Address ==
    ASSUME NEW x \in 0..Width - 1, NEW y \in 0..Height - 1
    PROVE  /\ y * Width + x \in Cells
           /\ Column(y * Width + x) = x /\ Row(y * Width + x) = y
<1>1. Width \in Nat /\ Height \in Nat /\ Width > 0
  BY SizeAssumption
<1>2. (y * Width + x) % Width = x /\ (y * Width + x) \div Width = y
  BY <1>1, SMT
<1>3. PICK d \in Nat : Height = y + 1 + d
  <2>1. Height - 1 - y \in Nat /\ Height = y + 1 + (Height - 1 - y)
    BY <1>1
  <2> QED BY <2>1
<1>4. Width * Height = y * Width + Width + d * Width /\ d * Width \in Nat
  BY <1>1, <1>3
<1>5. y * Width \in Nat
  BY <1>1
<1> QED BY <1>1, <1>2, <1>4, <1>5 DEF Cells, Column, Row

LEMMA Coordinates ==
    ASSUME NEW a \in Cells
    PROVE  /\ Width > 0
           /\ Column(a) \in 0..Width - 1 /\ Row(a) \in 0..Height - 1
           /\ a = Row(a) * Width + Column(a)
<1>1. Width \in Nat /\ Height \in Nat /\ a \in Nat /\ a < Width * Height
  BY SizeAssumption DEF Cells
<1>2. Width > 0
  BY <1>1
<1>3. (a % Width) \in 0..Width - 1 /\ (a \div Width) \in Nat
      /\ a = (a \div Width) * Width + (a % Width)
  BY <1>1, <1>2, SMT
<1>4. (a \div Width) < Height
  <2> SUFFICES ASSUME (a \div Width) >= Height PROVE FALSE
    BY <1>1, <1>3
  <2>1. PICK d \in Nat : (a \div Width) = Height + d
    <3>1. (a \div Width) - Height \in Nat /\ (a \div Width) = Height + ((a \div Width) - Height)
      BY <1>1, <1>3
    <3> QED BY <3>1
  <2>2. (a \div Width) * Width = Width * Height + d * Width /\ d * Width \in Nat
    BY <1>1, <2>1
  <2> QED BY <1>1, <1>3, <2>2
<1> QED BY <1>1, <1>2, <1>3, <1>4 DEF Column, Row

-----------------------------------------------------------------------------
(* One step of the loop.  cx and cy are the column and the row, within the     *)
(* rectangle, of the pixel that is copied.                                  *)

\* The pixel's two places are cells of the memory, in the rectangle's column
\* and row, and its new place is in the target.
LEMMA Places ==
    ASSUME CopyInv, lines > 0
    PROVE  LET cx == NthColumn(DonePixels)
               cy == NthRow(DoneRows)
           IN /\ cx \in 0..from.w - 1 /\ cy \in 0..from.h - 1
              /\ src \in Cells /\ Row(src) = from.y + cy /\ Column(src) = from.x + cx
              /\ dst \in Cells /\ Row(dst) = to.y + cy /\ Column(dst) = to.x + cx
              /\ Source(dst) = src
<1> DEFINE cx == NthColumn(DonePixels)
           cy == NthRow(DoneRows)
<1>1. /\ Width \in Nat /\ Height \in Nat
      /\ from.x \in Nat /\ from.y \in Nat /\ from.w \in Nat /\ from.h \in Nat
      /\ to.x \in Nat /\ to.y \in Nat /\ Fits
      /\ lines \in 1..from.h /\ i \in 1..from.w
  BY SizeAssumption DEF CopyInv, AtWork
<1>2. cx \in 0..from.w - 1 /\ cy \in 0..from.h - 1
  BY <1>1 DEF NthColumn, NthRow, DonePixels, DoneRows
<1>3. /\ src = (from.y + cy) * Width + (from.x + cx)
      /\ dst = (to.y + cy) * Width + (to.x + cx)
  <2> HIDE DEF cx, cy
  <2>1. /\ src = (from.y + cy) * Width + from.x + cx
        /\ dst = (to.y + cy) * Width + to.x + cx
    BY DEF CopyInv, AtWork, cx, cy
  <2>2. (from.y + cy) * Width \in Int /\ (to.y + cy) * Width \in Int
    BY <1>1, <1>2
  <2> QED BY <1>1, <1>2, <2>1, <2>2
<1> HIDE DEF cx, cy
<1>4. /\ from.y + cy \in 0..Height - 1 /\ from.x + cx \in 0..Width - 1
      /\ to.y + cy \in 0..Height - 1 /\ to.x + cx \in 0..Width - 1
  BY <1>1, <1>2 DEF Fits
<1>5. src \in Cells /\ Row(src) = from.y + cy /\ Column(src) = from.x + cx
  BY <1>3, <1>4, Address
<1>6. dst \in Cells /\ Row(dst) = to.y + cy /\ Column(dst) = to.x + cx
  BY <1>3, <1>4, Address
<1>7. Source(dst) = src
  BY <1>1, <1>2, <1>3 DEF Source
<1> QED BY <1>2, <1>5, <1>6, <1>7 DEF cx, cy

\* What is read was not yet written: if the two places overlap, the loop goes in
\* the direction in which it leaves the target behind.
LEMMA NotYetFilled ==
    ASSUME CopyInv, lines > 0
    PROVE  ~Filled(src)
<1>1. /\ from.x \in Nat /\ from.y \in Nat /\ from.w \in Nat /\ from.h \in Nat
      /\ to.x \in Nat /\ to.y \in Nat
      /\ lines \in 1..from.h /\ i \in 1..from.w
  BY DEF CopyInv, AtWork
<1>2. /\ Row(src) = from.y + NthRow(DoneRows)
      /\ Column(src) = from.x + NthColumn(DonePixels)
  BY Places
<1>3. ~(NthRow(Row(src) - to.y) < DoneRows)
  BY <1>1, <1>2 DEF NthRow, Forwards, DoneRows
<1>4. ~(NthColumn(Column(src) - to.x) < DonePixels)
  BY <1>1, <1>2 DEF NthColumn, Forwards, DonePixels
<1> QED BY <1>3, <1>4 DEF Filled

\* A step fills the pixel's new place, and nothing else.
LEMMA Fills ==
    ASSUME CopyInv, lines > 0, CopyPixel, NEW a \in Cells
    PROVE  Filled(a)' <=> Filled(a) \/ a = dst
<1>1. /\ from.x \in Nat /\ from.y \in Nat /\ from.w \in Nat /\ from.h \in Nat
      /\ to.x \in Nat /\ to.y \in Nat
      /\ lines \in 1..from.h /\ i \in 1..from.w /\ Width \in Nat
  BY SizeAssumption DEF CopyInv, AtWork
<1>2. from' = from /\ to' = to
  BY DEF CopyPixel
<1>3. Row(a) \in Int /\ Column(a) \in Int /\ a = Row(a) * Width + Column(a)
  BY Coordinates
<1>4. /\ NthColumn(DonePixels) \in Int /\ NthRow(DoneRows) \in Int
      /\ Row(dst) = to.y + NthRow(DoneRows) /\ Column(dst) = to.x + NthColumn(DonePixels)
      /\ dst = Row(dst) * Width + Column(dst)
      /\ Inside(dst, Target)
  <2>1. dst \in Cells
    BY Places
  <2>2. Target = [from EXCEPT !.x = to.x, !.y = to.y]
        /\ Target.x = to.x /\ Target.y = to.y /\ Target.w = from.w /\ Target.h = from.h
    BY DEF Target, CopyInv
  <2>3. /\ NthColumn(DonePixels) \in 0..from.w - 1 /\ NthRow(DoneRows) \in 0..from.h - 1
        /\ Row(dst) = to.y + NthRow(DoneRows) /\ Column(dst) = to.x + NthColumn(DonePixels)
    BY Places
  <2>4. Inside(dst, Target)
    BY <1>1, <2>2, <2>3 DEF Inside
  <2> QED BY <1>1, <2>1, <2>3, <2>4, Coordinates
<1> DEFINE y == Row(a) - to.y
           x == Column(a) - to.x
           In == Inside(a, Target)
<1>5. a = dst <=> y = NthRow(DoneRows) /\ x = NthColumn(DonePixels)
  BY <1>1, <1>3, <1>4
<1>6. In => x \in 0..from.w - 1 /\ y \in 0..from.h - 1
  BY <1>1, <1>3 DEF Inside, Target, CopyInv
<1>7. /\ Filled(a) <=> In /\ (NthRow(y) < DoneRows
                             \/ (NthRow(y) = DoneRows /\ NthColumn(x) < DonePixels))
      /\ Filled(a)' <=> In /\ (NthRow(y) < DoneRows'
                              \/ (NthRow(y) = DoneRows' /\ NthColumn(x) < DonePixels'))
  BY <1>2 DEF Filled, NthRow, NthColumn, Inside, Target
<1>8. a = dst => In
  BY <1>4
<1>9. /\ y = NthRow(DoneRows) <=> NthRow(y) = DoneRows
      /\ x = NthColumn(DonePixels) <=> NthColumn(x) = DonePixels
      /\ NthRow(y) \in Int /\ NthColumn(x) \in Int
      /\ In => NthColumn(x) < from.w
  BY <1>1, <1>3, <1>6 DEF NthRow, NthColumn, DoneRows, DonePixels
<1>10. CASE i > 1
  <2>1. DoneRows' = DoneRows /\ DonePixels' = DonePixels + 1
    BY <1>1, <1>2, <1>10 DEF CopyPixel, DoneRows, DonePixels
  <2>2. DonePixels \in Int
    BY <1>1 DEF DonePixels
  <2> HIDE DEF y, x, In
  <2> QED BY <1>5, <1>7, <1>8, <1>9, <2>1, <2>2
<1>11. CASE i = 1
  <2>1. DoneRows' = DoneRows + 1 /\ DonePixels' = 0 /\ DonePixels = from.w - 1
    BY <1>1, <1>2, <1>11 DEF CopyPixel, DoneRows, DonePixels
  <2>2. DoneRows \in Int
    BY <1>1 DEF DoneRows
  <2>3. In => NthColumn(x) \in 0..from.w - 1
    BY <1>1, <1>3, <1>6 DEF NthColumn
  <2> HIDE DEF y, x, In
  <2> QED BY <1>1, <1>5, <1>7, <1>8, <1>9, <2>1, <2>2, <2>3
<1> QED BY <1>1, <1>10, <1>11

-----------------------------------------------------------------------------
(* The loop. *)

\* Begun, the loop has filled nothing, and its pointers are at the first pixel.
LEMMA Begins ==
    ASSUME CopyInv, NEW r \in [x: Nat, y: Nat, w: Nat, h: Nat],
           NEW p \in [x: Nat, y: Nat], CopyRect(r, p)
    PROVE  CopyInv'
<1>1. /\ from' = r /\ to' = p /\ before' = pixels /\ pixels' = pixels
      /\ src' = Start(r.x, r.y, r, p) /\ dst' = Start(p.x, p.y, r, p)
      /\ i' = r.w /\ lines' \in Nat
      /\ lines' > 0 => lines' = r.h /\ r.w # 0 /\ ~Outside(r)
                       /\ ~Outside([r EXCEPT !.x = p.x, !.y = p.y])
  BY DEF CopyRect
<1>2. /\ Width \in Nat /\ Height \in Nat
      /\ r.x \in Nat /\ r.y \in Nat /\ r.w \in Nat /\ r.h \in Nat
      /\ p.x \in Nat /\ p.y \in Nat
  BY SizeAssumption
<1>3. Memory'
  BY <1>1 DEF CopyInv, Memory
<1>4. ASSUME lines' > 0 PROVE Fits' /\ AtWork'
  <2>1. lines' = r.h /\ r.w > 0 /\ r.h > 0
        /\ r.x + r.w <= Width /\ r.y + r.h <= Height
        /\ p.x + r.w <= Width /\ p.y + r.h <= Height
    BY <1>1, <1>2, <1>4 DEF Outside
  <2>2. Fits'
    BY <1>1, <1>2, <2>1 DEF Fits
  <2>3. lines' \in 1..from'.h /\ i' \in 1..from'.w /\ DoneRows' = 0 /\ DonePixels' = 0
    BY <1>1, <1>2, <2>1 DEF DoneRows, DonePixels
  <2>4. /\ NthRow(DoneRows)' = IF Forwards(r.y, p.y) THEN 0 ELSE r.h - 1
        /\ NthColumn(DonePixels)' = IF Forwards(r.x, p.x) THEN 0 ELSE r.w - 1
    BY <1>1, <1>2, <2>3 DEF NthRow, NthColumn
  <2>5. /\ src' = ((from.y + NthRow(DoneRows)) * Width + from.x + NthColumn(DonePixels))'
        /\ dst' = ((to.y + NthRow(DoneRows)) * Width + to.x + NthColumn(DonePixels))'
    BY <1>1, <1>2, <2>4 DEF Start
  <2>6. ASSUME NEW a \in Cells PROVE ~Filled(a)'
    <3>1. Row(a) \in Int /\ Column(a) \in Int
      BY Coordinates
    <3>2. Inside(a, Target)' => Row(a) - p.y \in 0..r.h - 1 /\ Column(a) - p.x \in 0..r.w - 1
      BY <1>1, <1>2, <3>1 DEF Inside, Target
    <3>3. Inside(a, Target)' => /\ NthRow(Row(a) - to.y)' \in 0..r.h - 1
                               /\ NthColumn(Column(a) - to.x)' \in 0..r.w - 1
      BY <1>1, <1>2, <3>1, <3>2 DEF NthRow, NthColumn
    <3> QED BY <1>2, <2>3, <3>3 DEF Filled
  <2>7. \A a \in Cells : pixels'[a] = IF Filled(a)' THEN before'[Source(a)'] ELSE before'[a]
    BY <1>1, <2>6
  <2> QED BY <2>2, <2>3, <2>5, <2>7 DEF AtWork
<1>5. from' \in [x: Nat, y: Nat, w: Nat, h: Nat] /\ to' \in [x: Nat, y: Nat]
  BY <1>1
<1> QED BY <1>1, <1>3, <1>4, <1>5 DEF CopyInv

\* After a step every cell is what the invariant says of it.
LEMMA Writes ==
    ASSUME CopyInv, lines > 0, CopyPixel
    PROVE  /\ pixels' \in [Cells -> Pixel] /\ before' = before
           /\ \A a \in Cells :
                pixels'[a] = IF Filled(a)' THEN before[Source(a)] ELSE before[a]
<1>1. pixels \in [Cells -> Pixel] /\ src \in Cells /\ dst \in Cells /\ Source(dst) = src
  BY Places DEF CopyInv, Memory
<1>2. pixels' = [pixels EXCEPT ![dst] = pixels[src]] /\ before' = before
  BY DEF CopyPixel
<1>3. \A a \in Cells : pixels[a] = IF Filled(a) THEN before[Source(a)] ELSE before[a]
  BY DEF CopyInv, AtWork
<1>4. pixels[src] = before[src]
  BY <1>1, <1>3, NotYetFilled
<1>5. ASSUME NEW a \in Cells
      PROVE  pixels'[a] = IF Filled(a)' THEN before[Source(a)] ELSE before[a]
  <2>1. Filled(a)' <=> Filled(a) \/ a = dst
    BY Fills
  <2>2. CASE a = dst
    BY <1>1, <1>2, <1>4, <2>1, <2>2
  <2>3. CASE a # dst
    BY <1>1, <1>2, <1>3, <2>1, <2>3
  <2> QED BY <2>2, <2>3
<1>6. pixels' \in [Cells -> Pixel]
  BY <1>1, <1>2
<1> QED BY <1>2, <1>5, <1>6

\* One row further is a width further.
LEMMA NextRow ==
    ASSUME NEW W \in Int, NEW y \in Int, NEW way \in {1, -1}
    PROVE  /\ y * W \in Int /\ way * W \in Int
           /\ (y + way) * W = y * W + way * W
<1>1. CASE way = 1
  BY <1>1
<1>2. CASE way = -1
  BY <1>2
<1> QED BY <1>1, <1>2

\* The pointers advance in the row, and from the end of one row to the next.
LEMMA Advances ==
    ASSUME CopyInv, lines > 0, CopyPixel, lines' > 0
    PROVE  /\ lines' \in 1..from.h /\ i' \in 1..from.w
           /\ src' = ((from.y + NthRow(DoneRows)) * Width + from.x + NthColumn(DonePixels))'
           /\ dst' = ((to.y + NthRow(DoneRows)) * Width + to.x + NthColumn(DonePixels))'
<1>1. /\ from.x \in Nat /\ from.y \in Nat /\ from.w \in Nat /\ from.h \in Nat
      /\ to.x \in Nat /\ to.y \in Nat
      /\ lines \in 1..from.h /\ i \in 1..from.w /\ Width \in Nat
  BY SizeAssumption DEF CopyInv, AtWork
<1>2. from' = from /\ to' = to
  BY DEF CopyPixel
<1> DEFINE row == NthRow(DoneRows)
           column == NthColumn(DonePixels)
<1>3. /\ row \in Int /\ column \in Int
      /\ src = (from.y + row) * Width + from.x + column
      /\ dst = (to.y + row) * Width + to.x + column
  BY Places DEF CopyInv, AtWork
<1>4. CASE i > 1
  <2>1. /\ src' = src + LineStep /\ dst' = dst + LineStep
        /\ i' = i - 1 /\ lines' = lines
    BY <1>4 DEF CopyPixel
  <2>2. row' = row /\ column' = column + LineStep /\ LineStep \in Int
    BY <1>1, <1>2, <2>1
       DEF NthRow, NthColumn, DoneRows, DonePixels, LineStep, Forwards
  <2> HIDE DEF row, column
  <2>3. src' = (from.y + row') * Width + from.x + column'
        /\ dst' = (to.y + row') * Width + to.x + column'
    BY <1>1, <1>3, <2>1, <2>2
  <2> QED BY <1>1, <1>2, <1>4, <2>1, <2>3 DEF row, column
<1>5. CASE i = 1
  <2>1. /\ src' = src + LineStep + Stride /\ dst' = dst + LineStep + Stride
        /\ i' = from.w /\ lines' = lines - 1
    BY <1>1, <1>5 DEF CopyPixel
  <2> DEFINE way == IF Forwards(from.y, to.y) THEN 1 ELSE -1
  <2>2. row' = row + way
    BY <1>1, <1>2, <2>1 DEF NthRow, DoneRows
  <2>3. LineStep + Stride + column = way * Width + column'
    BY <1>1, <1>2, <1>5, <2>1 DEF NthColumn, DonePixels, LineStep, Stride
  <2>4. LineStep \in Int /\ Stride \in Int /\ column' \in Int
    BY <1>1, <1>2, <1>5, <2>1 DEF NthColumn, DonePixels, LineStep, Stride
  <2>5. way \in {1, -1}
    OBVIOUS
  <2> HIDE DEF row, column, way
  <2>6. src' = (from.y + row') * Width + from.x + column'
        /\ dst' = (to.y + row') * Width + to.x + column'
    <3>1. /\ Width \in Int /\ from.x \in Int /\ to.x \in Int
          /\ from.y + row \in Int /\ to.y + row \in Int
          /\ from.y + row' = (from.y + row) + way /\ to.y + row' = (to.y + row) + way
      <4>1. /\ way \in Int /\ row \in Int /\ from.y \in Int /\ to.y \in Int
            /\ Width \in Int /\ from.x \in Int /\ to.x \in Int
        BY <1>1, <1>3, <2>5
      <4>2. /\ from.y + (row + way) = (from.y + row) + way
            /\ to.y + (row + way) = (to.y + row) + way
        BY <4>1
      <4> QED BY <2>2, <4>1, <4>2
    <3>2. /\ (from.y + row) * Width \in Int /\ (to.y + row) * Width \in Int
          /\ way * Width \in Int
          /\ ((from.y + row) + way) * Width = (from.y + row) * Width + way * Width
          /\ ((to.y + row) + way) * Width = (to.y + row) * Width + way * Width
      BY <2>5, <3>1, NextRow
    <3> DEFINE p == (from.y + row) * Width
               q == (to.y + row) * Width
               n == way * Width
    <3>3. /\ (from.y + row') * Width = p + n /\ (to.y + row') * Width = q + n
          /\ src = p + from.x + column /\ dst = q + to.x + column
          /\ LineStep + Stride + column = n + column'
          /\ p \in Int /\ q \in Int /\ n \in Int
      BY <1>3, <2>3, <3>1, <3>2
    <3>4. column \in Int
      BY <1>3
    <3> HIDE DEF p, q, n
    <3>5. /\ src + LineStep + Stride = p + n + from.x + column'
          /\ dst + LineStep + Stride = q + n + to.x + column'
      <4>1. LineStep \in Int /\ Stride \in Int /\ column' \in Int /\ column \in Int
        BY <2>4, <3>4
      <4>2. p \in Int /\ q \in Int /\ n \in Int /\ from.x \in Int /\ to.x \in Int
        BY <3>1, <3>3
      <4>3. PICK k \in Int, step \in Int, stride \in Int, next \in Int, down \in Int :
               /\ k = column /\ step = LineStep /\ stride = Stride
               /\ next = column' /\ down = n
        BY <4>1, <4>2
      <4>4. PICK a \in Int, b \in Int, x \in Int, y \in Int :
               a = p /\ b = q /\ x = from.x /\ y = to.x
        BY <4>2
      <4>5. step + stride + k = down + next
        BY <3>3, <4>3
      <4>6. /\ a + x + k + step + stride = a + down + x + next
            /\ b + y + k + step + stride = b + down + y + next
        BY <4>5
      <4> QED BY <3>3, <4>3, <4>4, <4>6
    <3> QED BY <2>1, <3>3, <3>5
  <2> QED BY <1>1, <1>2, <2>1, <2>6 DEF row, column
<1> QED BY <1>1, <1>4, <1>5

\* When the last row is copied, the target is full.
LEMMA Ends ==
    ASSUME CopyInv, lines > 0, CopyPixel, lines' = 0
    PROVE  pixels' = Moved
<1>1. /\ from.w \in Nat /\ from.h \in Nat /\ to.x \in Nat /\ to.y \in Nat
      /\ from' = from /\ to' = to
  BY DEF CopyInv, CopyPixel
<1>2. ASSUME NEW a \in Cells PROVE Filled(a)' <=> Inside(a, Target)
  <2>1. Row(a) \in Int /\ Column(a) \in Int
    BY Coordinates
  <2>2. Inside(a, Target) => Row(a) - to.y \in 0..from.h - 1
    BY <1>1, <2>1 DEF Inside, Target, CopyInv
  <2>3. Inside(a, Target) => NthRow(Row(a) - to.y) < from.h
    BY <1>1, <2>1, <2>2 DEF NthRow
  <2>4. DoneRows' = from.h
    BY <1>1 DEF DoneRows
  <2> QED BY <1>1, <2>3, <2>4 DEF Filled, NthRow, Inside, Target
<1>3. \A a \in Cells : pixels'[a] = Moved[a]
  BY <1>2, Writes DEF Moved, Source
<1> QED BY <1>3, Writes DEF Moved

LEMMA Step ==
    ASSUME CopyInv, [CopyNext]_copyVars
    PROVE  CopyInv'
<1>1. CASE CopyPixel
  <2>1. /\ lines > 0 /\ from' = from /\ to' = to
        /\ from' \in [x: Nat, y: Nat, w: Nat, h: Nat] /\ to' \in [x: Nat, y: Nat]
    BY <1>1 DEF CopyPixel, CopyInv
  <2>2. lines' \in Nat
    BY <1>1, <2>1 DEF CopyPixel, CopyInv
  <2>3. Memory'
    BY <1>1, <2>1, Writes DEF CopyInv, Memory
  <2>4. \A a \in Cells :
          pixels'[a] = IF Filled(a)' THEN before'[Source(a)'] ELSE before'[a]
    BY <1>1, <2>1, Writes DEF Source
  <2>5. Fits'
    BY <2>1 DEF Fits, CopyInv
  <2>6. lines' > 0 => AtWork'
    BY <1>1, <2>1, <2>4, Advances DEF AtWork
  <2> QED BY <2>1, <2>2, <2>3, <2>5, <2>6 DEF CopyInv
<1>2. CASE Draw
  BY <1>2 DEF Draw, CopyInv, Memory
<1>3. CASE \E r \in [x: Nat, y: Nat, w: Nat, h: Nat], p \in [x: Nat, y: Nat] :
             CopyRect(r, p)
  BY <1>3, Begins
<1>4. CASE UNCHANGED copyVars
  <2>1. /\ pixels' = pixels /\ from' = from /\ to' = to /\ before' = before
        /\ lines' = lines /\ i' = i /\ src' = src /\ dst' = dst
    BY <1>4 DEF copyVars
  <2>2. Memory' /\ (Fits <=> Fits')
    BY <2>1 DEF CopyInv, Memory, Fits
  <2>3. AtWork <=> AtWork'
    BY <2>1 DEF AtWork, Filled, Source, NthRow, NthColumn, DoneRows, DonePixels,
                Inside, Target
  <2> QED BY <2>1, <2>2, <2>3 DEF CopyInv
<1> QED BY <1>1, <1>2, <1>3, <1>4 DEF CopyNext

\* How far the loop has come, for frame buffers of every size.
THEOREM HowFarItIs == CopySpec => []CopyInv
<1>1. CopyInit => CopyInv
  BY DEF CopyInit, CopyInv, Memory
<1>2. CopyInv /\ [CopyNext]_copyVars => CopyInv'
  BY Step
<1> QED BY <1>1, <1>2, PTL DEF CopySpec

\* copyRect:to: copies as if the two places did not overlap, wherever they are in
\* a frame buffer of any size: its choice of direction is right in every case.
THEOREM CopyRectIsExact == CopySpec => CopyIsExact
<1>1. CopyInv /\ [CopyNext]_copyVars
        => [lines > 0 /\ lines' = 0 => pixels' = Moved]_copyVars
  <2> SUFFICES ASSUME CopyInv, CopyNext, lines > 0, lines' = 0
               PROVE  pixels' = Moved
    OBVIOUS
  <2>1. CASE CopyPixel
    BY <2>1, Ends
  <2>2. lines \in Nat /\ lines # 0
    BY DEF CopyInv
  <2>3. ~Draw
    BY <2>2 DEF Draw
  <2>4. \A r, p : ~CopyRect(r, p)
    BY <2>2 DEF CopyRect
  <2> QED BY <2>1, <2>3, <2>4 DEF CopyNext
<1> QED BY <1>1, HowFarItIs, PTL DEF CopySpec, CopyIsExact
=============================================================================
