------------------------------ MODULE UpdateLoop ------------------------------
(***************************************************************************)
(* The conversation of a started connection: RFBProtocol reads the type of  *)
(* each message of the server, FrameBufferUpdateReader reads an update      *)
(* rectangle by rectangle, and RFBConnection asks for the next update, at   *)
(* once, after a delay, or only when the user says so.                      *)
(*                                                                         *)
(* Each action is one call of a reader's target from readData:, one timer   *)
(* or one message of the user interface; all run on the main thread.  The   *)
(* server answers the requests in the order they were written.              *)
(***************************************************************************)
EXTENDS Integers, Sequences

CONSTANTS MaxRects,     \* bound on the rectangles of an update
          MaxRequests   \* bound on the requests the server has not answered

ASSUME BoundAssumption == MaxRects \in Nat /\ MaxRequests \in Nat

VARIABLES
    reader,             \* currentReader: what the next bytes are
    numberOfRects,      \* rectangles of the update still to be read
    shouldResize,       \* the update contained a DesktopSize
    invalidRects,       \* the rectangles to be redrawn after the update,
    painted,            \*   and those painted in the frame buffer only
    encoding,           \* what the rectangle being read holds
    isReceivingUpdate,
    rate,               \* _frameBufferUpdateSeconds: 0, more, or manual
    timer,              \* _frameUpdateTimer # nil
    requests,           \* requests written and not answered
    answering,          \* the requests the update being read answers
    blank               \* the frame buffer is new and was not filled yet

vars == <<reader, numberOfRects, shouldResize, invalidRects, painted,
          encoding, isReceivingUpdate, rate, timer, requests, answering,
          blank>>

frame == <<numberOfRects, shouldResize, invalidRects, painted, encoding>>
asking == <<timer, requests, answering, blank>>

Readers == {"type", "message", "header", "rectHeader", "rect", "nil"}
Rates == {"immediate", "delayed", "manual"}
Kinds == {"full", "incremental"}

Encodings == {"pixels", "noPixels", "pseudo"}

Connected == reader # "nil"

TypeOK ==
    /\ reader \in Readers
    /\ numberOfRects \in 0..MaxRects
    /\ shouldResize \in BOOLEAN /\ encoding \in Encodings
    /\ invalidRects \subseteq 1..MaxRects /\ painted \subseteq 1..MaxRects
    /\ isReceivingUpdate \in BOOLEAN
    /\ rate \in Rates /\ timer \in BOOLEAN
    /\ requests \in Seq(Kinds) /\ answering \subseteq Kinds
    /\ blank \in BOOLEAN

\* start: has made a frame buffer and asked for all of it.
Init ==
    /\ reader = "type" /\ numberOfRects = 0 /\ shouldResize = FALSE
    /\ invalidRects = {} /\ painted = {} /\ encoding = "pseudo"
    /\ isReceivingUpdate = FALSE
    /\ rate \in Rates /\ timer = FALSE
    /\ requests = <<"full">> /\ answering = {} /\ blank = TRUE

-----------------------------------------------------------------------------
(* Asking. *)

RequestUpdate(kind) == requests' = Append(requests, kind)

\* requestFrameBufferUpdate: from the timer, the menu and the code itself.
RequestFrameBufferUpdate == timer' = FALSE /\ RequestUpdate("incremental")

\* Mutant: a delayed request that finds no timer is taken for set.
QueueUpdateRequestMutant ==
    IF rate = "delayed"
    THEN UNCHANGED <<timer, requests>>
    ELSE RequestFrameBufferUpdate

QueueUpdateRequest ==
    IF rate = "delayed"
    THEN timer' = TRUE /\ UNCHANGED requests
    ELSE RequestFrameBufferUpdate

UpdateTimer ==
    /\ timer
    /\ RequestFrameBufferUpdate
    /\ UNCHANGED <<reader, frame, isReceivingUpdate, rate, answering, blank>>

\* The user asks for an update.
Refresh ==
    /\ Connected /\ Len(requests) < MaxRequests
    /\ RequestFrameBufferUpdate
    /\ UNCHANGED <<reader, frame, isReceivingUpdate, rate, answering, blank>>

\* Mutant: the change back from manual does not ask.
SetFrameBufferUpdateSecondsMutant(new) ==
    /\ Connected /\ Len(requests) < MaxRequests
    /\ rate' = new
    /\ UNCHANGED <<timer, requests>>
    /\ UNCHANGED <<reader, frame, isReceivingUpdate, answering, blank>>

\* As the window becomes or resigns key, and from the preferences.
SetFrameBufferUpdateSeconds(new) ==
    /\ Connected /\ Len(requests) < MaxRequests
    /\ rate' = new
    /\ IF rate = "manual" /\ new # "manual"
       THEN RequestFrameBufferUpdate
       ELSE UNCHANGED <<timer, requests>>
    /\ UNCHANGED <<reader, frame, isReceivingUpdate, answering, blank>>

-----------------------------------------------------------------------------
(* The end of an update. *)

\* terminateConnection: and the session's answer to it, closeConnection.
Close == /\ reader' = "nil" /\ timer' = FALSE
         /\ isReceivingUpdate' = FALSE
         /\ UNCHANGED <<frame, rate, requests, answering, blank>>

FrameBufferUpdateComplete ==
    /\ IF rate # "manual" THEN QueueUpdateRequest
                          ELSE UNCHANGED <<timer, requests>>
    /\ blank' = (blank /\ "full" \notin answering)
    /\ isReceivingUpdate' = FALSE

\* Mutants: one asks only for what changes in the new frame buffer, one
\* still takes the update for being received.
CompleteWithResizeMutant ==
    /\ RequestUpdate("incremental") /\ UNCHANGED timer
    /\ blank' = TRUE /\ isReceivingUpdate' = FALSE

\* frameBufferUpdateCompleteWithResize: a new frame buffer takes the place of
\* the one the update painted; the view draws the new one.
CompleteWithResize ==
    /\ RequestUpdate("full") /\ UNCHANGED timer
    /\ blank' = TRUE /\ isReceivingUpdate' = FALSE

\* The list of rectangles is emptied only when the view is told of them.
UpdateComplete(painting, resizing) ==
    /\ IF resizing
       THEN /\ CompleteWithResize
            /\ UNCHANGED invalidRects
            /\ painted' = {}
       ELSE /\ FrameBufferUpdateComplete
            /\ invalidRects' = {}
            /\ painted' = painting \ invalidRects
    /\ shouldResize' = FALSE
    /\ answering' = {}
    /\ reader' = "type"

\* Mutant: reads one rectangle too many.
DidRectMutant(painting, resizing) ==
    /\ numberOfRects' = numberOfRects - 1
    /\ IF numberOfRects > 0
       THEN /\ reader' = "rectHeader"
            /\ shouldResize' = resizing /\ painted' = painting
            /\ UNCHANGED <<invalidRects, isReceivingUpdate, asking>>
       ELSE UpdateComplete(painting, resizing)
    /\ UNCHANGED <<encoding, rate>>

\* didRect: to the next rectangle or the end of the update.
DidRect(painting, resizing) ==
    /\ numberOfRects' = numberOfRects - 1
    /\ IF numberOfRects > 1
       THEN /\ reader' = "rectHeader"
            /\ shouldResize' = resizing /\ painted' = painting
            /\ UNCHANGED <<invalidRects, isReceivingUpdate, asking>>
       ELSE UpdateComplete(painting, resizing)
    /\ UNCHANGED <<encoding, rate>>

-----------------------------------------------------------------------------
(* Reading. *)

\* receiveType: of an update.  The server answers the requests it has read.
ReceiveUpdate(n) ==
    /\ reader = "type" /\ n <= Len(requests)
    /\ answering' = {requests[i] : i \in 1..n}
    /\ requests' = SubSeq(requests, n + 1, Len(requests))
    /\ reader' = "header" /\ isReceivingUpdate' = TRUE
    /\ UNCHANGED <<frame, rate, timer, blank>>

\* A bell leaves the reader as it is; the colour map and the cut text have a
\* body that ends with messageReaderDone.
ReceiveOther ==
    /\ \/ reader = "type" /\ reader' \in {"type", "message"}
       \/ reader = "message" /\ reader' = "type"
    /\ UNCHANGED <<frame, isReceivingUpdate, rate, asking>>

\* setHeader:
SetHeader(n) ==
    /\ reader = "header"
    /\ numberOfRects' = n
    /\ IF n > 0
       THEN /\ reader' = "rectHeader"
            /\ UNCHANGED <<shouldResize, invalidRects, painted,
                           isReceivingUpdate, asking>>
       ELSE UpdateComplete(painted, shouldResize)
    /\ UNCHANGED <<rate, encoding>>

ReadRect(e) ==
    /\ reader = "rectHeader" /\ reader' = "rect"
    /\ encoding' = e
    /\ UNCHANGED <<numberOfRects, shouldResize, painted, isReceivingUpdate,
                   rate, asking>>

\* Mutant: forgets that the rectangle was changed.
SetRectPixelsMutant(e) == ReadRect(e) /\ UNCHANGED invalidRects

\* setRect: of an encoding of pixels.  A raw rectangle without any makes a
\* reader of no bytes.
SetRectPixels(e) ==
    /\ ReadRect(e)
    /\ invalidRects' = invalidRects \cup {numberOfRects}

\* setRect: of the desktop name or the cursor, which have a reader too.
SetRectPseudo == ReadRect("pseudo") /\ UNCHANGED invalidRects

\* setRect: of a pointer position or an empty cursor: nothing more to read.
SetRectNothing == reader = "rectHeader" /\ DidRect(painted, shouldResize)

\* setRect: of a DesktopSize, enacted when the update is complete.
SetRectDesktopSize == reader = "rectHeader" /\ DidRect(painted, TRUE)

\* setRect: of LastRect.
SetRectLast ==
    /\ reader = "rectHeader"
    /\ UpdateComplete(painted, shouldResize)
    /\ UNCHANGED <<numberOfRects, encoding, rate>>

\* The encoding's reader has its bytes and calls didRect:.
RectRead ==
    /\ reader = "rect" /\ encoding # "noPixels"
    /\ DidRect(IF encoding = "pixels" THEN painted \cup {numberOfRects}
                                      ELSE painted,
               shouldResize)

\* Reading no bytes, which happens when the bytes after them arrive, calls the
\* target and then counts as a protocol error.
EmptyRectRead == reader = "rect" /\ encoding = "noPixels" /\ Close

\* The server closes, sends an unknown type or encoding, or a write fails.
Fail == Connected /\ Close

Next ==
    \/ UpdateTimer \/ Refresh
    \/ \E new \in Rates : SetFrameBufferUpdateSeconds(new)
    \/ \E n \in 1..MaxRequests : ReceiveUpdate(n)
    \/ ReceiveOther
    \/ \E n \in 0..MaxRects : SetHeader(n)
    \/ \E e \in {"pixels", "noPixels"} : SetRectPixels(e)
    \/ SetRectPseudo \/ SetRectNothing \/ SetRectLast \/ SetRectDesktopSize
    \/ RectRead \/ EmptyRectRead \/ Fail

Spec == Init /\ [][Next]_vars

\* The run loop fires the timer, and a server that has begun a message sends
\* the rest of it: it need not answer at all, nor send anything after the last
\* rectangle of an update.
Reading == \/ \E n \in 0..MaxRects : SetHeader(n)
           \/ \E e \in {"pixels", "noPixels"} : SetRectPixels(e)
           \/ SetRectPseudo \/ SetRectNothing \/ SetRectLast
           \/ SetRectDesktopSize \/ RectRead
           \/ numberOfRects > 1 /\ EmptyRectRead

FairSpec == Spec /\ WF_vars(UpdateTimer) /\ WF_vars(Reading)

-----------------------------------------------------------------------------
(* What must hold. *)

\* The loop never stops: while the updates are not manual, a request is with
\* the server, or a timer will send one, or the end of the update being read
\* will (queueUpdateRequest, setFrameBufferUpdateSeconds:).
NoStall ==
    Connected /\ rate # "manual" =>
        requests # <<>> \/ timer \/ isReceivingUpdate

\* isReceivingUpdate, which delays mouse movements, is set exactly from the
\* type of an update to its last byte.
ReceivingIsReading ==
    isReceivingUpdate <=> reader \in {"header", "rectHeader", "rect"}

\* Between messages nothing that was painted has yet to be redrawn.
PaintedIsShown ==
    reader \in {"type", "message"} => painted = {}

\* A frame buffer that was not filled has a request for all of it with the
\* server, or is being filled, even when a resize follows another.
BlankIsAskedFor ==
    Connected /\ blank =>
        \/ \E i \in DOMAIN requests : requests[i] = "full"
        \/ "full" \in answering

\* The last rectangle of the update is a raw one of no bytes, and its reader
\* waits for the server to send something else.
WaitsForNothing ==
    reader = "rect" /\ encoding = "noPixels" /\ numberOfRects = 1

\* An automatic connection asks again and again, unless an empty rectangle
\* stops it (queueUpdateRequest, ByteBlockReader.readBytes:length:).
AsksAgain ==
    Connected /\ rate # "manual" /\ requests = <<>> ~>
        \/ requests # <<>> \/ rate = "manual" \/ ~Connected
        \/ WaitsForNothing

=============================================================================
