# Chicken of the VNC in TLA+

Chicken is a VNC viewer for Mac OS X: it opens connections to servers of the
RFB protocol, shows their screens in windows and sends them the keyboard and
the mouse.  This directory holds TLA+ models of the parts of
`src/cotvnc/Source` whose behaviour depends on the order of events, the TLC
configurations that check them, and theorems about them that TLAPS proves.
All file names below without a directory are in `src/cotvnc/Source`.

Run `tlc -config X.cfg M` for a configuration `X.cfg` of module `M` (the table
of runs below names both) and `tlapm M.tla` for a module of proofs.

## The system

Everything but the threads of the connection attempts runs on the main thread:
AppKit calls a handler for each event of the user, each timer, each
notification of a file handle and each message from a thread, and no handler
interrupts another one.  What makes the program hard is the order of handlers:
sheets, timers, attempts, the server and the user take turns freely, and most
objects know others by plain pointers.

| Component | State it keeps | Operations | Talks to |
|---|---|---|---|
| `EventFilter` | queue of events, modifiers kept back, what the server was told is pressed, emulated button, two timers | mouse, key and modifier events, paste, window becomes or resigns key | `RFBConnection` (writes), `Profile` (emulation), `MyApp` and `KeyEquivalentManager` (equivalents) |
| `RFBConnection`, output | write buffer, its length, whether it ends with a movement, last position of the mouse | write at once, write buffered, flush, move, click | socket, `Session` (`terminateConnection:`) |
| `RFBConnection`, `RFBProtocol`, `FrameBufferUpdateReader` | current reader, rectangles left, rate, timer of the next request | read the messages of the server, ask for updates | encodings, frame buffer, view |
| `RFBHandshaker` | reader, challenge kept, password tried | version, security types, challenge, result, ServerInit | `Session` (password), server |
| `ConnectionWaiter` | delegate, current socket, lock | thread: look up, connect, wait for data; main: cancel, answers | its delegate: `ServerDataViewController`, `Session`, `DockConnection` |
| `SshWaiter`, `SshTunnel` | state of the ssh process, prompts, local port | prompts, output of ssh, close | `/usr/bin/ssh`, delegate |
| `Session` | connection, password, attempt to reconnect with its timer, sheets | connection lost, refused, forced to reconnect, closed | all of the above, `RFBConnectionManager` (list of sessions) |
| `ListenerController` | two listening sockets, connections without data, their profile, two timers, status line | start, stop, accept, data, hang-up, close the silent ones | `RFBConnectionManager` (new session) |
| byte readers | bytes of the current item | take bytes from buffers cut anywhere, call a target | encodings, handshake, messages |
| readers of the encodings | rectangle, tile, colours, filter and palette, inflating streams | one handler for each item of a rectangle | byte readers (next item), frame buffer (drawing), `FrameBufferUpdateReader` (`didRect:`) |
| frame buffers | pixels, format, byte order, bytes of a Tight pixel | fill, put, copy, convert | view |
| servers, profiles, key equivalents | dictionaries of named things | add, rename, remove, save | preferences, key chain |

What should hold of each component, and what makes it hard:

* **Input.** Nothing stays pressed on the server that the user has released,
  whatever gesture, paste, menu equivalent, timer or change of window comes in
  between; nothing but gestures is kept back, and not for ever.
* **Output.** Nothing is lost, overtaken or cut in half, except movements that
  the next one replaces; the buffer does not overflow.
* **Update loop.** The client goes on asking for updates at every rate, redraws
  what was painted, and asks for all of a new frame buffer.
* **Handshake.** In three dialects both sides read each message as what it is;
  a refused password is told from a refused client; the handshake ends.
* **Attempts.** One answer, none after cancel, no descriptor closed by others,
  none left open by cancel, every end seen by the user.
* **Session.** One connection or one attempt; never a dead window; one sheet;
  nothing calls back a session that is closed.
* **Tunnels.** The documented state machine; one answer, whatever order ssh, the
  socket and the timer report an end in; ports are given back; ssh ends.
* **Byte readers.** An item of the stream is the same wherever `read()` cuts it.
* **Encodings.** After each rectangle the client is where the server is in the
  stream, and shows what the server shows, whatever encodings came before.
* **Frame buffers.** A copy is exact even onto an overlapping place; colours
  survive the way through every format and byte order.
* **Listener.** A connection on either protocol is heard for as long as the
  listener runs, and those that stay silent are closed.

`PROJECT.json` lists the same components with their files, and under `hazards`
the lines at which these things can go wrong.

## Modules

| Module | Models | |
|---|---|---|
| `EventFilter` | `EventFilter.m`, `QueuedEvent.m`, the events `RFBView`, `Session` and `MyApp` pass to it | |
| `MCEventFilter` | | small keyboards, profiles, mice |
| `EventFilterProofs` | | proofs about `EventFilter` |
| `UpdateLoop` | `RFBProtocol.m`, `FrameBufferUpdateReader.m`, requests of `RFBConnection.m` | |
| `UpdateLoopProofs` | | proofs about `UpdateLoop` and `CopyRect` |
| `ClientStream` | what the output promises | abstract |
| `OutputBuffer` | the writing methods of `RFBConnection.m` and their callers | implements `ClientStream` |
| `MCOutputBuffer` | | message sizes |
| `OutputBufferProofs` | | proofs about `OutputBuffer` |
| `Attempts` | what a waiter promises its delegate | abstract |
| `ConnectionWaiter` | `ConnectionWaiter.m`, its use by `ServerDataViewController.m` | implements `Attempts` |
| `ConnectionWaiterProofs` | | proofs about `ConnectionWaiter` |
| `SshTunnel` | one `SshTunnel` object and its ssh | operators on a tunnel |
| `SshWaiter` | `SshWaiter.m`, the handlers of `SshTunnel.m`, `AuthPrompt.m` | implements `Attempts` |
| `SshWaiterProofs` | | proofs about `SshWaiter` |
| `Session` | the life of a session in `Session.m` | uses `Attempts` for its attempts to reconnect |
| `SessionProofs` | | proofs about `Session` and `Listener` |
| `ItemStream` | what reading from a server promises | abstract |
| `ByteReaders` | `readData:`, the readers of numbers, strings, blocks and inflated data | implements `ItemStream` |
| `ByteReadersProofs` | | proofs about `ByteReaders` |
| `MCByteReaders` | | streams |
| `Handshake` | `RFBHandshaker.m` and its readers, with a server | |
| `MCHandshake` | | versions and offers |
| `HandshakeProofs` | | proofs about `Handshake` |
| `Listener` | `ListenerController.m` | |
| `FrameBuffer` | `FrameBuffer.m`, `FrameBufferDrawing.h` | operators on the memory and on pixels |
| `CopyRect` | `copyRect:to:` of `FrameBufferDrawing.h` | a step for each pixel |
| `Rectangles` | `setRect:`, Raw, CopyRect, RRE, CoRRE and Zlib, and what all encodings share | uses `CopyRect` |
| `Hextile` | Hextile and ZlibHex | adds to `Rectangles` |
| `Zrle` | ZRLE | adds to `Hextile` |
| `Tight` | Tight with its filters | adds to `Zrle` |
| `Encodings` | all of them on one connection | |
| `MCEncodings` | | formats, rectangles and pictures |

Where a module is an implementation of another one, the abstract module is
instantiated with a refinement mapping and its `Spec` is one of the properties
checked (`ReachesServer`, `DeliversItems`, `AnswersOnce`; the last both of attempts
that connect themselves and of those that use a tunnel).  `Session` builds on the same
`Attempts`: its handlers of an attempt are enabled by `Attempts`' steps, so what
`ConnectionWaiter` was shown to implement is what `Session` assumes.
`Handshake` in turn shows what `Session` assumes of `authenticationFailed:`,
which only comes after a password was tried (`RefusedIsTried`, a part of
`InStep`).

The modules of the encodings are a chain: each extends the one before by the
handlers of one reader, and `Encodings` puts them together.  `ByteReaders` shows
that items arrive whole and in order, so the encodings read items; `UpdateLoop`
abstracts a rectangle to whether it has pixels.

### EventFilter

A handler is one action; the calls it makes are operators from a filter (a
record with the instance variables) to a filter.  `buttons`, `keys`, `flags`
and `focus` are what the user does; `filter.pressed` is what the server was
told is down.  `user`, chosen at the start, says which mouse, modifiers, profile
and key equivalents there are.  Timestamps are kept as the one fact the code
derives from them, whether the second of two events came too late (`slowTap`).
`Net` stands for a run of sends: where it leaves the server.

With multi-tap for both buttons, `TapsEnd` does not hold: there is one timer for
both, and the handler of the one stops what the handler of the other has started
(`EventFilter.m:810`), so that taps wait "within the time limit"
(`EventFilter.h:43`) without one.

A second button held while button 1 stands for another one ends the emulation
when it is released: `queueMouseUpEventFromEvent:` takes any button for button 1
(`EventFilter.m:314`), whose own release then finds nothing to release, where
`EventFilter.h:81` says that a "mouse up event on button #1 will be mapped to a
mouse up event on this button".  `EventFilter_right_button.cfg` finds the button
that stays pressed (`NoPhantomButton`).

With `Drops`, text may also be dropped on a window that is not key:
`pasteString:` then brings Caps Lock up to date (`EventFilter.m:471`) on a
server on which everything was released when the window resigned key
("Reset keyboard state on remote end", `Session.m:659`), and
`ResignedHoldsNothing` does not hold.

An equivalent that only the filter's `keyDown:` finds discards the queue
(`EventFilter.m:248`), and with it releases that wait.  They do when a modifier
was held before the window became key: of that one the filter does not know, so
its release synthesizes those of the keys that are down (`flagsChanged:`), but
`queueModifiers:` finds no change and sends nothing.  If the next key is an
equivalent without modifiers, the character stays pressed.  TLC found this when the
proof of `NoPhantoms` needed the opposite.  With modifiers it takes more, since those
that are still held make a change that sends the queue: text pasted while a
modifier of a gesture is held, which leaves the filter without knowing of that one.
The users of the run have no equivalents for which this matters
(`HarmlessEquivalents` in `EventFilterProofs`).

Four more divergences from the comments and the help concern single messages,
which the model does not keep; they were found while writing it:

* After a scroll or the end of a multi-tap has sent the queue, the cursor of
  tap-and-click still announces an emulated button until its timer fires
  (`EventFilter.m:202`, `EventFilter.h:50`).
* `pasteString:` and the click of a multi-tap do not ask for `_viewOnly`
  (`EventFilter.m:503`, `Resources/help/getting-started.html:36`).
* A menu equivalent sends the modifiers that were kept back, rather than
  removing them (`MyApp.m:67`, `EventFilter.h:89`).
* The Shift that a paste means to fake for a capital is never sent
  (`EventFilter.m:485-492`): `_sendKeyEvent:` ignores modifier events.

### UpdateLoop

One action for each call of a reader's target, for the timer and for the user's
changes of rate.  `requests` are the requests the server has not answered,
`answering` those that the update being read answers; a server answers what it
was asked for, and never sends an update it was not asked for.  Rectangles are
of three kinds: with pixels, without any bytes, and pseudo-encodings.

### ClientStream, OutputBuffer

`out.wire` is what was written, `out.buffer` and `out.len` the buffer.
`out.overrun` is a history variable: the copy into the buffer has at some moment
gone past its end.  Messages are kinds with a position and buttons, sizes those
of `rfbproto.h`.  `Room` bounds the messages of a behaviour.  A connection that
has failed does not write any more (`open`).

### Attempts, ConnectionWaiter

The steps of a thread are its system calls and its sections under the lock.
Descriptors are modelled as the system's: the smallest free number is the next
one, and `OpenElsewhere` and `CloseElsewhere` are the rest of the program, so
that a number that was closed may come back as someone else's.
`connect()` on a closed or on a connected descriptor fails; on any other it may
succeed or fail.

### SshTunnel, SshWaiter

`s.tunnel` holds the tunnels, each named after the attempt that has made it,
with the ssh process: what it asks, what it has written and nobody has read yet
(`err`, `blank`), whether it has logged in.  `s.waiter` holds the attempts; their
sheets queue up on the window, as AppKit does it.  A handler works on the whole
state `s`, since a message of ssh may go through the tunnel to its attempt and
on to the delegate, and whoever drops the last reference to an attempt runs its
`dealloc`, which closes the tunnel (`Settled`).

ssh asks about the server's key first, then for passwords, fails at any moment
before it has logged in, and ends or asks again after that.  While it waits for
its helper it does not read anything else.  A line of stderr arrives alone or
together with others (`ReadStderr`).

`AttemptState` maps an attempt to `Attempts`, with "asking" while a question is
up.  `Mishaps` are three more behaviours of ssh that break `AnswersOnce`; the
comment at `SshWaiter.m:195-199` ("ssh's error may have arrived first, then we
don't need to do anything") shows that an end that is seen twice was thought of:

* "quit": ssh ends by itself while an attempt uses its tunnel.  `sshFailed:`
  shows an error but, unlike `tunnelFailed:`, does not set `tunnelHasFailed`,
  so that the close of the socket shows another one (`SshWaiter.m:214`); or the
  first data is on its way, and an attempt that has failed succeeds
  (`SshWaiter.m:171`).
* "killed": ssh ends while the user is asked about the key.  The alert stays up,
  under the error, and either answers the delegate (`SshWaiter.m:106`).
* "banner": one notification brings two lines that are errors, such as the frame
  of ssh's warning of a changed key; `readFromSsh:` asks for the state before
  the first line only, and both are shown (`SshTunnel.m:316`).

`TunnelsMatch` says that a port has one owner (`PortIsExclusive`), that a question
is put to the user and can be answered (`PromptIsAsked`), and that the tunnels
take the transitions of the diagram in `SshTunnel.m` (`FollowsDiagram`).

The run `tunnel_closing` shows that CLOSING does not end ssh: after a wrong
password, or when the user cancels while the tunnel is TUNNELING, `close` finds
a state in which it does nothing, ssh goes on, and its port stays taken.

An attempt whose tunnel could not be made (no port, no FIFO) is left waiting
until the user cancels it (`SshWaiter.m:47`); if it was the FIFO, its port is
not given back before the program ends (`SshTunnel.m:118`).  Both are in the
model; `EndIsSeen` speaks of attempts with a tunnel.

### Session

The record `s` is the object; a session removed from the list of
`RFBConnectionManager` is freed when none of its timers retains it any more.
The constant `Mishaps` says which of four rare events also happen, each of which
breaks a property: Force Reconnect under the password sheet, closing the window
in the half second before the reconnect sheet, a failing write of the response,
and a refused password from a server that cannot be reconnected to, which shows
the alert and the password sheet at once (`Session.m:268`).
`Session_force.cfg` has the first, and finds that `ClosedIsQuiet` does not hold:
the attempt of Force Reconnect is replaced when the password sheet is answered
(`Session.m:317`), is never cancelled and answers a session that is gone, where
`ConnectionWaiter.m:91` says of `cancel` "This prevents any future messages to
the delegate."  The run `session` shows that nothing else breaks the
properties.  With "write", `reconnectWithNewPassword:` (`Session.m:315`) hands
the password to the connection, `terminateConnection:` leaves the reconnect to
the password sheet ("Will reconnect to server when password entered",
`Session.m:224`), and the sheet ends: `NoDeadSession` does not hold.

Not modelled in `Session`: full screen, scrolling, menus and titles; the
questions of ssh and a reconnect that fails at once, which `SshWaiter` has; the
branch of `terminateConnection:` for no reason, which no caller
takes.

### ItemStream, ByteReaders

A byte is its place in the stream, 0 one that was never written, so that what a
target is given says which bytes of the stream it holds.  A stream is a list of
items, a kind and a size each; the targets are external: the target of one item sets
the reader of the next.  That happens inside `readBytes:length:`, before the
reader has returned what it has used, and often the reader set is the same one;
`Completes` is such a call, and the readers are passed to it as they are by then.
A reader of a block keeps its memory from one block to the next, the readers of a
string are made anew.

The mapping to `ItemStream` counts what the current reader has taken as not used
yet (`Taken`).  An item of no bytes is not handed over until another byte comes,
and then `readData:` takes it for an error of the protocol: `Arrived` and
`Deliver` say so, and `EmptyRectRead` in `UpdateLoop` models what that means for
an empty rectangle.

### Handshake

Both ends: the client's actions are the handlers of `RFBHandshaker`, the server
is external, one that speaks each dialect of RFB as the client negotiates it,
and may refuse or close at any point.  `challenged` is the challenge kept while
the user is asked for a password.

### Listener

A step is a handler of the main thread: the button, a notification or a timer.
`listening` and `accepting` are the sockets with the background accepts that
`NSFileHandle` has under way on them, `at` and `via` where each connection is and
through which socket it came, `server` the profile its session was given.
`connectionReceived:` starts an accept on both sockets whichever has accepted;
`ListensOnBoth` says that this never leaves one of them deaf.  The handlers'
common parts are `StopListener`, `SetStatus` and `CloseLingering`.  Assumed of
`NSFileHandle`: a second accept on the same socket changes nothing, and a handle
that is closed sends no notification any more.

Two things do not hold.  When data stop the listener, `stopListener` forgets the
profile, and a connection whose data arrive within the second before
`closeLingering:` becomes a session without one (`ListenerController.m:356`):
`Listener_profile.cfg` finds that for `HandedWithProfile`.  And when a
connection is closed at its other end after the listener has stopped, the error is
taken back three minutes later by a message that says that the listener runs
(`clearError:`, `listenRunning`).

### FrameBuffer, CopyRect

The memory is a function from addresses to colours, row by row as in the code, a
colour its red, green and blue.  `Cvt` and `CombineRGB` go from bytes to a colour
and back for every number of bytes, byte order, shift and range of a format.
`CopyPixel` is one assignment of the loop in `copyRect:to:` with its pointer
arithmetic; `CopyIsExact` compares the memory with the one before the copy.

### Rectangles, Hextile, Zrle, Tight, Encodings

A step of the client is one call of a reader's target: it takes the item the
byte readers hand over, draws, and says which item comes next and of which size
(`reader`).  `frame` is the rectangle; `part` holds the instance variables of the
reader of its encoding that live as long as the rectangle; `colours`, `zStream`
and `buffer` are those that live longer.

The server is external.  `Serve` chooses a rectangle, a new picture and an
encoding, and every way to say it that `rfbproto.h` has: subrectangles, tiles
that name their colours or rely on the tile before, runs, packed and plain
palettes, filters, short data that are not compressed, streams that go on or
begin again.  The items' values are bytes where the client computes with bytes
(pixels, packed indices, run lengths, differences), and records where it only
looks at flags.  Inflating returns what was compressed, provided that the
client's stream has inflated just what the server's has compressed before it
(`zStream`, `deflated`); JPEG is taken to be exact.

What the server of the model does not do:

* Tight rectangles after a ZRLE one has changed `tightBytesPerPixel`.  The
  hack for UltraVNC in `ZRLEEncodingReader.m:39-44` sets it to 3 for 32-bit formats
  of another depth than 24, and nothing sets it back; what Tight reads next would
  be in pieces of three bytes, while the filters go on with four.
* 32-bit formats with red in the low byte and little-endian order, with Tight.
  "The spec says that if we're using 24 bit Tight encoding with 8-bit color
  channels, the byte order should always be RGB" (`FrameBuffer.m:322-324`), and
  `combineRGB:pixels:into:` writes such pixels in this order whichever
  `serverIsBigEndian` is; but `splitRGB:pixels:into:` and `putRect:fromTightData:`
  read them in the order of `serverIsBigEndian`, which is only forced for the
  shifts 16, 8 and 0.  The pixels of the palette and gradient filters are drawn
  with red and blue exchanged: `Encodings_tight.cfg` finds that for `TightIsRgb`.
  With the shifts 16, 8 and 0 the same happens for servers of other versions than
  3.3, 3.7 and 3.8, for which the order is not forced.
* Items of no bytes, which `ByteReaders` has shown not to be delivered, and
  streams that are no encoding of anything.

## Runs

| Run | Module, configuration | Shows |
|---|---|---|
| `event_filter` | `MCEventFilter`, `EventFilter.cfg` | users who hold, tap or have three buttons: nothing stays pressed (`NoPhantoms`), a resigned window is clean (`ResignedHoldsNothing`), the emulation is sound and only taps wait (`EmulationIsTold`), and not for ever (`TapsEnd`) |
| `update_loop` | `UpdateLoop`, `UpdateLoop.cfg` | the loop does not stop (`NoStall`, `AsksAgain`), painting is shown, a new frame buffer is filled |
| `output_buffer` | `MCOutputBuffer`, `OutputBuffer.cfg` | `OutputBuffer` implements `ClientStream`; the buffer fits, and only a movement stays in it (`BufferFits`), not for ever (`MovesArrive`); what the server knows of the pointer |
| `connection_waiter` | `ConnectionWaiter`, `ConnectionWaiter.cfg` | two attempts one after the other implement `Attempts`, and treat descriptors well: they close their own only (`ClosesOwn`), and each end is seen and a cancelled attempt's socket given back (`EndIsSeen`) |
| `tunnel` | `SshWaiter`, `SshWaiter.cfg` | attempts through tunnels implement `Attempts` (`AnswersOnce`); ports, questions and states of the tunnels go together (`TunnelsMatch`); every end is seen (`EndIsSeen`) |
| `session` | `Session`, `Session.cfg` | one connection or attempt, and one sheet (`OneAtATime`), no dead window (`NoDeadSession`), quiet when closed (`ClosedIsQuiet`), cancel offered (`CancelIsOffered`) |
| `byte_readers` | `MCByteReaders`, `ByteReaders.cfg` | `ByteReaders` implements `ItemStream`: whatever `read()` brings at a time, each item is handed over whole, once, in order and without delay |
| `handshake` | `MCHandshake`, `Handshake.cfg` | each side reads what the other one sent, and a refusal for what it is (`InStep`), in versions at and between all limits; the handshake ends |
| `listener` | `Listener`, `Listener.cfg` | connections on either protocol are heard while the listener runs (`ListensOnBoth`), silent ones closed after it (`LingerersGo`) |
| `encodings` | `MCEncodings`, `Encodings.cfg` | after two rectangles in any encodings the client is in step with the stream (`InStep`) and shows the server's picture (`DrawsThePicture`); copies are exact (`CopyIsExact`) |

Runs that end in a violation, each of one property that a comment states and
the code does not keep (`findings` in `PROJECT.json` quotes them):

| Run | Shows |
|---|---|
| `connection_waiter_reuse` | `connect()` on a descriptor that is someone else's by then |
| `tunnel_closing` | after a wrong password, or a cancel at the wrong moment, ssh runs on |

Four more configurations end in a violation when they are run by hand; the
sections on their modules say what they show, and where the code says otherwise:
`EventFilter_right_button.cfg` (`MCEventFilter`), `Session_force.cfg` (`Session`),
`Encodings_tight.cfg` (`MCEncodings`) and `Listener_profile.cfg` (`Listener`).

A configuration that passes leaves out, by its constants, what one of these
shows: `Drops`, two multi-taps, a second button beside an emulation, `Mishaps`,
a little-endian format with red in the low byte.

### Bounds

* `EventFilter`: seven users with the modifiers that their profiles use and
  Shift, one or three buttons, and two keys with the characters of all four
  levels.
  `MaxPending` bounds the queue that `flagsChanged:` still extends; a gesture
  needs at most four events, and what comes before a gesture is sent at once.
* `UpdateLoop`: two rectangles and three open requests are enough for a resize
  with a rectangle before and after it, and for requests of a timer, of the
  user and of the end of an update at once.
* `OutputBuffer`: a buffer of 18 bytes holds three movements, or two keys but
  not two keys and a movement, so that it is full in the middle of handlers;
  five messages.
* `ConnectionWaiter`: two attempts, since only one is current; two addresses;
  three descriptors, one for each attempt and one for the rest.
* `SshWaiter`: two attempts, the second of which begins after the first has ended
  while its ssh is still there; two ports, so that both run out and are reused;
  three unread lines, two questions or errors and the end.
* `Session`: three attempts, enough for one that is overwritten, its successor
  and one more.
* `ByteReaders`: three items, so that a reader is used again at once and after
  another one; blocks and strings of up to three bytes, cut between any two of
  them and within a number; five bytes at a time, which is more than an item.
* `Listener`: three connections, so that one stops the listener, one lingers and
  one is new; each on either socket.
* `Encodings`: a screen of 3 x 3 pixels and tiles of 2 x 2, so that tiles at the
  edges are smaller and rectangles begin beside a tile's corner; two rectangles,
  so that the second meets what the first has left (colours, streams, byte order);
  five formats, of one, two and four bytes, either order, with and without a
  Tight pixel of three bytes; three places and two pictures, of two and three
  colours; copies from and to anywhere.  A byte has two bits (`ByteBits`), so that
  a colour of two bits fills one, a bitmap row has more than one byte and a run
  needs more than one byte for its length.  `ZBufSize` of 13 bytes makes `DrawRows` cut
  rows in the middle, `MinToCompress` of 4 has data on either side.
* `Handshake`: versions 3.3, 3.5, 3.7, 3.8, 3.9, 3.889 and 4.1, and lists of
  types with what the client knows first, last, in between and not at all.

Deadlock is checked where the system must not stop (`ConnectionWaiter`); the
others may stop when a connection has ended or a bound is reached.

### Fairness

Timers fire and the run loop gets to messages that were posted to it: weak
fairness of the timers (`EventFilter`, `UpdateLoop`, `Session`, `Listener`), of the main
thread (`ConnectionWaiter`, `SshWaiter`), and of the notifications of connections
and the accepts behind them (`Listener`).  An ssh that was terminated, refused a
key or has lost its input ends, and one that has failed ends or asks again
(`SshWaiter`).  Threads are scheduled, so their steps that do not
block are weakly fair; looking up a host, connecting and waiting for data may
take for ever.  The server is fair only in finishing an update it has begun
(`OutputBuffer`, `UpdateLoop`) and in answering a message it has read
(`Handshake`).  `readData:` goes on until it has used what it has read
(`ByteReaders`).  Nothing is assumed of the user.

## Proofs

`UpdateLoopProofs` proves, for updates of any length and any number of open
requests: type correctness; `NoStall`; `ReceivingIsReading` and `PaintedIsShown`;
`BlankIsAskedFor`.  The invariant adds what the code relies on
without saying so: how `numberOfRects`, the reader and `isReceivingUpdate` go
together, and where rectangles that were painted are listed to be redrawn.

`EventFilterProofs` proves, for any keyboard, characters and users:
* without hypotheses, type correctness and `EmulationIsTold`;
* if no text is dropped on a window that is not key (`Undropped`),
  `ResignedHoldsNothing` and `NoPhantomModifier`;
* if also the user has one mouse button or emulates none (`OneButton`), and no
  equivalent discards the release of a character that would have been another one
  (`HarmlessEquivalents`), all of `NoPhantoms`.

The users of `EventFilter.cfg` meet all three.  Each excludes a case above in which
the code leaves something pressed; `EventFilter_right_button.cfg` shows what
happens without `OneButton`.  `HarmlessEquivalents` allows every equivalent with all
modifiers that the user has, every one with some if no gesture is emulated, and with the
profile that is the default, where Control emulates a button, every one with
Command.

The invariant is about where the queue will leave the server once it has been
sent (`Left`), because between two handlers it may hold anything a gesture has
begun.  `Sound` says what that can be: taps of one modifier, short of a complete
multi-tap, that the server was not told of (`TapsWait`), and behind them nothing but releases
of what is pressed (`UpsWait`).  `Known` ties what the server holds of the modifiers
to `_queuedModifiers`: all of these that no gesture uses.  `FocusKnown` ties these to
the keyboard: the filter knows of no modifier that is not held, and of none or of all
that no gesture uses (`Knows`).  `KeysKnown` says that a pressed character is
that of a key which is down with the modifiers that are held, or that its release
waits; `ButtonsKnown` that a pressed button is the emulated one or is held.  Every
method of the filter has lemmas that say what it keeps of them, from the single send
(`Net`) to the handlers, so that each action of the user or a timer is a few
citations.  TLC confirmed the invariant on the users of the runs first.

`OutputBufferProofs` proves, for a buffer and messages of any sizes: type
correctness; `BufferFits`; `ServerKnowsPointer`; and `ReachesServer`, that every
step of `OutputBuffer` is one of `ClientStream` or a stutter.  The invariant says
that between two handlers the buffer holds one movement or nothing (`Settled`),
that it holds one only while an update is received, and that what the server
will have read of the pointer, when the buffer has been written, is where the
client has it (`Knows`).  Inside a handler the buffer may be fuller, so the lemmas
about the writers (`WriteBufferWrites` to `FlushAdds`) start from any `Sound` output:
one whose length is the sum of its messages and within the buffer.

`HandshakeProofs` proves, for any versions and offers, type correctness and
`InStep`.  That the client reads each message as what it is depends on what is in
the stream behind it, so the invariant describes the whole of it: each message
that the server has sent is followed by what the dialect puts behind it
(`Chain`), only one side talks at a time (`Conversing`), and the reader of the client and
the expectation of the server fit what is next (`ClientInStep`, `Waiting`).  `Tried` ties
the results that may be on their way to whether a password was sent; hence
`RefusedIsTried`, which `Session` relies on.

`SessionProofs` proves type correctness for any attempts and any `Mishaps`;
`OneAtATime` and `ClosedIsQuiet` without the mishaps "force", "close" and "refuse"
(`Calm`); and `NoDeadSession` without "write".  No hypothesis can be dropped: with any of the
three, TLC finds that the first two do not hold, and with "write" the third.
The invariant ties what is shown to what is waited for: an attempt that is
not the one that `cancel` knows of has ended (`Alone`), a sheet is up only in the
state that shows it (`Sheets`), and a session off the list has nothing left that
could call it (`Gone`).

`ConnectionWaiterProofs` proves, for any number of attempts, addresses and
descriptors, type correctness, `ClosesOwn` and `AnswersOnce`: that the attempts implement
`Attempts`.  The inductive invariant `OneAnswer` says of each waiter what its
thread has sent and what the main thread has made of it: a message is on its
way, an error shown or an answer given only once the thread has ended, one of
them at a time; this is what makes a second answer impossible.  Each step is shown to be a step of
`Attempts` or a stutter, one lemma for the thread, one for the main thread and
one for the user.  `ClosesOwn` needs that `currentSock` is always a socket that
the thread has opened and nobody has closed since (`Owning`): the thread registers it under the lock, and
whoever closes it, the thread or cancel, forgets it in the same section.

`SshWaiterProofs` is in three layers, each with the invariant of the one before.

1. For every `Mishaps`: type correctness, `PortIsExclusive` and `PromptIsAsked`.
   `Sound` says which tunnels there are, who has their ports, and of a tunnel that is not
   allowed to work yet that its attempt only waits for it and shows the question that
   ssh waits for (`AsksUser`, `Opening`, `Prompting`); `Held`, that this is the attempt of
   the delegate.  A handler that leaves these alone, or only ends things, keeps them
   whatever else it does (`Change`, `ChangeIsSound`).
2. Without "quit": `TunnelsMatch`, by the invariant `Steady`.  `Orderly` says what ssh has
   done and written in each state of its tunnel; `Fit` and `Attempt`, that an attempt
   waits for data only through a tunnel that works (`Live`); `Keeps`, that the session
   keeps one that does; `Left`, that a tunnel whose attempt the delegate has left is closed.
   Between the parts of a handler some of this does not hold yet, so there are
   lemmas for a change of one tunnel (`TunnelStepIsOrdered`), of one attempt
   (`WaiterStepIsOrdered`) and for `dealloc` (`SettledIsOrdered`).
3. Without any of the `Mishaps`: `AnswersOnce`, by `Trusty`, which is `Steady` with
   `Promised`, that an attempt shows one sheet at a time and none once it has answered, and `Brief`,
   that ssh gives one reason for an error.  `Tells` says that a step changes
   what is known of one attempt (`Phase`) by a step of `Attempts`, or of none.

A notification brings any number of lines, and `ReadLines` is a recursive function of
that number.  What holds after each line is proved by induction:
`SetInduction` derives it from the least number that lacks it, `LinesInduction` and
`LinesKeep` apply it to lines.  In the third layer it shows that only the first line of a
notification says something (`OtherLines`, `LinesAreQuiet`), which is what "banner" breaks.

No hypothesis can be dropped: with "quit" TLC finds that `FollowsDiagram`
does not hold, since the diagram has no transition for an ssh that ends, and with any one of the
three that `AnswersOnce` does not.

`ByteReadersProofs` proves, for streams of any items and any size of the buffer,
type correctness and `Stream!Spec`, the safety part of `DeliversItems`.  The
inductive invariant `Reading` ties the current reader to the item it reads: that
it is one for this kind of item, that it lacks at least one byte, and that what it
holds are the bytes from the first of the item on.  For a block it needs one more
fact, that memory which holds a part of the block is large enough for all of it
(`BlockSound`): otherwise `readBytes:length:` would free what it has copied.
`Completion` shows once, for every reader, that calling a target with a whole item
is the step `Deliver` and leaves the next reader sound.

`SessionProofs` also proves, for any connections and profiles of a listener, type correctness,
`ListensOnBoth` and `StatusIsOwn`: that the timer which takes back an error
message never meets another message, and no message says that a running listener
is off.  `StatusIsOwn` is proved only; no run repeats it.  The three are
inductive together.

`UpdateLoopProofs` also proves `CopyIsExact` for frame buffers, rectangles and places of
any size: `copyRect:to:` copies as if the two places did not overlap.  The
invariant `CopyInv` says how far the loop has come, in the order it goes through
rows and columns (`NthRow`, `NthColumn`): the pointers are at the pixel that is
next, the cells of the target before it hold what their source held at first, and
all others are as they were.  Its core is `NotYetFilled`: the pixel to be read is
none of those written, because the loop goes in the direction that leaves the
target behind; `Advances` shows that the pointer arithmetic (`LineStep`, `Stride`)
goes to the next pixel, in a row and at its end.  The specification `CopySpec`
lets the memory change in any way between two copies (`Draw`).

The assumptions of the proofs are those on the constants (`BoundAssumption`,
`KeyboardAssumption`, `UserAssumption`,
`OutputAssumption`, `HandshakeAssumption`, `WaiterAssumption`, `NameAssumption`,
`TunnelAssumption`, `StreamAssumption`, `ListenerAssumption`, `SizeAssumption`), which TLC evaluates in the runs.

Only model-checked: liveness (it needs `ENABLED`, which the prover does not
have), that is `TapsEnd`, `AsksAgain`, `MovesArrive`, both `EndIsSeen`,
`CancelIsOffered`, `HandshakeEnds`, `LingerersGo` and what `DeliversItems` says
besides safety; and of the encodings all but `CopyIsExact`.  What
`DrawsThePicture` says, and the lengths that `InStep` compares, are computed by folds
over data.

## Plan

1. `sendKey:pressed:` with surrogate pairs.  `highSurrogate` puts together halves
   that follow each other, but `EventFilter` keeps the halves as characters of
   their own in a set: two keys with the same high surrogate held at once, or the
   releases of `_synthesizeRemainingKeyUpEvents` in the order of the set, leave a
   character pressed on the server (`RFBConnection.m:591`, `EventFilter.m:621`).
2. Servers, profiles and key equivalents: names, renames, saving.

## Not modelled

* The colour tables of the frame buffers (gamma correction, depth) and drawing
  to the screen: tables and calls of AppKit without control.
* The branches of the readers for streams that are no encoding, and inflated data
  of another size than announced.
* The contents of the messages beside the rectangles: cursors, colour maps, names,
  clipboard texts.  Their place in the stream is modelled.
* libjpeg-turbo, zlib, DES and Sparkle: third-party code.
* The windows and their layout, preferences, and memory management except for
  the life of a session: no state that several actors share.
