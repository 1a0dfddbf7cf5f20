------------------------------- MODULE SshWaiter -------------------------------
(***************************************************************************)
(* Attempts to connect through an SSH tunnel, one after the other, as a      *)
(* server's dialog and then the session make them: each waits until ssh has  *)
(* logged in, connects to the local port and waits for the VNC server's      *)
(* first data.  The user answers ssh's questions in sheets on the window.    *)
(*                                                                         *)
(* Each action is a handler on the main thread: of a notification from ssh,  *)
(* of the thread that waits for data, of a timer or of the user.  The tunnel *)
(* that an attempt has made carries the attempt's name.                      *)
(***************************************************************************)
EXTENDS SshTunnel

CONSTANTS Waiters,      \* the attempts
          MaxLines,     \* bound on the lines that ssh has written unread
          Mishaps       \* which of the following also happen:

\* "quit": ssh ends by itself while an attempt is using its tunnel;
\* "killed": ssh ends while the user is asked about the key;
\* "banner": ssh fails with two lines that are known (the mismatch of a key).
ASSUME WaiterAssumption ==
    /\ Owners = Waiters
    /\ MaxLines \in Nat
    /\ Mishaps \subseteq {"quit", "killed", "banner"}

VARIABLE s              \* see StateType

WaiterType ==
    [tunnel: Waiters \cup {None},
     delegate: {"unset", "set", "nil"},
     sock: {"none", "open", "hup"},             \* currentSock; hup: closed by
                                                \*   the other side
     thread: {"none", "poll", "data", "closed"},    \* of waitForData, or its
                                                    \*   message on its way
     sheets: Seq({"key", "password", "error"}), \* the first is up, the others
                                                \*   wait for it to end
     timer: BOOLEAN,                            \* tunnelClosedTimer
     failed: BOOLEAN,                           \* tunnelHasFailed
     told: Seq({"succeeded", "failed"})]        \* what the delegate was told

StateType ==
    [tunnel: [Waiters -> TunnelType],
     waiter: [Waiters -> WaiterType],
     portUsed: SUBSET Ports,
     current: Waiters \cup {None},              \* the attempt of the delegate
     kept: Waiters \cup {None},                 \* sshTunnel of the session
     connected: BOOLEAN]                        \* and whether it is connected

TypeOK == s \in StateType

Init ==
    s = [tunnel |-> [t \in Waiters |-> NoTunnel],
         waiter |-> [w \in Waiters |->
             [tunnel |-> None, delegate |-> "unset", sock |-> "none",
              thread |-> "none", sheets |-> <<>>, timer |-> FALSE,
              failed |-> FALSE, told |-> <<>>]],
         portUsed |-> {}, current |-> None, kept |-> None,
         connected |-> FALSE]

-----------------------------------------------------------------------------
(* What the handlers call. *)

\* A message to nil does nothing.
\* Mutant: gives the port back at once.
CloseTunnelMutant(d, t) ==
    IF t = None THEN d
    ELSE [d EXCEPT !.tunnel[t] = Close(@), !.portUsed = @ \ {d.tunnel[t].port}]

CloseTunnel(d, t) == IF t = None THEN d ELSE [d EXCEPT !.tunnel[t] = Close(@)]

\* The delegate, the thread and the timer retain an attempt.
Retained(d, w) ==
    \/ d.current = w
    \/ d.waiter[w].thread # "none"
    \/ d.waiter[w].timer

\* dealloc, of an attempt that a handler has left without anyone to retain it.
Settled(d) ==
    LET gone == {w \in Waiters : ~Retained(d, w) /\ d.waiter[w].tunnel # None}
        closed == {d.waiter[w].tunnel : w \in gone}
    IN [d EXCEPT
          !.tunnel = [t \in Waiters |->
                        IF t \in closed THEN Close(@[t]) ELSE @[t]],
          !.waiter = [w \in Waiters |->
                        IF w \in gone THEN [@[w] EXCEPT !.tunnel = None]
                                      ELSE @[w]]]

\* error:message:
Error(d, w) ==
    IF d.waiter[w].delegate = "set"
    THEN [d EXCEPT !.waiter[w].sheets = Append(@, "error")] ELSE d

\* connectionFailed of the delegate: endSession, or connectionAttemptEnded.
ConnectionFailed(d, w) ==
    [CloseTunnel(d, d.kept) EXCEPT
       !.waiter[w].told = Append(@, "failed"), !.current = None, !.kept = None]

\* tunnelEstablishedAtPort: with a socket and connect().
Establish(d, w) ==
    [d EXCEPT !.waiter[w].sock = "open", !.waiter[w].thread = "poll"]

\* There is at most one sheet of auth.
SshFailedWithError(d, w) ==
    Error([d EXCEPT !.waiter[w].sheets = RemoveFirst(@, "password")], w)

\* Mutant: lets the end of the connection show another error.
TunnelFailedMutant(d, w) == Error([d EXCEPT !.waiter[w].timer = FALSE], w)

TunnelFailed(d, w) ==
    Error([d EXCEPT !.waiter[w].timer = FALSE, !.waiter[w].failed = TRUE], w)

-----------------------------------------------------------------------------
(* Notifications from ssh. *)

\* readFromSsh: goes on reading until the tunnel is closed.
Reads(t) == s.tunnel[t].ssh # "none" /\ s.tunnel[t].state # "closing"

\* processStringFromStderr:, for one line.
ProcessLine(d, t, line) ==
    LET tunnel == d.tunnel[t]
        closing == [d EXCEPT !.tunnel[t].state = "closing"]
    IN CASE line \in Questions ->
              IF tunnel.state # "opening" THEN d
              ELSE [d EXCEPT !.tunnel[t].state = "prompt",
                             !.waiter[tunnel.delegate].sheets =
                                    Append(@, line)]
         [] line \in {"failed", "eof"} ->
              IF tunnel.delegate = None THEN closing
              ELSE SshFailedWithError(closing, tunnel.delegate)
         [] line = "channel" ->
              IF tunnel.delegate = None THEN closing
              ELSE TunnelFailed(closing, tunnel.delegate)

ReadLine(d, t) ==
    ProcessLine([d EXCEPT !.tunnel[t].err = Tail(@)], t,
                Head(d.tunnel[t].err))

\* The first n lines.
ReadLines(d, t, n) ==
    LET after[k \in 0..n] == IF k = 0 THEN d ELSE ReadLine(after[k - 1], t)
    IN after[n]

\* One notification may bring several lines; the end of the stream is another.
ReadStderr(t) ==
    /\ Reads(t)
    /\ \E n \in 1..Len(s.tunnel[t].err) :
          /\ n = 1 \/ ~Contains(SubSeq(s.tunnel[t].err, 1, n), "eof")
          /\ s' = Settled(ReadLines(s, t, n))

\* processStringFromStdout: the blank line, then the tunnel may be used.
ReadStdout(t) ==
    /\ Reads(t) /\ s.tunnel[t].blank
    /\ LET d == [s EXCEPT !.tunnel[t].blank = FALSE]
           tunneling == [d EXCEPT !.tunnel[t].state = "tunneling",
                                  !.tunnel[t].fifo = FALSE]
           w == s.tunnel[t].delegate
       IN IF s.tunnel[t].state # "opening" THEN s' = d
          ELSE \/ s.tunnel[t].ssh = "running" /\ s' = Establish(tunneling, w)
               \/ s' = Error(tunneling, w)

\* sshTerminated:
SshTerminated(t) ==
    /\ s.tunnel[t].ssh = "ended" /\ s.tunnel[t].port # NoPort
    /\ s' = [s EXCEPT !.portUsed = @ \ {s.tunnel[t].port},
                      !.tunnel[t].port = NoPort, !.tunnel[t].fifo = FALSE]

-----------------------------------------------------------------------------
(* ssh and the server. *)

HasRoom(t) == Len(s.tunnel[t].err) < MaxLines

SshAsks(t, question) ==
    /\ CanAsk(s.tunnel[t], question) /\ HasRoom(t)
    /\ s' = [s EXCEPT !.tunnel[t] = Asks(@, question)]

\* Then it ends, or asks for another password ("please try again").
SshFails(t) ==
    /\ CanWork(s.tunnel[t]) /\ HasRoom(t)
    /\ \E lines \in 1..2 : /\ lines = 2 => "banner" \in Mishaps
                           /\ s' = [s EXCEPT !.tunnel[t] = Fails(@, lines)]

SshLogsIn(t) ==
    /\ CanWork(s.tunnel[t])
    /\ s' = [s EXCEPT !.tunnel[t] = LogsIn(@)]

Waits(w, t) == s.waiter[w].tunnel = t /\ s.waiter[w].thread # "none"

\* ssh waits for its helper, so it does not end while it asks.
MayEnd(t) ==
    /\ s.tunnel[t].asks = "key" => "killed" \in Mishaps
    /\ /\ s.tunnel[t].loggedIn
       /\ s.tunnel[t].delegate # None \/ \E w \in Waiters : Waits(w, t)
       => "quit" \in Mishaps

SshEnds(t) ==
    /\ s.tunnel[t].ssh = "running"
    /\ MustEnd(s.tunnel[t]) \/ MayEnd(t)
    /\ s' = [s EXCEPT
               !.tunnel[t] = Ends(@),
               !.waiter = [w \in Waiters |->
                   IF Waits(w, t) /\ @[w].sock = "open"
                   THEN [@[w] EXCEPT !.sock = "hup"] ELSE @[w]]]

\* The far end of the tunnel cannot connect, or the VNC server hangs up.
HangsUp(w) ==
    /\ s.waiter[w].thread = "poll" /\ s.waiter[w].sock = "open"
    /\ LET d == [s EXCEPT !.waiter[w].sock = "hup"]
           t == s.waiter[w].tunnel
       IN \/ s' = d
          \/ HasRoom(t) /\ s' = [d EXCEPT !.tunnel[t].err = Append(@, "channel")]

-----------------------------------------------------------------------------
(* The thread, its messages, and the timer. *)

\* poll() also returns when cancel has closed the socket.
WaitForData(w) ==
    /\ s.waiter[w].thread = "poll"
    /\ \E message \in {"data", "closed"} :
          /\ CASE s.waiter[w].sock = "open" -> message = "data"
               [] s.waiter[w].sock = "hup" -> message = "closed"
               [] s.waiter[w].sock = "none" -> TRUE
          /\ s' = [s EXCEPT !.waiter[w].thread = message]

\* The session keeps the tunnel of its first connection.
FinishConnection(w) ==
    /\ s.waiter[w].thread = "data"
    /\ LET d == [s EXCEPT !.waiter[w].thread = "none"]
           t == s.waiter[w].tunnel
       IN s' = Settled(
            IF d.waiter[w].delegate # "set" THEN d
            ELSE [d EXCEPT
                    !.waiter[w].told = Append(@, "succeeded"),
                    !.waiter[w].sock = "none", !.waiter[w].tunnel = None,
                    !.tunnel[t] = SshTunnelConnected(@),
                    !.current = None, !.connected = TRUE,
                    !.kept = IF @ = None THEN t ELSE @])

\* Mutant: waits for an error of ssh, which may not come.
ServerClosedMutant(w) ==
    /\ s.waiter[w].thread = "closed"
    /\ s' = Settled([s EXCEPT !.waiter[w].thread = "none"])

\* ssh's error may explain it within half a second.
ServerClosed(w) ==
    /\ s.waiter[w].thread = "closed"
    /\ s' = Settled([s EXCEPT !.waiter[w].thread = "none",
                              !.waiter[w].timer = ~s.waiter[w].failed])

ServerClosedNoReason(w) ==
    /\ s.waiter[w].timer
    /\ s' = Settled(CloseTunnel(Error([s EXCEPT !.waiter[w].timer = FALSE], w),
                                s.waiter[w].tunnel))

-----------------------------------------------------------------------------
(* The user. *)

Sheet(w, sheet) == s.waiter[w].sheets # <<>> /\ Head(s.waiter[w].sheets) = sheet
EndSheet(w) == [s EXCEPT !.waiter[w].sheets = Tail(@)]
NoSheet == \A w \in Waiters : s.waiter[w].sheets = <<>>

\* Mutant: starts ssh without having found a port.
NewAttemptMutant(d, w, next) ==
    \E p \in (Ports \ d.portUsed) \cup {NoPort} :
        next = [d EXCEPT !.waiter[w].delegate = "set", !.current = w,
                         !.waiter[w].tunnel = w, !.tunnel[w] = Launch(p, w),
                         !.portUsed = @ \cup {p}]

\* A new attempt with a tunnel of its own.  Without a free port there is none;
\* without a FIFO the port is never given back.
NewAttempt(d, w, next) ==
    LET begun == [d EXCEPT !.waiter[w].delegate = "set", !.current = w]
    IN \/ d.portUsed = Ports /\ next = begun
       \/ \E p \in Ports \ d.portUsed, made \in BOOLEAN :
             LET taken == [begun EXCEPT !.portUsed = @ \cup {p}]
             IN next = IF made
                       THEN [taken EXCEPT !.tunnel[w] = Launch(p, w),
                                          !.waiter[w].tunnel = w]
                       ELSE taken

Fresh(w) == s.waiter[w].delegate = "unset"
Idle == s.current = None /\ NoSheet

ConnectToServer(w) ==
    /\ Idle /\ ~s.connected /\ Fresh(w)
    /\ NewAttempt(s, w, s')

\* The connection is lost, and beginReconnect uses the tunnel again.
Reconnect(w) ==
    /\ Idle /\ s.connected /\ s.kept # None /\ Fresh(w)
    /\ LET d == [s EXCEPT !.waiter[w].delegate = "set",
                          !.waiter[w].tunnel = s.kept,
                          !.current = w, !.connected = FALSE]
       IN \/ s.tunnel[s.kept].ssh = "running" /\ s' = Establish(d, w)
          \/ s' = Error(d, w)

ForceReconnect(w) ==
    /\ Idle /\ s.connected /\ Fresh(w)
    /\ NewAttempt([CloseTunnel(s, s.kept) EXCEPT
                     !.kept = None, !.connected = FALSE], w, s')

\* The window of the session is closed, or its user gives up.
EndSession ==
    /\ Idle /\ s.connected
    /\ s' = [CloseTunnel(s, s.kept) EXCEPT !.kept = None, !.connected = FALSE]

\* cancelConnect: or reconnectCancelled:, with cancel.
Cancel(w) ==
    /\ s.current = w /\ NoSheet
    /\ LET d == [CloseTunnel(s, s.waiter[w].tunnel) EXCEPT
                   !.waiter[w].delegate = "nil", !.waiter[w].sock = "none",
                   !.current = None, !.kept = None]
       IN s' = Settled(CloseTunnel(d, s.kept))

\* firstTime:returnCode:contextInfo:
AnswerKey(w) ==
    /\ Sheet(w, "key")
    /\ \E accept \in BOOLEAN :
          LET d == [EndSheet(w) EXCEPT
                      !.tunnel[s.waiter[w].tunnel] = AcceptKey(@, accept)]
          IN s' = Settled(IF accept THEN d ELSE ConnectionFailed(d, w))

AuthPasswordEntered(w) ==
    /\ Sheet(w, "password")
    /\ s' = [EndSheet(w) EXCEPT !.tunnel[s.waiter[w].tunnel] = UsePassword(@)]

AuthCancelled(w) ==
    /\ Sheet(w, "password")
    /\ s' = Settled(ConnectionFailed(
                CloseTunnel(EndSheet(w), s.waiter[w].tunnel), w))

ErrorDidEnd(w) ==
    /\ Sheet(w, "error")
    /\ s' = Settled(ConnectionFailed(EndSheet(w), w))

OfSsh(t) == \/ SshFails(t) \/ SshLogsIn(t) \/ SshEnds(t)
            \/ \E question \in Questions : SshAsks(t, question)
Notified(t) == ReadStderr(t) \/ ReadStdout(t) \/ SshTerminated(t)
OfMain(w) == FinishConnection(w) \/ ServerClosed(w) \/ ServerClosedNoReason(w)
OfUser(w) == \/ ConnectToServer(w) \/ Reconnect(w) \/ ForceReconnect(w)
             \/ Cancel(w) \/ AnswerKey(w) \/ AuthPasswordEntered(w)
             \/ AuthCancelled(w) \/ ErrorDidEnd(w)

Next == \/ \E w \in Waiters : \/ OfSsh(w) \/ Notified(w) \/ HangsUp(w)
                              \/ WaitForData(w) \/ OfMain(w) \/ OfUser(w)
        \/ EndSession

Spec == Init /\ [][Next]_s

\* Notifications, messages and timers are handled; poll() returns when there is
\* something to tell, a process that must end does, and an ssh that has failed
\* ends or asks again.
Fairness ==
    \A w \in Waiters :
        /\ WF_s(ReadStderr(w)) /\ WF_s(ReadStdout(w)) /\ WF_s(SshTerminated(w))
        /\ WF_s(OfMain(w))
        /\ WF_s(WaitForData(w) /\ s.waiter[w].sock = "hup")
        /\ WF_s(SshEnds(w) /\ MustEnd(s.tunnel[w]))
        /\ WF_s(/\ s.tunnel[w].asks = "again"
                /\ SshEnds(w) \/ SshAsks(w, "password"))

FairSpec == Spec /\ Fairness

-----------------------------------------------------------------------------
(* What must hold. *)

AttemptState ==
    [w \in Waiters |->
        LET a == s.waiter[w] IN
        IF Len(a.told) > 1 THEN "told again"
        ELSE IF a.told # <<>> THEN Head(a.told)
        ELSE IF a.delegate = "unset" THEN "none"
        ELSE IF a.delegate = "nil" THEN "cancelled"
        ELSE IF a.sheets = <<>> THEN "trying"
        ELSE IF Head(a.sheets) = "error" THEN "error" ELSE "asking"]

Delegates == INSTANCE Attempts WITH attempt <- AttemptState

\* The delegate is told once how an attempt has ended, whatever comes first of
\* ssh's messages, its end, the end of the connection, the timer and cancel
\* (tunnelHasFailed, serverClosed).
AnswersOnce == Delegates!Spec

\* A port belongs to one ssh at a time, and a FIFO with the port's name only
\* to that one (portUsed, findPortForTunnel, sshTerminated:).
PortIsExclusive ==
    \A t \in Waiters :
        s.tunnel[t].ssh = "running" \/ s.tunnel[t].fifo =>
            /\ s.tunnel[t].port \in s.portUsed
            /\ \A u \in Waiters \ {t} : s.tunnel[u].port # s.tunnel[t].port

\* "ssh process is waiting for us to provide some kind of response": while the
\* tunnel is in that state, its attempt asks the user, and an answer can reach
\* ssh (usePassword:, acceptKey:).
PromptIsAsked ==
    \A t \in Waiters : s.tunnel[t].state = "prompt" =>
        /\ s.tunnel[t].delegate # None
        /\ AttemptState[s.tunnel[t].delegate] = "asking"
        /\ s.tunnel[t].asks = Head(s.waiter[s.tunnel[t].delegate].sheets)
        /\ s.tunnel[t].ssh = "running" => s.tunnel[t].fifo

\* A tunnel only takes the transitions of the diagram in SshTunnel.m.
FollowsDiagram ==
    [][\A t \in Waiters :
          s.tunnel[t].state # s'.tunnel[t].state =>
              <<s.tunnel[t].state, s'.tunnel[t].state>> \in Diagram]_s

\* Ports, questions and states of the tunnels go together.
TunnelsMatch == [](PortIsExclusive /\ PromptIsAsked) /\ FollowsDiagram

\* If ssh has ended, or the server has hung up, an attempt does not go on.
EndIsSeen ==
    \A w \in Waiters :
        /\ AttemptState[w] = "trying"
        /\ \/ s.waiter[w].sock = "hup"
           \/ s.waiter[w].tunnel # None /\ s.tunnel[s.waiter[w].tunnel].ssh = "ended"
        ~> AttemptState[w] # "trying"

\* CLOSING is "ssh in proces of shutting down" (SshTunnel.m:35).
ClosingEndsSsh ==
    \A t \in Waiters :
        s.tunnel[t].state = "closing" ~> s.tunnel[t].ssh # "running"

=============================================================================
