------------------------------- MODULE SshTunnel -------------------------------
(***************************************************************************)
(* One tunnel: the SshTunnel object and the ssh process that it has started. *)
(* Everything here is an operator on one tunnel; SshWaiter has the handlers, *)
(* which also change the attempt that waits for the tunnel.                  *)
(*                                                                         *)
(* ssh asks its questions through a helper, which writes them to ssh's       *)
(* stderr and waits for the answer at a FIFO.  What ssh writes is read in    *)
(* the background, and a notification of what was read is a handler.         *)
(***************************************************************************)
EXTENDS Naturals, SequencesExt

CONSTANTS Ports,        \* TUNNEL_PORT_START to TUNNEL_PORT_END
          Owners        \* whom a tunnel may have as its delegate

None == "nil"
NoPort == 0

ASSUME TunnelAssumption == Ports \subseteq Nat \ {NoPort} /\ None \notin Owners

States == {"opening", "prompt", "tunneling", "open", "closing"}

\* The transitions of the diagram in SshTunnel.m:38-65.
Diagram ==
    {<<"opening", "prompt">>, <<"prompt", "opening">>,
     <<"opening", "tunneling">>, <<"tunneling", "open">>} \cup
    ((States \ {"closing"}) \X {"closing"})

\* A line of ssh's stderr, or its end: a question of the helper, a failure of
\* ssh, or of one connection through the tunnel ("channel 2: open failed").
Questions == {"key", "password"}
Lines == Questions \cup {"failed", "channel", "eof"}

TunnelType ==
    [ssh: {"none", "running", "ended"},
     asks: Questions \cup {"new", "no", "again", "over"},   \* what it is
                            \*   asking; "new" before its first question,
                            \*   "again" once it has failed, and "over" once
                            \*   the user has refused its key
     loggedIn: BOOLEAN,
     terminated: BOOLEAN,                   \* [task terminate] was called
     input: BOOLEAN,                        \* sshIn is open
     blank: BOOLEAN,                        \* the line of "echo", not read yet
     err: Seq(Lines),                       \* lines of stderr, not read yet
     state: States,
     delegate: Owners \cup {None},
     port: Ports \cup {NoPort},             \* localPort
     fifo: BOOLEAN]                         \* the FIFO exists

NoTunnel ==
    [ssh |-> "none", asks |-> "new", loggedIn |-> FALSE, terminated |-> FALSE,
     input |-> FALSE, blank |-> FALSE, err |-> <<>>, state |-> "opening",
     delegate |-> None, port |-> NoPort, fifo |-> FALSE]

-----------------------------------------------------------------------------
(* Methods. *)

\* initWithServer:delegate:, once there are a port and a FIFO.
Launch(p, w) ==
    [NoTunnel EXCEPT !.ssh = "running", !.input = TRUE, !.delegate = w,
                     !.port = p, !.fifo = TRUE]

\* close: while ssh is TUNNELING, neither of its ways to end ssh is taken.
Close(t) ==
    [t EXCEPT !.terminated = @ \/ t.state \in {"opening", "prompt"},
              !.input = @ /\ t.state \notin {"opening", "prompt", "open"},
              !.state = "closing", !.delegate = None]

\* writeToHelper: the helper passes the answer on, if it is still there.
WriteToHelper(t, answer) ==
    IF t.state # "prompt" THEN t
    ELSE [t EXCEPT !.asks = IF t.fifo /\ @ \in Questions THEN answer ELSE @,
                   !.state = "opening"]

UsePassword(t) == WriteToHelper(t, "no")

AcceptKey(t, accept) ==
    IF accept THEN WriteToHelper(t, "no")
    ELSE [WriteToHelper(t, "over") EXCEPT !.state = "closing"]

SshTunnelConnected(t) == [t EXCEPT !.state = "open", !.delegate = None]

-----------------------------------------------------------------------------
(* ssh. *)

CanWork(t) ==
    /\ t.ssh = "running" /\ t.asks \in {"new", "no"}
    /\ ~t.terminated /\ ~t.loggedIn

\* It asks about the server's key first.
CanAsk(t, question) ==
    IF question = "key" THEN CanWork(t) /\ t.asks = "new"
    ELSE CanWork(t) \/ (t.ssh = "running" /\ t.asks = "again" /\ ~t.terminated)

Asks(t, question) ==
    [t EXCEPT !.asks = question, !.err = Append(@, question)]

Fails(t, lines) ==
    [t EXCEPT !.asks = "again", !.err = @ \o [i \in 1..lines |-> "failed"]]

LogsIn(t) == [t EXCEPT !.loggedIn = TRUE, !.blank = TRUE]

Ends(t) == [t EXCEPT !.ssh = "ended", !.err = Append(@, "eof")]

\* It must end when it is told to; "cat" ends with its input.
MustEnd(t) ==
    /\ t.ssh = "running"
    /\ t.terminated \/ t.asks = "over" \/ (t.loggedIn /\ ~t.input)
=============================================================================
