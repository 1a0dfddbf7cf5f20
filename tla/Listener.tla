-------------------------------- MODULE Listener --------------------------------
(***************************************************************************)
(* The listener for reverse connections: ListenerController.  It listens on *)
(* an IPv4 and an IPv6 socket, each accepted in the background, and keeps a  *)
(* connection until it sends data, which makes it a session and stops the    *)
(* listener.  The other connections linger for a second, in which their data *)
(* still make them sessions.                                                *)
(*                                                                         *)
(* A step of the client is a handler of the main thread: a notification, a   *)
(* timer or the button.  The background work of NSFileHandle and the peers   *)
(* are external.                                                            *)
(***************************************************************************)
EXTENDS Naturals, FiniteSets

CONSTANTS Peers,        \* those who connect, once each
          Profiles      \* what the pop-up menu offers

NoProfile == "nil"

ASSUME ListenerAssumption == NoProfile \notin Profiles

Sockets == {0, 1}       \* IPv4 and IPv6

VARIABLES
    listening,          \* listeningSockets[i] # nil
    accepting,          \* a background accept is under way on socket i
    listeningProfile,
    fileHandles,        \* the connections that wait for data
    closeTimer,         \* the timer of closeLingering: runs
    resetErrorTimer,    \* the timer of clearError: runs
    status,             \* what statusText says
    at,                 \* where a connection is
    via,                \* the socket it has come through
    peer,               \* what its other end has done
    server              \* the profile its session was given

own == <<listening, accepting, listeningProfile, fileHandles, closeTimer,
         resetErrorTimer, status>>
listenerVars == <<own, at, via, peer, server>>

\* On a socket, accepted in the background, in fileHandles...
Places == {"away", "queued", "accepted", "kept", "session", "closed"}

ListenerTypeOK ==
    /\ listening \in [Sockets -> BOOLEAN]
    /\ accepting \in [Sockets -> BOOLEAN]
    /\ listeningProfile \in Profiles \cup {NoProfile}
    /\ fileHandles = {c \in Peers : at[c] = "kept"}
    /\ closeTimer \in BOOLEAN /\ resetErrorTimer \in BOOLEAN
    /\ status \in {"stopped", "running", "connected", "closed", "error"}
    /\ at \in [Peers -> Places]
    /\ via \in [Peers -> Sockets]
    /\ peer \in [Peers -> {"silent", "sent", "gone"}]
    /\ server \in [Peers -> Profiles \cup {NoProfile}]

ListenerInit ==
    /\ listening = [i \in Sockets |-> FALSE]
    /\ accepting = [i \in Sockets |-> FALSE]
    /\ listeningProfile = NoProfile
    /\ fileHandles = {}
    /\ closeTimer = FALSE /\ resetErrorTimer = FALSE
    /\ status = "stopped"
    /\ at = [c \in Peers |-> "away"]
    /\ via = [c \in Peers |-> 0]
    /\ peer = [c \in Peers |-> "silent"]
    /\ server = [c \in Peers |-> NoProfile]

Listens == listening[0]

-----------------------------------------------------------------------------
(* Methods the handlers call. *)

SetStatus(str) == status' = str /\ resetErrorTimer' = FALSE

\* Connections of the sockets, of which nobody is told once these are closed.
Unheard == {c \in Peers : at[c] \in {"queued", "accepted"}}

\* The connections in shut are closed, those in made become sessions.
Moved(shut, made) ==
    /\ at' = [c \in Peers |-> CASE c \in made -> "session"
                                [] c \in shut \ made -> "closed"
                                [] OTHER -> at[c]]
    /\ UNCHANGED via

NoSockets == /\ listening' = [i \in Sockets |-> FALSE]
             /\ accepting' = [i \in Sockets |-> FALSE]

\* stopListener, but for the connections
StopListener ==
    /\ NoSockets
    /\ listeningProfile' = NoProfile
    /\ SetStatus("stopped")

\* closeLingering:, but for the connections
CloseLingering == fileHandles' = {} /\ closeTimer' = FALSE

-----------------------------------------------------------------------------
(* The button. *)

\* startListenerOnPort:withProfile:localOnly:
StartListener(profile) ==
    \/ \* both can be opened
       /\ listening' = [i \in Sockets |-> TRUE]
       /\ accepting' = [i \in Sockets |-> TRUE]
       /\ listeningProfile' = profile
       /\ SetStatus("running")
    \/ \* one of them cannot, and the first is closed if it was the second
       /\ NoSockets
       /\ SetStatus("error")
       /\ UNCHANGED listeningProfile

ActionPressed ==
    /\ CloseLingering
    /\ Moved(fileHandles \cup (IF Listens THEN Unheard ELSE {}), {})
    /\ IF Listens THEN StopListener
                  ELSE \E profile \in Profiles : StartListener(profile)
    /\ UNCHANGED <<peer, server>>

-----------------------------------------------------------------------------
(* Notifications of connections and data. *)

\* Mutant: accepts again on one socket only.
ConnectionReceivedMutant(c) ==
    /\ at[c] = "accepted"
    /\ at' = [at EXCEPT ![c] = "kept"]
    /\ fileHandles' = fileHandles \cup {c}
    /\ SetStatus("connected")
    /\ accepting' = [accepting EXCEPT ![0] = listening[0]]
    /\ UNCHANGED <<listening, listeningProfile, closeTimer, via, peer,
                   server>>

\* connectionReceived: starts accepting on both sockets, whichever it was.
ConnectionReceived(c) ==
    /\ at[c] = "accepted"
    /\ at' = [at EXCEPT ![c] = "kept"]
    /\ fileHandles' = fileHandles \cup {c}
    /\ SetStatus("connected")
    /\ accepting' = listening
    /\ UNCHANGED <<listening, listeningProfile, closeTimer, via, peer,
                   server>>

\* Mutant: the handle stays among those that are waited for.
HangUpReceivedMutant(c) ==
    /\ c \in fileHandles /\ peer[c] = "gone"
    /\ at' = [at EXCEPT ![c] = "closed"]
    /\ status' = "closed" /\ resetErrorTimer' = TRUE
    /\ UNCHANGED <<listening, accepting, listeningProfile, fileHandles,
                   closeTimer, via, peer, server>>

\* dataReceived:, when poll() reports that the peer has hung up: the message
\* is cleared three minutes later.  The handle is let go.
HangUpReceived(c) ==
    /\ c \in fileHandles /\ peer[c] = "gone"
    /\ fileHandles' = fileHandles \ {c}
    /\ at' = [at EXCEPT ![c] = "closed"]
    /\ status' = "closed" /\ resetErrorTimer' = TRUE
    /\ UNCHANGED <<listening, accepting, listeningProfile, closeTimer, via,
                   peer, server>>

\* Mutant: counts the connection that has just sent its data.
DataReceivedMutant(c) ==
    /\ c \in fileHandles /\ peer[c] = "sent"
    /\ fileHandles' = fileHandles \ {c}
    /\ server' = [server EXCEPT ![c] = listeningProfile]
    /\ Moved(Unheard, {c})
    /\ StopListener
    /\ closeTimer' = (closeTimer \/ Cardinality(fileHandles \ {c}) > 1)
    /\ UNCHANGED peer

\* dataReceived:, when there is data: a session, with the profile chosen when
\* the listener was started.  Those who have not sent data get one second.
DataReceived(c) ==
    /\ c \in fileHandles /\ peer[c] = "sent"
    /\ fileHandles' = fileHandles \ {c}
    /\ server' = [server EXCEPT ![c] = listeningProfile]
    /\ Moved(Unheard, {c})
    /\ StopListener
    /\ closeTimer' = (closeTimer \/ fileHandles \ {c} # {})
    /\ UNCHANGED peer

-----------------------------------------------------------------------------
(* Timers. *)

CloseTimerFires ==
    /\ closeTimer
    /\ CloseLingering
    /\ Moved(fileHandles, {})
    /\ UNCHANGED <<listening, accepting, listeningProfile, resetErrorTimer,
                   status, peer, server>>

ClearError ==
    /\ resetErrorTimer
    /\ SetStatus(IF fileHandles # {} THEN "connected" ELSE "running")
    /\ UNCHANGED <<listening, accepting, listeningProfile, fileHandles,
                   closeTimer, at, via, peer, server>>

-----------------------------------------------------------------------------
(* The peers, and the background accept. *)

Connect(c, i) ==
    /\ at[c] = "away" /\ listening[i]
    /\ at' = [at EXCEPT ![c] = "queued"]
    /\ via' = [via EXCEPT ![c] = i]
    /\ UNCHANGED <<own, peer, server>>

Accept(c) ==
    /\ at[c] = "queued" /\ accepting[via[c]]
    /\ at' = [at EXCEPT ![c] = "accepted"]
    /\ accepting' = [accepting EXCEPT ![via[c]] = FALSE]
    /\ UNCHANGED <<listening, listeningProfile, fileHandles, closeTimer,
                   resetErrorTimer, status, via, peer, server>>

Sends(c) ==
    /\ at[c] \notin {"away", "closed", "session"} /\ peer[c] = "silent"
    /\ peer' = [peer EXCEPT ![c] = "sent"]
    /\ UNCHANGED <<own, at, via, server>>

HangsUp(c) ==
    /\ at[c] \notin {"away", "closed", "session"} /\ peer[c] # "gone"
    /\ peer' = [peer EXCEPT ![c] = "gone"]
    /\ UNCHANGED <<own, at, via, server>>

-----------------------------------------------------------------------------

ListenerNext ==
    \/ ActionPressed \/ CloseTimerFires \/ ClearError
    \/ \E c \in Peers :
        \/ ConnectionReceived(c) \/ HangUpReceived(c) \/ DataReceived(c)
        \/ Accept(c) \/ Sends(c) \/ HangsUp(c)
        \/ \E i \in Sockets : Connect(c, i)

ListenerSpec == ListenerInit /\ [][ListenerNext]_listenerVars

\* The run loop delivers notifications and fires timers, and NSFileHandle
\* accepts; nothing is assumed of the user and of the peers.
ListenerFairSpec ==
    /\ ListenerSpec
    /\ WF_listenerVars(CloseTimerFires)
    /\ \A c \in Peers :
        /\ WF_listenerVars(ConnectionReceived(c))
        /\ WF_listenerVars(HangUpReceived(c)) /\ WF_listenerVars(DataReceived(c))
        /\ WF_listenerVars(Accept(c))

-----------------------------------------------------------------------------
(* Properties. *)

\* Either protocol reaches the listener for as long as it runs: its sockets
\* are opened and closed together, and each is being accepted or has a
\* connection whose notification will start accepting again
\* (connectionReceived: starts both, whichever has accepted).
ListensOnBoth ==
    \A i \in Sockets :
        /\ listening[i] = Listens
        /\ listening[i] => \/ accepting[i]
                           \/ \E c \in Peers : at[c] = "accepted" /\ via[c] = i

\* The timer that takes an error message away never finds another message in
\* its place, and no message says that a running listener is off: setStatus:
\* invalidates the timer whoever calls it, and the handlers call it last.
StatusIsOwn ==
    /\ resetErrorTimer => status = "closed"
    /\ Listens => status \notin {"stopped", "error"}

\* A connection that sends no data does not outlive the listener for long:
\* whichever connection has stopped it, the others are closed a second later,
\* unless they become sessions by then (dataReceived:, closeLingering:).
LingerersGo ==
    \A c \in Peers : (c \in fileHandles /\ ~Listens) ~> (c \notin fileHandles)

\* A connection that becomes a session is given the profile its listener was
\* started with (dataReceived:).
HandedWithProfile == \A c \in Peers : at[c] = "session" => server[c] \in Profiles

=============================================================================
