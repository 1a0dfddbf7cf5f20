-------------------------------- MODULE Session --------------------------------
(***************************************************************************)
(* The life of a session: a window whose connection may be lost, refused or  *)
(* forced to start anew, with the sheets it shows meanwhile.                 *)
(*                                                                         *)
(* Each action is a handler on the main thread: of the connection, of the    *)
(* attempt to reconnect (see Attempts), of a timer or of the user.  Removed  *)
(* from the list of the RFBConnectionManager, a session is freed at once,    *)
(* unless one of its timers still retains it.                                *)
(***************************************************************************)
EXTENDS Naturals, FiniteSets

CONSTANTS Waiters,      \* the attempts to reconnect, used one after the other
          Mishaps       \* which of the following also happen:

\* "force": Force Reconnect is chosen while the password sheet is up;
\* "close": the window is closed before the reconnect sheet has appeared;
\* "write": the answer to the challenge cannot be written;
\* "refuse": a server that does not support reconnecting refuses the password.
ASSUME MishapAssumption == Mishaps \subseteq {"force", "close", "write", "refuse"}

None == "nil"
First == "first"        \* the connection the session begins with; another one
                        \*   has the name of the attempt it comes from
Connections == Waiters \cup {First}

ASSUME NameAssumption == {None, First} \cap Waiters = {}

VARIABLES s,            \* the Session, see SessionType
          supports      \* [server_ doYouSupport:CONNECT]

vars == <<s, supports>>

Attempt == INSTANCE Attempts WITH attempt <- s.attempts

SessionType ==
    [life : {"listed", "removed", "freed"},
     connection : Connections \cup {None},
     phase : {"none", "handshake", "asked", "tried", "started"},
     attached : SUBSET Connections,             \* know this session
     password : BOOLEAN,                        \* password # nil
     waiter : Waiters \cup {None},              \* _reconnectWaiter
     attempts : [Waiters -> Attempt!States],    \* that have it as delegate
     sheetTimer : Waiters \cup {None},          \* _reconnectSheetTimer
     timers : SUBSET Waiters,                   \* retain it until they fire
     passwordSheet : BOOLEAN,
     alert : BOOLEAN,                           \* "Connection terminated"
     reconnectPanel : BOOLEAN]

\* _reconnectSheetTimer never points to a timer that is no more.
TypeOK == /\ s \in SessionType /\ supports \in BOOLEAN
          /\ s.sheetTimer \in s.timers \cup {None}

Init ==
    /\ \E known \in BOOLEAN :
          s = [life |-> "listed", connection |-> First, phase |-> "handshake",
               attached |-> {First}, password |-> known, waiter |-> None,
               attempts |-> [w \in Waiters |-> "none"], sheetTimer |-> None,
               timers |-> {}, passwordSheet |-> FALSE, alert |-> FALSE,
               reconnectPanel |-> FALSE]
    /\ supports \in BOOLEAN

Underway(t, w) == t.attempts[w] \in {"trying", "error"}

-----------------------------------------------------------------------------
(* Methods. *)

\* connectionProblem, with the closeConnection it begins with
ConnectionProblem(t) ==
    [t EXCEPT !.attached = @ \ {t.connection}, !.connection = None,
              !.phase = "none"]

InvalidateSheetTimer(t) ==
    [t EXCEPT !.timers = @ \ {t.sheetTimer}, !.sheetTimer = None]

CancelWaiter(t) ==
    IF t.waiter # None /\ Underway(t, t.waiter)
    THEN [t EXCEPT !.attempts[t.waiter] = "cancelled"] ELSE t

\* Mutant: dealloc of a session leaves its connection as it is.
DeallocMutant(t) ==
    CancelWaiter(InvalidateSheetTimer(
        [t EXCEPT !.life = "freed", !.connection = None, !.phase = "none"]))

Dealloc(t) ==
    CancelWaiter(InvalidateSheetTimer(ConnectionProblem(
        [t EXCEPT !.life = "freed"])))

\* endSession and removeConnection:
EndSession(t) ==
    IF t.timers = {} THEN Dealloc(t) ELSE [t EXCEPT !.life = "removed"]

\* Mutant: no reconnect sheet will appear.
BeginReconnectMutant(t, w) ==
    [t EXCEPT !.waiter = w, !.attempts[w] = "trying"]

BeginReconnect(t, w) ==
    [t EXCEPT !.waiter = w, !.attempts[w] = "trying",
              !.sheetTimer = w, !.timers = @ \cup {w}]

\* auto: the connection had lasted, so that reconnecting needs no question.
TerminateConnection(t, auto, w) ==
    LET p == ConnectionProblem(t)
        alerted == [p EXCEPT !.alert = TRUE, !.passwordSheet = FALSE]
    IN  IF t.connection = None THEN t
        ELSE IF ~supports THEN alerted
        ELSE IF p.passwordSheet THEN p
        ELSE IF auto THEN BeginReconnect(p, w) ELSE alerted

\* A session that is gone handles nothing.
Alive == s.life # "freed"

\* A waiter that was not used before.
Fresh(w) == s.attempts[w] = "none"

\* What the attempt that is under way may tell next.
Goes(w, to) == Underway(s, w) /\ <<s.attempts[w], to>> \in Attempt!Steps

-----------------------------------------------------------------------------
(* Handlers of the connection. *)

\* The server asks for no password, or accepts it.
Start ==
    /\ Alive /\ s.phase \in {"handshake", "tried"}
    /\ s' = [s EXCEPT !.phase = "started"]
    /\ UNCHANGED supports

\* challenge: answers if there is a password, and asks the user otherwise.
Challenge ==
    /\ Alive /\ s.phase = "handshake"
    /\ s' = IF s.password THEN [s EXCEPT !.phase = "tried"]
            ELSE [s EXCEPT !.phase = "asked", !.passwordSheet = TRUE]
    /\ UNCHANGED supports

AuthenticationFailed ==
    /\ Alive /\ s.phase = "tried" /\ (supports \/ "refuse" \in Mishaps)
    /\ LET t == IF supports THEN s ELSE TerminateConnection(s, FALSE, None)
       IN s' = [ConnectionProblem(t) EXCEPT !.passwordSheet = TRUE]
    /\ UNCHANGED supports

\* terminateConnection: of any connection that knows the session.
ConnectionLost ==
    /\ Alive /\ s.attached # {}
    /\ \E auto \in BOOLEAN, w \in Waiters :
          /\ auto => Fresh(w)
          /\ s' = TerminateConnection(s, auto, w)
    /\ UNCHANGED supports

-----------------------------------------------------------------------------
(* Handlers of the attempt and of the timer. *)

\* connectionPrepareForSheet, before the error is shown.
PrepareForSheet(w) ==
    /\ Alive /\ Goes(w, "error")
    /\ s' = [InvalidateSheetTimer(s) EXCEPT !.attempts[w] = "error",
                                            !.reconnectPanel = FALSE]
    /\ UNCHANGED supports

ConnectionFailed(w) ==
    /\ Alive /\ Goes(w, "failed")
    /\ s' = EndSession([s EXCEPT !.attempts[w] = "failed"])
    /\ UNCHANGED supports

ConnectionSucceeded(w) ==
    /\ Alive /\ Goes(w, "succeeded")
    /\ s' = [InvalidateSheetTimer(s) EXCEPT
                !.attempts[w] = "succeeded", !.waiter = None,
                !.reconnectPanel = FALSE,
                !.connection = w, !.phase = "handshake",
                !.attached = @ \cup {w}]
    /\ UNCHANGED supports

\* Mutant: keeps the pointer to the timer that has fired.
CreateReconnectSheetMutant(timer) ==
    /\ Alive /\ timer \in s.timers
    /\ LET t == [s EXCEPT !.reconnectPanel = TRUE, !.timers = @ \ {timer}]
       IN s' = IF s.life = "removed" /\ t.timers = {} THEN Dealloc(t) ELSE t
    /\ UNCHANGED supports

\* The last timer of a session that was removed frees it.
CreateReconnectSheet(timer) ==
    /\ Alive /\ timer \in s.timers
    /\ LET t == [s EXCEPT !.reconnectPanel = TRUE, !.sheetTimer = None,
                          !.timers = @ \ {timer}]
       IN s' = IF s.life = "removed" /\ t.timers = {} THEN Dealloc(t) ELSE t
    /\ UNCHANGED supports

-----------------------------------------------------------------------------
(* The user. *)

\* Mutant: only passes the password on.
ReconnectWithNewPasswordMutant ==
    /\ Alive /\ s.passwordSheet
    /\ s' = [s EXCEPT !.password = TRUE, !.passwordSheet = FALSE,
                      !.phase = IF @ = "asked" THEN "tried" ELSE @]
    /\ UNCHANGED supports

\* reconnectWithNewPassword:, after which the sheet ends.
ReconnectWithNewPassword ==
    /\ Alive /\ s.passwordSheet
    /\ LET t == [s EXCEPT !.password = TRUE]
           answered == IF t.phase = "asked" THEN [t EXCEPT !.phase = "tried"]
                                            ELSE t
       IN \/ /\ s.connection # None
             /\ \E written \in BOOLEAN :
                   /\ ~written => s.phase = "asked" /\ "write" \in Mishaps
                   /\ s' = [IF written THEN answered
                                       ELSE TerminateConnection(t, FALSE, None)
                              EXCEPT !.passwordSheet = FALSE]
          \/ /\ s.connection = None
             /\ \E w \in Waiters :
                   /\ Fresh(w)
                   /\ s' = [BeginReconnect(t, w) EXCEPT !.passwordSheet = FALSE]
    /\ UNCHANGED supports

DontReconnect ==
    /\ Alive /\ s.passwordSheet
    /\ s' = EndSession([ConnectionProblem(s) EXCEPT !.passwordSheet = FALSE])
    /\ UNCHANGED supports

\* Mutant: leaves the connection open.
ForceReconnectMutant ==
    /\ Alive /\ s.connection # None /\ supports
    /\ s.passwordSheet => "force" \in Mishaps
    /\ \E w \in Waiters : Fresh(w) /\ s' = BeginReconnect(s, w)
    /\ UNCHANGED supports

\* forceReconnect:, which the menu offers as validateUserInterfaceItem: says.
ForceReconnect ==
    /\ Alive /\ s.connection # None /\ supports
    /\ s.passwordSheet => "force" \in Mishaps
    /\ \E w \in Waiters :
          Fresh(w) /\ s' = BeginReconnect(ConnectionProblem(s), w)
    /\ UNCHANGED supports

\* connectionTerminatedSheetDidEnd:, for the buttons of the alert.
AlertEnds ==
    /\ Alive /\ s.alert
    /\ LET t == [s EXCEPT !.alert = FALSE]
       IN \/ s' = EndSession(t)
          \/ supports /\ \E w \in Waiters : Fresh(w) /\ s' = BeginReconnect(t, w)
    /\ UNCHANGED supports

\* reconnectCancelled:
ReconnectCancelled ==
    /\ Alive /\ s.reconnectPanel
    /\ s' = EndSession([CancelWaiter(s) EXCEPT !.waiter = None,
                                               !.reconnectPanel = FALSE])
    /\ UNCHANGED supports

Sheet == \/ s.passwordSheet \/ s.alert \/ s.reconnectPanel
         \/ \E w \in Waiters : s.attempts[w] = "error"

\* windowWillClose:, which a sheet of the window prevents.
WindowWillClose ==
    /\ s.life = "listed" /\ ~Sheet
    /\ s.connection = None => "close" \in Mishaps
    /\ s' = EndSession(s)
    /\ UNCHANGED supports

OfConnection == Start \/ Challenge \/ AuthenticationFailed \/ ConnectionLost
OfAttempt(w) == \/ PrepareForSheet(w) \/ ConnectionFailed(w)
                \/ ConnectionSucceeded(w)
OfUser == \/ ReconnectWithNewPassword \/ DontReconnect \/ ForceReconnect
          \/ AlertEnds \/ ReconnectCancelled \/ WindowWillClose

Next == \/ OfConnection \/ OfUser
        \/ \E w \in Waiters : OfAttempt(w) \/ CreateReconnectSheet(w)

Spec == Init /\ [][Next]_vars

\* The run loop fires the timers.
FairSpec == Spec /\ \A w \in Waiters : WF_vars(CreateReconnectSheet(w))

-----------------------------------------------------------------------------
(* What must hold. *)

\* At most one sheet is up, and the reconnect sheet only while there is an
\* attempt that it can cancel (connectionPrepareForSheet, connectionSucceeded:).
OneSheet ==
    /\ Cardinality({x \in {"password", "alert", "panel", "error"} :
                      \/ x = "password" /\ s.passwordSheet
                      \/ x = "alert" /\ s.alert
                      \/ x = "panel" /\ s.reconnectPanel
                      \/ x = "error" /\ \E w \in Waiters :
                                           s.attempts[w] = "error"}) <= 1
    /\ s.reconnectPanel \/ s.sheetTimer # None =>
          s.waiter # None /\ s.attempts[s.waiter] = "trying"

\* A session has a connection or one attempt to reconnect, never two of them,
\* and the attempt is the one that cancel and dealloc know (beginReconnect);
\* it has one sheet.
OneAtATime ==
    /\ s.attached \subseteq {s.connection}
    /\ \A w \in Waiters :
          Underway(s, w) => s.connection = None /\ s.waiter = w
    /\ OneSheet

\* A listed session without a connection shows a sheet that leads on, or is
\* trying to reconnect: "Will reconnect to server when password entered"
\* (terminateConnection:).
NoDeadSession ==
    s.life = "listed" /\ s.connection = None =>
        \/ s.passwordSheet \/ s.alert
        \/ \E w \in Waiters : Underway(s, w)

\* When it is off the list, nothing has the session as a delegate, target or
\* session any more: cancel "prevents any future messages to the delegate"
\* (dealloc).
ClosedIsQuiet ==
    s.life # "listed" =>
        /\ s.attached = {} /\ s.timers = {} /\ ~Sheet
        /\ \A w \in Waiters : ~Underway(s, w)

\* However long an attempt takes, the user can cancel it
\* (startTimerForReconnectSheet).
CancelIsOffered ==
    \A w \in Waiters :
        s.attempts[w] = "trying" ~>
            s.reconnectPanel \/ s.attempts[w] # "trying"

=============================================================================
