----------------------------- MODULE SessionProofs -----------------------------
(***************************************************************************)
(* That a session is never in two minds, for any number of attempts to       *)
(* reconnect: it has one connection or one attempt, shows one sheet, and     *)
(* when it is gone nothing refers to it.  The theorems name the mishaps      *)
(* (see Session) that each of these promises survives.                       *)
(*                                                                         *)
(* At the end, the other way to a session: the listener, for any peers.      *)
(***************************************************************************)
EXTENDS Session, Listener, FiniteSetTheorems, TLAPS

\* One connection or one attempt, and the timer of that attempt only.
Alone ==
    /\ s.attached \subseteq {s.connection} /\ s.timers \subseteq {s.sheetTimer}
    /\ \A w \in Waiters : Underway(s, w) => s.connection = None /\ s.waiter = w

\* When each sheet may be up: the one of the reconnect timer has yet to come.
Sheets ==
    /\ s.reconnectPanel \/ s.sheetTimer # None =>
          s.waiter # None /\ s.attempts[s.waiter] = "trying"
    /\ ~(s.reconnectPanel /\ s.sheetTimer # None)
    /\ ~(s.passwordSheet /\ s.alert)
    /\ s.passwordSheet \/ s.alert => \A w \in Waiters : ~Underway(s, w)
    /\ s.connection # None => ~s.alert /\ (s.passwordSheet => s.phase = "asked")
    /\ s.phase # "none" => s.connection # None

\* A session that is removed is freed at once, for no timer retains it.
Gone == s.life # "removed" /\ (s.life = "freed" => ClosedIsQuiet)

IInv == TypeOK /\ Alone /\ Sheets /\ Gone

\* A session whose pointer to its timer is good, as every method leaves it.
TypedSession == {t \in SessionType : t.sheetTimer \in t.timers \cup {None}}

-----------------------------------------------------------------------------
(* The methods. *)

LEMMA Names == None # First /\ None \notin Waiters /\ First \notin Waiters
               /\ None \notin Connections /\ Waiters \subseteq Connections
BY NameAssumption DEF None, First, Connections

LEMMA ConnectionProblemType ==
    ASSUME NEW t \in TypedSession
    PROVE  ConnectionProblem(t) \in TypedSession
BY DEF ConnectionProblem, TypedSession, SessionType

LEMMA InvalidateType ==
    ASSUME NEW t \in TypedSession
    PROVE  InvalidateSheetTimer(t) \in TypedSession
BY DEF InvalidateSheetTimer, TypedSession, SessionType

LEMMA CancelType ==
    ASSUME NEW t \in TypedSession
    PROVE  CancelWaiter(t) \in TypedSession
BY DEF CancelWaiter, TypedSession, SessionType, Attempt!States

LEMMA BeginReconnectType ==
    ASSUME NEW t \in TypedSession, NEW w \in Waiters
    PROVE  BeginReconnect(t, w) \in TypedSession
BY DEF BeginReconnect, TypedSession, SessionType, Attempt!States

LEMMA DeallocType ==
    ASSUME NEW t \in TypedSession
    PROVE  Dealloc(t) \in TypedSession
<1>1. [t EXCEPT !.life = "freed"] \in TypedSession
  BY DEF TypedSession, SessionType
<1> QED BY <1>1, ConnectionProblemType, InvalidateType, CancelType DEF Dealloc

LEMMA EndSessionType ==
    ASSUME NEW t \in TypedSession
    PROVE  EndSession(t) \in TypedSession
<1>1. [t EXCEPT !.life = "removed"] \in TypedSession
  BY DEF TypedSession, SessionType
<1> QED BY <1>1, DeallocType DEF EndSession

LEMMA TerminateType ==
    ASSUME NEW t \in TypedSession, NEW auto \in BOOLEAN, NEW w,
           auto => w \in Waiters
    PROVE  TerminateConnection(t, auto, w) \in TypedSession
<1> DEFINE p == ConnectionProblem(t)
<1>1. p \in TypedSession
  BY ConnectionProblemType
<1> HIDE DEF p
<1>2. [p EXCEPT !.alert = TRUE, !.passwordSheet = FALSE] \in TypedSession
  BY <1>1 DEF TypedSession, SessionType
<1>3. auto => BeginReconnect(p, w) \in TypedSession
  BY <1>1, BeginReconnectType
<1> QED BY <1>1, <1>2, <1>3 DEF TerminateConnection, p

LEMMA TypedTypeOK == TypeOK <=> s \in TypedSession /\ supports \in BOOLEAN
BY DEF TypeOK, TypedSession

LEMMA AttemptType ==
    ASSUME NEW t \in TypedSession, NEW w \in Waiters,
           NEW to \in {"error", "failed", "succeeded"}
    PROVE  [t EXCEPT !.attempts[w] = to] \in TypedSession
BY DEF TypedSession, SessionType, Attempt!States

-----------------------------------------------------------------------------
(* Types, whatever mishaps there are. *)

LEMMA ConnectionTypeStep ==
    ASSUME s \in TypedSession, OfConnection
    PROVE  s' \in TypedSession
<1>1. CASE Start \/ Challenge
  <2>1. \A phase \in {"tried", "started"} :
            [s EXCEPT !.phase = phase] \in TypedSession
    BY DEF TypedSession, SessionType
  <2>2. [s EXCEPT !.phase = "asked", !.passwordSheet = TRUE] \in TypedSession
    BY DEF TypedSession, SessionType
  <2> QED BY <1>1, <2>1, <2>2 DEF Start, Challenge
<1>2. CASE AuthenticationFailed
  <2> DEFINE t == IF supports THEN s ELSE TerminateConnection(s, FALSE, None)
  <2>1. t \in TypedSession
    BY TerminateType
  <2> HIDE DEF t
  <2>2. ConnectionProblem(t) \in TypedSession
    BY <2>1, ConnectionProblemType
  <2>3. s' = [ConnectionProblem(t) EXCEPT !.passwordSheet = TRUE]
    BY <1>2 DEF AuthenticationFailed, t
  <2> QED BY <2>2, <2>3 DEF TypedSession, SessionType
<1>3. CASE ConnectionLost
  BY <1>3, TerminateType DEF ConnectionLost
<1> QED BY <1>1, <1>2, <1>3 DEF OfConnection

LEMMA AttemptTypeStep ==
    ASSUME s \in TypedSession, NEW w \in Waiters,
           OfAttempt(w) \/ CreateReconnectSheet(w)
    PROVE  s' \in TypedSession
<1>1. InvalidateSheetTimer(s) \in TypedSession
  BY InvalidateType
<1>2. CASE PrepareForSheet(w)
  BY <1>1, <1>2 DEF PrepareForSheet, TypedSession, SessionType, Attempt!States
<1>3. CASE ConnectionFailed(w)
  <2> DEFINE t == [s EXCEPT !.attempts[w] = "failed"]
  <2>1. t \in TypedSession
    BY AttemptType
  <2>2. s' = EndSession(t)
    BY <1>3 DEF ConnectionFailed
  <2> HIDE DEF t
  <2> QED BY <2>1, <2>2, EndSessionType
<1>4. CASE ConnectionSucceeded(w)
  BY <1>1, <1>4, Names
     DEF ConnectionSucceeded, TypedSession, SessionType, Attempt!States
<1>5. CASE CreateReconnectSheet(w)
  <2> DEFINE t == [s EXCEPT !.reconnectPanel = TRUE, !.sheetTimer = None,
                            !.timers = @ \ {w}]
  <2>1. t \in TypedSession
    BY DEF TypedSession, SessionType
  <2> HIDE DEF t
  <2>2. s' = t \/ s' = Dealloc(t)
    BY <1>5 DEF CreateReconnectSheet, t
  <2> QED BY <2>1, <2>2, DeallocType
<1> QED BY <1>2, <1>3, <1>4, <1>5 DEF OfAttempt

LEMMA UserTypeStep ==
    ASSUME s \in TypedSession, OfUser
    PROVE  s' \in TypedSession
<1>1. CASE ReconnectWithNewPassword
  <2> DEFINE t == [s EXCEPT !.password = TRUE]
             answered == IF t.phase = "asked" THEN [t EXCEPT !.phase = "tried"]
                                              ELSE t
  <2>1. t \in TypedSession /\ answered \in TypedSession
    BY DEF TypedSession, SessionType
  <2>2. TerminateConnection(t, FALSE, None) \in TypedSession
    BY <2>1, TerminateType
  <2>3. \A w \in Waiters : BeginReconnect(t, w) \in TypedSession
    BY <2>1, BeginReconnectType
  <2>4. \A u \in TypedSession : [u EXCEPT !.passwordSheet = FALSE] \in TypedSession
    BY DEF TypedSession, SessionType
  <2>5. \E u \in TypedSession : s' = [u EXCEPT !.passwordSheet = FALSE]
    <3> HIDE DEF t
    <3>1. CASE \E written \in BOOLEAN :
                  s' = [IF written THEN answered
                                   ELSE TerminateConnection(t, FALSE, None)
                          EXCEPT !.passwordSheet = FALSE]
      BY <2>1, <2>2, <3>1
    <3>2. CASE \E w \in Waiters :
                  s' = [BeginReconnect(t, w) EXCEPT !.passwordSheet = FALSE]
      BY <2>3, <3>2
    <3> QED BY <1>1, <3>1, <3>2 DEF ReconnectWithNewPassword, t
  <2> QED BY <2>4, <2>5
<1>2. CASE DontReconnect
  <2>1. ConnectionProblem(s) \in TypedSession
    BY ConnectionProblemType
  <2>2. [ConnectionProblem(s) EXCEPT !.passwordSheet = FALSE] \in TypedSession
    BY <2>1 DEF TypedSession, SessionType
  <2> QED BY <1>2, <2>2, EndSessionType DEF DontReconnect
<1>3. CASE ForceReconnect
  BY <1>3, ConnectionProblemType, BeginReconnectType DEF ForceReconnect
<1>4. CASE AlertEnds
  <2> DEFINE t == [s EXCEPT !.alert = FALSE]
  <2>1. t \in TypedSession
    BY DEF TypedSession, SessionType
  <2> HIDE DEF t
  <2>2. s' = EndSession(t) \/ \E w \in Waiters : s' = BeginReconnect(t, w)
    BY <1>4 DEF AlertEnds, t
  <2> QED BY <2>1, <2>2, EndSessionType, BeginReconnectType
<1>5. CASE ReconnectCancelled
  <2>1. CancelWaiter(s) \in TypedSession
    BY CancelType
  <2>2. [CancelWaiter(s) EXCEPT !.waiter = None, !.reconnectPanel = FALSE]
            \in TypedSession
    BY <2>1 DEF TypedSession, SessionType
  <2> QED BY <1>5, <2>2, EndSessionType DEF ReconnectCancelled
<1>6. CASE WindowWillClose
  BY <1>6, EndSessionType DEF WindowWillClose
<1> QED BY <1>1, <1>2, <1>3, <1>4, <1>5, <1>6 DEF OfUser

LEMMA InitFields ==
    ASSUME Init
    PROVE  /\ TypeOK /\ s.life = "listed" /\ s.connection = First
           /\ s.phase = "handshake" /\ s.attached = {First}
           /\ s.attempts = [w \in Waiters |-> "none"] /\ s.sheetTimer = None
           /\ s.timers = {} /\ s.passwordSheet = FALSE /\ s.alert = FALSE
           /\ s.reconnectPanel = FALSE
<1> DEFINE fresh == [w \in Waiters |-> "none"]
<1>1. fresh \in [Waiters -> Attempt!States]
  BY DEF Attempt!States
<1>2. First \in Connections /\ supports \in BOOLEAN
  BY DEF Connections, Init
<1> HIDE DEF fresh
<1>3. PICK known \in BOOLEAN :
          s = [life |-> "listed", connection |-> First, phase |-> "handshake",
               attached |-> {First}, password |-> known, waiter |-> None,
               attempts |-> fresh, sheetTimer |-> None, timers |-> {},
               passwordSheet |-> FALSE, alert |-> FALSE,
               reconnectPanel |-> FALSE]
  BY DEF Init, fresh
<1>4. s \in SessionType
  BY <1>1, <1>2, <1>3 DEF SessionType
<1> QED BY <1>2, <1>3, <1>4 DEF TypeOK, fresh

LEMMA TypeStep ==
    ASSUME TypeOK, [Next]_vars
    PROVE  TypeOK'
<1>1. SUFFICES ASSUME s \in TypedSession, supports \in BOOLEAN
               PROVE  s' \in TypedSession /\ supports' \in BOOLEAN
  BY TypedTypeOK DEF TypeOK, TypedSession
<1>2. CASE UNCHANGED vars
  BY <1>1, <1>2 DEF vars
<1>3. CASE OfConnection
  BY <1>1, <1>3, ConnectionTypeStep
     DEF OfConnection, Start, Challenge, AuthenticationFailed, ConnectionLost
<1>4. CASE OfUser
  BY <1>1, <1>4, UserTypeStep
     DEF OfUser, ReconnectWithNewPassword, DontReconnect, ForceReconnect,
         AlertEnds, ReconnectCancelled, WindowWillClose
<1>5. ASSUME NEW w \in Waiters, OfAttempt(w) \/ CreateReconnectSheet(w)
      PROVE  s' \in TypedSession /\ supports' \in BOOLEAN
  BY <1>1, <1>5, AttemptTypeStep
     DEF OfAttempt, PrepareForSheet, ConnectionFailed, ConnectionSucceeded,
         CreateReconnectSheet
<1> QED BY <1>1, <1>2, <1>3, <1>4, <1>5 DEF Next

\* _reconnectSheetTimer never points to a timer that is no more, even when an
\* attempt begins while another is still under way.
THEOREM TypeCorrect == Spec => []TypeOK
<1>1. Init => TypeOK
  BY InitFields
<1>2. TypeOK /\ [Next]_vars => TypeOK'
  BY TypeStep
<1> QED BY <1>1, <1>2, PTL DEF Spec

-----------------------------------------------------------------------------
(* What the methods leave. *)

LEMMA NoneUnderway ==
    ASSUME IInv, \A w \in Waiters : ~Underway(s, w)
    PROVE  /\ s.reconnectPanel = FALSE /\ s.sheetTimer = None /\ s.timers = {}
<1>1. s \in SessionType /\ s.timers \subseteq {s.sheetTimer}
  BY DEF IInv, TypeOK, Alone
<1>2. ~s.reconnectPanel /\ s.sheetTimer = None
  <2>1. SUFFICES ASSUME s.reconnectPanel \/ s.sheetTimer # None
                 PROVE  FALSE
    OBVIOUS
  <2>2. s.waiter # None /\ s.attempts[s.waiter] = "trying"
    BY <2>1 DEF IInv, Sheets
  <2>3. s.waiter \in Waiters
    BY <1>1, <2>2 DEF SessionType
  <2> QED BY <2>2, <2>3 DEF Underway
<1>3. s.timers = {}
  BY <1>1, <1>2, Names DEF SessionType
<1> QED BY <1>1, <1>2, <1>3 DEF SessionType

LEMMA Connected ==
    ASSUME IInv, s.connection # None
    PROVE  /\ \A w \in Waiters : ~Underway(s, w)
           /\ s.reconnectPanel = FALSE /\ s.sheetTimer = None /\ s.timers = {}
           /\ s.alert = FALSE
           /\ s.passwordSheet => s.phase = "asked"
           /\ s.attached \subseteq {s.connection}
<1>1. \A w \in Waiters : ~Underway(s, w)
  BY DEF IInv, Alone
<1>2. s.alert = FALSE /\ (s.passwordSheet => s.phase = "asked")
  BY DEF IInv, Sheets, TypeOK, SessionType
<1>3. s.attached \subseteq {s.connection}
  BY DEF IInv, Alone
<1> QED BY <1>1, <1>2, <1>3, NoneUnderway

LEMMA ListedAlive ==
    ASSUME IInv, Alive
    PROVE  s.life = "listed"
BY DEF IInv, TypeOK, SessionType, Gone, Alive

LEMMA ProblemFields ==
    ASSUME NEW t \in SessionType
    PROVE  LET p == ConnectionProblem(t) IN
           /\ p \in SessionType /\ p.life = t.life /\ p.connection = None
           /\ p.phase = "none" /\ p.attached = t.attached \ {t.connection}
           /\ p.waiter = t.waiter /\ p.attempts = t.attempts
           /\ p.sheetTimer = t.sheetTimer /\ p.timers = t.timers
           /\ p.passwordSheet = t.passwordSheet /\ p.alert = t.alert
           /\ p.reconnectPanel = t.reconnectPanel
BY DEF ConnectionProblem, SessionType

LEMMA BeginReconnectFields ==
    ASSUME NEW t \in SessionType, NEW w \in Waiters
    PROVE  /\ BeginReconnect(t, w) \in SessionType
           /\ BeginReconnect(t, w).passwordSheet = t.passwordSheet
           /\ [BeginReconnect(t, w) EXCEPT !.passwordSheet = FALSE].passwordSheet
                  = FALSE
BY DEF BeginReconnect, SessionType, Attempt!States

\* A session that begins to reconnect while nothing else is going on.
LEMMA Begins ==
    ASSUME TypeOK', NEW w \in Waiters, NEW t \in SessionType,
           s' = BeginReconnect(t, w) \/
               s' = [BeginReconnect(t, w) EXCEPT !.passwordSheet = FALSE],
           t.life = "listed", t.connection = None, t.phase = "none",
           t.attached = {}, t.timers = {}, ~t.alert, ~t.reconnectPanel,
           ~s'.passwordSheet, \A v \in Waiters : ~Underway(t, v)
    PROVE  IInv'
<1>1. /\ s'.life = "listed" /\ s'.connection = None /\ s'.phase = "none"
      /\ s'.attached = {} /\ s'.timers = {w} /\ s'.sheetTimer = w
      /\ s'.waiter = w /\ s'.attempts = [t.attempts EXCEPT ![w] = "trying"]
      /\ ~s'.alert /\ ~s'.reconnectPanel
  BY DEF BeginReconnect, SessionType
<1>2. s'.attempts[w] = "trying" /\ \A v \in Waiters \ {w} : ~Underway(s', v)
  BY <1>1 DEF Underway, SessionType
<1>3. Alone'
  BY <1>1, <1>2 DEF Alone
<1>4. Sheets'
  BY <1>1, <1>2, Names DEF Sheets
<1>5. Gone'
  BY <1>1 DEF Gone
<1> QED BY <1>3, <1>4, <1>5 DEF IInv

\* A session that is freed when no timer retains it.
LEMMA Ends ==
    ASSUME TypeOK', NEW t \in SessionType, s' = EndSession(t), t.timers = {},
           t.attached \subseteq {t.connection}, ~t.passwordSheet, ~t.alert,
           ~t.reconnectPanel, \A w \in Waiters : Underway(t, w) => t.waiter = w
    PROVE  IInv'
<1> DEFINE u == [t EXCEPT !.life = "freed"]
           p == ConnectionProblem(u)
           q == InvalidateSheetTimer(p)
<1>1. s' = CancelWaiter(q)
  BY DEF EndSession, Dealloc
<1>2. /\ u \in SessionType /\ u.life = "freed" /\ u.connection = t.connection
      /\ u.attached = t.attached /\ u.timers = {} /\ u.waiter = t.waiter
      /\ u.attempts = t.attempts /\ ~u.passwordSheet /\ ~u.alert
      /\ ~u.reconnectPanel
  BY DEF SessionType
<1> HIDE DEF u
<1>3. /\ p \in SessionType /\ p.life = "freed" /\ p.connection = None
      /\ p.phase = "none" /\ p.attached = {} /\ p.timers = {}
      /\ p.waiter = t.waiter /\ p.attempts = t.attempts
      /\ ~p.passwordSheet /\ ~p.alert /\ ~p.reconnectPanel
  BY <1>2, ProblemFields
<1> HIDE DEF p
<1>4. /\ q \in SessionType /\ q.life = "freed" /\ q.connection = None
      /\ q.phase = "none" /\ q.attached = {} /\ q.timers = {}
      /\ q.waiter = t.waiter /\ q.attempts = t.attempts /\ q.sheetTimer = None
      /\ ~q.passwordSheet /\ ~q.alert /\ ~q.reconnectPanel
  BY <1>3 DEF InvalidateSheetTimer, SessionType
<1> HIDE DEF q
<1>5. /\ s'.life = "freed" /\ s'.connection = None /\ s'.phase = "none"
      /\ s'.attached = {} /\ s'.timers = {} /\ s'.sheetTimer = None
      /\ ~s'.passwordSheet /\ ~s'.alert /\ ~s'.reconnectPanel
  BY <1>1, <1>4 DEF CancelWaiter, SessionType
<1>6. \A w \in Waiters : ~Underway(s', w)
  <2>1. CASE q.waiter # None /\ Underway(q, q.waiter)
    <3>1. q.waiter \in Waiters
      BY <1>4, <2>1 DEF SessionType
    <3>2. s'.attempts = [q.attempts EXCEPT ![q.waiter] = "cancelled"]
      BY <1>1, <1>4, <2>1 DEF CancelWaiter, SessionType
    <3> QED BY <1>4, <3>1, <3>2 DEF Underway, SessionType
  <2>2. CASE ~(q.waiter # None /\ Underway(q, q.waiter))
    BY <1>1, <1>4, <2>2, Names DEF CancelWaiter, Underway
  <2> QED BY <2>1, <2>2
<1>7. ~Sheet'
  BY <1>5, <1>6 DEF Sheet, Underway
<1>8. Alone' /\ Sheets'
  BY <1>5, <1>6 DEF Alone, Sheets
<1>9. Gone'
  BY <1>5, <1>6, <1>7 DEF Gone, ClosedIsQuiet
<1> QED BY <1>8, <1>9 DEF IInv

\* Session r is t without its connection, and may show the alert.
Loses(t, r) ==
    /\ r \in SessionType /\ r.life = t.life /\ r.connection = None
    /\ r.phase = "none" /\ r.attached = t.attached \ {t.connection}
    /\ r.attempts = t.attempts /\ r.sheetTimer = t.sheetTimer
    /\ r.timers = t.timers /\ r.reconnectPanel = t.reconnectPanel
    /\ \/ r.alert = TRUE /\ r.passwordSheet = FALSE
       \/ r.alert = t.alert /\ r.passwordSheet = t.passwordSheet

\* terminateConnection: asks the user what to do, or reconnects.
LEMMA TerminateFields ==
    ASSUME NEW t \in SessionType, NEW auto \in BOOLEAN, NEW w,
           t.connection # None
    PROVE  \/ Loses(t, TerminateConnection(t, auto, w))
           \/ /\ auto /\ ~t.passwordSheet
              /\ TerminateConnection(t, auto, w) =
                     BeginReconnect(ConnectionProblem(t), w)
<1> DEFINE p == ConnectionProblem(t)
           alerted == [p EXCEPT !.alert = TRUE, !.passwordSheet = FALSE]
<1>1. /\ p \in SessionType /\ p.life = t.life /\ p.connection = None
      /\ p.phase = "none" /\ p.attached = t.attached \ {t.connection}
      /\ p.waiter = t.waiter /\ p.attempts = t.attempts
      /\ p.sheetTimer = t.sheetTimer /\ p.timers = t.timers
      /\ p.passwordSheet = t.passwordSheet /\ p.alert = t.alert
      /\ p.reconnectPanel = t.reconnectPanel
  BY ProblemFields
<1> HIDE DEF p
<1>2. Loses(t, p) /\ Loses(t, alerted)
  BY <1>1 DEF Loses, SessionType
<1>3. \/ TerminateConnection(t, auto, w) = p
      \/ TerminateConnection(t, auto, w) = alerted
      \/ /\ auto /\ ~t.passwordSheet
         /\ TerminateConnection(t, auto, w) = BeginReconnect(p, w)
  BY <1>1 DEF TerminateConnection, p
<1> HIDE DEF alerted
<1> QED BY <1>2, <1>3 DEF p

\* A session that neither reconnects nor ends.
LEMMA Settles ==
    ASSUME TypeOK', s'.life = "listed", s'.attached \subseteq {s'.connection},
           s'.timers = {}, s'.sheetTimer = None, ~s'.reconnectPanel,
           \A w \in Waiters : ~Underway(s', w),
           ~(s'.passwordSheet /\ s'.alert),
           s'.connection # None =>
               ~s'.alert /\ (s'.passwordSheet => s'.phase = "asked"),
           s'.phase # "none" => s'.connection # None
    PROVE  IInv'
<1>1. Alone' /\ Sheets' /\ Gone'
  BY DEF Alone, Sheets, Gone
<1> QED BY <1>1 DEF IInv

-----------------------------------------------------------------------------
(* The handlers, without the mishaps that put a session in two minds. *)

Calm == Mishaps \cap {"force", "close", "refuse"} = {}

LEMMA ConnectionStep ==
    ASSUME IInv, Calm, TypeOK', OfConnection
    PROVE  IInv'
<1>1. s \in SessionType /\ s.life = "listed"
  BY ListedAlive DEF IInv, TypeOK, OfConnection, Start, Challenge,
     AuthenticationFailed, ConnectionLost
<1>2. s.connection # None
  <2>1. s.phase # "none" => s.connection # None
    BY DEF IInv, Sheets
  <2>2. s.attached # {} => s.connection # None
    BY <1>1, Names DEF IInv, Alone, SessionType
  <2> QED BY <2>1, <2>2 DEF OfConnection, Start, Challenge,
          AuthenticationFailed, ConnectionLost
<1>3. /\ \A w \in Waiters : ~Underway(s, w)
      /\ s.reconnectPanel = FALSE /\ s.sheetTimer = None /\ s.timers = {}
      /\ s.alert = FALSE /\ (s.passwordSheet => s.phase = "asked")
      /\ s.attached \subseteq {s.connection}
  BY <1>2, Connected
<1>4. CASE Start \/ Challenge
  <2>1. /\ s'.life = s.life /\ s'.attached = s.attached
        /\ s'.connection = s.connection /\ s'.timers = s.timers
        /\ s'.sheetTimer = s.sheetTimer /\ s'.attempts = s.attempts
        /\ s'.reconnectPanel = s.reconnectPanel /\ s'.alert = s.alert
        /\ s'.passwordSheet => s'.phase = "asked"
    <3>1. CASE s' = [s EXCEPT !.phase = "started"] /\ s.phase # "asked"
      BY <1>1, <1>3, <3>1 DEF SessionType
    <3>2. CASE s' = [s EXCEPT !.phase = "tried"] /\ s.phase # "asked"
      BY <1>1, <1>3, <3>2 DEF SessionType
    <3>3. CASE s' = [s EXCEPT !.phase = "asked", !.passwordSheet = TRUE]
      BY <1>1, <1>3, <3>3 DEF SessionType
    <3> QED BY <1>4, <3>1, <3>2, <3>3 DEF Start, Challenge
  <2> QED BY <1>1, <1>2, <1>3, <2>1, Settles DEF Underway
<1>5. CASE AuthenticationFailed
  <2>1. s' = [ConnectionProblem(s) EXCEPT !.passwordSheet = TRUE]
    BY <1>5 DEF AuthenticationFailed, Calm
  <2>2. /\ s'.life = s.life /\ s'.attached = {} /\ s'.connection = None
        /\ s'.phase = "none" /\ s'.timers = {} /\ s'.sheetTimer = None
        /\ s'.attempts = s.attempts /\ ~s'.reconnectPanel /\ ~s'.alert
    BY <1>1, <1>3, <2>1 DEF ConnectionProblem, SessionType
  <2> QED BY <1>1, <1>3, <2>2, Settles DEF Underway
<1>6. CASE ConnectionLost
  <2>1. PICK auto \in BOOLEAN, w \in Waiters :
            s' = TerminateConnection(s, auto, w)
    BY <1>6 DEF ConnectionLost
  <2>2. CASE s' = BeginReconnect(ConnectionProblem(s), w) /\ ~s.passwordSheet
    <3> DEFINE p == ConnectionProblem(s)
    <3>1. /\ p \in SessionType /\ p.life = "listed" /\ p.connection = None
          /\ p.phase = "none" /\ p.attached = {} /\ p.timers = {} /\ ~p.alert
          /\ ~p.reconnectPanel /\ ~p.passwordSheet /\ p.attempts = s.attempts
      BY <1>1, <1>3, <2>2, ProblemFields
    <3> HIDE DEF p
    <3>2. s' = BeginReconnect(p, w)
      BY <2>2 DEF p
    <3>3. ~s'.passwordSheet /\ \A v \in Waiters : ~Underway(p, v)
      BY <1>3, <3>1, <3>2 DEF BeginReconnect, SessionType, Underway
    <3> QED BY <3>1, <3>2, <3>3, Begins
  <2>3. CASE Loses(s, s')
    BY <1>1, <1>3, <2>3, Settles DEF Underway, Loses
  <2> QED BY <1>1, <1>2, <2>1, <2>2, <2>3, TerminateFields
<1> QED BY <1>4, <1>5, <1>6 DEF OfConnection

\* While an attempt is under way, it is the only thing that is.
LEMMA Attempting ==
    ASSUME IInv, NEW w \in Waiters, Underway(s, w)
    PROVE  /\ s.connection = None /\ s.waiter = w /\ s.attached = {}
           /\ s.phase = "none" /\ ~s.passwordSheet /\ ~s.alert
           /\ \A v \in Waiters \ {w} : ~Underway(s, v)
           /\ s.attempts[w] = "error" =>
                 ~s.reconnectPanel /\ s.sheetTimer = None /\ s.timers = {}
<1>1. s.connection = None /\ s.waiter = w
      /\ \A v \in Waiters \ {w} : ~Underway(s, v)
  BY DEF IInv, Alone
<1>2. s.attached = {}
  BY <1>1, Names DEF IInv, Alone, TypeOK, SessionType
<1>3. s.phase = "none" /\ ~s.passwordSheet /\ ~s.alert
  BY <1>1 DEF IInv, Sheets
<1>4. s.attempts[w] = "error" => ~s.reconnectPanel /\ s.sheetTimer = None
  BY <1>1 DEF IInv, Sheets
<1>5. s.sheetTimer = None => s.timers = {}
  BY Names DEF IInv, Alone, TypeOK, SessionType
<1> QED BY <1>1, <1>2, <1>3, <1>4, <1>5

LEMMA AttemptStep ==
    ASSUME IInv, TypeOK', NEW w \in Waiters, OfAttempt(w)
    PROVE  IInv'
<1>1. s \in SessionType /\ s.life = "listed" /\ Underway(s, w)
      /\ s.timers \subseteq {s.sheetTimer}
  BY ListedAlive DEF IInv, Alone, TypeOK, OfAttempt, PrepareForSheet,
     ConnectionFailed, ConnectionSucceeded, Goes
<1>2. /\ s.connection = None /\ s.waiter = w /\ s.attached = {}
      /\ s.phase = "none" /\ ~s.passwordSheet /\ ~s.alert
      /\ \A v \in Waiters \ {w} : ~Underway(s, v)
      /\ s.attempts[w] = "error" =>
            ~s.reconnectPanel /\ s.sheetTimer = None /\ s.timers = {}
  BY <1>1, Attempting
<1>3. CASE PrepareForSheet(w)
  <2>1. /\ s'.life = "listed" /\ s'.connection = None /\ s'.waiter = w
        /\ s'.attached = {} /\ s'.phase = "none" /\ s'.timers = {}
        /\ s'.sheetTimer = None /\ ~s'.reconnectPanel /\ ~s'.passwordSheet
        /\ ~s'.alert /\ s'.attempts = [s.attempts EXCEPT ![w] = "error"]
    BY <1>1, <1>2, <1>3
       DEF PrepareForSheet, InvalidateSheetTimer, SessionType
  <2>2. \A v \in Waiters \ {w} : ~Underway(s', v)
    BY <1>1, <1>2, <2>1 DEF Underway, SessionType
  <2>3. Alone' /\ Sheets' /\ Gone'
    BY <2>1, <2>2 DEF Alone, Sheets, Gone
  <2> QED BY <2>3 DEF IInv
<1>4. CASE ConnectionFailed(w)
  <2> DEFINE t == [s EXCEPT !.attempts[w] = "failed"]
  <2>1. s.attempts[w] = "error"
    BY <1>1, <1>4 DEF ConnectionFailed, Goes, Underway, Attempt!Steps
  <2>2. t \in SessionType
    BY <1>1 DEF SessionType, Attempt!States
  <2>3. /\ t.timers = {} /\ t.attached = {} /\ ~t.passwordSheet /\ ~t.alert
        /\ ~t.reconnectPanel /\ t.attempts = [s.attempts EXCEPT ![w] = "failed"]
    BY <1>1, <1>2, <2>1 DEF SessionType
  <2>4. s' = EndSession(t)
    BY <1>4 DEF ConnectionFailed
  <2> HIDE DEF t
  <2>5. \A v \in Waiters : ~Underway(t, v)
    BY <1>1, <1>2, <2>3 DEF Underway, SessionType
  <2> QED BY <2>2, <2>3, <2>4, <2>5, Ends
<1>5. CASE ConnectionSucceeded(w)
  <2>1. /\ s'.life = "listed" /\ s'.connection = w /\ s'.attached = {w}
        /\ s'.timers = {} /\ s'.sheetTimer = None /\ ~s'.reconnectPanel
        /\ ~s'.passwordSheet /\ ~s'.alert
        /\ s'.attempts = [s.attempts EXCEPT ![w] = "succeeded"]
    BY <1>1, <1>2, <1>5
       DEF ConnectionSucceeded, InvalidateSheetTimer, SessionType
  <2>2. \A v \in Waiters : ~Underway(s', v)
    BY <1>1, <1>2, <2>1 DEF Underway, SessionType
  <2> QED BY <2>1, <2>2, Names, Settles
<1> QED BY <1>3, <1>4, <1>5 DEF OfAttempt

LEMMA TimerStep ==
    ASSUME IInv, TypeOK', NEW timer \in Waiters, CreateReconnectSheet(timer)
    PROVE  IInv'
<1>1. s \in SessionType /\ s.life = "listed" /\ timer = s.sheetTimer
      /\ s.timers = {timer} /\ timer # None
  BY ListedAlive, Names DEF IInv, Alone, TypeOK, CreateReconnectSheet
<1>2. s.waiter \in Waiters /\ s.attempts[s.waiter] = "trying"
  BY <1>1 DEF IInv, Sheets, SessionType
<1>3. PICK w \in Waiters : w = s.waiter /\ Underway(s, w)
  BY <1>2 DEF Underway
<1>4. /\ s.connection = None /\ s.attached = {} /\ s.phase = "none"
      /\ ~s.passwordSheet /\ ~s.alert
      /\ \A v \in Waiters \ {w} : ~Underway(s, v)
  BY <1>3, Attempting
<1>5. s' = [s EXCEPT !.reconnectPanel = TRUE, !.sheetTimer = None,
                     !.timers = @ \ {timer}]
  BY <1>1 DEF CreateReconnectSheet
<1>6. /\ s'.life = "listed" /\ s'.connection = None /\ s'.waiter = w
      /\ s'.attached = {} /\ s'.phase = "none" /\ s'.timers = {}
      /\ s'.sheetTimer = None /\ ~s'.passwordSheet /\ ~s'.alert
      /\ s'.attempts = s.attempts
  BY <1>1, <1>3, <1>4, <1>5 DEF SessionType
<1>7. Alone' /\ Sheets' /\ Gone'
  BY <1>2, <1>3, <1>4, <1>6, Names DEF Alone, Sheets, Gone, Underway
<1> QED BY <1>7 DEF IInv

LEMMA PasswordStep ==
    ASSUME IInv, Calm, TypeOK', ReconnectWithNewPassword
    PROVE  IInv'
<1> DEFINE t == [s EXCEPT !.password = TRUE]
           answered == IF t.phase = "asked" THEN [t EXCEPT !.phase = "tried"]
                                            ELSE t
<1>1. s \in SessionType /\ s.life = "listed" /\ s.passwordSheet
  BY ListedAlive DEF IInv, TypeOK, ReconnectWithNewPassword
<1>2. \A w \in Waiters : ~Underway(s, w)
  BY <1>1 DEF IInv, Sheets
<1>3. /\ ~s.reconnectPanel /\ s.sheetTimer = None /\ s.timers = {} /\ ~s.alert
      /\ s.attached \subseteq {s.connection}
      /\ s.phase # "none" => s.connection # None
  BY <1>1, <1>2, NoneUnderway DEF IInv, Sheets, Alone
<1>4. /\ t \in SessionType /\ t.life = s.life /\ t.connection = s.connection
      /\ t.phase = s.phase /\ t.attached = s.attached /\ t.attempts = s.attempts
      /\ t.sheetTimer = None /\ t.timers = {} /\ t.passwordSheet /\ ~t.alert
      /\ ~t.reconnectPanel
  BY <1>1, <1>3 DEF SessionType
<1> HIDE DEF t
<1>5. CASE s.connection # None /\ s' = [answered EXCEPT !.passwordSheet = FALSE]
  <2>1. /\ s'.life = s.life /\ s'.connection = s.connection
        /\ s'.attached = s.attached /\ s'.attempts = s.attempts
        /\ s'.sheetTimer = None /\ s'.timers = {} /\ ~s'.passwordSheet
        /\ ~s'.alert /\ ~s'.reconnectPanel
    BY <1>4, <1>5 DEF SessionType
  <2> QED BY <1>1, <1>2, <1>3, <1>5, <2>1, Settles DEF Underway
<1>6. CASE /\ s.connection # None
           /\ s' = [TerminateConnection(t, FALSE, None)
                      EXCEPT !.passwordSheet = FALSE]
  <2> DEFINE r == TerminateConnection(t, FALSE, None)
  <2>1. Loses(t, r)
    BY <1>4, <1>6, TerminateFields
  <2>2. s' = [r EXCEPT !.passwordSheet = FALSE]
    BY <1>6
  <2> HIDE DEF r
  <2>3. /\ s'.life = s.life /\ s'.connection = None /\ s'.phase = "none"
        /\ s'.attached = {} /\ s'.attempts = s.attempts
        /\ s'.sheetTimer = None /\ s'.timers = {} /\ ~s'.passwordSheet
        /\ ~s'.reconnectPanel
    BY <1>3, <1>4, <2>1, <2>2 DEF Loses, SessionType
  <2> QED BY <1>1, <1>2, <2>3, Settles DEF Underway
<1>7. ASSUME NEW w \in Waiters, s.connection = None,
             s' = [BeginReconnect(t, w) EXCEPT !.passwordSheet = FALSE]
      PROVE  IInv'
  <2>1. s.attached = {} /\ s.phase = "none"
    BY <1>1, <1>3, <1>7, Names DEF SessionType
  <2>2. ~s'.passwordSheet
    BY <1>4, <1>7, BeginReconnectFields
  <2>3. \A v \in Waiters : ~Underway(t, v)
    BY <1>2, <1>4 DEF Underway
  <2> QED BY <1>1, <1>4, <1>7, <2>1, <2>2, <2>3, Begins
<1> QED BY <1>5, <1>6, <1>7 DEF ReconnectWithNewPassword, t

\* The other things a user may do.
LEMMA UserStep ==
    ASSUME IInv, Calm, TypeOK', OfUser
    PROVE  IInv'
<1>1. s \in SessionType /\ s.life = "listed" /\ s.attached \subseteq {s.connection}
  BY ListedAlive DEF IInv, Alone, TypeOK, OfUser, ReconnectWithNewPassword,
     DontReconnect, ForceReconnect, AlertEnds, ReconnectCancelled,
     WindowWillClose
<1>2. CASE ReconnectWithNewPassword
  BY <1>2, PasswordStep
<1>3. CASE DontReconnect
  <2> DEFINE p == ConnectionProblem(s)
             t == [p EXCEPT !.passwordSheet = FALSE]
  <2>1. /\ \A w \in Waiters : ~Underway(s, w)
        /\ ~s.alert
    BY <1>3 DEF DontReconnect, IInv, Sheets
  <2>2. ~s.reconnectPanel /\ s.timers = {}
    BY <2>1, NoneUnderway
  <2>3. /\ p \in SessionType /\ p.attached = {} /\ p.timers = {} /\ ~p.alert
        /\ ~p.reconnectPanel /\ p.attempts = s.attempts
    BY <1>1, <2>1, <2>2, ProblemFields
  <2> HIDE DEF p
  <2>4. /\ t \in SessionType /\ t.attached = {} /\ t.timers = {} /\ ~t.alert
        /\ ~t.reconnectPanel /\ ~t.passwordSheet /\ t.attempts = s.attempts
    BY <2>3 DEF SessionType
  <2>5. s' = EndSession(t)
    BY <1>3 DEF DontReconnect, p
  <2> HIDE DEF t
  <2> QED BY <2>1, <2>4, <2>5, Ends DEF Underway
<1>4. CASE ForceReconnect
  <2> DEFINE p == ConnectionProblem(s)
  <2>1. s.connection # None /\ ~s.passwordSheet
    BY <1>4 DEF ForceReconnect, Calm
  <2>2. /\ \A w \in Waiters : ~Underway(s, w)
        /\ ~s.reconnectPanel /\ s.timers = {} /\ ~s.alert
    BY <2>1, Connected
  <2>3. /\ p \in SessionType /\ p.life = "listed" /\ p.connection = None
        /\ p.phase = "none" /\ p.attached = {} /\ p.timers = {} /\ ~p.alert
        /\ ~p.reconnectPanel /\ ~p.passwordSheet /\ p.attempts = s.attempts
    BY <1>1, <2>1, <2>2, ProblemFields
  <2>4. PICK w \in Waiters : s' = BeginReconnect(p, w)
    BY <1>4 DEF ForceReconnect
  <2> HIDE DEF p
  <2>5. ~s'.passwordSheet /\ \A v \in Waiters : ~Underway(p, v)
    BY <2>2, <2>3, <2>4, BeginReconnectFields DEF Underway
  <2> QED BY <2>3, <2>4, <2>5, Begins
<1>5. CASE AlertEnds
  <2> DEFINE t == [s EXCEPT !.alert = FALSE]
  <2>1. /\ \A w \in Waiters : ~Underway(s, w)
        /\ ~s.passwordSheet /\ s.connection = None /\ s.phase = "none"
    BY <1>5 DEF AlertEnds, IInv, Sheets
  <2>2. ~s.reconnectPanel /\ s.timers = {} /\ s.attached = {}
    <3>1. ~s.reconnectPanel /\ s.timers = {}
      BY <2>1, NoneUnderway
    <3>2. s.attached = {}
      BY <1>1, <2>1, Names DEF SessionType
    <3> QED BY <3>1, <3>2
  <2>3. /\ t \in SessionType /\ t.life = "listed" /\ t.connection = None
        /\ t.phase = "none" /\ t.attached = {} /\ t.timers = {} /\ ~t.alert
        /\ ~t.reconnectPanel /\ ~t.passwordSheet /\ t.attempts = s.attempts
    BY <1>1, <2>1, <2>2 DEF SessionType
  <2>4. s' = EndSession(t) \/ \E w \in Waiters : s' = BeginReconnect(t, w)
    BY <1>5 DEF AlertEnds
  <2> HIDE DEF t
  <2>5. \A v \in Waiters : ~Underway(t, v)
    BY <2>1, <2>3 DEF Underway
  <2>6. CASE s' = EndSession(t)
    BY <2>3, <2>5, <2>6, Ends
  <2>7. ASSUME NEW w \in Waiters, s' = BeginReconnect(t, w)
        PROVE  IInv'
    BY <2>3, <2>5, <2>7, BeginReconnectFields, Begins
  <2> QED BY <2>4, <2>6, <2>7
<1>6. CASE ReconnectCancelled
  <2> DEFINE c == CancelWaiter(s)
             t == [c EXCEPT !.waiter = None, !.reconnectPanel = FALSE]
  <2>1. /\ s.reconnectPanel /\ s.waiter \in Waiters
        /\ s.attempts[s.waiter] = "trying" /\ s.sheetTimer = None
    BY <1>1, <1>6 DEF ReconnectCancelled, IInv, Sheets, SessionType
  <2>2. PICK w \in Waiters : w = s.waiter /\ Underway(s, w)
    BY <2>1 DEF Underway
  <2>3. /\ s.attached = {} /\ ~s.passwordSheet /\ ~s.alert
        /\ \A v \in Waiters \ {w} : ~Underway(s, v)
    BY <2>2, Attempting
  <2>4. s.timers = {}
    BY <1>1, <2>1, Names DEF IInv, Alone, SessionType
  <2>5. c = [s EXCEPT !.attempts[w] = "cancelled"]
    BY <2>2, Names DEF CancelWaiter
  <2>6. /\ t \in SessionType /\ t.attached = {} /\ t.timers = {}
        /\ ~t.passwordSheet /\ ~t.alert /\ ~t.reconnectPanel
        /\ t.attempts = [s.attempts EXCEPT ![w] = "cancelled"]
    <3>1. [s.attempts EXCEPT ![w] = "cancelled"] \in [Waiters -> Attempt!States]
      BY <1>1 DEF SessionType, Attempt!States
    <3>2. /\ c \in SessionType /\ c.attached = {} /\ c.timers = {}
          /\ ~c.passwordSheet /\ ~c.alert
          /\ c.attempts = [s.attempts EXCEPT ![w] = "cancelled"]
      BY <1>1, <2>3, <2>4, <2>5, <3>1 DEF SessionType
    <3> HIDE DEF c
    <3> QED BY <3>2 DEF SessionType
  <2>7. s' = EndSession(t)
    BY <1>6 DEF ReconnectCancelled
  <2> HIDE DEF t
  <2>8. \A v \in Waiters : ~Underway(t, v)
    BY <1>1, <2>3, <2>6 DEF Underway, SessionType
  <2> QED BY <2>6, <2>7, <2>8, Ends
<1>7. CASE WindowWillClose
  <2>1. s.connection # None /\ ~Sheet /\ s' = EndSession(s)
    BY <1>7 DEF WindowWillClose, Calm
  <2>2. /\ \A w \in Waiters : ~Underway(s, w)
        /\ s.timers = {}
    BY <2>1, Connected
  <2>3. ~s.passwordSheet /\ ~s.alert /\ ~s.reconnectPanel
    BY <2>1 DEF Sheet
  <2> QED BY <1>1, <2>1, <2>2, <2>3, Ends
<1> QED BY <1>2, <1>3, <1>4, <1>5, <1>6, <1>7 DEF OfUser

-----------------------------------------------------------------------------
(* The theorems. *)

LEMMA InitIInv ==
    ASSUME Init
    PROVE  IInv
<1>1. /\ TypeOK /\ s.life = "listed" /\ s.connection = First
      /\ s.phase = "handshake" /\ s.attached = {First}
      /\ s.attempts = [w \in Waiters |-> "none"] /\ s.sheetTimer = None
      /\ s.timers = {} /\ s.passwordSheet = FALSE /\ s.alert = FALSE
      /\ s.reconnectPanel = FALSE
  BY InitFields
<1>2. \A w \in Waiters : ~Underway(s, w)
  BY <1>1 DEF Underway
<1>3. Alone /\ Sheets /\ Gone
  BY <1>1, <1>2, Names DEF Alone, Sheets, Gone
<1> QED BY <1>1, <1>3 DEF IInv

LEMMA NextIInv ==
    ASSUME IInv, Calm, [Next]_vars
    PROVE  IInv'
<1>1. TypeOK'
  BY TypeStep DEF IInv
<1>2. CASE OfConnection
  BY <1>1, <1>2, ConnectionStep
<1>3. CASE OfUser
  BY <1>1, <1>3, UserStep
<1>4. ASSUME NEW w \in Waiters, OfAttempt(w) \/ CreateReconnectSheet(w)
      PROVE  IInv'
  BY <1>1, <1>4, AttemptStep, TimerStep
<1>5. CASE UNCHANGED vars
  BY <1>5 DEF vars, IInv, TypeOK, Alone, Sheets, Gone, ClosedIsQuiet, Sheet
<1> QED BY <1>2, <1>3, <1>4, <1>5 DEF Next

\* What a session shows, waits for and is known to go together, as long as
\* none of those three mishaps happens; an answer may fail to be written.
THEOREM Invariant ==
    ASSUME Calm
    PROVE  Spec => []IInv
<1>1. Init => IInv
  BY InitIInv
<1>2. IInv /\ [Next]_vars => IInv'
  BY NextIInv
<1> QED BY <1>1, <1>2, PTL DEF Spec

\* A set with no two elements.
LEMMA AtMostOne ==
    ASSUME NEW S, \A x \in S, y \in S : x = y
    PROVE  Cardinality(S) <= 1
<1>1. CASE S = {}
  BY <1>1, FS_EmptySet
<1>2. CASE S # {}
  <2>1. PICK x : S = {x}
    BY <1>2
  <2> QED BY <2>1, FS_Singleton
<1> QED BY <1>1, <1>2

LEMMA SheetsOne ==
    ASSUME IInv
    PROVE  OneSheet
<1> DEFINE error == \E w \in Waiters : s.attempts[w] = "error"
           Up(x) == \/ x = "password" /\ s.passwordSheet
                    \/ x = "alert" /\ s.alert
                    \/ x = "panel" /\ s.reconnectPanel
                    \/ x = "error" /\ error
           up == {x \in {"password", "alert", "panel", "error"} : Up(x)}
<1>1. error => ~s.passwordSheet /\ ~s.alert /\ ~s.reconnectPanel
  BY Attempting DEF Underway
<1>2. s.reconnectPanel => ~s.passwordSheet /\ ~s.alert
  <2>1. SUFFICES ASSUME s.reconnectPanel
                 PROVE  ~s.passwordSheet /\ ~s.alert
    OBVIOUS
  <2>2. s.waiter # None /\ s.attempts[s.waiter] = "trying"
    BY <2>1 DEF IInv, Sheets
  <2>3. s.waiter \in Waiters
    BY <2>2 DEF IInv, TypeOK, SessionType
  <2> QED BY <2>2, <2>3, Attempting DEF Underway
<1>3. ~(s.passwordSheet /\ s.alert)
  BY DEF IInv, Sheets
<1>4. \A x \in up, y \in up : x = y
  <2> HIDE DEF error
  <2> QED BY <1>1, <1>2, <1>3
<1>5. Cardinality(up) <= 1
  <2> HIDE DEF up
  <2> QED BY <1>4, AtMostOne
<1>6. s.reconnectPanel \/ s.sheetTimer # None =>
          s.waiter # None /\ s.attempts[s.waiter] = "trying"
  BY DEF IInv, Sheets
<1> QED BY <1>5, <1>6 DEF OneSheet

\* A session has its connection or one attempt that cancel knows of, and one
\* sheet, whatever comes first of an error, a timer and the user.
THEOREM NeverTwo ==
    ASSUME Calm
    PROVE  Spec => []OneAtATime
<1>1. IInv => OneAtATime
  BY SheetsOne DEF IInv, Alone, OneAtATime
<1> QED BY <1>1, Invariant, PTL

\* When a session is off the list, no connection, attempt, timer or sheet
\* refers to it.
THEOREM LeavesNothing ==
    ASSUME Calm
    PROVE  Spec => []ClosedIsQuiet
<1>1. IInv => ClosedIsQuiet
  BY DEF IInv, Gone, TypeOK, SessionType, ClosedIsQuiet
<1> QED BY <1>1, Invariant, PTL

-----------------------------------------------------------------------------
(* A session is never dead: this holds as long as answers can be written,    *)
(* even in the sessions that are in two minds.                              *)

Lively(t) ==
    t.life = "listed" /\ t.connection = None =>
        t.passwordSheet \/ t.alert \/ \E w \in Waiters : Underway(t, w)

LEMMA DeallocLife ==
    ASSUME NEW t \in SessionType
    PROVE  Dealloc(t).life = "freed"
<1> DEFINE u == [t EXCEPT !.life = "freed"]
           p == ConnectionProblem(u)
           q == InvalidateSheetTimer(p)
<1>1. u \in SessionType /\ u.life = "freed"
  BY DEF SessionType
<1> HIDE DEF u
<1>2. p \in SessionType /\ p.life = "freed"
  BY <1>1, ProblemFields
<1> HIDE DEF p
<1>3. q \in SessionType /\ q.life = "freed"
  BY <1>2 DEF InvalidateSheetTimer, SessionType
<1> HIDE DEF q
<1>4. CancelWaiter(q).life = "freed"
  BY <1>3 DEF CancelWaiter, SessionType
<1> QED BY <1>4 DEF Dealloc, u, p, q

LEMMA EndsLively ==
    ASSUME NEW t \in SessionType
    PROVE  Lively(EndSession(t))
<1>1. EndSession(t).life # "listed"
  <2>1. [t EXCEPT !.life = "removed"].life = "removed"
    BY DEF SessionType
  <2> QED BY <2>1, DeallocLife DEF EndSession
<1> QED BY <1>1 DEF Lively

LEMMA BeginsLively ==
    ASSUME NEW t \in SessionType, NEW w \in Waiters
    PROVE  /\ Lively(BeginReconnect(t, w))
           /\ Lively([BeginReconnect(t, w) EXCEPT !.passwordSheet = FALSE])
<1>1. /\ BeginReconnect(t, w).attempts[w] = "trying"
      /\ [BeginReconnect(t, w) EXCEPT !.passwordSheet = FALSE].attempts[w]
             = "trying"
  BY DEF BeginReconnect, SessionType
<1> QED BY <1>1 DEF Lively, Underway

LEMMA TerminatesLively ==
    ASSUME NEW t \in SessionType, Lively(t), NEW auto \in BOOLEAN,
           NEW w \in Waiters
    PROVE  Lively(TerminateConnection(t, auto, w))
<1> DEFINE p == ConnectionProblem(t)
           alerted == [p EXCEPT !.alert = TRUE, !.passwordSheet = FALSE]
<1>1. p \in SessionType
  BY ProblemFields
<1> HIDE DEF p
<1>2. alerted.alert = TRUE
  BY <1>1 DEF SessionType
<1>3. \/ TerminateConnection(t, auto, w) \in {t, alerted, BeginReconnect(p, w)}
      \/ TerminateConnection(t, auto, w) = p /\ p.passwordSheet
  BY DEF TerminateConnection, p
<1>4. Lively(alerted) /\ (p.passwordSheet => Lively(p))
  <2> HIDE DEF alerted
  <2> QED BY <1>2 DEF Lively
<1> HIDE DEF alerted
<1> QED BY <1>1, <1>3, <1>4, BeginsLively

LEMMA LivelyStep ==
    ASSUME TypeOK, Lively(s), "write" \notin Mishaps, [Next]_vars
    PROVE  Lively(s')
<1>1. s \in SessionType
  BY DEF TypeOK
<1>2. CASE UNCHANGED vars
  BY <1>2 DEF vars
<1>3. CASE Start \/ Challenge
  <2>1. /\ s'.life = s.life /\ s'.connection = s.connection
        /\ s'.alert = s.alert /\ s'.attempts = s.attempts
        /\ s.passwordSheet => s'.passwordSheet
    <3>1. CASE s' = [s EXCEPT !.phase = "started"]
      BY <1>1, <3>1 DEF SessionType
    <3>2. CASE s' = [s EXCEPT !.phase = "tried"]
      BY <1>1, <3>2 DEF SessionType
    <3>3. CASE s' = [s EXCEPT !.phase = "asked", !.passwordSheet = TRUE]
      BY <1>1, <3>3 DEF SessionType
    <3> QED BY <1>3, <3>1, <3>2, <3>3 DEF Start, Challenge
  <2> QED BY <2>1 DEF Lively, Underway
<1>4. CASE AuthenticationFailed
  <2> DEFINE t == IF supports THEN s ELSE TerminateConnection(s, FALSE, None)
             p == ConnectionProblem(t)
  <2>1. s' = [p EXCEPT !.passwordSheet = TRUE]
    BY <1>4 DEF AuthenticationFailed
  <2>2. t \in TypedSession
    BY TerminateType, TypedTypeOK
  <2> HIDE DEF t
  <2>3. p \in SessionType
    BY <2>2, ProblemFields DEF TypedSession
  <2> HIDE DEF p
  <2>4. s'.passwordSheet = TRUE
    BY <2>1, <2>3 DEF SessionType
  <2> QED BY <2>4 DEF Lively
<1>5. CASE ConnectionLost
  BY <1>1, <1>5, TerminatesLively DEF ConnectionLost
<1>6. ASSUME NEW w \in Waiters, OfAttempt(w)
      PROVE  Lively(s')
  <2>1. CASE PrepareForSheet(w)
    <3>1. s'.attempts[w] = "error"
      BY <1>1, <2>1
         DEF PrepareForSheet, InvalidateSheetTimer, SessionType
    <3> QED BY <3>1 DEF Lively, Underway
  <2>2. CASE ConnectionFailed(w)
    <3>1. [s EXCEPT !.attempts[w] = "failed"] \in SessionType
      BY <1>1 DEF SessionType, Attempt!States
    <3> QED BY <2>2, <3>1, EndsLively DEF ConnectionFailed
  <2>3. CASE ConnectionSucceeded(w)
    <3>1. s'.connection = w
      BY <1>1, <2>3
         DEF ConnectionSucceeded, InvalidateSheetTimer, SessionType
    <3> QED BY <3>1, Names DEF Lively
  <2> QED BY <1>6, <2>1, <2>2, <2>3 DEF OfAttempt
<1>7. ASSUME NEW timer \in Waiters, CreateReconnectSheet(timer)
      PROVE  Lively(s')
  <2> DEFINE t == [s EXCEPT !.reconnectPanel = TRUE, !.sheetTimer = None,
                            !.timers = @ \ {timer}]
  <2>1. /\ t \in SessionType /\ t.life = s.life /\ t.connection = s.connection
        /\ t.passwordSheet = s.passwordSheet /\ t.alert = s.alert
        /\ t.attempts = s.attempts
    BY <1>1 DEF SessionType
  <2>2. s' = t \/ s' = Dealloc(t)
    BY <1>7 DEF CreateReconnectSheet
  <2> HIDE DEF t
  <2>3. Lively(t)
    BY <2>1 DEF Lively, Underway
  <2>4. Lively(Dealloc(t))
    BY <2>1, DeallocLife DEF Lively
  <2> QED BY <2>2, <2>3, <2>4
<1>8. CASE ReconnectWithNewPassword
  <2> DEFINE t == [s EXCEPT !.password = TRUE]
             answered == IF t.phase = "asked" THEN [t EXCEPT !.phase = "tried"]
                                              ELSE t
  <2>1. t \in SessionType /\ answered \in SessionType
        /\ answered.connection = s.connection
    BY <1>1 DEF SessionType
  <2>2. CASE s.connection # None /\ s' = [answered EXCEPT !.passwordSheet = FALSE]
    <3> HIDE DEF answered
    <3>1. s'.connection = s.connection
      BY <2>1, <2>2 DEF SessionType
    <3> QED BY <2>2, <3>1 DEF Lively
  <2>3. CASE \E w \in Waiters :
                s' = [BeginReconnect(t, w) EXCEPT !.passwordSheet = FALSE]
    BY <2>1, <2>3, BeginsLively
  <2> QED BY <1>8, <2>2, <2>3 DEF ReconnectWithNewPassword
<1>9. CASE DontReconnect
  <2>1. ConnectionProblem(s) \in SessionType
    BY <1>1, ProblemFields
  <2>2. [ConnectionProblem(s) EXCEPT !.passwordSheet = FALSE] \in SessionType
    BY <2>1 DEF SessionType
  <2> QED BY <1>9, <2>2, EndsLively DEF DontReconnect
<1>10. CASE ForceReconnect
  <2>1. ConnectionProblem(s) \in SessionType
    BY <1>1, ProblemFields
  <2> QED BY <1>10, <2>1, BeginsLively DEF ForceReconnect
<1>11. CASE AlertEnds
  <2>1. [s EXCEPT !.alert = FALSE] \in SessionType
    BY <1>1 DEF SessionType
  <2> QED BY <1>11, <2>1, EndsLively, BeginsLively DEF AlertEnds
<1>12. CASE ReconnectCancelled
  <2>1. CancelWaiter(s) \in SessionType
    BY CancelType, TypedTypeOK DEF TypedSession
  <2>2. [CancelWaiter(s) EXCEPT !.waiter = None, !.reconnectPanel = FALSE]
            \in SessionType
    BY <2>1 DEF SessionType
  <2> QED BY <1>12, <2>2, EndsLively DEF ReconnectCancelled
<1>13. CASE WindowWillClose
  BY <1>1, <1>13, EndsLively DEF WindowWillClose
<1> QED BY <1>2, <1>3, <1>4, <1>5, <1>6, <1>7, <1>8, <1>9, <1>10, <1>11, <1>12,
        <1>13 DEF Next, OfConnection, OfUser

\* A listed session without a connection shows a sheet that leads on, or is
\* trying to reconnect, even when one is forced to or is closed too early.
THEOREM NeverDead ==
    ASSUME "write" \notin Mishaps
    PROVE  Spec => []NoDeadSession
<1>1. Init => Lively(s)
  BY InitFields, Names DEF Lively
<1>2. TypeOK /\ Lively(s) /\ [Next]_vars => Lively(s)'
  BY LivelyStep
<1>3. Lively(s) => NoDeadSession
  BY DEF Lively, NoDeadSession
<1> QED BY <1>1, <1>2, <1>3, TypeCorrect, PTL DEF Spec

-----------------------------------------------------------------------------
(* The listener.  ListensOnBoth and StatusIsOwn are inductive with the types. *)

ListenerInv == ListenerTypeOK /\ ListensOnBoth /\ StatusIsOwn

\* The invariant holds before the listener is started for the first time.
LEMMA InitListenerInv == ListenerInit => ListenerInv
  <1> SUFFICES ASSUME ListenerInit PROVE ListenerInv
    OBVIOUS
  <1>1. \A c \in Peers : at[c] # "kept"
    BY DEF ListenerInit
  <1>2. ListenerTypeOK
    BY <1>1 DEF ListenerInit, ListenerTypeOK, Sockets, Places
  <1>3. \A i \in Sockets : listening[i] = FALSE
    BY DEF ListenerInit
  <1>4. ListensOnBoth /\ StatusIsOwn
    BY <1>3 DEF ListenerInit, ListensOnBoth, StatusIsOwn, Listens, Sockets
  <1> QED
    BY <1>2, <1>4 DEF ListenerInv

\* What becomes of the connections that are kept.
LEMMA MovedKeeps ==
    ASSUME ListenerTypeOK, NEW shut, NEW made \in SUBSET Peers, Moved(shut, made)
    PROVE  /\ at' \in [Peers -> Places] /\ via' = via
           /\ \A c \in Peers : c \notin shut \/ c \in made =>
                 ((at'[c] = "kept") <=> (at[c] = "kept" /\ c \notin made))
           /\ \A c \in Peers : c \in shut => at'[c] # "kept"
           /\ \A c \in Peers : c \notin shut \cup made => at'[c] = at[c]
  <1>1. at' = [c \in Peers |-> CASE c \in made -> "session"
                                [] c \in shut \ made -> "closed"
                                [] OTHER -> at[c]]
    BY DEF Moved
  <1>2. via' = via
    BY DEF Moved
  <1> QED
    BY <1>1, <1>2 DEF ListenerTypeOK, Places

\* The button keeps the invariant, whatever becomes of the sockets.
LEMMA ButtonKeepsInv == ListenerInv /\ ActionPressed => ListenerInv'
  <1> SUFFICES ASSUME ListenerInv, ActionPressed PROVE ListenerInv'
    OBVIOUS
  <1>1. /\ fileHandles' = {} /\ closeTimer' = FALSE
        /\ Moved(fileHandles \cup (IF Listens THEN Unheard ELSE {}), {})
        /\ peer' = peer /\ server' = server
    BY DEF ActionPressed, CloseLingering
  <1>2. /\ at' \in [Peers -> Places] /\ via' = via
        /\ \A c \in Peers : at'[c] # "kept"
    BY <1>1, MovedKeeps DEF ListenerInv, ListenerTypeOK
  <1>3. \/ StopListener
        \/ \E profile \in Profiles : StartListener(profile)
    BY DEF ActionPressed
  <1>4. fileHandles' = {c \in Peers : at'[c] = "kept"}
    BY <1>1, <1>2
  <1>5. CASE listening' = [i \in Sockets |-> FALSE]
    <2>1. \A i \in Sockets : listening'[i] = FALSE
      BY <1>5
    <2>2. ListenerTypeOK'
      BY <1>1, <1>2, <1>3, <1>4, <1>5
         DEF ListenerInv, ListenerTypeOK, StopListener, StartListener, NoSockets, SetStatus
    <2>3. resetErrorTimer' = FALSE
      BY <1>3 DEF StopListener, StartListener, SetStatus
    <2> QED
      BY <2>1, <2>2, <2>3 DEF ListenerInv, ListensOnBoth, StatusIsOwn, Listens, Sockets
  <1>6. CASE /\ listening' = [i \in Sockets |-> TRUE]
             /\ accepting' = [i \in Sockets |-> TRUE]
             /\ listeningProfile' \in Profiles
             /\ SetStatus("running")
    <2>1. \A i \in Sockets : listening'[i] = TRUE /\ accepting'[i] = TRUE
      BY <1>6
    <2>2. ListenerTypeOK'
      BY <1>1, <1>2, <1>4, <1>6 DEF ListenerInv, ListenerTypeOK, SetStatus
    <2> QED
      BY <1>6, <2>1, <2>2
         DEF ListenerInv, ListensOnBoth, StatusIsOwn, Listens, Sockets, SetStatus
  <1> QED
    BY <1>3, <1>5, <1>6 DEF StopListener, StartListener, NoSockets

\* So do the notifications of one connection.
LEMMA ConnectionKeepsInv ==
    ASSUME NEW c \in Peers PROVE ListenerInv /\ ConnectionReceived(c) => ListenerInv'
  <1> SUFFICES ASSUME ListenerInv, ConnectionReceived(c) PROVE ListenerInv'
    OBVIOUS
  <1>1. ListenerTypeOK'
    BY DEF ListenerInv, ListenerTypeOK, ConnectionReceived, SetStatus, Places
  <1>2. ListensOnBoth'
    BY DEF ListenerInv, ListenerTypeOK, ConnectionReceived, ListensOnBoth, Listens, Sockets
  <1>3. StatusIsOwn'
    BY DEF ListenerInv, ListenerTypeOK, ConnectionReceived, StatusIsOwn, SetStatus, Listens,
           Sockets
  <1> QED
    BY <1>1, <1>2, <1>3 DEF ListenerInv

LEMMA HangUpKeepsInv ==
    ASSUME NEW c \in Peers PROVE ListenerInv /\ HangUpReceived(c) => ListenerInv'
  <1> SUFFICES ASSUME ListenerInv, HangUpReceived(c) PROVE ListenerInv'
    OBVIOUS
  <1>1. at[c] = "kept"
    BY DEF ListenerInv, ListenerTypeOK, HangUpReceived
  <1>2. ListenerTypeOK'
    BY <1>1 DEF ListenerInv, ListenerTypeOK, HangUpReceived, Places
  <1>3. ListensOnBoth'
    BY <1>1 DEF ListenerInv, ListenerTypeOK, HangUpReceived, ListensOnBoth, Listens, Sockets
  <1>4. StatusIsOwn'
    BY DEF ListenerInv, ListenerTypeOK, HangUpReceived, StatusIsOwn, Listens, Sockets
  <1> QED
    BY <1>2, <1>3, <1>4 DEF ListenerInv

LEMMA DataKeepsInv ==
    ASSUME NEW c \in Peers PROVE ListenerInv /\ DataReceived(c) => ListenerInv'
  <1> SUFFICES ASSUME ListenerInv, DataReceived(c) PROVE ListenerInv'
    OBVIOUS
  <1>1. /\ fileHandles' = fileHandles \ {c}
        /\ server' = [server EXCEPT ![c] = listeningProfile]
        /\ Moved(Unheard, {c})
        /\ closeTimer' \in BOOLEAN
        /\ peer' = peer
    BY DEF DataReceived, ListenerInv, ListenerTypeOK
  <1>2. /\ at' \in [Peers -> Places] /\ via' = via
        /\ \A d \in Peers : (at'[d] = "kept") <=> (at[d] = "kept" /\ d # c)
    BY <1>1, MovedKeeps DEF ListenerInv, Unheard
  <1>3. StopListener
    BY DEF DataReceived
  <1>4. fileHandles' = {d \in Peers : at'[d] = "kept"}
    BY <1>1, <1>2 DEF ListenerInv, ListenerTypeOK
  <1>5. ListenerTypeOK'
    BY <1>1, <1>2, <1>3, <1>4
       DEF ListenerInv, ListenerTypeOK, StopListener, NoSockets, SetStatus
  <1>6. /\ \A i \in Sockets : listening'[i] = FALSE
        /\ resetErrorTimer' = FALSE
    BY <1>3 DEF StopListener, NoSockets, SetStatus
  <1> QED
    BY <1>5, <1>6 DEF ListenerInv, ListensOnBoth, StatusIsOwn, Listens, Sockets

\* The timers.
LEMMA TimersKeepInv == ListenerInv /\ (CloseTimerFires \/ ClearError) => ListenerInv'
  <1>1. ASSUME ListenerInv, CloseTimerFires PROVE ListenerInv'
    <2>1. /\ fileHandles' = {} /\ closeTimer' = FALSE
          /\ Moved(fileHandles, {})
          /\ UNCHANGED <<listening, accepting, listeningProfile,
                         resetErrorTimer, status, peer, server>>
      BY <1>1 DEF CloseTimerFires, CloseLingering
    <2>2. /\ at' \in [Peers -> Places] /\ via' = via
          /\ \A c \in Peers : at'[c] # "kept"
      BY <1>1, <2>1, MovedKeeps DEF ListenerInv, ListenerTypeOK
    <2>3. ListenerTypeOK'
      BY <1>1, <2>1, <2>2 DEF ListenerInv, ListenerTypeOK
    <2>4. \A c \in Peers : at[c] = "accepted" => at'[c] = at[c]
      BY <1>1, <2>1, MovedKeeps DEF ListenerInv, ListenerTypeOK
    <2>5. ListensOnBoth'
      BY <1>1, <2>1, <2>2, <2>4 DEF ListenerInv, ListensOnBoth, Listens
    <2> QED
      BY <1>1, <2>1, <2>3, <2>5 DEF ListenerInv, StatusIsOwn, Listens
  <1>2. ASSUME ListenerInv, ClearError PROVE ListenerInv'
    BY <1>2 DEF ListenerInv, ListenerTypeOK, ListensOnBoth, StatusIsOwn, Listens, Sockets,
                ClearError, SetStatus
  <1> QED
    BY <1>1, <1>2

\* What the peers and the background accept do.
LEMMA PeersKeepInv ==
    ASSUME NEW c \in Peers, NEW i \in Sockets
    PROVE  ListenerInv /\ (Connect(c, i) \/ Accept(c) \/ Sends(c) \/ HangsUp(c)) => ListenerInv'
  <1>1. ASSUME ListenerInv, Connect(c, i) PROVE ListenerInv'
    BY <1>1 DEF ListenerInv, ListenerTypeOK, ListensOnBoth, StatusIsOwn, Listens, Sockets,
                Connect, own, Places
  <1>2. ASSUME ListenerInv, Accept(c) PROVE ListenerInv'
    <2>1. ListenerTypeOK'
      BY <1>2 DEF ListenerInv, ListenerTypeOK, Accept, Places, Sockets
    <2>2. ListensOnBoth'
      BY <1>2 DEF ListenerInv, ListenerTypeOK, Accept, ListensOnBoth, Listens, Sockets
    <2> QED
      BY <1>2, <2>1, <2>2 DEF ListenerInv, Accept, StatusIsOwn, Listens, Sockets
  <1>3. ASSUME ListenerInv, Sends(c) \/ HangsUp(c) PROVE ListenerInv'
    BY <1>3 DEF ListenerInv, ListenerTypeOK, ListensOnBoth, StatusIsOwn, Listens, Sockets,
                Sends, HangsUp, own
  <1> QED
    BY <1>1, <1>2, <1>3

LEMMA NextListenerInv == ListenerInv /\ [ListenerNext]_listenerVars => ListenerInv'
  <1> SUFFICES ASSUME ListenerInv, [ListenerNext]_listenerVars PROVE ListenerInv'
    OBVIOUS
  <1>1. CASE UNCHANGED listenerVars
    BY <1>1 DEF ListenerInv, ListenerTypeOK, ListensOnBoth, StatusIsOwn, Listens, Sockets, listenerVars,
                own
  <1>2. CASE ActionPressed
    BY <1>2, ButtonKeepsInv
  <1>3. CASE CloseTimerFires \/ ClearError
    BY <1>3, TimersKeepInv
  <1>4. CASE \E c \in Peers : ConnectionReceived(c)
    BY <1>4, ConnectionKeepsInv
  <1>5. CASE \E c \in Peers : HangUpReceived(c)
    BY <1>5, HangUpKeepsInv
  <1>6. CASE \E c \in Peers : DataReceived(c)
    BY <1>6, DataKeepsInv
  <1>7. CASE \E c \in Peers : \/ Accept(c) \/ Sends(c) \/ HangsUp(c)
                              \/ \E i \in Sockets : Connect(c, i)
    BY <1>7, PeersKeepInv DEF Sockets
  <1> QED
    BY <1>1, <1>2, <1>3, <1>4, <1>5, <1>6, <1>7 DEF ListenerNext

\* The state of the listener has its types, whoever connects.
THEOREM ListenerTypeCorrect == ListenerSpec => []ListenerTypeOK
  <1>1. ListenerInv => ListenerTypeOK
    BY DEF ListenerInv
  <1> QED
    BY InitListenerInv, NextListenerInv, <1>1, PTL DEF ListenerSpec

\* Both sockets are opened and closed together, and neither is ever deaf while
\* the listener runs: connectionReceived: starts accepting on both.
THEOREM BothAreHeard == ListenerSpec => []ListensOnBoth
  <1>1. ListenerInv => ListensOnBoth
    BY DEF ListenerInv
  <1> QED
    BY InitListenerInv, NextListenerInv, <1>1, PTL DEF ListenerSpec

\* The timer that takes an error message away finds no other message, and no
\* message says that a running listener is off (setStatus:).
THEOREM StatusIsRight == ListenerSpec => []StatusIsOwn
  <1>1. ListenerInv => StatusIsOwn
    BY DEF ListenerInv
  <1> QED
    BY InitListenerInv, NextListenerInv, <1>1, PTL DEF ListenerSpec

=============================================================================
