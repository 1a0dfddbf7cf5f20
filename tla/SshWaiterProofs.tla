---------------------------- MODULE SshWaiterProofs ----------------------------
(***************************************************************************)
(* That the tunnels and the attempts that use them go together, for any      *)
(* number of attempts, ports and lines of ssh, and that an attempt is        *)
(* answered once.  The theorems name the Mishaps that each promise survives. *)
(***************************************************************************)
EXTENDS SshWaiter, WellFoundedInduction, TLAPS

-----------------------------------------------------------------------------
(* Induction over the lines of a notification. *)

\* A set of numbers that has 0, and with n also n + 1, has them all.
LEMMA SetInduction ==
    ASSUME NEW S, 0 \in S, \A n \in Nat : n \in S => n + 1 \in S
    PROVE  Nat \subseteq S
<1> DEFINE R == {p \in Nat \X Nat : p[1] < p[2]}
           Missing == Nat \ S
<1>1. IsWellFoundedOn(R, Nat)
  BY NatLessThanWellFounded DEF OpToRel
<1> SUFFICES ASSUME Missing # {} PROVE FALSE
  OBVIOUS
<1>2. PICK x \in Missing : \A y \in Missing : <<y, x>> \notin R
  <2> HIDE DEF R
  <2> QED BY <1>1, WFMin
<1>3. x # 0 /\ x - 1 \in Nat /\ x - 1 + 1 = x
  BY <1>2
<1>4. <<x - 1, x>> \in R
  BY <1>3
<1> QED BY <1>2, <1>3, <1>4

\* The states between the lines exist: a state for no line, and for each line
\* the one that ReadLine makes of the state before it.
LEMMA LinesInOrder ==
    ASSUME NEW d, NEW t, NEW n \in Nat
    PROVE  \E after : /\ after = [k \in 0..n |-> IF k = 0 THEN d
                                                 ELSE ReadLine(after[k - 1], t)]
                      /\ after[n] = ReadLines(d, t, n)
<1> DEFINE F(g, m) == [k \in 0..m |-> IF k = 0 THEN d ELSE ReadLine(g[k - 1], t)]
           S == {m \in Nat : \E g : g = F(g, m)}
<1>1. 0 \in S
  <2> DEFINE g == [k \in 0..0 |-> d]
  <2>1. g = F(g, 0)
    OBVIOUS
  <2> QED BY <2>1
<1>2. ASSUME NEW m \in Nat, m \in S PROVE m + 1 \in S
  <2>1. PICK g : g = F(g, m)
    BY <1>2
  <2> DEFINE h == [k \in 0..m + 1 |-> IF k = m + 1 THEN ReadLine(g[m], t) ELSE g[k]]
  <2>2. ASSUME NEW k \in 0..m + 1
        PROVE  h[k] = IF k = 0 THEN d ELSE ReadLine(h[k - 1], t)
    <3>1. CASE k = 0
      BY <2>1, <3>1
    <3>2. CASE k \in 1..m
      <4>1. k - 1 \in 0..m /\ k - 1 # m + 1 /\ k # m + 1 /\ k \in 0..m /\ k # 0
        BY <3>2
      <4>2. h[k] = g[k] /\ h[k - 1] = g[k - 1]
        BY <4>1
      <4>3. g[k] = ReadLine(g[k - 1], t)
        BY <2>1, <4>1
      <4> QED BY <4>1, <4>2, <4>3
    <3>3. CASE k = m + 1
      <4>1. k - 1 = m /\ m \in 0..m + 1 /\ m # m + 1 /\ k # 0
        BY <3>3
      <4> QED BY <3>3, <4>1
    <3> QED BY <3>1, <3>2, <3>3
  <2>3. h = F(h, m + 1)
    BY <2>2
  <2> HIDE DEF F, h
  <2> QED BY <2>3
<1>3. \E g : g = F(g, n)
  <2> HIDE DEF S
  <2>1. n \in S
    BY <1>1, <1>2, SetInduction
  <2> QED BY <2>1 DEF S
<1> DEFINE after == CHOOSE g : g = F(g, n)
<1>4. after = F(after, n)
  <2> HIDE DEF F
  <2> QED BY <1>3, Zenon
<1>5. ReadLines(d, t, n) = after[n]
  BY DEF ReadLines
<1> HIDE DEF after
<1> QED BY <1>4, <1>5

\* What holds of d after k lines for every k, if a line takes it from k to k + 1,
\* holds after the last one.
LEMMA LinesInduction ==
    ASSUME NEW d, NEW t, NEW n \in Nat, NEW S,
           d \in S[0],
           \A k \in 0..n - 1 : \A e \in S[k] : ReadLine(e, t) \in S[k + 1]
    PROVE  ReadLines(d, t, n) \in S[n]
<1>1. PICK after : /\ after = [k \in 0..n |-> IF k = 0 THEN d
                                              ELSE ReadLine(after[k - 1], t)]
                   /\ after[n] = ReadLines(d, t, n)
  BY LinesInOrder
<1> DEFINE Good == {k \in Nat : k <= n => after[k] \in S[k]}
<1>2. 0 \in Good
  BY <1>1
<1>3. ASSUME NEW k \in Nat, k \in Good PROVE k + 1 \in Good
  <2> SUFFICES ASSUME k + 1 <= n PROVE after[k + 1] \in S[k + 1]
    OBVIOUS
  <2>1. k \in 0..n - 1 /\ k + 1 \in 0..n /\ k + 1 # 0 /\ k + 1 - 1 = k /\ k <= n
    OBVIOUS
  <2>2. after[k] \in S[k]
    BY <1>3, <2>1
  <2>3. after[k + 1] = ReadLine(after[k], t)
    BY <1>1, <2>1
  <2> QED BY <2>1, <2>2, <2>3
<1>4. n \in Good
  <2> HIDE DEF Good
  <2> QED BY <1>2, <1>3, SetInduction
<1> QED BY <1>1, <1>4

-----------------------------------------------------------------------------
(* Types. *)

LEMMA Names ==
    /\ Owners = Waiters /\ None \notin Waiters
    /\ Ports \subseteq Nat /\ NoPort \notin Ports
  BY TunnelAssumption, WaiterAssumption

\* What the methods of a tunnel and ssh make of it is a tunnel.
LEMMA TunnelTypes ==
    ASSUME NEW T \in TunnelType
    PROVE  /\ Close(T) \in TunnelType /\ UsePassword(T) \in TunnelType
           /\ \A accept \in BOOLEAN : AcceptKey(T, accept) \in TunnelType
           /\ SshTunnelConnected(T) \in TunnelType
           /\ \A q \in Questions : Asks(T, q) \in TunnelType
           /\ \A n \in 1..2 : Fails(T, n) \in TunnelType
           /\ LogsIn(T) \in TunnelType /\ Ends(T) \in TunnelType
<1>1. /\ Close(T) \in TunnelType /\ SshTunnelConnected(T) \in TunnelType
      /\ LogsIn(T) \in TunnelType
  BY DEF TunnelType, Close, SshTunnelConnected, LogsIn, States
<1>2. /\ UsePassword(T) \in TunnelType
      /\ \A accept \in BOOLEAN : AcceptKey(T, accept) \in TunnelType
  <2>1. ASSUME NEW answer \in {"no", "over"}
        PROVE  WriteToHelper(T, answer) \in TunnelType
    <3>1. "opening" \in States
      BY DEF States
    <3> DEFINE a == IF T.fifo /\ T.asks \in Questions THEN answer ELSE T.asks
    <3>2. a \in Questions \cup {"new", "no", "again", "over"}
      BY <2>1 DEF TunnelType
    <3>3. WriteToHelper(T, answer) = IF T.state # "prompt" THEN T
                                     ELSE [T EXCEPT !.asks = a, !.state = "opening"]
      BY DEF WriteToHelper
    <3> HIDE DEF a
    <3>4. [T EXCEPT !.asks = a, !.state = "opening"] \in TunnelType
      BY <3>1, <3>2 DEF TunnelType
    <3> QED BY <3>3, <3>4
  <2>2. \A U \in TunnelType : [U EXCEPT !.state = "closing"] \in TunnelType
    BY DEF TunnelType, States
  <2> QED BY <2>1, <2>2 DEF UsePassword, AcceptKey
<1>3. \A q \in Questions : Asks(T, q) \in TunnelType
  <2> TAKE q \in Questions
  <2>1. Append(T.err, q) \in Seq(Lines)
    BY DEF TunnelType, Lines
  <2> QED BY <2>1 DEF TunnelType, Asks
<1>4. \A n \in 1..2 : Fails(T, n) \in TunnelType
  <2> TAKE n \in 1..2
  <2>1. [i \in 1..n |-> "failed"] \in Seq(Lines)
    BY DEF Lines
  <2>2. T.err \o [i \in 1..n |-> "failed"] \in Seq(Lines)
    BY <2>1 DEF TunnelType
  <2> QED BY <2>2 DEF TunnelType, Fails
<1>5. Ends(T) \in TunnelType
  <2>1. Append(T.err, "eof") \in Seq(Lines)
    BY DEF TunnelType, Lines
  <2> QED BY <2>1 DEF TunnelType, Ends
<1> QED BY <1>1, <1>2, <1>3, <1>4, <1>5

LEMMA LaunchType ==
    ASSUME NEW p \in Ports, NEW w \in Waiters
    PROVE  Launch(p, w) \in TunnelType /\ NoTunnel \in TunnelType
<1>1. NoTunnel \in TunnelType
  <2>1. <<>> \in Seq(Lines)
    OBVIOUS
  <2> QED BY <2>1 DEF TunnelType, NoTunnel, States
<1>2. Launch(p, w) \in TunnelType
  <2> HIDE DEF NoTunnel
  <2> QED BY <1>1, Names DEF TunnelType, Launch
<1> QED BY <1>1, <1>2

\* A state is made of its fields.
LEMMA StateFields ==
    ASSUME NEW d \in StateType
    PROVE  /\ d.tunnel \in [Waiters -> TunnelType]
           /\ d.waiter \in [Waiters -> WaiterType]
           /\ d.portUsed \in SUBSET Ports
           /\ d.current \in Waiters \cup {None} /\ d.kept \in Waiters \cup {None}
           /\ d.connected \in BOOLEAN
  BY DEF StateType

\* A step of a tunnel alone.
LEMMA SetTunnel ==
    ASSUME NEW d \in StateType, NEW t \in Waiters, NEW T \in TunnelType
    PROVE  LET e == [d EXCEPT !.tunnel[t] = T] IN
           /\ e \in StateType /\ e.tunnel = [d.tunnel EXCEPT ![t] = T]
           /\ e.waiter = d.waiter /\ e.portUsed = d.portUsed /\ e.current = d.current
           /\ e.kept = d.kept /\ e.connected = d.connected
  BY DEF StateType

\* A step of an attempt alone.
LEMMA SetWaiter ==
    ASSUME NEW d \in StateType, NEW w \in Waiters, NEW W \in WaiterType
    PROVE  LET e == [d EXCEPT !.waiter[w] = W] IN
           /\ e \in StateType /\ e.waiter = [d.waiter EXCEPT ![w] = W]
           /\ e.tunnel = d.tunnel /\ e.portUsed = d.portUsed /\ e.current = d.current
           /\ e.kept = d.kept /\ e.connected = d.connected
  BY DEF StateType


-----------------------------------------------------------------------------
(* What the handlers call, field by field. *)

\* The fields of the session.
Rest(d, e) == /\ e.portUsed = d.portUsed /\ e.current = d.current
              /\ e.kept = d.kept /\ e.connected = d.connected

OnlyTunnel(d, e, t, T) ==
    /\ e \in StateType /\ Rest(d, e) /\ e.waiter = d.waiter
    /\ e.tunnel = [d.tunnel EXCEPT ![t] = T]

OnlyWaiter(d, e, w, W) ==
    /\ e \in StateType /\ Rest(d, e) /\ e.tunnel = d.tunnel
    /\ e.waiter = [d.waiter EXCEPT ![w] = W]

LEMMA CloseTunnelIs ==
    ASSUME NEW d \in StateType, NEW t \in Waiters \cup {None}
    PROVE  LET e == CloseTunnel(d, t) IN
           /\ e \in StateType /\ Rest(d, e) /\ e.waiter = d.waiter
           /\ \A u \in Waiters : e.tunnel[u] = IF u = t THEN Close(d.tunnel[u])
                                               ELSE d.tunnel[u]
<1>1. CASE t = None
  BY <1>1, Names DEF CloseTunnel, Rest
<1>2. CASE t \in Waiters
  <2> DEFINE T == Close(d.tunnel[t])
             e == [d EXCEPT !.tunnel[t] = T]
  <2>1. T \in TunnelType
    BY <1>2, StateFields, TunnelTypes
  <2>2. CloseTunnel(d, t) = e
    BY <1>2, Names DEF CloseTunnel
  <2> HIDE DEF T
  <2>3. /\ e \in StateType /\ e.tunnel = [d.tunnel EXCEPT ![t] = T]
        /\ e.waiter = d.waiter /\ Rest(d, e)
    BY <1>2, <2>1, SetTunnel DEF Rest
  <2> HIDE DEF e
  <2>4. \A u \in Waiters : e.tunnel[u] = IF u = t THEN T ELSE d.tunnel[u]
    BY <1>2, <2>3, StateFields
  <2> QED BY <2>2, <2>3, <2>4 DEF T
<1> QED BY <1>1, <1>2

\* The attempt after an error has been shown.
Shown(W) == IF W.delegate = "set" THEN [W EXCEPT !.sheets = Append(@, "error")] ELSE W

LEMMA ShownIs ==
    ASSUME NEW W \in WaiterType
    PROVE  /\ Shown(W) \in WaiterType
           /\ Shown(W).tunnel = W.tunnel /\ Shown(W).delegate = W.delegate
           /\ Shown(W).sock = W.sock /\ Shown(W).thread = W.thread
           /\ Shown(W).timer = W.timer /\ Shown(W).failed = W.failed
           /\ Shown(W).told = W.told
           /\ Shown(W).sheets = IF W.delegate = "set" THEN Append(W.sheets, "error")
                                ELSE W.sheets
<1>1. Append(W.sheets, "error") \in Seq({"key", "password", "error"})
  BY DEF WaiterType
<1> QED BY <1>1 DEF WaiterType, Shown

LEMMA ErrorIs ==
    ASSUME NEW d \in StateType, NEW w \in Waiters
    PROVE  OnlyWaiter(d, Error(d, w), w, Shown(d.waiter[w]))
<1> DEFINE W == d.waiter[w]
           V == Shown(W)
<1>1. W \in WaiterType /\ V \in WaiterType
  BY StateFields, ShownIs
<1>2. CASE W.delegate = "set"
  <2>1. Error(d, w) = [d EXCEPT !.waiter[w] = V]
    BY <1>2 DEF Error, Shown, StateType
  <2> HIDE DEF V
  <2>2. OnlyWaiter(d, [d EXCEPT !.waiter[w] = V], w, V)
    BY <1>1, SetWaiter DEF OnlyWaiter, Rest
  <2> QED BY <2>1, <2>2 DEF V
<1>3. CASE W.delegate # "set"
  <2>1. Error(d, w) = d /\ V = W
    BY <1>3 DEF Error, Shown
  <2>2. [d.waiter EXCEPT ![w] = W] = d.waiter
    BY StateFields
  <2> QED BY <2>1, <2>2 DEF OnlyWaiter, Rest
<1> QED BY <1>2, <1>3

\* An attempt that a handler has left: its tunnel may be dropped.
LEMMA SettledIs ==
    ASSUME NEW d \in StateType
    PROVE  LET e == Settled(d)
               Gone(w) == ~Retained(d, w) /\ d.waiter[w].tunnel # None
           IN /\ e \in StateType /\ Rest(d, e)
              /\ \A w \in Waiters :
                    e.waiter[w] = IF Gone(w) THEN [d.waiter[w] EXCEPT !.tunnel = None]
                                  ELSE d.waiter[w]
              /\ \A t \in Waiters :
                    e.tunnel[t] = IF \E w \in Waiters : Gone(w) /\ d.waiter[w].tunnel = t
                                  THEN Close(d.tunnel[t]) ELSE d.tunnel[t]
<1> DEFINE gone == {w \in Waiters : ~Retained(d, w) /\ d.waiter[w].tunnel # None}
           closed == {d.waiter[w].tunnel : w \in gone}
           U == [t \in Waiters |-> IF t \in closed THEN Close(d.tunnel[t]) ELSE d.tunnel[t]]
           V == [w \in Waiters |-> IF w \in gone THEN [d.waiter[w] EXCEPT !.tunnel = None]
                                   ELSE d.waiter[w]]
<1>1. Settled(d) = [d EXCEPT !.tunnel = U, !.waiter = V]
  BY DEF Settled
<1>2. U \in [Waiters -> TunnelType]
  BY StateFields, TunnelTypes
<1>3. V \in [Waiters -> WaiterType]
  <2>1. \A W \in WaiterType : [W EXCEPT !.tunnel = None] \in WaiterType
    BY DEF WaiterType
  <2> QED BY <2>1, StateFields
<1>4. /\ \A w \in Waiters : V[w] = IF w \in gone THEN [d.waiter[w] EXCEPT !.tunnel = None]
                                   ELSE d.waiter[w]
      /\ \A t \in Waiters : U[t] = IF t \in closed THEN Close(d.tunnel[t]) ELSE d.tunnel[t]
  OBVIOUS
<1> HIDE DEF U, V
<1>5. LET e == [d EXCEPT !.tunnel = U, !.waiter = V] IN
      e \in StateType /\ Rest(d, e) /\ e.tunnel = U /\ e.waiter = V
  BY <1>2, <1>3 DEF StateType, Rest
<1> QED BY <1>1, <1>4, <1>5

LEMMA EstablishIs ==
    ASSUME NEW d \in StateType, NEW w \in Waiters
    PROVE  OnlyWaiter(d, Establish(d, w), w,
                      [d.waiter[w] EXCEPT !.sock = "open", !.thread = "poll"])
<1> DEFINE W == d.waiter[w]
           V == [W EXCEPT !.sock = "open", !.thread = "poll"]
<1>1. \A X \in WaiterType : [X EXCEPT !.sock = "open", !.thread = "poll"] \in WaiterType
  BY DEF WaiterType
<1>2. V \in WaiterType
  BY <1>1, StateFields
<1>3. Establish(d, w) = [d EXCEPT !.waiter[w] = V]
  BY DEF Establish, StateType
<1> HIDE DEF V
<1>4. OnlyWaiter(d, [d EXCEPT !.waiter[w] = V], w, V)
  BY <1>2, SetWaiter DEF OnlyWaiter, Rest
<1> QED BY <1>3, <1>4 DEF V

-----------------------------------------------------------------------------
(* The invariant: which tunnels there are, and who asks the user for them. *)

Early == {"opening", "prompt"}

\* ssh has been started, and has not been allowed to work yet.
Begun(d, t) == d.tunnel[t].ssh # "none" /\ d.tunnel[t].state \in Early

PortSound(d, t) ==
    LET T == d.tunnel[t] IN
    /\ T.ssh = "none" => T = NoTunnel
    /\ T.ssh = "running" \/ T.fifo => T.port # NoPort
    /\ T.port # NoPort =>
          /\ T.port \in d.portUsed
          /\ \A u \in Waiters \ {t} : d.tunnel[u].port # T.port

FreshWaiter ==
    [tunnel |-> None, delegate |-> "unset", sock |-> "none", thread |-> "none",
     sheets |-> <<>>, timer |-> FALSE, failed |-> FALSE, told |-> <<>>]

Made(d, t) == t # None => d.tunnel[t].ssh # "none"

\* Tunnels in use have been made, and an attempt that has not begun has none.
WaiterSound(d, w) ==
    /\ Made(d, d.waiter[w].tunnel)
    /\ d.waiter[w].delegate = "unset" =>
          /\ d.waiter[w] = FreshWaiter
          /\ d.current # w /\ d.tunnel[w].ssh = "none"

\* Nothing follows a question on its way but the end of the stream.
Opening(T) ==
    \A i \in DOMAIN T.err : T.err[i] \in Questions =>
        /\ T.asks = T.err[i]
        /\ \A j \in DOMAIN T.err : j > i => T.err[j] = "eof"

Prompting(T, W) ==
    /\ W.sheets = <<T.asks>> /\ T.asks \in Questions
    /\ \A i \in DOMAIN T.err : T.err[i] = "eof"

\* The attempt only waits for ssh.
Waiting(W, t) ==
    /\ W.tunnel = t /\ W.delegate = "set" /\ W.told = <<>>
    /\ W.thread = "none" /\ W.sock = "none" /\ ~W.timer /\ ~W.failed

AsksUser(T, W, t) ==
    /\ T.delegate = t /\ Waiting(W, t)
    /\ T.ssh = "running" => T.fifo
    /\ T.state = "opening" => W.sheets = <<>> /\ Opening(T)
    /\ T.state = "prompt" => Prompting(T, W)

TunnelSound(d, t) ==
    /\ d.tunnel[t].delegate \in {None, t}
    /\ Begun(d, t) => /\ AsksUser(d.tunnel[t], d.waiter[t], t)
                      /\ d.kept # t
                      /\ \A w \in Waiters \ {t} : d.waiter[w].tunnel # t

Sound(d) ==
    /\ d \in StateType /\ Made(d, d.kept)
    /\ \A w \in Waiters : PortSound(d, w) /\ WaiterSound(d, w) /\ TunnelSound(d, w)

\* Only the attempt of the delegate has a tunnel that is not allowed to work
\* yet; between the steps of a handler another may, until it is dropped.
Held(d) == \A t \in Waiters : Begun(d, t) => d.current = t

-----------------------------------------------------------------------------
(* What a handler may change without a look at the invariant. *)

TunnelGoesOn(T, U) ==
    /\ T.ssh = "none" => U = T
    /\ T.ssh # "none" => U.ssh # "none"
    /\ U.ssh = "running" => T.ssh = "running"
    /\ U.port = T.port /\ (U.fifo => T.fifo) /\ U.delegate \in {None, T.delegate}

WaiterGoesOn(W, V) ==
    /\ V.tunnel \in {W.tunnel, None}
    /\ W.delegate = "unset" => V = W
    /\ W.delegate # "unset" => V.delegate # "unset"

\* Only a tunnel that works is kept.
Change(d, e) ==
    /\ e \in StateType /\ e.portUsed = d.portUsed
    /\ e.current \in {d.current, None}
    /\ \/ e.kept \in {d.kept, None}
       \/ e.kept \in Waiters /\ d.tunnel[e.kept].ssh # "none" /\ ~Begun(e, e.kept)
    /\ \A u \in Waiters : TunnelGoesOn(d.tunnel[u], e.tunnel[u])
    /\ \A w \in Waiters : WaiterGoesOn(d.waiter[w], e.waiter[w])
    /\ \A u \in Waiters : Begun(e, u) =>
          Begun(d, u) /\ AsksUser(e.tunnel[u], e.waiter[u], u)

LEMMA ChangeIsSound ==
    ASSUME NEW d, NEW e, Sound(d), Change(d, e)
    PROVE  Sound(e)
<1>1. /\ e \in StateType /\ e.portUsed = d.portUsed
      /\ e.current \in {d.current, None} /\ d \in StateType
  BY DEF Change, Sound
<1> DEFINE Works(k) == k \in Waiters /\ d.tunnel[k].ssh # "none" /\ ~Begun(e, k)
<1>0. e.kept \in {d.kept, None} \/ Works(e.kept)
  BY DEF Change
<1>2. ASSUME NEW t \in Waiters \cup {None}, Made(d, t) PROVE Made(e, t)
  <2>1. CASE t = None
    BY <2>1 DEF Made
  <2>2. CASE t # None
    BY <1>2, <2>2 DEF Made, Change, TunnelGoesOn
  <2> QED BY <2>1, <2>2
<1>3. Made(e, e.kept)
  <2>1. CASE e.kept \in {d.kept, None}
    BY <1>1, <1>2, <2>1, StateFields DEF Sound, Made
  <2>2. CASE Works(e.kept)
    BY <1>2, <2>2 DEF Made
  <2> QED BY <1>0, <2>1, <2>2
<1>4. ASSUME NEW t \in Waiters PROVE PortSound(e, t)
  <2>1. PortSound(d, t) /\ TunnelGoesOn(d.tunnel[t], e.tunnel[t])
    BY DEF Sound, Change
  <2>2. \A u \in Waiters : e.tunnel[u].port = d.tunnel[u].port
    BY DEF Change, TunnelGoesOn
  <2> HIDE DEF NoTunnel
  <2> QED BY <1>1, <2>1, <2>2 DEF PortSound, TunnelGoesOn
<1>5. ASSUME NEW w \in Waiters PROVE WaiterSound(e, w)
  <2>1. WaiterSound(d, w) /\ WaiterGoesOn(d.waiter[w], e.waiter[w])
        /\ TunnelGoesOn(d.tunnel[w], e.tunnel[w])
    BY DEF Sound, Change
  <2>2. Made(e, e.waiter[w].tunnel)
    <3>1. d.waiter[w].tunnel \in Waiters \cup {None}
      BY <1>1, StateFields DEF WaiterType
    <3> QED BY <1>2, <2>1, <3>1 DEF WaiterSound, WaiterGoesOn, Made
  <2>3. ASSUME e.waiter[w].delegate = "unset"
        PROVE  e.waiter[w] = FreshWaiter /\ e.current # w /\ e.tunnel[w].ssh = "none"
    <3>1. d.waiter[w].delegate = "unset" /\ e.waiter[w] = d.waiter[w]
      BY <2>1, <2>3 DEF WaiterGoesOn
    <3> QED BY <1>1, <2>1, <3>1, Names DEF WaiterSound, TunnelGoesOn
  <2> QED BY <2>2, <2>3 DEF WaiterSound
<1>6. ASSUME NEW t \in Waiters PROVE TunnelSound(e, t)
  <2>1. TunnelSound(d, t) /\ TunnelGoesOn(d.tunnel[t], e.tunnel[t])
    BY DEF Sound, Change
  <2>2. \A w \in Waiters : e.waiter[w].tunnel \in {d.waiter[w].tunnel, None}
    BY DEF Change, WaiterGoesOn
  <2>3. Begun(e, t) => Begun(d, t) /\ AsksUser(e.tunnel[t], e.waiter[t], t)
    BY DEF Change
  <2>4. Begun(e, t) => e.kept # t
    BY <1>0, <2>1, <2>3, Names DEF TunnelSound
  <2> HIDE DEF Begun, AsksUser
  <2> QED BY <1>1, <2>1, <2>2, <2>3, <2>4, Names DEF TunnelSound, TunnelGoesOn
<1> QED BY <1>1, <1>3, <1>4, <1>5, <1>6 DEF Sound

\* What has been dropped stays so if nothing begins, or changes hands.
LEMMA ChangeIsHeld ==
    ASSUME NEW d, NEW e, Held(d), Change(d, e), e.current = d.current
    PROVE  Held(e)
  BY DEF Held, Change

\* What stays as it is still asks the user.
LEMMA StepIsChange ==
    ASSUME NEW d, NEW e, Sound(d), e \in StateType, e.portUsed = d.portUsed,
           e.current \in {d.current, None},
           \/ e.kept \in {d.kept, None}
           \/ /\ e.kept \in Waiters /\ d.tunnel[e.kept].ssh # "none"
              /\ ~Begun(e, e.kept),
           \A u \in Waiters : TunnelGoesOn(d.tunnel[u], e.tunnel[u]),
           \A w \in Waiters : WaiterGoesOn(d.waiter[w], e.waiter[w]),
           \A u \in Waiters : Begun(e, u) =>
              \/ e.tunnel[u] = d.tunnel[u] /\ e.waiter[u] = d.waiter[u]
              \/ Begun(d, u) /\ AsksUser(e.tunnel[u], e.waiter[u], u)
    PROVE  Change(d, e)
<1>1. ASSUME NEW u \in Waiters, Begun(e, u),
             e.tunnel[u] = d.tunnel[u], e.waiter[u] = d.waiter[u]
      PROVE  Begun(d, u) /\ AsksUser(e.tunnel[u], e.waiter[u], u)
  <2>1. Begun(d, u)
    BY <1>1 DEF Begun
  <2>2. TunnelSound(d, u)
    BY DEF Sound
  <2> HIDE DEF Begun
  <2> QED BY <1>1, <2>1, <2>2 DEF TunnelSound
<1> HIDE DEF Begun, AsksUser
<1> QED BY <1>1 DEF Change

LEMMA GoesOnAsItIs ==
    /\ \A T \in TunnelType : TunnelGoesOn(T, T)
    /\ \A W : WaiterGoesOn(W, W)
  BY DEF TunnelGoesOn, WaiterGoesOn

\* What happens to a tunnel that has been made.
LEMMA TunnelsGoOn ==
    ASSUME NEW T \in TunnelType, T.ssh # "none"
    PROVE  /\ TunnelGoesOn(T, Close(T)) /\ TunnelGoesOn(T, UsePassword(T))
           /\ \A accept \in BOOLEAN : TunnelGoesOn(T, AcceptKey(T, accept))
           /\ TunnelGoesOn(T, SshTunnelConnected(T))
           /\ \A q \in Questions : TunnelGoesOn(T, Asks(T, q))
           /\ \A n \in 1..2 : TunnelGoesOn(T, Fails(T, n))
           /\ TunnelGoesOn(T, LogsIn(T)) /\ TunnelGoesOn(T, Ends(T))
<1>1. /\ TunnelGoesOn(T, Close(T)) /\ TunnelGoesOn(T, SshTunnelConnected(T))
      /\ TunnelGoesOn(T, LogsIn(T)) /\ TunnelGoesOn(T, Ends(T))
  BY DEF TunnelType, TunnelGoesOn, Close, SshTunnelConnected, LogsIn, Ends
<1>2. ASSUME NEW q \in Questions PROVE TunnelGoesOn(T, Asks(T, q))
  BY DEF TunnelType, TunnelGoesOn, Asks
<1>3. ASSUME NEW n \in 1..2 PROVE TunnelGoesOn(T, Fails(T, n))
  BY DEF TunnelType, TunnelGoesOn, Fails
<1>4. TunnelGoesOn(T, UsePassword(T))
  BY DEF TunnelType, TunnelGoesOn, UsePassword, WriteToHelper
<1>5. ASSUME NEW accept \in BOOLEAN PROVE TunnelGoesOn(T, AcceptKey(T, accept))
  BY DEF TunnelType, TunnelGoesOn, AcceptKey, WriteToHelper
<1> QED BY <1>1, <1>2, <1>3, <1>4, <1>5

\* What the invariant says of one attempt and of one tunnel.
LEMMA SoundWaiter ==
    ASSUME NEW d, Sound(d), NEW w \in Waiters
    PROVE  /\ d \in StateType /\ d.waiter[w] \in WaiterType /\ d.tunnel[w] \in TunnelType
           /\ d.waiter[w].tunnel \in Waiters \cup {None} /\ Made(d, d.waiter[w].tunnel)
           /\ d.kept \in Waiters \cup {None} /\ Made(d, d.kept)
           /\ d.waiter[w].delegate = "unset" =>
                 d.waiter[w] = FreshWaiter /\ d.current # w /\ ~Begun(d, w)
           /\ Begun(d, w) => /\ AsksUser(d.tunnel[w], d.waiter[w], w) /\ d.kept # w
                             /\ \A v \in Waiters \ {w} : d.waiter[v].tunnel # w
<1>1. d \in StateType /\ WaiterSound(d, w) /\ TunnelSound(d, w) /\ Made(d, d.kept)
  BY DEF Sound
<1>2. /\ d.waiter[w] \in WaiterType /\ d.tunnel[w] \in TunnelType
      /\ d.kept \in Waiters \cup {None}
  BY <1>1, StateFields
<1>3. d.waiter[w].tunnel \in Waiters \cup {None}
  BY <1>2 DEF WaiterType
<1> HIDE DEF AsksUser, FreshWaiter
<1> QED BY <1>1, <1>2, <1>3 DEF WaiterSound, TunnelSound, Begun

LEMMA CloseTunnelChanges ==
    ASSUME NEW d, Sound(d), NEW t \in Waiters \cup {None}, Made(d, t)
    PROVE  Change(d, CloseTunnel(d, t))
<1> DEFINE e == CloseTunnel(d, t)
<1>1. d \in StateType
  BY DEF Sound
<1>2. /\ e \in StateType /\ Rest(d, e) /\ e.waiter = d.waiter
      /\ \A u \in Waiters : e.tunnel[u] = IF u = t THEN Close(d.tunnel[u])
                                          ELSE d.tunnel[u]
  BY <1>1, CloseTunnelIs
<1> HIDE DEF e
<1>3. ASSUME NEW u \in Waiters PROVE TunnelGoesOn(d.tunnel[u], e.tunnel[u])
  <2>1. CASE u = t
    <3>1. d.tunnel[u] \in TunnelType /\ d.tunnel[u].ssh # "none"
      BY <1>1, <2>1, Names, StateFields DEF Made
    <3> QED BY <1>2, <2>1, <3>1, TunnelsGoOn
  <2>2. CASE u # t
    BY <1>1, <1>2, <2>2, StateFields, GoesOnAsItIs
  <2> QED BY <2>1, <2>2
<1>4. ASSUME NEW u \in Waiters, Begun(e, u) PROVE e.tunnel[u] = d.tunnel[u]
  <2>1. Close(d.tunnel[u]).state = "closing"
    BY <1>1, StateFields DEF Close, TunnelType
  <2> QED BY <1>2, <1>4, <2>1 DEF Begun, Early
<1>5. \A w \in Waiters : WaiterGoesOn(d.waiter[w], e.waiter[w])
  BY <1>2, GoesOnAsItIs
<1> QED BY <1>2, <1>3, <1>4, <1>5, StepIsChange DEF Rest, e

\* Nobody is left who asks the user for a tunnel without being held.
LEMMA SettledIsSound ==
    ASSUME NEW d, Sound(d)
    PROVE  Sound(Settled(d)) /\ Held(Settled(d))
<1> DEFINE e == Settled(d)
           Gone(w) == ~Retained(d, w) /\ d.waiter[w].tunnel # None
<1>1. d \in StateType
  BY DEF Sound
<1>2. /\ e \in StateType /\ Rest(d, e)
      /\ \A w \in Waiters :
            e.waiter[w] = IF Gone(w) THEN [d.waiter[w] EXCEPT !.tunnel = None]
                          ELSE d.waiter[w]
      /\ \A t \in Waiters :
            e.tunnel[t] = IF \E w \in Waiters : Gone(w) /\ d.waiter[w].tunnel = t
                          THEN Close(d.tunnel[t]) ELSE d.tunnel[t]
  BY <1>1, SettledIs
<1> HIDE DEF e
<1>3. ASSUME NEW u \in Waiters
      PROVE  /\ TunnelGoesOn(d.tunnel[u], e.tunnel[u])
             /\ Begun(e, u) => /\ e.tunnel[u] = d.tunnel[u] /\ Begun(d, u)
                               /\ \A w \in Waiters : d.waiter[w].tunnel = u => ~Gone(w)
  <2>1. CASE \E w \in Waiters : Gone(w) /\ d.waiter[w].tunnel = u
    <3>1. e.tunnel[u] = Close(d.tunnel[u])
      BY <1>2, <2>1
    <3>2. d.tunnel[u] \in TunnelType /\ d.tunnel[u].ssh # "none"
      BY <2>1, SoundWaiter, Names DEF Made
    <3>3. Close(d.tunnel[u]).state = "closing"
      BY <3>2 DEF Close, TunnelType
    <3> QED BY <3>1, <3>2, <3>3, TunnelsGoOn DEF Begun, Early
  <2>2. CASE ~\E w \in Waiters : Gone(w) /\ d.waiter[w].tunnel = u
    <3>1. e.tunnel[u] = d.tunnel[u]
      BY <1>2, <2>2
    <3> HIDE DEF Gone
    <3> QED BY <1>1, <2>2, <3>1, StateFields, GoesOnAsItIs DEF Begun
  <2> QED BY <2>1, <2>2
<1>4. ASSUME NEW w \in Waiters PROVE WaiterGoesOn(d.waiter[w], e.waiter[w])
  <2>1. CASE Gone(w)
    <3>1. d.waiter[w] \in WaiterType /\ d.waiter[w].delegate # "unset"
      BY <2>1, SoundWaiter DEF FreshWaiter
    <3> QED BY <1>2, <2>1, <3>1 DEF WaiterGoesOn, WaiterType
  <2>2. CASE ~Gone(w)
    BY <1>2, <2>2, GoesOnAsItIs
  <2> QED BY <2>1, <2>2
<1>5. ASSUME NEW u \in Waiters, Begun(e, u)
      PROVE  e.waiter[u] = d.waiter[u] /\ e.current = u
  <2>1. AsksUser(d.tunnel[u], d.waiter[u], u)
    BY <1>3, <1>5, SoundWaiter
  <2>2. ~Gone(u)
    BY <1>3, <1>5, <2>1 DEF AsksUser, Waiting
  <2> QED BY <1>2, <2>1, <2>2, Names DEF AsksUser, Waiting, Retained, Rest
<1>6. Change(d, e)
  BY <1>2, <1>3, <1>4, <1>5, StepIsChange DEF Rest
<1>7. Sound(e) /\ Held(e)
  BY <1>5, <1>6, ChangeIsSound DEF Held
<1> QED BY <1>7 DEF e

-----------------------------------------------------------------------------
(* The lines that ssh writes. *)

LEMMA LeastIsThere ==
    ASSUME NEW I, I \subseteq Nat, I # {}
    PROVE  Min(I) \in I /\ \A y \in I : Min(I) <= y
<1> DEFINE R == {p \in Nat \X Nat : p[1] < p[2]}
<1>1. IsWellFoundedOn(R, Nat)
  BY NatLessThanWellFounded DEF OpToRel
<1>2. PICK x \in I : \A y \in I : <<y, x>> \notin R
  <2> HIDE DEF R
  <2> QED BY <1>1, WFMin
<1>3. ASSUME NEW y \in I PROVE x <= y
  <2>1. x \in Nat /\ y \in Nat /\ <<y, x>> \notin R
    BY <1>2
  <2> QED BY <2>1
<1> HIDE DEF R
<1> QED BY <1>3 DEF Min

LEMMA RemoveFirstType ==
    ASSUME NEW A, NEW q \in Seq(A), NEW v
    PROVE  RemoveFirst(q, v) \in Seq(A)
<1> DEFINE I == {i \in 1..Len(q) : q[i] = v}
<1>1. CASE I # {}
  <2>1. Min(I) \in I
    <3>1. I \subseteq Nat
      OBVIOUS
    <3> HIDE DEF I
    <3> QED BY <1>1, <3>1, LeastIsThere
  <2>2. RemoveFirst(q, v) = SubSeq(q, 1, Min(I) - 1) \o SubSeq(q, Min(I) + 1, Len(q))
    BY <1>1 DEF RemoveFirst, RemoveAt, SelectInSeq
  <2> HIDE DEF I
  <2> DEFINE m == Min(I)
  <2> HIDE DEF m
  <2>3. m \in 1..Len(q) /\ Len(q) \in Nat
    BY <2>1 DEF m, I
  <2>4. SubSeq(q, 1, m - 1) \in Seq(A) /\ SubSeq(q, m + 1, Len(q)) \in Seq(A)
    BY <2>3
  <2> QED BY <2>2, <2>4 DEF m
<1>2. CASE I = {}
  BY <1>2 DEF RemoveFirst
<1> QED BY <1>1, <1>2

\* The attempt after ssh has failed, and after a connection through it has.
Refused(W) == Shown([W EXCEPT !.sheets = RemoveFirst(@, "password")])
Unconnected(W) == Shown([W EXCEPT !.timer = FALSE, !.failed = TRUE])

LEMMA RefusedIs ==
    ASSUME NEW W \in WaiterType
    PROVE  LET V == Refused(W)
               sheets == RemoveFirst(W.sheets, "password")
           IN /\ V \in WaiterType /\ sheets \in Seq({"key", "password", "error"})
              /\ V.tunnel = W.tunnel /\ V.delegate = W.delegate /\ V.sock = W.sock
              /\ V.thread = W.thread /\ V.timer = W.timer /\ V.failed = W.failed
              /\ V.told = W.told
              /\ V.sheets = IF W.delegate = "set" THEN Append(sheets, "error")
                            ELSE sheets
<1> DEFINE sheets == RemoveFirst(W.sheets, "password")
           X == [W EXCEPT !.sheets = sheets]
<1>1. sheets \in Seq({"key", "password", "error"})
  BY RemoveFirstType DEF WaiterType
<1> HIDE DEF sheets
<1>2. /\ X \in WaiterType /\ X.sheets = sheets /\ X.tunnel = W.tunnel
      /\ X.delegate = W.delegate /\ X.sock = W.sock /\ X.thread = W.thread
      /\ X.timer = W.timer /\ X.failed = W.failed /\ X.told = W.told
  BY <1>1 DEF WaiterType
<1>3. Refused(W) = Shown(X)
  BY DEF Refused, sheets
<1> HIDE DEF X
<1> QED BY <1>1, <1>2, <1>3, ShownIs DEF sheets

LEMMA UnconnectedIs ==
    ASSUME NEW W \in WaiterType
    PROVE  LET V == Unconnected(W)
           IN /\ V \in WaiterType
              /\ V.tunnel = W.tunnel /\ V.delegate = W.delegate /\ V.sock = W.sock
              /\ V.thread = W.thread /\ V.timer = FALSE /\ V.failed = TRUE
              /\ V.told = W.told
              /\ V.sheets = IF W.delegate = "set" THEN Append(W.sheets, "error")
                            ELSE W.sheets
<1> DEFINE X == [W EXCEPT !.timer = FALSE, !.failed = TRUE]
<1>1. /\ X \in WaiterType /\ X.sheets = W.sheets /\ X.tunnel = W.tunnel
      /\ X.delegate = W.delegate /\ X.sock = W.sock /\ X.thread = W.thread
      /\ X.timer = FALSE /\ X.failed = TRUE /\ X.told = W.told
  BY DEF WaiterType
<1>2. Unconnected(W) = Shown(X)
  BY DEF Unconnected
<1> HIDE DEF X
<1> QED BY <1>1, <1>2, ShownIs

\* What a line does to its tunnel and to the attempt that waits for it.
LEMMA ReadLineIs ==
    ASSUME NEW d \in StateType, NEW t \in Waiters, d.tunnel[t].err # <<>>
    PROVE  LET T == d.tunnel[t]
               R == [T EXCEPT !.err = Tail(@)]
               line == Head(T.err)
               w == T.delegate
               e == ReadLine(d, t)
           IN /\ e \in StateType /\ Rest(d, e)
              /\ \/ /\ line \in Questions /\ T.state = "opening"
                    /\ e.tunnel = [d.tunnel EXCEPT ![t] = [R EXCEPT !.state = "prompt"]]
                    /\ e.waiter = [d.waiter EXCEPT
                            ![w] = [d.waiter[w] EXCEPT !.sheets = Append(@, line)]]
                 \/ /\ line \in Questions /\ T.state # "opening"
                    /\ e.tunnel = [d.tunnel EXCEPT ![t] = R]
                    /\ e.waiter = d.waiter
                 \/ /\ line \notin Questions
                    /\ e.tunnel = [d.tunnel EXCEPT ![t] = [R EXCEPT !.state = "closing"]]
                    /\ e.waiter =
                            IF w = None THEN d.waiter
                            ELSE [d.waiter EXCEPT
                                    ![w] = IF line = "channel"
                                           THEN Unconnected(d.waiter[w])
                                           ELSE Refused(d.waiter[w])]
<1> DEFINE T == d.tunnel[t]
           R == [T EXCEPT !.err = Tail(@)]
           line == Head(T.err)
           w == T.delegate
           r == [d EXCEPT !.tunnel[t] = R]
           P == [R EXCEPT !.state = "prompt"]
           C == [R EXCEPT !.state = "closing"]
           c == [r EXCEPT !.tunnel[t].state = "closing"]
<1>1. T \in TunnelType
  BY StateFields
<1>2. line \in Lines /\ Tail(T.err) \in Seq(Lines)
  BY <1>1 DEF TunnelType
<1>3. R \in TunnelType /\ R.state = T.state /\ R.delegate = w
  BY <1>1, <1>2 DEF TunnelType
<1>4. P \in TunnelType /\ C \in TunnelType
  <2>1. \A X \in TunnelType : /\ [X EXCEPT !.state = "prompt"] \in TunnelType
                              /\ [X EXCEPT !.state = "closing"] \in TunnelType
    BY DEF TunnelType, States
  <2> HIDE DEF R
  <2> QED BY <1>3, <2>1
<1>5. ReadLine(d, t) = ProcessLine(r, t, line)
  BY <1>1 DEF ReadLine, StateType
<1> HIDE DEF R
<1>6. /\ r \in StateType /\ r.tunnel = [d.tunnel EXCEPT ![t] = R]
      /\ r.waiter = d.waiter /\ Rest(d, r)
  BY <1>3, SetTunnel DEF Rest
<1>7. r.tunnel[t] = R
  BY <1>6, StateFields
<1> HIDE DEF r, P, C
<1>8. c = [r EXCEPT !.tunnel[t] = C]
  BY <1>6, <1>7 DEF StateType, C
<1> HIDE DEF c
<1>9. /\ c \in StateType /\ c.tunnel = [d.tunnel EXCEPT ![t] = C]
      /\ c.waiter = d.waiter /\ Rest(d, c)
  <2>1. /\ c \in StateType /\ c.tunnel = [r.tunnel EXCEPT ![t] = C]
        /\ c.waiter = r.waiter /\ Rest(r, c)
    BY <1>4, <1>6, <1>8, SetTunnel DEF Rest
  <2> QED BY <1>6, <2>1, StateFields DEF Rest
<1>10. CASE line \in Questions /\ T.state = "opening"
  <2> DEFINE W == d.waiter[w]
             V == [W EXCEPT !.sheets = Append(@, line)]
             e == [r EXCEPT !.tunnel[t].state = "prompt",
                            !.waiter[w].sheets = Append(@, line)]
  <2>1. ReadLine(d, t) = e
    BY <1>3, <1>5, <1>7, <1>10 DEF ProcessLine, Questions
  <2>2. e = [r EXCEPT !.tunnel[t] = P, !.waiter[w] = V]
    <3>1. r.waiter[w] = W
      BY <1>6
    <3> QED BY <1>6, <1>7, <3>1 DEF StateType, P
  <2>3. w \in Waiters => V \in WaiterType
    <3>1. ASSUME w \in Waiters PROVE W \in WaiterType
      BY <3>1, StateFields
    <3>2. \A X \in WaiterType : Append(X.sheets, line) \in Seq({"key", "password", "error"})
      BY <1>10 DEF WaiterType, Questions
    <3>3. \A X \in WaiterType : [X EXCEPT !.sheets = Append(@, line)] \in WaiterType
      BY <3>2 DEF WaiterType
    <3> QED BY <3>1, <3>3
  <2> HIDE DEF V
  <2>4. [r EXCEPT !.tunnel[t] = P, !.waiter[w] = V] \in StateType
    BY <1>4, <1>6, <2>3 DEF StateType
  <2>5. /\ e.tunnel = [d.tunnel EXCEPT ![t] = P]
        /\ e.waiter = [d.waiter EXCEPT ![w] = V] /\ Rest(d, e)
    <3>1. /\ e.tunnel = [r.tunnel EXCEPT ![t] = P]
          /\ e.waiter = [r.waiter EXCEPT ![w] = V] /\ Rest(r, e)
      BY <1>6, <2>2 DEF StateType, Rest
    <3> QED BY <1>6, <3>1, StateFields DEF Rest
  <2> HIDE DEF e
  <2> QED BY <1>10, <2>1, <2>2, <2>4, <2>5 DEF P, V, R
<1>11. CASE line \in Questions /\ T.state # "opening"
  <2>1. ReadLine(d, t) = r
    BY <1>3, <1>5, <1>7, <1>11 DEF ProcessLine, Questions
  <2> QED BY <1>6, <1>11, <2>1 DEF R
<1>12. CASE line \notin Questions
  <2>1. line \in {"failed", "eof"} \/ line = "channel"
    BY <1>2, <1>12 DEF Lines
  <2>2. CASE w = None
    <3>1. ReadLine(d, t) = c
      BY <1>3, <1>5, <1>7, <1>12, <2>1, <2>2 DEF ProcessLine, c
    <3> QED BY <1>9, <1>12, <2>2, <3>1 DEF C, R
  <2>3. CASE w # None
    <3> DEFINE W == d.waiter[w]
    <3>1. w \in Waiters
      BY <1>1, <2>3, Names DEF TunnelType
    <3>2. W \in WaiterType
      BY <3>1, StateFields
    <3>3. CASE line = "channel"
      <4> DEFINE X == [W EXCEPT !.timer = FALSE, !.failed = TRUE]
                 x == [c EXCEPT !.waiter[w] = X]
      <4>1. X \in WaiterType
        <5> HIDE DEF W
        <5> QED BY <3>2 DEF WaiterType
      <4>2. ReadLine(d, t) = Error(x, w)
        <5>1. [c EXCEPT !.waiter[w].timer = FALSE, !.waiter[w].failed = TRUE] = x
          BY <1>9, <3>1 DEF StateType
        <5> QED BY <1>3, <1>5, <1>7, <3>3, <2>3, <5>1
                DEF ProcessLine, c, TunnelFailed, Questions
      <4>3. Unconnected(W) = Shown(X)
        BY DEF Unconnected
      <4> HIDE DEF X, x
      <4>4. OnlyWaiter(c, x, w, X)
        BY <1>9, <3>1, <4>1, SetWaiter DEF OnlyWaiter, Rest, x
      <4>5. x.waiter[w] = X
        BY <1>9, <3>1, <4>4, StateFields DEF OnlyWaiter
      <4>6. OnlyWaiter(x, Error(x, w), w, Shown(X))
        BY <3>1, <4>4, <4>5, ErrorIs DEF OnlyWaiter
      <4> QED BY <1>9, <1>12, <2>3, <3>1, <3>3, <4>2, <4>3, <4>4, <4>6, StateFields
              DEF OnlyWaiter, Rest, C, R
    <3>4. CASE line # "channel"
      <4> DEFINE X == [W EXCEPT !.sheets = RemoveFirst(@, "password")]
                 x == [c EXCEPT !.waiter[w] = X]
      <4>1. X \in WaiterType
        <5>1. RemoveFirst(W.sheets, "password") \in Seq({"key", "password", "error"})
          BY <3>2, RemoveFirstType DEF WaiterType
        <5> HIDE DEF W
        <5> QED BY <3>2, <5>1 DEF WaiterType
      <4>2. ReadLine(d, t) = Error(x, w)
        <5>1. [c EXCEPT !.waiter[w].sheets = RemoveFirst(@, "password")] = x
          BY <1>9, <3>1 DEF StateType
        <5> QED BY <1>3, <1>5, <1>7, <1>12, <2>1, <2>3, <3>4, <5>1
                DEF ProcessLine, c, SshFailedWithError, Questions
      <4>3. Refused(W) = Shown(X)
        BY DEF Refused
      <4> HIDE DEF X, x
      <4>4. OnlyWaiter(c, x, w, X)
        BY <1>9, <3>1, <4>1, SetWaiter DEF OnlyWaiter, Rest, x
      <4>5. x.waiter[w] = X
        BY <1>9, <3>1, <4>4, StateFields DEF OnlyWaiter
      <4>6. OnlyWaiter(x, Error(x, w), w, Shown(X))
        BY <3>1, <4>4, <4>5, ErrorIs DEF OnlyWaiter
      <4> QED BY <1>9, <1>12, <2>3, <3>1, <3>4, <4>2, <4>3, <4>4, <4>6, StateFields
              DEF OnlyWaiter, Rest, C, R
    <3> QED BY <3>3, <3>4
  <2> QED BY <2>2, <2>3
<1> QED BY <1>10, <1>11, <1>12

\* A line leaves the invariant as it was, and is gone.
LEMMA ReadLineIsSound ==
    ASSUME NEW d, Sound(d), NEW t \in Waiters, d.tunnel[t].ssh # "none",
           d.tunnel[t].err # <<>>
    PROVE  LET e == ReadLine(d, t) IN
           /\ Sound(e) /\ e.tunnel[t].ssh = d.tunnel[t].ssh
           /\ e.tunnel[t].err = Tail(d.tunnel[t].err)
<1> DEFINE T == d.tunnel[t]
           W == d.waiter[t]
           R == [T EXCEPT !.err = Tail(@)]
           line == Head(T.err)
           e == ReadLine(d, t)
           P == [R EXCEPT !.state = "prompt"]
           C == [R EXCEPT !.state = "closing"]
           V == [W EXCEPT !.sheets = Append(@, line)]
           X == IF line = "channel" THEN Unconnected(W) ELSE Refused(W)
<1>1. /\ d \in StateType /\ T \in TunnelType /\ W \in WaiterType
      /\ W.delegate # "unset" /\ T.delegate \in {None, t}
  <2>1. TunnelSound(d, t) /\ WaiterSound(d, t)
    BY DEF Sound
  <2>2. d \in StateType /\ T \in TunnelType /\ W \in WaiterType
    BY SoundWaiter
  <2> QED BY <2>1, <2>2 DEF TunnelSound, WaiterSound
<1>2. line \in Lines /\ Tail(T.err) \in Seq(Lines)
  BY <1>1 DEF TunnelType
<1>3. ASSUME NEW U \in {R, P, C}
      PROVE  /\ U \in TunnelType /\ U.ssh = T.ssh /\ U.err = Tail(T.err)
             /\ U.delegate = T.delegate /\ U.asks = T.asks /\ U.fifo = T.fifo
             /\ U.port = T.port
             /\ TunnelGoesOn(T, U)
  BY <1>1, <1>2, <1>3 DEF TunnelType, States, TunnelGoesOn
<1>4. R.state = T.state /\ P.state = "prompt" /\ C.state = "closing"
  BY <1>1 DEF TunnelType
<1>5. /\ e \in StateType /\ Rest(d, e)
      /\ \/ /\ line \in Questions /\ T.state = "opening"
            /\ e.tunnel = [d.tunnel EXCEPT ![t] = P]
            /\ T.delegate = t => e.waiter = [d.waiter EXCEPT ![t] = V]
         \/ /\ line \in Questions /\ T.state # "opening"
            /\ e.tunnel = [d.tunnel EXCEPT ![t] = R]
            /\ e.waiter = d.waiter
         \/ /\ line \notin Questions
            /\ e.tunnel = [d.tunnel EXCEPT ![t] = C]
            /\ e.waiter = IF T.delegate = None THEN d.waiter
                          ELSE [d.waiter EXCEPT ![t] = X]
  <2> DEFINE w == T.delegate
             V1(v) == [d.waiter[v] EXCEPT !.sheets = Append(@, line)]
             X1(v) == IF line = "channel" THEN Unconnected(d.waiter[v])
                      ELSE Refused(d.waiter[v])
  <2>1. /\ e \in StateType /\ Rest(d, e)
        /\ \/ /\ line \in Questions /\ T.state = "opening"
              /\ e.tunnel = [d.tunnel EXCEPT ![t] = P]
              /\ e.waiter = [d.waiter EXCEPT ![w] = V1(w)]
           \/ /\ line \in Questions /\ T.state # "opening"
              /\ e.tunnel = [d.tunnel EXCEPT ![t] = R]
              /\ e.waiter = d.waiter
           \/ /\ line \notin Questions
              /\ e.tunnel = [d.tunnel EXCEPT ![t] = C]
              /\ e.waiter = IF w = None THEN d.waiter
                            ELSE [d.waiter EXCEPT ![w] = X1(w)]
    BY <1>1, ReadLineIs
  <2>2. V1(t) = V /\ X1(t) = X
    OBVIOUS
  <2>3. w \in {None, t}
    BY <1>1
  <2> HIDE DEF V1, X1, V, X, w, e, P, R, C, line
  <2>4. CASE w = None
    BY <2>1, <2>4, Names DEF w
  <2>5. CASE w = t
    BY <2>1, <2>2, <2>5, Names DEF w
  <2> QED BY <2>3, <2>4, <2>5
<1> HIDE DEF e, R, P, C
<1>6. ASSUME NEW U \in {R, P, C}, e.tunnel = [d.tunnel EXCEPT ![t] = U],
             NEW Y \in WaiterType, e.waiter = [d.waiter EXCEPT ![t] = Y],
             Y.tunnel = W.tunnel, Y.delegate = W.delegate,
             Begun(e, t) => Begun(d, t) /\ AsksUser(U, Y, t)
      PROVE  Sound(e) /\ e.tunnel[t] = U
  <2>1. \A u \in Waiters : /\ e.tunnel[u] = IF u = t THEN U ELSE d.tunnel[u]
                           /\ e.waiter[u] = IF u = t THEN Y ELSE d.waiter[u]
    BY <1>1, <1>6, StateFields
  <2>2. \A u \in Waiters : TunnelGoesOn(d.tunnel[u], e.tunnel[u])
    BY <1>1, <1>3, <2>1, StateFields, GoesOnAsItIs
  <2>3. \A u \in Waiters : WaiterGoesOn(d.waiter[u], e.waiter[u])
    <3>1. WaiterGoesOn(W, Y)
      BY <1>1, <1>6 DEF WaiterGoesOn
    <3> QED BY <2>1, <3>1, GoesOnAsItIs
  <2>4. ASSUME NEW u \in Waiters, Begun(e, u)
        PROVE  \/ e.tunnel[u] = d.tunnel[u] /\ e.waiter[u] = d.waiter[u]
               \/ Begun(d, u) /\ AsksUser(e.tunnel[u], e.waiter[u], u)
    <3> HIDE DEF Begun, AsksUser
    <3> QED BY <1>6, <2>1, <2>4
  <2>5. Change(d, e)
    BY <1>5, <2>2, <2>3, <2>4, StepIsChange DEF Rest
  <2> QED BY <2>1, <2>5, ChangeIsSound
<1>7. CASE line \in Questions /\ T.state = "opening"
  <2>1. Begun(d, t) /\ AsksUser(T, W, t)
    BY <1>7, SoundWaiter DEF Begun, Early
  <2>2. T.delegate = t
    BY <2>1 DEF AsksUser
  <2>3. V \in WaiterType
    <3>1. \A x \in WaiterType : Append(x.sheets, line) \in Seq({"key", "password", "error"})
      BY <1>7 DEF WaiterType, Questions
    <3>2. \A x \in WaiterType : [x EXCEPT !.sheets = Append(@, line)] \in WaiterType
      BY <3>1 DEF WaiterType
    <3> QED BY <1>1, <3>2
  <2>4. /\ V.tunnel = W.tunnel /\ V.delegate = W.delegate /\ V.told = W.told
        /\ V.thread = W.thread /\ V.sock = W.sock /\ V.timer = W.timer
        /\ V.failed = W.failed /\ V.sheets = Append(W.sheets, line)
    BY <1>1 DEF WaiterType
  <2>5. Prompting(P, V)
    <3>1. W.sheets = <<>> /\ Opening(T)
      BY <1>7, <2>1 DEF AsksUser
    <3>2. 1 \in DOMAIN T.err /\ line = T.err[1]
      BY <1>1 DEF TunnelType
    <3>3. T.asks = line /\ \A j \in DOMAIN T.err : j > 1 => T.err[j] = "eof"
      BY <1>7, <3>1, <3>2 DEF Opening
    <3>4. \A i \in DOMAIN Tail(T.err) : Tail(T.err)[i] = "eof"
      <4> SUFFICES ASSUME NEW i \in DOMAIN Tail(T.err) PROVE Tail(T.err)[i] = "eof"
        OBVIOUS
      <4>1. i + 1 \in DOMAIN T.err /\ i + 1 > 1 /\ Tail(T.err)[i] = T.err[i + 1]
        BY <1>1 DEF TunnelType
      <4> QED BY <3>3, <4>1
    <3>5. P.err = Tail(T.err) /\ P.asks = T.asks
      BY <1>3
    <3>6. V.sheets = <<line>>
      BY <2>4, <3>1
    <3> QED BY <1>7, <3>3, <3>4, <3>5, <3>6 DEF Prompting
  <2> HIDE DEF V
  <2>6. AsksUser(P, V, t)
    BY <1>3, <1>4, <2>1, <2>4, <2>5 DEF AsksUser, Waiting
  <2> QED BY <1>3, <1>5, <1>6, <1>7, <2>1, <2>2, <2>3, <2>4, <2>6 DEF e
<1>8. CASE line \in Questions /\ T.state # "opening"
  <2>1. e.waiter = [d.waiter EXCEPT ![t] = W] /\ e.tunnel[t] = R
    BY <1>1, <1>5, <1>8, StateFields
  <2>2. ~Begun(e, t)
    <3> SUFFICES ASSUME Begun(e, t) PROVE FALSE
      OBVIOUS
    <3>1. T.state = "prompt"
      BY <1>3, <1>4, <1>8, <2>1 DEF Begun, Early
    <3>2. Prompting(T, W)
      BY <3>1, SoundWaiter DEF Begun, Early, AsksUser
    <3>3. 1 \in DOMAIN T.err /\ line = T.err[1]
      BY <1>1 DEF TunnelType
    <3> QED BY <1>8, <3>2, <3>3 DEF Prompting, Questions
  <2> QED BY <1>1, <1>3, <1>5, <1>6, <1>8, <2>1, <2>2 DEF e
<1>9. CASE line \notin Questions
  <2> DEFINE Y == IF T.delegate = None THEN W ELSE X
  <2>1. e.waiter = [d.waiter EXCEPT ![t] = Y] /\ e.tunnel[t] = C
    BY <1>1, <1>5, <1>9, StateFields
  <2>2. ~Begun(e, t)
    BY <1>4, <2>1 DEF Begun, Early
  <2>3. Y \in WaiterType /\ Y.tunnel = W.tunnel /\ Y.delegate = W.delegate
    BY <1>1, RefusedIs, UnconnectedIs
  <2> HIDE DEF Y
  <2> QED BY <1>3, <1>5, <1>6, <1>9, <2>1, <2>2, <2>3 DEF e
<1> QED BY <1>7, <1>8, <1>9

\* A notification may bring any number of the lines: what each of them keeps
\* holds after the last one.
Keeping(P, t) ==
    \A e \in P : Sound(e) /\ e.tunnel[t].ssh # "none" /\ e.tunnel[t].err # <<>>
                 => ReadLine(e, t) \in P

LEMMA LinesKeep ==
    ASSUME NEW d, Sound(d), NEW t \in Waiters, d.tunnel[t].ssh # "none",
           NEW n \in 0..Len(d.tunnel[t].err), NEW P, d \in P, Keeping(P, t)
    PROVE  LET e == ReadLines(d, t, n) IN
           /\ e \in P /\ Sound(e)
           /\ Len(e.tunnel[t].err) + n = Len(d.tunnel[t].err)
<1> DEFINE Good(k) == {e \in P :
                          /\ Sound(e) /\ e.tunnel[t].ssh # "none"
                          /\ Len(e.tunnel[t].err) + k = Len(d.tunnel[t].err)}
           S == [k \in 0..n |-> Good(k)]
<1>1. d \in StateType /\ d.tunnel[t].err \in Seq(Lines)
  BY SoundWaiter DEF TunnelType
<1>2. n \in Nat
  BY <1>1
<1>3. d \in S[0]
  <2>1. Len(d.tunnel[t].err) + 0 = Len(d.tunnel[t].err)
    BY <1>1
  <2> QED BY <1>1, <1>2, <2>1
<1>4. ASSUME NEW k \in 0..n - 1, NEW e \in S[k] PROVE ReadLine(e, t) \in S[k + 1]
  <2>1. /\ Sound(e) /\ e.tunnel[t].ssh # "none" /\ e \in P
        /\ Len(e.tunnel[t].err) + k = Len(d.tunnel[t].err)
    BY <1>2, <1>4
  <2>2. e.tunnel[t].err \in Seq(Lines)
    BY <2>1, SoundWaiter DEF TunnelType
  <2>3. e.tunnel[t].err # <<>>
    BY <1>1, <1>2, <2>1, <2>2
  <2> DEFINE g == ReadLine(e, t)
  <2>4. /\ Sound(g) /\ g.tunnel[t].ssh = e.tunnel[t].ssh
        /\ g.tunnel[t].err = Tail(e.tunnel[t].err)
    BY <2>1, <2>3, ReadLineIsSound
  <2>5. g \in P
    BY <2>1, <2>3 DEF Keeping
  <2> HIDE DEF g
  <2>6. Len(g.tunnel[t].err) + (k + 1) = Len(d.tunnel[t].err)
    <3>1. \A q \in Seq(Lines) : q # <<>> => Len(Tail(q)) = Len(q) - 1 /\ Len(q) \in Nat
      OBVIOUS
    <3>2. k \in Nat
      BY <1>2
    <3> DEFINE a == Len(e.tunnel[t].err)
               b == Len(d.tunnel[t].err)
               c == Len(g.tunnel[t].err)
    <3>3. c = a - 1 /\ a \in Nat
      BY <2>2, <2>3, <2>4, <3>1
    <3>4. a + k = b /\ b \in Nat
      BY <1>1, <2>1
    <3> HIDE DEF a, b, c
    <3>5. c + (k + 1) = b
      BY <3>2, <3>3, <3>4
    <3> QED BY <3>5 DEF b, c
  <2>7. k + 1 \in 0..n
    BY <1>2
  <2>8. g \in Good(k + 1)
    BY <2>1, <2>4, <2>5, <2>6
  <2> HIDE DEF Good
  <2> QED BY <2>7, <2>8 DEF g
<1> HIDE DEF S
<1>5. ReadLines(d, t, n) \in S[n]
  BY <1>2, <1>3, <1>4, LinesInduction
<1> QED BY <1>2, <1>5 DEF S

LEMMA ReadLinesIsSound ==
    ASSUME NEW d, Sound(d), NEW t \in Waiters, d.tunnel[t].ssh # "none",
           NEW n \in 0..Len(d.tunnel[t].err)
    PROVE  Sound(ReadLines(d, t, n))
<1>1. d \in StateType
  BY DEF Sound
<1>2. Keeping(StateType, t)
  BY ReadLineIsSound DEF Keeping, Sound
<1> QED BY <1>1, <1>2, LinesKeep

-----------------------------------------------------------------------------
(* Steps of a tunnel alone, and of an attempt alone. *)

LEMMA TunnelStep ==
    ASSUME NEW d, Sound(d), NEW t \in Waiters, d.tunnel[t].ssh # "none",
           NEW U \in TunnelType, TunnelGoesOn(d.tunnel[t], U),
           U.state \in Early =>
              d.tunnel[t].state \in Early /\ AsksUser(U, d.waiter[t], t)
    PROVE  LET e == [d EXCEPT !.tunnel[t] = U] IN
           /\ Change(d, e) /\ Rest(d, e) /\ e.waiter = d.waiter
           /\ \A u \in Waiters : e.tunnel[u] = IF u = t THEN U ELSE d.tunnel[u]
<1> DEFINE e == [d EXCEPT !.tunnel[t] = U]
<1>1. d \in StateType
  BY DEF Sound
<1>2. /\ e \in StateType /\ e.tunnel = [d.tunnel EXCEPT ![t] = U]
      /\ e.waiter = d.waiter /\ Rest(d, e)
  BY <1>1, SetTunnel DEF Rest
<1> HIDE DEF e
<1>3. \A u \in Waiters : e.tunnel[u] = IF u = t THEN U ELSE d.tunnel[u]
  BY <1>1, <1>2, StateFields
<1>4. \A u \in Waiters : /\ TunnelGoesOn(d.tunnel[u], e.tunnel[u])
                         /\ WaiterGoesOn(d.waiter[u], e.waiter[u])
  BY <1>1, <1>2, <1>3, StateFields, GoesOnAsItIs
<1>5. ASSUME NEW u \in Waiters, Begun(e, u)
      PROVE  \/ e.tunnel[u] = d.tunnel[u] /\ e.waiter[u] = d.waiter[u]
             \/ Begun(d, u) /\ AsksUser(e.tunnel[u], e.waiter[u], u)
  <2> HIDE DEF AsksUser
  <2> QED BY <1>2, <1>3, <1>5 DEF Begun
<1>6. Change(d, e)
  BY <1>2, <1>4, <1>5, StepIsChange DEF Rest
<1> QED BY <1>2, <1>3, <1>6 DEF e

LEMMA WaiterStep ==
    ASSUME NEW d, Sound(d), NEW w \in Waiters, ~Begun(d, w),
           NEW W \in WaiterType, WaiterGoesOn(d.waiter[w], W)
    PROVE  LET e == [d EXCEPT !.waiter[w] = W] IN
           /\ Change(d, e) /\ Rest(d, e) /\ e.tunnel = d.tunnel
           /\ \A u \in Waiters : e.waiter[u] = IF u = w THEN W ELSE d.waiter[u]
<1> DEFINE e == [d EXCEPT !.waiter[w] = W]
<1>1. d \in StateType
  BY DEF Sound
<1>2. /\ e \in StateType /\ e.waiter = [d.waiter EXCEPT ![w] = W]
      /\ e.tunnel = d.tunnel /\ Rest(d, e)
  BY <1>1, SetWaiter DEF Rest
<1> HIDE DEF e
<1>3. \A u \in Waiters : e.waiter[u] = IF u = w THEN W ELSE d.waiter[u]
  BY <1>1, <1>2, StateFields
<1>4. \A u \in Waiters : /\ TunnelGoesOn(d.tunnel[u], e.tunnel[u])
                         /\ WaiterGoesOn(d.waiter[u], e.waiter[u])
  BY <1>1, <1>2, <1>3, StateFields, GoesOnAsItIs
<1>5. ASSUME NEW u \in Waiters, Begun(e, u)
      PROVE  e.tunnel[u] = d.tunnel[u] /\ e.waiter[u] = d.waiter[u]
  BY <1>2, <1>3, <1>5 DEF Begun
<1>6. Change(d, e)
  BY <1>2, <1>4, <1>5, StepIsChange DEF Rest
<1> QED BY <1>2, <1>3, <1>6 DEF e

\* A sheet may always be shown, except while ssh is waited for.
LEMMA ErrorIsSound ==
    ASSUME NEW d, Sound(d), NEW w \in Waiters, ~Begun(d, w),
           d.waiter[w].delegate # "unset"
    PROVE  LET e == Error(d, w) IN
           /\ Change(d, e) /\ Rest(d, e) /\ e.tunnel = d.tunnel
           /\ \A u \in Waiters : e.waiter[u] = IF u = w THEN Shown(d.waiter[u])
                                               ELSE d.waiter[u]
<1> DEFINE W == d.waiter[w]
           e == Error(d, w)
<1>1. d \in StateType /\ W \in WaiterType
  BY SoundWaiter
<1>2. OnlyWaiter(d, e, w, Shown(W))
  BY <1>1, ErrorIs
<1>3. /\ Shown(W) \in WaiterType /\ Shown(W).tunnel = W.tunnel
      /\ Shown(W).delegate = W.delegate
  BY <1>1, ShownIs
<1>4. WaiterGoesOn(W, Shown(W))
  BY <1>3 DEF WaiterGoesOn
<1>5. [d EXCEPT !.waiter[w] = Shown(W)] = e
  <2> DEFINE V == Shown(W)
  <2>1. Error(d, w) = IF W.delegate = "set" THEN [d EXCEPT !.waiter[w] = V] ELSE d
    BY <1>1 DEF Error, Shown, StateType
  <2>2. W.delegate # "set" => V = W
    BY DEF Shown
  <2>3. [d EXCEPT !.waiter[w] = W] = d
    BY <1>1 DEF StateType
  <2> HIDE DEF V
  <2> QED BY <2>1, <2>2, <2>3 DEF V
<1> DEFINE V == Shown(W)
<1> HIDE DEF V
<1>6. LET f == [d EXCEPT !.waiter[w] = V] IN
      /\ Change(d, f) /\ Rest(d, f) /\ f.tunnel = d.tunnel
      /\ \A u \in Waiters : f.waiter[u] = IF u = w THEN V ELSE d.waiter[u]
  BY <1>3, <1>4, WaiterStep DEF V
<1> QED BY <1>5, <1>6 DEF V

-----------------------------------------------------------------------------
(* ssh and its notifications. *)

Inv == Sound(s) /\ Held(s)

\* A step that changes only what it may, and not the attempt of the delegate.
LEMMA ChangeKeepsInv ==
    ASSUME Inv, Change(s, s'), s'.current = s.current
    PROVE  Inv'
  BY ChangeIsSound, ChangeIsHeld DEF Inv

\* And what is left of a handler that has dropped an attempt.
LEMMA SettledKeepsInv ==
    ASSUME NEW d, Sound(d), s' = Settled(d)
    PROVE  Inv'
  BY SettledIsSound DEF Inv

LEMMA ReadStderrKeepsInv ==
    ASSUME Inv, NEW t \in Waiters, ReadStderr(t)
    PROVE  Inv'
<1>1. PICK n \in 1..Len(s.tunnel[t].err) : s' = Settled(ReadLines(s, t, n))
  BY DEF ReadStderr
<1>2. Sound(s) /\ s.tunnel[t].ssh # "none"
  BY DEF Inv, ReadStderr, Reads
<1>3. s.tunnel[t].err \in Seq(Lines)
  BY <1>2, SoundWaiter DEF TunnelType
<1>4. n \in 0..Len(s.tunnel[t].err)
  BY <1>1, <1>3
<1>5. Sound(ReadLines(s, t, n))
  BY <1>2, <1>4, ReadLinesIsSound
<1> QED BY <1>1, <1>5, SettledKeepsInv

LEMMA SshAsksKeepsInv ==
    ASSUME Inv, NEW t \in Waiters, NEW q \in Questions, SshAsks(t, q)
    PROVE  Inv'
<1> DEFINE T == s.tunnel[t]
           W == s.waiter[t]
           U == Asks(T, q)
<1>1. /\ Sound(s) /\ T \in TunnelType /\ T.ssh = "running"
      /\ T.asks \in {"new", "no", "again"}
      /\ s' = [s EXCEPT !.tunnel[t] = U]
  <2>1. Sound(s) /\ s \in StateType
    BY DEF Inv, Sound
  <2>2. T \in TunnelType
    BY <2>1, StateFields
  <2>3. T.ssh = "running" /\ T.asks \in {"new", "no", "again"}
    BY DEF SshAsks, CanAsk, CanWork
  <2> QED BY <2>1, <2>2, <2>3 DEF SshAsks
<1>2. /\ U \in TunnelType /\ TunnelGoesOn(T, U) /\ U.state = T.state
      /\ U.ssh = T.ssh /\ U.asks = q /\ U.err = Append(T.err, q)
      /\ U.delegate = T.delegate /\ U.fifo = T.fifo
  <2>1. U \in TunnelType /\ TunnelGoesOn(T, U)
    BY <1>1, TunnelTypes, TunnelsGoOn
  <2> QED BY <1>1, <2>1 DEF TunnelType, Asks
<1>3. ASSUME T.state \in Early PROVE AsksUser(U, W, t)
  <2>1. AsksUser(T, W, t)
    BY <1>1, <1>3, SoundWaiter DEF Begun
  <2>2. T.state = "opening"
    BY <1>1, <1>3, <2>1 DEF AsksUser, Prompting, Early, Questions
  <2>3. T.err \in Seq(Lines) /\ \A i \in DOMAIN T.err : T.err[i] \notin Questions
    BY <1>1, <2>1, <2>2 DEF AsksUser, Opening, TunnelType, Questions
  <2>4. Opening(U)
    <3> HIDE DEF T, U
    <3>1. ASSUME NEW i \in DOMAIN U.err, U.err[i] \in Questions
          PROVE  i = Len(T.err) + 1 /\ U.err[i] = q
      BY <1>2, <2>3, <3>1
    <3>2. \A j \in DOMAIN U.err : j <= Len(T.err) + 1
      BY <1>2, <2>3
    <3>3. \A j \in DOMAIN U.err : j > Len(T.err) + 1 => U.err[j] = "eof"
      BY <1>2, <2>3, <3>2
    <3> QED BY <1>2, <3>1, <3>3 DEF Opening
  <2> QED BY <1>2, <2>1, <2>2, <2>4 DEF AsksUser
<1> HIDE DEF U
<1>4. Change(s, s') /\ Rest(s, s')
  BY <1>1, <1>2, <1>3, TunnelStep
<1> QED BY <1>4, ChangeKeepsInv DEF Rest

LEMMA SshFailsKeepsInv ==
    ASSUME Inv, NEW t \in Waiters, SshFails(t)
    PROVE  Inv'
<1> DEFINE T == s.tunnel[t]
           W == s.waiter[t]
           U(n) == Fails(T, n)
<1>1. PICK n \in 1..2 : s' = [s EXCEPT !.tunnel[t] = U(n)]
  BY DEF SshFails
<1>2. /\ Sound(s) /\ T \in TunnelType /\ T.ssh = "running" /\ T.asks \in {"new", "no"}
  <2>1. Sound(s) /\ s \in StateType
    BY DEF Inv, Sound
  <2>2. T \in TunnelType
    BY <2>1, StateFields
  <2> QED BY <2>1, <2>2 DEF SshFails, CanWork
<1>3. /\ U(n) \in TunnelType /\ TunnelGoesOn(T, U(n)) /\ U(n).state = T.state
      /\ U(n).ssh = T.ssh /\ U(n).asks = "again"
      /\ U(n).err = T.err \o [i \in 1..n |-> "failed"]
      /\ U(n).delegate = T.delegate /\ U(n).fifo = T.fifo
  <2>1. U(n) \in TunnelType /\ TunnelGoesOn(T, U(n))
    BY <1>2, TunnelTypes, TunnelsGoOn
  <2> QED BY <1>2, <2>1 DEF TunnelType, Fails
<1>4. ASSUME T.state \in Early PROVE AsksUser(U(n), W, t)
  <2>1. AsksUser(T, W, t)
    BY <1>2, <1>4, SoundWaiter DEF Begun
  <2>2. T.state = "opening"
    BY <1>2, <1>4, <2>1 DEF AsksUser, Prompting, Early, Questions
  <2>3. T.err \in Seq(Lines) /\ \A i \in DOMAIN T.err : T.err[i] \notin Questions
    BY <1>2, <2>1, <2>2 DEF AsksUser, Opening, TunnelType, Questions
  <2>4. Opening(U(n))
    <3> DEFINE more == [i \in 1..n |-> "failed"]
               V == U(n)
    <3>1. more \in Seq(Lines) /\ \A i \in DOMAIN more : more[i] = "failed"
      BY DEF Lines
    <3>2. V.err = T.err \o more
      BY <1>3
    <3> HIDE DEF T, V, more
    <3>3. ASSUME NEW i \in DOMAIN V.err PROVE V.err[i] \notin Questions
      <4>1. CASE i \in DOMAIN T.err
        BY <2>3, <3>1, <3>2, <4>1
      <4>2. CASE i \notin DOMAIN T.err
        <5>1. i - Len(T.err) \in DOMAIN more /\ V.err[i] = more[i - Len(T.err)]
          BY <2>3, <3>1, <3>2, <3>3, <4>2
        <5> QED BY <3>1, <5>1 DEF Questions
      <4> QED BY <4>1, <4>2
    <3> QED BY <3>3 DEF Opening, V
  <2> QED BY <1>3, <2>1, <2>2, <2>4 DEF AsksUser
<1> DEFINE V == U(n)
<1> HIDE DEF U, V
<1>5. Change(s, s') /\ Rest(s, s')
  <2>1. /\ V \in TunnelType /\ TunnelGoesOn(T, V) /\ V.state = T.state
        /\ s' = [s EXCEPT !.tunnel[t] = V] /\ (T.state \in Early => AsksUser(V, W, t))
    BY <1>1, <1>3, <1>4 DEF V
  <2> QED BY <1>2, <2>1, TunnelStep
<1> QED BY <1>5, ChangeKeepsInv DEF Rest

LEMMA SshLogsInKeepsInv ==
    ASSUME Inv, NEW t \in Waiters, SshLogsIn(t)
    PROVE  Inv'
<1> DEFINE T == s.tunnel[t]
           W == s.waiter[t]
           U == LogsIn(T)
<1>1. Sound(s) /\ T \in TunnelType /\ T.ssh = "running" /\ s' = [s EXCEPT !.tunnel[t] = U]
  <2>1. Sound(s) /\ s \in StateType
    BY DEF Inv, Sound
  <2>2. T \in TunnelType
    BY <2>1, StateFields
  <2> QED BY <2>1, <2>2 DEF SshLogsIn, CanWork
<1>2. /\ U \in TunnelType /\ TunnelGoesOn(T, U) /\ U.state = T.state
      /\ U.ssh = T.ssh /\ U.asks = T.asks /\ U.err = T.err
      /\ U.delegate = T.delegate /\ U.fifo = T.fifo
  <2>1. U \in TunnelType /\ TunnelGoesOn(T, U)
    BY <1>1, TunnelTypes, TunnelsGoOn
  <2> QED BY <1>1, <2>1 DEF TunnelType, LogsIn
<1>3. ASSUME T.state \in Early PROVE AsksUser(U, W, t)
  <2>1. AsksUser(T, W, t)
    BY <1>1, <1>3, SoundWaiter DEF Begun
  <2> HIDE DEF U
  <2> QED BY <1>2, <2>1 DEF AsksUser, Opening, Prompting
<1> HIDE DEF U
<1>4. Change(s, s') /\ Rest(s, s')
  BY <1>1, <1>2, <1>3, TunnelStep
<1> QED BY <1>4, ChangeKeepsInv DEF Rest

\* An attempt whose thread waits finds its socket closed.
LEMMA SshEndsIs ==
    ASSUME s \in StateType, NEW t \in Waiters, SshEnds(t)
    PROVE  /\ s' \in StateType /\ Rest(s, s') /\ s.tunnel[t].ssh = "running"
           /\ \A u \in Waiters :
                 /\ s'.tunnel[u] = IF u = t THEN Ends(s.tunnel[u]) ELSE s.tunnel[u]
                 /\ s'.waiter[u] = IF Waits(u, t) /\ s.waiter[u].sock = "open"
                                   THEN [s.waiter[u] EXCEPT !.sock = "hup"]
                                   ELSE s.waiter[u]
<1> DEFINE U == Ends(s.tunnel[t])
           X(u) == IF Waits(u, t) /\ s.waiter[u].sock = "open"
                   THEN [s.waiter[u] EXCEPT !.sock = "hup"] ELSE s.waiter[u]
           V == [u \in Waiters |-> X(u)]
<1>1. s' = [s EXCEPT !.tunnel[t] = U, !.waiter = V] /\ s.tunnel[t].ssh = "running"
  BY StateFields DEF SshEnds
<1>2. U \in TunnelType
  BY StateFields, TunnelTypes
<1>3. V \in [Waiters -> WaiterType]
  <2>1. \A Y \in WaiterType : [Y EXCEPT !.sock = "hup"] \in WaiterType
    BY DEF WaiterType
  <2> QED BY <2>1, StateFields
<1>4. \A u \in Waiters : V[u] = X(u)
  OBVIOUS
<1> HIDE DEF U, V
<1>5. /\ s' \in StateType /\ Rest(s, s') /\ s'.tunnel = [s.tunnel EXCEPT ![t] = U]
      /\ s'.waiter = V
  BY <1>1, <1>2, <1>3 DEF StateType, Rest
<1>6. \A u \in Waiters : s'.tunnel[u] = IF u = t THEN U ELSE s.tunnel[u]
  BY <1>5, StateFields
<1> QED BY <1>1, <1>4, <1>5, <1>6 DEF U

LEMMA SshEndsKeepsInv ==
    ASSUME Inv, NEW t \in Waiters, SshEnds(t)
    PROVE  Inv'
<1> DEFINE T == s.tunnel[t]
<1>1. Sound(s) /\ s \in StateType
  BY DEF Inv, Sound
<1>2. /\ s' \in StateType /\ Rest(s, s') /\ T.ssh = "running"
      /\ \A u \in Waiters :
            /\ s'.tunnel[u] = IF u = t THEN Ends(s.tunnel[u]) ELSE s.tunnel[u]
            /\ s'.waiter[u] = IF Waits(u, t) /\ s.waiter[u].sock = "open"
                              THEN [s.waiter[u] EXCEPT !.sock = "hup"]
                              ELSE s.waiter[u]
  BY <1>1, SshEndsIs
<1>3. \A u \in Waiters : TunnelGoesOn(s.tunnel[u], s'.tunnel[u])
  BY <1>1, <1>2, StateFields, TunnelsGoOn, GoesOnAsItIs
<1>4. ASSUME NEW w \in Waiters PROVE WaiterGoesOn(s.waiter[w], s'.waiter[w])
  <2>1. CASE Waits(w, t) /\ s.waiter[w].sock = "open"
    <3>1. s.waiter[w] \in WaiterType /\ s.waiter[w].delegate # "unset"
      BY <1>1, <2>1, SoundWaiter DEF FreshWaiter
    <3> QED BY <1>2, <2>1, <3>1 DEF WaiterType, WaiterGoesOn
  <2>2. CASE ~(Waits(w, t) /\ s.waiter[w].sock = "open")
    BY <1>2, <2>2, GoesOnAsItIs
  <2> QED BY <2>1, <2>2
<1>5. ASSUME NEW u \in Waiters, Begun(s', u)
      PROVE  \/ s'.tunnel[u] = s.tunnel[u] /\ s'.waiter[u] = s.waiter[u]
             \/ Begun(s, u) /\ AsksUser(s'.tunnel[u], s'.waiter[u], u)
  <2> DEFINE U == Ends(T)
  <2>1. /\ U.state = T.state /\ U.ssh = "ended" /\ U.asks = T.asks
        /\ U.delegate = T.delegate /\ U.err = Append(T.err, "eof")
        /\ T.err \in Seq(Lines)
    BY <1>1, StateFields DEF TunnelType, Ends
  <2>2. Begun(s, u)
    BY <1>2, <1>5, <2>1 DEF Begun
  <2>3. AsksUser(s.tunnel[u], s.waiter[u], u)
    BY <1>1, <2>2, SoundWaiter
  <2>4. s'.waiter[u] = s.waiter[u]
    BY <1>2, <2>3 DEF AsksUser, Waiting
  <2>5. CASE u = t
    <3> DEFINE W == s.waiter[t]
    <3>0. \A i \in DOMAIN U.err : \/ i \in DOMAIN T.err /\ U.err[i] = T.err[i]
                                  \/ i \notin DOMAIN T.err /\ U.err[i] = "eof"
      BY <2>1
    <3> HIDE DEF U
    <3>1. Opening(T) => Opening(U)
      <4>1. \A i, j \in DOMAIN U.err : i \in DOMAIN T.err /\ j \notin DOMAIN T.err => U.err[j] = "eof"
        BY <3>0
      <4> QED BY <2>1, <3>0 DEF Opening, Questions
    <3>2. Prompting(T, W) => Prompting(U, W)
      BY <2>1, <3>0 DEF Prompting
    <3>3. AsksUser(U, W, t)
      BY <2>1, <2>3, <2>5, <3>1, <3>2 DEF AsksUser
    <3> QED BY <1>2, <2>2, <2>4, <2>5, <3>3 DEF U
  <2>6. CASE u # t
    BY <1>2, <2>4, <2>6
  <2> QED BY <2>5, <2>6
<1>6. Change(s, s')
  BY <1>1, <1>2, <1>3, <1>4, <1>5, StepIsChange DEF Rest
<1> QED BY <1>2, <1>6, ChangeKeepsInv DEF Rest

\* The port is free again, and nobody else has it.
LEMMA SshTerminatedIs ==
    ASSUME s \in StateType, NEW t \in Waiters, SshTerminated(t)
    PROVE  /\ s' \in StateType /\ s'.waiter = s.waiter /\ s'.current = s.current
           /\ s'.kept = s.kept /\ s'.connected = s.connected
           /\ s'.portUsed = s.portUsed \ {s.tunnel[t].port}
           /\ s.tunnel[t].ssh = "ended"
           /\ \A u \in Waiters :
                 s'.tunnel[u] = IF u = t
                                THEN [s.tunnel[u] EXCEPT !.port = NoPort, !.fifo = FALSE]
                                ELSE s.tunnel[u]
<1> DEFINE U == [s.tunnel[t] EXCEPT !.port = NoPort, !.fifo = FALSE]
           p == s.tunnel[t].port
<1>1. s' = [s EXCEPT !.portUsed = @ \ {p}, !.tunnel[t] = U] /\ s.tunnel[t].ssh = "ended"
  BY DEF SshTerminated, StateType
<1>2. U \in TunnelType
  <2>1. \A T \in TunnelType : [T EXCEPT !.port = NoPort, !.fifo = FALSE] \in TunnelType
    BY DEF TunnelType
  <2> QED BY <2>1, StateFields
<1> HIDE DEF U, p
<1>3. /\ s' \in StateType /\ s'.waiter = s.waiter /\ s'.current = s.current
      /\ s'.kept = s.kept /\ s'.connected = s.connected
      /\ s'.portUsed = s.portUsed \ {p} /\ s'.tunnel = [s.tunnel EXCEPT ![t] = U]
  BY <1>1, <1>2 DEF StateType
<1>4. \A u \in Waiters : s'.tunnel[u] = IF u = t THEN U ELSE s.tunnel[u]
  BY <1>3, StateFields
<1> QED BY <1>1, <1>3, <1>4 DEF U, p

LEMMA SshTerminatedKeepsInv ==
    ASSUME Inv, NEW t \in Waiters, SshTerminated(t)
    PROVE  Inv'
<1> DEFINE T == s.tunnel[t]
           U == [T EXCEPT !.port = NoPort, !.fifo = FALSE]
<1>1. Sound(s) /\ s \in StateType /\ T \in TunnelType
  BY StateFields DEF Inv, Sound
<1>2. /\ s' \in StateType /\ s'.waiter = s.waiter /\ s'.current = s.current
      /\ s'.kept = s.kept /\ s'.portUsed = s.portUsed \ {T.port} /\ T.ssh = "ended"
      /\ \A u \in Waiters : s'.tunnel[u] = IF u = t THEN U ELSE s.tunnel[u]
  BY <1>1, SshTerminatedIs
<1>3. /\ U.ssh = T.ssh /\ U.state = T.state /\ U.asks = T.asks /\ U.err = T.err
      /\ U.delegate = T.delegate /\ U.port = NoPort /\ U.fifo = FALSE
  BY <1>1 DEF TunnelType
<1>4. s.tunnel[t].port # NoPort
  BY DEF SshTerminated
<1> HIDE DEF U
<1>5. ASSUME NEW u \in Waiters
      PROVE  PortSound(s', u) /\ WaiterSound(s', u) /\ TunnelSound(s', u)
  <2>1. PortSound(s, u) /\ WaiterSound(s, u) /\ TunnelSound(s, u) /\ PortSound(s, t)
    BY <1>1 DEF Sound
  <2>2. /\ s'.tunnel[u].ssh = s.tunnel[u].ssh /\ s'.tunnel[u].state = s.tunnel[u].state
        /\ s'.tunnel[u].delegate = s.tunnel[u].delegate
    BY <1>2, <1>3
  <2>3. PortSound(s', u)
    <3> HIDE DEF NoTunnel, NoPort
    <3>1. CASE u = t
      BY <1>2, <1>3, <2>1, <3>1 DEF PortSound
    <3>2. CASE u # t
      <4>1. s'.tunnel[u] = s.tunnel[u]
        BY <1>2, <3>2
      <4>2. s.tunnel[u].port # s.tunnel[t].port
        BY <1>4, <2>1, <3>2 DEF PortSound
      <4>3. s.tunnel[u].port # NoPort =>
               /\ s.tunnel[u].port \in s'.portUsed
               /\ \A v \in Waiters \ {u} : s'.tunnel[v].port # s.tunnel[u].port
        BY <1>2, <1>3, <2>1, <4>2 DEF PortSound
      <4> QED BY <2>1, <4>1, <4>3 DEF PortSound
    <3> QED BY <3>1, <3>2
  <2>4. WaiterSound(s', u)
    <3>1. s.waiter[u].tunnel \in Waiters \cup {None}
      BY <1>1, SoundWaiter
    <3>2. Made(s, s.waiter[u].tunnel) => Made(s', s.waiter[u].tunnel)
      BY <1>2, <1>3, <3>1 DEF Made
    <3> QED BY <1>2, <2>1, <2>2, <3>2 DEF WaiterSound
  <2>5. TunnelSound(s', u)
    <3>1. AsksUser(s.tunnel[u], s.waiter[u], u) => AsksUser(s'.tunnel[u], s.waiter[u], u)
      <4>1. CASE u = t
        BY <1>2, <1>3, <4>1 DEF AsksUser, Opening, Prompting
      <4>2. CASE u # t
        BY <1>2, <4>2
      <4> QED BY <4>1, <4>2
    <3> QED BY <1>2, <2>1, <2>2, <3>1 DEF TunnelSound, Begun
  <2> QED BY <2>3, <2>4, <2>5
<1>6. Made(s', s'.kept)
  <2>1. Made(s, s.kept) /\ s.kept \in Waiters \cup {None}
    BY <1>1, StateFields DEF Sound
  <2> QED BY <1>2, <1>3, <2>1 DEF Made
<1>7. Held(s')
  BY <1>2, <1>3 DEF Held, Begun, Inv
<1> QED BY <1>2, <1>5, <1>6, <1>7 DEF Inv, Sound

\* Only of a tunnel that waits for it does the blank line change the state.
LEMMA ReadStdoutKeepsInv ==
    ASSUME Inv, NEW t \in Waiters, ReadStdout(t)
    PROVE  Inv'
<1> DEFINE T == s.tunnel[t]
           W == s.waiter[t]
           B == [T EXCEPT !.blank = FALSE]
           N == [B EXCEPT !.state = "tunneling", !.fifo = FALSE]
           d == [s EXCEPT !.tunnel[t].blank = FALSE]
           n == [d EXCEPT !.tunnel[t].state = "tunneling", !.tunnel[t].fifo = FALSE]
<1>1. Sound(s) /\ s \in StateType /\ T \in TunnelType /\ W \in WaiterType
  BY StateFields DEF Inv, Sound
<1>2. T.ssh # "none"
  BY DEF ReadStdout, Reads
<1>3. /\ B \in TunnelType /\ TunnelGoesOn(T, B) /\ B.state = T.state /\ B.ssh = T.ssh
      /\ B.asks = T.asks /\ B.err = T.err /\ B.delegate = T.delegate /\ B.fifo = T.fifo
  BY <1>1, <1>2 DEF TunnelType, TunnelGoesOn
<1>4. N \in TunnelType /\ TunnelGoesOn(T, N) /\ N.state = "tunneling"
  <2>1. "tunneling" \in States
    BY DEF States
  <2> QED BY <1>1, <1>2, <2>1 DEF TunnelType, TunnelGoesOn
<1>5. d = [s EXCEPT !.tunnel[t] = B] /\ n = [s EXCEPT !.tunnel[t] = N]
  BY <1>1 DEF StateType
<1>6. CASE T.state # "opening"
  <2>1. s' = d
    BY <1>6 DEF ReadStdout
  <2>2. ASSUME T.state \in Early PROVE AsksUser(B, W, t)
    <3>1. AsksUser(T, W, t)
      BY <1>1, <1>2, <2>2, SoundWaiter DEF Begun
    <3> HIDE DEF B
    <3> QED BY <1>3, <3>1 DEF AsksUser, Opening, Prompting
  <2> HIDE DEF B, d
  <2>3. Change(s, s') /\ Rest(s, s')
    BY <1>1, <1>2, <1>3, <1>5, <2>1, <2>2, TunnelStep
  <2> QED BY <2>3, ChangeKeepsInv DEF Rest
<1>7. CASE T.state = "opening"
  <2>1. AsksUser(T, W, t) /\ Begun(s, t)
    BY <1>1, <1>2, <1>7, SoundWaiter DEF Begun, Early
  <2>2. T.delegate = t
    BY <2>1 DEF AsksUser
  <2>3. s' = Establish(n, t) \/ s' = Error(n, t)
    BY <1>7, <2>2 DEF ReadStdout
  <2> HIDE DEF B, N, d, n
  <2>4. /\ Change(s, n) /\ Rest(s, n) /\ n.waiter = s.waiter
        /\ \A u \in Waiters : n.tunnel[u] = IF u = t THEN N ELSE s.tunnel[u]
    BY <1>1, <1>2, <1>4, <1>5, TunnelStep DEF Early
  <2>5. Sound(n) /\ Held(n) /\ ~Begun(n, t) /\ n.waiter[t] = W
    BY <1>1, <1>4, <2>4, ChangeIsSound, ChangeIsHeld DEF Inv, Rest, Begun, Early
  <2>6. W.delegate # "unset"
    BY <2>1 DEF AsksUser, Waiting
  <2>7. Sound(s') /\ Held(s')
    <3>1. CASE s' = Error(n, t)
      <4>1. Change(n, s') /\ Rest(n, s')
        BY <2>5, <2>6, <3>1, ErrorIsSound
      <4> QED BY <2>5, <4>1, ChangeIsSound, ChangeIsHeld DEF Rest
    <3>2. CASE s' = Establish(n, t)
      <4> DEFINE V == [W EXCEPT !.sock = "open", !.thread = "poll"]
      <4>1. V \in WaiterType /\ WaiterGoesOn(W, V)
        BY <1>1, <2>6 DEF WaiterType, WaiterGoesOn
      <4>2. Establish(n, t) = [n EXCEPT !.waiter[t] = V]
        BY <2>4, <2>5 DEF Establish, StateType, Change
      <4> HIDE DEF V
      <4>3. Change(n, s') /\ Rest(n, s')
        BY <2>5, <3>2, <4>1, <4>2, WaiterStep
      <4> QED BY <2>5, <4>3, ChangeIsSound, ChangeIsHeld DEF Rest
    <3> QED BY <2>3, <3>1, <3>2
  <2> QED BY <2>7 DEF Inv
<1> QED BY <1>6, <1>7

-----------------------------------------------------------------------------
(* The connection through the tunnel. *)

\* An attempt that has a thread or a timer does not wait for ssh.
LEMMA NotWaiting ==
    ASSUME NEW d, Sound(d), NEW w \in Waiters,
           d.waiter[w].thread # "none" \/ d.waiter[w].timer
    PROVE  /\ d \in StateType /\ d.waiter[w] \in WaiterType
           /\ ~Begun(d, w) /\ d.waiter[w].delegate # "unset"
           /\ \A t \in Waiters : d.waiter[w].tunnel = t => ~Begun(d, t)
<1>1. ~Begun(d, w) /\ d.waiter[w] \in WaiterType /\ d \in StateType
  BY SoundWaiter DEF AsksUser, Waiting
<1>2. d.waiter[w].delegate # "unset"
  BY SoundWaiter DEF FreshWaiter
<1>3. ASSUME NEW t \in Waiters, d.waiter[w].tunnel = t PROVE ~Begun(d, t)
  <2>1. CASE w = t
    BY <1>1, <2>1
  <2>2. CASE w # t
    BY <1>3, <2>2, SoundWaiter
  <2> QED BY <2>1, <2>2
<1> QED BY <1>1, <1>2, <1>3

LEMMA HangsUpKeepsInv ==
    ASSUME Inv, NEW w \in Waiters, HangsUp(w)
    PROVE  Inv'
<1> DEFINE W == s.waiter[w]
           V == [W EXCEPT !.sock = "hup"]
           d == [s EXCEPT !.waiter[w].sock = "hup"]
           t == W.tunnel
<1>1. Sound(s)
  BY DEF Inv
<1>2. /\ s \in StateType /\ W \in WaiterType /\ ~Begun(s, w) /\ W.delegate # "unset"
      /\ \A u \in Waiters : t = u => ~Begun(s, u)
  BY <1>1, NotWaiting DEF HangsUp
<1>3. V \in WaiterType /\ WaiterGoesOn(W, V)
  BY <1>2 DEF WaiterType, WaiterGoesOn
<1>4. d = [s EXCEPT !.waiter[w] = V]
  BY <1>2 DEF StateType
<1>5. s' = d \/ s' = [d EXCEPT !.tunnel[t].err = Append(@, "channel")]
  BY DEF HangsUp
<1> HIDE DEF V, d
<1>6. Change(s, d) /\ Rest(s, d) /\ d.tunnel = s.tunnel
  BY <1>1, <1>2, <1>3, <1>4, WaiterStep
<1>7. Sound(d) /\ Held(d) /\ d \in StateType
  BY <1>6, ChangeIsSound, ChangeIsHeld DEF Inv, Rest, Sound
<1>8. CASE s' = d
  BY <1>7, <1>8 DEF Inv
<1>9. CASE s' = [d EXCEPT !.tunnel[t].err = Append(@, "channel")]
  <2>1. t \in Waiters \cup {None} /\ Made(s, t)
    BY <1>1, SoundWaiter
  <2>2. CASE t = None
    <3>1. s' = d
      BY <1>7, <1>9, <2>2, Names DEF StateType
    <3> QED BY <1>7, <3>1 DEF Inv
  <2>3. CASE t \in Waiters
    <3> DEFINE T == d.tunnel[t]
               U == [T EXCEPT !.err = Append(@, "channel")]
    <3>1. T \in TunnelType /\ T.ssh # "none" /\ T.state \notin Early
      BY <1>2, <1>6, <1>7, <2>1, <2>3, StateFields, Names DEF Made, Begun
    <3>2. U \in TunnelType /\ TunnelGoesOn(T, U) /\ U.state = T.state
      <4>1. \A X \in TunnelType : Append(X.err, "channel") \in Seq(Lines)
        BY DEF TunnelType, Lines
      <4> HIDE DEF T
      <4> QED BY <3>1, <4>1 DEF TunnelType, TunnelGoesOn
    <3>3. s' = [d EXCEPT !.tunnel[t] = U]
      BY <1>9
    <3> HIDE DEF U
    <3>4. Change(d, s') /\ Rest(d, s')
      BY <1>7, <2>3, <3>1, <3>2, <3>3, TunnelStep
    <3> QED BY <1>7, <3>4, ChangeIsSound, ChangeIsHeld DEF Inv, Rest
  <2> QED BY <2>1, <2>2, <2>3
<1> QED BY <1>5, <1>8, <1>9

LEMMA WaitForDataKeepsInv ==
    ASSUME Inv, NEW w \in Waiters, WaitForData(w)
    PROVE  Inv'
<1> DEFINE W == s.waiter[w]
           V(m) == [W EXCEPT !.thread = m]
<1>1. PICK m \in {"data", "closed"} : s' = [s EXCEPT !.waiter[w].thread = m]
  BY DEF WaitForData
<1>2. Sound(s)
  BY DEF Inv
<1>3. s \in StateType /\ W \in WaiterType /\ ~Begun(s, w) /\ W.delegate # "unset"
  BY <1>2, NotWaiting DEF WaitForData
<1>4. V(m) \in WaiterType /\ WaiterGoesOn(W, V(m))
  BY <1>1, <1>3 DEF WaiterType, WaiterGoesOn
<1>5. s' = [s EXCEPT !.waiter[w] = V(m)]
  BY <1>1, <1>3 DEF StateType
<1> DEFINE X == V(m)
<1> HIDE DEF V, X
<1>6. X \in WaiterType /\ WaiterGoesOn(W, X) /\ s' = [s EXCEPT !.waiter[w] = X]
  BY <1>4, <1>5 DEF X
<1>7. Change(s, s') /\ Rest(s, s')
  BY <1>2, <1>3, <1>6, WaiterStep
<1> QED BY <1>7, ChangeKeepsInv DEF Rest

\* The session may take over the tunnel of the attempt.
\* The session goes on with the attempt, which leaves its tunnel to it.
LEMMA FinishConnectionIs ==
    ASSUME s \in StateType, NEW w \in Waiters, FinishConnection(w),
           s.waiter[w].delegate = "set"
    PROVE  LET W == s.waiter[w]
               t == W.tunnel
           IN \E e \in StateType :
              /\ s' = Settled(e) /\ e.portUsed = s.portUsed /\ e.current = None
              /\ e.connected = TRUE /\ e.kept = IF s.kept = None THEN t ELSE s.kept
              /\ \A u \in Waiters : /\ u # w => e.waiter[u] = s.waiter[u]
                                    /\ u # t => e.tunnel[u] = s.tunnel[u]
                                    /\ u = t => e.tunnel[u] = SshTunnelConnected(s.tunnel[u])
              /\ e.waiter[w].delegate = "set" /\ e.waiter[w].tunnel = None
              /\ e.waiter[w].thread = "none" /\ e.waiter[w].sock = "none"
              /\ e.waiter[w].told = Append(W.told, "succeeded")
              /\ e.waiter[w].sheets = W.sheets /\ e.waiter[w].timer = W.timer
              /\ e.waiter[w].failed = W.failed
<1> DEFINE W == s.waiter[w]
           t == W.tunnel
           V == [W EXCEPT !.thread = "none"]
           d == [s EXCEPT !.waiter[w].thread = "none"]
           X == [V EXCEPT !.told = Append(@, "succeeded"), !.sock = "none",
                          !.tunnel = None]
           U == SshTunnelConnected(s.tunnel[t])
           k == IF s.kept = None THEN t ELSE s.kept
           e == [s EXCEPT !.waiter[w] = X, !.tunnel[t] = U, !.current = None,
                          !.connected = TRUE, !.kept = k]
<1>1. W \in WaiterType /\ t \in Waiters \cup {None} /\ s.kept \in Waiters \cup {None}
  BY StateFields DEF WaiterType
<1>2. V \in WaiterType /\ V.delegate = "set"
  BY <1>1 DEF WaiterType
<1>3. d = [s EXCEPT !.waiter[w] = V] /\ d.waiter[w] = V
  BY <1>1 DEF StateType
<1>4. s' = Settled(e)
  <2> DEFINE f == [d EXCEPT
                     !.waiter[w].told = Append(@, "succeeded"),
                     !.waiter[w].sock = "none", !.waiter[w].tunnel = None,
                     !.tunnel[t] = SshTunnelConnected(@),
                     !.current = None, !.connected = TRUE,
                     !.kept = IF @ = None THEN t ELSE @]
  <2>1. s' = Settled(f)
    BY <1>2, <1>3, <1>2 DEF FinishConnection
  <2>2. f = e
    <3> DEFINE g == [d EXCEPT !.waiter[w] = X, !.tunnel[t] = U, !.current = None,
                              !.connected = TRUE, !.kept = k]
    <3>1. /\ d \in StateType /\ d.tunnel = s.tunnel /\ d.kept = s.kept
          /\ d.waiter = [s.waiter EXCEPT ![w] = V]
      <4> HIDE DEF V, d
      <4> QED BY <1>1, <1>2, <1>3, SetWaiter
    <3>2. f = g
      <4>1. d.waiter[w] = V
        BY <1>3
      <4> HIDE DEF V, d
      <4>2. [d EXCEPT !.waiter[w].told = Append(@, "succeeded"),
                      !.waiter[w].sock = "none", !.waiter[w].tunnel = None]
            = [d EXCEPT !.waiter[w] = X]
        BY <3>1, <4>1 DEF StateType
      <4> DEFINE x == [d EXCEPT !.waiter[w].told = Append(@, "succeeded"),
                                !.waiter[w].sock = "none", !.waiter[w].tunnel = None]
                 y == [d EXCEPT !.waiter[w] = X]
      <4>3. /\ y.tunnel = d.tunnel /\ y.kept = d.kept
            /\ x.tunnel = d.tunnel /\ x.kept = d.kept
        BY <3>1 DEF StateType
      <4>4. f = [x EXCEPT !.tunnel[t] = SshTunnelConnected(@), !.current = None,
                          !.connected = TRUE, !.kept = IF @ = None THEN t ELSE @]
        OBVIOUS
      <4> HIDE DEF x
      <4>5. f = [x EXCEPT !.tunnel[t] = U, !.current = None,
                          !.connected = TRUE, !.kept = k]
        BY <3>1, <4>3, <4>4
      <4>6. g = [y EXCEPT !.tunnel[t] = U, !.current = None,
                          !.connected = TRUE, !.kept = k]
        BY <3>1 DEF StateType
      <4> QED BY <4>2, <4>5, <4>6 DEF x
    <3>3. g = e
      <4> HIDE DEF V, X, U, k
      <4> QED BY <1>1, <1>3 DEF StateType
    <3> QED BY <3>2, <3>3
  <2> QED BY <2>1, <2>2
<1>5. X \in WaiterType
  <2>1. Append(V.told, "succeeded") \in Seq({"succeeded", "failed"})
    BY <1>2 DEF WaiterType
  <2> QED BY <1>2, <2>1 DEF WaiterType
<1>6. /\ X.delegate = "set" /\ X.tunnel = None /\ X.thread = "none" /\ X.sock = "none"
      /\ X.told = Append(W.told, "succeeded") /\ X.sheets = W.sheets
      /\ X.timer = W.timer /\ X.failed = W.failed
  BY <1>1, <1>2 DEF WaiterType
<1>7. t \in Waiters => U \in TunnelType
  BY StateFields, TunnelTypes
<1> HIDE DEF X, U
<1>8. /\ e \in StateType /\ e.portUsed = s.portUsed /\ e.current = None /\ e.kept = k
      /\ e.connected = TRUE /\ e.waiter = [s.waiter EXCEPT ![w] = X]
      /\ e.tunnel = [s.tunnel EXCEPT ![t] = U]
  BY <1>1, <1>5, <1>7 DEF StateType
<1> HIDE DEF e
<1>9. \A u \in Waiters : /\ e.waiter[u] = IF u = w THEN X ELSE s.waiter[u]
                         /\ e.tunnel[u] = IF u = t THEN U ELSE s.tunnel[u]
  BY <1>8, StateFields
<1>10. /\ \A u \in Waiters : /\ u # w => e.waiter[u] = s.waiter[u]
                             /\ u # t => e.tunnel[u] = s.tunnel[u]
                             /\ u = t => e.tunnel[u] = SshTunnelConnected(s.tunnel[u])
       /\ e.waiter[w] = X
  BY <1>9 DEF U
<1> HIDE DEF t, W
<1>11. /\ e.waiter[w].delegate = "set" /\ e.waiter[w].tunnel = None
       /\ e.waiter[w].thread = "none" /\ e.waiter[w].sock = "none"
       /\ e.waiter[w].told = Append(W.told, "succeeded")
       /\ e.waiter[w].sheets = W.sheets /\ e.waiter[w].timer = W.timer
       /\ e.waiter[w].failed = W.failed
  BY <1>6, <1>10
<1> QED BY <1>4, <1>8, <1>10, <1>11 DEF t, W

LEMMA FinishConnectionKeepsInv ==
    ASSUME Inv, NEW w \in Waiters, FinishConnection(w)
    PROVE  Inv'
<1> DEFINE W == s.waiter[w]
           t == W.tunnel
           V == [W EXCEPT !.thread = "none"]
           d == [s EXCEPT !.waiter[w].thread = "none"]
           k == IF s.kept = None THEN t ELSE s.kept
           U == SshTunnelConnected(s.tunnel[t])
<1>1. Sound(s)
  BY DEF Inv
<1>2. /\ s \in StateType /\ W \in WaiterType /\ ~Begun(s, w) /\ W.delegate # "unset"
      /\ \A u \in Waiters : t = u => ~Begun(s, u)
  BY <1>1, NotWaiting DEF FinishConnection
<1>3. V \in WaiterType /\ WaiterGoesOn(W, V) /\ V.delegate = W.delegate
  BY <1>2 DEF WaiterType, WaiterGoesOn
<1>4. d = [s EXCEPT !.waiter[w] = V] /\ d.waiter[w] = V
  BY <1>2 DEF StateType
<1>5. CASE W.delegate # "set"
  <2>1. s' = Settled(d)
    BY <1>3, <1>4, <1>5 DEF FinishConnection
  <2> HIDE DEF V, d
  <2>2. Change(s, d)
    BY <1>1, <1>2, <1>3, <1>4, WaiterStep
  <2> QED BY <1>1, <2>1, <2>2, ChangeIsSound, SettledKeepsInv
<1>6. CASE W.delegate = "set"
  <2>1. t \in Waiters \cup {None} /\ Made(s, t) /\ s.kept \in Waiters \cup {None}
    BY <1>1, SoundWaiter
  <2>2. PICK e \in StateType :
           /\ s' = Settled(e) /\ e.portUsed = s.portUsed /\ e.current = None /\ e.kept = k
           /\ \A u \in Waiters : /\ u # w => e.waiter[u] = s.waiter[u]
                                 /\ u # t => e.tunnel[u] = s.tunnel[u]
                                 /\ u = t => e.tunnel[u] = SshTunnelConnected(s.tunnel[u])
           /\ e.waiter[w].delegate = "set" /\ e.waiter[w].tunnel = None
    BY <1>2, <1>6, FinishConnectionIs
  <2>3. t \in Waiters => /\ TunnelGoesOn(s.tunnel[t], U)
                         /\ U.state = "open" /\ s.tunnel[t].ssh # "none"
    <3> SUFFICES ASSUME t \in Waiters
                 PROVE  /\ TunnelGoesOn(s.tunnel[t], U)
                        /\ U.state = "open" /\ s.tunnel[t].ssh # "none"
      OBVIOUS
    <3>1. s.tunnel[t] \in TunnelType /\ s.tunnel[t].ssh # "none"
      BY <1>2, <2>1, StateFields, Names DEF Made
    <3>2. U.state = "open"
      BY <3>1 DEF TunnelType, SshTunnelConnected
    <3> QED BY <3>1, <3>2, TunnelsGoOn
  <2>4. \A u \in Waiters : u = t => e.tunnel[u] = U
    BY <2>2
  <2> HIDE DEF U
  <2>5. WaiterGoesOn(W, e.waiter[w])
    BY <1>2, <2>2 DEF WaiterGoesOn
  <2>6. ASSUME NEW u \in Waiters
        PROVE  /\ TunnelGoesOn(s.tunnel[u], e.tunnel[u])
               /\ WaiterGoesOn(s.waiter[u], e.waiter[u])
    BY <1>2, <2>2, <2>3, <2>4, <2>5, StateFields, GoesOnAsItIs
  <2>7. ASSUME NEW u \in Waiters, Begun(e, u)
        PROVE  e.tunnel[u] = s.tunnel[u] /\ e.waiter[u] = s.waiter[u]
    <3>1. u # t
      BY <2>3, <2>4, <2>7 DEF Begun, Early
    <3>2. Begun(s, u)
      BY <2>2, <2>7, <3>1 DEF Begun
    <3> QED BY <1>2, <2>2, <3>1, <3>2
  <2>8. \/ e.kept \in {s.kept, None}
        \/ e.kept \in Waiters /\ s.tunnel[e.kept].ssh # "none" /\ ~Begun(e, e.kept)
    <3>1. CASE s.kept = None /\ t \in Waiters
      BY <2>2, <2>3, <2>4, <3>1 DEF Begun, Early
    <3>2. CASE s.kept # None \/ t = None
      BY <2>2, <3>2
    <3> QED BY <2>1, <3>1, <3>2
  <2>9. Change(s, e)
    BY <1>1, <2>2, <2>6, <2>7, <2>8, StepIsChange
  <2> QED BY <1>1, <2>2, <2>9, ChangeIsSound, SettledKeepsInv
<1> QED BY <1>5, <1>6

LEMMA ServerClosedKeepsInv ==
    ASSUME Inv, NEW w \in Waiters, ServerClosed(w)
    PROVE  Inv'
<1> DEFINE W == s.waiter[w]
           V == [W EXCEPT !.thread = "none", !.timer = ~W.failed]
           d == [s EXCEPT !.waiter[w] = V]
<1>1. Sound(s)
  BY DEF Inv
<1>2. s \in StateType /\ W \in WaiterType /\ ~Begun(s, w) /\ W.delegate # "unset"
  BY <1>1, NotWaiting DEF ServerClosed
<1>3. V \in WaiterType /\ WaiterGoesOn(W, V)
  BY <1>2 DEF WaiterType, WaiterGoesOn
<1>4. s' = Settled(d)
  BY <1>2 DEF ServerClosed, StateType
<1> HIDE DEF V
<1>5. Change(s, d)
  BY <1>1, <1>2, <1>3, WaiterStep
<1> QED BY <1>1, <1>4, <1>5, ChangeIsSound, SettledKeepsInv

LEMMA ServerClosedNoReasonKeepsInv ==
    ASSUME Inv, NEW w \in Waiters, ServerClosedNoReason(w)
    PROVE  Inv'
<1> DEFINE W == s.waiter[w]
           V == [W EXCEPT !.timer = FALSE]
           d == [s EXCEPT !.waiter[w] = V]
           e == Error(d, w)
<1>1. Sound(s)
  BY DEF Inv
<1>2. s \in StateType /\ W \in WaiterType /\ ~Begun(s, w) /\ W.delegate # "unset"
  BY <1>1, NotWaiting DEF ServerClosedNoReason
<1>3. V \in WaiterType /\ WaiterGoesOn(W, V) /\ V.delegate = W.delegate
  BY <1>2 DEF WaiterType, WaiterGoesOn
<1>4. s' = Settled(CloseTunnel(e, W.tunnel))
  BY <1>2 DEF ServerClosedNoReason, StateType
<1> HIDE DEF V
<1>5. Change(s, d) /\ d.tunnel = s.tunnel /\ d.waiter[w] = V
  BY <1>1, <1>2, <1>3, WaiterStep
<1>6. Sound(d) /\ ~Begun(d, w) /\ d.waiter[w].delegate # "unset"
  BY <1>1, <1>2, <1>3, <1>5, ChangeIsSound DEF Begun
<1> HIDE DEF d
<1>7. Change(d, e) /\ e.tunnel = d.tunnel
  BY <1>6, ErrorIsSound
<1>8. Sound(e)
  BY <1>6, <1>7, ChangeIsSound
<1>9. W.tunnel \in Waiters \cup {None} /\ Made(e, W.tunnel)
  BY <1>1, <1>5, <1>7, SoundWaiter DEF Made
<1>10. Sound(CloseTunnel(e, W.tunnel))
  BY <1>8, <1>9, CloseTunnelChanges, ChangeIsSound
<1> QED BY <1>4, <1>10, SettledKeepsInv

-----------------------------------------------------------------------------
(* The user. *)

LEMMA ConnectionFailedIs ==
    ASSUME NEW d \in StateType, NEW w \in Waiters
    PROVE  LET e == ConnectionFailed(d, w)
               W == d.waiter[w]
               V == [W EXCEPT !.told = Append(@, "failed")] IN
           /\ e \in StateType /\ e.portUsed = d.portUsed
           /\ e.current = None /\ e.kept = None /\ e.connected = d.connected
           /\ V \in WaiterType /\ V.tunnel = W.tunnel /\ V.delegate = W.delegate
           /\ V.sock = W.sock /\ V.thread = W.thread /\ V.timer = W.timer
           /\ V.failed = W.failed /\ V.sheets = W.sheets
           /\ V.told = Append(W.told, "failed")
           /\ \A u \in Waiters :
                 /\ e.waiter[u] = IF u = w THEN V ELSE d.waiter[u]
                 /\ e.tunnel[u] = IF u = d.kept THEN Close(d.tunnel[u]) ELSE d.tunnel[u]
<1> DEFINE W == d.waiter[w]
           V == [W EXCEPT !.told = Append(@, "failed")]
           c == CloseTunnel(d, d.kept)
           e == ConnectionFailed(d, w)
<1>1. W \in WaiterType
  BY StateFields
<1>2. /\ V \in WaiterType /\ V.tunnel = W.tunnel /\ V.delegate = W.delegate
      /\ V.sock = W.sock /\ V.thread = W.thread /\ V.timer = W.timer
      /\ V.failed = W.failed /\ V.sheets = W.sheets
      /\ V.told = Append(W.told, "failed")
  <2>1. Append(W.told, "failed") \in Seq({"succeeded", "failed"})
    BY <1>1 DEF WaiterType
  <2> HIDE DEF W
  <2> QED BY <1>1, <2>1 DEF WaiterType
<1>3. /\ c \in StateType /\ Rest(d, c) /\ c.waiter = d.waiter
      /\ \A u \in Waiters : c.tunnel[u] = IF u = d.kept THEN Close(d.tunnel[u])
                                          ELSE d.tunnel[u]
  <2>1. d.kept \in Waiters \cup {None}
    BY StateFields
  <2> QED BY <2>1, CloseTunnelIs
<1>4. e = [c EXCEPT !.waiter[w] = V, !.current = None, !.kept = None]
  <2>1. c.waiter[w] = W
    BY <1>3
  <2>2. e = [c EXCEPT !.waiter[w].told = Append(@, "failed"), !.current = None,
                      !.kept = None]
    BY DEF ConnectionFailed
  <2> HIDE DEF c, W, e
  <2> QED BY <1>3, <2>1, <2>2 DEF StateType
<1> HIDE DEF c, e, V
<1>5. /\ e \in StateType /\ e.portUsed = c.portUsed /\ e.current = None
      /\ e.kept = None /\ e.connected = c.connected /\ e.tunnel = c.tunnel
      /\ e.waiter = [c.waiter EXCEPT ![w] = V]
  BY <1>2, <1>3, <1>4 DEF StateType
<1>6. \A u \in Waiters : e.waiter[u] = IF u = w THEN V ELSE d.waiter[u]
  BY <1>3, <1>5, StateFields
<1> QED BY <1>2, <1>3, <1>5, <1>6 DEF Rest, e, V

\* The delegate ends: whatever was kept is closed.
LEMMA ConnectionFailedIsSound ==
    ASSUME NEW d, Sound(d), NEW w \in Waiters, ~Begun(d, w),
           d.waiter[w].delegate # "unset"
    PROVE  Sound(ConnectionFailed(d, w))
<1> DEFINE e == ConnectionFailed(d, w)
           W == d.waiter[w]
           V == [W EXCEPT !.told = Append(@, "failed")]
<1>1. d \in StateType /\ d.kept \in Waiters \cup {None} /\ Made(d, d.kept)
  BY SoundWaiter
<1>2. /\ e \in StateType /\ e.portUsed = d.portUsed /\ e.current = None /\ e.kept = None
      /\ V.tunnel = W.tunnel /\ V.delegate = W.delegate
      /\ \A u \in Waiters :
            /\ e.waiter[u] = IF u = w THEN V ELSE d.waiter[u]
            /\ e.tunnel[u] = IF u = d.kept THEN Close(d.tunnel[u]) ELSE d.tunnel[u]
  BY <1>1, ConnectionFailedIs
<1> HIDE DEF e, V
<1>3. ASSUME NEW u \in Waiters
      PROVE  /\ TunnelGoesOn(d.tunnel[u], e.tunnel[u])
             /\ WaiterGoesOn(d.waiter[u], e.waiter[u])
  <2>1. TunnelGoesOn(d.tunnel[u], e.tunnel[u])
    BY <1>1, <1>2, StateFields, TunnelsGoOn, GoesOnAsItIs, Names DEF Made
  <2>2. WaiterGoesOn(W, V)
    BY <1>2 DEF WaiterGoesOn
  <2> QED BY <1>2, <2>1, <2>2, GoesOnAsItIs
<1>4. ASSUME NEW u \in Waiters, Begun(e, u)
      PROVE  e.tunnel[u] = d.tunnel[u] /\ e.waiter[u] = d.waiter[u]
  <2>1. Close(d.tunnel[u]).state = "closing"
    BY <1>1, StateFields DEF Close, TunnelType
  <2> QED BY <1>2, <1>4, <2>1 DEF Begun, Early
<1>5. Change(d, e)
  BY <1>2, <1>3, <1>4, StepIsChange
<1> QED BY <1>5, ChangeIsSound DEF e

\* The first sheet is gone.
LEMMA EndSheetIs ==
    ASSUME s \in StateType, NEW w \in Waiters, NEW sheet, Sheet(w, sheet)
    PROVE  LET W == s.waiter[w]
               V == [W EXCEPT !.sheets = Tail(@)] IN
           /\ EndSheet(w) = [s EXCEPT !.waiter[w] = V]
           /\ OnlyWaiter(s, EndSheet(w), w, V)
           /\ V \in WaiterType /\ V.tunnel = W.tunnel /\ V.delegate = W.delegate
           /\ V.sock = W.sock /\ V.thread = W.thread /\ V.timer = W.timer
           /\ V.failed = W.failed /\ V.sheets = Tail(W.sheets) /\ V.told = W.told
<1> DEFINE W == s.waiter[w]
           V == [W EXCEPT !.sheets = Tail(@)]
<1>1. W \in WaiterType /\ W.sheets # <<>>
  BY StateFields DEF Sheet
<1>2. /\ V \in WaiterType /\ V.tunnel = W.tunnel /\ V.delegate = W.delegate
      /\ V.sock = W.sock /\ V.thread = W.thread /\ V.timer = W.timer
      /\ V.failed = W.failed /\ V.sheets = Tail(W.sheets) /\ V.told = W.told
  <2>1. Tail(W.sheets) \in Seq({"key", "password", "error"})
    BY <1>1 DEF WaiterType
  <2> HIDE DEF W
  <2> QED BY <1>1, <2>1 DEF WaiterType
<1>3. EndSheet(w) = [s EXCEPT !.waiter[w] = V]
  BY DEF EndSheet, StateType
<1> HIDE DEF V
<1>4. OnlyWaiter(s, [s EXCEPT !.waiter[w] = V], w, V)
  BY <1>2, SetWaiter DEF OnlyWaiter, Rest
<1> QED BY <1>2, <1>3, <1>4 DEF V

LEMMA ErrorDidEndKeepsInv ==
    ASSUME Inv, NEW w \in Waiters, ErrorDidEnd(w)
    PROVE  Inv'
<1> DEFINE W == s.waiter[w]
           V == [W EXCEPT !.sheets = Tail(@)]
<1>1. Sound(s) /\ s \in StateType /\ W \in WaiterType
  BY StateFields DEF Inv, Sound
<1>2. s' = Settled(ConnectionFailed(EndSheet(w), w)) /\ Sheet(w, "error")
  BY DEF ErrorDidEnd
<1>3. W.delegate # "unset"
  BY <1>1, <1>2, SoundWaiter DEF FreshWaiter, Sheet
<1>4. ~Begun(s, w)
  <2> SUFFICES ASSUME Begun(s, w) PROVE FALSE
    OBVIOUS
  <2>1. W.sheets = <<>> \/ (W.sheets = <<s.tunnel[w].asks>> /\ s.tunnel[w].asks \in Questions)
    BY <1>1, SoundWaiter DEF AsksUser, Begun, Early, Prompting
  <2> QED BY <1>2, <2>1 DEF Sheet, Questions
<1>5. /\ EndSheet(w) = [s EXCEPT !.waiter[w] = V] /\ V \in WaiterType
      /\ V.tunnel = W.tunnel /\ V.delegate = W.delegate
  BY <1>1, <1>2, EndSheetIs
<1>6. WaiterGoesOn(W, V)
  BY <1>3, <1>5 DEF WaiterGoesOn
<1> HIDE DEF V
<1> DEFINE d == EndSheet(w)
<1>7. Change(s, d) /\ d.tunnel = s.tunnel /\ d.waiter[w] = V
  BY <1>1, <1>4, <1>5, <1>6, WaiterStep
<1>8. Sound(d) /\ ~Begun(d, w) /\ d.waiter[w].delegate # "unset"
  BY <1>1, <1>3, <1>4, <1>5, <1>7, ChangeIsSound DEF Begun
<1> HIDE DEF d
<1>9. Sound(ConnectionFailed(d, w))
  BY <1>8, ConnectionFailedIsSound
<1> QED BY <1>2, <1>9, SettledKeepsInv DEF d

\* An answer changes the attempt and its tunnel at once.
MayPair(d, e, w, V, t, U) ==
    /\ e = [d EXCEPT !.waiter[w] = V, !.tunnel[t] = U]
    /\ V \in WaiterType /\ WaiterGoesOn(d.waiter[w], V) /\ t = d.waiter[w].tunnel
    /\ t \in Waiters => /\ U \in TunnelType /\ TunnelGoesOn(d.tunnel[t], U)
                        /\ U.state \in Early =>
                              Begun(d, t) /\ w = t /\ AsksUser(U, V, t)

LEMMA PairStep ==
    ASSUME NEW d, Sound(d), NEW e, NEW w \in Waiters, NEW V, NEW t, NEW U,
           MayPair(d, e, w, V, t, U)
    PROVE  /\ Change(d, e) /\ Rest(d, e)
           /\ \A u \in Waiters : /\ e.waiter[u] = IF u = w THEN V ELSE d.waiter[u]
                                 /\ e.tunnel[u] = IF u = t THEN U ELSE d.tunnel[u]
<1>0. /\ e = [d EXCEPT !.waiter[w] = V, !.tunnel[t] = U]
      /\ V \in WaiterType /\ WaiterGoesOn(d.waiter[w], V) /\ t = d.waiter[w].tunnel
      /\ t \in Waiters => /\ U \in TunnelType /\ TunnelGoesOn(d.tunnel[t], U)
                          /\ U.state \in Early =>
                                Begun(d, t) /\ w = t /\ AsksUser(U, V, t)
  BY DEF MayPair
<1>1. d \in StateType /\ t \in Waiters \cup {None}
  BY <1>0, SoundWaiter
<1>2. /\ e \in StateType /\ Rest(d, e) /\ e.waiter = [d.waiter EXCEPT ![w] = V]
      /\ e.tunnel = [d.tunnel EXCEPT ![t] = U]
  BY <1>0, <1>1 DEF StateType, Rest
<1>3. \A u \in Waiters : /\ e.waiter[u] = IF u = w THEN V ELSE d.waiter[u]
                         /\ e.tunnel[u] = IF u = t THEN U ELSE d.tunnel[u]
  BY <1>1, <1>2, StateFields
<1>4. \A u \in Waiters : /\ TunnelGoesOn(d.tunnel[u], e.tunnel[u])
                         /\ WaiterGoesOn(d.waiter[u], e.waiter[u])
  BY <1>0, <1>1, <1>3, StateFields, GoesOnAsItIs
<1>5. ASSUME NEW u \in Waiters, Begun(e, u)
      PROVE  \/ e.tunnel[u] = d.tunnel[u] /\ e.waiter[u] = d.waiter[u]
             \/ Begun(d, u) /\ AsksUser(e.tunnel[u], e.waiter[u], u)
  <2>1. CASE u = t
    <3>1. U.state \in Early
      BY <1>3, <1>5, <2>1 DEF Begun
    <3>2. Begun(d, t) /\ w = t /\ AsksUser(U, V, t)
      BY <1>0, <2>1, <3>1
    <3> HIDE DEF Begun, AsksUser
    <3> QED BY <1>3, <2>1, <3>2
  <2>2. CASE u # t
    <3>1. e.tunnel[u] = d.tunnel[u] /\ Begun(d, u)
      BY <1>3, <1>5, <2>2 DEF Begun
    <3>2. u # w
      BY <1>0, <2>2, <3>1, SoundWaiter DEF AsksUser, Waiting
    <3> QED BY <1>3, <3>1, <3>2
  <2> QED BY <2>1, <2>2
<1>6. Change(d, e)
  BY <1>2, <1>4, <1>5, StepIsChange DEF Rest
<1> QED BY <1>2, <1>3, <1>6

\* After an answer ssh is OPENING again, and there is no sheet.
LEMMA WriteToHelperAsks ==
    ASSUME Sound(s), NEW w \in Waiters, NEW sheet, Sheet(w, sheet),
           NEW t \in Waiters, t = s.waiter[w].tunnel, NEW answer,
           NEW V, V.tunnel = s.waiter[w].tunnel, V.delegate = s.waiter[w].delegate,
           V.sock = s.waiter[w].sock, V.thread = s.waiter[w].thread,
           V.timer = s.waiter[w].timer, V.failed = s.waiter[w].failed,
           V.told = s.waiter[w].told, V.sheets = Tail(s.waiter[w].sheets),
           WriteToHelper(s.tunnel[t], answer).state \in Early
    PROVE  Begun(s, t) /\ w = t /\ AsksUser(WriteToHelper(s.tunnel[t], answer), V, t)
<1> DEFINE T == s.tunnel[t]
           W == s.waiter[w]
           U == WriteToHelper(T, answer)
<1>1. s \in StateType /\ T \in TunnelType /\ T.ssh # "none" /\ W.sheets # <<>>
  BY SoundWaiter, Names DEF Made, Sheet
<1>2. T.state \in Early
  BY <1>1 DEF WriteToHelper, Early, TunnelType
<1>3. Begun(s, t)
  BY <1>1, <1>2 DEF Begun
<1>4. w = t /\ AsksUser(T, W, t)
  BY <1>3, SoundWaiter
<1>5. T.state = "prompt" /\ Prompting(T, W)
  BY <1>1, <1>2, <1>4 DEF AsksUser, Early
<1>6. /\ U.state = "opening" /\ U.err = T.err /\ U.ssh = T.ssh /\ U.fifo = T.fifo
      /\ U.delegate = T.delegate
  BY <1>1, <1>5 DEF WriteToHelper, TunnelType
<1>7. Opening(U)
  BY <1>5, <1>6 DEF Opening, Prompting, Questions
<1>8. V.sheets = <<>>
  BY <1>5 DEF Prompting
<1> HIDE DEF U
<1>9. AsksUser(U, V, t)
  BY <1>4, <1>6, <1>7, <1>8 DEF AsksUser, Waiting
<1> QED BY <1>3, <1>4, <1>9 DEF U

\* The step of a sheet of a question, and of its tunnel.
MayAnswer(d, w, t, U, answer) ==
    /\ d = [EndSheet(w) EXCEPT !.tunnel[t] = U] /\ t = s.waiter[w].tunnel
    /\ t \in Waiters => /\ U \in TunnelType /\ TunnelGoesOn(s.tunnel[t], U)
                        /\ \/ U.state = "closing"
                           \/ U = WriteToHelper(s.tunnel[t], answer)

LEMMA AnswerStep ==
    ASSUME Sound(s), NEW w \in Waiters, NEW sheet, Sheet(w, sheet),
           NEW d, NEW t, NEW U, NEW answer, MayAnswer(d, w, t, U, answer)
    PROVE  /\ Change(s, d) /\ Rest(s, d)
           /\ d.waiter[w].delegate # "unset" /\ s.waiter[w].delegate # "unset"
           /\ d.waiter[w] = [s.waiter[w] EXCEPT !.sheets = Tail(@)]
           /\ \A u \in Waiters :
                 /\ u # w => d.waiter[u] = s.waiter[u]
                 /\ d.tunnel[u] = IF u = t THEN U ELSE s.tunnel[u]
<1> DEFINE W == s.waiter[w]
           V == [W EXCEPT !.sheets = Tail(@)]
<1>0. /\ d = [EndSheet(w) EXCEPT !.tunnel[t] = U] /\ t = s.waiter[w].tunnel
      /\ t \in Waiters => /\ U \in TunnelType /\ TunnelGoesOn(s.tunnel[t], U)
                          /\ \/ U.state = "closing"
                             \/ U = WriteToHelper(s.tunnel[t], answer)
  BY DEF MayAnswer
<1>1. s \in StateType /\ W.delegate # "unset"
  BY SoundWaiter DEF FreshWaiter, Sheet
<1>2. /\ EndSheet(w) = [s EXCEPT !.waiter[w] = V] /\ V \in WaiterType
      /\ V.tunnel = W.tunnel /\ V.delegate = W.delegate
      /\ V.sock = W.sock /\ V.thread = W.thread /\ V.timer = W.timer
      /\ V.failed = W.failed /\ V.sheets = Tail(W.sheets) /\ V.told = W.told
  BY <1>1, EndSheetIs
<1> HIDE DEF V
<1>3. WaiterGoesOn(W, V)
  BY <1>1, <1>2 DEF WaiterGoesOn
<1>4. d = [s EXCEPT !.waiter[w] = V, !.tunnel[t] = U]
  BY <1>0, <1>2
<1>5. ASSUME t \in Waiters, U.state \in Early
      PROVE  Begun(s, t) /\ w = t /\ AsksUser(U, V, t)
  <2>1. U = WriteToHelper(s.tunnel[t], answer)
    BY <1>0, <1>5 DEF Early
  <2> HIDE DEF Begun, AsksUser
  <2> QED BY <1>0, <1>2, <1>5, <2>1, WriteToHelperAsks
<1>7. MayPair(s, d, w, V, t, U)
  BY <1>0, <1>2, <1>3, <1>4, <1>5 DEF MayPair
<1>6. /\ Change(s, d) /\ Rest(s, d)
      /\ \A u \in Waiters : /\ d.waiter[u] = IF u = w THEN V ELSE s.waiter[u]
                            /\ d.tunnel[u] = IF u = t THEN U ELSE s.tunnel[u]
  BY <1>7, PairStep
<1> QED BY <1>1, <1>2, <1>6 DEF V

LEMMA AuthPasswordEnteredKeepsInv ==
    ASSUME Inv, NEW w \in Waiters, AuthPasswordEntered(w)
    PROVE  Inv'
<1> DEFINE t == s.waiter[w].tunnel
           U == UsePassword(s.tunnel[t])
<1>1. Sound(s) /\ s \in StateType
  BY DEF Inv, Sound
<1>2. Sheet(w, "password") /\ s' = [EndSheet(w) EXCEPT !.tunnel[t] = UsePassword(@)]
  BY DEF AuthPasswordEntered
<1>3. EndSheet(w).tunnel = s.tunnel
  BY <1>1, <1>2, EndSheetIs DEF OnlyWaiter
<1>4. s' = [EndSheet(w) EXCEPT !.tunnel[t] = U]
  BY <1>2, <1>3
<1>5. t \in Waiters => /\ U \in TunnelType /\ TunnelGoesOn(s.tunnel[t], U)
                       /\ U = WriteToHelper(s.tunnel[t], "no")
  <2>1. t \in Waiters => s.tunnel[t] \in TunnelType /\ s.tunnel[t].ssh # "none"
    BY <1>1, SoundWaiter, StateFields, Names DEF Made
  <2> QED BY <2>1, TunnelTypes, TunnelsGoOn DEF UsePassword
<1> HIDE DEF U
<1>6. MayAnswer(s', w, t, U, "no")
  BY <1>4, <1>5 DEF MayAnswer
<1>7. Change(s, s') /\ Rest(s, s')
  BY <1>1, <1>2, <1>6, AnswerStep
<1> QED BY <1>7, ChangeKeepsInv DEF Rest

LEMMA AnswerKeyKeepsInv ==
    ASSUME Inv, NEW w \in Waiters, AnswerKey(w)
    PROVE  Inv'
<1> DEFINE t == s.waiter[w].tunnel
           T == s.tunnel[t]
           U(a) == AcceptKey(T, a)
           d(a) == [EndSheet(w) EXCEPT !.tunnel[t] = U(a)]
<1>1. Sound(s) /\ s \in StateType
  BY DEF Inv, Sound
<1>2. Sheet(w, "key")
  BY DEF AnswerKey
<1>3. EndSheet(w).tunnel = s.tunnel
  BY <1>1, <1>2, EndSheetIs DEF OnlyWaiter
<1>4. PICK a \in BOOLEAN :
         s' = Settled(IF a THEN d(a) ELSE ConnectionFailed(d(a), w))
  BY <1>3 DEF AnswerKey
<1>5. t \in Waiters => T \in TunnelType /\ T.ssh # "none"
  BY <1>1, SoundWaiter, StateFields, Names DEF Made
<1>6. t \in Waiters => /\ U(a) \in TunnelType /\ TunnelGoesOn(T, U(a))
                       /\ a => U(a) = WriteToHelper(T, "no")
                       /\ ~a => U(a).state = "closing"
  <2>1. t \in Waiters => U(a) \in TunnelType /\ TunnelGoesOn(T, U(a))
    BY <1>5, TunnelTypes, TunnelsGoOn
  <2>2. ASSUME t \in Waiters, ~a PROVE U(a).state = "closing"
    BY <1>5, <2>2 DEF AcceptKey, WriteToHelper, TunnelType
  <2>3. a => U(a) = WriteToHelper(T, "no")
    BY DEF AcceptKey
  <2> QED BY <2>1, <2>2, <2>3
<1> DEFINE X == U(a)
           e == [EndSheet(w) EXCEPT !.tunnel[t] = X]
<1> HIDE DEF X
<1>7. /\ Change(s, e) /\ e.waiter[w].delegate # "unset"
      /\ \A u \in Waiters : e.tunnel[u] = IF u = t THEN X ELSE s.tunnel[u]
  <2>1. MayAnswer(e, w, t, X, "no")
    BY <1>6 DEF X, MayAnswer
  <2> HIDE DEF e
  <2>2. /\ Change(s, e) /\ Rest(s, e)
        /\ e.waiter[w].delegate # "unset" /\ s.waiter[w].delegate # "unset"
        /\ e.waiter[w] = [s.waiter[w] EXCEPT !.sheets = Tail(@)]
        /\ \A u \in Waiters :
              /\ u # w => e.waiter[u] = s.waiter[u]
              /\ e.tunnel[u] = IF u = t THEN X ELSE s.tunnel[u]
    <3> HIDE DEF T, U, d
    <3> QED BY <1>1, <1>2, <2>1, AnswerStep
  <2> QED BY <2>2
<1>8. Sound(e) /\ e = d(a)
  BY <1>1, <1>7, ChangeIsSound DEF X
<1>9. CASE a
  BY <1>4, <1>8, <1>9, SettledKeepsInv
<1>10. CASE ~a
  <2>1. ~Begun(e, w)
    <3> SUFFICES ASSUME Begun(e, w) PROVE FALSE
      OBVIOUS
    <3>1. Begun(s, w)
      BY <1>7 DEF Change
    <3>2. t = w
      BY <1>1, <3>1, SoundWaiter DEF AsksUser, Waiting
    <3>3. e.tunnel[w].state = "closing"
      BY <1>6, <1>7, <1>10, <3>2 DEF X
    <3> QED BY <3>3 DEF Begun, Early
  <2> HIDE DEF e
  <2>2. Sound(ConnectionFailed(e, w))
    BY <1>7, <1>8, <2>1, ConnectionFailedIsSound
  <2> QED BY <1>4, <1>8, <1>10, <2>2, SettledKeepsInv
<1> QED BY <1>9, <1>10

LEMMA AuthCancelledKeepsInv ==
    ASSUME Inv, NEW w \in Waiters, AuthCancelled(w)
    PROVE  Inv'
<1> DEFINE t == s.waiter[w].tunnel
           T == s.tunnel[t]
           U == Close(T)
           d == [EndSheet(w) EXCEPT !.tunnel[t] = U]
           c == CloseTunnel(EndSheet(w), t)
<1>1. Sound(s) /\ s \in StateType /\ t \in Waiters \cup {None}
  BY SoundWaiter DEF Inv, Sound
<1>2. Sheet(w, "password") /\ s' = Settled(ConnectionFailed(c, w))
  BY DEF AuthCancelled
<1>3. EndSheet(w).tunnel = s.tunnel /\ EndSheet(w) \in StateType
  BY <1>1, <1>2, EndSheetIs DEF OnlyWaiter
<1>4. c = d
  <2>1. CASE t = None
    <3> HIDE DEF U
    <3>1. d = EndSheet(w)
      BY <1>3, <2>1, Names DEF StateType
    <3> QED BY <2>1, <3>1 DEF CloseTunnel
  <2>2. CASE t # None
    BY <1>3, <2>2 DEF CloseTunnel
  <2> QED BY <2>1, <2>2
<1>5. t \in Waiters => U \in TunnelType /\ TunnelGoesOn(T, U) /\ U.state = "closing"
  <2>1. t \in Waiters => T \in TunnelType /\ T.ssh # "none"
    BY <1>1, SoundWaiter, StateFields, Names DEF Made
  <2>2. T \in TunnelType => U.state = "closing"
    BY DEF Close, TunnelType
  <2> QED BY <2>1, <2>2, TunnelTypes, TunnelsGoOn
<1> HIDE DEF U, c
<1>10. MayAnswer(d, w, t, U, "no")
  BY <1>5 DEF MayAnswer
<1> HIDE DEF d
<1>6. /\ Change(s, d) /\ d.waiter[w].delegate # "unset"
      /\ \A u \in Waiters : d.tunnel[u] = IF u = t THEN U ELSE s.tunnel[u]
  <2>1. /\ Change(s, d) /\ Rest(s, d)
        /\ d.waiter[w].delegate # "unset" /\ s.waiter[w].delegate # "unset"
        /\ d.waiter[w] = [s.waiter[w] EXCEPT !.sheets = Tail(@)]
        /\ \A u \in Waiters :
              /\ u # w => d.waiter[u] = s.waiter[u]
              /\ d.tunnel[u] = IF u = t THEN U ELSE s.tunnel[u]
    <3> HIDE DEF T
    <3> QED BY <1>1, <1>2, <1>10, AnswerStep
  <2> QED BY <2>1
<1>7. ~Begun(d, w)
  <2> SUFFICES ASSUME Begun(d, w) PROVE FALSE
    OBVIOUS
  <2>1. Begun(s, w)
    BY <1>6 DEF Change
  <2>2. t = w
    BY <1>1, <2>1, SoundWaiter DEF AsksUser, Waiting
  <2>3. d.tunnel[w].state = "closing"
    BY <1>5, <1>6, <2>2
  <2> QED BY <2>3 DEF Begun, Early
<1>8. Sound(d)
  BY <1>1, <1>6, ChangeIsSound
<1>9. Sound(ConnectionFailed(d, w))
  BY <1>6, <1>7, <1>8, ConnectionFailedIsSound
<1> QED BY <1>2, <1>4, <1>9, SettledKeepsInv

LEMMA CancelIs ==
    ASSUME s \in StateType, NEW w \in Waiters, Cancel(w)
    PROVE  \E d \in StateType :
              /\ s' = Settled(CloseTunnel(d, s.kept))
              /\ d.portUsed = s.portUsed /\ d.connected = s.connected
              /\ d.current = None /\ d.kept = None
              /\ \A u \in Waiters :
                    /\ u # w => d.waiter[u] = s.waiter[u]
                    /\ d.tunnel[u] = IF u = s.waiter[w].tunnel THEN Close(s.tunnel[u])
                                     ELSE s.tunnel[u]
              /\ d.waiter[w] = [s.waiter[w] EXCEPT !.delegate = "nil", !.sock = "none"]
<1> DEFINE W == s.waiter[w]
           V == [W EXCEPT !.delegate = "nil", !.sock = "none"]
           t == W.tunnel
           c == CloseTunnel(s, t)
           d == [c EXCEPT !.waiter[w] = V, !.current = None, !.kept = None]
<1>1. W \in WaiterType /\ t \in Waiters \cup {None}
  BY StateFields DEF WaiterType
<1>2. c \in StateType /\ Rest(s, c) /\ c.waiter = s.waiter
      /\ \A u \in Waiters : c.tunnel[u] = IF u = t THEN Close(s.tunnel[u]) ELSE s.tunnel[u]
  BY <1>1, CloseTunnelIs
<1>3. V \in WaiterType
  BY <1>1 DEF WaiterType
<1>4. s' = Settled(CloseTunnel(d, s.kept))
  <2>1. d = [c EXCEPT !.waiter[w].delegate = "nil", !.waiter[w].sock = "none",
                      !.current = None, !.kept = None]
    <3>1. c.waiter[w] = W
      BY <1>2
    <3> HIDE DEF c, W
    <3> QED BY <1>2, <3>1 DEF StateType
  <2> QED BY <2>1 DEF Cancel
<1> HIDE DEF V, c
<1>5. /\ d \in StateType /\ d.waiter = [c.waiter EXCEPT ![w] = V]
      /\ d.tunnel = c.tunnel /\ d.portUsed = c.portUsed
      /\ d.current = None /\ d.kept = None /\ d.connected = c.connected
  BY <1>2, <1>3 DEF StateType
<1> HIDE DEF d
<1>6. \A u \in Waiters : d.waiter[u] = IF u = w THEN V ELSE s.waiter[u]
  BY <1>2, <1>5, StateFields
<1>7. /\ d.portUsed = s.portUsed /\ d.connected = s.connected
      /\ \A u \in Waiters :
            /\ u # w => d.waiter[u] = s.waiter[u]
            /\ d.tunnel[u] = IF u = s.waiter[w].tunnel THEN Close(s.tunnel[u])
                             ELSE s.tunnel[u]
      /\ d.waiter[w] = [s.waiter[w] EXCEPT !.delegate = "nil", !.sock = "none"]
  BY <1>2, <1>5, <1>6 DEF Rest, V
<1> QED BY <1>4, <1>5, <1>7

LEMMA CancelKeepsInv ==
    ASSUME Inv, NEW w \in Waiters, Cancel(w)
    PROVE  Inv'
<1> DEFINE W == s.waiter[w]
           V == [W EXCEPT !.delegate = "nil", !.sock = "none"]
           t == W.tunnel
<1>1. /\ Sound(s) /\ s \in StateType /\ W \in WaiterType
      /\ t \in Waiters \cup {None} /\ Made(s, t)
      /\ s.kept \in Waiters \cup {None} /\ Made(s, s.kept)
  BY SoundWaiter DEF Inv
<1>2. W.delegate # "unset"
  BY <1>1, SoundWaiter DEF Cancel
<1>3. PICK d \in StateType :
         /\ s' = Settled(CloseTunnel(d, s.kept))
         /\ d.portUsed = s.portUsed /\ d.current = None /\ d.kept = None
         /\ \A u \in Waiters :
               /\ u # w => d.waiter[u] = s.waiter[u]
               /\ d.tunnel[u] = IF u = t THEN Close(s.tunnel[u]) ELSE s.tunnel[u]
         /\ d.waiter[w] = V
  BY <1>1, CancelIs
<1>4. WaiterGoesOn(W, V)
  BY <1>1, <1>2 DEF WaiterType, WaiterGoesOn
<1> HIDE DEF V
<1>5. \A u \in Waiters : WaiterGoesOn(s.waiter[u], d.waiter[u])
  BY <1>3, <1>4, GoesOnAsItIs
<1>6. \A u \in Waiters : TunnelGoesOn(s.tunnel[u], d.tunnel[u])
  BY <1>1, <1>3, StateFields, TunnelsGoOn, GoesOnAsItIs, Names DEF Made
<1>7. ASSUME NEW u \in Waiters, Begun(d, u)
      PROVE  d.tunnel[u] = s.tunnel[u] /\ d.waiter[u] = s.waiter[u]
  <2>1. Close(s.tunnel[u]).state = "closing"
    BY <1>1, StateFields DEF Close, TunnelType
  <2>2. u # t
    BY <1>3, <1>7, <2>1 DEF Begun, Early
  <2>3. d.tunnel[u] = s.tunnel[u] /\ Begun(s, u)
    BY <1>3, <1>7, <2>2 DEF Begun
  <2>4. u # w
    BY <1>1, <2>2, <2>3, SoundWaiter DEF AsksUser, Waiting
  <2> QED BY <1>3, <2>3, <2>4
<1>8. Change(s, d)
  BY <1>1, <1>3, <1>5, <1>6, <1>7, StepIsChange
<1>9. Sound(d) /\ Made(d, s.kept)
  <2>1. Sound(d)
    BY <1>1, <1>8, ChangeIsSound
  <2> QED BY <1>1, <1>6, <2>1 DEF Made, TunnelGoesOn
<1>10. Sound(CloseTunnel(d, s.kept))
  BY <1>1, <1>9, CloseTunnelChanges, ChangeIsSound
<1> QED BY <1>3, <1>10, SettledKeepsInv

\* The session without its tunnel.
Ended == [CloseTunnel(s, s.kept) EXCEPT !.kept = None, !.connected = FALSE]

LEMMA EndedIs ==
    ASSUME Sound(s)
    PROVE  /\ Change(s, Ended) /\ Ended \in StateType /\ Ended.waiter = s.waiter
           /\ Ended.portUsed = s.portUsed /\ Ended.current = s.current
           /\ Ended.kept = None /\ Ended.connected = FALSE
           /\ \A u \in Waiters : Ended.tunnel[u] = IF u = s.kept THEN Close(s.tunnel[u])
                                                   ELSE s.tunnel[u]
<1> DEFINE c == CloseTunnel(s, s.kept)
<1>1. s \in StateType /\ s.kept \in Waiters \cup {None} /\ Made(s, s.kept)
  BY StateFields DEF Sound
<1>2. Change(s, c) /\ c \in StateType /\ Rest(s, c) /\ c.waiter = s.waiter
      /\ \A u \in Waiters : c.tunnel[u] = IF u = s.kept THEN Close(s.tunnel[u])
                                          ELSE s.tunnel[u]
  BY <1>1, CloseTunnelChanges, CloseTunnelIs
<1>3. Ended = [c EXCEPT !.kept = None, !.connected = FALSE]
  BY DEF Ended
<1> HIDE DEF c
<1>4. /\ Ended \in StateType /\ Ended.waiter = c.waiter /\ Ended.tunnel = c.tunnel
      /\ Ended.portUsed = c.portUsed /\ Ended.current = c.current
      /\ Ended.kept = None /\ Ended.connected = FALSE
  BY <1>2, <1>3 DEF StateType
<1>5. Change(s, Ended)
  BY <1>2, <1>4 DEF Change, Begun
<1> QED BY <1>2, <1>4, <1>5 DEF Rest

LEMMA EndSessionKeepsInv ==
    ASSUME Inv, EndSession
    PROVE  Inv'
<1>1. s' = Ended /\ Sound(s)
  BY DEF EndSession, Ended, Inv
<1> QED BY <1>1, EndedIs, ChangeKeepsInv

\* A new attempt: the delegate's, and with a tunnel of its own or without.
WithoutTunnel(W) == [W EXCEPT !.delegate = "set"]
WithTunnel(W, t) == [W EXCEPT !.delegate = "set", !.tunnel = t]

LEMMA NewAttemptIs ==
    ASSUME NEW d \in StateType, NEW w \in Waiters, NEW e, NewAttempt(d, w, e)
    PROVE  /\ e \in StateType /\ e.current = w /\ e.kept = d.kept
           /\ e.connected = d.connected /\ d.portUsed \subseteq e.portUsed
           /\ \/ /\ e.tunnel = d.tunnel
                 /\ e.waiter = [d.waiter EXCEPT ![w] = WithoutTunnel(d.waiter[w])]
              \/ \E p \in Ports \ d.portUsed :
                    /\ p \in e.portUsed
                    /\ e.tunnel = [d.tunnel EXCEPT ![w] = Launch(p, w)]
                    /\ e.waiter = [d.waiter EXCEPT ![w] = WithTunnel(d.waiter[w], w)]
<1> DEFINE W == d.waiter[w]
           V == WithoutTunnel(W)
           X == WithTunnel(W, w)
           begun == [d EXCEPT !.waiter[w] = V, !.current = w]
<1>1. W \in WaiterType
  BY StateFields
<1>2. V \in WaiterType /\ X \in WaiterType
  BY <1>1 DEF WaiterType, WithTunnel, WithoutTunnel
<1>3. begun = [d EXCEPT !.waiter[w].delegate = "set", !.current = w]
  BY DEF StateType, WithoutTunnel
<1>4. \/ e = begun
      \/ \E p \in Ports \ d.portUsed :
            LET taken == [begun EXCEPT !.portUsed = @ \cup {p}]
            IN \/ e = [taken EXCEPT !.tunnel[w] = Launch(p, w), !.waiter[w].tunnel = w]
               \/ e = taken
  BY <1>3 DEF NewAttempt
<1>5. V.tunnel = W.tunnel /\ X = [V EXCEPT !.tunnel = w]
  BY <1>1 DEF WaiterType, WithTunnel, WithoutTunnel
<1> HIDE DEF V, X
<1>6. /\ begun \in StateType /\ begun.waiter = [d.waiter EXCEPT ![w] = V]
      /\ begun.waiter[w] = V
      /\ begun.tunnel = d.tunnel /\ begun.portUsed = d.portUsed
      /\ begun.current = w /\ begun.kept = d.kept /\ begun.connected = d.connected
  BY <1>2 DEF StateType
<1> HIDE DEF begun
<1>7. CASE e = begun
  BY <1>6, <1>7 DEF V
<1>8. ASSUME NEW p \in Ports \ d.portUsed,
             e = [begun EXCEPT !.portUsed = @ \cup {p}]
      PROVE  /\ e \in StateType /\ e.waiter = begun.waiter /\ e.tunnel = begun.tunnel
             /\ e.portUsed = d.portUsed \cup {p}
             /\ e.current = w /\ e.kept = d.kept /\ e.connected = d.connected
  BY <1>6, <1>8 DEF StateType
<1>9. ASSUME NEW p \in Ports \ d.portUsed,
             e = [[begun EXCEPT !.portUsed = @ \cup {p}] EXCEPT
                    !.tunnel[w] = Launch(p, w), !.waiter[w].tunnel = w]
      PROVE  /\ e \in StateType /\ e.waiter = [d.waiter EXCEPT ![w] = X]
             /\ e.tunnel = [d.tunnel EXCEPT ![w] = Launch(p, w)]
             /\ e.portUsed = d.portUsed \cup {p}
             /\ e.current = w /\ e.kept = d.kept /\ e.connected = d.connected
  <2> DEFINE taken == [begun EXCEPT !.portUsed = @ \cup {p}]
             L == Launch(p, w)
  <2>1. /\ taken \in StateType /\ taken.waiter = begun.waiter
        /\ taken.tunnel = d.tunnel /\ taken.portUsed = d.portUsed \cup {p}
        /\ taken.current = w /\ taken.kept = d.kept /\ taken.connected = d.connected
    BY <1>6 DEF StateType
  <2>2. L \in TunnelType
    BY LaunchType
  <2>3. e = [taken EXCEPT !.tunnel[w] = L, !.waiter[w].tunnel = w]
    BY <1>9
  <2>4. taken.waiter[w] = V
    BY <1>6, <2>1
  <2> HIDE DEF taken, L
  <2>5. e = [taken EXCEPT !.tunnel[w] = L, !.waiter[w] = X]
    BY <1>5, <2>1, <2>3, <2>4 DEF StateType
  <2>6. /\ e \in StateType /\ e.waiter = [taken.waiter EXCEPT ![w] = X]
        /\ e.tunnel = [taken.tunnel EXCEPT ![w] = L]
        /\ e.portUsed = taken.portUsed
        /\ e.current = w /\ e.kept = d.kept /\ e.connected = d.connected
    BY <1>2, <2>1, <2>2, <2>5 DEF StateType
  <2>7. [taken.waiter EXCEPT ![w] = X] = [d.waiter EXCEPT ![w] = X]
    BY <1>6, <2>1, StateFields
  <2> QED BY <2>1, <2>6, <2>7 DEF L
<1>10. CASE \E p \in Ports \ d.portUsed : e = [begun EXCEPT !.portUsed = @ \cup {p}]
  BY <1>6, <1>8, <1>10 DEF V
<1>11. CASE \E p \in Ports \ d.portUsed :
              e = [[begun EXCEPT !.portUsed = @ \cup {p}] EXCEPT
                     !.tunnel[w] = Launch(p, w), !.waiter[w].tunnel = w]
  <2>1. PICK p \in Ports \ d.portUsed :
              e = [[begun EXCEPT !.portUsed = @ \cup {p}] EXCEPT
                     !.tunnel[w] = Launch(p, w), !.waiter[w].tunnel = w]
    BY <1>11
  <2>2. /\ e \in StateType /\ e.waiter = [d.waiter EXCEPT ![w] = X]
        /\ e.tunnel = [d.tunnel EXCEPT ![w] = Launch(p, w)]
        /\ e.portUsed = d.portUsed \cup {p}
        /\ e.current = w /\ e.kept = d.kept /\ e.connected = d.connected
    BY <1>9, <2>1
  <2> QED BY <2>2 DEF X
<1> QED BY <1>4, <1>7, <1>10, <1>11

\* It only begins once nobody else waits for ssh.
LEMMA NewAttemptIsSound ==
    ASSUME NEW d, Sound(d), \A u \in Waiters : ~Begun(d, u),
           NEW w \in Waiters, d.waiter[w].delegate = "unset",
           NEW e, NewAttempt(d, w, e)
    PROVE  Sound(e) /\ Held(e)
<1> DEFINE W == d.waiter[w]
           V == WithoutTunnel(W)
           X == WithTunnel(W, w)
<1>1. /\ d \in StateType /\ d.kept \in Waiters \cup {None} /\ Made(d, d.kept)
      /\ W = FreshWaiter /\ d.tunnel[w].ssh = "none" /\ W \in WaiterType
      /\ \A u \in Waiters : /\ PortSound(d, u) /\ WaiterSound(d, u) /\ TunnelSound(d, u)
                            /\ d.waiter[u].tunnel \in Waiters \cup {None}
  <2>1. d \in StateType /\ Made(d, d.kept) /\ WaiterSound(d, w)
        /\ \A u \in Waiters : PortSound(d, u) /\ WaiterSound(d, u) /\ TunnelSound(d, u)
    BY DEF Sound
  <2> QED BY <2>1, SoundWaiter DEF WaiterSound
<1>2. /\ e \in StateType /\ e.current = w /\ e.kept = d.kept
      /\ d.portUsed \subseteq e.portUsed
      /\ \/ e.tunnel = d.tunnel /\ e.waiter = [d.waiter EXCEPT ![w] = V]
         \/ \E p \in Ports \ d.portUsed :
               /\ p \in e.portUsed /\ e.tunnel = [d.tunnel EXCEPT ![w] = Launch(p, w)]
               /\ e.waiter = [d.waiter EXCEPT ![w] = X]
  BY <1>1, NewAttemptIs
<1>3. /\ V.tunnel = None /\ V.delegate = "set" /\ X.tunnel = w /\ X.delegate = "set"
      /\ X.sheets = <<>> /\ X.told = <<>> /\ X.thread = "none" /\ X.sock = "none"
      /\ ~X.timer /\ ~X.failed
  BY <1>1 DEF FreshWaiter, WithTunnel, WithoutTunnel
<1> HIDE DEF V, X
<1>4. CASE e.tunnel = d.tunnel /\ e.waiter = [d.waiter EXCEPT ![w] = V]
  <2>1. \A u \in Waiters : e.waiter[u] = IF u = w THEN V ELSE d.waiter[u]
    BY <1>1, <1>4, StateFields
  <2>2. \A u \in Waiters : ~Begun(e, u)
    BY <1>4 DEF Begun
  <2>3. ASSUME NEW u \in Waiters
        PROVE  PortSound(e, u) /\ WaiterSound(e, u) /\ TunnelSound(e, u)
    <3>1. PortSound(e, u)
      BY <1>1, <1>2, <1>4 DEF PortSound
    <3>2. WaiterSound(e, u)
      BY <1>1, <1>2, <1>3, <1>4, <2>1 DEF WaiterSound, Made
    <3>3. TunnelSound(e, u)
      BY <1>1, <1>4, <2>2 DEF TunnelSound
    <3> QED BY <3>1, <3>2, <3>3
  <2>4. Made(e, e.kept)
    BY <1>1, <1>2, <1>4 DEF Made
  <2> QED BY <1>2, <2>2, <2>3, <2>4 DEF Sound, Held
<1>5. ASSUME NEW p \in Ports \ d.portUsed, p \in e.portUsed,
             e.tunnel = [d.tunnel EXCEPT ![w] = Launch(p, w)],
             e.waiter = [d.waiter EXCEPT ![w] = X]
      PROVE  Sound(e) /\ Held(e)
  <2> DEFINE L == Launch(p, w)
  <2>1. /\ L.ssh = "running" /\ L.state = "opening" /\ L.port = p /\ L.fifo
        /\ L.delegate = w /\ L.err = <<>>
    BY DEF Launch, NoTunnel
  <2> HIDE DEF L
  <2>2. \A u \in Waiters : /\ e.waiter[u] = IF u = w THEN X ELSE d.waiter[u]
                           /\ e.tunnel[u] = IF u = w THEN L ELSE d.tunnel[u]
    BY <1>1, <1>5, StateFields DEF L
  <2>3. p # NoPort /\ \A u \in Waiters : d.tunnel[u].port # p
    BY <1>1, Names DEF PortSound
  <2>4. \A u \in Waiters : Begun(e, u) => u = w
    BY <2>2 DEF Begun
  <2>5. \A v \in Waiters \cup {None} : Made(d, v) => Made(e, v) /\ v # w
    BY <1>1, <2>1, <2>2, Names DEF Made
  <2>6. AsksUser(L, X, w)
    <3>1. Opening(L)
      BY <2>1 DEF Opening
    <3> QED BY <1>3, <2>1, <3>1 DEF AsksUser, Waiting
  <2>7. ASSUME NEW u \in Waiters
        PROVE  PortSound(e, u) /\ WaiterSound(e, u) /\ TunnelSound(e, u)
    <3>1. PortSound(e, u)
      <4>1. PortSound(d, u)
        BY <1>1
      <4> HIDE DEF NoTunnel, NoPort
      <4>2. CASE u = w
        BY <1>5, <2>1, <2>2, <2>3, <4>2 DEF PortSound
      <4>3. CASE u # w
        BY <1>2, <2>1, <2>2, <2>3, <4>1, <4>3 DEF PortSound
      <4> QED BY <4>2, <4>3
    <3>2. WaiterSound(e, u)
      <4>1. CASE u = w
        BY <1>3, <2>1, <2>2, <4>1 DEF WaiterSound, Made
      <4>2. CASE u # w
        <5>1. WaiterSound(d, u) /\ d.waiter[u].tunnel \in Waiters \cup {None}
          BY <1>1
        <5>2. Made(e, d.waiter[u].tunnel)
          BY <2>5, <5>1 DEF WaiterSound
        <5> QED BY <1>2, <2>2, <4>2, <5>1, <5>2 DEF WaiterSound
      <4> QED BY <4>1, <4>2
    <3>3. TunnelSound(e, u)
      <4>1. CASE u = w
        <5>1. e.kept # w
          BY <1>1, <1>2, <2>5
        <5>2. \A v \in Waiters \ {w} : e.waiter[v].tunnel # w
          BY <1>1, <2>2, <2>5 DEF WaiterSound
        <5> HIDE DEF AsksUser
        <5> QED BY <2>1, <2>2, <2>6, <4>1, <5>1, <5>2 DEF TunnelSound
      <4>2. CASE u # w
        <5>1. ~Begun(e, u)
          BY <2>4, <4>2
        <5>2. e.tunnel[u].delegate \in {None, u}
          BY <1>1, <2>2, <4>2 DEF TunnelSound
        <5> QED BY <5>1, <5>2 DEF TunnelSound
      <4> QED BY <4>1, <4>2
    <3> QED BY <3>1, <3>2, <3>3
  <2>8. Made(e, e.kept)
    BY <1>1, <1>2, <2>5
  <2> QED BY <1>2, <2>4, <2>7, <2>8 DEF Sound, Held
<1> QED BY <1>2, <1>4, <1>5

LEMMA NobodyBegun ==
    ASSUME Inv, s.current = None
    PROVE  \A u \in Waiters : ~Begun(s, u)
  BY Names DEF Inv, Held

LEMMA ConnectToServerKeepsInv ==
    ASSUME Inv, NEW w \in Waiters, ConnectToServer(w)
    PROVE  Inv'
<1>1. Sound(s) /\ s.current = None /\ s.waiter[w].delegate = "unset" /\ NewAttempt(s, w, s')
  BY DEF Inv, ConnectToServer, Idle, Fresh
<1> QED BY <1>1, NobodyBegun, NewAttemptIsSound DEF Inv

LEMMA ForceReconnectKeepsInv ==
    ASSUME Inv, NEW w \in Waiters, ForceReconnect(w)
    PROVE  Inv'
<1>1. /\ Sound(s) /\ s.current = None /\ s.waiter[w].delegate = "unset"
      /\ NewAttempt(Ended, w, s')
  BY DEF Inv, ForceReconnect, Idle, Fresh, Ended
<1>2. /\ Change(s, Ended) /\ Ended.waiter = s.waiter
      /\ \A u \in Waiters : Ended.tunnel[u] = IF u = s.kept THEN Close(s.tunnel[u])
                                              ELSE s.tunnel[u]
  BY <1>1, EndedIs
<1>3. Sound(Ended) /\ \A u \in Waiters : ~Begun(Ended, u)
  <2>1. \A u \in Waiters : ~Begun(s, u)
    BY <1>1, NobodyBegun
  <2> QED BY <1>1, <1>2, <2>1, ChangeIsSound DEF Change
<1> QED BY <1>1, <1>2, <1>3, NewAttemptIsSound DEF Inv

\* The tunnel that is used again is not one that ssh still opens.
LEMMA ReconnectIs ==
    ASSUME s \in StateType, NEW w \in Waiters, Reconnect(w), s.waiter[w] = FreshWaiter
    PROVE  /\ s' \in StateType /\ s'.current = w /\ s'.connected = FALSE
           /\ s'.kept = s.kept /\ s'.portUsed = s.portUsed /\ s'.tunnel = s.tunnel
           /\ \A u \in Waiters \ {w} : s'.waiter[u] = s.waiter[u]
           /\ LET W == s'.waiter[w] IN
              /\ W.tunnel = s.kept /\ W.delegate = "set" /\ W.told = <<>>
              /\ ~W.timer /\ ~W.failed
              /\ \/ /\ s.tunnel[s.kept].ssh = "running"
                    /\ W.sock = "open" /\ W.thread = "poll" /\ W.sheets = <<>>
                 \/ W.sock = "none" /\ W.thread = "none" /\ W.sheets = <<"error">>
<1> DEFINE V == WithTunnel(s.waiter[w], s.kept)
           d == [s EXCEPT !.waiter[w] = V, !.current = w, !.connected = FALSE]
<1>1. s.waiter[w] \in WaiterType /\ s.kept \in Waiters \cup {None}
  BY StateFields
<1>2. V \in WaiterType
  BY <1>1 DEF WaiterType, WithTunnel
<1>3. /\ V.tunnel = s.kept /\ V.delegate = "set" /\ V.sock = "none" /\ V.thread = "none"
      /\ V.sheets = <<>> /\ ~V.timer /\ ~V.failed /\ V.told = <<>>
  BY DEF WithTunnel, FreshWaiter
<1>4. \/ s.tunnel[s.kept].ssh = "running" /\ s' = Establish(d, w)
      \/ s' = Error(d, w)
  <2>1. d = [s EXCEPT !.waiter[w].delegate = "set", !.waiter[w].tunnel = s.kept,
                      !.current = w, !.connected = FALSE]
    <3> DEFINE x == [s EXCEPT !.waiter[w].delegate = "set", !.waiter[w].tunnel = s.kept]
               y == [s EXCEPT !.waiter[w] = V]
    <3>1. x = y
      BY DEF StateType, WithTunnel
    <3>2. /\ d = [y EXCEPT !.current = w, !.connected = FALSE]
          /\ [x EXCEPT !.current = w, !.connected = FALSE]
             = [s EXCEPT !.waiter[w].delegate = "set", !.waiter[w].tunnel = s.kept,
                         !.current = w, !.connected = FALSE]
      OBVIOUS
    <3> QED BY <3>1, <3>2
  <2> QED BY <2>1 DEF Reconnect
<1> HIDE DEF V
<1>5. /\ d \in StateType /\ d.waiter = [s.waiter EXCEPT ![w] = V] /\ d.tunnel = s.tunnel
      /\ d.portUsed = s.portUsed /\ d.current = w /\ d.kept = s.kept
      /\ d.connected = FALSE
  BY <1>2 DEF StateType
<1> HIDE DEF d
<1>6. \A u \in Waiters : d.waiter[u] = IF u = w THEN V ELSE s.waiter[u]
  BY <1>5, StateFields
<1>7. CASE s.tunnel[s.kept].ssh = "running" /\ s' = Establish(d, w)
  <2> DEFINE X == [V EXCEPT !.sock = "open", !.thread = "poll"]
  <2>1. OnlyWaiter(d, s', w, X)
    BY <1>5, <1>6, <1>7, EstablishIs
  <2>2. /\ X.tunnel = s.kept /\ X.delegate = "set" /\ X.told = <<>> /\ ~X.timer
        /\ ~X.failed /\ X.sock = "open" /\ X.thread = "poll" /\ X.sheets = <<>>
    BY <1>2, <1>3 DEF WaiterType
  <2> HIDE DEF X
  <2>3. \A u \in Waiters : s'.waiter[u] = IF u = w THEN X ELSE s.waiter[u]
    BY <1>5, <1>6, <2>1, StateFields DEF OnlyWaiter
  <2> QED BY <1>5, <1>7, <2>1, <2>2, <2>3 DEF OnlyWaiter, Rest
<1>8. CASE s' = Error(d, w)
  <2> DEFINE X == Shown(V)
  <2>1. OnlyWaiter(d, s', w, X)
    BY <1>5, <1>6, <1>8, ErrorIs
  <2>2. /\ X.tunnel = s.kept /\ X.delegate = "set" /\ X.told = <<>> /\ ~X.timer
        /\ ~X.failed /\ X.sock = "none" /\ X.thread = "none"
        /\ X.sheets = Append(<<>>, "error")
    BY <1>2, <1>3, ShownIs
  <2> HIDE DEF X
  <2>3. \A u \in Waiters : s'.waiter[u] = IF u = w THEN X ELSE s.waiter[u]
    BY <1>5, <1>6, <2>1, StateFields DEF OnlyWaiter
  <2>4. X.sheets = <<"error">>
    BY <2>2
  <2> QED BY <1>5, <2>1, <2>2, <2>3, <2>4 DEF OnlyWaiter, Rest
<1> QED BY <1>4, <1>7, <1>8

LEMMA ReconnectKeepsInv ==
    ASSUME Inv, NEW w \in Waiters, Reconnect(w)
    PROVE  Inv'
<1>1. /\ Sound(s) /\ s \in StateType /\ s.current = None
      /\ s.waiter[w].delegate = "unset" /\ s.kept # None
  BY DEF Inv, Reconnect, Idle, Fresh, Sound
<1>2. /\ s.waiter[w] = FreshWaiter /\ s.kept \in Waiters \cup {None} /\ Made(s, s.kept)
  BY <1>1, SoundWaiter
<1>3. /\ s' \in StateType /\ s'.current = w /\ s'.kept = s.kept
      /\ s'.portUsed = s.portUsed /\ s'.tunnel = s.tunnel
      /\ \A u \in Waiters \ {w} : s'.waiter[u] = s.waiter[u]
      /\ s'.waiter[w].tunnel = s.kept /\ s'.waiter[w].delegate = "set"
  BY <1>1, <1>2, ReconnectIs
<1>4. \A u \in Waiters : ~Begun(s', u)
  BY <1>1, <1>3, NobodyBegun DEF Begun
<1>5. ASSUME NEW u \in Waiters
      PROVE  PortSound(s', u) /\ WaiterSound(s', u) /\ TunnelSound(s', u)
  <2>1. PortSound(s, u) /\ WaiterSound(s, u) /\ TunnelSound(s, u)
    BY <1>1 DEF Sound
  <2>2. PortSound(s', u)
    BY <1>3, <2>1 DEF PortSound
  <2>3. WaiterSound(s', u)
    BY <1>2, <1>3, <2>1 DEF WaiterSound, Made
  <2>4. TunnelSound(s', u)
    BY <1>3, <1>4, <2>1 DEF TunnelSound
  <2> QED BY <2>2, <2>3, <2>4
<1>6. Made(s', s'.kept)
  BY <1>2, <1>3 DEF Made
<1> QED BY <1>3, <1>4, <1>5, <1>6 DEF Inv, Sound, Held

-----------------------------------------------------------------------------
(* Whatever happens. *)

LEMMA InitIsSound ==
    ASSUME Init
    PROVE  Inv
<1> DEFINE f == [t \in Waiters |-> NoTunnel]
           g == [w \in Waiters |-> FreshWaiter]
<1>1. s = [tunnel |-> f, waiter |-> g, portUsed |-> {}, current |-> None,
           kept |-> None, connected |-> FALSE]
  BY DEF Init, FreshWaiter
<1>2. NoTunnel \in TunnelType
  <2>1. <<>> \in Seq(Lines)
    OBVIOUS
  <2> QED BY <2>1 DEF TunnelType, NoTunnel, States
<1>3. FreshWaiter \in WaiterType
  <2>1. <<>> \in Seq({"key", "password", "error"}) /\ <<>> \in Seq({"succeeded", "failed"})
    OBVIOUS
  <2> QED BY <2>1 DEF WaiterType, FreshWaiter
<1>4. /\ s \in StateType /\ s.kept = None /\ s.current = None
      /\ \A u \in Waiters : s.tunnel[u] = NoTunnel /\ s.waiter[u] = FreshWaiter
  <2> HIDE DEF NoTunnel, FreshWaiter
  <2> QED BY <1>1, <1>2, <1>3 DEF StateType
<1>5. /\ NoTunnel.ssh = "none" /\ ~NoTunnel.fifo /\ NoTunnel.port = NoPort
      /\ NoTunnel.delegate = None
      /\ FreshWaiter.tunnel = None /\ FreshWaiter.delegate = "unset"
  BY DEF NoTunnel, FreshWaiter
<1> HIDE DEF NoTunnel, FreshWaiter
<1>6. ASSUME NEW u \in Waiters
      PROVE  PortSound(s, u) /\ WaiterSound(s, u) /\ TunnelSound(s, u) /\ ~Begun(s, u)
  BY <1>4, <1>5, <1>6, Names DEF PortSound, WaiterSound, TunnelSound, Begun, Made
<1> QED BY <1>4, <1>6 DEF Inv, Sound, Held, Made

LEMMA NextKeepsInv ==
    ASSUME Inv, [Next]_s
    PROVE  Inv'
<1>1. CASE UNCHANGED s
  BY <1>1 DEF Inv
<1>2. CASE EndSession
  BY <1>2, EndSessionKeepsInv
<1>3. ASSUME NEW w \in Waiters, OfSsh(w) \/ Notified(w) \/ HangsUp(w) \/ WaitForData(w)
      PROVE  Inv'
  BY <1>3, SshFailsKeepsInv, SshLogsInKeepsInv, SshEndsKeepsInv, SshAsksKeepsInv,
     ReadStderrKeepsInv, ReadStdoutKeepsInv, SshTerminatedKeepsInv,
     HangsUpKeepsInv, WaitForDataKeepsInv DEF OfSsh, Notified
<1>4. ASSUME NEW w \in Waiters, OfMain(w) \/ OfUser(w)
      PROVE  Inv'
  BY <1>4, FinishConnectionKeepsInv, ServerClosedKeepsInv, ServerClosedNoReasonKeepsInv,
     ConnectToServerKeepsInv, ReconnectKeepsInv, ForceReconnectKeepsInv,
     CancelKeepsInv, AnswerKeyKeepsInv, AuthPasswordEnteredKeepsInv,
     AuthCancelledKeepsInv, ErrorDidEndKeepsInv DEF OfMain, OfUser
<1> QED BY <1>1, <1>2, <1>3, <1>4 DEF Next

\* The inductive invariant holds, also if ssh ends by itself or is killed while
\* the user is asked, and if it fails with two lines.
THEOREM InvCorrect == Spec => []Inv
<1>1. Init => Inv
  BY InitIsSound
<1>2. Inv /\ [Next]_s => Inv'
  BY NextKeepsInv
<1> QED BY <1>1, <1>2, PTL DEF Spec

\* The tunnels, the attempts and the session keep their types: in particular a
\* handler never stores into a tunnel or an attempt that is not there.
THEOREM TypeCorrect == Spec => []TypeOK
<1>1. Inv => TypeOK
  BY DEF Inv, Sound, TypeOK
<1> QED BY <1>1, InvCorrect, PTL

\* Two ssh that run never share a local port or a FIFO, however late one ends
\* and whatever attempt follows (findPortForTunnel, sshTerminated:).
THEOREM PortsAreExclusive == Spec => []PortIsExclusive
<1>1. ASSUME Inv PROVE PortIsExclusive
  <2> SUFFICES ASSUME NEW t \in Waiters, s.tunnel[t].ssh = "running" \/ s.tunnel[t].fifo
               PROVE  /\ s.tunnel[t].port \in s.portUsed
                      /\ \A u \in Waiters \ {t} : s.tunnel[u].port # s.tunnel[t].port
    BY DEF PortIsExclusive
  <2>1. PortSound(s, t)
    BY <1>1 DEF Inv, Sound
  <2> HIDE DEF NoTunnel, NoPort
  <2> QED BY <2>1 DEF PortSound
<1> QED BY <1>1, InvCorrect, PTL

\* While ssh's helper is answered to, the question is the one on the window,
\* it is the first of the sheets, and the answer reaches ssh.
THEOREM QuestionsAreAsked == Spec => []PromptIsAsked
<1>1. ASSUME Inv PROVE PromptIsAsked
  <2> SUFFICES ASSUME NEW t \in Waiters, s.tunnel[t].state = "prompt"
               PROVE  /\ s.tunnel[t].delegate # None
                      /\ AttemptState[s.tunnel[t].delegate] = "asking"
                      /\ s.tunnel[t].asks = Head(s.waiter[s.tunnel[t].delegate].sheets)
                      /\ s.tunnel[t].ssh = "running" => s.tunnel[t].fifo
    BY DEF PromptIsAsked
  <2> DEFINE T == s.tunnel[t]
             W == s.waiter[t]
  <2>1. PortSound(s, t) /\ TunnelSound(s, t)
    BY <1>1 DEF Inv, Sound
  <2>2. Begun(s, t)
    BY <2>1 DEF PortSound, NoTunnel, Begun, Early
  <2>3. AsksUser(T, W, t)
    BY <2>1, <2>2 DEF TunnelSound
  <2>4. /\ T.delegate = t /\ (T.ssh = "running" => T.fifo)
        /\ W.told = <<>> /\ W.delegate = "set"
        /\ W.sheets = <<T.asks>> /\ T.asks \in Questions
    BY <2>3 DEF AsksUser, Waiting, Prompting
  <2>5. /\ ~(Len(W.told) > 1) /\ W.sheets # <<>> /\ Head(W.sheets) = T.asks
        /\ Head(W.sheets) # "error"
    BY <2>4 DEF Questions
  <2>6. AttemptState[t] = "asking"
    BY <2>4, <2>5 DEF AttemptState
  <2> QED BY <2>4, <2>5, <2>6, Names
<1> QED BY <1>1, InvCorrect, PTL

-----------------------------------------------------------------------------
(* While ssh does not quit by itself: what it has done when a tunnel is in a *)
(* state, and where an attempt is that uses the tunnel.                      *)

Past == {"tunneling", "open"}

Of(T, lines) == \A i \in DOMAIN T.err : T.err[i] \in lines

Usable(T) == T.state \in Past /\ T.ssh = "running" /\ T.err = <<>>

\* How far ssh is, by the state of its tunnel.
Orderly(T) ==
    /\ T.state # "closing" /\ T.ssh # "none" =>
          ~T.terminated /\ T.input /\ T.asks # "over"
    /\ T.loggedIn => T.asks \in {"new", "no"}
    /\ T.blank => T.loggedIn
    /\ T.ssh # "ended" => Of(T, Lines \ {"eof"})
    /\ T.state \in Early /\ T.asks \in {"new", "no"} => Of(T, {"eof"})
    /\ T.state = "opening" /\ T.loggedIn => T.ssh = "running"
    /\ T.state \in Past => T.loggedIn
    /\ T.state \in Past /\ T.ssh = "running" => Of(T, {"channel"})
    /\ T.state = "tunneling" => T.ssh = "running"
    /\ T.state = "open" => T.delegate = None

Fit(d, t) ==
    LET T == d.tunnel[t] IN
    /\ Orderly(T)
    /\ T.state = "tunneling" => T.delegate = t
    /\ T.delegate = t /\ T.state # "closing" => d.waiter[t].tunnel = t

Closing(d, t) == t # None => d.tunnel[t].state = "closing"

\* The attempt waits for data through its tunnel.
Live(d, w) ==
    LET W == d.waiter[w] IN
    /\ d.current = w /\ W.thread \in {"poll", "data"} /\ W.delegate = "set"
    /\ W.told = <<>> /\ W.sheets = <<>> /\ ~W.timer /\ ~W.failed
    /\ W.tunnel # None /\ Usable(d.tunnel[W.tunnel])

Attempt(d, w) ==
    LET W == d.waiter[w] IN
    /\ W.sock = "open" => Live(d, w)
    /\ W.thread = "data" /\ W.delegate = "set" => W.sock = "open"
    /\ W.sock = "none" /\ W.thread # "none" => W.delegate = "nil"
    /\ W.sheets # <<>> => d.current \in {w, None} /\ W.delegate = "set"
    /\ d.current = w =>
          /\ d.kept \in {None, W.tunnel} /\ W.delegate = "set"
          /\ W.sheets # <<>> =>
                ~W.timer /\ (W.thread # "none" => W.failed /\ Closing(d, W.tunnel))
    /\ d.current # w /\ W.delegate = "set" =>
          ~W.timer /\ (W.thread # "none" => W.failed)
    /\ d.current # w /\ ~Closing(d, W.tunnel) => W.thread = "none" /\ ~W.timer
    /\ W.timer => W.thread = "none"

\* The session that is connected keeps a tunnel that works.
Keeps(d) ==
    /\ d.connected => d.current = None
    /\ d.connected /\ d.kept # None /\ d.tunnel[d.kept].ssh = "running" =>
          d.tunnel[d.kept].state = "open" /\ d.tunnel[d.kept].err = <<>>
    /\ d.current = None /\ ~d.connected => d.kept = None

Ordered(d) == Keeps(d) /\ \A w \in Waiters : Fit(d, w) /\ Attempt(d, w)

\* Between the handlers, a tunnel that the delegate has left is closed.
Left(d) == \A w \in Waiters : d.current # w => Closing(d, d.waiter[w].tunnel)

Steady == Inv /\ Ordered(s) /\ Left(s)

\* How far the handlers take a tunnel in the diagram.
Moves(T, U) == T.state = U.state \/ <<T.state, U.state>> \in Diagram

-----------------------------------------------------------------------------

LEMMA CloseIs ==
    ASSUME NEW T \in TunnelType
    PROVE  /\ Close(T) \in TunnelType /\ Close(T).state = "closing"
           /\ Close(T).delegate = None /\ Close(T).ssh = T.ssh
           /\ Close(T).asks = T.asks /\ Close(T).loggedIn = T.loggedIn
           /\ Close(T).blank = T.blank /\ Close(T).err = T.err
           /\ Moves(T, Close(T))
           /\ Orderly(T) => Orderly(Close(T))
<1>1. Close(T) \in TunnelType
  BY TunnelTypes
<1>2. /\ Close(T).state = "closing"
      /\ Close(T).delegate = None /\ Close(T).ssh = T.ssh
      /\ Close(T).asks = T.asks /\ Close(T).loggedIn = T.loggedIn
      /\ Close(T).blank = T.blank /\ Close(T).err = T.err
  BY DEF Close, TunnelType
<1>3. T.state \in States
  BY DEF TunnelType
<1>4. Moves(T, Close(T))
  BY <1>2, <1>3 DEF Moves, Diagram
<1>5. Orderly(T) => Orderly(Close(T))
  BY <1>2 DEF Orderly, Of, Early, Past
<1> QED BY <1>1, <1>2, <1>4, <1>5

LEMMA Typed ==
    ASSUME NEW d \in StateType, NEW w \in Waiters
    PROVE  /\ d.tunnel[w] \in TunnelType /\ d.waiter[w] \in WaiterType
           /\ d.waiter[w].tunnel \in Waiters \cup {None}
           /\ d.kept \in Waiters \cup {None} /\ d.current \in Waiters \cup {None}
  BY StateFields DEF WaiterType

LEMMA AttemptStays ==
    ASSUME NEW d \in StateType, NEW e, NEW w \in Waiters, Attempt(d, w),
           e.waiter[w] = d.waiter[w],
           \/ e.current = d.current /\ e.kept \in {d.kept, None}
           \/ e.current = None /\ d.current # w,
           \A t \in Waiters : d.tunnel[t].state = "closing" => e.tunnel[t].state = "closing",
           \A t \in Waiters : /\ d.waiter[w].tunnel = t /\ d.waiter[w].sock = "open"
                              /\ Usable(d.tunnel[t])
                              => Usable(e.tunnel[t])
    PROVE  Attempt(e, w)
<1> DEFINE W == d.waiter[w]
           t == W.tunnel
<1>1. t \in Waiters \cup {None} /\ w # None
  BY Typed, Names
<1>2. Closing(d, t) => Closing(e, t)
  BY <1>1 DEF Closing
<1>3. W.sock = "open" /\ Live(d, w) => Live(e, w)
  BY <1>1 DEF Live
<1> HIDE DEF Closing, Live
<1> QED BY <1>1, <1>2, <1>3 DEF Attempt, Live

\* What a handler leaves when it is done with an attempt: either it did not
\* change the attempt of the delegate, or there is none any more.
LEMMA SettledIsOrdered ==
    ASSUME NEW d \in StateType, Ordered(d),
           Left(d) \/ (d.current = None /\ ~d.connected)
    PROVE  /\ Ordered(Settled(d)) /\ Left(Settled(d))
           /\ \A t \in Waiters : \/ Settled(d).tunnel[t] = d.tunnel[t]
                                 \/ Settled(d).tunnel[t] = Close(d.tunnel[t])
<1> DEFINE e == Settled(d)
           Gone(w) == ~Retained(d, w) /\ d.waiter[w].tunnel # None
           Shut(t) == \E w \in Waiters : Gone(w) /\ d.waiter[w].tunnel = t
<1>1. d \in StateType
  OBVIOUS
<1>2. /\ e \in StateType /\ Rest(d, e)
      /\ \A w \in Waiters :
            e.waiter[w] = IF Gone(w) THEN [d.waiter[w] EXCEPT !.tunnel = None]
                          ELSE d.waiter[w]
      /\ \A t \in Waiters :
            e.tunnel[t] = IF Shut(t) THEN Close(d.tunnel[t]) ELSE d.tunnel[t]
  BY <1>1, SettledIs
<1> HIDE DEF e
<1>3. ASSUME NEW t \in Waiters
      PROVE  /\ ~Shut(t) => e.tunnel[t] = d.tunnel[t]
             /\ Shut(t) => e.tunnel[t] = Close(d.tunnel[t])
             /\ d.tunnel[t].state = "closing" => e.tunnel[t].state = "closing"
             /\ e.tunnel[t].ssh = d.tunnel[t].ssh /\ e.tunnel[t].err = d.tunnel[t].err
             /\ Shut(t) => e.tunnel[t].state = "closing"
  <2>1. d.tunnel[t] \in TunnelType
    BY <1>1, StateFields
  <2> HIDE DEF Shut
  <2> QED BY <1>2, <2>1, CloseIs
<1>4. ASSUME NEW w \in Waiters
      PROVE  /\ Gone(w) => e.waiter[w] = [d.waiter[w] EXCEPT !.tunnel = None]
             /\ ~Gone(w) => e.waiter[w] = d.waiter[w]
             /\ Gone(w) => d.current # w /\ d.waiter[w].thread = "none" /\ ~d.waiter[w].timer
             /\ d.waiter[w] \in WaiterType
             /\ d.waiter[w].tunnel \in Waiters \cup {None}
  BY <1>1, <1>2, Typed DEF Retained
\* A tunnel that is shut was closed, unless the delegate has gone.
<1>5. ASSUME NEW t \in Waiters, Shut(t), d.current # None
      PROVE  d.tunnel[t].state = "closing"
  <2>1. PICK w \in Waiters : Gone(w) /\ d.waiter[w].tunnel = t
    BY <1>5
  <2>2. Left(d) /\ d.current # w
    BY <1>4, <1>5, <2>1
  <2>3. Closing(d, d.waiter[w].tunnel)
    BY <2>2 DEF Left
  <2> QED BY <2>1, <2>3, Names DEF Closing
<1> HIDE DEF Shut
<1>6. ASSUME NEW t \in Waiters PROVE Fit(e, t)
  <2>1. Fit(d, t) /\ d.tunnel[t] \in TunnelType
    BY <1>1, StateFields DEF Ordered
  <2>2. CASE Shut(t)
    <3>1. e.tunnel[t] = Close(d.tunnel[t])
      BY <1>3, <2>2
    <3> QED BY <2>1, <3>1, CloseIs DEF Fit
  <2>3. CASE ~Shut(t)
    <3>1. e.tunnel[t] = d.tunnel[t]
      BY <1>3, <2>3
    <3>2. ASSUME d.tunnel[t].delegate = t, d.tunnel[t].state # "closing"
          PROVE  e.waiter[t].tunnel = t
      <4>1. d.waiter[t].tunnel = t
        BY <2>1, <3>2 DEF Fit
      <4>2. ~Gone(t)
        BY <2>3, <4>1 DEF Shut
      <4> QED BY <1>4, <4>1, <4>2
    <3> QED BY <2>1, <3>1, <3>2 DEF Fit
  <2> QED BY <2>2, <2>3
<1>7. ASSUME NEW w \in Waiters PROVE Attempt(e, w)
  <2>1. Attempt(d, w)
    BY DEF Ordered
  <2>2. CASE ~Gone(w)
    <3>1. e.waiter[w] = d.waiter[w]
      BY <1>4, <2>2
    <3>2. e.current = d.current /\ e.kept = d.kept
      BY <1>2 DEF Rest
    <3>3. ASSUME NEW t \in Waiters, d.waiter[w].tunnel = t, d.waiter[w].sock = "open",
                 Usable(d.tunnel[t])
          PROVE  Usable(e.tunnel[t])
      <4>1. d.current = w
        BY <2>1, <3>3 DEF Attempt, Live
      <4>2. ~Shut(t)
        BY <1>5, <3>3, <4>1, Names DEF Usable, Past
      <4> QED BY <1>3, <3>3, <4>2
    <3> HIDE DEF Gone
    <3> QED BY <1>3, <2>1, <3>1, <3>2, <3>3, AttemptStays
  <2>3. CASE Gone(w)
    <3> DEFINE W == d.waiter[w]
               V == e.waiter[w]
    <3>1. /\ V.tunnel = None /\ V.delegate = W.delegate /\ V.sock = W.sock
          /\ V.thread = W.thread /\ V.sheets = W.sheets /\ V.timer = W.timer
          /\ V.failed = W.failed /\ W.thread = "none" /\ ~W.timer /\ d.current # w
      BY <1>4, <2>3 DEF WaiterType
    <3>2. e.current = d.current
      BY <1>2 DEF Rest
    <3>3. Closing(e, V.tunnel)
      BY <3>1 DEF Closing
    <3> HIDE DEF V, Gone
    <3> QED BY <2>1, <3>1, <3>2, <3>3 DEF Attempt, Live, V
  <2> QED BY <2>2, <2>3
<1>8. Left(e)
  <2> SUFFICES ASSUME NEW w \in Waiters, e.current # w
               PROVE  Closing(e, e.waiter[w].tunnel)
    BY DEF Left
  <2>1. d.current # w /\ Attempt(d, w)
    BY <1>2 DEF Rest, Ordered
  <2>2. CASE Gone(w)
    BY <1>4, <2>2 DEF WaiterType, Closing
  <2>3. CASE ~Gone(w)
    <3>1. e.waiter[w] = d.waiter[w]
      BY <1>4, <2>3
    <3>2. d.waiter[w].tunnel = None \/ d.waiter[w].thread # "none" \/ d.waiter[w].timer
      BY <2>1, <2>3 DEF Retained
    <3>3. Closing(d, d.waiter[w].tunnel)
      BY <2>1, <3>2 DEF Attempt, Closing
    <3> HIDE DEF Gone
    <3>4. \A t \in Waiters : d.tunnel[t].state = "closing" => e.tunnel[t].state = "closing"
      BY <1>3
    <3>5. d.waiter[w].tunnel \in Waiters \cup {None}
      BY <1>4
    <3> QED BY <3>1, <3>3, <3>4, <3>5 DEF Closing
  <2> QED BY <2>2, <2>3
<1>9. Keeps(e)
  <2>1. Keeps(d) /\ e.current = d.current /\ e.kept = d.kept /\ e.connected = d.connected
    BY <1>2 DEF Rest, Ordered
  <2>2. d.kept \in Waiters \cup {None}
    BY <1>1, StateFields
  <2>3. ASSUME d.connected, d.kept \in Waiters, d.tunnel[d.kept].state = "open"
        PROVE  e.tunnel[d.kept] = d.tunnel[d.kept]
    <3>1. ~Shut(d.kept)
      <4> SUFFICES ASSUME Shut(d.kept) PROVE FALSE
        OBVIOUS
      <4>1. PICK w \in Waiters : Gone(w) /\ d.waiter[w].tunnel = d.kept
        BY DEF Shut
      <4>2. Left(d) /\ d.current # w
        BY <1>4, <2>3, <4>1
      <4>3. Closing(d, d.waiter[w].tunnel)
        BY <4>2 DEF Left
      <4> QED BY <2>3, <4>1, <4>3, Names DEF Closing
    <3> QED BY <1>3, <2>3, <3>1
  <2> QED BY <1>3, <2>1, <2>2, <2>3, Names DEF Keeps
<1>10. \A t \in Waiters : e.tunnel[t] = d.tunnel[t] \/ e.tunnel[t] = Close(d.tunnel[t])
  BY <1>3
<1> QED BY <1>6, <1>7, <1>8, <1>9, <1>10 DEF Ordered, e

\* A tunnel that may take the place of another.
MaySwap(d, t, U) ==
    LET T == d.tunnel[t] IN
    /\ Orderly(U)
    /\ T.state = "closing" => U.state = "closing"
    /\ d.connected /\ d.kept = t /\ U.ssh = "running" =>
          T.ssh = "running" /\ (Usable(T) => Usable(U) /\ U.state = T.state)
    /\ \A w \in Waiters : Live(d, w) => d.waiter[w].tunnel # t \/ Usable(U)
    /\ U.state = "tunneling" => U.delegate = t
    /\ U.delegate = t /\ U.state # "closing" => d.waiter[t].tunnel = t

LEMMA TunnelStepIsOrdered ==
    ASSUME NEW d \in StateType, Ordered(d), NEW e, NEW t \in Waiters, NEW U,
           OnlyTunnel(d, e, t, U), MaySwap(d, t, U)
    PROVE  /\ Ordered(e) /\ (Left(d) => Left(e))
           /\ \A u \in Waiters : e.tunnel[u] = IF u = t THEN U ELSE d.tunnel[u]
<1>1. /\ d \in StateType /\ Rest(d, e) /\ e.waiter = d.waiter
      /\ \A u \in Waiters : e.tunnel[u] = IF u = t THEN U ELSE d.tunnel[u]
  BY StateFields DEF OnlyTunnel
<1>2. ASSUME NEW u \in Waiters
      PROVE  /\ d.tunnel[u].state = "closing" => e.tunnel[u].state = "closing"
             /\ d.connected /\ d.kept = u /\ e.tunnel[u].ssh = "running" =>
                   /\ d.tunnel[u].ssh = "running"
                   /\ Usable(d.tunnel[u]) => /\ Usable(e.tunnel[u])
                                             /\ e.tunnel[u].state = d.tunnel[u].state
  BY <1>1 DEF MaySwap
<1>3. ASSUME NEW u \in Waiters PROVE Fit(e, u)
  <2>1. Fit(d, u)
    BY DEF Ordered
  <2> QED BY <1>1, <2>1 DEF Fit, MaySwap
<1>4. ASSUME NEW u \in Waiters PROVE Attempt(e, u)
  <2>1. Attempt(d, u)
    BY DEF Ordered
  <2>2. ASSUME NEW v \in Waiters, d.waiter[u].tunnel = v, d.waiter[u].sock = "open",
               Usable(d.tunnel[v])
        PROVE  Usable(e.tunnel[v])
    <3>1. Live(d, u)
      BY <2>1, <2>2 DEF Attempt
    <3> QED BY <1>1, <2>2, <3>1 DEF MaySwap
  <2> QED BY <1>1, <1>2, <2>1, <2>2, AttemptStays DEF Rest
<1>5. Keeps(e)
  <2>1. Keeps(d) /\ e.current = d.current /\ e.kept = d.kept /\ e.connected = d.connected
        /\ d.kept \in Waiters \cup {None}
    BY <1>1, StateFields DEF Ordered, Rest
  <2> QED BY <1>2, <2>1 DEF Keeps, Usable, Past
<1>6. ASSUME Left(d) PROVE Left(e)
  <2> SUFFICES ASSUME NEW w \in Waiters, e.current # w PROVE Closing(e, e.waiter[w].tunnel)
    BY DEF Left
  <2>1. Closing(d, d.waiter[w].tunnel) /\ d.waiter[w].tunnel \in Waiters \cup {None}
    BY <1>1, <1>6, Typed DEF Left, Rest
  <2> QED BY <1>1, <1>2, <2>1 DEF Closing
<1> QED BY <1>1, <1>3, <1>4, <1>5, <1>6 DEF Ordered

LEMMA WaiterStepIsOrdered ==
    ASSUME NEW d \in StateType, Ordered(d), NEW e, NEW w \in Waiters, NEW V,
           OnlyWaiter(d, e, w, V), Attempt(e, w), V.tunnel = d.waiter[w].tunnel
    PROVE  Ordered(e) /\ (Left(d) => Left(e)) /\ e.tunnel = d.tunnel
<1>1. /\ d \in StateType /\ Rest(d, e) /\ e.tunnel = d.tunnel
      /\ \A u \in Waiters : e.waiter[u] = IF u = w THEN V ELSE d.waiter[u]
  BY StateFields DEF OnlyWaiter
<1>2. \A u \in Waiters : e.waiter[u].tunnel = d.waiter[u].tunnel
  BY <1>1
<1>3. ASSUME NEW u \in Waiters PROVE Fit(e, u)
  <2>1. Fit(d, u)
    BY DEF Ordered
  <2> QED BY <1>1, <1>2, <2>1 DEF Fit
<1>4. ASSUME NEW u \in Waiters PROVE Attempt(e, u)
  <2>1. CASE u = w
    BY <2>1
  <2>2. CASE u # w
    <3>1. Attempt(d, u) /\ e.waiter[u] = d.waiter[u]
      BY <1>1, <2>2 DEF Ordered
    <3> QED BY <1>1, <3>1, AttemptStays DEF Rest
  <2> QED BY <2>1, <2>2
<1>5. Keeps(e)
  BY <1>1 DEF Keeps, Rest, Ordered
<1>6. Left(d) => Left(e)
  BY <1>1, <1>2 DEF Left, Rest, Closing
<1> QED BY <1>1, <1>3, <1>4, <1>5, <1>6 DEF Ordered

\* What each step keeps.
Goes == /\ Ordered(s') /\ Left(s')
        /\ \A t \in Waiters : Moves(s.tunnel[t], s'.tunnel[t])

LEMMA SteadyHas ==
    ASSUME Steady, NEW t \in Waiters
    PROVE  /\ Sound(s) /\ s \in StateType /\ s.tunnel[t] \in TunnelType
           /\ s.waiter[t] \in WaiterType /\ s.waiter[t].tunnel \in Waiters \cup {None}
           /\ Fit(s, t) /\ Orderly(s.tunnel[t]) /\ Attempt(s, t) /\ Keeps(s)
           /\ Ordered(s) /\ Left(s)
           /\ Begun(s, t) => AsksUser(s.tunnel[t], s.waiter[t], t) /\ s.current = t
<1>1. Sound(s) /\ Held(s) /\ Ordered(s) /\ Left(s)
  BY DEF Steady, Inv
<1> HIDE DEF AsksUser
<1> QED BY <1>1, SoundWaiter DEF Ordered, Fit, Held

LEMMA SshAsksGoes ==
    ASSUME Steady, NEW t \in Waiters, NEW q \in Questions, SshAsks(t, q)
    PROVE  Goes
<1> DEFINE T == s.tunnel[t]
           U == Asks(T, q)
<1>1. /\ Sound(s) /\ s \in StateType /\ T \in TunnelType /\ Fit(s, t) /\ Orderly(T)
      /\ Ordered(s) /\ Left(s)
  BY SteadyHas
<1>2. /\ T.ssh = "running" /\ T.asks \in {"new", "no", "again"} /\ ~T.loggedIn
      /\ s' = [s EXCEPT !.tunnel[t] = U]
  <2>1. CanAsk(T, q)
    BY DEF SshAsks
  <2>2. T.ssh = "running" /\ T.asks \in {"new", "no", "again"} /\ ~T.loggedIn
    BY <1>1, <2>1 DEF CanAsk, CanWork, Orderly
  <2> QED BY <2>2 DEF SshAsks
<1>3. /\ U \in TunnelType /\ U.state = T.state /\ U.ssh = T.ssh /\ U.asks = q
      /\ U.err = Append(T.err, q) /\ U.delegate = T.delegate
      /\ U.loggedIn = T.loggedIn /\ U.blank = T.blank /\ U.terminated = T.terminated
      /\ U.input = T.input
  <2>1. U \in TunnelType
    BY <1>1, TunnelTypes
  <2> QED BY <1>1, <2>1 DEF TunnelType, Asks
<1>4. T.state \notin Past
  BY <1>1, <1>2 DEF Orderly
<1>5. MaySwap(s, t, U)
  <2>1. Orderly(U)
    <3>1. Of(U, Lines \ {"eof"})
      <4>1. Of(T, Lines \ {"eof"}) /\ T.err \in Seq(Lines)
        BY <1>1, <1>2 DEF Orderly, TunnelType
      <4>2. \A i \in DOMAIN U.err : (i \in DOMAIN T.err /\ U.err[i] = T.err[i]) \/ U.err[i] = q
        BY <1>3, <4>1
      <4> HIDE DEF U
      <4> QED BY <4>1, <4>2 DEF Of, Questions, Lines
    <3> HIDE DEF U
    <3> QED BY <1>1, <1>2, <1>3, <1>4, <3>1 DEF Orderly, Questions
  <2> HIDE DEF U
  <2> QED BY <1>1, <1>2, <1>3, <1>4, <2>1 DEF MaySwap, Fit, Usable, Live
<1>6. OnlyTunnel(s, s', t, U)
  <2> HIDE DEF U
  <2> QED BY <1>1, <1>2, <1>3, SetTunnel DEF OnlyTunnel, Rest
<1> HIDE DEF U
<1> QED BY <1>1, <1>3, <1>5, <1>6, TunnelStepIsOrdered DEF Goes, Moves

LEMMA SshFailsGoes ==
    ASSUME Steady, NEW t \in Waiters, SshFails(t)
    PROVE  Goes
<1> DEFINE T == s.tunnel[t]
           U(n) == Fails(T, n)
<1>1. /\ Sound(s) /\ s \in StateType /\ T \in TunnelType /\ Fit(s, t) /\ Orderly(T)
      /\ Ordered(s) /\ Left(s)
  BY SteadyHas
<1>2. PICK n \in 1..2 : s' = [s EXCEPT !.tunnel[t] = U(n)]
  BY DEF SshFails
<1>3. T.ssh = "running" /\ ~T.loggedIn
  BY DEF SshFails, CanWork
<1> DEFINE V == U(n)
           more == [i \in 1..n |-> "failed"]
<1>4. /\ V \in TunnelType /\ V.state = T.state /\ V.ssh = T.ssh /\ V.asks = "again"
      /\ V.err = T.err \o more /\ V.delegate = T.delegate
      /\ V.loggedIn = T.loggedIn /\ V.blank = T.blank /\ V.terminated = T.terminated
      /\ V.input = T.input
  <2>1. V \in TunnelType
    BY <1>1, <1>2, TunnelTypes
  <2> QED BY <1>1, <2>1 DEF TunnelType, Fails
<1>5. more \in Seq(Lines) /\ \A i \in DOMAIN more : more[i] = "failed"
  BY DEF Lines
<1> HIDE DEF U, V, more
<1>6. T.state \notin Past
  BY <1>1, <1>3 DEF Orderly
<1>7. MaySwap(s, t, V)
  <2>1. Orderly(V)
    <3>1. Of(V, Lines \ {"eof"})
      <4>1. Of(T, Lines \ {"eof"}) /\ T.err \in Seq(Lines)
        BY <1>1, <1>3 DEF Orderly, TunnelType
      <4>2. ASSUME NEW i \in DOMAIN V.err, i \notin DOMAIN T.err
            PROVE  i - Len(T.err) \in DOMAIN more /\ V.err[i] = more[i - Len(T.err)]
        BY <1>4, <1>5, <4>1, <4>2
      <4>3. ASSUME NEW i \in DOMAIN T.err PROVE V.err[i] = T.err[i]
        BY <1>4, <1>5, <4>1
      <4> QED BY <1>5, <4>1, <4>2, <4>3 DEF Of, Lines
    <3> QED BY <1>1, <1>3, <1>4, <1>6, <3>1 DEF Orderly
  <2> QED BY <1>1, <1>3, <1>4, <1>6, <2>1 DEF MaySwap, Fit, Usable, Live
<1>8. OnlyTunnel(s, s', t, V)
  BY <1>1, <1>2, <1>4, SetTunnel DEF OnlyTunnel, Rest, V
<1> QED BY <1>1, <1>4, <1>7, <1>8, TunnelStepIsOrdered DEF Goes, Moves

LEMMA SshLogsInGoes ==
    ASSUME Steady, NEW t \in Waiters, SshLogsIn(t)
    PROVE  Goes
<1> DEFINE T == s.tunnel[t]
           U == LogsIn(T)
<1>1. /\ Sound(s) /\ s \in StateType /\ T \in TunnelType /\ Fit(s, t) /\ Orderly(T)
      /\ Ordered(s) /\ Left(s)
  BY SteadyHas
<1>2. /\ s' = [s EXCEPT !.tunnel[t] = U]
      /\ T.ssh = "running" /\ ~T.loggedIn /\ T.asks \in {"new", "no"}
  BY DEF SshLogsIn, CanWork
<1>3. /\ U \in TunnelType /\ U.state = T.state /\ U.ssh = T.ssh /\ U.asks = T.asks
      /\ U.err = T.err /\ U.delegate = T.delegate
      /\ U.loggedIn /\ U.blank /\ U.terminated = T.terminated
      /\ U.input = T.input
  <2>1. U \in TunnelType
    BY <1>1, TunnelTypes
  <2> QED BY <1>1, <2>1 DEF TunnelType, LogsIn
<1> HIDE DEF U
<1>4. T.state \notin Past
  BY <1>1, <1>2 DEF Orderly
<1>5. MaySwap(s, t, U)
  <2>1. Orderly(U)
    BY <1>1, <1>2, <1>3, <1>4 DEF Orderly, Of
  <2> QED BY <1>1, <1>2, <1>3, <1>4, <2>1 DEF MaySwap, Fit, Usable, Live
<1>6. OnlyTunnel(s, s', t, U)
  BY <1>1, <1>2, <1>3, SetTunnel DEF OnlyTunnel, Rest
<1> QED BY <1>1, <1>3, <1>5, <1>6, TunnelStepIsOrdered DEF Goes, Moves

\* It does not end while a tunnel is in use.
LEMMA SshEndsGoes ==
    ASSUME Steady, "quit" \notin Mishaps, NEW t \in Waiters, SshEnds(t)
    PROVE  Goes /\ s'.waiter = s.waiter /\ s.tunnel[t].state # "tunneling"
<1> DEFINE T == s.tunnel[t]
           U == Ends(T)
<1>1. /\ Sound(s) /\ s \in StateType /\ T \in TunnelType /\ Fit(s, t) /\ Orderly(T)
      /\ Ordered(s) /\ Left(s) /\ T.ssh = "running" /\ T.state \in States
  BY SteadyHas DEF SshEnds, TunnelType
<1>2. ASSUME T.state # "closing", T.loggedIn
      PROVE  T.delegate = None /\ \A w \in Waiters : ~Waits(w, t)
  <2>1. ~MustEnd(T)
    BY <1>1, <1>2 DEF MustEnd, Orderly
  <2>2. MayEnd(t)
    BY <2>1 DEF SshEnds
  <2> QED BY <1>2, <2>2 DEF MayEnd
<1>3. T.state # "tunneling"
  BY <1>1, <1>2, Names DEF Orderly, Fit, Past
<1>4. T.state = "opening" => ~T.loggedIn
  <2> SUFFICES ASSUME T.state = "opening", T.loggedIn PROVE FALSE
    OBVIOUS
  <2>1. T.delegate = t
    BY <1>1, SteadyHas DEF Begun, Early, AsksUser
  <2> QED BY <1>2, <2>1, Names
<1>5. ASSUME NEW w \in Waiters, s.waiter[w].tunnel = t PROVE ~Live(s, w)
  <2> SUFFICES ASSUME Live(s, w) PROVE FALSE
    OBVIOUS
  <2>1. T.state \in Past /\ s.waiter[w].thread # "none"
    BY <1>5 DEF Live, Usable
  <2>2. T.loggedIn /\ T.state # "closing"
    BY <1>1, <2>1 DEF Orderly, Past
  <2> QED BY <1>2, <1>5, <2>1, <2>2 DEF Waits
<1>6. ASSUME NEW w \in Waiters PROVE ~(Waits(w, t) /\ s.waiter[w].sock = "open")
  <2>1. Attempt(s, w)
    BY SteadyHas
  <2> QED BY <1>5, <2>1 DEF Waits, Attempt
<1>7. /\ s' \in StateType /\ Rest(s, s')
      /\ \A u \in Waiters : /\ s'.tunnel[u] = IF u = t THEN U ELSE s.tunnel[u]
                            /\ s'.waiter[u] = s.waiter[u]
  BY <1>1, <1>6, SshEndsIs
<1>8. OnlyTunnel(s, s', t, U)
  <2>1. s'.waiter = s.waiter
    BY <1>1, <1>7, StateFields
  <2>2. s'.tunnel = [s.tunnel EXCEPT ![t] = U]
    <3> HIDE DEF U
    <3> QED BY <1>1, <1>7, StateFields
  <2> QED BY <1>7, <2>1, <2>2 DEF OnlyTunnel
<1>9. /\ U.state = T.state /\ U.ssh = "ended" /\ U.asks = T.asks
      /\ U.err = Append(T.err, "eof") /\ U.delegate = T.delegate
      /\ U.loggedIn = T.loggedIn /\ U.blank = T.blank /\ U.terminated = T.terminated
      /\ U.input = T.input
  BY <1>1 DEF TunnelType, Ends
<1> HIDE DEF U
<1>10. Orderly(U)
  <2>1. ASSUME Of(T, {"eof"}) PROVE Of(U, {"eof"})
    <3>1. T.err \in Seq(Lines)
      BY <1>1 DEF TunnelType
    <3> QED BY <1>9, <2>1, <3>1 DEF Of
  <2> QED BY <1>1, <1>3, <1>4, <1>9, <2>1 DEF Orderly
<1>11. MaySwap(s, t, U)
  BY <1>1, <1>3, <1>5, <1>9, <1>10 DEF MaySwap, Fit
<1>12. Goes /\ s'.waiter = s.waiter
  BY <1>1, <1>8, <1>9, <1>11, TunnelStepIsOrdered DEF Goes, Moves, OnlyTunnel
<1> QED BY <1>3, <1>12

LEMMA SshTerminatedGoes ==
    ASSUME Steady, NEW t \in Waiters, SshTerminated(t)
    PROVE  Goes
<1> DEFINE T == s.tunnel[t]
           U == [T EXCEPT !.port = NoPort, !.fifo = FALSE]
<1>1. /\ Sound(s) /\ s \in StateType /\ T \in TunnelType /\ Fit(s, t) /\ Orderly(T)
      /\ Ordered(s) /\ Left(s)
  BY SteadyHas
<1>2. /\ s' \in StateType /\ s'.waiter = s.waiter /\ s'.current = s.current
      /\ s'.kept = s.kept /\ s'.connected = s.connected
      /\ \A u \in Waiters : s'.tunnel[u] = IF u = t THEN U ELSE s.tunnel[u]
  BY <1>1, SshTerminatedIs
<1>3. /\ U.state = T.state /\ U.ssh = T.ssh /\ U.asks = T.asks
      /\ U.err = T.err /\ U.delegate = T.delegate
      /\ U.loggedIn = T.loggedIn /\ U.blank = T.blank /\ U.terminated = T.terminated
      /\ U.input = T.input
  BY <1>1 DEF TunnelType
<1> HIDE DEF U
<1>4. ASSUME NEW u \in Waiters
      PROVE  /\ s'.tunnel[u].state = s.tunnel[u].state
             /\ Orderly(s.tunnel[u]) => Orderly(s'.tunnel[u])
             /\ s'.tunnel[u].ssh = s.tunnel[u].ssh /\ s'.tunnel[u].err = s.tunnel[u].err
             /\ s'.tunnel[u].delegate = s.tunnel[u].delegate
  BY <1>2, <1>3 DEF Orderly, Of
<1>5. ASSUME NEW u \in Waiters PROVE Fit(s', u) /\ Attempt(s', u)
  <2>1. Fit(s, u) /\ Attempt(s, u)
    BY SteadyHas
  <2>2. Fit(s', u)
    BY <1>2, <1>4, <2>1 DEF Fit
  <2>3. Attempt(s', u)
    BY <1>1, <1>2, <1>4, <2>1, AttemptStays DEF Usable
  <2> QED BY <2>2, <2>3
<1>6. Keeps(s')
  <2>1. s.kept \in Waiters \cup {None} /\ Keeps(s)
    BY <1>1, StateFields DEF Ordered
  <2> QED BY <1>2, <1>4, <2>1 DEF Keeps
<1>7. Left(s')
  <2>1. \A w \in Waiters : s.waiter[w].tunnel \in Waiters \cup {None}
    BY SteadyHas
  <2> QED BY <1>1, <1>2, <1>4, <2>1 DEF Left, Closing
<1> QED BY <1>4, <1>5, <1>6, <1>7 DEF Goes, Ordered, Moves

LEMMA WaitForDataGoes ==
    ASSUME Steady, NEW w \in Waiters, WaitForData(w)
    PROVE  Goes
<1> DEFINE W == s.waiter[w]
           V(m) == [W EXCEPT !.thread = m]
<1>1. /\ Sound(s) /\ s \in StateType /\ W \in WaiterType /\ Attempt(s, w) /\ Ordered(s)
      /\ Left(s) /\ W.thread = "poll" /\ W.tunnel \in Waiters \cup {None}
  BY SteadyHas DEF WaitForData
<1>2. PICK m \in {"data", "closed"} :
         /\ W.sock = "open" => m = "data"
         /\ W.sock = "hup" => m = "closed"
         /\ s' = [s EXCEPT !.waiter[w].thread = m]
  BY <1>1 DEF WaitForData, WaiterType
<1> DEFINE X == V(m)
<1>3. /\ X \in WaiterType /\ s' = [s EXCEPT !.waiter[w] = X] /\ X.tunnel = W.tunnel
      /\ X.delegate = W.delegate /\ X.sock = W.sock /\ X.thread = m
      /\ X.sheets = W.sheets /\ X.timer = W.timer /\ X.failed = W.failed
      /\ X.told = W.told
  BY <1>1, <1>2 DEF WaiterType, StateType
<1> HIDE DEF V, X
<1>4. OnlyWaiter(s, s', w, X)
  BY <1>1, <1>3, SetWaiter DEF OnlyWaiter, Rest
<1>5. s'.waiter[w] = X /\ s'.tunnel = s.tunnel /\ s'.current = s.current /\ s'.kept = s.kept
  BY <1>1, <1>4, StateFields DEF OnlyWaiter, Rest
<1>6. W.sock \in {"none", "open", "hup"}
  BY <1>1 DEF WaiterType
<1>7. Attempt(s', w)
  BY <1>1, <1>2, <1>3, <1>5, <1>6 DEF Attempt, Live, Closing
<1>8. Ordered(s') /\ Left(s') /\ s'.tunnel = s.tunnel
  BY <1>1, <1>3, <1>4, <1>7, WaiterStepIsOrdered
<1> QED BY <1>8 DEF Goes, Moves

\* ssh could not open a channel.
Complains(T) == [T EXCEPT !.err = Append(@, "channel")]

\* The connection may end with a line of ssh, or without one.
LEMMA HangsUpIs ==
    ASSUME Inv, NEW w \in Waiters, HangsUp(w)
    PROVE  LET W == s.waiter[w]
               V == [W EXCEPT !.sock = "hup"]
               t == W.tunnel
           IN /\ W.thread = "poll" /\ W.sock = "open"
              /\ V \in WaiterType /\ V.tunnel = W.tunnel /\ V.delegate = W.delegate
              /\ V.sock = "hup" /\ V.thread = W.thread /\ V.sheets = W.sheets
              /\ V.timer = W.timer /\ V.failed = W.failed /\ V.told = W.told
              /\ s' \in StateType /\ Rest(s, s') /\ s'.waiter = [s.waiter EXCEPT ![w] = V]
              /\ \/ s'.tunnel = s.tunnel
                 \/ /\ t \in Waiters /\ HasRoom(t)
                    /\ s'.tunnel = [s.tunnel EXCEPT ![t] = Complains(s.tunnel[t])]
<1> DEFINE W == s.waiter[w]
           V == [W EXCEPT !.sock = "hup"]
           d == [s EXCEPT !.waiter[w].sock = "hup"]
           t == W.tunnel
<1>1. s \in StateType /\ W \in WaiterType /\ t \in Waiters \cup {None}
  BY SoundWaiter DEF Inv
<1>2. /\ V \in WaiterType /\ V.tunnel = W.tunnel /\ V.delegate = W.delegate
      /\ V.sock = "hup" /\ V.thread = W.thread /\ V.sheets = W.sheets
      /\ V.timer = W.timer /\ V.failed = W.failed /\ V.told = W.told
  BY <1>1 DEF WaiterType
<1>3. d = [s EXCEPT !.waiter[w] = V]
  BY <1>1 DEF StateType
<1>4. /\ s' = d \/ (HasRoom(t) /\ s' = [d EXCEPT !.tunnel[t].err = Append(@, "channel")])
      /\ W.thread = "poll" /\ W.sock = "open"
  BY DEF HangsUp
<1> HIDE DEF V, d
<1>5. /\ d \in StateType /\ Rest(s, d) /\ d.waiter = [s.waiter EXCEPT ![w] = V]
      /\ d.tunnel = s.tunnel
  BY <1>1, <1>2, <1>3, SetWaiter DEF Rest
<1>6. CASE s' = d
  BY <1>2, <1>4, <1>5, <1>6 DEF V
<1>7. CASE HasRoom(t) /\ s' = [d EXCEPT !.tunnel[t].err = Append(@, "channel")]
  <2>1. CASE t = None
    <3>1. s' = d
      BY <1>5, <1>7, <2>1, Names DEF StateType
    <3> QED BY <1>6, <3>1
  <2>2. CASE t \in Waiters
    <3> DEFINE U == Complains(s.tunnel[t])
    <3>1. U \in TunnelType
      <4>1. \A T \in TunnelType : Append(T.err, "channel") \in Seq(Lines)
        BY DEF TunnelType, Lines
      <4>2. \A T \in TunnelType : Complains(T) \in TunnelType
        BY <4>1 DEF TunnelType, Complains
      <4> QED BY <1>1, <2>2, <4>2, StateFields
    <3>2. s' = [d EXCEPT !.tunnel[t] = U]
      BY <1>5, <1>7 DEF Complains
    <3> HIDE DEF U
    <3>4. /\ s' \in StateType /\ Rest(d, s') /\ s'.waiter = d.waiter
          /\ s'.tunnel = [d.tunnel EXCEPT ![t] = U]
      BY <1>5, <2>2, <3>1, <3>2, SetTunnel DEF Rest
    <3> QED BY <1>2, <1>4, <1>5, <1>7, <2>2, <3>4 DEF V, Rest, U
  <2> QED BY <1>1, <2>1, <2>2
<1> QED BY <1>4, <1>6, <1>7

LEMMA HangsUpGoes ==
    ASSUME Steady, NEW w \in Waiters, HangsUp(w)
    PROVE  Goes
<1> DEFINE W == s.waiter[w]
           V == [W EXCEPT !.sock = "hup"]
           t == W.tunnel
           U == Complains(s.tunnel[t])
<1>1. /\ Sound(s) /\ s \in StateType /\ Attempt(s, w) /\ Ordered(s) /\ Left(s)
      /\ Inv /\ t \in Waiters \cup {None} /\ Keeps(s)
  BY SteadyHas DEF Steady
<1>2. /\ W.thread = "poll" /\ W.sock = "open"
      /\ V \in WaiterType /\ V.tunnel = W.tunnel /\ V.delegate = W.delegate
      /\ V.sock = "hup" /\ V.thread = W.thread /\ V.sheets = W.sheets
      /\ V.timer = W.timer /\ V.failed = W.failed /\ V.told = W.told
      /\ s' \in StateType /\ Rest(s, s') /\ s'.waiter = [s.waiter EXCEPT ![w] = V]
      /\ \/ s'.tunnel = s.tunnel
         \/ t \in Waiters /\ s'.tunnel = [s.tunnel EXCEPT ![t] = U]
  BY <1>1, HangsUpIs
<1> HIDE DEF V
<1>3. Live(s, w)
  BY <1>1, <1>2 DEF Attempt
<1>4. t \in Waiters /\ Usable(s.tunnel[t]) /\ s.current = w
      /\ W.delegate = "set" /\ W.sheets = <<>> /\ ~W.timer
  BY <1>1, <1>3 DEF Live
<1>5. \A u \in Waiters : s'.waiter[u] = IF u = w THEN V ELSE s.waiter[u]
  BY <1>1, <1>2, StateFields
<1>6. /\ s.tunnel[t] \in TunnelType /\ Orderly(s.tunnel[t])
  BY <1>4, SteadyHas
<1>7. /\ U.state = s.tunnel[t].state /\ U.ssh = "running" /\ U.asks = s.tunnel[t].asks
      /\ U.err = <<"channel">> /\ U.delegate = s.tunnel[t].delegate
      /\ U.loggedIn = s.tunnel[t].loggedIn /\ U.blank = s.tunnel[t].blank
      /\ U.terminated = s.tunnel[t].terminated /\ U.input = s.tunnel[t].input
  <2>1. U.err = Append(<<>>, "channel")
    BY <1>4, <1>6 DEF Complains, Usable, TunnelType
  <2> QED BY <1>4, <1>6, <2>1 DEF Complains, Usable, TunnelType
<1> HIDE DEF U
<1>8. Orderly(U)
  <2>1. Of(U, {"channel"})
    BY <1>7 DEF Of
  <2> QED BY <1>4, <1>6, <1>7, <2>1 DEF Orderly, Of, Usable, Past, Early, Lines
<1>9. ASSUME NEW u \in Waiters
      PROVE  /\ s'.tunnel[u].state = s.tunnel[u].state
             /\ s'.tunnel[u].ssh = s.tunnel[u].ssh
             /\ s'.tunnel[u].delegate = s.tunnel[u].delegate
             /\ u # t => s'.tunnel[u] = s.tunnel[u]
             /\ Orderly(s.tunnel[u]) => Orderly(s'.tunnel[u])
  <2>1. CASE s'.tunnel = s.tunnel
    BY <2>1
  <2>2. CASE s'.tunnel = [s.tunnel EXCEPT ![t] = U]
    <3>1. s'.tunnel[u] = IF u = t THEN U ELSE s.tunnel[u]
      BY <1>1, <2>2, StateFields
    <3> QED BY <1>4, <1>7, <1>8, <3>1 DEF Usable
  <2> QED BY <1>2, <2>1, <2>2
<1>10. ASSUME NEW u \in Waiters PROVE Fit(s', u)
  <2>1. Fit(s, u)
    BY SteadyHas
  <2> QED BY <1>2, <1>5, <1>9, <2>1 DEF Fit
<1>11. ASSUME NEW u \in Waiters PROVE Attempt(s', u)
  <2>1. CASE u = w
    <3>1. s'.current = w /\ s'.kept = s.kept /\ s'.waiter[w] = V
      BY <1>2, <1>4, <1>5 DEF Rest
    <3> QED BY <1>1, <1>2, <1>4, <2>1, <3>1 DEF Attempt
  <2>2. CASE u # w
    <3>1. Attempt(s, u) /\ s'.waiter[u] = s.waiter[u]
      BY <1>5, <2>2, SteadyHas
    <3>2. s.waiter[u].sock # "open"
      BY <1>4, <2>2, <3>1 DEF Attempt, Live
    <3>3. s'.current = s.current /\ s'.kept = s.kept
      BY <1>2 DEF Rest
    <3>4. \A v \in Waiters : s.tunnel[v].state = "closing" => s'.tunnel[v].state = "closing"
      BY <1>9
    <3> QED BY <1>1, <3>1, <3>2, <3>3, <3>4, AttemptStays
  <2> QED BY <2>1, <2>2
<1>12. Keeps(s')
  BY <1>1, <1>2, <1>4, Names DEF Keeps, Rest
<1>13. Left(s')
  <2> SUFFICES ASSUME NEW u \in Waiters, s'.current # u
               PROVE  Closing(s', s'.waiter[u].tunnel)
    BY DEF Left
  <2>1. Closing(s, s.waiter[u].tunnel) /\ s.waiter[u].tunnel \in Waiters \cup {None}
    BY <1>1, <1>2, SteadyHas DEF Left, Rest
  <2>2. s'.waiter[u].tunnel = s.waiter[u].tunnel
    BY <1>2, <1>5
  <2> QED BY <1>9, <2>1, <2>2 DEF Closing
<1> QED BY <1>9, <1>10, <1>11, <1>12, <1>13 DEF Goes, Ordered, Moves

LEMMA WithoutLines ==
    ASSUME NEW T \in TunnelType, Of(T, Lines \ {"eof"}), Of(T, {"eof"})
    PROVE  T.err = <<>>
<1> DEFINE q == T.err
<1>1. q \in Seq(Lines) /\ \A i \in DOMAIN q : FALSE
  BY DEF TunnelType, Of
<1> HIDE DEF q
<1>2. Len(q) = 0
  <2>1. Len(q) \in Nat /\ DOMAIN q = 1..Len(q)
    BY <1>1
  <2> QED BY <1>1, <2>1
<1> QED BY <1>1, <1>2 DEF q

\* The attempt goes on as soon as ssh has logged in.
LEMMA ReadStdoutIs ==
    ASSUME Steady, NEW t \in Waiters, ReadStdout(t), s.tunnel[t].state = "opening"
    PROVE  LET N == [[s.tunnel[t] EXCEPT !.blank = FALSE] EXCEPT
                       !.state = "tunneling", !.fifo = FALSE]
               W == s.waiter[t]
           IN /\ s.tunnel[t].ssh = "running" /\ s.tunnel[t].err = <<>>
              /\ s.tunnel[t].loggedIn /\ s.current = t
              /\ AsksUser(s.tunnel[t], W, t) /\ W.sheets = <<>>
              /\ \E n : /\ OnlyTunnel(s, n, t, N) /\ MaySwap(s, t, N)
                        /\ \/ OnlyWaiter(n, s', t, [W EXCEPT !.sock = "open", !.thread = "poll"])
                           \/ OnlyWaiter(n, s', t, Shown(W))
<1> DEFINE T == s.tunnel[t]
           W == s.waiter[t]
           B == [T EXCEPT !.blank = FALSE]
           N == [B EXCEPT !.state = "tunneling", !.fifo = FALSE]
           d == [s EXCEPT !.tunnel[t].blank = FALSE]
           n == [d EXCEPT !.tunnel[t].state = "tunneling", !.tunnel[t].fifo = FALSE]
<1>1. /\ s \in StateType /\ T \in TunnelType /\ W \in WaiterType /\ Orderly(T)
      /\ T.ssh # "none" /\ T.blank /\ Begun(s, t) /\ AsksUser(T, W, t) /\ s.current = t
  <2>1. T.ssh # "none" /\ T.blank /\ Begun(s, t)
    BY DEF ReadStdout, Reads, Begun, Early
  <2> QED BY <2>1, SteadyHas
<1>2. T.loggedIn /\ T.ssh = "running" /\ T.asks \in {"new", "no"}
  BY <1>1 DEF Orderly
<1>3. T.err = <<>>
  BY <1>1, <1>2, WithoutLines DEF Orderly, Early
<1>4. T.delegate = t /\ W.tunnel = t /\ W.sheets = <<>>
  BY <1>1 DEF AsksUser, Waiting
<1>5. /\ N \in TunnelType /\ N.state = "tunneling" /\ N.ssh = T.ssh
      /\ N.asks = T.asks /\ N.err = T.err /\ N.delegate = T.delegate
      /\ N.loggedIn = T.loggedIn /\ ~N.blank /\ N.terminated = T.terminated
      /\ N.input = T.input
  <2>1. "tunneling" \in States
    BY DEF States
  <2> QED BY <1>1, <2>1 DEF TunnelType
<1>6. n = [s EXCEPT !.tunnel[t] = N]
  BY <1>1 DEF StateType
<1>7. s' = Establish(n, t) \/ s' = Error(n, t)
  BY <1>4 DEF ReadStdout
<1> HIDE DEF N, n
<1>8. OnlyTunnel(s, n, t, N)
  BY <1>1, <1>5, <1>6, SetTunnel DEF OnlyTunnel, Rest
<1>9. n \in StateType /\ n.waiter[t] = W
  BY <1>8 DEF OnlyTunnel
<1>10. MaySwap(s, t, N)
  <2>1. Orderly(N)
    BY <1>1, <1>2, <1>3, <1>5 DEF Orderly, Of, Early
  <2>2. ~Usable(T)
    BY DEF Usable, Past
  <2>3. \A w \in Waiters : Live(s, w) => s.waiter[w].tunnel # t
    BY <2>2 DEF Live
  <2> QED BY <1>2, <1>4, <1>5, <2>1, <2>2, <2>3 DEF MaySwap
<1>11. \/ OnlyWaiter(n, s', t, [W EXCEPT !.sock = "open", !.thread = "poll"])
       \/ OnlyWaiter(n, s', t, Shown(W))
  BY <1>7, <1>9, EstablishIs, ErrorIs
<1> QED BY <1>1, <1>2, <1>3, <1>4, <1>8, <1>10, <1>11 DEF N

LEMMA ReadStdoutGoes ==
    ASSUME Steady, NEW t \in Waiters, ReadStdout(t)
    PROVE  Goes
<1> DEFINE T == s.tunnel[t]
           W == s.waiter[t]
           B == [T EXCEPT !.blank = FALSE]
           N == [B EXCEPT !.state = "tunneling", !.fifo = FALSE]
<1>1. /\ s \in StateType /\ T \in TunnelType /\ Fit(s, t) /\ Orderly(T)
      /\ Ordered(s) /\ Left(s) /\ W \in WaiterType /\ Attempt(s, t)
  BY SteadyHas
<1>2. CASE T.state # "opening"
  <2>1. s' = [s EXCEPT !.tunnel[t] = B]
    BY <1>1, <1>2 DEF ReadStdout, StateType
  <2>2. /\ B \in TunnelType /\ B.state = T.state /\ B.ssh = T.ssh /\ B.asks = T.asks
        /\ B.err = T.err /\ B.delegate = T.delegate
        /\ B.loggedIn = T.loggedIn /\ ~B.blank /\ B.terminated = T.terminated
        /\ B.input = T.input
    BY <1>1 DEF TunnelType
  <2> HIDE DEF B
  <2>3. MaySwap(s, t, B)
    <3>1. Orderly(B)
      BY <1>1, <2>2 DEF Orderly, Of
    <3> QED BY <1>1, <2>2, <3>1 DEF MaySwap, Fit, Usable, Live
  <2>4. OnlyTunnel(s, s', t, B)
    BY <1>1, <2>1, <2>2, SetTunnel DEF OnlyTunnel, Rest
  <2> QED BY <1>1, <2>2, <2>3, <2>4, TunnelStepIsOrdered DEF Goes, Moves
<1>3. CASE T.state = "opening"
  <2>1. /\ s.tunnel[t].ssh = "running" /\ s.tunnel[t].err = <<>>
        /\ s.current = t /\ AsksUser(T, W, t) /\ W.sheets = <<>>
        /\ \E n : /\ OnlyTunnel(s, n, t, N) /\ MaySwap(s, t, N)
                  /\ \/ OnlyWaiter(n, s', t, [W EXCEPT !.sock = "open", !.thread = "poll"])
                     \/ OnlyWaiter(n, s', t, Shown(W))
    BY <1>3, ReadStdoutIs
  <2>2. PICK n : /\ OnlyTunnel(s, n, t, N) /\ MaySwap(s, t, N)
                 /\ \/ OnlyWaiter(n, s', t, [W EXCEPT !.sock = "open", !.thread = "poll"])
                    \/ OnlyWaiter(n, s', t, Shown(W))
    BY <2>1
  <2>3. N.state = "tunneling" /\ N.ssh = "running" /\ N.err = <<>>
    BY <1>1, <2>1 DEF TunnelType
  <2> HIDE DEF N
  <2>4. /\ Ordered(n) /\ Left(n) /\ n \in StateType
        /\ \A u \in Waiters : n.tunnel[u] = IF u = t THEN N ELSE s.tunnel[u]
    <3>1. OnlyTunnel(s, n, t, N) /\ MaySwap(s, t, N)
      BY <2>2
    <3>2. n \in StateType
      BY <3>1 DEF OnlyTunnel
    <3>3. /\ Ordered(n) /\ (Left(s) => Left(n))
          /\ \A u \in Waiters : n.tunnel[u] = IF u = t THEN N ELSE s.tunnel[u]
      BY <1>1, <3>1, TunnelStepIsOrdered
    <3> QED BY <1>1, <3>2, <3>3
  <2>5. n.current = t /\ n.kept = s.kept /\ n.waiter = s.waiter
    BY <2>1, <2>2 DEF OnlyTunnel, Rest
  <2>6. /\ W.tunnel = t /\ W.delegate = "set" /\ W.told = <<>> /\ W.thread = "none"
        /\ W.sock = "none" /\ ~W.timer /\ ~W.failed
    BY <2>1 DEF AsksUser, Waiting
  <2>7. Usable(n.tunnel[t])
    BY <2>3, <2>4 DEF Usable, Past
  <2>8. ASSUME NEW V, OnlyWaiter(n, s', t, V), V.tunnel = t, V.delegate = "set",
               V.told = <<>>, ~V.timer, ~V.failed,
               \/ V.sock = "open" /\ V.thread = "poll" /\ V.sheets = <<>>
               \/ V.sock = "none" /\ V.thread = "none" /\ V.sheets # <<>>
        PROVE  Ordered(s') /\ Left(s') /\ s'.tunnel = n.tunnel
    <3>1. /\ s'.waiter[t] = V /\ s'.current = t /\ s'.kept = s.kept /\ s'.tunnel = n.tunnel
      BY <2>4, <2>5, <2>8, StateFields DEF OnlyWaiter, Rest
    <3>2. s.kept \in {None, t}
      BY <1>1, <2>1, <2>6 DEF Attempt
    <3>3. V.sock = "open" => Live(s', t)
      BY <2>7, <2>8, <3>1, Names DEF Live
    <3>4. Attempt(s', t)
      BY <2>8, <3>1, <3>2, <3>3 DEF Attempt
    <3> QED BY <2>4, <2>5, <2>6, <2>8, <3>4, WaiterStepIsOrdered
  <2>9. Ordered(s') /\ Left(s') /\ s'.tunnel = n.tunnel
    <3>1. CASE OnlyWaiter(n, s', t, [W EXCEPT !.sock = "open", !.thread = "poll"])
      <4> DEFINE V == [W EXCEPT !.sock = "open", !.thread = "poll"]
      <4>1. /\ V.tunnel = t /\ V.delegate = "set" /\ V.told = <<>> /\ ~V.timer /\ ~V.failed
            /\ V.sock = "open" /\ V.thread = "poll" /\ V.sheets = <<>>
        BY <1>1, <2>1, <2>6 DEF WaiterType
      <4> HIDE DEF V
      <4> QED BY <2>8, <3>1, <4>1 DEF V
    <3>2. CASE OnlyWaiter(n, s', t, Shown(W))
      <4> DEFINE V == Shown(W)
      <4>1. /\ V.tunnel = t /\ V.delegate = "set" /\ V.told = <<>> /\ ~V.timer /\ ~V.failed
            /\ V.sock = "none" /\ V.thread = "none" /\ V.sheets # <<>>
        <5>0. V.sheets = IF W.delegate = "set" THEN Append(W.sheets, "error") ELSE W.sheets
          BY <1>1, ShownIs
        <5>1. V.sheets = Append(<<>>, "error")
          <6> HIDE DEF V
          <6> QED BY <2>1, <2>6, <5>0
        <5>2. Append(<<>>, "error") # <<>>
          OBVIOUS
        <5>3. V.sheets # <<>>
          BY <5>1, <5>2
        <5> HIDE DEF V
        <5>4. /\ V.tunnel = W.tunnel /\ V.delegate = W.delegate /\ V.told = W.told
              /\ V.timer = W.timer /\ V.failed = W.failed /\ V.sock = W.sock
              /\ V.thread = W.thread
          BY <1>1, ShownIs DEF V
        <5> QED BY <2>6, <5>3, <5>4
      <4> HIDE DEF V
      <4> QED BY <2>8, <3>2, <4>1 DEF V
    <3> QED BY <2>2, <3>1, <3>2
  <2>10. \A u \in Waiters : Moves(s.tunnel[u], s'.tunnel[u])
    BY <1>3, <2>3, <2>4, <2>9 DEF Moves, Diagram
  <2> QED BY <2>9, <2>10 DEF Goes
<1> QED BY <1>2, <1>3

-----------------------------------------------------------------------------

LEMMA SettledGoes ==
    ASSUME NEW d \in StateType, Ordered(d), Left(d) \/ (d.current = None /\ ~d.connected),
           s \in StateType, s' = Settled(d),
           \A t \in Waiters : \/ d.tunnel[t].state = "closing"
                              \/ Moves(s.tunnel[t], d.tunnel[t])
    PROVE  Goes
<1>1. /\ Ordered(s') /\ Left(s')
      /\ \A t \in Waiters : s'.tunnel[t] = d.tunnel[t] \/ s'.tunnel[t] = Close(d.tunnel[t])
  BY SettledIsOrdered
<1>2. ASSUME NEW t \in Waiters PROVE Moves(s.tunnel[t], s'.tunnel[t])
  <2>1. s.tunnel[t] \in TunnelType /\ d.tunnel[t] \in TunnelType
    BY Typed
  <2>2. s.tunnel[t].state \in States
    BY <2>1 DEF TunnelType
  <2>3. \/ s'.tunnel[t].state = "closing"
        \/ s'.tunnel[t] = d.tunnel[t] /\ Moves(s.tunnel[t], d.tunnel[t])
    BY <1>1, <2>1, CloseIs
  <2>4. s'.tunnel[t].state = "closing" => Moves(s.tunnel[t], s'.tunnel[t])
    BY <2>2 DEF Moves, Diagram
  <2> QED BY <2>3, <2>4
<1> QED BY <1>1, <1>2 DEF Goes

LEMMA ServerClosedGoes ==
    ASSUME Steady, NEW w \in Waiters, ServerClosed(w)
    PROVE  Goes
<1> DEFINE W == s.waiter[w]
           V == [W EXCEPT !.thread = "none", !.timer = ~W.failed]
           d == [s EXCEPT !.waiter[w] = V]
<1>1. /\ s \in StateType /\ W \in WaiterType /\ Attempt(s, w) /\ Ordered(s) /\ Left(s)
      /\ W.thread = "closed" /\ W.tunnel \in Waiters \cup {None}
  BY SteadyHas DEF ServerClosed
<1>2. /\ V \in WaiterType /\ V.tunnel = W.tunnel /\ V.delegate = W.delegate
      /\ V.sock = W.sock /\ V.thread = "none" /\ V.sheets = W.sheets
      /\ V.timer = ~W.failed /\ V.failed = W.failed /\ W.failed \in BOOLEAN
  BY <1>1 DEF WaiterType
<1>3. s' = Settled(d)
  BY <1>1 DEF ServerClosed, StateType
<1> HIDE DEF V
<1>4. OnlyWaiter(s, d, w, V)
  BY <1>1, <1>2, SetWaiter DEF OnlyWaiter, Rest
<1> HIDE DEF d
<1>5. /\ d \in StateType /\ d.waiter[w] = V /\ d.tunnel = s.tunnel /\ d.current = s.current
      /\ d.kept = s.kept
  BY <1>1, <1>4, StateFields DEF OnlyWaiter, Rest
<1>6. Attempt(d, w)
  BY <1>1, <1>2, <1>5 DEF Attempt, Live, Closing
<1>7. Ordered(d) /\ Left(d)
  BY <1>1, <1>2, <1>4, <1>6, WaiterStepIsOrdered
<1> QED BY <1>1, <1>3, <1>5, <1>7, SettledGoes DEF Moves

LEMMA ServerClosedNoReasonGoes ==
    ASSUME Steady, NEW w \in Waiters, ServerClosedNoReason(w)
    PROVE  Goes
<1> DEFINE W == s.waiter[w]
           V == [W EXCEPT !.timer = FALSE]
           d == [s EXCEPT !.waiter[w] = V]
           e == Error(d, w)
           X == Shown(V)
           t == W.tunnel
           f == CloseTunnel(e, t)
<1>1. /\ s \in StateType /\ W \in WaiterType /\ Attempt(s, w) /\ Ordered(s) /\ Left(s)
      /\ W.timer /\ t \in Waiters \cup {None} /\ Keeps(s)
  BY SteadyHas DEF ServerClosedNoReason
<1>2. /\ V \in WaiterType /\ V.tunnel = W.tunnel /\ V.delegate = W.delegate
      /\ V.sock = W.sock /\ V.thread = W.thread /\ V.sheets = W.sheets
      /\ ~V.timer /\ V.failed = W.failed /\ V.told = W.told
  BY <1>1 DEF WaiterType
<1>3. s' = Settled(f)
  BY <1>1 DEF ServerClosedNoReason, StateType
<1> HIDE DEF V
<1>4. OnlyWaiter(s, d, w, V)
  BY <1>1, <1>2, SetWaiter DEF OnlyWaiter, Rest
<1> HIDE DEF d
<1>5. d \in StateType /\ d.waiter[w] = V
  BY <1>1, <1>4, StateFields DEF OnlyWaiter
<1>6. /\ X.tunnel = t /\ X.delegate = W.delegate /\ X.sock = W.sock
      /\ X.thread = W.thread /\ ~X.timer /\ X.failed = W.failed
      /\ W.delegate # "set" => X.sheets = W.sheets
  BY <1>2, ShownIs
<1>7. OnlyWaiter(d, e, w, X)
  BY <1>5, ErrorIs
<1> HIDE DEF e, X
<1>8. OnlyWaiter(s, e, w, X)
  <2>1. [d.waiter EXCEPT ![w] = X] = [s.waiter EXCEPT ![w] = X]
    BY <1>1, <1>4, StateFields DEF OnlyWaiter
  <2> QED BY <1>4, <1>7, <2>1 DEF OnlyWaiter, Rest
<1>9. /\ e \in StateType /\ e.waiter[w] = X /\ e.tunnel = s.tunnel
      /\ e.current = s.current /\ e.kept = s.kept /\ e.connected = s.connected
      /\ \A u \in Waiters \ {w} : e.waiter[u] = s.waiter[u]
  BY <1>1, <1>8, StateFields DEF OnlyWaiter, Rest
<1>10. W.thread = "none" /\ W.sock # "open" /\ (W.delegate = "set" <=> s.current = w)
  BY <1>1 DEF Attempt, Live
<1>11. Attempt(e, w)
  BY <1>1, <1>6, <1>9, <1>10 DEF Attempt
<1>12. Ordered(e) /\ Left(e)
  BY <1>1, <1>6, <1>8, <1>11, WaiterStepIsOrdered
<1>13. CASE t = None
  <2>1. f = e
    BY <1>13 DEF CloseTunnel
  <2> QED BY <1>1, <1>3, <1>9, <1>12, <2>1, SettledGoes DEF Moves
<1>14. CASE t \in Waiters
  <2> DEFINE T == s.tunnel[t]
             U == Close(T)
  <2>1. T \in TunnelType /\ Orderly(T)
    BY <1>14, SteadyHas
  <2>2. U \in TunnelType /\ U.state = "closing" /\ U.delegate = None /\ Orderly(U)
    BY <2>1, CloseIs
  <2>3. f = [e EXCEPT !.tunnel[t] = U]
    BY <1>9, <1>14, Names DEF CloseTunnel
  <2> HIDE DEF U
  <2>4. OnlyTunnel(e, f, t, U)
    BY <1>9, <1>14, <2>2, <2>3, SetTunnel DEF OnlyTunnel, Rest
  <2>5. MaySwap(e, t, U)
    <3>1. CASE W.delegate = "set"
      <4>1. s.current = w /\ ~s.connected
        BY <1>1, <1>10, <3>1, Names DEF Keeps
      <4>2. \A v \in Waiters : ~Live(e, v)
        BY <1>9, <1>10, <4>1, <1>6 DEF Live
      <4> QED BY <1>9, <2>2, <4>1, <4>2, Names DEF MaySwap
    <3>2. CASE W.delegate # "set"
      <4>1. T.state = "closing"
        BY <1>1, <1>10, <1>14, <3>2, Names DEF Left, Closing
      <4>2. ~Usable(T)
        BY <4>1 DEF Usable, Past
      <4>3. \A v \in Waiters : Live(e, v) => e.waiter[v].tunnel # t
        BY <1>9, <4>2 DEF Live
      <4>4. T.ssh = U.ssh
        BY <2>1, CloseIs DEF U
      <4> QED BY <1>9, <2>2, <4>1, <4>2, <4>3, <4>4, Names DEF MaySwap
    <3> QED BY <3>1, <3>2
  <2> HIDE DEF f, t
  <2>6. /\ Ordered(f) /\ (Left(e) => Left(f))
        /\ \A u \in Waiters : f.tunnel[u] = IF u = t THEN U ELSE e.tunnel[u]
    BY <1>9, <1>12, <1>14, <2>4, <2>5, TunnelStepIsOrdered
  <2>7. f \in StateType
    BY <2>4 DEF OnlyTunnel
  <2>8. \A u \in Waiters : f.tunnel[u].state = "closing" \/ Moves(s.tunnel[u], f.tunnel[u])
    BY <1>9, <2>2, <2>6 DEF Moves
  <2> QED BY <1>1, <1>3, <1>12, <2>6, <2>7, <2>8, SettledGoes
<1> QED BY <1>1, <1>13, <1>14

\* The session takes the tunnel over.
LEMMA FinishConnectionGoes ==
    ASSUME Steady, NEW w \in Waiters, FinishConnection(w)
    PROVE  Goes
<1> DEFINE W == s.waiter[w]
           t == W.tunnel
           V == [W EXCEPT !.thread = "none"]
           d == [s EXCEPT !.waiter[w] = V]
<1>1. /\ s \in StateType /\ W \in WaiterType /\ Attempt(s, w) /\ Ordered(s) /\ Left(s)
      /\ W.thread = "data" /\ t \in Waiters \cup {None} /\ Keeps(s)
      /\ s.kept \in Waiters \cup {None}
  BY SteadyHas, StateFields DEF FinishConnection
<1>2. CASE W.delegate # "set"
  <2>1. /\ V \in WaiterType /\ V.tunnel = W.tunnel /\ V.delegate = W.delegate
        /\ V.sock = W.sock /\ V.thread = "none" /\ V.sheets = W.sheets
        /\ V.timer = W.timer /\ V.failed = W.failed
    BY <1>1 DEF WaiterType
  <2>2. s' = Settled(d)
    <3>1. d = [s EXCEPT !.waiter[w].thread = "none"] /\ d.waiter[w] = V
      BY <1>1 DEF StateType
    <3> QED BY <1>2, <2>1, <3>1 DEF FinishConnection
  <2> HIDE DEF V
  <2>3. OnlyWaiter(s, d, w, V)
    BY <1>1, <2>1, SetWaiter DEF OnlyWaiter, Rest
  <2> HIDE DEF d
  <2>4. /\ d \in StateType /\ d.waiter[w] = V /\ d.tunnel = s.tunnel
        /\ d.current = s.current /\ d.kept = s.kept
    BY <1>1, <2>3, StateFields DEF OnlyWaiter, Rest
  <2>5. Attempt(d, w)
    BY <1>1, <1>2, <2>1, <2>4 DEF Attempt, Live, Closing
  <2>6. Ordered(d) /\ Left(d)
    BY <1>1, <2>1, <2>3, <2>5, WaiterStepIsOrdered
  <2> QED BY <1>1, <2>2, <2>4, <2>6, SettledGoes DEF Moves
<1>3. CASE W.delegate = "set"
  <2>1. /\ Live(s, w) /\ s.current = w /\ t \in Waiters /\ Usable(s.tunnel[t])
        /\ W.sheets = <<>> /\ ~W.timer /\ s.kept \in {None, t} /\ ~s.connected
    BY <1>1, <1>3, Names DEF Attempt, Live, Keeps
  <2> DEFINE T == s.tunnel[t]
             U == SshTunnelConnected(T)
  <2>2. PICK e \in StateType :
           /\ s' = Settled(e) /\ e.current = None /\ e.connected = TRUE /\ e.kept = t
           /\ \A u \in Waiters : /\ u # w => e.waiter[u] = s.waiter[u]
                                 /\ u # t => e.tunnel[u] = s.tunnel[u]
                                 /\ u = t => e.tunnel[u] = U
           /\ e.waiter[w].delegate = "set" /\ e.waiter[w].tunnel = None
           /\ e.waiter[w].thread = "none" /\ e.waiter[w].sock = "none"
           /\ e.waiter[w].sheets = W.sheets /\ e.waiter[w].timer = W.timer
    <3>1. PICK e \in StateType :
             /\ s' = Settled(e) /\ e.portUsed = s.portUsed /\ e.current = None
             /\ e.connected = TRUE /\ e.kept = IF s.kept = None THEN t ELSE s.kept
             /\ \A u \in Waiters :
                   /\ u # w => e.waiter[u] = s.waiter[u]
                   /\ u # t => e.tunnel[u] = s.tunnel[u]
                   /\ u = t => e.tunnel[u] = SshTunnelConnected(s.tunnel[u])
             /\ e.waiter[w].delegate = "set" /\ e.waiter[w].tunnel = None
             /\ e.waiter[w].thread = "none" /\ e.waiter[w].sock = "none"
             /\ e.waiter[w].told = Append(W.told, "succeeded")
             /\ e.waiter[w].sheets = W.sheets /\ e.waiter[w].timer = W.timer
             /\ e.waiter[w].failed = W.failed
      BY <1>1, <1>3, FinishConnectionIs
    <3>2. e.kept = t
      BY <2>1, <3>1
    <3>3. \A u \in Waiters : u = t => e.tunnel[u] = U
      BY <3>1
    <3> HIDE DEF t, U, W
    <3> QED BY <3>1, <3>2, <3>3
  <2>3. T \in TunnelType /\ Orderly(T) /\ T.state \in Past /\ T.ssh = "running" /\ T.err = <<>>
    BY <2>1, SteadyHas DEF Usable
  <2>4. /\ U.state = "open" /\ U.delegate = None /\ U.ssh = T.ssh /\ U.err = T.err
        /\ U.asks = T.asks /\ U.loggedIn = T.loggedIn /\ U.blank = T.blank
        /\ U.terminated = T.terminated /\ U.input = T.input
    BY <2>3 DEF TunnelType, SshTunnelConnected
  <2> HIDE DEF U
  <2>5. Orderly(U) /\ Moves(T, U) /\ Usable(U) /\ U.state # "closing"
    BY <2>3, <2>4 DEF Orderly, Of, Early, Past, Moves, Diagram, Usable
  <2> HIDE DEF T, t
  <2>6. \A u \in Waiters : s.tunnel[u].state = "closing" => e.tunnel[u].state = "closing"
    BY <2>2, <2>3, <2>5 DEF Past, T
  <2>7. ASSUME NEW u \in Waiters PROVE Fit(e, u)
    <3>1. Fit(s, u)
      BY SteadyHas
    <3>2. CASE u = t
      BY <2>1, <2>2, <2>4, <2>5, <3>2, Names DEF Fit
    <3>3. CASE u # t
      <4>1. e.tunnel[u] = s.tunnel[u]
        BY <2>2, <3>3
      <4>2. ASSUME e.tunnel[u].delegate = u, e.tunnel[u].state # "closing"
            PROVE  e.waiter[u].tunnel = u
        <5>1. s.waiter[u].tunnel = u
          BY <3>1, <4>1, <4>2 DEF Fit
        <5>2. u # w
          BY <3>3, <5>1 DEF t
        <5> QED BY <2>2, <5>1, <5>2
      <4> QED BY <3>1, <4>1, <4>2 DEF Fit
    <3> QED BY <3>2, <3>3
  <2>8. ASSUME NEW u \in Waiters PROVE Attempt(e, u)
    <3>1. CASE u = w
      BY <2>1, <2>2, <3>1, Names DEF Attempt, Closing
    <3>2. CASE u # w
      <4>1. Attempt(s, u) /\ e.waiter[u] = s.waiter[u] /\ s.current # u /\ e.current = None
        BY <2>1, <2>2, <3>2, SteadyHas
      <4>2. s.waiter[u].sock # "open"
        BY <4>1 DEF Attempt, Live
      <4> QED BY <1>1, <2>6, <4>1, <4>2, AttemptStays
    <3> QED BY <3>1, <3>2
  <2>9. Keeps(e)
    BY <2>1, <2>2, <2>3, <2>4 DEF Keeps
  <2>10. Left(e)
    <3> SUFFICES ASSUME NEW u \in Waiters PROVE Closing(e, e.waiter[u].tunnel)
      BY DEF Left
    <3>1. CASE u = w
      BY <2>2, <3>1 DEF Closing
    <3>2. CASE u # w
      <4>1. /\ Closing(s, s.waiter[u].tunnel) /\ s.waiter[u].tunnel \in Waiters \cup {None}
            /\ e.waiter[u] = s.waiter[u]
        BY <1>1, <2>1, <2>2, <3>2, SteadyHas DEF Left
      <4> QED BY <2>6, <4>1 DEF Closing
    <3> QED BY <3>1, <3>2
  <2>11. \A u \in Waiters : Moves(s.tunnel[u], e.tunnel[u])
    BY <2>2, <2>5 DEF Moves, T
  <2>12. Ordered(e)
    BY <2>7, <2>8, <2>9 DEF Ordered
  <2> QED BY <1>1, <2>2, <2>10, <2>11, <2>12, SettledGoes
<1> QED BY <1>2, <1>3

-----------------------------------------------------------------------------

\* A handler that ends what the delegate does.
Stops(f, w) ==
    /\ f \in StateType /\ f.current = None /\ f.kept = None
    /\ f.connected = s.connected /\ s.current \in {w, None}
    /\ \A u \in Waiters \ {w} : f.waiter[u] = s.waiter[u]
    /\ f.waiter[w].tunnel = s.waiter[w].tunnel
    /\ \A u \in Waiters : \/ f.tunnel[u] = s.tunnel[u]
                          \/ f.tunnel[u].state = "closing" /\ Orderly(f.tunnel[u])

LEMMA StopsGoes ==
    ASSUME Steady, NEW f, NEW w \in Waiters, Stops(f, w), Attempt(f, w),
           s' = Settled(f)
    PROVE  Goes
<1>1. s \in StateType /\ Ordered(s) /\ Left(s) /\ Keeps(s) /\ f \in StateType
  BY SteadyHas DEF Stops
<1>2. \A u \in Waiters : s.tunnel[u].state = "closing" => f.tunnel[u].state = "closing"
  BY DEF Stops
<1>3. ASSUME NEW u \in Waiters
      PROVE  /\ f.waiter[u].tunnel = s.waiter[u].tunnel
             /\ s.waiter[u].tunnel \in Waiters \cup {None}
  BY SteadyHas DEF Stops
<1>4. ASSUME NEW u \in Waiters PROVE Fit(f, u)
  BY <1>3, SteadyHas DEF Stops, Fit
<1>5. ASSUME NEW u \in Waiters PROVE Attempt(f, u)
  <2>1. CASE u = w
    BY <2>1
  <2>2. CASE u # w
    <3>1. Attempt(s, u) /\ f.waiter[u] = s.waiter[u] /\ s.current # u /\ f.current = None
      BY <2>2, SteadyHas, Names DEF Stops
    <3>2. s.waiter[u].sock # "open"
      BY <3>1 DEF Attempt, Live
    <3> QED BY <1>1, <1>2, <3>1, <3>2, AttemptStays
  <2> QED BY <2>1, <2>2
<1>6. Keeps(f)
  BY DEF Keeps, Stops
<1>7. Left(f) \/ (f.current = None /\ ~f.connected)
  <2>1. CASE s.current = w
    BY <1>1, <2>1, Names DEF Keeps, Stops
  <2>2. CASE s.current = None
    <3> SUFFICES ASSUME NEW u \in Waiters PROVE Closing(f, f.waiter[u].tunnel)
      BY DEF Left
    <3>1. Closing(s, s.waiter[u].tunnel)
      BY <1>1, <2>2, Names DEF Left
    <3> QED BY <1>2, <1>3, <3>1 DEF Closing
  <2> QED BY <2>1, <2>2 DEF Stops
<1>8. Ordered(f)
  BY <1>4, <1>5, <1>6 DEF Ordered
<1>9. \A u \in Waiters : f.tunnel[u].state = "closing" \/ Moves(s.tunnel[u], f.tunnel[u])
  BY DEF Stops, Moves
<1> QED BY <1>1, <1>7, <1>8, <1>9, SettledGoes

\* A sheet ended, and the tunnel was closed or not.
SheetEnded(d, w) ==
    /\ d \in StateType /\ Rest(s, d) /\ s.waiter[w].sheets # <<>>
    /\ d.waiter[w] = [s.waiter[w] EXCEPT !.sheets = Tail(@)]
    /\ \A u \in Waiters \ {w} : d.waiter[u] = s.waiter[u]
    /\ \A u \in Waiters : \/ d.tunnel[u] = s.tunnel[u]
                          \/ d.tunnel[u].state = "closing" /\ Orderly(d.tunnel[u])

\* The delegate is told that the attempt failed, once its sheet has ended.
LEMMA SheetFailsGoes ==
    ASSUME Steady, NEW w \in Waiters, NEW d, SheetEnded(d, w),
           s' = Settled(ConnectionFailed(d, w))
    PROVE  Goes
<1> DEFINE f == ConnectionFailed(d, w)
           W == s.waiter[w]
           V == d.waiter[w]
           X == f.waiter[w]
<1>1. /\ s \in StateType /\ W \in WaiterType /\ Attempt(s, w) /\ W.sheets # <<>>
      /\ W.tunnel \in Waiters \cup {None} /\ d \in StateType /\ V \in WaiterType
  BY SteadyHas, StateFields DEF SheetEnded
<1>2. /\ V.tunnel = W.tunnel /\ V.delegate = W.delegate /\ V.sock = W.sock
      /\ V.thread = W.thread /\ V.timer = W.timer /\ V.failed = W.failed
  BY <1>1 DEF SheetEnded, WaiterType
<1>3. /\ f \in StateType /\ f.current = None /\ f.kept = None /\ f.connected = d.connected
      /\ X.tunnel = V.tunnel /\ X.delegate = V.delegate /\ X.sock = V.sock
      /\ X.thread = V.thread /\ X.timer = V.timer /\ X.failed = V.failed
      /\ X.sheets = V.sheets
      /\ \A u \in Waiters :
            /\ u # w => f.waiter[u] = d.waiter[u]
            /\ f.tunnel[u] = IF u = d.kept THEN Close(d.tunnel[u]) ELSE d.tunnel[u]
  <2> DEFINE Y == [V EXCEPT !.told = Append(@, "failed")]
  <2>1. /\ f \in StateType /\ f.current = None /\ f.kept = None
        /\ f.connected = d.connected
        /\ Y.tunnel = V.tunnel /\ Y.delegate = V.delegate /\ Y.sock = V.sock
        /\ Y.thread = V.thread /\ Y.timer = V.timer /\ Y.failed = V.failed
        /\ Y.sheets = V.sheets
        /\ \A u \in Waiters :
              /\ f.waiter[u] = IF u = w THEN Y ELSE d.waiter[u]
              /\ f.tunnel[u] = IF u = d.kept THEN Close(d.tunnel[u]) ELSE d.tunnel[u]
    BY <1>1, ConnectionFailedIs
  <2> HIDE DEF f, Y, V
  <2>2. X = Y
    BY <2>1
  <2> QED BY <2>1, <2>2
<1> HIDE DEF f, V
<1>4. s.current \in {w, None} /\ W.delegate = "set"
  BY <1>1 DEF Attempt
<1>5. ASSUME NEW u \in Waiters
      PROVE  \/ f.tunnel[u] = s.tunnel[u]
             \/ f.tunnel[u].state = "closing" /\ Orderly(f.tunnel[u])
  <2>1. Orderly(d.tunnel[u]) /\ d.tunnel[u] \in TunnelType
    BY <1>1, SteadyHas, Typed DEF SheetEnded
  <2>2. Close(d.tunnel[u]).state = "closing" /\ Orderly(Close(d.tunnel[u]))
    BY <2>1, CloseIs
  <2> QED BY <1>3, <2>2 DEF SheetEnded
<1>6. Stops(f, w)
  BY <1>2, <1>3, <1>4, <1>5 DEF SheetEnded, Stops, Rest
<1>7. Closing(s, W.tunnel) => Closing(f, W.tunnel)
  BY <1>1, <1>5 DEF Closing
<1>8. Attempt(f, w)
  <2> HIDE DEF Closing, W, X
  <2>1. W.sock # "open"
    BY <1>1 DEF Attempt, Live, W
  <2>2. f.current # w
    BY <1>3, Names
  <2>3. s.current = w => ~W.timer /\ (W.thread # "none" => W.failed /\ Closing(s, W.tunnel))
    BY <1>1 DEF Attempt, W
  <2>4. /\ W.thread = "data" /\ W.delegate = "set" => W.sock = "open"
        /\ W.sock = "none" /\ W.thread # "none" => W.delegate = "nil"
        /\ W.timer => W.thread = "none"
        /\ s.current # w /\ W.delegate = "set" => ~W.timer /\ (W.thread # "none" => W.failed)
        /\ s.current # w /\ ~Closing(s, W.tunnel) => W.thread = "none" /\ ~W.timer
    BY <1>1 DEF Attempt, W
  <2> QED BY <1>2, <1>3, <1>4, <1>7, <2>1, <2>2, <2>3, <2>4 DEF Attempt, X, W
<1> QED BY <1>6, <1>8, StopsGoes DEF f

LEMMA ErrorDidEndGoes ==
    ASSUME Steady, NEW w \in Waiters, ErrorDidEnd(w)
    PROVE  Goes
<1> DEFINE d == EndSheet(w)
<1>1. Sheet(w, "error") /\ s' = Settled(ConnectionFailed(d, w)) /\ s \in StateType
  BY SteadyHas DEF ErrorDidEnd
<1>2. OnlyWaiter(s, d, w, [s.waiter[w] EXCEPT !.sheets = Tail(@)])
  BY <1>1, EndSheetIs
<1> HIDE DEF d
<1>3. SheetEnded(d, w)
  BY <1>1, <1>2, StateFields DEF SheetEnded, OnlyWaiter, Sheet
<1> QED BY <1>1, <1>3, SheetFailsGoes

\* The answer of a sheet, and what it makes of the tunnel.
Answered(d, w, t, U) ==
    /\ t = s.waiter[w].tunnel /\ d = [EndSheet(w) EXCEPT !.tunnel[t] = U]
    /\ t \in Waiters => U \in TunnelType

LEMMA AnswerIs ==
    ASSUME Steady, NEW w \in Waiters, NEW sheet, Sheet(w, sheet), NEW d,
           NEW t, NEW U, Answered(d, w, t, U)
    PROVE  /\ d \in StateType /\ Rest(s, d) /\ s.waiter[w].sheets # <<>>
           /\ d.waiter[w] = [s.waiter[w] EXCEPT !.sheets = Tail(@)]
           /\ \A u \in Waiters \ {w} : d.waiter[u] = s.waiter[u]
           /\ \A u \in Waiters : d.tunnel[u] = IF u = t THEN U ELSE s.tunnel[u]
<1> DEFINE e == EndSheet(w)
           V == [s.waiter[w] EXCEPT !.sheets = Tail(@)]
<1>0. /\ t = s.waiter[w].tunnel /\ d = [EndSheet(w) EXCEPT !.tunnel[t] = U]
      /\ t \in Waiters => U \in TunnelType
  BY DEF Answered
<1>1. s \in StateType /\ t \in Waiters \cup {None} /\ s.waiter[w].sheets # <<>>
  BY <1>0, SteadyHas DEF Sheet
<1>2. OnlyWaiter(s, e, w, V)
  BY <1>1, EndSheetIs
<1> HIDE DEF e, V
<1>3. e \in StateType
  BY <1>2 DEF OnlyWaiter
<1>4. /\ d \in StateType /\ Rest(e, d) /\ d.waiter = e.waiter
      /\ d.tunnel = [e.tunnel EXCEPT ![t] = U]
  <2>1. d = [e EXCEPT !.tunnel[t] = U]
    BY <1>0 DEF e
  <2>2. t \in Waiters => U \in TunnelType
    BY <1>0
  <2> QED BY <1>1, <1>3, <2>1, <2>2 DEF StateType, Rest
<1>5. /\ \A u \in Waiters : d.tunnel[u] = IF u = t THEN U ELSE s.tunnel[u]
      /\ \A u \in Waiters : d.waiter[u] = IF u = w THEN V ELSE s.waiter[u]
  BY <1>1, <1>2, <1>4, StateFields DEF OnlyWaiter
<1> QED BY <1>1, <1>2, <1>4, <1>5 DEF OnlyWaiter, Rest, V

LEMMA PromptIs ==
    ASSUME Steady, NEW t \in Waiters, s.tunnel[t].ssh # "none",
           s.tunnel[t].state = "prompt"
    PROVE  LET T == s.tunnel[t] IN
           /\ T.asks \in Questions /\ ~T.loggedIn /\ Of(T, {"eof"})
           /\ T.delegate = t /\ s.waiter[t].tunnel = t /\ s.kept # t /\ s.current = t
<1> DEFINE T == s.tunnel[t]
<1>1. Sound(s) /\ Orderly(T) /\ Begun(s, t) /\ T \in TunnelType
  BY SteadyHas DEF Begun, Early
<1>2. AsksUser(T, s.waiter[t], t) /\ s.current = t
  BY <1>1, SteadyHas
<1>3. s.kept # t
  BY <1>1 DEF Sound, TunnelSound
<1>4. T.asks \in Questions /\ Of(T, {"eof"}) /\ T.delegate = t /\ s.waiter[t].tunnel = t
  BY <1>2 DEF AsksUser, Prompting, Waiting, Of
<1>5. ~T.loggedIn
  BY <1>1, <1>4 DEF Orderly, Questions
<1> QED BY <1>2, <1>3, <1>4, <1>5

\* The user's answer, and the refusal of the key.
LEMMA AnswersAreOrderly ==
    ASSUME Steady, NEW t \in Waiters, s.tunnel[t].ssh # "none"
    PROVE  LET T == s.tunnel[t]
               U == WriteToHelper(T, "no")
               R == AcceptKey(T, FALSE)
           IN /\ U \in TunnelType /\ Orderly(U) /\ Moves(T, U)
              /\ T.state # "prompt" => U = T
              /\ T.state = "prompt" => /\ U.state = "opening" /\ U.ssh = T.ssh
                                       /\ U.delegate = T.delegate
              /\ R \in TunnelType /\ Orderly(R) /\ R.state = "closing"
<1> DEFINE T == s.tunnel[t]
           U == WriteToHelper(T, "no")
           R == AcceptKey(T, FALSE)
           O == WriteToHelper(T, "over")
<1>1. T \in TunnelType /\ Orderly(T)
  BY SteadyHas
<1>2. U \in TunnelType /\ R \in TunnelType
  <2>1. U = AcceptKey(T, TRUE)
    BY DEF AcceptKey
  <2> HIDE DEF T, U, R
  <2> QED BY <1>1, <2>1, TunnelTypes DEF R
<1>3. ASSUME NEW answer \in {"no", "over"}, T.state = "prompt"
      PROVE  LET A == WriteToHelper(T, answer) IN
             /\ A.state = "opening" /\ A.ssh = T.ssh /\ A.delegate = T.delegate
             /\ A.asks \in {answer, T.asks} /\ A.loggedIn = T.loggedIn
             /\ A.blank = T.blank /\ A.err = T.err /\ A.terminated = T.terminated
             /\ A.input = T.input
  <2> HIDE DEF T
  <2> QED BY <1>1, <1>3 DEF WriteToHelper, TunnelType
<1>4. CASE T.state = "prompt"
  <2>1. T.asks \in Questions /\ ~T.loggedIn /\ Of(T, {"eof"})
    BY <1>4, PromptIs
  <2>2. Orderly(U) /\ U.state = "opening" /\ U.ssh = T.ssh /\ U.delegate = T.delegate
    <3> HIDE DEF U
    <3>1. /\ U.state = "opening" /\ U.ssh = T.ssh /\ U.delegate = T.delegate
          /\ U.asks \in {"no", T.asks} /\ U.loggedIn = T.loggedIn
          /\ U.blank = T.blank /\ U.err = T.err /\ U.terminated = T.terminated
          /\ U.input = T.input
      BY <1>3, <1>4 DEF U
    <3> HIDE DEF T
    <3> QED BY <1>1, <1>4, <2>1, <3>1 DEF Orderly, Of, Past, Early, Questions
  <2>3. Orderly(R) /\ R.state = "closing"
    <3>1. /\ O.state = "opening" /\ O.ssh = T.ssh /\ O.delegate = T.delegate
          /\ O.asks \in {"over", T.asks} /\ O.loggedIn = T.loggedIn
          /\ O.blank = T.blank /\ O.err = T.err /\ O.terminated = T.terminated
          /\ O.input = T.input
      BY <1>3, <1>4
    <3>2. O \in TunnelType /\ R = [O EXCEPT !.state = "closing"]
      <4>1. O = [T EXCEPT !.asks = IF T.fifo /\ T.asks \in Questions THEN "over" ELSE T.asks,
                          !.state = "opening"]
        BY <1>1, <1>4 DEF WriteToHelper, TunnelType
      <4>2. (IF T.fifo /\ T.asks \in Questions THEN "over" ELSE T.asks)
              \in Questions \cup {"new", "no", "again", "over"}
        BY <2>1
      <4> HIDE DEF T
      <4>3. O \in TunnelType
        BY <1>1, <4>1, <4>2 DEF TunnelType, States
      <4> QED BY <4>3 DEF AcceptKey
    <3> HIDE DEF O, R
    <3>3. /\ R.state = "closing" /\ R.ssh = O.ssh /\ R.asks = O.asks
          /\ R.loggedIn = O.loggedIn /\ R.blank = O.blank /\ R.err = O.err
      BY <3>2 DEF TunnelType
    <3> HIDE DEF T
    <3> QED BY <1>1, <2>1, <3>1, <3>3 DEF Orderly, Of, Past, Early, Questions
  <2>4. Moves(T, U)
    BY <1>4, <2>2 DEF Moves, Diagram
  <2> QED BY <1>2, <1>4, <2>2, <2>3, <2>4
<1>5. CASE T.state # "prompt"
  <2>1. U = T /\ R = [T EXCEPT !.state = "closing"]
    BY <1>5 DEF WriteToHelper, AcceptKey
  <2>2. Orderly(R) /\ R.state = "closing"
    <3> HIDE DEF T, R
    <3>1. /\ R.state = "closing" /\ R.ssh = T.ssh /\ R.asks = T.asks
          /\ R.loggedIn = T.loggedIn /\ R.blank = T.blank /\ R.err = T.err
      BY <1>1, <2>1 DEF TunnelType
    <3> QED BY <1>1, <3>1 DEF Orderly, Of, Past, Early
  <2> QED BY <1>1, <1>2, <1>5, <2>1, <2>2 DEF Moves
<1> QED BY <1>4, <1>5

\* An attempt's tunnel has been made.
LEMMA TunnelIsMade ==
    ASSUME Steady, NEW w \in Waiters, s.waiter[w].tunnel \in Waiters
    PROVE  s.tunnel[s.waiter[w].tunnel].ssh # "none"
<1>1. Made(s, s.waiter[w].tunnel)
  BY SoundWaiter DEF Steady, Inv
<1> QED BY <1>1, Names DEF Made

\* ssh is given the answer, and works again.
LEMMA AnswerGoes ==
    ASSUME Steady, NEW w \in Waiters, NEW sheet, Sheet(w, sheet), NEW d,
           NEW t, Answered(d, w, t, WriteToHelper(s.tunnel[t], "no"))
    PROVE  /\ d \in StateType /\ Ordered(d) /\ Left(d)
           /\ \A u \in Waiters : Moves(s.tunnel[u], d.tunnel[u])
<1> DEFINE T == s.tunnel[t]
           U == WriteToHelper(T, "no")
           W == s.waiter[w]
           V == [W EXCEPT !.sheets = Tail(@)]
           e == EndSheet(w)
<1>0. t = W.tunnel /\ d = [e EXCEPT !.tunnel[t] = U]
  BY DEF Answered
<1>1. /\ s \in StateType /\ W \in WaiterType /\ Attempt(s, w) /\ Ordered(s) /\ Left(s)
      /\ t \in Waiters \cup {None} /\ W.sheets # <<>>
  BY <1>0, SteadyHas DEF Sheet
<1>2. /\ OnlyWaiter(s, e, w, V)
      /\ V.tunnel = W.tunnel /\ V.delegate = W.delegate
      /\ V.sock = W.sock /\ V.thread = W.thread /\ V.timer = W.timer
      /\ V.failed = W.failed /\ V.sheets = Tail(W.sheets) /\ V.told = W.told
  BY <1>1, EndSheetIs
<1>3. e \in StateType /\ Rest(s, e) /\ e.tunnel = s.tunnel
  BY <1>2 DEF OnlyWaiter
<1> HIDE DEF V, e
<1>4. e.waiter[w] = V /\ \A u \in Waiters : u # w => e.waiter[u] = s.waiter[u]
  BY <1>1, <1>2, StateFields DEF OnlyWaiter
<1>5. Attempt(e, w)
  <2>1. W.sock # "open"
    BY <1>1 DEF Attempt, Live
  <2> HIDE DEF W
  <2>2. Closing(s, W.tunnel) <=> Closing(e, V.tunnel)
    BY <1>2, <1>3 DEF Closing
  <2> HIDE DEF Closing
  <2> QED BY <1>1, <1>2, <1>3, <1>4, <2>1, <2>2 DEF Attempt, Rest, W
<1>6. Ordered(e) /\ Left(e)
  BY <1>1, <1>2, <1>5, WaiterStepIsOrdered
<1>7. CASE t = None
  <2>1. d = e
    BY <1>0, <1>3, <1>7, Names DEF StateType
  <2> QED BY <1>3, <1>6, <2>1 DEF Moves
<1>8. CASE t \in Waiters
  <2>1. T.ssh # "none" /\ Fit(s, t) /\ T \in TunnelType
    BY <1>0, <1>8, TunnelIsMade, SteadyHas
  <2>2. /\ U \in TunnelType /\ Orderly(U) /\ Moves(T, U)
        /\ T.state # "prompt" => U = T
        /\ T.state = "prompt" => /\ U.state = "opening" /\ U.ssh = T.ssh
                                 /\ U.delegate = T.delegate
    BY <1>8, <2>1, AnswersAreOrderly
  <2>3. T.state = "prompt" => T.delegate = t /\ s.waiter[t].tunnel = t /\ s.kept # t
    BY <1>8, <2>1, PromptIs
  <2> HIDE DEF U
  <2>4. OnlyTunnel(e, d, t, U)
    <3>1. d = [e EXCEPT !.tunnel[t] = U]
      BY <1>0 DEF U
    <3>2. /\ d \in StateType /\ d.tunnel = [e.tunnel EXCEPT ![t] = U]
          /\ d.waiter = e.waiter /\ d.portUsed = e.portUsed /\ d.current = e.current
          /\ d.kept = e.kept /\ d.connected = e.connected
      <4>1. e \in StateType /\ t \in Waiters /\ U \in TunnelType
        BY <1>3, <1>8, <2>2
      <4> HIDE DEF T, W
      <4> QED BY <3>1, <4>1, SetTunnel
    <3> QED BY <3>2 DEF OnlyTunnel, Rest
  <2>5. \A u \in Waiters : e.waiter[u].tunnel = s.waiter[u].tunnel
    BY <1>2, <1>4
  <2>6. MaySwap(e, t, U)
    <3>1. CASE T.state = "prompt"
      BY <1>3, <1>8, <2>2, <2>3, <2>5, <3>1 DEF MaySwap, Live, Usable, Past, Rest
    <3>2. CASE T.state # "prompt"
      <4>1. U = T
        BY <2>2, <3>2
      <4> QED BY <1>3, <1>8, <2>1, <2>2, <2>5, <4>1 DEF MaySwap, Live, Fit
    <3> QED BY <3>1, <3>2
  <2>7. /\ Ordered(d) /\ (Left(e) => Left(d))
        /\ \A u \in Waiters : d.tunnel[u] = IF u = t THEN U ELSE e.tunnel[u]
    <3>1. e \in StateType /\ Ordered(e) /\ t \in Waiters
      BY <1>3, <1>6, <1>8
    <3> HIDE DEF T, W
    <3> QED BY <2>4, <2>6, <3>1, TunnelStepIsOrdered
  <2> QED BY <1>3, <1>6, <2>2, <2>4, <2>7 DEF Moves, OnlyTunnel
<1> QED BY <1>1, <1>7, <1>8

LEMMA AuthPasswordEnteredGoes ==
    ASSUME Steady, NEW w \in Waiters, AuthPasswordEntered(w)
    PROVE  Goes
<1> DEFINE t == s.waiter[w].tunnel
<1>1. Sheet(w, "password") /\ s' = [EndSheet(w) EXCEPT !.tunnel[t] = UsePassword(@)]
  BY DEF AuthPasswordEntered
<1>2. EndSheet(w).tunnel = s.tunnel
  BY <1>1, SteadyHas, EndSheetIs DEF OnlyWaiter
<1>3. s' = [EndSheet(w) EXCEPT !.tunnel[t] = WriteToHelper(s.tunnel[t], "no")]
  BY <1>1, <1>2 DEF UsePassword
<1>4. t \in Waiters => WriteToHelper(s.tunnel[t], "no") \in TunnelType
  BY TunnelIsMade, AnswersAreOrderly
<1>5. Answered(s', w, t, WriteToHelper(s.tunnel[t], "no"))
  BY <1>3, <1>4 DEF Answered
<1> QED BY <1>1, <1>5, AnswerGoes DEF Goes

LEMMA AnswerKeyGoes ==
    ASSUME Steady, NEW w \in Waiters, AnswerKey(w)
    PROVE  Goes
<1> DEFINE t == s.waiter[w].tunnel
           T == s.tunnel[t]
           d(a) == [EndSheet(w) EXCEPT !.tunnel[t] = AcceptKey(T, a)]
<1>1. Sheet(w, "key") /\ s \in StateType /\ t \in Waiters \cup {None}
  BY SteadyHas DEF AnswerKey
<1>2. EndSheet(w).tunnel = s.tunnel
  BY <1>1, EndSheetIs DEF OnlyWaiter
<1>3. PICK a \in BOOLEAN :
         s' = Settled(IF a THEN d(a) ELSE ConnectionFailed(d(a), w))
  BY <1>2 DEF AnswerKey
<1>4. CASE a
  <2> DEFINE e == [EndSheet(w) EXCEPT !.tunnel[t] = WriteToHelper(T, "no")]
  <2>1. s' = Settled(e)
    BY <1>3, <1>4 DEF AcceptKey
  <2>2. Answered(e, w, t, WriteToHelper(T, "no"))
    BY TunnelIsMade, AnswersAreOrderly DEF Answered
  <2>3. /\ e \in StateType /\ Ordered(e) /\ Left(e)
        /\ \A u \in Waiters : Moves(s.tunnel[u], e.tunnel[u])
    <3> HIDE DEF e, d
    <3> QED BY <1>1, <2>2, AnswerGoes
  <2> HIDE DEF e
  <2> QED BY <1>1, <2>1, <2>3, SettledGoes
<1>5. CASE ~a
  <2> DEFINE R == AcceptKey(T, FALSE)
             e == [EndSheet(w) EXCEPT !.tunnel[t] = R]
  <2>1. s' = Settled(ConnectionFailed(e, w))
    BY <1>3, <1>5
  <2>2. t \in Waiters => R \in TunnelType /\ Orderly(R) /\ R.state = "closing"
    BY TunnelIsMade, AnswersAreOrderly
  <2> HIDE DEF R
  <2>5. Answered(e, w, t, R)
    BY <2>2 DEF Answered
  <2> HIDE DEF e
  <2>3. /\ e \in StateType /\ Rest(s, e) /\ s.waiter[w].sheets # <<>>
        /\ e.waiter[w] = [s.waiter[w] EXCEPT !.sheets = Tail(@)]
        /\ \A u \in Waiters \ {w} : e.waiter[u] = s.waiter[u]
        /\ \A u \in Waiters : e.tunnel[u] = IF u = t THEN R ELSE s.tunnel[u]
    <3> HIDE DEF T, d
    <3> QED BY <1>1, <2>5, AnswerIs
  <2>4. SheetEnded(e, w)
    BY <2>2, <2>3 DEF SheetEnded
  <2> QED BY <2>1, <2>4, SheetFailsGoes
<1> QED BY <1>3, <1>4, <1>5

LEMMA AuthCancelledGoes ==
    ASSUME Steady, NEW w \in Waiters, AuthCancelled(w)
    PROVE  Goes
<1> DEFINE t == s.waiter[w].tunnel
           e == EndSheet(w)
           c == CloseTunnel(e, t)
<1>1. /\ Sheet(w, "password") /\ s' = Settled(ConnectionFailed(c, w))
      /\ s \in StateType /\ t \in Waiters \cup {None}
  BY SteadyHas DEF AuthCancelled
<1>2. OnlyWaiter(s, e, w, [s.waiter[w] EXCEPT !.sheets = Tail(@)])
  BY <1>1, EndSheetIs
<1> HIDE DEF e
<1>3. /\ c \in StateType /\ Rest(e, c) /\ c.waiter = e.waiter
      /\ \A u \in Waiters : c.tunnel[u] = IF u = t THEN Close(e.tunnel[u]) ELSE e.tunnel[u]
  BY <1>1, <1>2, CloseTunnelIs DEF OnlyWaiter
<1> HIDE DEF c
<1>4. ASSUME NEW u \in Waiters
      PROVE  Close(s.tunnel[u]).state = "closing" /\ Orderly(Close(s.tunnel[u]))
  BY SteadyHas, CloseIs
<1>5. SheetEnded(c, w)
  BY <1>1, <1>2, <1>3, <1>4, StateFields DEF SheetEnded, OnlyWaiter, Rest, Sheet
<1> QED BY <1>1, <1>5, SheetFailsGoes

LEMMA CancelGoes ==
    ASSUME Steady, NEW w \in Waiters, Cancel(w)
    PROVE  Goes
<1> DEFINE W == s.waiter[w]
           t == W.tunnel
           V == [W EXCEPT !.delegate = "nil", !.sock = "none"]
<1>1. /\ s \in StateType /\ W \in WaiterType /\ Attempt(s, w) /\ Keeps(s)
      /\ t \in Waiters \cup {None} /\ s.kept \in Waiters \cup {None}
      /\ s.current = w /\ W.sheets = <<>>
  BY SteadyHas, StateFields DEF Cancel, NoSheet
<1>2. PICK d \in StateType :
         /\ s' = Settled(CloseTunnel(d, s.kept))
         /\ d.connected = s.connected /\ d.current = None /\ d.kept = None
         /\ \A u \in Waiters :
               /\ u # w => d.waiter[u] = s.waiter[u]
               /\ d.tunnel[u] = IF u = t THEN Close(s.tunnel[u]) ELSE s.tunnel[u]
         /\ d.waiter[w] = V
  <2>1. PICK d \in StateType :
           /\ s' = Settled(CloseTunnel(d, s.kept))
           /\ d.portUsed = s.portUsed /\ d.connected = s.connected
           /\ d.current = None /\ d.kept = None
           /\ \A u \in Waiters :
                 /\ u # w => d.waiter[u] = s.waiter[u]
                 /\ d.tunnel[u] = IF u = s.waiter[w].tunnel THEN Close(s.tunnel[u])
                                  ELSE s.tunnel[u]
           /\ d.waiter[w] = [s.waiter[w] EXCEPT !.delegate = "nil", !.sock = "none"]
    BY <1>1, CancelIs
  <2>2. d.waiter[w] = V
    BY <2>1
  <2> HIDE DEF V
  <2> QED BY <2>1, <2>2
<1>3. /\ V.tunnel = t /\ V.delegate = "nil" /\ V.sock = "none" /\ V.sheets = <<>>
      /\ V.timer = W.timer /\ V.thread = W.thread
  BY <1>1 DEF WaiterType
<1> HIDE DEF V
<1> DEFINE f == CloseTunnel(d, s.kept)
<1>4. /\ f \in StateType /\ Rest(d, f) /\ f.waiter = d.waiter
      /\ \A u \in Waiters : f.tunnel[u] = IF u = s.kept THEN Close(d.tunnel[u])
                                          ELSE d.tunnel[u]
  BY <1>1, CloseTunnelIs
<1> HIDE DEF f
<1>5. ASSUME NEW u \in Waiters
      PROVE  /\ \/ f.tunnel[u] = s.tunnel[u]
                \/ f.tunnel[u].state = "closing" /\ Orderly(f.tunnel[u])
             /\ u = t => f.tunnel[u].state = "closing"
  <2>1. /\ Close(s.tunnel[u]) \in TunnelType /\ Close(s.tunnel[u]).state = "closing"
        /\ Orderly(Close(s.tunnel[u]))
    BY SteadyHas, CloseIs
  <2>2. /\ Close(Close(s.tunnel[u])).state = "closing"
        /\ Orderly(Close(Close(s.tunnel[u])))
    BY <2>1, CloseIs
  <2> QED BY <1>2, <1>4, <2>1, <2>2
<1>6. Stops(f, w)
  BY <1>1, <1>2, <1>3, <1>4, <1>5 DEF Stops, Rest
<1>7. Closing(f, t)
  BY <1>1, <1>5 DEF Closing
<1>8. f.waiter[w] = V /\ f.current = None
  BY <1>2, <1>4 DEF Rest
<1>9. W.timer => W.thread = "none"
  BY <1>1 DEF Attempt
<1>10. Attempt(f, w)
  BY <1>3, <1>7, <1>8, <1>9, Names DEF Attempt
<1> QED BY <1>2, <1>6, <1>10, StopsGoes DEF f

-----------------------------------------------------------------------------
(* New attempts. *)

LEMMA EndedIsOrdered ==
    ASSUME Steady, s.current = None
    PROVE  /\ Ordered(Ended) /\ Left(Ended) /\ Ended \in StateType
           /\ \A u \in Waiters : Moves(s.tunnel[u], Ended.tunnel[u])
<1> DEFINE e == Ended
<1>1. /\ e \in StateType /\ e.waiter = s.waiter /\ e.current = None /\ e.kept = None
      /\ e.connected = FALSE
      /\ \A u \in Waiters : e.tunnel[u] = IF u = s.kept THEN Close(s.tunnel[u])
                                          ELSE s.tunnel[u]
  BY EndedIs DEF Steady, Inv
<1> HIDE DEF e
<1>2. ASSUME NEW u \in Waiters
      PROVE  /\ s.tunnel[u].state = "closing" => e.tunnel[u].state = "closing"
             /\ Moves(s.tunnel[u], e.tunnel[u]) /\ Fit(e, u)
  <2>1. /\ Close(s.tunnel[u]).state = "closing" /\ Orderly(Close(s.tunnel[u]))
        /\ Moves(s.tunnel[u], Close(s.tunnel[u])) /\ Fit(s, u)
    BY SteadyHas, CloseIs
  <2>2. Fit(e, u)
    BY <1>1, <2>1 DEF Fit
  <2> QED BY <1>1, <2>1, <2>2 DEF Moves
<1>3. ASSUME NEW u \in Waiters PROVE Attempt(e, u)
  <2>1. Attempt(s, u) /\ s \in StateType
    BY SteadyHas
  <2>2. s.waiter[u].sock # "open"
    BY <2>1, Names DEF Attempt, Live
  <2> QED BY <1>1, <1>2, <2>1, <2>2, AttemptStays
<1>4. Keeps(e)
  BY <1>1 DEF Keeps
<1>5. Left(e)
  <2> SUFFICES ASSUME NEW u \in Waiters PROVE Closing(e, e.waiter[u].tunnel)
    BY DEF Left
  <2>1. Closing(s, s.waiter[u].tunnel) /\ s.waiter[u].tunnel \in Waiters \cup {None}
    BY SteadyHas, Names DEF Left
  <2> QED BY <1>1, <1>2, <2>1 DEF Closing
<1> QED BY <1>1, <1>2, <1>3, <1>4, <1>5 DEF Ordered, e

LEMMA EndSessionGoes ==
    ASSUME Steady, EndSession
    PROVE  Goes
<1>1. s' = Ended /\ s.current = None
  BY DEF EndSession, Ended, Idle
<1> QED BY <1>1, EndedIsOrdered DEF Goes

\* An attempt that has ended does not mind another.
LEMMA AttemptRests ==
    ASSUME NEW d \in StateType, NEW e, NEW u \in Waiters, Attempt(d, u),
           d.current # u, e.current # u, d.waiter[u].sheets = <<>>,
           e.waiter[u] = d.waiter[u],
           \A t \in Waiters : d.tunnel[t].state = "closing" => e.tunnel[t].state = "closing"
    PROVE  Attempt(e, u)
<1> DEFINE W == d.waiter[u]
<1>1. W.tunnel \in Waiters \cup {None}
  BY Typed
<1>2. Closing(d, W.tunnel) => Closing(e, W.tunnel)
  BY <1>1 DEF Closing
<1>3. W.sock # "open"
  BY DEF Attempt, Live
<1> HIDE DEF Closing
<1> QED BY <1>2, <1>3 DEF Attempt

\* What a new attempt finds.
Ready(d, w) ==
    /\ d \in StateType /\ Ordered(d) /\ Left(d) /\ d.current = None /\ ~d.connected
    /\ d.waiter[w] = FreshWaiter /\ d.tunnel[w] = NoTunnel
    /\ \A u \in Waiters : d.waiter[u].sheets = <<>>

LEMMA NewAttemptGoes ==
    ASSUME NEW d, NEW w \in Waiters, Ready(d, w), NewAttempt(d, w, s')
    PROVE  /\ Ordered(s') /\ Left(s')
           /\ \A u \in Waiters : \/ s'.tunnel[u] = d.tunnel[u]
                                 \/ s'.tunnel[u].state = d.tunnel[u].state
<1> DEFINE V == s'.waiter[w]
<1>1. /\ d \in StateType /\ Ordered(d) /\ Left(d) /\ d.current = None /\ ~d.connected
      /\ d.waiter[w] = FreshWaiter /\ d.tunnel[w] = NoTunnel /\ d.kept = None
      /\ \A u \in Waiters : d.waiter[u].sheets = <<>>
  BY DEF Ready, Ordered, Keeps
<1>2. /\ s' \in StateType /\ s'.current = w /\ s'.kept = None /\ ~s'.connected
      /\ \/ /\ s'.tunnel = d.tunnel
            /\ s'.waiter = [d.waiter EXCEPT ![w] = WithoutTunnel(d.waiter[w])]
         \/ \E p \in Ports :
               /\ s'.tunnel = [d.tunnel EXCEPT ![w] = Launch(p, w)]
               /\ s'.waiter = [d.waiter EXCEPT ![w] = WithTunnel(d.waiter[w], w)]
  <2>1. /\ s' \in StateType /\ s'.current = w /\ s'.kept = d.kept
        /\ s'.connected = d.connected
        /\ \/ /\ s'.tunnel = d.tunnel
              /\ s'.waiter = [d.waiter EXCEPT ![w] = WithoutTunnel(d.waiter[w])]
           \/ \E p \in Ports \ d.portUsed :
                 /\ p \in s'.portUsed
                 /\ s'.tunnel = [d.tunnel EXCEPT ![w] = Launch(p, w)]
                 /\ s'.waiter = [d.waiter EXCEPT ![w] = WithTunnel(d.waiter[w], w)]
    BY <1>1, NewAttemptIs
  <2> QED BY <1>1, <2>1
<1>3. /\ V.delegate = "set" /\ V.sock = "none" /\ V.thread = "none" /\ V.sheets = <<>>
      /\ ~V.timer
      /\ \A u \in Waiters : u # w => s'.waiter[u] = d.waiter[u] /\ s'.tunnel[u] = d.tunnel[u]
      /\ \/ s'.tunnel[w] = d.tunnel[w] /\ V.tunnel = None
         \/ V.tunnel = w /\ \E p \in Ports : s'.tunnel[w] = Launch(p, w)
  <2>1. d.waiter[w] \in WaiterType
    BY <1>1, StateFields
  <2>2. /\ WithoutTunnel(FreshWaiter).delegate = "set"
        /\ WithoutTunnel(FreshWaiter).tunnel = None
        /\ WithoutTunnel(FreshWaiter).sock = "none"
        /\ WithoutTunnel(FreshWaiter).thread = "none"
        /\ WithoutTunnel(FreshWaiter).sheets = <<>> /\ ~WithoutTunnel(FreshWaiter).timer
        /\ WithTunnel(FreshWaiter, w).delegate = "set"
        /\ WithTunnel(FreshWaiter, w).tunnel = w
        /\ WithTunnel(FreshWaiter, w).sock = "none"
        /\ WithTunnel(FreshWaiter, w).thread = "none"
        /\ WithTunnel(FreshWaiter, w).sheets = <<>> /\ ~WithTunnel(FreshWaiter, w).timer
    BY DEF WithTunnel, WithoutTunnel, FreshWaiter
  <2>3. CASE /\ s'.tunnel = d.tunnel
             /\ s'.waiter = [d.waiter EXCEPT ![w] = WithoutTunnel(d.waiter[w])]
    <3>1. \A u \in Waiters : s'.waiter[u] = IF u = w THEN WithoutTunnel(FreshWaiter)
                                            ELSE d.waiter[u]
      BY <1>1, <2>3, StateFields
    <3> HIDE DEF FreshWaiter
    <3> QED BY <2>2, <2>3, <3>1
  <2>4. ASSUME NEW p \in Ports, s'.tunnel = [d.tunnel EXCEPT ![w] = Launch(p, w)],
               s'.waiter = [d.waiter EXCEPT ![w] = WithTunnel(d.waiter[w], w)]
        PROVE  /\ V = WithTunnel(FreshWaiter, w) /\ s'.tunnel[w] = Launch(p, w)
               /\ \A u \in Waiters : u # w => /\ s'.waiter[u] = d.waiter[u]
                                              /\ s'.tunnel[u] = d.tunnel[u]
    BY <1>1, <2>4, StateFields
  <2> HIDE DEF V
  <2>5. CASE \E p \in Ports :
               /\ s'.tunnel = [d.tunnel EXCEPT ![w] = Launch(p, w)]
               /\ s'.waiter = [d.waiter EXCEPT ![w] = WithTunnel(d.waiter[w], w)]
    BY <2>2, <2>4, <2>5
  <2> QED BY <1>2, <2>3, <2>5 DEF V
<1> HIDE DEF V
<1>4. ASSUME NEW p \in Ports
      PROVE  /\ Orderly(Launch(p, w)) /\ Launch(p, w).delegate = w
             /\ Launch(p, w).state = "opening" /\ NoTunnel.state = "opening"
  BY DEF Launch, NoTunnel, Orderly, Of, Past, Early
<1> HIDE DEF NoTunnel, FreshWaiter
<1>5. s'.tunnel[w].state = d.tunnel[w].state
  BY <1>1, <1>3, <1>4
<1>6. \A u \in Waiters : d.tunnel[u].state = "closing" => s'.tunnel[u].state = "closing"
  BY <1>3, <1>5
<1>7. ASSUME NEW u \in Waiters PROVE Fit(s', u)
  <2>1. Fit(d, u)
    BY <1>1 DEF Ordered
  <2>2. CASE u # w
    BY <1>3, <2>1, <2>2 DEF Fit
  <2>3. CASE u = w /\ s'.tunnel[w] = d.tunnel[w]
    <3>1. d.tunnel[w].delegate = None /\ d.tunnel[w].state = "opening"
      BY <1>1 DEF NoTunnel
    <3> QED BY <2>1, <2>3, <3>1, Names DEF Fit
  <2>4. CASE u = w /\ s'.tunnel[w] # d.tunnel[w]
    BY <1>3, <1>4, <2>4 DEF Fit, V
  <2> QED BY <2>2, <2>3, <2>4
<1>8. ASSUME NEW u \in Waiters PROVE Attempt(s', u)
  <2>1. CASE u = w
    BY <1>2, <1>3, <2>1 DEF Attempt, V
  <2>2. CASE u # w
    <3>1. Attempt(d, u) /\ d.current # u /\ s'.current # u /\ s'.waiter[u] = d.waiter[u]
      BY <1>1, <1>2, <1>3, <2>2, Names DEF Ordered
    <3> QED BY <1>1, <1>6, <3>1, AttemptRests
  <2> QED BY <2>1, <2>2
<1>9. Keeps(s')
  BY <1>2, Names DEF Keeps
<1>10. Left(s')
  <2> SUFFICES ASSUME NEW u \in Waiters, s'.current # u PROVE Closing(s', s'.waiter[u].tunnel)
    BY DEF Left
  <2>1. Closing(d, d.waiter[u].tunnel) /\ s'.waiter[u] = d.waiter[u]
        /\ d.waiter[u].tunnel \in Waiters \cup {None}
    BY <1>1, <1>2, <1>3, Names, Typed DEF Left
  <2> QED BY <1>6, <2>1 DEF Closing
<1>11. \A u \in Waiters : \/ s'.tunnel[u] = d.tunnel[u]
                          \/ s'.tunnel[u].state = d.tunnel[u].state
  BY <1>3, <1>5
<1> QED BY <1>7, <1>8, <1>9, <1>10, <1>11 DEF Ordered

LEMMA FreshIs ==
    ASSUME Steady, NEW w \in Waiters, Fresh(w)
    PROVE  s.waiter[w] = FreshWaiter /\ s.tunnel[w] = NoTunnel /\ s.kept # w
<1>1. Sound(s)
  BY DEF Steady, Inv
<1>2. /\ WaiterSound(s, w) /\ PortSound(s, w) /\ Made(s, s.kept)
      /\ s.waiter[w].delegate = "unset"
  BY <1>1 DEF Sound, Fresh
<1> HIDE DEF NoTunnel, FreshWaiter
<1> QED BY <1>2, Names DEF WaiterSound, PortSound, Made

LEMMA ConnectToServerGoes ==
    ASSUME Steady, NEW w \in Waiters, ConnectToServer(w)
    PROVE  Goes
<1>1. /\ Idle /\ ~s.connected /\ Fresh(w) /\ NewAttempt(s, w, s')
      /\ s \in StateType /\ Ordered(s) /\ Left(s)
  BY SteadyHas DEF ConnectToServer
<1>2. Ready(s, w)
  BY <1>1, FreshIs DEF Ready, Idle, NoSheet
<1> QED BY <1>1, <1>2, NewAttemptGoes DEF Goes, Moves

LEMMA ForceReconnectGoes ==
    ASSUME Steady, NEW w \in Waiters, ForceReconnect(w)
    PROVE  Goes
<1>1. Idle /\ Fresh(w) /\ NewAttempt(Ended, w, s')
  BY DEF ForceReconnect, Ended
<1>2. /\ Ordered(Ended) /\ Left(Ended) /\ Ended \in StateType
      /\ \A u \in Waiters : Moves(s.tunnel[u], Ended.tunnel[u])
  BY <1>1, EndedIsOrdered DEF Idle
<1>3. /\ Ended.waiter = s.waiter /\ Ended.current = s.current /\ Ended.connected = FALSE
      /\ \A u \in Waiters : Ended.tunnel[u] = IF u = s.kept THEN Close(s.tunnel[u])
                                              ELSE s.tunnel[u]
  BY EndedIs DEF Steady, Inv
<1>4. Ready(Ended, w)
  BY <1>1, <1>2, <1>3, FreshIs DEF Ready, Idle, NoSheet
<1>5. /\ Ordered(s') /\ Left(s')
      /\ \A u \in Waiters : \/ s'.tunnel[u] = Ended.tunnel[u]
                            \/ s'.tunnel[u].state = Ended.tunnel[u].state
  BY <1>1, <1>4, NewAttemptGoes
<1> QED BY <1>2, <1>5 DEF Goes, Moves

\* A session that is connected has a tunnel that works, or none that runs.
LEMMA ReconnectGoes ==
    ASSUME Steady, NEW w \in Waiters, Reconnect(w)
    PROVE  Goes
<1> DEFINE k == s.kept
           W == s'.waiter[w]
<1>1. /\ s \in StateType /\ Ordered(s) /\ Left(s) /\ Keeps(s) /\ s.connected
      /\ s.current = None /\ k # None /\ k \in Waiters
      /\ \A u \in Waiters : s.waiter[u].sheets = <<>>
  <2>1. Idle /\ s.connected /\ k # None
    BY DEF Reconnect
  <2> QED BY <2>1, SteadyHas, StateFields DEF Idle, NoSheet
<1>2. s.waiter[w] = FreshWaiter
  BY FreshIs DEF Reconnect
<1>3. /\ s'.current = w /\ s'.connected = FALSE /\ s'.kept = k /\ s'.tunnel = s.tunnel
      /\ \A u \in Waiters \ {w} : s'.waiter[u] = s.waiter[u]
      /\ W.tunnel = k /\ W.delegate = "set" /\ W.told = <<>> /\ ~W.timer /\ ~W.failed
      /\ \/ /\ s.tunnel[k].ssh = "running"
            /\ W.sock = "open" /\ W.thread = "poll" /\ W.sheets = <<>>
         \/ W.sock = "none" /\ W.thread = "none" /\ W.sheets = <<"error">>
  <2> HIDE DEF FreshWaiter
  <2> QED BY <1>1, <1>2, ReconnectIs
<1> HIDE DEF W
<1>4. s.waiter[w].tunnel = None
  BY <1>2 DEF FreshWaiter
<1> HIDE DEF FreshWaiter
<1>5. ASSUME NEW u \in Waiters PROVE Fit(s', u)
  <2>1. Fit(s, u)
    BY SteadyHas
  <2> QED BY <1>3, <1>4, <2>1, Names DEF Fit
<1>6. s.tunnel[k].ssh = "running" => Usable(s.tunnel[k])
  BY <1>1 DEF Keeps, Usable, Past
<1>7. ASSUME NEW u \in Waiters PROVE Attempt(s', u)
  <2>1. CASE u = w
    <3>1. W.sock = "open" => Live(s', w)
      BY <1>1, <1>3, <1>6 DEF Live, W
    <3> QED BY <1>3, <2>1, <3>1 DEF Attempt, W
  <2>2. CASE u # w
    <3>1. Attempt(s, u) /\ s.current # u /\ s'.current # u /\ s'.waiter[u] = s.waiter[u]
      BY <1>1, <1>3, <2>2, SteadyHas, Names
    <3> QED BY <1>1, <1>3, <3>1, AttemptRests
  <2> QED BY <2>1, <2>2
<1>8. Keeps(s')
  BY <1>3, Names DEF Keeps
<1>9. Left(s')
  BY <1>1, <1>3, Names DEF Left, Closing
<1> QED BY <1>3, <1>5, <1>7, <1>8, <1>9 DEF Goes, Ordered, Moves

-----------------------------------------------------------------------------
(* The lines of a notification. *)

\* Between the lines of a notification: the tunnel that the attempt still hears
\* of is the attempt's, and nothing else could show an error.
Hears(d, t) ==
    d.tunnel[t].delegate = t =>
        /\ d.current = t /\ d.waiter[t].tunnel = t /\ d.waiter[t].delegate = "set"
        /\ d.tunnel[t].state = "closing" =>
              ~d.waiter[t].timer /\ (d.waiter[t].thread # "none" => d.waiter[t].failed)

Between(t) ==
    {d \in StateType :
        /\ Ordered(d) /\ Left(d) /\ Hears(d, t)
        /\ \A u \in Waiters : u # t => d.tunnel[u] = s.tunnel[u]
        /\ \/ d.tunnel[t].state \in {"closing", s.tunnel[t].state}
           \/ s.tunnel[t].state = "opening" /\ d.tunnel[t].state = "prompt"}

\* What is read of the stream, and what becomes of the tunnel.
LEMMA ReadIs ==
    ASSUME NEW T \in TunnelType, Orderly(T), T.err # <<>>
    PROVE  LET R == [T EXCEPT !.err = Tail(@)]
               P == [R EXCEPT !.state = "prompt"]
               C == [R EXCEPT !.state = "closing"]
           IN /\ R \in TunnelType /\ Orderly(R) /\ R.state = T.state /\ R.ssh = T.ssh
              /\ R.delegate = T.delegate
              /\ C \in TunnelType /\ Orderly(C) /\ C.state = "closing"
              /\ C.delegate = T.delegate /\ C.ssh = T.ssh
              /\ P \in TunnelType /\ P.state = "prompt"
              /\ P.delegate = T.delegate /\ P.ssh = T.ssh
              /\ Head(T.err) \in Questions /\ T.state = "opening" => Orderly(P)
<1> DEFINE R == [T EXCEPT !.err = Tail(@)]
           P == [R EXCEPT !.state = "prompt"]
           C == [R EXCEPT !.state = "closing"]
<1>1. T.err \in Seq(Lines)
  BY DEF TunnelType
<1>2. Tail(T.err) \in Seq(Lines) /\ Head(T.err) = T.err[1] /\ 1 \in DOMAIN T.err
  BY <1>1
<1>3. /\ R \in TunnelType /\ R.state = T.state /\ R.ssh = T.ssh /\ R.asks = T.asks
      /\ R.loggedIn = T.loggedIn /\ R.blank = T.blank /\ R.terminated = T.terminated
      /\ R.input = T.input /\ R.delegate = T.delegate /\ R.err = Tail(T.err)
  BY <1>2 DEF TunnelType
<1> HIDE DEF R
<1>4. ASSUME NEW lines, Of(T, lines) PROVE Of(R, lines)
  <2>1. \A i \in DOMAIN Tail(T.err) : i + 1 \in DOMAIN T.err /\ Tail(T.err)[i] = T.err[i + 1]
    BY <1>1
  <2> QED BY <1>3, <1>4, <2>1 DEF Of
<1>5. Orderly(R)
  BY <1>3, <1>4 DEF Orderly
<1>6. \A state \in States :
         LET U == [R EXCEPT !.state = state] IN
         /\ U \in TunnelType /\ U.state = state /\ U.ssh = T.ssh /\ U.asks = T.asks
         /\ U.loggedIn = T.loggedIn /\ U.blank = T.blank /\ U.terminated = T.terminated
         /\ U.input = T.input /\ U.delegate = T.delegate /\ U.err = R.err
  BY <1>3 DEF TunnelType
<1>7. /\ P \in TunnelType /\ P.state = "prompt" /\ P.ssh = T.ssh /\ P.asks = T.asks
      /\ P.loggedIn = T.loggedIn /\ P.blank = T.blank /\ P.terminated = T.terminated
      /\ P.input = T.input /\ P.delegate = T.delegate /\ P.err = R.err
      /\ C \in TunnelType /\ C.state = "closing" /\ C.ssh = T.ssh /\ C.asks = T.asks
      /\ C.loggedIn = T.loggedIn /\ C.blank = T.blank /\ C.terminated = T.terminated
      /\ C.input = T.input /\ C.delegate = T.delegate /\ C.err = R.err
  <2>1. "prompt" \in States /\ "closing" \in States
    BY DEF States
  <2> HIDE DEF States
  <2> QED BY <1>6, <2>1
<1> HIDE DEF P, C
<1>8. Orderly(C)
  BY <1>3, <1>5, <1>7 DEF Orderly, Of, Past, Early
<1>9. ASSUME Head(T.err) \in Questions, T.state = "opening" PROVE Orderly(P)
  <2>1. ~Of(T, {"eof"})
    BY <1>2, <1>9 DEF Of, Questions
  <2>2. T.asks \notin {"new", "no"}
    BY <1>9, <2>1 DEF Orderly, Early
  <2> QED BY <1>3, <1>5, <1>7, <1>9, <2>2 DEF Orderly, Of, Past, Early
<1> QED BY <1>3, <1>5, <1>7, <1>8, <1>9 DEF R, P, C

\* A line that is read changes its tunnel first: the attempt does not wait for
\* data through it, as something of ssh was left to read.
LEMMA ReadStep ==
    ASSUME NEW t \in Waiters, NEW d \in Between(t), d.tunnel[t].err # <<>>,
           NEW U \in TunnelType, Orderly(U), U.delegate = d.tunnel[t].delegate,
           U.ssh = d.tunnel[t].ssh,
           \/ U.state \in {"closing", d.tunnel[t].state}
           \/ d.tunnel[t].state = "opening" /\ U.state = "prompt"
    PROVE  LET n == [d EXCEPT !.tunnel[t] = U] IN
           /\ n \in Between(t) \/ U.state = "closing"
           /\ n \in StateType /\ Ordered(n) /\ Left(n) /\ OnlyTunnel(d, n, t, U)
           /\ ~Usable(d.tunnel[t])
<1> DEFINE T == d.tunnel[t]
           n == [d EXCEPT !.tunnel[t] = U]
<1>1. /\ d \in StateType /\ Ordered(d) /\ Left(d) /\ Hears(d, t) /\ ~Usable(T)
      /\ Fit(d, t) /\ Orderly(T)
  BY DEF Between, Usable, Ordered, Fit
<1>2. MaySwap(d, t, U)
  BY <1>1 DEF MaySwap, Live, Fit
<1>3. OnlyTunnel(d, n, t, U)
  <2>1. /\ n \in StateType /\ n.tunnel = [d.tunnel EXCEPT ![t] = U] /\ n.waiter = d.waiter
        /\ n.portUsed = d.portUsed /\ n.current = d.current
        /\ n.kept = d.kept /\ n.connected = d.connected
    BY <1>1, SetTunnel
  <2> HIDE DEF n
  <2> QED BY <2>1 DEF OnlyTunnel, Rest
<1> HIDE DEF n, T
<1>4. /\ Ordered(n) /\ Left(n) /\ n \in StateType
      /\ \A u \in Waiters : n.tunnel[u] = IF u = t THEN U ELSE d.tunnel[u]
  <2>1. /\ Ordered(n) /\ (Left(d) => Left(n))
        /\ \A u \in Waiters : n.tunnel[u] = IF u = t THEN U ELSE d.tunnel[u]
    BY <1>1, <1>2, <1>3, TunnelStepIsOrdered
  <2> QED BY <1>1, <1>3, <2>1 DEF OnlyTunnel
<1>5. n \in Between(t) \/ U.state = "closing"
  <2> SUFFICES ASSUME U.state # "closing" PROVE n \in Between(t)
    OBVIOUS
  <2>1. Hears(n, t)
    BY <1>1, <1>3, <1>4 DEF Hears, OnlyTunnel, Rest
  <2> QED BY <1>3, <1>4, <2>1 DEF Between
<1> QED BY <1>1, <1>3, <1>4, <1>5 DEF n, T

LEMMA ReadLineStays ==
    ASSUME NEW t \in Waiters, NEW d \in Between(t), Sound(d),
           d.tunnel[t].ssh # "none", d.tunnel[t].err # <<>>
    PROVE  ReadLine(d, t) \in Between(t)
<1> DEFINE T == d.tunnel[t]
           R == [T EXCEPT !.err = Tail(@)]
           P == [R EXCEPT !.state = "prompt"]
           C == [R EXCEPT !.state = "closing"]
           W == d.waiter[t]
           line == Head(T.err)
           e == ReadLine(d, t)
           n(U) == [d EXCEPT !.tunnel[t] = U]
<1>1. /\ d \in StateType /\ T \in TunnelType /\ Orderly(T) /\ Hears(d, t)
      /\ W \in WaiterType /\ Attempt(d, t) /\ T.delegate \in {None, t}
      /\ Begun(d, t) => AsksUser(T, W, t)
  <2>1. d \in StateType /\ Hears(d, t) /\ Fit(d, t) /\ Attempt(d, t)
    BY DEF Between, Ordered
  <2>2. T \in TunnelType /\ W \in WaiterType
    BY <2>1, StateFields
  <2>3. T.delegate \in {None, t} /\ (Begun(d, t) => AsksUser(T, W, t))
    BY DEF Sound, TunnelSound
  <2> QED BY <2>1, <2>2, <2>3 DEF Fit
<1>2. /\ R \in TunnelType /\ Orderly(R) /\ R.state = T.state /\ R.ssh = T.ssh
      /\ R.delegate = T.delegate
      /\ C \in TunnelType /\ Orderly(C) /\ C.state = "closing"
      /\ C.delegate = T.delegate /\ C.ssh = T.ssh
      /\ P \in TunnelType /\ P.state = "prompt"
      /\ P.delegate = T.delegate /\ P.ssh = T.ssh
      /\ line \in Questions /\ T.state = "opening" => Orderly(P)
  BY <1>1, ReadIs
<1>3. /\ e \in StateType /\ Rest(d, e)
      /\ \/ /\ line \in Questions /\ T.state = "opening"
            /\ e.tunnel = [d.tunnel EXCEPT ![t] = P]
            /\ e.waiter = [d.waiter EXCEPT
                    ![T.delegate] = [d.waiter[T.delegate] EXCEPT !.sheets = Append(@, line)]]
         \/ /\ line \in Questions /\ T.state # "opening"
            /\ e.tunnel = [d.tunnel EXCEPT ![t] = R]
            /\ e.waiter = d.waiter
         \/ /\ line \notin Questions
            /\ e.tunnel = [d.tunnel EXCEPT ![t] = C]
            /\ e.waiter =
                    IF T.delegate = None THEN d.waiter
                    ELSE [d.waiter EXCEPT
                            ![T.delegate] = IF line = "channel"
                                            THEN Unconnected(d.waiter[T.delegate])
                                            ELSE Refused(d.waiter[T.delegate])]
  BY <1>1, ReadLineIs
<1>4. ASSUME NEW U \in TunnelType, Orderly(U), U.delegate = T.delegate, U.ssh = T.ssh,
             \/ U.state \in {"closing", T.state}
             \/ T.state = "opening" /\ U.state = "prompt"
      PROVE  /\ n(U) \in Between(t) \/ U.state = "closing"
             /\ n(U) \in StateType /\ Ordered(n(U)) /\ Left(n(U))
             /\ OnlyTunnel(d, n(U), t, U) /\ ~Usable(T)
  BY <1>4, ReadStep
<1> HIDE DEF R, P, C, e, n
\* The attempt that hears of the tunnel.
<1>5. ASSUME NEW U \in TunnelType, Orderly(U), U.delegate = t, T.delegate = t, U.ssh = T.ssh,
             U.state = "closing" \/ (T.state = "opening" /\ U.state = "prompt"),
             NEW V, OnlyWaiter(n(U), e, t, V), V.sheets # <<>>,
             V.tunnel = W.tunnel, V.delegate = W.delegate, V.sock = W.sock,
             V.thread = W.thread, ~V.timer, V.thread # "none" => V.failed,
             U.state = "prompt" => V.thread = "none"
      PROVE  e \in Between(t)
  <2>1. /\ n(U) \in StateType /\ Ordered(n(U)) /\ Left(n(U))
        /\ OnlyTunnel(d, n(U), t, U) /\ ~Usable(T)
    BY <1>4, <1>5
  <2>2. /\ n(U).waiter = d.waiter /\ n(U).current = d.current /\ n(U).kept = d.kept
        /\ \A u \in Waiters : n(U).tunnel[u] = IF u = t THEN U ELSE d.tunnel[u]
    BY <1>1, <2>1, StateFields DEF OnlyTunnel, Rest
  <2>3. /\ d.current = t /\ W.tunnel = t /\ W.delegate = "set"
    BY <1>1, <1>5 DEF Hears
  <2>4. /\ e.tunnel = n(U).tunnel /\ e.waiter[t] = V /\ e.current = t /\ e.kept = d.kept
        /\ e \in StateType
    BY <1>5, <2>1, <2>2, <2>3, StateFields DEF OnlyWaiter, Rest
  <2>5. W.sock # "open" /\ W.thread # "data"
    BY <1>1, <2>1, <2>3 DEF Attempt, Live
  <2>6. V.thread # "none" => Closing(e, t)
    BY <1>5, <2>2, <2>4 DEF Closing
  <2>7. Attempt(e, t)
    <3> HIDE DEF Closing
    <3>1. d.kept \in {None, t} /\ (W.sock = "none" /\ W.thread # "none" => W.delegate = "nil")
      BY <1>1, <2>3 DEF Attempt
    <3> QED BY <1>5, <2>3, <2>4, <2>5, <2>6, <3>1 DEF Attempt
  <2>8. Ordered(e) /\ Left(e)
    <3>1. V.tunnel = n(U).waiter[t].tunnel
      BY <1>5, <2>2
    <3> QED BY <1>5, <2>1, <2>7, <3>1, WaiterStepIsOrdered
  <2>9. Hears(e, t)
    BY <1>5, <2>3, <2>4 DEF Hears
  <2>10. /\ \A u \in Waiters : u # t => e.tunnel[u] = s.tunnel[u]
         /\ \/ e.tunnel[t].state \in {"closing", s.tunnel[t].state}
            \/ s.tunnel[t].state = "opening" /\ e.tunnel[t].state = "prompt"
    BY <1>5, <2>2, <2>4 DEF Between
  <2> QED BY <2>4, <2>8, <2>9, <2>10 DEF Between
<1>6. ASSUME line \in Questions, T.state = "opening" PROVE e \in Between(t)
  <2> DEFINE V == [W EXCEPT !.sheets = Append(@, line)]
  <2>1. AsksUser(T, W, t)
    BY <1>1, <1>6 DEF Begun, Early
  <2>2. T.delegate = t /\ W.thread = "none" /\ ~W.timer
    BY <2>1 DEF AsksUser, Waiting
  <2>3. OnlyTunnel(d, n(P), t, P)
    BY <1>2, <1>4, <1>6
  <2>4. OnlyWaiter(n(P), e, t, V)
    <3> HIDE DEF T, line
    <3> QED BY <1>3, <1>6, <2>2, <2>3 DEF OnlyWaiter, OnlyTunnel, Rest
  <2>5. /\ V.tunnel = W.tunnel /\ V.delegate = W.delegate /\ V.sock = W.sock
        /\ V.thread = W.thread /\ ~V.timer /\ V.sheets = Append(W.sheets, line)
    BY <1>1, <2>2 DEF WaiterType
  <2>6. V.sheets # <<>>
    <3>1. W.sheets \in Seq({"key", "password", "error"})
      BY <1>1 DEF WaiterType
    <3> HIDE DEF W, line
    <3> QED BY <2>5, <3>1
  <2> HIDE DEF V, T
  <2> QED BY <1>2, <1>5, <1>6, <2>2, <2>4, <2>5, <2>6
<1>7. ASSUME line \in Questions, T.state # "opening" PROVE e \in Between(t)
  <2>1. CASE R.state # "closing"
    <3>1. n(R) \in Between(t) /\ OnlyTunnel(d, n(R), t, R)
      BY <1>2, <1>4, <2>1
    <3>2. e.tunnel = n(R).tunnel /\ e.waiter = n(R).waiter /\ Rest(n(R), e)
      BY <1>3, <1>7, <3>1 DEF OnlyTunnel, Rest
    <3>3. e = n(R)
      BY <1>3, <3>1, <3>2 DEF StateType, OnlyTunnel, Rest
    <3> QED BY <3>1, <3>3
  <2>2. CASE R.state = "closing"
    <3>1. /\ n(R) \in StateType /\ Ordered(n(R)) /\ Left(n(R)) /\ OnlyTunnel(d, n(R), t, R)
      BY <1>2, <1>4
    <3>2. e.tunnel = n(R).tunnel /\ e.waiter = n(R).waiter /\ Rest(n(R), e)
      BY <1>3, <1>7, <3>1 DEF OnlyTunnel, Rest
    <3>3. e = n(R)
      BY <1>3, <3>1, <3>2 DEF StateType, OnlyTunnel, Rest
    <3>4. \A u \in Waiters : e.tunnel[u] = IF u = t THEN R ELSE d.tunnel[u]
      BY <1>1, <3>1, <3>2, StateFields DEF OnlyTunnel
    <3>5. Hears(e, t)
      <4>1. /\ e.waiter = d.waiter /\ e.current = d.current /\ e.tunnel[t] = R
        BY <1>3, <1>7, <3>4 DEF Rest
      <4> HIDE DEF T
      <4> QED BY <1>1, <1>2, <2>2, <4>1 DEF Hears, T
    <3> QED BY <1>3, <2>2, <3>1, <3>3, <3>4, <3>5 DEF Between
  <2> QED BY <2>1, <2>2
<1>8. ASSUME line \notin Questions, T.delegate = None PROVE e \in Between(t)
  <2>1. /\ n(C) \in StateType /\ Ordered(n(C)) /\ Left(n(C)) /\ OnlyTunnel(d, n(C), t, C)
    BY <1>2, <1>4
  <2>2. e.tunnel = n(C).tunnel /\ e.waiter = n(C).waiter /\ Rest(n(C), e)
    BY <1>3, <1>8, <2>1 DEF OnlyTunnel, Rest
  <2>3. e = n(C)
    BY <1>3, <2>1, <2>2 DEF StateType, OnlyTunnel, Rest
  <2>4. \A u \in Waiters : e.tunnel[u] = IF u = t THEN C ELSE d.tunnel[u]
    BY <1>1, <2>1, <2>2, StateFields DEF OnlyTunnel
  <2>5. Hears(e, t)
    BY <1>2, <1>8, <2>4, Names DEF Hears
  <2> QED BY <1>2, <1>3, <2>1, <2>3, <2>4, <2>5 DEF Between
<1>9. ASSUME line \notin Questions, T.delegate = t PROVE e \in Between(t)
  <2> DEFINE V == IF line = "channel" THEN Unconnected(W) ELSE Refused(W)
  <2>1. OnlyTunnel(d, n(C), t, C) /\ ~Usable(T)
    BY <1>2, <1>4
  <2>2. OnlyWaiter(n(C), e, t, V)
    <3>1. e.waiter = [d.waiter EXCEPT ![t] = V] /\ e.tunnel = [d.tunnel EXCEPT ![t] = C]
      BY <1>3, <1>9, Names
    <3> HIDE DEF T, line, V
    <3> QED BY <1>3, <2>1, <3>1 DEF OnlyWaiter, OnlyTunnel, Rest
  <2>3. W.delegate = "set"
    BY <1>1, <1>9 DEF Hears
  \* ssh only fails while nothing waits for data through its tunnel.
  <2>4. line # "channel" => ~W.timer /\ (W.thread # "none" => W.failed)
    <3>1. T.err \in Seq(Lines) /\ line = T.err[1] /\ 1 \in DOMAIN T.err /\ T.state \in States
          /\ T.ssh \in {"running", "ended"}
      BY <1>1 DEF TunnelType
    <3>2. CASE T.state = "closing"
      BY <1>1, <1>9, <3>2 DEF Hears
    <3>3. CASE T.state \in Early
      <4>1. AsksUser(T, W, t)
        BY <1>1, <3>3 DEF Begun
      <4> QED BY <4>1 DEF AsksUser, Waiting
    <3>4. CASE T.state \in Past /\ T.ssh = "running"
      <4>1. line = "channel"
        BY <1>1, <3>1, <3>4 DEF Orderly, Of
      <4> QED BY <4>1
    <3>5. CASE T.state \in Past /\ T.ssh = "ended"
      BY <1>1, <1>9, <3>5, Names DEF Orderly, Past
    <3> QED BY <3>1, <3>2, <3>3, <3>4, <3>5 DEF States, Early, Past
  <2>5. /\ V.tunnel = W.tunnel /\ V.delegate = W.delegate /\ V.sock = W.sock
        /\ V.thread = W.thread /\ ~V.timer /\ (V.thread # "none" => V.failed)
        /\ V.sheets # <<>>
    <3>1. CASE line = "channel"
      <4> DEFINE X == Unconnected(W)
      <4>1. /\ X.tunnel = W.tunnel /\ X.delegate = W.delegate /\ X.sock = W.sock
            /\ X.thread = W.thread /\ X.timer = FALSE /\ X.failed = TRUE
            /\ X.sheets = Append(W.sheets, "error")
        BY <1>1, <2>3, UnconnectedIs
      <4>2. W.sheets \in Seq({"key", "password", "error"})
        BY <1>1 DEF WaiterType
      <4> HIDE DEF X
      <4>3. V = X
        BY <3>1 DEF X
      <4> HIDE DEF V, W
      <4> QED BY <4>1, <4>2, <4>3
    <3>2. CASE line # "channel"
      <4> DEFINE X == Refused(W)
                 sheets == RemoveFirst(W.sheets, "password")
      <4>1. /\ X.tunnel = W.tunnel /\ X.delegate = W.delegate /\ X.sock = W.sock
            /\ X.thread = W.thread /\ X.timer = W.timer /\ X.failed = W.failed
            /\ X.sheets = Append(sheets, "error")
            /\ sheets \in Seq({"key", "password", "error"})
        BY <1>1, <2>3, RefusedIs
      <4> HIDE DEF X, sheets
      <4>2. V = X
        BY <3>2 DEF X
      <4> HIDE DEF V, W
      <4> QED BY <2>4, <3>2, <4>1, <4>2
    <3> QED BY <3>1, <3>2
  <2> HIDE DEF V, T
  <2> QED BY <1>2, <1>5, <1>9, <2>2, <2>5
<1> HIDE DEF T, line
<1> QED BY <1>1, <1>6, <1>7, <1>8, <1>9 DEF e

LEMMA ReadStderrGoes ==
    ASSUME Steady, NEW t \in Waiters, ReadStderr(t)
    PROVE  Goes
<1>1. PICK n \in 1..Len(s.tunnel[t].err) : s' = Settled(ReadLines(s, t, n))
  BY DEF ReadStderr
<1>2. /\ s \in StateType /\ Sound(s) /\ Ordered(s) /\ Left(s) /\ Fit(s, t)
      /\ Attempt(s, t) /\ s.tunnel[t] \in TunnelType
      /\ s.tunnel[t].ssh # "none" /\ s.tunnel[t].state # "closing"
  BY SteadyHas DEF ReadStderr, Reads
<1>3. n \in 0..Len(s.tunnel[t].err)
  BY <1>2 DEF TunnelType
<1>4. s \in Between(t)
  <2>1. Hears(s, t)
    <3> SUFFICES ASSUME s.tunnel[t].delegate = t
                 PROVE  s.current = t /\ s.waiter[t].tunnel = t /\ s.waiter[t].delegate = "set"
      BY <1>2 DEF Hears
    <3>1. s.waiter[t].tunnel = t
      BY <1>2 DEF Fit
    <3>2. s.current = t
      BY <1>2, <3>1, Names DEF Left, Closing
    <3> QED BY <1>2, <3>1, <3>2 DEF Attempt
  <2> QED BY <1>2, <2>1 DEF Between
<1>5. Keeping(Between(t), t)
  BY ReadLineStays DEF Keeping
<1> DEFINE d == ReadLines(s, t, n)
<1>6. d \in Between(t)
  BY <1>2, <1>3, <1>4, <1>5, LinesKeep
<1> HIDE DEF d
<1>7. d \in StateType /\ Ordered(d) /\ Left(d)
  BY <1>6 DEF Between
<1>8. ASSUME NEW u \in Waiters
      PROVE  d.tunnel[u].state = "closing" \/ Moves(s.tunnel[u], d.tunnel[u])
  BY <1>6 DEF Between, Moves, Diagram
<1> QED BY <1>1, <1>2, <1>7, <1>8, SettledGoes DEF d

-----------------------------------------------------------------------------

LEMMA InitIsSteady ==
    ASSUME Init
    PROVE  Steady
<1>1. Inv
  BY InitIsSound
<1>2. /\ s.current = None /\ s.kept = None /\ s.connected = FALSE
      /\ \A u \in Waiters : s.tunnel[u] = NoTunnel /\ s.waiter[u] = FreshWaiter
  <2> HIDE DEF NoTunnel
  <2> QED BY DEF Init, FreshWaiter
<1>3. Keeps(s)
  BY <1>2 DEF Keeps
<1>4. ASSUME NEW u \in Waiters PROVE Fit(s, u) /\ Attempt(s, u) /\ Closing(s, s.waiter[u].tunnel)
  <2>1. /\ Orderly(NoTunnel) /\ NoTunnel.delegate = None /\ NoTunnel.state = "opening"
    BY DEF NoTunnel, Orderly, Of, Past, Early
  <2> HIDE DEF NoTunnel
  <2>2. Fit(s, u)
    BY <1>2, <2>1, Names DEF Fit
  <2>3. /\ FreshWaiter.sock = "none" /\ FreshWaiter.thread = "none" /\ ~FreshWaiter.timer
        /\ FreshWaiter.sheets = <<>> /\ FreshWaiter.tunnel = None
    BY DEF FreshWaiter
  <2> HIDE DEF FreshWaiter
  <2> QED BY <1>2, <2>2, <2>3, Names DEF Attempt, Closing
<1> QED BY <1>1, <1>3, <1>4 DEF Steady, Ordered, Left

\* If ssh does not end by itself, a handler finds its tunnel and its attempt
\* where it expects them.
LEMMA StepGoes ==
    ASSUME Steady, "quit" \notin Mishaps, Next
    PROVE  Goes
<1>1. CASE EndSession
  BY <1>1, EndSessionGoes
<1>2. ASSUME NEW w \in Waiters, OfSsh(w) \/ Notified(w) \/ HangsUp(w) \/ WaitForData(w)
      PROVE  Goes
  BY <1>2, SshFailsGoes, SshLogsInGoes, SshEndsGoes, SshAsksGoes, ReadStderrGoes,
     ReadStdoutGoes, SshTerminatedGoes, HangsUpGoes, WaitForDataGoes
     DEF OfSsh, Notified
<1>3. ASSUME NEW w \in Waiters, OfMain(w) \/ OfUser(w)
      PROVE  Goes
  BY <1>3, FinishConnectionGoes, ServerClosedGoes, ServerClosedNoReasonGoes,
     ConnectToServerGoes, ReconnectGoes, ForceReconnectGoes, CancelGoes, AnswerKeyGoes,
     AuthPasswordEnteredGoes, AuthCancelledGoes, ErrorDidEndGoes DEF OfMain, OfUser
<1> QED BY <1>1, <1>2, <1>3 DEF Next

LEMMA NextKeepsSteady ==
    ASSUME Steady, "quit" \notin Mishaps, [Next]_s
    PROVE  Steady'
<1>1. CASE UNCHANGED s
  BY <1>1 DEF Steady, Inv, Ordered, Left
<1>2. CASE Next
  <2>1. Goes /\ Inv'
    BY <1>2, StepGoes, NextKeepsInv DEF Steady
  <2> QED BY <2>1 DEF Goes, Steady
<1> QED BY <1>1, <1>2

\* The tunnels and the attempts go together unless ssh ends by itself: an
\* attempt connects only through a tunnel that works, what ssh fails with is
\* shown once, and who has left a tunnel has closed it.
THEOREM SteadyCorrect == "quit" \notin Mishaps => (Spec => []Steady)
<1> SUFFICES ASSUME "quit" \notin Mishaps PROVE Spec => []Steady
  OBVIOUS
<1>1. Init => Steady
  BY InitIsSteady
<1>2. Steady /\ [Next]_s => Steady'
  BY NextKeepsSteady
<1> QED BY <1>1, <1>2, PTL DEF Spec

\* The tunnels only take the transitions of the diagram in SshTunnel.m, their
\* ports are their own, and while one waits for an answer its attempt asks the
\* user - as long as ssh does not end by itself (the diagram has no transition
\* for that).
THEOREM TunnelsMatchCorrect == "quit" \notin Mishaps => (Spec => TunnelsMatch)
<1> SUFFICES ASSUME "quit" \notin Mishaps PROVE Spec => TunnelsMatch
  OBVIOUS
<1> DEFINE Step == \A t \in Waiters :
                      s.tunnel[t].state # s'.tunnel[t].state =>
                          <<s.tunnel[t].state, s'.tunnel[t].state>> \in Diagram
<1>1. ASSUME Steady, [Next]_s PROVE [Step]_s
  <2>1. CASE UNCHANGED s
    BY <2>1
  <2>2. CASE Next
    <3>1. \A t \in Waiters : Moves(s.tunnel[t], s'.tunnel[t])
      BY <1>1, <2>2, StepGoes DEF Goes
    <3>2. Step
      BY <3>1 DEF Moves
    <3> QED BY <3>2
  <2> QED BY <1>1, <2>1, <2>2
<1>2. Spec => []Steady
  BY SteadyCorrect
<1>3. Spec => [](PortIsExclusive /\ PromptIsAsked)
  BY PortsAreExclusive, QuestionsAreAsked, PTL
<1> QED BY <1>1, <1>2, <1>3, PTL DEF Spec, TunnelsMatch, FollowsDiagram

-----------------------------------------------------------------------------
(* Without any of the Mishaps: an attempt is answered once. *)

\* An attempt shows one sheet at a time, while it is the delegate's, and it has
\* given its answer when it no longer is.
Promised(d, w) ==
    LET W == d.waiter[w] IN
    /\ W.sheets \in {<<>>, <<"key">>, <<"password">>, <<"error">>}
    /\ W.sheets # <<>> => d.current = w
    /\ W.told \in {<<>>, <<"succeeded">>, <<"failed">>}
    /\ W.told # <<>> => d.current # w /\ W.delegate = "set"

\* ssh gives one reason for an error, and it does not end while it asks for the
\* key.
Brief(d, t) ==
    LET T == d.tunnel[t] IN
    /\ T.state \in Early /\ T.asks = "key" => T.ssh = "running"
    /\ T.state = "tunneling" /\ T.err # <<>> =>
          Len(T.err) = 1 /\ d.waiter[t].sheets = <<>>
    /\ T.state = "opening" =>
          \A i \in DOMAIN T.err : T.err[i] # "channel" /\ (T.err[i] = "failed" => i = 1)

Promising(d) == \A w \in Waiters : Promised(d, w) /\ Brief(d, w)

Trusty == Steady /\ Promising(s)

-----------------------------------------------------------------------------

\* How far an attempt is, see AttemptState.
Phase(W) ==
    IF Len(W.told) > 1 THEN "told again"
    ELSE IF W.told # <<>> THEN Head(W.told)
    ELSE IF W.delegate = "unset" THEN "none"
    ELSE IF W.delegate = "nil" THEN "cancelled"
    ELSE IF W.sheets = <<>> THEN "trying"
    ELSE IF Head(W.sheets) = "error" THEN "error" ELSE "asking"

\* What a step may leave as it is, of an attempt and of a tunnel.
SaysSame(W, V) == V.sheets = W.sheets /\ V.told = W.told /\ V.delegate = W.delegate
Rests(T, U) == \/ U.state = "closing"
               \/ /\ U.state = T.state /\ U.asks = T.asks /\ U.ssh = T.ssh
                  /\ U.err = T.err

Advances(from, to) == from = to \/ <<from, to>> \in Delegates!Steps

\* A step of at most one attempt.
Tells(d, e) ==
    \/ \A v \in Waiters : Phase(e.waiter[v]) = Phase(d.waiter[v])
    \/ \E w \in Waiters :
          /\ Advances(Phase(d.waiter[w]), Phase(e.waiter[w]))
          /\ \A v \in Waiters \ {w} : Phase(e.waiter[v]) = Phase(d.waiter[v])

LEMMA PhaseIs ==
    ASSUME NEW W, W.told \in Seq({"succeeded", "failed"})
    PROVE  /\ \A x \in {"succeeded", "failed"} : W.told = <<x>> => Phase(W) = x
           /\ W.told = <<>> =>
                /\ W.delegate = "unset" => Phase(W) = "none"
                /\ W.delegate = "nil" => Phase(W) = "cancelled"
                /\ W.delegate = "set" =>
                      /\ W.sheets = <<>> => Phase(W) = "trying"
                      /\ W.sheets = <<"error">> => Phase(W) = "error"
                      /\ W.sheets \in {<<"key">>, <<"password">>} => Phase(W) = "asking"
<1>1. \A x \in {"succeeded", "failed"} : W.told = <<x>> => Phase(W) = x
  BY DEF Phase
<1>2. W.told = <<>> => /\ ~(Len(W.told) > 1) /\ W.told = <<>>
  OBVIOUS
<1>3. ASSUME NEW q \in {"key", "password", "error"}, W.sheets = <<q>>
      PROVE  W.sheets # <<>> /\ Head(W.sheets) = q
  BY <1>3
<1> QED BY <1>1, <1>2, <1>3 DEF Phase

LEMMA SamePhase ==
    ASSUME NEW W, NEW V, SaysSame(W, V)
    PROVE  Phase(V) = Phase(W)
  BY DEF SaysSame, Phase

\* One attempt goes on, the others stay as they are.
Goers(d, e, w) ==
    /\ \A v \in Waiters \ {w} : SaysSame(d.waiter[v], e.waiter[v])
    /\ \/ e.current = d.current
       \/ d.current \in {w, None} /\ e.current \in {w, None}
    /\ \A t \in Waiters :
          \/ Brief(e, t)
          \/ /\ Rests(d.tunnel[t], e.tunnel[t])
             /\ t = w => e.waiter[w].sheets \in {d.waiter[w].sheets, <<>>}

LEMMA OneGoes ==
    ASSUME NEW d, NEW e, NEW w \in Waiters, Promising(d), Goers(d, e, w), Promised(e, w),
           Advances(Phase(d.waiter[w]), Phase(e.waiter[w]))
    PROVE  Promising(e) /\ Tells(d, e)
<1>1. ASSUME NEW v \in Waiters \ {w} PROVE Promised(e, v)
  <2>1. Promised(d, v) /\ SaysSame(d.waiter[v], e.waiter[v])
    BY DEF Promising, Goers
  <2>2. \/ e.current = d.current
        \/ d.current \in {w, None} /\ e.current \in {w, None}
    BY DEF Goers
  <2> QED BY <2>1, <2>2, Names DEF Promised, SaysSame
<1>2. ASSUME NEW t \in Waiters PROVE Brief(e, t)
  <2>1. Brief(d, t)
    BY DEF Promising
  <2>2. CASE Brief(e, t)
    BY <2>2
  <2>3. CASE /\ Rests(d.tunnel[t], e.tunnel[t])
             /\ t = w => e.waiter[w].sheets \in {d.waiter[w].sheets, <<>>}
    <3>1. e.waiter[t].sheets \in {d.waiter[t].sheets, <<>>}
      BY <2>3 DEF Goers, SaysSame
    <3> QED BY <2>1, <2>3, <3>1 DEF Rests, Brief, Early
  <2> QED BY <2>2, <2>3 DEF Goers
<1>3. Tells(d, e)
  <2>1. \A v \in Waiters \ {w} : Phase(e.waiter[v]) = Phase(d.waiter[v])
    BY SamePhase DEF Goers
  <2> QED BY <2>1 DEF Tells
<1>4. Promising(e)
  BY <1>1, <1>2 DEF Promising
<1> QED BY <1>3, <1>4

LEMMA NoneGoes ==
    ASSUME NEW d, NEW e, Promising(d), e.current = d.current,
           \A v \in Waiters : SaysSame(d.waiter[v], e.waiter[v]),
           \A t \in Waiters : Rests(d.tunnel[t], e.tunnel[t])
    PROVE  Promising(e) /\ \A v \in Waiters : Phase(e.waiter[v]) = Phase(d.waiter[v])
<1>1. ASSUME NEW v \in Waiters PROVE Promised(e, v) /\ Brief(e, v)
  <2>1. Promised(d, v) /\ Brief(d, v) /\ SaysSame(d.waiter[v], e.waiter[v])
    BY DEF Promising
  <2>2. Promised(e, v)
    BY <2>1 DEF Promised, SaysSame
  <2>3. Brief(e, v)
    BY <2>1 DEF Brief, SaysSame, Rests, Early
  <2> QED BY <2>2, <2>3
<1>2. \A v \in Waiters : Phase(e.waiter[v]) = Phase(d.waiter[v])
  BY SamePhase
<1> QED BY <1>1, <1>2 DEF Promising

\* What is asked of a step.
Answering == Promising(s') /\ Tells(s, s')

\* dealloc says nothing.
LEMMA SettledAnswers ==
    ASSUME NEW d \in StateType, Promising(d), Tells(s, d), s' = Settled(d)
    PROVE  Answering
<1> DEFINE e == Settled(d)
<1>1. /\ e.current = d.current
      /\ \A w \in Waiters : \/ e.waiter[w] = d.waiter[w]
                            \/ e.waiter[w] = [d.waiter[w] EXCEPT !.tunnel = None]
      /\ \A t \in Waiters : e.tunnel[t] = d.tunnel[t] \/ e.tunnel[t] = Close(d.tunnel[t])
  BY SettledIs DEF Rest
<1> HIDE DEF e
<1>2. ASSUME NEW w \in Waiters PROVE SaysSame(d.waiter[w], e.waiter[w])
  <2>1. d.waiter[w] \in WaiterType
    BY Typed
  <2> QED BY <1>1, <2>1 DEF SaysSame, WaiterType
<1>3. ASSUME NEW t \in Waiters PROVE Rests(d.tunnel[t], e.tunnel[t])
  <2>1. d.tunnel[t] \in TunnelType
    BY Typed
  <2> QED BY <1>1, <2>1, CloseIs DEF Rests
<1>4. Promising(e) /\ \A v \in Waiters : Phase(e.waiter[v]) = Phase(d.waiter[v])
  BY <1>1, <1>2, <1>3, NoneGoes
<1>5. Tells(s, e)
  <2> HIDE DEF Phase
  <2> QED BY <1>4 DEF Tells
<1> QED BY <1>4, <1>5 DEF Answering, e

LEMMA TrustyHas ==
    ASSUME Trusty, NEW w \in Waiters
    PROVE  /\ Steady /\ Promising(s) /\ Promised(s, w) /\ Brief(s, w)
           /\ s \in StateType /\ s.waiter[w] \in WaiterType /\ s.tunnel[w] \in TunnelType
           /\ s.waiter[w].told \in Seq({"succeeded", "failed"})
<1>1. s \in StateType /\ Steady /\ Promising(s)
  BY SteadyHas DEF Trusty
<1>2. s.waiter[w] \in WaiterType /\ s.tunnel[w] \in TunnelType
  BY <1>1, Typed
<1> QED BY <1>1, <1>2 DEF Promising, WaiterType

\* A step of one tunnel tells nothing.
LEMMA TunnelAnswers ==
    ASSUME Trusty, s' \in StateType, NEW t \in Waiters, s'.current = s.current,
           \A w \in Waiters : SaysSame(s.waiter[w], s'.waiter[w]),
           \A u \in Waiters \ {t} : Rests(s.tunnel[u], s'.tunnel[u]),
           Rests(s.tunnel[t], s'.tunnel[t]) \/ Brief(s', t)
    PROVE  Answering
<1>1. Promising(s) /\ Promised(s, t)
  BY TrustyHas
<1>2. Goers(s, s', t)
  BY DEF Goers, SaysSame
<1>3. Promised(s', t)
  BY <1>1 DEF Promised, SaysSame
<1>4. Advances(Phase(s.waiter[t]), Phase(s'.waiter[t]))
  BY SamePhase DEF Advances
<1> QED BY <1>1, <1>2, <1>3, <1>4, OneGoes DEF Answering

LEMMA SshAsksAnswers ==
    ASSUME Trusty, NEW t \in Waiters, NEW q \in Questions, SshAsks(t, q)
    PROVE  Answering
<1> DEFINE T == s.tunnel[t]
           U == Asks(T, q)
<1>1. /\ s \in StateType /\ T \in TunnelType /\ Orderly(T) /\ Brief(s, t)
  BY TrustyHas, SteadyHas
<1>2. /\ T.ssh = "running" /\ ~T.loggedIn /\ s' = [s EXCEPT !.tunnel[t] = U]
  <2>1. CanAsk(T, q)
    BY DEF SshAsks
  <2>2. T.ssh = "running" /\ ~T.loggedIn
    BY <1>1, <2>1 DEF CanAsk, CanWork, Orderly
  <2> QED BY <2>2 DEF SshAsks
<1>3. /\ U \in TunnelType /\ U.state = T.state /\ U.ssh = T.ssh /\ U.asks = q
      /\ U.err = Append(T.err, q)
  <2>1. U \in TunnelType
    BY <1>1, TunnelTypes
  <2> QED BY <1>1, <2>1 DEF TunnelType, Asks
<1> HIDE DEF U
<1>4. /\ s' \in StateType /\ s'.waiter = s.waiter /\ s'.current = s.current
      /\ \A u \in Waiters : s'.tunnel[u] = IF u = t THEN U ELSE s.tunnel[u]
  BY <1>1, <1>2, <1>3, SetTunnel, StateFields
<1>5. Brief(s', t)
  <2>1. T.state # "tunneling"
    BY <1>1, <1>2 DEF Orderly, Past
  <2>2. T.err \in Seq(Lines) /\ q \notin {"channel", "failed"}
    BY <1>1 DEF TunnelType, Questions
  <2>3. ASSUME NEW i \in DOMAIN U.err, U.err[i] # q
        PROVE  i \in DOMAIN T.err /\ U.err[i] = T.err[i]
    BY <1>3, <2>2, <2>3
  <2> QED BY <1>1, <1>2, <1>3, <1>4, <2>1, <2>2, <2>3 DEF Brief
<1> QED BY <1>4, <1>5, TunnelAnswers DEF SaysSame, Rests

LEMMA SshFailsAnswers ==
    ASSUME Trusty, "banner" \notin Mishaps, NEW t \in Waiters, SshFails(t)
    PROVE  Answering
<1> DEFINE T == s.tunnel[t]
           U == Fails(T, 1)
<1>1. /\ s \in StateType /\ T \in TunnelType /\ Orderly(T) /\ Brief(s, t)
  BY TrustyHas, SteadyHas
<1>2. /\ s' = [s EXCEPT !.tunnel[t] = U] /\ T.ssh = "running" /\ ~T.loggedIn
      /\ T.asks \in {"new", "no"}
  <2>1. PICK n \in 1..2 : n # 2 /\ s' = [s EXCEPT !.tunnel[t] = Fails(@, n)]
    BY DEF SshFails
  <2>2. n = 1
    BY <2>1
  <2> QED BY <2>1, <2>2 DEF SshFails, CanWork
<1>3. /\ U \in TunnelType /\ U.state = T.state /\ U.ssh = T.ssh /\ U.asks = "again"
      /\ U.err = T.err \o [i \in 1..1 |-> "failed"]
  <2>1. U \in TunnelType
    BY <1>1, TunnelTypes
  <2> QED BY <1>1, <2>1 DEF TunnelType, Fails
<1> HIDE DEF U
<1>4. /\ s' \in StateType /\ s'.waiter = s.waiter /\ s'.current = s.current
      /\ \A u \in Waiters : s'.tunnel[u] = IF u = t THEN U ELSE s.tunnel[u]
  BY <1>1, <1>2, <1>3, SetTunnel, StateFields
<1>5. Brief(s', t)
  <2>1. T.state # "tunneling"
    BY <1>1, <1>2 DEF Orderly, Past
  <2>2. ASSUME T.state = "opening"
        PROVE  \A i \in DOMAIN U.err : U.err[i] = "failed" /\ i = 1
    <3>1. Of(T, Lines \ {"eof"}) /\ Of(T, {"eof"})
      BY <1>1, <1>2, <2>2 DEF Orderly, Early
    <3>2. T.err = <<>>
      BY <1>1, <3>1, WithoutLines
    <3>3. U.err = <<"failed">>
      BY <1>3, <3>2
    <3> QED BY <3>3
  <2> QED BY <1>3, <1>4, <2>1, <2>2 DEF Brief
<1> QED BY <1>4, <1>5, TunnelAnswers DEF SaysSame, Rests

LEMMA SshLogsInAnswers ==
    ASSUME Trusty, NEW t \in Waiters, SshLogsIn(t)
    PROVE  Answering
<1> DEFINE T == s.tunnel[t]
           U == LogsIn(T)
<1>1. s \in StateType /\ T \in TunnelType
  BY TrustyHas
<1>2. s' = [s EXCEPT !.tunnel[t] = U]
  BY DEF SshLogsIn
<1>3. U \in TunnelType
  BY <1>1, TunnelTypes
<1>4. U.state = T.state /\ U.ssh = T.ssh /\ U.asks = T.asks /\ U.err = T.err
  BY <1>1 DEF TunnelType, LogsIn
<1> HIDE DEF U
<1>5. /\ s' \in StateType /\ s'.waiter = s.waiter /\ s'.current = s.current
      /\ \A u \in Waiters : s'.tunnel[u] = IF u = t THEN U ELSE s.tunnel[u]
  BY <1>1, <1>2, <1>3, SetTunnel, StateFields
<1> QED BY <1>4, <1>5, TunnelAnswers DEF SaysSame, Rests

LEMMA SshEndsAnswers ==
    ASSUME Trusty, "quit" \notin Mishaps, "killed" \notin Mishaps,
           NEW t \in Waiters, SshEnds(t)
    PROVE  Answering
<1> DEFINE T == s.tunnel[t]
           U == Ends(T)
<1>1. /\ s \in StateType /\ T \in TunnelType /\ Orderly(T) /\ Brief(s, t)
      /\ T.ssh = "running" /\ T.err \in Seq(Lines)
  BY TrustyHas, SteadyHas DEF SshEnds, TunnelType
<1>2. s'.waiter = s.waiter /\ T.state # "tunneling"
  BY SshEndsGoes DEF Trusty
<1>3. /\ s' \in StateType /\ s'.current = s.current
      /\ \A u \in Waiters : s'.tunnel[u] = IF u = t THEN U ELSE s.tunnel[u]
  BY <1>1, SshEndsIs DEF Rest
<1>4. U.state = T.state /\ U.asks = T.asks /\ U.err = Append(T.err, "eof")
  BY <1>1 DEF TunnelType, Ends
<1> HIDE DEF U
<1>5. T.state \in Early => T.asks # "key"
  <2> SUFFICES ASSUME T.state \in Early, T.asks = "key" PROVE FALSE
    OBVIOUS
  <2>1. ~MustEnd(T)
    BY <1>1 DEF MustEnd, Orderly, Early
  <2>2. MayEnd(t)
    BY <2>1 DEF SshEnds
  <2> QED BY <2>2 DEF MayEnd
<1>6. Brief(s', t)
  <2>1. ASSUME NEW i \in DOMAIN U.err, U.err[i] # "eof"
        PROVE  i \in DOMAIN T.err /\ U.err[i] = T.err[i]
    BY <1>1, <1>4, <2>1
  <2> QED BY <1>1, <1>2, <1>3, <1>4, <1>5, <2>1 DEF Brief
<1> QED BY <1>2, <1>3, <1>6, TunnelAnswers DEF SaysSame, Rests

LEMMA SshTerminatedAnswers ==
    ASSUME Trusty, NEW t \in Waiters, SshTerminated(t)
    PROVE  Answering
<1>1. s \in StateType
  BY TrustyHas
<1>2. /\ s' \in StateType /\ s'.waiter = s.waiter /\ s'.current = s.current
      /\ \A u \in Waiters : \/ s'.tunnel[u] = s.tunnel[u]
                            \/ s'.tunnel[u] = [s.tunnel[u] EXCEPT !.port = NoPort, !.fifo = FALSE]
  BY <1>1, SshTerminatedIs
<1>3. ASSUME NEW u \in Waiters PROVE Rests(s.tunnel[u], s'.tunnel[u])
  <2>1. s.tunnel[u] \in TunnelType
    BY TrustyHas
  <2> QED BY <1>2, <2>1 DEF Rests, TunnelType
<1> QED BY <1>2, <1>3, TunnelAnswers DEF SaysSame

LEMMA WaitForDataAnswers ==
    ASSUME Trusty, NEW w \in Waiters, WaitForData(w)
    PROVE  Answering
<1> DEFINE W == s.waiter[w]
<1>1. s \in StateType /\ W \in WaiterType
  BY TrustyHas
<1>2. PICK m \in {"data", "closed"} : s' = [s EXCEPT !.waiter[w].thread = m]
  BY DEF WaitForData
<1> DEFINE V == [W EXCEPT !.thread = m]
<1>3. V \in WaiterType /\ s' = [s EXCEPT !.waiter[w] = V] /\ SaysSame(W, V)
  BY <1>1, <1>2 DEF WaiterType, StateType, SaysSame
<1> HIDE DEF V
<1>4. /\ s' \in StateType /\ s'.tunnel = s.tunnel /\ s'.current = s.current
      /\ \A u \in Waiters : s'.waiter[u] = IF u = w THEN V ELSE s.waiter[u]
  BY <1>1, <1>3, SetWaiter, StateFields
<1> QED BY <1>3, <1>4, TunnelAnswers DEF SaysSame, Rests

\* Of an attempt that has not answered: what it may show next.
LEMMA ShowsError ==
    ASSUME NEW W, NEW V, W.delegate = "set", W.told = <<>>, W.sheets = <<>>,
           V.delegate = "set", V.told = <<>>, V.sheets = Append(<<>>, "error")
    PROVE  Advances(Phase(W), Phase(V)) /\ V.sheets = <<"error">>
<1>1. V.sheets = <<"error">> /\ <<>> \in Seq({"succeeded", "failed"})
  OBVIOUS
<1>2. Phase(W) = "trying" /\ Phase(V) = "error"
  BY <1>1, PhaseIs
<1> QED BY <1>1, <1>2 DEF Advances, Delegates!Steps

LEMMA HangsUpAnswers ==
    ASSUME Trusty, NEW w \in Waiters, HangsUp(w)
    PROVE  Answering
<1> DEFINE W == s.waiter[w]
           V == [W EXCEPT !.sock = "hup"]
           t == W.tunnel
<1>1. /\ s \in StateType /\ Steady /\ Inv /\ Attempt(s, w) /\ Left(s)
      /\ \A u \in Waiters : Fit(s, u)
  BY TrustyHas, SteadyHas DEF Steady
<1>2. /\ W.sock = "open" /\ V.delegate = W.delegate /\ V.sheets = W.sheets
      /\ V.told = W.told /\ s' \in StateType /\ Rest(s, s')
      /\ s'.waiter = [s.waiter EXCEPT ![w] = V]
      /\ \/ s'.tunnel = s.tunnel
         \/ t \in Waiters /\ s'.tunnel = [s.tunnel EXCEPT ![t] = Complains(s.tunnel[t])]
  BY <1>1, HangsUpIs
<1> HIDE DEF V
<1>3. \A u \in Waiters : SaysSame(s.waiter[u], s'.waiter[u])
  BY <1>1, <1>2, StateFields DEF SaysSame
<1>4. CASE s'.tunnel = s.tunnel
  BY <1>2, <1>3, <1>4, TunnelAnswers DEF Rest, Rests
<1>5. CASE t \in Waiters /\ s'.tunnel = [s.tunnel EXCEPT ![t] = Complains(s.tunnel[t])]
  <2> DEFINE T == s.tunnel[t]
             U == Complains(T)
  <2>1. /\ Live(s, w) /\ T.state \in Past /\ T.err = <<>> /\ W.sheets = <<>>
        /\ s.current = w
    BY <1>1, <1>2, <1>5 DEF Attempt, Live, Usable
  <2>2. T \in TunnelType
    BY <1>5, TrustyHas
  <2>3. U.state = T.state /\ U.err = <<"channel">>
    BY <2>1, <2>2 DEF Complains, TunnelType
  <2> HIDE DEF U
  <2>4. \A u \in Waiters : s'.tunnel[u] = IF u = t THEN U ELSE s.tunnel[u]
    BY <1>1, <1>5, StateFields DEF U
  <2>5. T.state = "tunneling" => t = w
    <3> SUFFICES ASSUME T.state = "tunneling" PROVE t = w
      OBVIOUS
    <3>1. s.waiter[t].tunnel = t
      BY <1>1, <1>5 DEF Fit
    <3>2. s.current = t
      BY <1>1, <1>5, <3>1, Names DEF Left, Closing
    <3> QED BY <2>1, <3>2
  <2>6. Brief(s', t)
    <3>1. T.state = "tunneling" => s'.waiter[t].sheets = <<>>
      BY <1>3, <2>1, <2>5 DEF SaysSame
    <3>2. U.state \in Past /\ Len(U.err) = 1
      BY <2>1, <2>3
    <3> HIDE DEF t, T
    <3>3. s'.tunnel[t] = U
      BY <1>5, <2>4
    <3> QED BY <2>3, <3>1, <3>2, <3>3 DEF Brief, Past, Early
  <2> HIDE DEF t
  <2> QED BY <1>2, <1>3, <1>5, <2>4, <2>6, TunnelAnswers DEF Rest, Rests
<1> QED BY <1>2, <1>4, <1>5

LEMMA ReadStdoutAnswers ==
    ASSUME Trusty, NEW t \in Waiters, ReadStdout(t)
    PROVE  Answering
<1> DEFINE T == s.tunnel[t]
           W == s.waiter[t]
           B == [T EXCEPT !.blank = FALSE]
           N == [B EXCEPT !.state = "tunneling", !.fifo = FALSE]
<1>1. /\ s \in StateType /\ T \in TunnelType /\ W \in WaiterType /\ Steady /\ Promising(s)
  BY TrustyHas
<1>2. CASE T.state # "opening"
  <2>1. s' = [s EXCEPT !.tunnel[t] = B]
    BY <1>1, <1>2 DEF ReadStdout, StateType
  <2>2. B \in TunnelType /\ Rests(T, B)
    BY <1>1 DEF TunnelType, Rests
  <2> HIDE DEF B
  <2>3. /\ s' \in StateType /\ s'.waiter = s.waiter /\ s'.current = s.current
        /\ \A u \in Waiters : s'.tunnel[u] = IF u = t THEN B ELSE s.tunnel[u]
    BY <1>1, <2>1, <2>2, SetTunnel, StateFields
  <2> QED BY <2>2, <2>3, TunnelAnswers DEF SaysSame, Rests
<1>3. CASE T.state = "opening"
  <2>1. /\ T.err = <<>> /\ s.current = t /\ AsksUser(T, W, t) /\ W.sheets = <<>>
        /\ \E n : /\ OnlyTunnel(s, n, t, N) /\ MaySwap(s, t, N)
                  /\ \/ OnlyWaiter(n, s', t, [W EXCEPT !.sock = "open", !.thread = "poll"])
                     \/ OnlyWaiter(n, s', t, Shown(W))
    BY <1>1, <1>3, ReadStdoutIs
  <2>2. PICK n : /\ OnlyTunnel(s, n, t, N)
                 /\ \/ OnlyWaiter(n, s', t, [W EXCEPT !.sock = "open", !.thread = "poll"])
                    \/ OnlyWaiter(n, s', t, Shown(W))
    BY <2>1
  <2>3. W.delegate = "set" /\ W.told = <<>>
    BY <2>1 DEF AsksUser, Waiting
  <2>4. N.state = "tunneling" /\ N.err = <<>>
    BY <1>1, <2>1 DEF TunnelType
  <2> HIDE DEF N
  <2>5. PICK V : /\ OnlyWaiter(n, s', t, V) /\ V.delegate = "set" /\ V.told = <<>>
                 /\ V.sheets = <<>> \/ V.sheets = Append(<<>>, "error")
    <3>1. CASE OnlyWaiter(n, s', t, [W EXCEPT !.sock = "open", !.thread = "poll"])
      <4> DEFINE X == [W EXCEPT !.sock = "open", !.thread = "poll"]
      <4>1. X.delegate = "set" /\ X.told = <<>> /\ X.sheets = <<>>
        BY <1>1, <2>1, <2>3 DEF WaiterType
      <4> HIDE DEF X
      <4> QED BY <3>1, <4>1 DEF X
    <3>2. CASE OnlyWaiter(n, s', t, Shown(W))
      <4> DEFINE X == Shown(W)
      <4>1. X.delegate = W.delegate /\ X.told = W.told /\ X.sheets = Append(W.sheets, "error")
        BY <1>1, <2>3, ShownIs
      <4> HIDE DEF X
      <4>2. X.delegate = "set" /\ X.told = <<>> /\ X.sheets = Append(<<>>, "error")
        BY <2>1, <2>3, <4>1
      <4> QED BY <3>2, <4>2 DEF X
    <3> QED BY <2>2, <3>1, <3>2
  <2>6. /\ \A u \in Waiters : /\ s'.tunnel[u] = IF u = t THEN N ELSE s.tunnel[u]
                              /\ s'.waiter[u] = IF u = t THEN V ELSE s.waiter[u]
        /\ s'.current = t
    <3>1. /\ s'.tunnel = [s.tunnel EXCEPT ![t] = N] /\ s'.waiter = [s.waiter EXCEPT ![t] = V]
          /\ s'.current = t
      BY <2>1, <2>2, <2>5 DEF OnlyTunnel, OnlyWaiter, Rest
    <3> QED BY <1>1, <3>1, StateFields
  <2>7. Advances(Phase(W), Phase(V)) /\ V.sheets \in {<<>>, <<"error">>}
    <3>1. CASE V.sheets = <<>>
      BY <2>1, <2>3, <2>5, <3>1, SamePhase DEF SaysSame, Advances
    <3>2. CASE V.sheets = Append(<<>>, "error")
      BY <2>1, <2>3, <2>5, <3>2, ShowsError
    <3> QED BY <2>5, <3>1, <3>2
  <2>8. Promised(s', t)
    BY <2>5, <2>6, <2>7 DEF Promised
  <2>9. Goers(s, s', t)
    <3>1. Brief(s', t)
      BY <2>4, <2>6 DEF Brief, Early
    <3> QED BY <2>1, <2>6, <3>1 DEF Goers, SaysSame, Rests
  <2>10. Advances(Phase(s.waiter[t]), Phase(s'.waiter[t]))
    BY <2>6, <2>7
  <2> QED BY <1>1, <2>8, <2>9, <2>10, OneGoes DEF Answering
<1> QED BY <1>2, <1>3

LEMMA ServerClosedAnswers ==
    ASSUME Trusty, NEW w \in Waiters, ServerClosed(w)
    PROVE  Answering
<1> DEFINE W == s.waiter[w]
           V == [W EXCEPT !.thread = "none", !.timer = ~W.failed]
           d == [s EXCEPT !.waiter[w] = V]
<1>1. s \in StateType /\ W \in WaiterType /\ Promising(s)
  BY TrustyHas
<1>2. V \in WaiterType /\ SaysSame(W, V)
  BY <1>1 DEF WaiterType, SaysSame
<1>3. s' = Settled(d)
  BY <1>1 DEF ServerClosed, StateType
<1> HIDE DEF V
<1>4. /\ d \in StateType /\ d.tunnel = s.tunnel /\ d.current = s.current
      /\ \A u \in Waiters : d.waiter[u] = IF u = w THEN V ELSE s.waiter[u]
  BY <1>1, <1>2, SetWaiter, StateFields
<1> HIDE DEF d
<1>5. Promising(d) /\ \A v \in Waiters : Phase(d.waiter[v]) = Phase(s.waiter[v])
  BY <1>1, <1>2, <1>4, NoneGoes DEF SaysSame, Rests
<1> QED BY <1>3, <1>4, <1>5, SettledAnswers DEF Tells

LEMMA ServerClosedNoReasonAnswers ==
    ASSUME Trusty, NEW w \in Waiters, ServerClosedNoReason(w)
    PROVE  Answering
<1> DEFINE W == s.waiter[w]
           V == [W EXCEPT !.timer = FALSE]
           d == [s EXCEPT !.waiter[w] = V]
           e == Error(d, w)
           X == Shown(V)
           t == W.tunnel
           f == CloseTunnel(e, t)
<1>1. /\ s \in StateType /\ W \in WaiterType /\ Attempt(s, w) /\ W.timer
      /\ t \in Waiters \cup {None} /\ Promising(s) /\ Promised(s, w)
  BY TrustyHas, SteadyHas DEF ServerClosedNoReason
<1>2. /\ V \in WaiterType /\ V.delegate = W.delegate /\ V.sheets = W.sheets
      /\ V.told = W.told
  BY <1>1 DEF WaiterType
<1>3. s' = Settled(f)
  BY <1>1 DEF ServerClosedNoReason, StateType
<1> HIDE DEF V
<1>4. OnlyWaiter(s, d, w, V)
  BY <1>1, <1>2, SetWaiter DEF OnlyWaiter, Rest
<1> HIDE DEF d
<1>5. d \in StateType /\ d.waiter[w] = V
  BY <1>1, <1>4, StateFields DEF OnlyWaiter
<1>6. /\ X.delegate = W.delegate /\ X.told = W.told
      /\ X.sheets = IF W.delegate = "set" THEN Append(W.sheets, "error") ELSE W.sheets
  BY <1>2, ShownIs
<1>7. OnlyWaiter(d, e, w, X)
  BY <1>5, ErrorIs
<1> HIDE DEF e, X
<1>8. /\ e \in StateType /\ e.tunnel = s.tunnel /\ e.current = s.current
      /\ \A u \in Waiters : e.waiter[u] = IF u = w THEN X ELSE s.waiter[u]
  BY <1>1, <1>4, <1>7, StateFields DEF OnlyWaiter, Rest
<1>9. /\ f \in StateType /\ f.current = s.current /\ f.waiter = e.waiter
      /\ \A u \in Waiters : f.tunnel[u] = IF u = t THEN Close(s.tunnel[u]) ELSE s.tunnel[u]
  BY <1>1, <1>8, CloseTunnelIs DEF Rest
<1> HIDE DEF f, t
<1>10. \A u \in Waiters : Rests(s.tunnel[u], f.tunnel[u])
  <2>1. \A u \in Waiters : Close(s.tunnel[u]).state = "closing"
    BY TrustyHas, CloseIs
  <2> QED BY <1>9, <2>1 DEF Rests
<1>11. CASE W.delegate # "set"
  <2>1. \A u \in Waiters : SaysSame(s.waiter[u], f.waiter[u])
    BY <1>6, <1>8, <1>9, <1>11 DEF SaysSame
  <2>2. Promising(f) /\ \A v \in Waiters : Phase(f.waiter[v]) = Phase(s.waiter[v])
    BY <1>1, <1>9, <1>10, <2>1, NoneGoes
  <2> HIDE DEF W
  <2> QED BY <1>3, <1>9, <2>2, SettledAnswers DEF Tells
<1>12. CASE W.delegate = "set"
  <2>1. s.current = w /\ W.sheets = <<>> /\ W.told = <<>>
    BY <1>1, <1>12 DEF Attempt, Promised
  <2>2. X.delegate = "set" /\ X.told = <<>> /\ X.sheets = Append(<<>>, "error")
    BY <1>6, <1>12, <2>1
  <2>3. Advances(Phase(W), Phase(X)) /\ X.sheets = <<"error">>
    BY <1>12, <2>1, <2>2, ShowsError
  <2>4. f.waiter[w] = X
    BY <1>8, <1>9
  <2>5. Promised(f, w)
    BY <1>9, <2>1, <2>2, <2>3, <2>4 DEF Promised
  \* The attempt of a tunnel that is not closed yet is this one.
  <2>6. ASSUME s.tunnel[w].state = "tunneling" PROVE t = w
    <3>1. Fit(s, w)
      BY SteadyHas DEF Trusty
    <3> QED BY <2>6, <3>1, Names DEF Fit, t
  <2>7. Brief(f, w)
    <3>1. Brief(s, w)
      BY TrustyHas
    <3>2. CASE f.tunnel[w] = s.tunnel[w] /\ s.tunnel[w].state # "tunneling"
      BY <3>1, <3>2 DEF Brief
    <3>3. CASE f.tunnel[w].state = "closing"
      BY <3>3 DEF Brief, Early
    <3>4. Close(s.tunnel[w]).state = "closing"
      BY TrustyHas, CloseIs
    <3> QED BY <1>9, <2>6, <3>2, <3>3, <3>4
  <2>8. Goers(s, f, w)
    BY <1>8, <1>9, <1>10, <2>7 DEF Goers, SaysSame
  <2>9. Advances(Phase(s.waiter[w]), Phase(f.waiter[w]))
    BY <2>3, <2>4
  <2>10. Promising(f) /\ Tells(s, f)
    BY <1>1, <2>5, <2>8, <2>9, OneGoes
  <2> QED BY <1>3, <1>9, <2>10, SettledAnswers
<1> QED BY <1>11, <1>12

LEMMA FinishConnectionAnswers ==
    ASSUME Trusty, NEW w \in Waiters, FinishConnection(w)
    PROVE  Answering
<1> DEFINE W == s.waiter[w]
           t == W.tunnel
<1>1. /\ s \in StateType /\ W \in WaiterType /\ Attempt(s, w) /\ W.thread = "data"
      /\ Promising(s)
  BY TrustyHas, SteadyHas DEF FinishConnection
<1>2. CASE W.delegate # "set"
  <2> DEFINE V == [W EXCEPT !.thread = "none"]
             d == [s EXCEPT !.waiter[w] = V]
  <2>1. V \in WaiterType /\ SaysSame(W, V)
    BY <1>1 DEF WaiterType, SaysSame
  <2>2. s' = Settled(d)
    <3>1. d = [s EXCEPT !.waiter[w].thread = "none"] /\ d.waiter[w].delegate = W.delegate
      BY <1>1 DEF StateType, WaiterType
    <3> QED BY <1>2, <3>1 DEF FinishConnection
  <2> HIDE DEF V
  <2>3. /\ d \in StateType /\ d.tunnel = s.tunnel /\ d.current = s.current
        /\ \A u \in Waiters : d.waiter[u] = IF u = w THEN V ELSE s.waiter[u]
    BY <1>1, <2>1, SetWaiter, StateFields
  <2> HIDE DEF d
  <2>4. Promising(d) /\ \A v \in Waiters : Phase(d.waiter[v]) = Phase(s.waiter[v])
    BY <1>1, <2>1, <2>3, NoneGoes DEF SaysSame, Rests
  <2> QED BY <2>2, <2>3, <2>4, SettledAnswers DEF Tells
<1>3. CASE W.delegate = "set"
  <2>1. s.current = w /\ W.sheets = <<>> /\ W.told = <<>>
    BY <1>1, <1>3 DEF Attempt, Live
  <2>2. PICK e \in StateType :
           /\ s' = Settled(e) /\ e.current = None
           /\ \A u \in Waiters :
                 /\ u # w => e.waiter[u] = s.waiter[u]
                 /\ \/ e.tunnel[u] = s.tunnel[u]
                    \/ e.tunnel[u] = SshTunnelConnected(s.tunnel[u])
           /\ e.waiter[w].delegate = "set" /\ e.waiter[w].sheets = <<>>
           /\ e.waiter[w].told = Append(<<>>, "succeeded")
    <3>1. PICK e \in StateType :
             /\ s' = Settled(e) /\ e.portUsed = s.portUsed /\ e.current = None
             /\ e.connected = TRUE /\ e.kept = IF s.kept = None THEN t ELSE s.kept
             /\ \A u \in Waiters :
                   /\ u # w => e.waiter[u] = s.waiter[u]
                   /\ u # t => e.tunnel[u] = s.tunnel[u]
                   /\ u = t => e.tunnel[u] = SshTunnelConnected(s.tunnel[u])
             /\ e.waiter[w].delegate = "set" /\ e.waiter[w].tunnel = None
             /\ e.waiter[w].thread = "none" /\ e.waiter[w].sock = "none"
             /\ e.waiter[w].told = Append(W.told, "succeeded")
             /\ e.waiter[w].sheets = W.sheets /\ e.waiter[w].timer = W.timer
             /\ e.waiter[w].failed = W.failed
      BY <1>1, <1>3, FinishConnectionIs
    <3> HIDE DEF t, W
    <3> QED BY <2>1, <3>1
  <2> DEFINE V == e.waiter[w]
  <2>3. V.told = <<"succeeded">> /\ V.told \in Seq({"succeeded", "failed"})
    BY <2>2
  <2>4. Phase(W) = "trying" /\ Phase(V) = "succeeded"
    <3>1. W.told \in Seq({"succeeded", "failed"})
      BY <1>1 DEF WaiterType
    <3> HIDE DEF W, V
    <3> QED BY <1>3, <2>1, <2>3, <3>1, PhaseIs
  <2>5. Promised(e, w)
    BY <2>2, <2>3, Names DEF Promised
  <2>6. ASSUME NEW u \in Waiters
        PROVE  Rests(s.tunnel[u], e.tunnel[u]) \/ Brief(e, u)
    <3>1. s.tunnel[u] \in TunnelType
      BY TrustyHas
    <3>2. SshTunnelConnected(s.tunnel[u]).state = "open"
      BY <3>1 DEF SshTunnelConnected, TunnelType
    <3> QED BY <2>2, <3>2 DEF Rests, Brief, Early
  <2>7. Goers(s, e, w)
    BY <2>1, <2>2, <2>6 DEF Goers, SaysSame
  <2>8. Advances(Phase(s.waiter[w]), Phase(e.waiter[w]))
    BY <2>4 DEF Advances, Delegates!Steps
  <2>9. Promising(e) /\ Tells(s, e)
    BY <1>1, <2>5, <2>7, <2>8, OneGoes
  <2> QED BY <2>2, <2>9, SettledAnswers
<1> QED BY <1>2, <1>3

\* The attempt whose sheet is up.
LEMMA SheetIsUp ==
    ASSUME Trusty, NEW w \in Waiters, s.waiter[w].sheets # <<>>
    PROVE  LET W == s.waiter[w] IN
           /\ s.current = w /\ W.delegate = "set" /\ W.told = <<>>
           /\ Tail(W.sheets) = <<>>
           /\ Phase(W) = IF Head(W.sheets) = "error" THEN "error" ELSE "asking"
<1> DEFINE W == s.waiter[w]
<1>1. /\ s \in StateType /\ Attempt(s, w) /\ Promised(s, w)
      /\ W.told \in Seq({"succeeded", "failed"})
  BY TrustyHas, SteadyHas
<1>2. s.current = w /\ W.delegate = "set" /\ W.told = <<>>
  BY <1>1 DEF Promised, Attempt
<1>3. PICK q \in {"key", "password", "error"} : W.sheets = <<q>>
  BY <1>1 DEF Promised
<1>4. Tail(<<q>>) = <<>> /\ Head(<<q>>) = q
  OBVIOUS
<1>5. Phase(W) = IF q = "error" THEN "error" ELSE "asking"
  <2> HIDE DEF W
  <2> QED BY <1>1, <1>2, <1>3, PhaseIs
<1> QED BY <1>2, <1>3, <1>4, <1>5

\* The delegate hears of a failure once the sheet is gone.
LEMMA SheetFailsAnswers ==
    ASSUME Trusty, NEW w \in Waiters, NEW d, SheetEnded(d, w),
           s' = Settled(ConnectionFailed(d, w))
    PROVE  Answering
<1> DEFINE f == ConnectionFailed(d, w)
           W == s.waiter[w]
           V == d.waiter[w]
           X == f.waiter[w]
<1>1. /\ s \in StateType /\ W \in WaiterType /\ W.sheets # <<>> /\ Promising(s)
      /\ d \in StateType /\ V \in WaiterType
  BY TrustyHas, StateFields DEF SheetEnded
<1>2. /\ s.current = w /\ W.delegate = "set" /\ W.told = <<>> /\ Tail(W.sheets) = <<>>
      /\ Phase(W) \in {"error", "asking"}
  BY <1>1, SheetIsUp
<1>3. V.delegate = "set" /\ V.sheets = <<>> /\ V.told = <<>>
  BY <1>1, <1>2 DEF SheetEnded, WaiterType
<1>4. /\ f \in StateType /\ f.current = None
      /\ X.delegate = V.delegate /\ X.sheets = V.sheets /\ X.told = Append(V.told, "failed")
      /\ \A u \in Waiters :
            /\ u # w => f.waiter[u] = d.waiter[u]
            /\ f.tunnel[u] = IF u = d.kept THEN Close(d.tunnel[u]) ELSE d.tunnel[u]
  <2> DEFINE Y == [V EXCEPT !.told = Append(@, "failed")]
  <2>1. /\ f \in StateType /\ f.current = None
        /\ Y.delegate = V.delegate /\ Y.sheets = V.sheets
        /\ Y.told = Append(V.told, "failed")
        /\ \A u \in Waiters :
              /\ f.waiter[u] = IF u = w THEN Y ELSE d.waiter[u]
              /\ f.tunnel[u] = IF u = d.kept THEN Close(d.tunnel[u]) ELSE d.tunnel[u]
    BY <1>1, ConnectionFailedIs
  <2> HIDE DEF f, Y, V
  <2>2. X = Y
    BY <2>1
  <2> QED BY <2>1, <2>2
<1> HIDE DEF f, V
<1>5. /\ X.told = <<"failed">> /\ X.told \in Seq({"succeeded", "failed"})
      /\ X.delegate = "set" /\ X.sheets = <<>>
  BY <1>3, <1>4
<1>6. Phase(X) = "failed"
  BY <1>5, PhaseIs
<1>7. Promised(f, w)
  BY <1>4, <1>5, Names DEF Promised
<1>8. ASSUME NEW u \in Waiters PROVE Rests(s.tunnel[u], f.tunnel[u])
  <2>1. d.tunnel[u] \in TunnelType
    BY <1>1, Typed
  <2>2. Close(d.tunnel[u]).state = "closing"
    BY <2>1, CloseIs
  <2> QED BY <1>4, <2>2 DEF SheetEnded, Rests
<1>9. Goers(s, f, w)
  BY <1>2, <1>4, <1>5, <1>8 DEF Goers, SaysSame, SheetEnded
<1>10. Advances(Phase(s.waiter[w]), Phase(f.waiter[w]))
  BY <1>2, <1>6 DEF Advances, Delegates!Steps
<1>11. Promising(f) /\ Tells(s, f)
  BY <1>1, <1>7, <1>9, <1>10, OneGoes
<1> QED BY <1>4, <1>11, SettledAnswers DEF f

LEMMA ErrorDidEndAnswers ==
    ASSUME Trusty, NEW w \in Waiters, ErrorDidEnd(w)
    PROVE  Answering
<1>1. /\ Sheet(w, "error") /\ s' = Settled(ConnectionFailed(EndSheet(w), w))
      /\ s \in StateType
  BY TrustyHas DEF ErrorDidEnd
<1>2. OnlyWaiter(s, EndSheet(w), w, [s.waiter[w] EXCEPT !.sheets = Tail(@)])
  BY <1>1, EndSheetIs
<1> DEFINE d == EndSheet(w)
<1> HIDE DEF d
<1>3. SheetEnded(d, w)
  BY <1>1, <1>2, StateFields DEF SheetEnded, OnlyWaiter, Sheet, Rest, d
<1> QED BY <1>1, <1>3, SheetFailsAnswers DEF d

LEMMA AuthCancelledAnswers ==
    ASSUME Trusty, NEW w \in Waiters, AuthCancelled(w)
    PROVE  Answering
<1> DEFINE t == s.waiter[w].tunnel
           e == EndSheet(w)
           c == CloseTunnel(e, t)
<1>1. /\ Sheet(w, "password") /\ s' = Settled(ConnectionFailed(c, w))
      /\ s \in StateType /\ t \in Waiters \cup {None} /\ Steady
  BY TrustyHas, SteadyHas DEF AuthCancelled
<1>2. OnlyWaiter(s, e, w, [s.waiter[w] EXCEPT !.sheets = Tail(@)])
  BY <1>1, EndSheetIs
<1> HIDE DEF e
<1>3. /\ c \in StateType /\ Rest(e, c) /\ c.waiter = e.waiter
      /\ \A u \in Waiters : c.tunnel[u] = IF u = t THEN Close(e.tunnel[u]) ELSE e.tunnel[u]
  BY <1>1, <1>2, CloseTunnelIs DEF OnlyWaiter
<1> HIDE DEF c
<1>4. ASSUME NEW u \in Waiters
      PROVE  Close(s.tunnel[u]).state = "closing" /\ Orderly(Close(s.tunnel[u]))
  BY <1>1, SteadyHas, CloseIs
<1>5. SheetEnded(c, w)
  BY <1>1, <1>2, <1>3, <1>4, StateFields DEF SheetEnded, OnlyWaiter, Rest, Sheet
<1> QED BY <1>1, <1>5, SheetFailsAnswers

\* What the user has answered reaches ssh, or it has ended.
LEMMA AnswerAnswers ==
    ASSUME Trusty, NEW w \in Waiters, NEW sheet \in Questions, Sheet(w, sheet), NEW e,
           NEW t, Answered(e, w, t, WriteToHelper(s.tunnel[t], "no"))
    PROVE  e \in StateType /\ Promising(e) /\ Tells(s, e)
<1> DEFINE W == s.waiter[w]
           T == s.tunnel[t]
           U == WriteToHelper(T, "no")
<1>1. Steady /\ s \in StateType /\ Promising(s) /\ t \in Waiters \cup {None}
  BY TrustyHas, SteadyHas DEF Answered
<1>2. /\ e \in StateType /\ Rest(s, e) /\ W.sheets # <<>>
      /\ e.waiter[w] = [W EXCEPT !.sheets = Tail(@)]
      /\ \A u \in Waiters \ {w} : e.waiter[u] = s.waiter[u]
      /\ \A u \in Waiters : e.tunnel[u] = IF u = t THEN U ELSE s.tunnel[u]
  <2> HIDE DEF U
  <2> QED BY <1>1, AnswerIs DEF U
<1> DEFINE V == e.waiter[w]
<1>3. /\ s.current = w /\ W.delegate = "set" /\ W.told = <<>> /\ Tail(W.sheets) = <<>>
      /\ Phase(W) = "asking"
  BY <1>2, SheetIsUp DEF Sheet, Questions
<1>4. V.delegate = "set" /\ V.told = <<>> /\ V.sheets = <<>>
  <2>1. W \in WaiterType
    BY TrustyHas
  <2> QED BY <1>2, <1>3, <2>1 DEF WaiterType
<1> HIDE DEF V
<1>5. Phase(V) = "trying"
  <2>1. V.told \in Seq({"succeeded", "failed"})
    BY <1>4
  <2> QED BY <1>4, <2>1, PhaseIs
<1>6. Promised(e, w)
  BY <1>4 DEF Promised, V
<1>7. ASSUME NEW u \in Waiters PROVE Rests(s.tunnel[u], e.tunnel[u]) \/ Brief(e, u)
  <2>1. CASE u # t
    BY <1>2, <2>1 DEF Rests
  <2>2. CASE u = t
    <3>1. T \in TunnelType /\ T.ssh # "none" /\ Brief(s, t)
      BY <1>1, <2>2, TunnelIsMade, TrustyHas DEF Answered
    <3>2. CASE T.state # "prompt"
      BY <1>2, <2>2, <3>2 DEF WriteToHelper, Rests
    <3>3. CASE T.state = "prompt"
      <4>1. U.asks \in {"no", T.asks} /\ U.state = "opening" /\ U.ssh = T.ssh /\ U.err = T.err
        BY <3>1, <3>3 DEF WriteToHelper, TunnelType
      <4>2. Of(T, {"eof"})
        BY <1>1, <2>2, <3>1, <3>3, PromptIs
      <4>3. e.tunnel[t] = U
        BY <1>2, <2>2
      <4> HIDE DEF T, U
      <4>4. Brief(e, t)
        BY <3>1, <3>3, <4>1, <4>2, <4>3 DEF Brief, Of, Early, T
      <4> QED BY <2>2, <4>4
    <3> QED BY <3>2, <3>3
  <2> QED BY <2>1, <2>2
<1>8. Goers(s, e, w)
  BY <1>2, <1>4, <1>7 DEF Goers, SaysSame, Rest, V
<1>9. Advances(Phase(s.waiter[w]), Phase(e.waiter[w]))
  BY <1>3, <1>5 DEF Advances, Delegates!Steps, V
<1> QED BY <1>1, <1>2, <1>6, <1>8, <1>9, OneGoes

LEMMA AuthPasswordEnteredAnswers ==
    ASSUME Trusty, NEW w \in Waiters, AuthPasswordEntered(w)
    PROVE  Answering
<1> DEFINE t == s.waiter[w].tunnel
           T == s.tunnel[t]
           e == [EndSheet(w) EXCEPT !.tunnel[t] = WriteToHelper(T, "no")]
<1>1. Sheet(w, "password") /\ s \in StateType /\ Steady
  BY TrustyHas DEF AuthPasswordEntered
<1>2. EndSheet(w).tunnel = s.tunnel
  BY <1>1, EndSheetIs DEF OnlyWaiter
<1>3. s' = e
  BY <1>2 DEF AuthPasswordEntered, UsePassword
<1>4. Answered(e, w, t, WriteToHelper(T, "no"))
  BY <1>1, TunnelIsMade, AnswersAreOrderly DEF Answered
<1>5. Promising(e) /\ Tells(s, e)
  <2> HIDE DEF e
  <2> QED BY <1>1, <1>4, AnswerAnswers DEF Questions
<1> QED BY <1>3, <1>5 DEF Answering

LEMMA AnswerKeyAnswers ==
    ASSUME Trusty, NEW w \in Waiters, AnswerKey(w)
    PROVE  Answering
<1> DEFINE t == s.waiter[w].tunnel
           T == s.tunnel[t]
           d(a) == [EndSheet(w) EXCEPT !.tunnel[t] = AcceptKey(T, a)]
<1>1. Sheet(w, "key") /\ s \in StateType /\ t \in Waiters \cup {None} /\ Steady
  BY TrustyHas, SteadyHas DEF AnswerKey
<1>2. EndSheet(w).tunnel = s.tunnel
  BY <1>1, EndSheetIs DEF OnlyWaiter
<1>3. PICK a \in BOOLEAN :
         s' = Settled(IF a THEN d(a) ELSE ConnectionFailed(d(a), w))
  BY <1>2 DEF AnswerKey
<1>4. CASE a
  <2> DEFINE e == [EndSheet(w) EXCEPT !.tunnel[t] = WriteToHelper(T, "no")]
  <2>1. s' = Settled(e)
    BY <1>3, <1>4 DEF AcceptKey
  <2>2. Answered(e, w, t, WriteToHelper(T, "no"))
    BY <1>1, TunnelIsMade, AnswersAreOrderly DEF Answered
  <2>3. e \in StateType /\ Promising(e) /\ Tells(s, e)
    <3> HIDE DEF e, d
    <3> QED BY <1>1, <2>2, AnswerAnswers DEF Questions
  <2> HIDE DEF e
  <2> QED BY <2>1, <2>3, SettledAnswers
<1>5. CASE ~a
  <2> DEFINE R == AcceptKey(T, FALSE)
             e == [EndSheet(w) EXCEPT !.tunnel[t] = R]
  <2>1. s' = Settled(ConnectionFailed(e, w))
    BY <1>3, <1>5
  <2>2. t \in Waiters => R \in TunnelType /\ Orderly(R) /\ R.state = "closing"
    BY <1>1, TunnelIsMade, AnswersAreOrderly
  <2> HIDE DEF R
  <2>3. Answered(e, w, t, R)
    BY <2>2 DEF Answered
  <2> HIDE DEF e
  <2>4. /\ e \in StateType /\ Rest(s, e) /\ s.waiter[w].sheets # <<>>
        /\ e.waiter[w] = [s.waiter[w] EXCEPT !.sheets = Tail(@)]
        /\ \A u \in Waiters \ {w} : e.waiter[u] = s.waiter[u]
        /\ \A u \in Waiters : e.tunnel[u] = IF u = t THEN R ELSE s.tunnel[u]
    <3> HIDE DEF T, d
    <3> QED BY <1>1, <2>3, AnswerIs
  <2>5. SheetEnded(e, w)
    BY <2>2, <2>4 DEF SheetEnded
  <2> QED BY <2>1, <2>5, SheetFailsAnswers
<1> QED BY <1>3, <1>4, <1>5

LEMMA CancelAnswers ==
    ASSUME Trusty, NEW w \in Waiters, Cancel(w)
    PROVE  Answering
<1> DEFINE W == s.waiter[w]
           V == [W EXCEPT !.delegate = "nil", !.sock = "none"]
<1>1. /\ s \in StateType /\ W \in WaiterType /\ Steady /\ Promising(s) /\ Promised(s, w)
      /\ s.kept \in Waiters \cup {None} /\ s.current = w /\ W.sheets = <<>>
      /\ Attempt(s, w)
  BY TrustyHas, SteadyHas, StateFields DEF Cancel, NoSheet
<1>2. PICK d \in StateType :
         /\ s' = Settled(CloseTunnel(d, s.kept)) /\ d.current = None
         /\ \A u \in Waiters :
               /\ u # w => d.waiter[u] = s.waiter[u]
               /\ \/ d.tunnel[u] = s.tunnel[u]
                  \/ d.tunnel[u] = Close(s.tunnel[u])
         /\ d.waiter[w] = V
  <2>1. PICK d \in StateType :
           /\ s' = Settled(CloseTunnel(d, s.kept))
           /\ d.portUsed = s.portUsed /\ d.connected = s.connected
           /\ d.current = None /\ d.kept = None
           /\ \A u \in Waiters :
                 /\ u # w => d.waiter[u] = s.waiter[u]
                 /\ d.tunnel[u] = IF u = s.waiter[w].tunnel THEN Close(s.tunnel[u])
                                  ELSE s.tunnel[u]
           /\ d.waiter[w] = [s.waiter[w] EXCEPT !.delegate = "nil", !.sock = "none"]
    BY <1>1, CancelIs
  <2>2. d.waiter[w] = V
    BY <2>1
  <2> HIDE DEF V
  <2> QED BY <2>1, <2>2
<1>3. W.delegate = "set" /\ W.told = <<>>
  BY <1>1 DEF Promised, Attempt
<1>4. V.delegate = "nil" /\ V.sheets = <<>> /\ V.told = <<>>
  BY <1>1, <1>3 DEF WaiterType
<1> HIDE DEF V
<1> DEFINE f == CloseTunnel(d, s.kept)
<1>5. /\ f \in StateType /\ f.current = None /\ f.waiter = d.waiter
      /\ \A u \in Waiters : f.tunnel[u] = IF u = s.kept THEN Close(d.tunnel[u])
                                          ELSE d.tunnel[u]
  BY <1>1, <1>2, CloseTunnelIs DEF Rest
<1> HIDE DEF f
<1>6. ASSUME NEW u \in Waiters PROVE Rests(s.tunnel[u], f.tunnel[u])
  <2>1. /\ Close(s.tunnel[u]).state = "closing" /\ Close(d.tunnel[u]).state = "closing"
    BY TrustyHas, Typed, CloseIs
  <2> QED BY <1>2, <1>5, <2>1 DEF Rests
<1>7. Phase(W) = "trying" /\ Phase(V) = "cancelled"
  <2>1. <<>> \in Seq({"succeeded", "failed"})
    OBVIOUS
  <2> HIDE DEF W
  <2> QED BY <1>1, <1>3, <1>4, <2>1, PhaseIs
<1>8. f.waiter[w] = V
  BY <1>2, <1>5
<1>9. Promised(f, w)
  BY <1>4, <1>8 DEF Promised
<1>10. Goers(s, f, w)
  BY <1>1, <1>2, <1>4, <1>5, <1>6, <1>8 DEF Goers, SaysSame
<1>11. Advances(Phase(s.waiter[w]), Phase(f.waiter[w]))
  BY <1>7, <1>8 DEF Advances, Delegates!Steps
<1>12. Promising(f) /\ Tells(s, f)
  BY <1>1, <1>9, <1>10, <1>11, OneGoes
<1> QED BY <1>2, <1>5, <1>12, SettledAnswers DEF f

\* The end of a session tells an attempt nothing.
LEMMA EndedAnswers ==
    ASSUME Trusty
    PROVE  /\ Ended \in StateType /\ Promising(Ended) /\ Ended.current = s.current
           /\ Ended.waiter = s.waiter
           /\ \A t \in Waiters : Rests(s.tunnel[t], Ended.tunnel[t])
           /\ \A v \in Waiters : Phase(Ended.waiter[v]) = Phase(s.waiter[v])
<1>1. Sound(s) /\ Promising(s) /\ s \in StateType
  BY DEF Trusty, Steady, Inv, Sound
<1>2. /\ Ended \in StateType /\ Ended.waiter = s.waiter /\ Ended.current = s.current
      /\ \A u \in Waiters : Ended.tunnel[u] = IF u = s.kept THEN Close(s.tunnel[u])
                                              ELSE s.tunnel[u]
  BY <1>1, EndedIs
<1>3. ASSUME NEW u \in Waiters PROVE Rests(s.tunnel[u], Ended.tunnel[u])
  <2>1. s.tunnel[u] \in TunnelType
    BY <1>1, Typed
  <2>2. Close(s.tunnel[u]).state = "closing"
    BY <2>1, CloseIs
  <2> QED BY <1>2, <2>2 DEF Rests
<1>4. \A v \in Waiters : SaysSame(s.waiter[v], Ended.waiter[v])
  BY <1>2 DEF SaysSame
<1>5. Promising(Ended) /\ \A v \in Waiters : Phase(Ended.waiter[v]) = Phase(s.waiter[v])
  BY <1>1, <1>2, <1>3, <1>4, NoneGoes
<1> QED BY <1>2, <1>3, <1>5

LEMMA EndSessionAnswers ==
    ASSUME Trusty, EndSession
    PROVE  Answering
<1>1. s' = Ended
  BY DEF EndSession, Ended
<1> QED BY <1>1, EndedAnswers DEF Answering, Tells

\* A new attempt is tried, whatever there is for it.
LEMMA AttemptBegins ==
    ASSUME NEW d \in StateType, Promising(d), NEW w \in Waiters, NEW e,
           d.waiter[w] = FreshWaiter, d.current = None, e.current = w,
           \A u \in Waiters \ {w} : e.waiter[u] = d.waiter[u],
           \A u \in Waiters : Rests(d.tunnel[u], e.tunnel[u]) \/ Brief(e, u),
           e.waiter[w].delegate = "set", e.waiter[w].told = <<>>,
           \/ e.waiter[w].sheets = <<>>
           \/ e.waiter[w].sheets = <<"error">> /\ e.tunnel[w].state # "tunneling"
    PROVE  Promising(e) /\ Tells(d, e)
<1> DEFINE W == d.waiter[w]
           V == e.waiter[w]
<1>1. W.told = <<>> /\ W.delegate = "unset" /\ W.sheets = <<>>
  BY DEF FreshWaiter
<1>2. Phase(W) = "none" /\ Phase(V) \in {"trying", "error"}
  <2>1. <<>> \in Seq({"succeeded", "failed"})
    OBVIOUS
  <2> HIDE DEF FreshWaiter, W, V
  <2>2. V.told = <<>> /\ V.delegate = "set" /\ V.sheets \in {<<>>, <<"error">>}
    BY DEF V
  <2> QED BY <1>1, <2>1, <2>2, PhaseIs
<1> HIDE DEF FreshWaiter
<1>3. Promised(e, w)
  BY DEF Promised
<1>4. ASSUME NEW u \in Waiters
      PROVE  \/ Brief(e, u)
             \/ /\ Rests(d.tunnel[u], e.tunnel[u])
                /\ u = w => V.sheets \in {W.sheets, <<>>}
  <2>1. Brief(d, u)
    BY DEF Promising
  <2>2. CASE V.sheets = <<>>
    BY <2>2
  <2>3. CASE u # w
    BY <2>3
  <2>4. CASE u = w /\ Rests(d.tunnel[u], e.tunnel[u]) /\ e.tunnel[w].state # "tunneling"
    BY <2>1, <2>4 DEF Brief, Rests, Early
  <2> QED BY <2>2, <2>3, <2>4
<1>5. Goers(d, e, w)
  BY <1>4 DEF Goers, SaysSame
<1>6. Advances(Phase(d.waiter[w]), Phase(e.waiter[w]))
  BY <1>2 DEF Advances, Delegates!Steps
<1> QED BY <1>3, <1>5, <1>6, OneGoes

LEMMA NewAttemptAnswers ==
    ASSUME NEW d \in StateType, Promising(d), NEW w \in Waiters, NEW e,
           d.waiter[w] = FreshWaiter, d.current = None, NewAttempt(d, w, e)
    PROVE  Promising(e) /\ Tells(d, e)
<1>1. /\ e \in StateType /\ e.current = w
      /\ \/ /\ e.tunnel = d.tunnel
            /\ e.waiter = [d.waiter EXCEPT ![w] = WithoutTunnel(d.waiter[w])]
         \/ \E p \in Ports \ d.portUsed :
               /\ p \in e.portUsed
               /\ e.tunnel = [d.tunnel EXCEPT ![w] = Launch(p, w)]
               /\ e.waiter = [d.waiter EXCEPT ![w] = WithTunnel(d.waiter[w], w)]
  <2> HIDE DEF FreshWaiter
  <2> QED BY NewAttemptIs
<1>2. /\ \A u \in Waiters \ {w} : e.waiter[u] = d.waiter[u]
      /\ e.waiter[w].delegate = "set" /\ e.waiter[w].told = <<>>
      /\ e.waiter[w].sheets = <<>>
  <2>1. e.waiter[w] \in {WithoutTunnel(FreshWaiter), WithTunnel(FreshWaiter, w)}
    <3> HIDE DEF FreshWaiter
    <3> QED BY <1>1, StateFields
  <2>2. \A u \in Waiters \ {w} : e.waiter[u] = d.waiter[u]
    BY <1>1, StateFields
  <2>3. \A V \in {WithoutTunnel(FreshWaiter), WithTunnel(FreshWaiter, w)} :
           V.delegate = "set" /\ V.told = <<>> /\ V.sheets = <<>>
    BY DEF WithoutTunnel, WithTunnel, FreshWaiter
  <2> HIDE DEF FreshWaiter
  <2> QED BY <2>1, <2>2, <2>3
<1>3. ASSUME NEW u \in Waiters PROVE Rests(d.tunnel[u], e.tunnel[u]) \/ Brief(e, u)
  <2>1. CASE e.tunnel[u] = d.tunnel[u]
    BY <2>1 DEF Rests
  <2>2. ASSUME NEW p \in Ports, u = w, e.tunnel[u] = Launch(p, w) PROVE Brief(e, u)
    <3>1. /\ Launch(p, w).err = <<>> /\ Launch(p, w).asks = "new"
      BY DEF Launch, NoTunnel
    <3>2. Launch(p, w).state = "opening"
      BY DEF Launch, NoTunnel
    <3> QED BY <2>2, <3>1, <3>2 DEF Brief
  <2>3. e.tunnel[u] = d.tunnel[u] \/ \E p \in Ports : u = w /\ e.tunnel[u] = Launch(p, w)
    BY <1>1, StateFields
  <2> QED BY <2>1, <2>2, <2>3
<1> HIDE DEF FreshWaiter
<1> QED BY <1>1, <1>2, <1>3, AttemptBegins

LEMMA ConnectToServerAnswers ==
    ASSUME Trusty, NEW w \in Waiters, ConnectToServer(w)
    PROVE  Answering
<1>1. /\ s.current = None /\ Fresh(w) /\ NewAttempt(s, w, s')
      /\ s \in StateType /\ Promising(s) /\ Steady
  BY TrustyHas DEF ConnectToServer, Idle
<1>2. s.waiter[w] = FreshWaiter
  BY <1>1, FreshIs
<1> HIDE DEF FreshWaiter
<1> QED BY <1>1, <1>2, NewAttemptAnswers DEF Answering

LEMMA ForceReconnectAnswers ==
    ASSUME Trusty, NEW w \in Waiters, ForceReconnect(w)
    PROVE  Answering
<1>1. s.current = None /\ Fresh(w) /\ NewAttempt(Ended, w, s') /\ Steady
  BY DEF ForceReconnect, Ended, Idle, Trusty
<1>2. s.waiter[w] = FreshWaiter
  BY <1>1, FreshIs
<1>3. /\ Ended \in StateType /\ Promising(Ended) /\ Ended.current = s.current
      /\ Ended.waiter = s.waiter
  BY EndedAnswers
<1>4. Promising(s') /\ Tells(Ended, s')
  <2> HIDE DEF FreshWaiter
  <2> QED BY <1>1, <1>2, <1>3, NewAttemptAnswers
<1> QED BY <1>3, <1>4 DEF Answering, Tells

LEMMA ReconnectAnswers ==
    ASSUME Trusty, NEW w \in Waiters, Reconnect(w)
    PROVE  Answering
<1> DEFINE W == s'.waiter[w]
<1>1. s \in StateType /\ Promising(s) /\ Steady /\ s.current = None /\ Fresh(w)
  BY TrustyHas DEF Reconnect, Idle
<1>2. s.waiter[w] = FreshWaiter /\ s.tunnel[w] = NoTunnel
  BY <1>1, FreshIs
<1>3. /\ s'.current = w /\ s'.tunnel = s.tunnel
      /\ \A u \in Waiters \ {w} : s'.waiter[u] = s.waiter[u]
      /\ W.delegate = "set" /\ W.told = <<>> /\ W.sheets \in {<<>>, <<"error">>}
  <2> HIDE DEF FreshWaiter, NoTunnel
  <2> QED BY <1>1, <1>2, ReconnectIs
<1>4. s'.tunnel[w].state # "tunneling"
  BY <1>2, <1>3 DEF NoTunnel
<1> HIDE DEF FreshWaiter, NoTunnel
<1>5. \A u \in Waiters : Rests(s.tunnel[u], s'.tunnel[u])
  BY <1>3 DEF Rests
<1> QED BY <1>1, <1>2, <1>3, <1>4, <1>5, AttemptBegins DEF Answering

-----------------------------------------------------------------------------
(* The lines of a notification. *)

LEMMA RemovesTheOnlyOne ==
    ASSUME NEW v
    PROVE  RemoveFirst(<<>>, v) = <<>> /\ RemoveFirst(<<v>>, v) = <<>>
<1>1. RemoveFirst(<<>>, v) = <<>>
  BY DEF RemoveFirst
<1>2. RemoveFirst(<<v>>, v) = <<>>
  <2> DEFINE q == <<v>>
             I == {i \in 1..Len(q) : q[i] = v}
  <2>1. I = {1}
    OBVIOUS
  <2>2. RemoveFirst(q, v) = SubSeq(q, 1, Min(I) - 1) \o SubSeq(q, Min(I) + 1, Len(q))
    BY <2>1 DEF RemoveFirst, RemoveAt, SelectInSeq
  <2>3. Min(I) = 1
    <3> HIDE DEF I
    <3> QED BY <2>1, LeastIsThere
  <2>4. SubSeq(q, 1, 0) \o SubSeq(q, 2, 1) = <<>> /\ Len(q) = 1
    OBVIOUS
  <2> HIDE DEF I, q
  <2>5. RemoveFirst(q, v) = <<>>
    BY <2>2, <2>3, <2>4
  <2> QED BY <2>5 DEF q
<1> QED BY <1>1, <1>2

\* The attempt to which ssh's line is told: where it is.
LEMMA HearerIs ==
    ASSUME Trusty, NEW t \in Waiters, s.tunnel[t].ssh # "none",
           s.tunnel[t].state # "closing", s.tunnel[t].err # <<>>,
           s.tunnel[t].delegate = t
    PROVE  LET T == s.tunnel[t]
               W == s.waiter[t]
           IN /\ s.current = t /\ W.delegate = "set" /\ W.told = <<>>
              /\ \/ W.sheets = <<>> /\ T.state \in {"opening", "tunneling"}
                 \/ /\ W.sheets = <<"password">> /\ T.state = "prompt"
                    /\ Of(T, {"eof"})
<1> DEFINE T == s.tunnel[t]
           W == s.waiter[t]
<1>1. /\ T \in TunnelType /\ Orderly(T) /\ Fit(s, t) /\ Left(s) /\ Attempt(s, t)
      /\ Promised(s, t) /\ Brief(s, t)
      /\ Begun(s, t) => AsksUser(T, W, t) /\ s.current = t
  <2> HIDE DEF AsksUser
  <2> QED BY TrustyHas, SteadyHas
<1>2. T.state \in {"opening", "prompt", "tunneling"}
  BY <1>1, Names DEF Orderly, TunnelType, States
<1>3. CASE T.state = "tunneling"
  <2>1. s.current = t
    BY <1>1, Names DEF Fit, Left, Closing
  <2> QED BY <1>1, <1>3, <2>1 DEF Attempt, Promised, Brief
<1>4. CASE T.state = "opening"
  BY <1>1, <1>4 DEF Begun, Early, AsksUser, Waiting
<1>5. CASE T.state = "prompt"
  <2>1. AsksUser(T, W, t) /\ s.current = t
    BY <1>1, <1>5 DEF Begun, Early
  <2>2. Waiting(W, t) /\ Prompting(T, W)
    BY <1>5, <2>1 DEF AsksUser
  <2>3. Of(T, {"eof"})
    BY <2>2 DEF Prompting, Of
  <2>4. T.ssh # "running"
    <3> SUFFICES ASSUME T.ssh = "running" PROVE FALSE
      OBVIOUS
    <3>1. Of(T, Lines \ {"eof"})
      BY <1>1 DEF Orderly
    <3> QED BY <1>1, <2>3, <3>1, WithoutLines
  <2>5. T.asks # "key"
    BY <1>1, <1>5, <2>4 DEF Brief, Early
  <2> QED BY <1>5, <2>1, <2>2, <2>3, <2>5 DEF Prompting, Questions, Waiting
<1> QED BY <1>2, <1>3, <1>4, <1>5

LEMMA FirstLineAnswers ==
    ASSUME Trusty, NEW t \in Waiters, s.tunnel[t].ssh # "none",
           s.tunnel[t].state # "closing", s.tunnel[t].err # <<>>
    PROVE  LET e == ReadLine(s, t) IN e \in StateType /\ Promising(e) /\ Tells(s, e)
<1> DEFINE T == s.tunnel[t]
           W == s.waiter[t]
           R == [T EXCEPT !.err = Tail(@)]
           P == [R EXCEPT !.state = "prompt"]
           C == [R EXCEPT !.state = "closing"]
           line == Head(T.err)
           e == ReadLine(s, t)
<1>1. /\ s \in StateType /\ T \in TunnelType /\ W \in WaiterType /\ Orderly(T)
      /\ Promising(s) /\ Brief(s, t) /\ Promised(s, t) /\ T.delegate \in {None, t}
      /\ Begun(s, t) => AsksUser(T, W, t) /\ s.current = t
  <2>1. T.delegate \in {None, t}
    BY DEF Trusty, Steady, Inv, Sound, TunnelSound
  <2> HIDE DEF AsksUser
  <2> QED BY <2>1, TrustyHas, SteadyHas
<1>2. /\ R.state = T.state /\ R.asks = T.asks /\ R.ssh = T.ssh /\ R.err = Tail(T.err)
      /\ P.state = "prompt" /\ P.asks = T.asks /\ P.ssh = T.ssh
      /\ C.state = "closing"
  BY <1>1 DEF TunnelType
<1>3. /\ e \in StateType /\ Rest(s, e)
      /\ \/ /\ line \in Questions /\ T.state = "opening"
            /\ e.tunnel = [s.tunnel EXCEPT ![t] = P]
            /\ e.waiter = [s.waiter EXCEPT
                    ![T.delegate] = [s.waiter[T.delegate] EXCEPT !.sheets = Append(@, line)]]
         \/ /\ line \in Questions /\ T.state # "opening"
            /\ e.tunnel = [s.tunnel EXCEPT ![t] = R]
            /\ e.waiter = s.waiter
         \/ /\ line \notin Questions
            /\ e.tunnel = [s.tunnel EXCEPT ![t] = C]
            /\ e.waiter =
                    IF T.delegate = None THEN s.waiter
                    ELSE [s.waiter EXCEPT
                            ![T.delegate] = IF line = "channel"
                                            THEN Unconnected(s.waiter[T.delegate])
                                            ELSE Refused(s.waiter[T.delegate])]
  BY <1>1, ReadLineIs
<1>4. /\ T.err \in Seq(Lines) /\ line = T.err[1] /\ 1 \in DOMAIN T.err
  BY <1>1 DEF TunnelType
<1> HIDE DEF R, P, C, e
\* What is left to show of a line that changes the tunnel to U and the attempt to V.
<1>5. ASSUME NEW U, e.tunnel = [s.tunnel EXCEPT ![t] = U],
             NEW V, e.waiter = [s.waiter EXCEPT ![t] = V],
             \/ SaysSame(W, V) \/ (s.current = t /\ V.told = <<>>
                                   /\ V.sheets \in {<<"key">>, <<"password">>, <<"error">>}),
             Brief(e, t), Advances(Phase(W), Phase(V))
      PROVE  Promising(e) /\ Tells(s, e)
  <2>1. /\ e.current = s.current
        /\ \A u \in Waiters : /\ e.tunnel[u] = IF u = t THEN U ELSE s.tunnel[u]
                              /\ e.waiter[u] = IF u = t THEN V ELSE s.waiter[u]
    BY <1>1, <1>3, <1>5, StateFields DEF Rest
  <2>2. Promised(e, t)
    BY <1>1, <1>5, <2>1 DEF Promised, SaysSame
  <2>3. Goers(s, e, t)
    BY <1>5, <2>1 DEF Goers, SaysSame, Rests
  <2>4. Advances(Phase(s.waiter[t]), Phase(e.waiter[t]))
    BY <1>5, <2>1
  <2> HIDE DEF W, T
  <2> QED BY <1>1, <2>2, <2>3, <2>4, OneGoes
<1>6. ASSUME NEW U, e.tunnel = [s.tunnel EXCEPT ![t] = U], e.waiter = s.waiter, Brief(e, t)
      PROVE  Promising(e) /\ Tells(s, e)
  <2>1. e.waiter = [s.waiter EXCEPT ![t] = W] /\ SaysSame(W, W)
    BY <1>1, <1>6, StateFields DEF SaysSame
  <2>2. Advances(Phase(W), Phase(W))
    BY DEF Advances
  <2> HIDE DEF W
  <2> QED BY <1>5, <1>6, <2>1, <2>2
<1>7. CASE line \in Questions /\ T.state = "opening"
  <2> DEFINE V == [W EXCEPT !.sheets = Append(@, line)]
  <2>1. AsksUser(T, W, t) /\ s.current = t
    BY <1>1, <1>7 DEF Begun, Early
  <2>2. T.delegate = t /\ W.sheets = <<>> /\ W.delegate = "set" /\ W.told = <<>>
    BY <1>7, <2>1 DEF AsksUser, Waiting
  <2>3. V.sheets = Append(W.sheets, line) /\ V.delegate = W.delegate /\ V.told = W.told
    BY <1>1 DEF WaiterType
  <2>4. e.tunnel = [s.tunnel EXCEPT ![t] = P] /\ e.waiter = [s.waiter EXCEPT ![t] = V]
    BY <1>3, <1>7, <2>2
  <2> HIDE DEF V
  <2>5. V.sheets \in {<<"key">>, <<"password">>} /\ V.delegate = "set" /\ V.told = <<>>
    BY <1>7, <2>2, <2>3 DEF Questions
  <2>6. Phase(W) = "trying" /\ Phase(V) = "asking"
    <3>1. <<>> \in Seq({"succeeded", "failed"})
      OBVIOUS
    <3> HIDE DEF W
    <3> QED BY <2>2, <2>5, <3>1, PhaseIs
  <2>7. Advances(Phase(W), Phase(V))
    BY <2>6 DEF Advances, Delegates!Steps
  <2>8. Brief(e, t)
    <3>1. e.tunnel[t] = P
      BY <1>1, <2>4, StateFields
    <3> QED BY <1>1, <1>2, <1>7, <3>1 DEF Brief, Early
  <2> HIDE DEF W, T, line
  <2>9. Promising(e) /\ Tells(s, e)
    BY <1>5, <2>1, <2>4, <2>5, <2>7, <2>8
  <2> QED BY <1>3, <2>9 DEF e
<1>8. CASE line \in Questions /\ T.state # "opening"
  <2>1. e.tunnel = [s.tunnel EXCEPT ![t] = R] /\ e.waiter = s.waiter
    BY <1>3, <1>8
  <2>2. e.tunnel[t] = R
    BY <1>1, <2>1, StateFields
  <2>3. Brief(e, t)
    <3>1. T.state = "tunneling" => R.err = <<>>
      <4>1. T.state = "tunneling" => Len(T.err) = 1
        BY <1>1 DEF Brief
      <4>2. ASSUME NEW q \in Seq(Lines), Len(q) = 1 PROVE Tail(q) = <<>>
        <5>1. q = <<q[1]>>
          BY <4>2
        <5>2. \A x : Tail(<<x>>) = <<>>
          OBVIOUS
        <5> QED BY <5>1, <5>2
      <4> HIDE DEF T
      <4> QED BY <1>2, <1>4, <4>1, <4>2
    <3> QED BY <1>1, <1>2, <1>8, <2>2, <3>1 DEF Brief, Early
  <2>4. Promising(e) /\ Tells(s, e)
    BY <1>6, <2>1, <2>3
  <2> QED BY <1>3, <2>4 DEF e
<1>9. CASE line \notin Questions
  <2>1. e.tunnel = [s.tunnel EXCEPT ![t] = C]
    BY <1>3, <1>9
  <2>2. Brief(e, t)
    <3>1. e.tunnel[t] = C
      BY <1>1, <2>1, StateFields
    <3> QED BY <1>2, <3>1 DEF Brief, Early
  <2>3. CASE T.delegate = None
    <3>1. e.waiter = s.waiter
      BY <1>3, <1>9, <2>3
    <3>2. Promising(e) /\ Tells(s, e)
      BY <1>6, <2>1, <2>2, <3>1
    <3> QED BY <1>3, <3>2 DEF e
  <2>4. CASE T.delegate = t
    <3> DEFINE V == IF line = "channel" THEN Unconnected(W) ELSE Refused(W)
    <3>1. e.waiter = [s.waiter EXCEPT ![t] = V]
      BY <1>3, <1>9, <2>4, Names
    <3>2. /\ s.current = t /\ W.delegate = "set" /\ W.told = <<>>
          /\ \/ W.sheets = <<>> /\ T.state \in {"opening", "tunneling"}
             \/ /\ W.sheets = <<"password">> /\ T.state = "prompt" /\ Of(T, {"eof"})
      BY <2>4, HearerIs
    <3>3. /\ V.delegate = W.delegate /\ V.told = W.told
          /\ V.sheets = Append(IF line = "channel" THEN W.sheets
                               ELSE RemoveFirst(W.sheets, "password"), "error")
      <4>1. CASE line = "channel"
        <5> DEFINE X == Unconnected(W)
        <5>1. /\ X.delegate = W.delegate /\ X.told = W.told
              /\ X.sheets = Append(W.sheets, "error")
          BY <1>1, <3>2, UnconnectedIs
        <5> HIDE DEF X
        <5>2. V = X
          BY <4>1 DEF X
        <5> HIDE DEF V, W
        <5> QED BY <4>1, <5>1, <5>2
      <4>2. CASE line # "channel"
        <5> DEFINE X == Refused(W)
        <5>1. /\ X.delegate = W.delegate /\ X.told = W.told
              /\ X.sheets = Append(RemoveFirst(W.sheets, "password"), "error")
          BY <1>1, <3>2, RefusedIs
        <5> HIDE DEF X
        <5>2. V = X
          BY <4>2 DEF X
        <5> HIDE DEF V, W
        <5> QED BY <4>2, <5>1, <5>2
      <4> QED BY <4>1, <4>2
    <3> HIDE DEF V
    <3>4. line = "channel" => W.sheets = <<>>
      BY <1>4, <3>2 DEF Of
    <3>5. V.sheets = Append(<<>>, "error")
      <4> HIDE DEF W, line, T
      <4> QED BY <3>2, <3>3, <3>4, RemovesTheOnlyOne
    <3>6. V.sheets = <<"error">> /\ V.delegate = "set" /\ V.told = <<>>
      <4>1. Append(<<>>, "error") = <<"error">>
        OBVIOUS
      <4> HIDE DEF W
      <4> QED BY <3>2, <3>3, <3>5, <4>1
    <3>7. Phase(W) \in {"trying", "asking"} /\ Phase(V) = "error"
      <4>1. <<>> \in Seq({"succeeded", "failed"})
        OBVIOUS
      <4> HIDE DEF W, T, line
      <4> QED BY <3>2, <3>6, <4>1, PhaseIs
    <3>8. Advances(Phase(W), Phase(V))
      BY <3>7 DEF Advances, Delegates!Steps
    <3> HIDE DEF W, T, line
    <3>9. Promising(e) /\ Tells(s, e)
      BY <1>5, <2>1, <2>2, <3>1, <3>2, <3>6, <3>8
    <3> QED BY <1>3, <3>9 DEF e
  <2> QED BY <1>1, <2>3, <2>4
<1> QED BY <1>7, <1>8, <1>9

\* Of the lines that one notification brings, only the first one says something.
LEMMA OtherLines ==
    ASSUME Trusty, NEW t \in Waiters, s.tunnel[t].ssh # "none",
           s.tunnel[t].state # "closing", NEW n \in 2..Len(s.tunnel[t].err),
           \A i \in 1..n : s.tunnel[t].err[i] # "eof"
    PROVE  \/ s.tunnel[t].delegate = None /\ s.tunnel[t].state = "open"
           \/ /\ s.tunnel[t].err[1] \notin Questions
              /\ \A i \in 2..n : s.tunnel[t].err[i] \in Questions
<1> DEFINE T == s.tunnel[t]
           W == s.waiter[t]
<1>1. /\ T \in TunnelType /\ Fit(s, t) /\ Brief(s, t) /\ T.delegate \in {None, t}
      /\ Begun(s, t) => AsksUser(T, W, t)
  <2>1. T.delegate \in {None, t}
    BY DEF Trusty, Steady, Inv, Sound, TunnelSound
  <2> HIDE DEF AsksUser
  <2> QED BY <2>1, TrustyHas, SteadyHas
<1>2. /\ T.err \in Seq(Lines) /\ Len(T.err) \in Nat /\ n \in 2..Len(T.err)
      /\ DOMAIN T.err = 1..Len(T.err) /\ \A i \in 1..n : T.err[i] # "eof"
  BY <1>1 DEF TunnelType
<1>3. /\ 1 \in DOMAIN T.err /\ 2 \in DOMAIN T.err /\ Len(T.err) # 1 /\ T.err # <<>>
      /\ \A i \in 2..n : i \in DOMAIN T.err /\ i # 1 /\ T.err[i] # "eof"
      /\ T.err[1] # "eof" /\ T.err[2] # "eof"
  <2> HIDE DEF T
  <2> QED BY <1>2
<1>4. CASE T.delegate = None
  <2>1. ~Begun(s, t)
    BY <1>1, <1>4, Names DEF AsksUser
  <2>2. T.state \notin {"opening", "prompt", "tunneling", "closing"}
    BY <1>1, <1>4, <2>1, Names DEF Begun, Early, Fit
  <2> QED BY <1>1, <1>4, <2>2 DEF TunnelType, States
<1>5. CASE T.delegate = t
  <2>1. \/ W.sheets = <<>> /\ T.state \in {"opening", "tunneling"}
        \/ Of(T, {"eof"})
    BY <1>3, <1>5, HearerIs
  <2>2. ~Of(T, {"eof"})
    BY <1>3 DEF Of
  <2>3. T.state = "opening"
    BY <1>1, <1>3, <2>1, <2>2 DEF Brief
  <2>4. Opening(T)
    BY <1>1, <2>3 DEF Begun, Early, AsksUser
  <2>5. T.err[1] \notin Questions
    <3>1. 2 > 1
      OBVIOUS
    <3> QED BY <1>3, <2>4, <3>1 DEF Opening
  <2>6. \A i \in DOMAIN T.err : T.err[i] # "channel" /\ (T.err[i] = "failed" => i = 1)
    BY <1>1, <2>3 DEF Brief
  <2>7. ASSUME NEW i \in 2..n PROVE T.err[i] \in Questions
    <3>1. T.err[i] \in Lines /\ T.err[i] \notin {"eof", "channel", "failed"}
      BY <1>2, <1>3, <2>6
    <3> QED BY <3>1 DEF Lines
  <2> QED BY <2>5, <2>7
<1> QED BY <1>1, <1>4, <1>5

\* What the first line has left but for the other lines of its notification.
Quiet(d, t, g) ==
    /\ g.waiter = d.waiter /\ g.current = d.current
    /\ \A u \in Waiters \ {t} : g.tunnel[u] = d.tunnel[u]
    /\ g.tunnel[t].state \in {"open", "closing"}
    /\ g.tunnel[t].delegate = s.tunnel[t].delegate

LEMMA FirstLineIsQuiet ==
    ASSUME s \in StateType, NEW t \in Waiters, s.tunnel[t].err # <<>>,
           \/ s.tunnel[t].delegate = None /\ s.tunnel[t].state = "open"
           \/ s.tunnel[t].err[1] \notin Questions
    PROVE  LET e == ReadLine(s, t) IN Quiet(e, t, e)
<1> DEFINE T == s.tunnel[t]
           R == [T EXCEPT !.err = Tail(@)]
           P == [R EXCEPT !.state = "prompt"]
           C == [R EXCEPT !.state = "closing"]
           line == Head(T.err)
           e == ReadLine(s, t)
<1>1. T \in TunnelType
  BY StateFields
<1>2. /\ R.state = T.state /\ R.delegate = T.delegate
      /\ C.state = "closing" /\ C.delegate = T.delegate
  BY <1>1 DEF TunnelType
<1>3. line = T.err[1]
  BY <1>1 DEF TunnelType
<1>4. \/ line \in Questions /\ T.state = "opening"
      \/ line \in Questions /\ T.state # "opening" /\ e.tunnel = [s.tunnel EXCEPT ![t] = R]
      \/ line \notin Questions /\ e.tunnel = [s.tunnel EXCEPT ![t] = C]
  BY ReadLineIs
<1> HIDE DEF R, C, e
<1>5. CASE line \in Questions
  <2>1. T.delegate = None /\ T.state = "open" /\ e.tunnel = [s.tunnel EXCEPT ![t] = R]
    BY <1>3, <1>4, <1>5
  <2>2. e.tunnel[t] = R
    BY <2>1, StateFields
  <2> QED BY <1>2, <2>1, <2>2 DEF Quiet, e
<1>6. CASE line \notin Questions
  <2>1. e.tunnel[t] = C
    BY <1>4, <1>6, StateFields
  <2> QED BY <1>2, <2>1 DEF Quiet, e
<1> QED BY <1>5, <1>6

LEMMA LineStaysQuiet ==
    ASSUME NEW d, NEW t \in Waiters, NEW g \in StateType, Quiet(d, t, g),
           g.tunnel[t].err # <<>>,
           s.tunnel[t].delegate = None \/ Head(g.tunnel[t].err) \in Questions
    PROVE  Quiet(d, t, ReadLine(g, t))
<1> DEFINE T == g.tunnel[t]
           R == [T EXCEPT !.err = Tail(@)]
           C == [R EXCEPT !.state = "closing"]
           line == Head(T.err)
           e == ReadLine(g, t)
<1>1. T \in TunnelType
  BY StateFields
<1>2. /\ R.state = T.state /\ R.delegate = T.delegate
      /\ C.state = "closing" /\ C.delegate = T.delegate
  BY <1>1 DEF TunnelType
<1>3. /\ T.state \in {"open", "closing"} /\ T.delegate = s.tunnel[t].delegate
      /\ line \in Questions \/ T.delegate = None
  BY DEF Quiet
<1>4. /\ Rest(g, e) /\ e.waiter = g.waiter
      /\ \/ e.tunnel = [g.tunnel EXCEPT ![t] = R]
         \/ e.tunnel = [g.tunnel EXCEPT ![t] = C]
  BY <1>3, ReadLineIs
<1> HIDE DEF R, C, e, line
<1>5. /\ e.tunnel[t] = R \/ e.tunnel[t] = C
      /\ \A u \in Waiters \ {t} : e.tunnel[u] = g.tunnel[u]
  BY <1>4, StateFields
<1>6. e.tunnel[t].state \in {"open", "closing"} /\ e.tunnel[t].delegate = s.tunnel[t].delegate
  BY <1>2, <1>3, <1>5
<1>7. e.waiter = d.waiter /\ e.current = d.current
  BY <1>4 DEF Quiet, Rest
<1> QED BY <1>5, <1>6, <1>7 DEF Quiet, e

LEMMA LinesAreQuiet ==
    ASSUME Trusty, NEW t \in Waiters, s.tunnel[t].ssh # "none",
           s.tunnel[t].state # "closing", NEW n \in 2..Len(s.tunnel[t].err),
           \A i \in 1..n : s.tunnel[t].err[i] # "eof"
    PROVE  LET d == ReadLines(s, t, n) IN d \in StateType /\ Quiet(ReadLine(s, t), t, d)
<1> DEFINE all == s.tunnel[t].err
           L == Len(all)
           first == ReadLine(s, t)
           left(g) == g.tunnel[t].err
           k(g) == L - Len(left(g))
           \* Where the lines are from, and what they have left.
           P == {g \in StateType :
                    /\ k(g) \in Nat
                    /\ \A i \in DOMAIN left(g) : left(g)[i] = all[k(g) + i]
                    /\ k(g) = 0 => g = s
                    /\ k(g) \in 1..n => Quiet(first, t, g)}
<1>1. /\ s \in StateType /\ Sound(s) /\ s.tunnel[t] \in TunnelType
  BY TrustyHas, SteadyHas
<1>2. all \in Seq(Lines) /\ L \in Nat /\ n \in Nat /\ n >= 2 /\ n <= L
      /\ all # <<>> /\ 1 \in DOMAIN all
  BY <1>1 DEF TunnelType
<1>3. \/ s.tunnel[t].delegate = None /\ s.tunnel[t].state = "open"
      \/ all[1] \notin Questions /\ \A i \in 2..n : all[i] \in Questions
  BY OtherLines
<1>4. Quiet(first, t, first)
  BY <1>1, <1>2, <1>3, FirstLineIsQuiet
<1>5. s \in P
  <2>1. k(s) = 0 /\ \A i \in DOMAIN left(s) : left(s)[i] = all[k(s) + i]
    BY <1>2
  <2> QED BY <1>1, <2>1
<1>6. ASSUME NEW g \in P, Sound(g), g.tunnel[t].ssh # "none", left(g) # <<>>
      PROVE  ReadLine(g, t) \in P
  <2> DEFINE e == ReadLine(g, t)
  <2>1. /\ g \in StateType /\ k(g) \in Nat
        /\ \A i \in DOMAIN left(g) : left(g)[i] = all[k(g) + i]
        /\ k(g) = 0 => g = s
        /\ k(g) \in 1..n => Quiet(first, t, g)
    BY <1>6
  <2>2. Sound(e) /\ left(e) = Tail(left(g))
    BY <1>6, ReadLineIsSound
  <2>3. e \in StateType
    BY <2>2 DEF Sound
  <2>4. left(g) \in Seq(Lines)
    <3>1. g.tunnel[t] \in TunnelType
      BY <1>6, SoundWaiter
    <3> QED BY <3>1 DEF TunnelType
  <2>5. /\ left(e) \in Seq(Lines) /\ Len(left(e)) = Len(left(g)) - 1
        /\ \A i \in DOMAIN left(e) : /\ i \in Nat /\ i + 1 \in DOMAIN left(g)
                                     /\ left(e)[i] = left(g)[i + 1]
        /\ Len(left(g)) \in Nat /\ 1 \in DOMAIN left(g) /\ Head(left(g)) = left(g)[1]
    <3>1. ASSUME NEW q \in Seq(Lines), q # <<>>
          PROVE  /\ Tail(q) \in Seq(Lines) /\ Len(Tail(q)) = Len(q) - 1
                 /\ \A i \in DOMAIN Tail(q) : /\ i \in Nat /\ i + 1 \in DOMAIN q
                                              /\ Tail(q)[i] = q[i + 1]
                 /\ Len(q) \in Nat /\ 1 \in DOMAIN q /\ Head(q) = q[1]
      BY <3>1
    <3> HIDE DEF left, e
    <3> QED BY <1>6, <2>2, <2>4, <3>1
  <2> HIDE DEF e, first
  <2>6. k(e) = k(g) + 1 /\ k(e) \in Nat /\ k(e) # 0
    <3> DEFINE a == Len(left(g))
               b == Len(left(e))
    <3>1. a \in Nat /\ b = a - 1 /\ L - a \in Nat /\ L \in Nat
      BY <1>2, <2>1, <2>5
    <3> HIDE DEF a, b, left, L
    <3>2. L - b = L - a + 1 /\ L - b \in Nat /\ L - b # 0
      BY <3>1
    <3> QED BY <3>2 DEF a, b
  <2> HIDE DEF k
  <2>7. \A i \in DOMAIN left(e) : left(e)[i] = all[k(e) + i]
    <3> SUFFICES ASSUME NEW i \in DOMAIN left(e) PROVE left(e)[i] = all[k(e) + i]
      OBVIOUS
    <3>1. left(e)[i] = left(g)[i + 1] /\ left(g)[i + 1] = all[k(g) + (i + 1)]
      BY <2>1, <2>5
    <3>2. i \in Nat /\ k(g) + (i + 1) = k(e) + i
      <4>1. \A a, b, c \in Nat : c = a + 1 => a + (b + 1) = c + b
        OBVIOUS
      <4>2. i \in Nat /\ k(g) \in Nat /\ k(e) \in Nat /\ k(e) = k(g) + 1
        BY <2>1, <2>5, <2>6
      <4> HIDE DEF e
      <4> QED BY <4>1, <4>2
    <3> QED BY <3>1, <3>2
  <2>8. ASSUME k(e) \in 1..n PROVE Quiet(first, t, e)
    <3>1. CASE k(g) = 0
      BY <1>4, <2>1, <3>1 DEF e, first
    <3>2. CASE k(g) # 0
      <4>1. k(g) \in 1..n /\ k(g) + 1 \in 2..n
        BY <1>2, <2>1, <2>6, <2>8, <3>2
      <4>2. Head(left(g)) = all[k(g) + 1]
        BY <2>1, <2>5
      <4>3. s.tunnel[t].delegate = None \/ Head(left(g)) \in Questions
        BY <1>3, <4>1, <4>2
      <4> QED BY <1>6, <2>1, <4>1, <4>3, LineStaysQuiet DEF e
    <3> QED BY <3>1, <3>2
  <2> QED BY <2>3, <2>6, <2>7, <2>8 DEF e
<1>7. Keeping(P, t)
  <2> HIDE DEF P
  <2> QED BY <1>6 DEF Keeping
<1> DEFINE d == ReadLines(s, t, n)
<1>8. d \in P /\ Len(left(d)) + n = L /\ Sound(d)
  <2>1. n \in 0..Len(s.tunnel[t].err)
    BY <1>2
  <2> HIDE DEF P
  <2> QED BY <1>1, <1>5, <1>7, <2>1, LinesKeep
<1> HIDE DEF d, first
<1>9. k(d) = n
  <2>1. d.tunnel[t] \in TunnelType
    BY <1>8, SoundWaiter
  <2>2. Len(left(d)) \in Nat
    BY <2>1 DEF TunnelType
  <2> DEFINE a == Len(left(d))
  <2>3. a \in Nat /\ a + n = L
    BY <1>8, <2>2
  <2> HIDE DEF a, L
  <2>4. L - a = n
    BY <1>2, <2>3
  <2> QED BY <2>4 DEF a
<1>10. n \in 1..n
  BY <1>2
<1> QED BY <1>8, <1>9, <1>10 DEF d, first

LEMMA OneLine ==
    ASSUME NEW d, NEW t
    PROVE  ReadLines(d, t, 1) = ReadLine(d, t)
<1> DEFINE S == [k \in 0..1 |-> IF k = 0 THEN {d} ELSE {ReadLine(d, t)}]
<1>1. d \in S[0]
  OBVIOUS
<1>2. \A k \in 0..1 - 1 : \A e \in S[k] : ReadLine(e, t) \in S[k + 1]
  <2> SUFFICES ASSUME NEW k \in 0..1 - 1, NEW e \in S[k] PROVE ReadLine(e, t) \in S[k + 1]
    OBVIOUS
  <2>1. k = 0
    OBVIOUS
  <2>2. e = d
    BY <2>1
  <2>3. S[0 + 1] = {ReadLine(d, t)}
    OBVIOUS
  <2> HIDE DEF S
  <2> QED BY <2>1, <2>2, <2>3
<1>3. S[1] = {ReadLine(d, t)}
  OBVIOUS
<1> HIDE DEF S
<1>4. ReadLines(d, t, 1) \in S[1]
  BY <1>1, <1>2, LinesInduction
<1> QED BY <1>3, <1>4

LEMMA ReadStderrAnswers ==
    ASSUME Trusty, NEW t \in Waiters, ReadStderr(t)
    PROVE  Answering
<1> DEFINE T == s.tunnel[t]
<1>1. PICK n \in 1..Len(T.err) : /\ n = 1 \/ ~Contains(SubSeq(T.err, 1, n), "eof")
                                 /\ s' = Settled(ReadLines(s, t, n))
  BY DEF ReadStderr
<1>2. /\ T \in TunnelType /\ T.err \in Seq(Lines) /\ T.ssh # "none" /\ T.state # "closing"
  BY TrustyHas DEF ReadStderr, Reads, TunnelType
<1>3. /\ n \in Nat /\ n <= Len(T.err) /\ n >= 1 /\ Len(T.err) \in Nat /\ T.err # <<>>
  BY <1>1, <1>2
<1> DEFINE e == ReadLine(s, t)
           d == ReadLines(s, t, n)
<1>4. e \in StateType /\ Promising(e) /\ Tells(s, e)
  BY <1>2, <1>3, FirstLineAnswers
<1>5. d \in StateType /\ Promising(d) /\ Tells(s, d)
  <2>1. CASE n = 1
    BY <1>4, <2>1, OneLine
  <2>2. CASE n # 1
    <3>1. n \in 2..Len(T.err)
      BY <1>3, <2>2
    <3>2. \A i \in 1..n : T.err[i] # "eof"
      <4>1. Len(SubSeq(T.err, 1, n)) = n /\ \A i \in 1..n : SubSeq(T.err, 1, n)[i] = T.err[i]
        BY <1>2, <1>3
      <4> QED BY <1>1, <2>2, <4>1 DEF Contains
    <3>3. d \in StateType /\ Quiet(e, t, d)
      BY <1>2, <3>1, <3>2, LinesAreQuiet
    <3> HIDE DEF d, e
    <3>4. /\ d.waiter = e.waiter /\ d.current = e.current
          /\ \A u \in Waiters \ {t} : d.tunnel[u] = e.tunnel[u]
          /\ d.tunnel[t].state \in {"open", "closing"}
      BY <3>3 DEF Quiet
    <3>5. Promising(d)
      <4>1. ASSUME NEW u \in Waiters PROVE Promised(d, u)
        BY <1>4, <3>4 DEF Promising, Promised
      <4>2. ASSUME NEW u \in Waiters, u # t PROVE Brief(d, u)
        BY <1>4, <3>4, <4>2 DEF Promising, Brief
      <4>3. Brief(d, t)
        BY <3>4 DEF Brief, Early
      <4> QED BY <4>1, <4>2, <4>3 DEF Promising
    <3>6. Tells(s, d)
      BY <1>4, <3>4 DEF Tells
    <3> QED BY <3>3, <3>5, <3>6
  <2> QED BY <2>1, <2>2
<1> HIDE DEF d
<1> QED BY <1>1, <1>5, SettledAnswers DEF d

-----------------------------------------------------------------------------

LEMMA InitIsTrusty ==
    ASSUME Init
    PROVE  Trusty /\ \A w \in Waiters : Phase(s.waiter[w]) = "none"
<1>1. /\ s.current = None
      /\ \A u \in Waiters : s.tunnel[u] = NoTunnel /\ s.waiter[u] = FreshWaiter
  <2> HIDE DEF NoTunnel
  <2> QED BY DEF Init, FreshWaiter
<1>2. /\ FreshWaiter.sheets = <<>> /\ FreshWaiter.told = <<>>
      /\ FreshWaiter.delegate = "unset"
  BY DEF FreshWaiter
<1>3. NoTunnel.state = "opening" /\ NoTunnel.asks = "new" /\ NoTunnel.err = <<>>
  BY DEF NoTunnel
<1> HIDE DEF FreshWaiter, NoTunnel
<1>4. ASSUME NEW w \in Waiters PROVE Promised(s, w) /\ Brief(s, w)
  BY <1>1, <1>2, <1>3 DEF Promised, Brief
<1>5. Phase(FreshWaiter) = "none"
  <2>1. <<>> \in Seq({"succeeded", "failed"})
    OBVIOUS
  <2> QED BY <1>2, <2>1, PhaseIs
<1> QED BY <1>1, <1>4, <1>5, InitIsSteady DEF Trusty, Promising

LEMMA StepAnswers ==
    ASSUME Trusty, Mishaps = {}, Next
    PROVE  Answering
<1>1. CASE EndSession
  BY <1>1, EndSessionAnswers
<1>2. ASSUME NEW w \in Waiters, OfSsh(w) \/ Notified(w) \/ HangsUp(w) \/ WaitForData(w)
      PROVE  Answering
  BY <1>2, SshFailsAnswers, SshLogsInAnswers, SshEndsAnswers, SshAsksAnswers,
     ReadStderrAnswers, ReadStdoutAnswers, SshTerminatedAnswers, HangsUpAnswers,
     WaitForDataAnswers DEF OfSsh, Notified
<1>3. ASSUME NEW w \in Waiters, OfMain(w) \/ OfUser(w)
      PROVE  Answering
  BY <1>3, FinishConnectionAnswers, ServerClosedAnswers, ServerClosedNoReasonAnswers,
     ConnectToServerAnswers, ReconnectAnswers, ForceReconnectAnswers, CancelAnswers,
     AnswerKeyAnswers, AuthPasswordEnteredAnswers, AuthCancelledAnswers,
     ErrorDidEndAnswers DEF OfMain, OfUser
<1> QED BY <1>1, <1>2, <1>3 DEF Next

LEMMA NextKeepsTrusty ==
    ASSUME Trusty, Mishaps = {}, [Next]_s
    PROVE  Trusty'
<1>1. Steady'
  BY NextKeepsSteady DEF Trusty
<1>2. CASE UNCHANGED s
  BY <1>1, <1>2 DEF Trusty, Promising
<1>3. CASE Next
  BY <1>1, <1>3, StepAnswers DEF Trusty, Answering
<1> QED BY <1>2, <1>3

LEMMA AttemptStateIs == AttemptState = [w \in Waiters |-> Phase(s.waiter[w])]
  BY DEF AttemptState, Phase

\* A handler takes the attempts one step on, or says nothing.
LEMMA TellsRefines ==
    ASSUME Tells(s, s')
    PROVE  [Delegates!Next]_AttemptState
<1>1. /\ AttemptState = [w \in Waiters |-> Phase(s.waiter[w])]
      /\ AttemptState' = [w \in Waiters |-> Phase(s'.waiter[w])]
  BY DEF AttemptState, Phase
<1> HIDE DEF Phase
<1>2. CASE \A v \in Waiters : Phase(s'.waiter[v]) = Phase(s.waiter[v])
  BY <1>1, <1>2
<1>3. ASSUME NEW w \in Waiters,
             Advances(Phase(s.waiter[w]), Phase(s'.waiter[w])),
             \A v \in Waiters \ {w} : Phase(s'.waiter[v]) = Phase(s.waiter[v])
      PROVE  [Delegates!Next]_AttemptState
  <2> DEFINE to == Phase(s'.waiter[w])
  <2>1. CASE to = Phase(s.waiter[w])
    BY <1>2, <1>3, <2>1
  <2>2. CASE <<Phase(s.waiter[w]), to>> \in Delegates!Steps
    <3>1. to \in Delegates!States
      BY <2>2 DEF Delegates!Steps, Delegates!States
    <3>2. AttemptState[w] = Phase(s.waiter[w])
      BY <1>1
    <3>3. AttemptState' = [AttemptState EXCEPT ![w] = to]
      BY <1>1, <1>3
    <3> HIDE DEF to
    <3>4. Delegates!Step(w, to)
      BY <2>2, <3>2, <3>3 DEF Delegates!Step
    <3> QED BY <3>1, <3>4 DEF Delegates!Next
  <2> QED BY <1>3, <2>1, <2>2 DEF Advances
<1> QED BY <1>2, <1>3 DEF Tells

\* For any number of attempts, tunnels, ports and lines, if ssh does not end
\* while it is in use or asks for the key, and says only once why it fails: the
\* delegate gets at most one answer to an attempt, after its error was shown or
\* its question refused if that is a failure, and none after cancel.
THEOREM AnswersAtMostOnce == Mishaps = {} => (Spec => AnswersOnce)
<1> SUFFICES ASSUME Mishaps = {} PROVE Spec => AnswersOnce
  OBVIOUS
<1>1. Init => Trusty /\ Delegates!Init
  <2> SUFFICES ASSUME Init PROVE Trusty /\ Delegates!Init
    OBVIOUS
  <2>1. Trusty /\ \A w \in Waiters : Phase(s.waiter[w]) = "none"
    BY InitIsTrusty
  <2> HIDE DEF Phase
  <2> QED BY <2>1, AttemptStateIs DEF Delegates!Init
<1>2. Trusty /\ [Next]_s => Trusty'
  BY NextKeepsTrusty
<1>3. Trusty /\ [Next]_s => [Delegates!Next]_AttemptState
  <2> SUFFICES ASSUME Trusty, [Next]_s PROVE [Delegates!Next]_AttemptState
    OBVIOUS
  <2>1. CASE UNCHANGED s
    BY <2>1 DEF AttemptState
  <2>2. CASE Next
    BY <2>2, StepAnswers, TellsRefines DEF Answering
  <2> QED BY <2>1, <2>2
<1> QED BY <1>1, <1>2, <1>3, PTL DEF Spec, AnswersOnce, Delegates!Spec
=============================================================================
