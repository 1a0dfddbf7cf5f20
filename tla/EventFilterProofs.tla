-------------------------- MODULE EventFilterProofs --------------------------
(***************************************************************************)
(* Nothing stays pressed on the server that the user has released, for any  *)
(* keyboard, any settings and any queue: the safety properties of           *)
(* EventFilter.                                                             *)
(***************************************************************************)
EXTENDS EventFilter, FiniteSetTheorems, SequenceTheorems, TLAPS

Scenario(b) == user.profile.emulation[b].scenario
Count(b) == user.profile.emulation[b].count
Plain == Chars \cup Buttons

\* The modifiers that gestures use, and what no gesture keeps back or drops.
Gestures == {Modifier(b) : b \in {c \in Emulated : Scenario(c) # "none"}}
Firm == Buttons \cup (Flags \ Gestures)

\* The first n events of q tap m, and no multi-tap of m is complete.  The
\* server was not told of a modifier that is being tapped.
TapsWait(q, P, n, m) ==
    /\ \A i \in 1..n : q[i] = IF i % 2 = 1 THEN Dn(m) ELSE Up(m)
    /\ n > 0 => /\ m \notin P
                /\ \E b \in Emulated : Scenario(b) # "none" /\ Modifier(b) = m
    /\ \A b \in Emulated :
          Scenario(b) = "multiTap" /\ Modifier(b) = m => n < 2 * Count(b)

\* What follows them releases something of S that is pressed.
UpsWait(q, P, n, S) ==
    \A i \in n + 1..Len(q) : \E x \in P \cap S : q[i] = Up(x)

Waits(q, P, S) ==
    \E n \in 0..Len(q), m \in Flags : TapsWait(q, P, n, m) /\ UpsWait(q, P, n, S)

\* A filter as every method leaves it.
Sound(f, S) ==
    /\ f \in FilterType
    /\ viewOnly => f.pressed = {}
    /\ Waits(f.pending, f.pressed, S)
    /\ \A b \in f.stillDown : Scenario(b) = "clickWhileHolding"

\* What the server will hold pressed once the queue of f has drained.
Left(f) == Net(f.pressed, f.pending)

\* Of the modifiers, that is some of Q: all that no gesture uses, and none that
\* emulates a button.
Known(f, Q) ==
    /\ Left(f) \cap Flags \subseteq Q
    /\ viewOnly \/ Q \ Gestures \subseteq Left(f)
    /\ \A b \in f.stillDown : Modifier(b) \in Q \ Left(f)

IInv ==
    /\ TypeOK
    /\ Sound(filter, Chars)
    /\ Known(filter, filter.queued)

\* Who knows of Q knows of no modifier that is not held.  He knows of none, as
\* when the window becomes key, or of all but some that gestures use.
Knows(Q, held) ==
    /\ Q \subseteq held
    /\ Q = {} \/ held \subseteq Q \cup Gestures

\* Without the focus the filter is empty; with it, it knows the keyboard.
FocusKnown ==
    /\ Knows(filter.queued, IF focus THEN flags ELSE {})
    /\ ResignedHoldsNothing

\* What is pressed of the characters is what the keys that are down produce.
\* If the releases still wait, G was held, and what was let go of it since is
\* what the filter did not know of.
Typed(down, mods) == {KeyCharacter(k, mods) : k \in down}

Unheard(G) == flags = {} \/ G \subseteq flags \cup Gestures

KeysKnown ==
    /\ \E G \in SUBSET user.flags :
          /\ flags \subseteq G
          /\ filter.pressed \cap Chars \subseteq Typed(keys, G)
          /\ G = flags \/ (Left(filter) \cap Chars = {} /\ Unheard(G))
    /\ lastCharacters # NoCharacter => filter.pressed \cap Chars = {}

\* The button that the server holds is the emulated one, or one that is down.
ButtonsKnown ==
    /\ Left(filter) \cap Buttons \subseteq
          IF filter.emulationButton = "button1" THEN buttons
          ELSE {filter.emulationButton}
    /\ filter.emulationButton # "button1" =>
          Scenario(filter.emulationButton) # "none"

-----------------------------------------------------------------------------
(* Events, and what a run of them leaves pressed. *)

LEMMA Events ==
    /\ \A x, y : Dn(x) # Up(y) /\ (Dn(x) = Dn(y) => x = y) /\ (Up(x) = Up(y) => x = y)
    /\ \A x \in Items : Dn(x) \in Event /\ Up(x) \in Event
    /\ \A e \in Event : \E x \in Items : e = Dn(x) \/ e = Up(x)
BY DEF Dn, Up, Event

LEMMA Kinds ==
    /\ Flags \subseteq Items /\ Chars \subseteq Items /\ Buttons \subseteq Items
    /\ Emulated \subseteq Buttons /\ Items = Flags \cup Chars \cup Buttons
    /\ Flags \cap Buttons = {} /\ Flags \cap Chars = {} /\ Chars \cap Buttons = {}
    /\ "button1" \in Buttons \ Emulated /\ NoButton \notin Buttons
    /\ NoCharacter \notin Chars
BY KeyboardAssumption DEF Items, Flags, Buttons, Emulated, NoButton, NoCharacter

LEMMA CharsPlain == Chars \in SUBSET Plain /\ Buttons \in SUBSET Plain /\ Plain \in SUBSET Plain
BY DEF Plain

LEMMA Settings ==
    ASSUME user \in Users, NEW b \in Emulated
    PROVE  /\ Scenario(b) \in Scenarios /\ Modifier(b) \in Flags
           /\ Count(b) \in Nat /\ Count(b) > 0
BY UserAssumption DEF ProfileType, Scenario, Modifier, Count

LEMMA NetEmpty == \A P \in SUBSET Items : Net(P, <<>>) = P
BY DEF Net

LEMMA NetType == \A P \in SUBSET Items : \A q : Net(P, q) \in SUBSET Items
BY DEF Net

LEMMA NetDown ==
    ASSUME NEW P \in SUBSET Items, NEW q \in Seq(Event), NEW x \in Items
    PROVE  Net(P, Append(q, Dn(x))) = Net(P, q) \cup {x}
<1> DEFINE r == Append(q, Dn(x))
<1>1. /\ DOMAIN q = 1..Len(q) /\ DOMAIN r = 1..Len(q) + 1 /\ Len(q) \in Nat
      /\ \A i \in 1..Len(q) : r[i] = q[i]
      /\ r[Len(q) + 1] = Dn(x)
  BY Events
<1> HIDE DEF r
<1>2. Len(q) + 1 \in DOMAIN r /\ \A j \in DOMAIN r : ~(j > Len(q) + 1)
  BY <1>1
<1>3. x \in Net(P, r)
  BY <1>1, <1>2 DEF Net
<1>4. ASSUME NEW y \in Items, y # x
      PROVE  y \in Net(P, r) <=> y \in Net(P, q)
  <2>1. \A i \in DOMAIN r : (r[i] = Dn(y) \/ r[i] = Up(y)) => i \in DOMAIN q
    BY <1>1, <1>4, Events
  <2>2. \A i \in DOMAIN q : i \in DOMAIN r /\ r[i] = q[i]
    BY <1>1
  <2>3. (\A i \in DOMAIN r : r[i] # Up(y)) <=> (\A i \in DOMAIN q : q[i] # Up(y))
    BY <2>1, <2>2
  <2>4. (\E i \in DOMAIN r : r[i] = Dn(y) /\ \A j \in DOMAIN r : j > i => r[j] # Up(y))
        <=> (\E i \in DOMAIN q : q[i] = Dn(y) /\ \A j \in DOMAIN q : j > i => q[j] # Up(y))
    BY <2>1, <2>2
  <2> QED BY <2>3, <2>4 DEF Net
<1> QED BY <1>3, <1>4, NetType DEF r

LEMMA NetUp ==
    ASSUME NEW P \in SUBSET Items, NEW q \in Seq(Event), NEW x \in Items
    PROVE  Net(P, Append(q, Up(x))) = Net(P, q) \ {x}
<1> DEFINE r == Append(q, Up(x))
<1>1. /\ DOMAIN q = 1..Len(q) /\ DOMAIN r = 1..Len(q) + 1 /\ Len(q) \in Nat
      /\ \A i \in 1..Len(q) : r[i] = q[i]
      /\ r[Len(q) + 1] = Up(x)
  BY Events
<1> HIDE DEF r
<1>2. Len(q) + 1 \in DOMAIN r /\ \A i \in DOMAIN r : i # Len(q) + 1 => Len(q) + 1 > i
  BY <1>1
<1>3. x \notin Net(P, r)
  BY <1>1, <1>2, Events DEF Net
<1>4. ASSUME NEW y \in Items, y # x
      PROVE  y \in Net(P, r) <=> y \in Net(P, q)
  <2>1. \A i \in DOMAIN r : (r[i] = Dn(y) \/ r[i] = Up(y)) => i \in DOMAIN q
    BY <1>1, <1>4, Events
  <2>2. \A i \in DOMAIN q : i \in DOMAIN r /\ r[i] = q[i]
    BY <1>1
  <2>3. (\A i \in DOMAIN r : r[i] # Up(y)) <=> (\A i \in DOMAIN q : q[i] # Up(y))
    BY <2>1, <2>2
  <2>4. (\E i \in DOMAIN r : r[i] = Dn(y) /\ \A j \in DOMAIN r : j > i => r[j] # Up(y))
        <=> (\E i \in DOMAIN q : q[i] = Dn(y) /\ \A j \in DOMAIN q : j > i => q[j] # Up(y))
    BY <2>1, <2>2
  <2> QED BY <2>3, <2>4 DEF Net
<1> QED BY <1>3, <1>4, NetType DEF r

LEMMA NetUps ==
    ASSUME NEW P \in SUBSET Items, NEW q \in Seq(Event), NEW r \in Seq(Event),
           NEW T,
           \A i \in DOMAIN r : \E x \in T : r[i] = Up(x),
           \A x \in T : \E i \in DOMAIN r : r[i] = Up(x)
    PROVE  Net(P, q \o r) = Net(P, q) \ T
<1> DEFINE s == q \o r
<1>1. /\ DOMAIN q = 1..Len(q) /\ Len(q) \in Nat /\ DOMAIN r = 1..Len(r) /\ Len(r) \in Nat
      /\ DOMAIN s = 1..Len(q) + Len(r)
      /\ \A i \in DOMAIN q : i \in DOMAIN s /\ s[i] = q[i]
      /\ \A i \in DOMAIN r : Len(q) + i \in DOMAIN s /\ s[Len(q) + i] = r[i]
  BY Events
<1> HIDE DEF s
<1>2. \A i \in DOMAIN s \ DOMAIN q : i > Len(q) /\ \E x \in T : s[i] = Up(x)
  <2> SUFFICES ASSUME NEW i \in DOMAIN s \ DOMAIN q
               PROVE  i > Len(q) /\ \E x \in T : s[i] = Up(x)
    OBVIOUS
  <2>1. i - Len(q) \in DOMAIN r /\ i = Len(q) + (i - Len(q)) /\ i > Len(q)
    BY <1>1
  <2> QED BY <1>1, <2>1
<1>3. ASSUME NEW y \in T
      PROVE  y \notin Net(P, s)
  <2>1. PICK k \in DOMAIN r : r[k] = Up(y)
    OBVIOUS
  <2>2. Len(q) + k \in DOMAIN s /\ s[Len(q) + k] = Up(y)
        /\ \A i \in DOMAIN q : Len(q) + k > i
    BY <1>1, <2>1
  <2>3. \A i \in DOMAIN s : s[i] = Dn(y) => i \in DOMAIN q
    BY <1>2, Events
  <2> QED BY <2>2, <2>3 DEF Net
<1>4. ASSUME NEW y \in Items \ T
      PROVE  y \in Net(P, s) <=> y \in Net(P, q)
  <2>1. \A i \in DOMAIN s : (s[i] = Dn(y) \/ s[i] = Up(y)) => i \in DOMAIN q
    BY <1>2, <1>4, Events
  <2>3. (\A i \in DOMAIN s : s[i] # Up(y)) <=> (\A i \in DOMAIN q : q[i] # Up(y))
    BY <2>1, <1>1
  <2>4. (\E i \in DOMAIN s : s[i] = Dn(y) /\ \A j \in DOMAIN s : j > i => s[j] # Up(y))
        <=> (\E i \in DOMAIN q : q[i] = Dn(y) /\ \A j \in DOMAIN q : j > i => q[j] # Up(y))
    BY <2>1, <1>1
  <2> QED BY <2>3, <2>4 DEF Net
<1> QED BY <1>3, <1>4, NetType DEF s

\* A set of events in some order.
LEMMA Ordered ==
    ASSUME NEW S \in SUBSET Event, IsFiniteSet(S)
    PROVE  /\ SetToSeq(S) \in Seq(Event)
           /\ \A e : e \in S <=> \E i \in DOMAIN SetToSeq(S) : SetToSeq(S)[i] = e
<1> DEFINE n == Cardinality(S)
           q == SetToSeq(S)
<1>1. n \in Nat /\ ExistsBijection(1..n, S) /\ IsFiniteSet(1..n) /\ Cardinality(1..n) = n
  BY FS_CardinalityType, FS_Interval
<1>2. \E f \in [1..n -> S] : IsInjective(f)
  BY <1>1 DEF ExistsBijection, Bijection, Injection, IsInjective
<1>3. q \in [1..n -> S] /\ IsInjective(q)
  BY <1>2 DEF SetToSeq
<1> HIDE DEF q, n
<1>4. q \in Injection(1..n, S)
  BY <1>3 DEF Injection, IsInjective
<1>5. q \in Surjection(1..n, S)
  BY <1>1, <1>4, FS_Injection DEF n
<1>6. q \in Seq(Event)
  BY <1>1, <1>3
<1> QED BY <1>3, <1>5, <1>6 DEF Surjection, q

-----------------------------------------------------------------------------
(* Sending. *)

LEMMA SendAllIs ==
    ASSUME NEW f \in FilterType
    PROVE  /\ SendAll(f) \in FilterType
           /\ SendAll(f) = [f EXCEPT !.pending = <<>>,
                                     !.pressed = IF viewOnly THEN f.pressed ELSE Left(f)]
<1>1. f.pending \in Seq(Event) /\ f.pressed \in SUBSET Items
  BY DEF FilterType
<1>2. SubSeq(f.pending, 1, Len(f.pending)) = f.pending
      /\ SubSeq(f.pending, Len(f.pending) + 1, Len(f.pending)) = <<>>
  BY <1>1
<1>3. SendAll(f) = [f EXCEPT !.pending = <<>>,
                             !.pressed = IF viewOnly THEN f.pressed ELSE Left(f)]
  BY <1>2 DEF SendAll, SendFirst, Left
<1>4. Left(f) \in SUBSET Items
  BY <1>1, NetType DEF Left
<1> DEFINE P == IF viewOnly THEN f.pressed ELSE Left(f)
<1>5. P \in SUBSET Items /\ <<>> \in Seq(Event)
  BY <1>1, <1>4
<1> HIDE DEF P
<1>6. [f EXCEPT !.pending = <<>>, !.pressed = P] \in FilterType
  BY <1>5 DEF FilterType
<1> QED BY <1>3, <1>6 DEF P

LEMMA SendNoneIs ==
    ASSUME NEW f \in FilterType
    PROVE  SendFirst(f, 0) = f
<1>1. f.pending \in Seq(Event) /\ f.pressed \in SUBSET Items
  BY DEF FilterType
<1>2. SubSeq(f.pending, 1, 0) = <<>> /\ SubSeq(f.pending, 0 + 1, Len(f.pending)) = f.pending
  BY <1>1
<1>3. SendFirst(f, 0) = [f EXCEPT !.pending = f.pending, !.pressed = f.pressed]
  BY <1>1, <1>2, NetEmpty DEF SendFirst
<1> QED BY <1>3 DEF FilterType

-----------------------------------------------------------------------------
(* Gestures.  Each handler has one of four results. *)

\* g is f but for its queue, what is pressed, the emulation and the timers.
But(f, g) ==
    /\ g \in FilterType
    /\ g.queued = f.queued /\ g.slowTap = f.slowTap /\ g.watchCaps = f.watchCaps

\* g is f but for the timers, and for these it may only have stopped one.
Alike(f, g) ==
    /\ But(f, g)
    /\ g.pending = f.pending /\ g.pressed = f.pressed
    /\ g.emulationButton = f.emulationButton /\ g.stillDown = f.stillDown
Calmer(f, g) ==
    /\ g.multiTapTimer => f.multiTapTimer
    /\ g.tapAndClickTimer \in {f.tapAndClickTimer, NoButton}

Complete(q, b) ==
    /\ Scenario(b) = "multiTap"
    /\ Len(q) >= 2 * Count(b)
    /\ IsTaps(SubSeq(q, 1, 2 * Count(b)), Modifier(b))

Passes(f, b, h) ==
    /\ h.delay = 0 /\ Alike(f, h.filter) /\ Calmer(f, h.filter)
    /\ ~Complete(f.pending, b)

Keeps(f, b, h) ==
    /\ h.delay = Len(f.pending) /\ f.pending # <<>> /\ Alike(f, h.filter)
    /\ IsTaps(f.pending, Modifier(b)) /\ Scenario(b) # "none"
    /\ ~Complete(f.pending, b)

\* p is the queue before its last event.
Emulates(f, p, b, h) ==
    /\ h.delay = 0 /\ But(f, h.filter)
    /\ f.pending = Append(p, Dn("button1"))
    /\ IsTaps(p, Modifier(b)) /\ Scenario(b) # "none"
    /\ h.filter.pending = <<Dn(b)>> /\ h.filter.pressed = f.pressed
    /\ h.filter.emulationButton = b
    /\ \/ h.filter.stillDown = f.stillDown
       \/ /\ Scenario(b) = "clickWhileHolding" /\ p = <<Dn(Modifier(b))>>
          /\ h.filter.stillDown = f.stillDown \cup {b}

Discards(f, p, b, h) ==
    /\ h.delay = 0 /\ But(f, h.filter)
    /\ IsTaps(p, Modifier(b)) /\ p # <<>>
    /\ IsTaps(f.pending, Modifier(b)) \/ f.pending[Len(f.pending)] = Dn(EscapeChar)
    /\ h.filter.pending = <<>> /\ h.filter.pressed = f.pressed
    /\ h.filter.emulationButton = f.emulationButton
    /\ h.filter.stillDown = f.stillDown

Handled(f, p, b, h) ==
    Passes(f, b, h) \/ Keeps(f, b, h) \/ Emulates(f, p, b, h) \/ Discards(f, p, b, h)

\* While an event is queued, it may complete what waits before it.
LEMMA WaitingIsNoGesture ==
    ASSUME user \in Users, NEW p \in Seq(Event), NEW P, Waits(p, P, Plain),
           NEW b \in Emulated
    PROVE  /\ \A i \in DOMAIN p : p[i] # Dn("button1") /\ p[i] # Dn(EscapeChar)
           /\ ~Complete(p, b)
           /\ IsTaps(p, Modifier(b)) =>
                 p = <<>> \/ (Modifier(b) \notin P /\ Modifier(b) \in Gestures)
<1>1. PICK n \in 0..Len(p), m \in Flags : TapsWait(p, P, n, m) /\ UpsWait(p, P, n, Plain)
  BY DEF Waits
<1>2. DOMAIN p = 1..Len(p) /\ Len(p) \in Nat /\ n \in Nat
  BY <1>1
<1>3. Count(b) \in Nat /\ Count(b) > 0 /\ Modifier(b) \in Flags
  BY Settings
<1>4. \A i \in 1..n : p[i] = Dn(m) \/ p[i] = Up(m)
  BY <1>1 DEF TapsWait
<1>5. \A i \in DOMAIN p : i > n => \E x \in Plain : p[i] = Up(x)
  BY <1>1, <1>2 DEF UpsWait
<1>6. m # "button1" /\ m # EscapeChar
  BY <1>1, KeyboardAssumption DEF Flags
<1>7. \A i \in DOMAIN p : p[i] # Dn("button1") /\ p[i] # Dn(EscapeChar)
  BY <1>2, <1>4, <1>5, <1>6, Events
<1>8. Modifier(b) \notin Plain
  BY <1>3, Kinds DEF Plain
<1>9. ASSUME p # <<>>, p[1] = Dn(Modifier(b))
      PROVE  /\ n > 0 /\ m = Modifier(b)
             /\ Modifier(b) \notin P /\ Modifier(b) \in Gestures
  <2>1. 1 \in DOMAIN p
    BY <1>2, <1>9, EmptySeq
  <2>2. n > 0
    BY <2>1, <1>9, <1>5, <1>2, Events
  <2>3. p[1] = Dn(m)
    BY <1>1, <2>2, <1>2 DEF TapsWait
  <2>4. m = Modifier(b)
    BY <2>3, <1>9, Events
  <2> QED BY <2>2, <2>4, <1>1 DEF TapsWait, Gestures
<1>10. ~Complete(p, b)
  <2>1. SUFFICES ASSUME Complete(p, b) PROVE FALSE
    OBVIOUS
  <2> DEFINE k == 2 * Count(b)
             s == SubSeq(p, 1, k)
  <2>2. k \in Nat /\ k > 1 /\ k <= Len(p)
    BY <2>1, <1>3 DEF Complete
  <2>3. DOMAIN s = 1..k /\ \A i \in 1..k : s[i] = p[i]
    BY <2>2, <1>2
  <2>4. \A i \in 1..k : p[i] = Dn(Modifier(b)) \/ p[i] = Up(Modifier(b))
    BY <2>1, <2>3 DEF Complete, IsTaps
  <2>5. p[1] = Dn(Modifier(b)) /\ p # <<>>
    <3>1. 1 \in DOMAIN s /\ s[1] = p[1] /\ 1 % 2 = 1 /\ Len(p) # 0
      BY <2>2, <2>3, <1>2
    <3> QED BY <2>1, <3>1, EmptySeq DEF Complete, IsTaps
  <2>6. m = Modifier(b) /\ n < k
    BY <2>1, <2>5, <1>9, <1>1 DEF TapsWait, Complete
  <2>7. n + 1 \in 1..k /\ n + 1 \in DOMAIN p /\ n + 1 > n
    BY <2>2, <2>6, <1>2
  <2> QED BY <2>4, <2>7, <1>5, <1>8, Events
<1>11. IsTaps(p, Modifier(b)) => p = <<>> \/ p[1] = Dn(Modifier(b))
  BY <1>2, EmptySeq DEF IsTaps
<1> QED BY <1>7, <1>9, <1>10, <1>11

LEMMA Appended ==
    ASSUME NEW p \in Seq(Event), NEW e \in Event
    PROVE  /\ Append(p, e) \in Seq(Event) /\ Append(p, e) # <<>>
           /\ DOMAIN p = 1..Len(p) /\ DOMAIN Append(p, e) = 1..Len(p) + 1
           /\ Len(p) \in Nat /\ Len(Append(p, e)) = Len(p) + 1
           /\ \A i \in 1..Len(p) : Append(p, e)[i] = p[i]
           /\ Append(p, e)[Len(p) + 1] = e
           /\ \A x : Append(p, e) = <<x>> => p = <<>> /\ e = x
           /\ \A x, y : Append(p, e) = <<x, y>> => p = <<x>> /\ e = y
           /\ IsTaps(<<>>, e) /\ \A m : IsTaps(<<Dn(m)>>, m)
<1> DEFINE q == Append(p, e)
<1>1. /\ q \in Seq(Event) /\ Len(p) \in Nat /\ Len(q) = Len(p) + 1
      /\ DOMAIN p = 1..Len(p) /\ DOMAIN q = 1..Len(p) + 1
      /\ \A i \in 1..Len(p) : q[i] = p[i]
      /\ q[Len(p) + 1] = e
  OBVIOUS
<1> HIDE DEF q
<1>2. q # <<>>
  BY <1>1
<1>3. ASSUME NEW x, q = <<x>>
      PROVE  p = <<>> /\ e = x
  <2>1. Len(p) = 0
    BY <1>1, <1>3
  <2> QED BY <2>1, <1>1, <1>3, EmptySeq
<1>4. ASSUME NEW x, NEW y, q = <<x, y>>
      PROVE  p = <<x>> /\ e = y
  <2>1. Len(p) = 1 /\ p[1] = x /\ e = y
    BY <1>1, <1>4
  <2> QED BY <2>1, <1>1
<1>5. IsTaps(<<>>, e) /\ \A m : IsTaps(<<Dn(m)>>, m)
  BY DEF IsTaps
<1> QED BY <1>1, <1>2, <1>3, <1>4, <1>5 DEF q

LEMMA HoldingHandled ==
    ASSUME user \in Users, NEW f \in FilterType, NEW b \in Emulated,
           NEW p \in Seq(Event), NEW e \in Event, f.pending = Append(p, e),
           Scenario(b) = "clickWhileHolding"
    PROVE  Handled(f, p, b, HandleClickWhileHolding(f, b))
<1> DEFINE hold == Dn(Modifier(b))
           h == HandleClickWhileHolding(f, b)
<1>1. Modifier(b) \in Flags /\ b \in Buttons /\ ~Complete(f.pending, b) /\ hold \in Event
      /\ <<Dn(b)>> \in Seq(Event) /\ hold # Dn("button1")
  <2>1. Modifier(b) \in Flags /\ b \in Buttons /\ ~Complete(f.pending, b)
    BY Settings, Kinds DEF Complete
  <2>2. hold \in Event /\ Dn(b) \in Event /\ hold # Dn("button1")
    BY <2>1, Kinds, Events
  <2> QED BY <2>1, <2>2
<1>2. But(f, f) /\ Alike(f, f) /\ Calmer(f, f)
  BY DEF But, Alike, Calmer
<1>3. Emulate(f, b) \in FilterType
      /\ Emulate(f, b) = [f EXCEPT !.emulationButton = b, !.pending = <<Dn(b)>>]
  BY <1>1 DEF Emulate, FilterType
<1>4. [Emulate(f, b) EXCEPT !.stillDown = @ \cup {b}] \in FilterType
  BY <1>1 DEF Emulate, FilterType
<1>5. CASE f.pending = <<hold, Dn("button1")>>
  <2>1. h = Keep([Emulate(f, b) EXCEPT !.stillDown = @ \cup {b}], 0)
    BY <1>5 DEF HandleClickWhileHolding
  <2>2. p = <<hold>> /\ e = Dn("button1") /\ IsTaps(p, Modifier(b))
    <3>1. Append(p, e) = <<hold, Dn("button1")>>
      BY <1>5
    <3>2. p = <<hold>> /\ e = Dn("button1")
      BY <3>1, Appended
    <3> QED BY <3>2, Appended
  <2> HIDE DEF h
  <2>3. Emulates(f, p, b, h)
    BY <2>1, <2>2, <1>3, <1>4 DEF Emulates, But, Keep, Emulate, FilterType
  <2> QED BY <2>3 DEF Handled, h
<1>6. CASE f.pending = <<hold>>
  <2>1. h = Keep(f, 1)
    <3>1. f.pending # <<hold, Dn("button1")>> /\ f.pending # <<Dn("button1")>>
      BY <1>6, <1>1
    <3> QED BY <1>6, <3>1 DEF HandleClickWhileHolding
  <2>2. IsTaps(f.pending, Modifier(b)) /\ Len(f.pending) = 1 /\ f.pending # <<>>
    BY <1>6, Appended
  <2> HIDE DEF h
  <2>3. Keeps(f, b, h)
    BY <2>1, <2>2, <1>1, <1>2 DEF Keeps, Keep
  <2> QED BY <2>3 DEF Handled, h
<1>7. CASE b \in f.stillDown /\ f.pending = <<Dn("button1")>>
  <2>1. h = Keep(Emulate(f, b), 0)
    <3>1. f.pending # <<hold, Dn("button1")>> /\ f.pending # <<hold>>
      BY <1>7, <1>1
    <3> QED BY <1>7, <3>1 DEF HandleClickWhileHolding
  <2>2. p = <<>> /\ e = Dn("button1") /\ IsTaps(p, Modifier(b))
    <3>1. Append(p, e) = <<Dn("button1")>>
      BY <1>7
    <3> QED BY <3>1, Appended DEF IsTaps
  <2> HIDE DEF h
  <2>3. Emulates(f, p, b, h)
    BY <2>1, <2>2, <1>3 DEF Emulates, But, Keep, Emulate, FilterType
  <2> QED BY <2>3 DEF Handled, h
<1>8. CASE ~(f.pending = <<hold, Dn("button1")>>) /\ ~(f.pending = <<hold>>)
           /\ ~(b \in f.stillDown /\ f.pending = <<Dn("button1")>>)
  <2>1. h = Keep(f, 0)
    BY <1>8 DEF HandleClickWhileHolding
  <2> HIDE DEF h
  <2>2. Passes(f, b, h)
    BY <2>1, <1>1, <1>2 DEF Passes, Keep
  <2> QED BY <2>2 DEF Handled, h
<1> QED BY <1>5, <1>6, <1>7, <1>8

LEMMA TapsHandled ==
    ASSUME user \in Users, NEW f \in FilterType, NEW b \in Emulated,
           NEW p \in Seq(Event), NEW e \in Event, f.pending = Append(p, e),
           Scenario(b) = "multiTap", ~Complete(p, b)
    PROVE  Handled(f, p, b, HandleMultiTap(f, b))
<1> DEFINE q == f.pending
           m == Modifier(b)
           n == 2 * Count(b)
           h == HandleMultiTap(f, b)
           reset == [f EXCEPT !.multiTapTimer = FALSE]
<1>1. n \in Nat /\ n > 1 /\ n = 2 * user.profile.emulation[b].count
  BY Settings DEF Count
<1>2. /\ q \in Seq(Event) /\ q # <<>> /\ Len(p) \in Nat /\ Len(q) = Len(p) + 1
      /\ DOMAIN p = 1..Len(p) /\ DOMAIN q = 1..Len(q)
      /\ \A i \in 1..Len(p) : q[i] = p[i]
  BY Appended
<1>3. Complete(q, b) <=> Len(q) >= n /\ IsTaps(SubSeq(q, 1, n), m)
  BY DEF Complete
<1>4. reset \in FilterType /\ [reset EXCEPT !.pending = <<>>] \in FilterType
  <2>1. <<>> \in Seq(Event)
    OBVIOUS
  <2> QED BY <2>1 DEF FilterType
<1>5. CASE Complete(q, b)
  <2>1. h = Keep([reset EXCEPT !.pending = <<>>], 0)
    <3>1. ~(Len(q) < n)
      BY <1>5, <1>3, <1>1, <1>2
    <3> QED BY <1>5, <1>3, <3>1, <1>1 DEF HandleMultiTap
  <2>2. Len(p) < n
    <3>1. SUFFICES ASSUME Len(p) >= n PROVE Complete(p, b)
      BY <1>1, <1>2
    <3>2. SubSeq(p, 1, n) = SubSeq(q, 1, n)
      BY <3>1, <1>1, <1>2
    <3> QED BY <3>1, <3>2, <1>3, <1>5 DEF Complete
  <2>3. Len(p) = n - 1
    BY <2>2, <1>1, <1>2, <1>3, <1>5
  <2>4. IsTaps(p, m) /\ p # <<>> /\ IsTaps(q, m)
    <3>1. SubSeq(q, 1, n) = q
      BY <1>1, <1>2, <2>3
    <3>2. \A i \in DOMAIN p : i \in DOMAIN q /\ q[i] = p[i]
      BY <1>1, <1>2, <2>3
    <3>3. IsTaps(p, m)
      BY <3>1, <3>2, <1>3, <1>5 DEF IsTaps
    <3>4. IsTaps(q, m)
      BY <3>1, <1>3, <1>5
    <3>5. p # <<>>
      BY <2>3, <1>1
    <3> QED BY <3>3, <3>4, <3>5
  <2> HIDE DEF h
  <2>5. Discards(f, p, b, h)
    BY <2>1, <2>4, <1>4 DEF Discards, But, Keep, FilterType
  <2> QED BY <2>5 DEF Handled, h
<1>6. CASE Len(q) < n /\ IsTaps(q, m)
  <2>1. PICK on \in BOOLEAN : h = Keep([f EXCEPT !.multiTapTimer = on], Len(q))
    <3>1. ~(Len(q) >= n)
      BY <1>6, <1>1, <1>2
    <3>2. h = Keep([f EXCEPT !.multiTapTimer = q # <<>> /\ Len(q) % 2 = 0], Len(q))
      BY <1>6, <3>1, <1>1 DEF HandleMultiTap
    <3> QED BY <3>2
  <2>2. [f EXCEPT !.multiTapTimer = on] \in FilterType
    BY DEF FilterType
  <2>3. ~Complete(q, b)
    BY <1>6, <1>1, <1>2, <1>3
  <2> HIDE DEF h
  <2>4. Keeps(f, b, h)
    BY <2>1, <2>2, <2>3, <1>2, <1>6 DEF Keeps, Alike, But, Keep, FilterType
  <2> QED BY <2>4 DEF Handled, h
<1>7. CASE ~Complete(q, b) /\ ~(Len(q) < n /\ IsTaps(q, m))
  <2>1. h = Keep(reset, 0)
    BY <1>7, <1>1, <1>3 DEF HandleMultiTap
  <2> HIDE DEF h
  <2>2. Passes(f, b, h)
    BY <2>1, <1>4, <1>7 DEF Passes, Alike, But, Calmer, Keep, FilterType
  <2> QED BY <2>2 DEF Handled, h
<1> QED BY <1>5, <1>6, <1>7

LEMMA TapAndClickHandled ==
    ASSUME user \in Users, NEW f \in FilterType, NEW b \in Emulated,
           NEW p \in Seq(Event), NEW e \in Event, f.pending = Append(p, e),
           Scenario(b) = "tapAndClick",
           \A i \in DOMAIN p : p[i] # Dn("button1") /\ p[i] # Dn(EscapeChar)
    PROVE  Handled(f, p, b, HandleTapAndClick(f, b))
<1> DEFINE q == f.pending
           m == Modifier(b)
           h == HandleTapAndClick(f, b)
           tapped == Len(q) >= 2 /\ IsTaps(SubSeq(q, 1, 2), m) /\ ~f.slowTap
           reset == [f EXCEPT !.tapAndClickTimer = NoButton]
<1>1. /\ q \in Seq(Event) /\ q # <<>> /\ Len(p) \in Nat /\ Len(q) = Len(p) + 1
      /\ DOMAIN p = 1..Len(p) /\ DOMAIN q = 1..Len(q)
      /\ \A i \in 1..Len(p) : q[i] = p[i]
      /\ q[Len(p) + 1] = e
  BY Appended
<1>2. ~Complete(q, b)
  BY DEF Complete
<1>3. reset \in FilterType
  BY DEF FilterType
<1>4. CASE tapped /\ Len(q) = 2
  <2>1. PICK t \in Emulated \cup {NoButton} :
            h = Keep([f EXCEPT !.tapAndClickTimer = t], 2)
    <3>1. ~(Len(q) > 2) /\ \A x : q # <<x>>
      BY <1>4
    <3>2. h = Keep([f EXCEPT !.tapAndClickTimer = IF @ = NoButton THEN b ELSE @], 2)
      BY <1>4, <3>1 DEF HandleTapAndClick
    <3> QED BY <3>2 DEF FilterType
  <2>2. SubSeq(q, 1, 2) = q
    BY <1>1, <1>4
  <2>3. [f EXCEPT !.tapAndClickTimer = t] \in FilterType
    BY DEF FilterType
  <2> HIDE DEF h
  <2>4. Keeps(f, b, h)
    BY <2>1, <2>2, <2>3, <1>1, <1>2, <1>4 DEF Keeps, Alike, But, Keep, FilterType
  <2> QED BY <2>4 DEF Handled, h
<1>5. ASSUME tapped, Len(q) > 2, q[3] = Dn("button1") \/ q[3] = Dn(EscapeChar)
      PROVE  Len(p) = 2 /\ e = q[3] /\ IsTaps(p, m) /\ p # <<>>
  <2>1. Len(p) = 2
    <3>1. 3 \notin DOMAIN p
      BY <1>1, <1>5
    <3> QED BY <3>1, <1>1, <1>5
  <2>2. \A i \in DOMAIN p : i \in DOMAIN SubSeq(q, 1, 2) /\ SubSeq(q, 1, 2)[i] = p[i]
    BY <1>1, <2>1
  <2>3. IsTaps(p, m)
    BY <1>5, <2>2 DEF IsTaps
  <2>4. e = q[3] /\ p # <<>>
    BY <1>1, <2>1
  <2> QED BY <2>1, <2>3, <2>4
<1>6. CASE tapped /\ Len(q) > 2 /\ q[3] = Dn("button1")
  <2>1. h = Keep(Emulate(reset, b), 0)
    <3>1. \A x : q # <<x>>
      BY <1>6
    <3> QED BY <1>6, <3>1 DEF HandleTapAndClick
  <2>2. <<Dn(b)>> \in Seq(Event)
    BY Kinds, Events
  <2>3. Emulate(reset, b) \in FilterType
    BY <2>2, Kinds DEF Emulate, FilterType
  <2> HIDE DEF h
  <2>4. Emulates(f, p, b, h)
    BY <2>1, <2>3, <1>5, <1>6 DEF Emulates, But, Keep, Emulate, FilterType
  <2> QED BY <2>4 DEF Handled, h
<1>7. CASE tapped /\ Len(q) > 2 /\ q[3] # Dn("button1")
  <2>1. h = Keep(IF q[3] = Dn(EscapeChar) THEN Discard(reset) ELSE reset, 0)
    <3>1. \A x : q # <<x>>
      BY <1>7
    <3> QED BY <1>7, <3>1 DEF HandleTapAndClick
  <2>2. CASE q[3] = Dn(EscapeChar)
    <3>1. Discard(reset) \in FilterType
      <4>1. <<>> \in Seq(Event)
        OBVIOUS
      <4> QED BY <4>1 DEF Discard, FilterType
    <3>2. h = Keep(Discard(reset), 0)
      BY <2>1, <2>2
    <3> HIDE DEF h
    <3>3. Discards(f, p, b, h)
      <4>1. IsTaps(p, m) /\ p # <<>> /\ q[Len(q)] = Dn(EscapeChar)
        BY <2>2, <1>1, <1>5, <1>7
      <4> QED BY <3>1, <3>2, <4>1 DEF Discards, But, Keep, Discard, FilterType
    <3> QED BY <3>3 DEF Handled, h
  <2>3. CASE q[3] # Dn(EscapeChar)
    <3>1. h = Keep(reset, 0)
      BY <2>1, <2>3
    <3> HIDE DEF h
    <3>2. Passes(f, b, h)
      BY <3>1, <1>2, <1>3 DEF Passes, Alike, But, Calmer, Keep, FilterType
    <3> QED BY <3>2 DEF Handled, h
  <2> QED BY <2>2, <2>3
<1>8. CASE ~tapped /\ q = <<Dn(m)>>
  <2>1. h = Keep(f, 1)
    BY <1>8 DEF HandleTapAndClick
  <2>2. IsTaps(q, m) /\ Len(q) = 1
    BY <1>8, Appended
  <2> HIDE DEF h
  <2>3. Keeps(f, b, h)
    BY <2>1, <2>2, <1>1, <1>2 DEF Keeps, Alike, But, Keep
  <2> QED BY <2>3 DEF Handled, h
<1>9. CASE ~tapped /\ q # <<Dn(m)>>
  <2>1. h = Keep(f, 0)
    BY <1>9 DEF HandleTapAndClick
  <2> HIDE DEF h
  <2>2. Passes(f, b, h)
    BY <2>1, <1>2 DEF Passes, Alike, But, Calmer, Keep
  <2> QED BY <2>2 DEF Handled, h
<1>10. tapped => Len(q) = 2 \/ Len(q) > 2
  BY <1>1
<1> QED BY <1>4, <1>6, <1>7, <1>8, <1>9, <1>10

LEMMA ButtonHandled ==
    ASSUME user \in Users, NEW f \in FilterType, NEW b \in Emulated,
           NEW p \in Seq(Event), NEW e \in Event, f.pending = Append(p, e),
           Waits(p, f.pressed, Plain)
    PROVE  Handled(f, p, b, HandleForButton(f, b))
<1>1. Scenario(b) \in Scenarios
  BY Settings
<1>2. ~Complete(p, b) /\ \A i \in DOMAIN p : p[i] # Dn("button1") /\ p[i] # Dn(EscapeChar)
  BY WaitingIsNoGesture
<1>3. CASE Scenario(b) = "none"
  <2>1. HandleForButton(f, b) = Keep(f, 0)
    BY <1>3 DEF HandleForButton, Scenario
  <2>2. Passes(f, b, Keep(f, 0))
    BY <1>3 DEF Passes, Alike, But, Calmer, Keep, Complete
  <2> QED BY <2>1, <2>2 DEF Handled
<1>4. CASE Scenario(b) = "clickWhileHolding"
  <2>1. HandleForButton(f, b) = HandleClickWhileHolding(f, b)
    BY <1>4 DEF HandleForButton, Scenario
  <2> QED BY <2>1, <1>4, HoldingHandled
<1>5. CASE Scenario(b) = "multiTap"
  <2>1. HandleForButton(f, b) = HandleMultiTap(f, b)
    BY <1>5 DEF HandleForButton, Scenario
  <2> QED BY <2>1, <1>2, <1>5, TapsHandled
<1>6. CASE Scenario(b) = "tapAndClick"
  <2>1. HandleForButton(f, b) = HandleTapAndClick(f, b)
    BY <1>6 DEF HandleForButton, Scenario
  <2> QED BY <2>1, <1>2, <1>6, TapAndClickHandled
<1> QED BY <1>1, <1>3, <1>4, <1>5, <1>6 DEF Scenarios

LEMMA EmptyHandled ==
    ASSUME user \in Users, NEW f \in FilterType, NEW b \in Emulated, f.pending = <<>>
    PROVE  /\ HandleForButton(f, b).delay = 0
           /\ Alike(f, HandleForButton(f, b).filter)
<1> DEFINE h == HandleForButton(f, b)
<1>1. Scenario(b) \in Scenarios /\ Count(b) \in Nat /\ Count(b) > 0
  BY Settings
<1>2. Len(f.pending) = 0 /\ (\A x : f.pending # <<x>>) /\ \A x, y : f.pending # <<x, y>>
  OBVIOUS
<1>3. CASE Scenario(b) = "multiTap"
  <2>1. ~(Len(f.pending) >= 2 * user.profile.emulation[b].count)
    BY <1>1, <1>2 DEF Count
  <2>2. h = HandleMultiTap(f, b)
    BY <1>3 DEF HandleForButton, Scenario
  <2>3. PICK on \in BOOLEAN : h = Keep([f EXCEPT !.multiTapTimer = on], 0)
    <3>1. IsTaps(f.pending, Modifier(b))
      BY DEF IsTaps
    <3>2. Len(f.pending) < 2 * user.profile.emulation[b].count
      BY <1>1, <1>2 DEF Count
    <3>3. h = Keep([f EXCEPT !.multiTapTimer = FALSE], 0)
      BY <2>1, <2>2, <3>1, <3>2, <1>2 DEF HandleMultiTap
    <3> QED BY <3>3
  <2> HIDE DEF h
  <2> QED BY <2>3 DEF Keep, Alike, But, FilterType, h
<1>4. CASE Scenario(b) # "multiTap"
  <2>1. h = Keep(f, 0)
    BY <1>1, <1>2, <1>4 DEF HandleForButton, Scenario, Scenarios, HandleClickWhileHolding,
       HandleTapAndClick
  <2> HIDE DEF h
  <2> QED BY <2>1 DEF Keep, Alike, But, h
<1> QED BY <1>3, <1>4

-----------------------------------------------------------------------------
(* Queueing an event has one of four results. *)

Sent(f, e, g) ==
    /\ g.pending = <<>>
    /\ g.pressed = IF viewOnly THEN f.pressed ELSE Net(f.pressed, Append(f.pending, e))
    /\ g.emulationButton = f.emulationButton /\ g.stillDown = f.stillDown
    /\ Calmer(f, g)

Kept(f, e, g) ==
    /\ g.pending = Append(f.pending, e)
    /\ g.pressed = f.pressed
    /\ g.emulationButton = f.emulationButton /\ g.stillDown = f.stillDown
    /\ \A b \in Emulated : ~Complete(g.pending, b)
    /\ \E b \in Emulated : Scenario(b) # "none" /\ IsTaps(g.pending, Modifier(b))

Dropped(f, e, g) ==
    /\ g.pending = <<>>
    /\ g.pressed = f.pressed
    /\ g.emulationButton = f.emulationButton /\ g.stillDown = f.stillDown
    /\ f.pending # <<>>
    /\ \E b \in Emulated :
          /\ IsTaps(f.pending, Modifier(b))
          /\ e = Dn(EscapeChar) \/ IsTaps(Append(f.pending, e), Modifier(b))

Clicked(f, e, g) ==
    /\ e = Dn("button1") /\ g.pending = <<>>
    /\ \E b \in Emulated :
          /\ Scenario(b) # "none" /\ IsTaps(f.pending, Modifier(b))
          /\ g.emulationButton = b
          /\ g.pressed = IF viewOnly THEN f.pressed ELSE f.pressed \cup {b}
          /\ \/ g.stillDown = f.stillDown
             \/ /\ Scenario(b) = "clickWhileHolding" /\ f.pending = <<Dn(Modifier(b))>>
                /\ g.stillDown = f.stillDown \cup {b}

LEMMA SendAnyValidIs ==
    ASSUME NEW a, NEW h2, NEW h3, NEW l \in Nat,
           h2 = HandleForButton(a, "button2"), h3 = HandleForButton(h2.filter, "button3"),
           l = Len(h3.filter.pending), h2.delay \in Nat, h3.delay \in Nat,
           h3.filter \in FilterType
    PROVE  /\ h2.delay = 0 /\ h3.delay = 0 => SendAnyValid(a) = SendAll(h3.filter)
           /\ h2.delay >= l \/ h3.delay >= l => SendAnyValid(a) = h3.filter
<1>1. CASE h2.delay = 0 /\ h3.delay = 0 /\ l > 0
  <2>1. SendAnyValid(a) = SendFirst(h3.filter, l - 0)
    BY <1>1 DEF SendAnyValid
  <2> QED BY <1>1, <2>1 DEF SendAll
<1>2. CASE l = 0
  <2>1. SendAnyValid(a) = SendFirst(h3.filter, 0)
    BY <1>2 DEF SendAnyValid
  <2> QED BY <1>2, <2>1, SendNoneIs DEF SendAll
<1>3. CASE h2.delay >= l \/ h3.delay >= l
  <2>1. SendAnyValid(a) = SendFirst(h3.filter, 0)
    BY <1>3 DEF SendAnyValid
  <2>2. h2.delay = 0 /\ h3.delay = 0 => l = 0
    BY <1>3
  <2> QED BY <1>2, <2>1, <2>2, SendNoneIs
<1> QED BY <1>1, <1>2, <1>3
LEMMA QueueOutcome ==
    ASSUME user \in Users, NEW f \in FilterType, NEW e \in Event,
           Waits(f.pending, f.pressed, Plain)
    PROVE  LET g == Queue(f, e)
           IN  /\ But(f, g)
               /\ Sent(f, e, g) \/ Kept(f, e, g) \/ Dropped(f, e, g) \/ Clicked(f, e, g)
<1> DEFINE p == f.pending
           P == f.pressed
           q == Append(p, e)
           a == Append1(f, e)
           h2 == HandleForButton(a, "button2")
           h3 == HandleForButton(h2.filter, "button3")
           g == SendAnyValid(a)
<1>1. /\ p \in Seq(Event) /\ q \in Seq(Event) /\ P \in SUBSET Items /\ q # <<>>
      /\ Len(q) \in Nat /\ Len(q) > 0 /\ q[Len(q)] = e /\ Len(q) \in DOMAIN q
  <2>1. p \in Seq(Event) /\ P \in SUBSET Items
    BY DEF FilterType
  <2> QED BY <2>1, Appended
<1>2. /\ a \in FilterType /\ a.pending = q /\ a.pressed = P /\ But(f, a)
      /\ a.emulationButton = f.emulationButton /\ a.stillDown = f.stillDown
      /\ Calmer(f, a)
  BY <1>1 DEF Append1, FilterType, But, Calmer
<1>3. Handled(a, p, "button2", h2)
  BY <1>1, <1>2, ButtonHandled DEF Emulated
<1>4. \A m \in Flags : e = Dn("button1") => ~IsTaps(q, m)
  BY <1>1, Kinds, Events DEF IsTaps
<1>5. g = Queue(f, e)
  BY DEF Queue
<1>6. Net(P, <<>>) = P /\ \A b \in Emulated : Net(P, <<Dn(b)>>) = P \cup {b}
  <2>1. <<>> \in Seq(Event) /\ Net(P, <<>>) = P
    BY <1>1, NetEmpty
  <2>2. ASSUME NEW b \in Emulated
        PROVE  Net(P, <<Dn(b)>>) = P \cup {b}
    <3>1. <<Dn(b)>> = Append(<<>>, Dn(b)) /\ b \in Items
      BY Kinds
    <3>2. Net(P, Append(<<>>, Dn(b))) = Net(P, <<>>) \cup {b}
      BY <3>1, <2>1, <1>1, NetDown
    <3> QED BY <3>1, <3>2, <2>1
  <2> QED BY <2>1, <2>2
<1>7. "button2" \in Emulated /\ "button3" \in Emulated
  BY DEF Emulated
<1> HIDE DEF a, h2
<1>8. CASE Passes(a, "button2", h2) \/ Keeps(a, "button2", h2)
  <2>1. /\ h2.filter \in FilterType /\ But(a, h2.filter)
        /\ h2.filter.pending = q /\ h2.filter.pressed = P
        /\ h2.filter.emulationButton = f.emulationButton
        /\ h2.filter.stillDown = f.stillDown
        /\ h2.delay \in {0, Len(q)} /\ ~Complete(q, "button2")
    BY <1>8, <1>2 DEF Passes, Keeps, Alike, But
  <2>2. Handled(h2.filter, p, "button3", h3)
    BY <1>1, <1>7, <2>1, ButtonHandled
  <2> HIDE DEF h3
  <2>3. CASE Passes(h2.filter, "button3", h3) \/ Keeps(h2.filter, "button3", h3)
    <3>1. /\ h3.filter \in FilterType /\ But(f, h3.filter)
          /\ h3.filter.pending = q /\ h3.filter.pressed = P
          /\ h3.filter.emulationButton = f.emulationButton
          /\ h3.filter.stillDown = f.stillDown
          /\ h3.delay \in {0, Len(q)} /\ ~Complete(q, "button3")
      BY <2>1, <2>3, <1>2 DEF Passes, Keeps, Alike, But
    <3>2. CASE Passes(h2.filter, "button3", h3) /\ Passes(a, "button2", h2)
      <4>1. g = SendAll(h3.filter)
        BY <3>1, <3>2, <1>1, SendAnyValidIs DEF h2, h3, Passes
      <4>2. Calmer(f, h3.filter)
        BY <3>2, <1>2 DEF Passes, Calmer
      <4>3. g \in FilterType
            /\ g = [h3.filter EXCEPT !.pending = <<>>,
                        !.pressed = IF viewOnly THEN P ELSE Net(P, q)]
        BY <4>1, <3>1, SendAllIs DEF Left
      <4> HIDE DEF g
      <4>4. But(f, g) /\ Sent(f, e, g)
        BY <4>2, <4>3, <3>1 DEF But, Sent, Calmer, FilterType
      <4> QED BY <4>4, <1>5
    <3>3. CASE Keeps(h2.filter, "button3", h3) \/ Keeps(a, "button2", h2)
      <4>1. h2.delay \in Nat /\ h3.delay \in Nat
            /\ (h2.delay >= Len(q) \/ h3.delay >= Len(q))
        BY <3>1, <3>3, <2>1, <1>1, <1>2 DEF Keeps
      <4>2. g = h3.filter
        BY <3>1, <4>1, <1>1, SendAnyValidIs DEF h2, h3
      <4>3. \A b \in Emulated : ~Complete(q, b)
        BY <2>1, <3>1 DEF Emulated
      <4>4. \E b \in Emulated : Scenario(b) # "none" /\ IsTaps(q, Modifier(b))
        BY <3>3, <1>2, <2>1, <1>7 DEF Keeps
      <4> HIDE DEF g
      <4>5. Kept(f, e, g)
        BY <3>1, <4>2, <4>3, <4>4 DEF Kept
      <4> QED BY <3>1, <4>2, <4>5, <1>5
    <3> QED BY <2>3, <1>8, <3>2, <3>3
  <2>4. CASE Emulates(h2.filter, p, "button3", h3)
    <3>1. e = Dn("button1")
      <4>1. q = Append(p, Dn("button1"))
        BY <2>4, <2>1 DEF Emulates
      <4> QED BY <4>1, <1>1, Events, Kinds, AppendProperties
    <3>2. Passes(a, "button2", h2)
      BY <3>1, <1>2, <1>4, <1>7, <1>8, Settings DEF Keeps
    <3>3. h2.delay = 0 /\ h3.delay = 0 /\ h3.filter \in FilterType
      BY <2>4, <3>2 DEF Passes, Emulates, But
    <3>4. g = SendAll(h3.filter)
      <4>1. Len(h3.filter.pending) \in Nat
        BY <3>3 DEF FilterType
      <4> QED BY <3>3, <4>1, SendAnyValidIs DEF h2, h3
    <3>5. h3.filter.pressed = P /\ h3.filter.pending = <<Dn("button3")>>
      BY <2>4, <2>1 DEF Emulates
    <3>6. g \in FilterType
          /\ g = [h3.filter EXCEPT !.pending = <<>>,
                      !.pressed = IF viewOnly THEN P ELSE P \cup {"button3"}]
      BY <3>3, <3>4, <3>5, <1>6, <1>7, SendAllIs DEF Left
    <3> HIDE DEF g
    <3>7. But(f, g)
      BY <3>6, <3>3, <2>1, <2>4, <1>2 DEF But, Emulates, FilterType
    <3>8. /\ g.pending = <<>> /\ g.emulationButton = "button3"
          /\ g.pressed = IF viewOnly THEN P ELSE P \cup {"button3"}
          /\ g.stillDown = h3.filter.stillDown
      BY <3>6, <3>3, <2>4 DEF Emulates, FilterType
    <3>9. Clicked(f, e, g)
      BY <3>1, <3>8, <2>1, <2>4, <1>7 DEF Clicked, Emulates
    <3> QED BY <3>7, <3>9, <1>5
  <2>5. CASE Discards(h2.filter, p, "button3", h3)
    <3>1. h3.delay = 0 /\ h2.delay \in Nat /\ h2.delay >= 0 /\ h3.filter.pending = <<>>
          /\ h3.filter \in FilterType
      BY <2>5, <2>1, <1>1 DEF Discards, But
    <3>2. g = h3.filter
      <4>1. Len(h3.filter.pending) = 0
        BY <3>1
      <4> QED BY <3>1, <4>1, SendAnyValidIs DEF h2, h3
    <3> HIDE DEF g
    <3>3. But(f, g)
      BY <3>2, <2>1, <2>5, <1>2 DEF But, Discards
    <3>4. IsTaps(p, Modifier("button3")) /\ p # <<>>
          /\ (IsTaps(q, Modifier("button3")) \/ e = Dn(EscapeChar))
      BY <2>1, <2>5, <1>1 DEF Discards
    <3>5. Dropped(f, e, g)
      BY <3>2, <3>4, <2>1, <2>5, <1>7 DEF Dropped, Discards
    <3> QED BY <3>3, <3>5, <1>5
  <2> QED BY <2>2, <2>3, <2>4, <2>5 DEF Handled
<1>9. CASE Emulates(a, p, "button2", h2)
  <2> DEFINE d == Dn("button2")
  <2>1. /\ h2.filter \in FilterType /\ But(a, h2.filter) /\ h2.delay = 0
        /\ h2.filter.pending = <<d>> /\ h2.filter.pressed = P
        /\ h2.filter.emulationButton = "button2"
    BY <1>9, <1>2 DEF Emulates, But
  <2>2. d \in Event /\ <<d>> = Append(<<>>, d) /\ <<>> \in Seq(Event)
    BY <1>7, Kinds, Events
  <2>3. Waits(<<>>, P, Plain)
    <3>1. "shift" \in Flags /\ 0 \in 0..Len(<<>>)
      BY DEF Flags
    <3>2. TapsWait(<<>>, P, 0, "shift") /\ UpsWait(<<>>, P, 0, Plain)
      BY Settings DEF TapsWait, UpsWait
    <3> QED BY <3>1, <3>2 DEF Waits
  <2>4. Handled(h2.filter, <<>>, "button3", h3)
    BY <2>1, <2>2, <2>3, <1>7, ButtonHandled
  <2> HIDE DEF h3
  <2>5. Passes(h2.filter, "button3", h3)
    <3>1. ~Emulates(h2.filter, <<>>, "button3", h3)
      <4>1. d # Dn("button1")
        BY <1>7, Kinds, Events
      <4>2. Append(<<>>, Dn("button1")) = <<Dn("button1")>>
        OBVIOUS
      <4> QED BY <2>1, <4>1, <4>2 DEF Emulates
    <3>2. ~Keeps(h2.filter, "button3", h3)
      <4>1. Modifier("button3") \in Flags
        BY <1>7, Settings
      <4>2. d # Dn(Modifier("button3")) /\ d # Up(Modifier("button3"))
        BY <4>1, <1>7, Kinds, Events
      <4>3. 1 \in DOMAIN <<d>> /\ <<d>>[1] = d
        OBVIOUS
      <4>4. ~IsTaps(<<d>>, Modifier("button3"))
        BY <4>2, <4>3 DEF IsTaps
      <4> QED BY <2>1, <4>4 DEF Keeps
    <3>3. ~Discards(h2.filter, <<>>, "button3", h3)
      BY DEF Discards
    <3> QED BY <2>4, <3>1, <3>2, <3>3 DEF Handled
  <2>6. /\ h3.filter \in FilterType /\ h3.filter.pending = <<d>> /\ h3.filter.pressed = P
        /\ h3.filter.emulationButton = "button2" /\ h3.delay = 0
        /\ h3.filter.stillDown = h2.filter.stillDown /\ But(f, h3.filter)
    BY <2>1, <2>5, <1>2 DEF Passes, Alike, But
  <2>7. g = SendAll(h3.filter)
    <3>1. Len(h3.filter.pending) \in Nat
      BY <2>6
    <3> QED BY <2>1, <2>6, <3>1, SendAnyValidIs DEF h2, h3
  <2>8. g \in FilterType
        /\ g = [h3.filter EXCEPT !.pending = <<>>,
                    !.pressed = IF viewOnly THEN P ELSE P \cup {"button2"}]
    BY <2>6, <2>7, <1>6, <1>7, SendAllIs DEF Left
  <2> HIDE DEF g
  <2>9. /\ g.pending = <<>> /\ g.emulationButton = "button2" /\ But(f, g)
        /\ g.pressed = IF viewOnly THEN P ELSE P \cup {"button2"}
        /\ g.stillDown = h2.filter.stillDown
    BY <2>8, <2>6 DEF FilterType, But
  <2>10. e = Dn("button1")
    <3>1. q = Append(p, Dn("button1"))
      BY <1>9, <1>2 DEF Emulates
    <3> QED BY <3>1, <1>1, Events, Kinds, AppendProperties
  <2>11. Clicked(f, e, g)
    BY <2>9, <2>10, <1>2, <1>7, <1>9 DEF Clicked, Emulates
  <2> QED BY <2>9, <2>11, <1>5
<1>10. CASE Discards(a, p, "button2", h2)
  <2>1. h2.filter \in FilterType /\ h2.filter.pending = <<>> /\ h2.delay = 0
    BY <1>10 DEF Discards, But
  <2>2. h3.delay = 0 /\ Alike(h2.filter, h3.filter)
    BY <2>1, <1>7, EmptyHandled
  <2> HIDE DEF h3
  <2>3. h3.filter.pending = <<>> /\ h3.filter \in FilterType
    BY <2>1, <2>2 DEF Alike, But
  <2>4. g = h3.filter
    <3>1. Len(h3.filter.pending) = 0
      BY <2>3
    <3> QED BY <2>1, <2>2, <2>3, <3>1, SendAnyValidIs DEF h2, h3
  <2> HIDE DEF g
  <2>5. But(f, g) /\ g.pending = <<>> /\ g.pressed = P /\ g.stillDown = f.stillDown
        /\ g.emulationButton = f.emulationButton
    BY <2>2, <2>3, <2>4, <1>2, <1>10 DEF Alike, But, Discards
  <2>6. IsTaps(p, Modifier("button2")) /\ p # <<>>
        /\ (IsTaps(q, Modifier("button2")) \/ e = Dn(EscapeChar))
    BY <1>1, <1>2, <1>10 DEF Discards
  <2>7. Dropped(f, e, g)
    BY <2>5, <2>6, <1>7 DEF Dropped
  <2> QED BY <2>5, <2>7, <1>5
<1> QED BY <1>3, <1>8, <1>9, <1>10 DEF Handled

-----------------------------------------------------------------------------
(* What the results mean for what the server will hold. *)

LEMMA NothingWaits == user \in Users => \A P, S : Waits(<<>>, P, S)
<1> SUFFICES ASSUME user \in Users, NEW P, NEW S PROVE Waits(<<>>, P, S)
  OBVIOUS
<1>1. "shift" \in Flags /\ 0 \in 0..Len(<<>>)
  BY DEF Flags
<1>2. TapsWait(<<>>, P, 0, "shift") /\ UpsWait(<<>>, P, 0, S)
  BY Settings DEF TapsWait, UpsWait
<1> QED BY <1>1, <1>2 DEF Waits

LEMMA MoreWaits ==
    ASSUME NEW q, NEW P, NEW S, NEW T, S \subseteq T, Waits(q, P, S)
    PROVE  Waits(q, P, T)
BY DEF Waits, UpsWait

\* Only modifiers may be down in the queue and not on the server.
LEMMA WaitingLeaves ==
    ASSUME NEW f \in FilterType, Waits(f.pending, f.pressed, Plain)
    PROVE  /\ Left(f) \cap (Plain \cup Firm) \subseteq f.pressed
           /\ f.pressed \cap Flags \subseteq Left(f)
           /\ Left(f) \in SUBSET Items
<1> DEFINE q == f.pending
           P == f.pressed
<1>1. q \in Seq(Event) /\ P \in SUBSET Items
  BY DEF FilterType
<1>2. PICK n \in 0..Len(q), m \in Flags : TapsWait(q, P, n, m) /\ UpsWait(q, P, n, Plain)
  BY DEF Waits
<1>3. \A i \in DOMAIN q : \/ (q[i] = Dn(m) \/ q[i] = Up(m)) /\ n > 0
                          \/ \E x \in Plain : q[i] = Up(x)
  <2> SUFFICES ASSUME NEW i \in DOMAIN q
               PROVE  \/ (q[i] = Dn(m) \/ q[i] = Up(m)) /\ n > 0
                      \/ \E x \in Plain : q[i] = Up(x)
    OBVIOUS
  <2>1. i \in 1..Len(q) /\ n \in Nat /\ Len(q) \in Nat
    BY <1>1
  <2>2. CASE i <= n
    BY <2>1, <2>2, <1>2 DEF TapsWait
  <2>3. CASE i > n
    <3>1. i \in n + 1..Len(q)
      BY <2>1, <2>3
    <3> QED BY <3>1, <1>2 DEF UpsWait
  <2> QED BY <2>1, <2>2, <2>3
<1>4. n > 0 => m \notin P
  BY <1>2 DEF TapsWait
<1>5. ASSUME NEW y \in Left(f) \cap (Plain \cup Firm)
      PROVE  y \in P
  <2>1. n > 0 => y # m
    BY <1>2, <1>5, Kinds DEF TapsWait, Gestures, Firm, Plain
  <2>2. \A i \in DOMAIN q : q[i] # Dn(y)
    BY <1>3, <2>1, Events
  <2> QED BY <2>2, <1>5 DEF Left, Net
<1>6. ASSUME NEW y \in P \cap Flags
      PROVE  y \in Left(f)
  <2>1. \A i \in DOMAIN q : q[i] # Up(y)
    BY <1>3, <1>4, <1>6, Kinds, Events DEF Plain
  <2> QED BY <2>1, <1>6 DEF Left, Net
<1> QED BY <1>1, <1>5, <1>6, NetType DEF Left

LEMMA TapsLeave ==
    ASSUME NEW q \in Seq(Event), NEW P \in SUBSET Items, NEW m,
           IsTaps(q, m), q = <<>> \/ m \notin P
    PROVE  P \subseteq Net(P, q)
<1>1. SUFFICES ASSUME NEW y \in P PROVE y \in Net(P, q)
  OBVIOUS
<1>2. CASE q = <<>>
  BY <1>2, NetEmpty
<1>3. CASE m \notin P
  <2>1. \A i \in DOMAIN q : q[i] # Up(y)
    BY <1>1, <1>3, Events DEF IsTaps
  <2> QED BY <1>1, <2>1 DEF Net
<1> QED BY <1>2, <1>3

LEMMA SoundMore ==
    ASSUME NEW f, NEW S, NEW T, S \subseteq T, Sound(f, S)
    PROVE  Sound(f, T)
BY MoreWaits DEF Sound

\* What is pressed of keys and buttons stays so, but for those of S.
LEMMA WaitingHolds ==
    ASSUME NEW f, NEW S, Sound(f, S)
    PROVE  (f.pressed \cap Plain) \ S \subseteq Left(f)
<1> DEFINE q == f.pending
<1>1. f \in FilterType /\ Waits(q, f.pressed, S)
  BY DEF Sound
<1>2. q \in Seq(Event) /\ Len(q) \in Nat /\ DOMAIN q = 1..Len(q)
  BY <1>1 DEF FilterType
<1>3. PICK n \in 0..Len(q), m \in Flags :
          TapsWait(q, f.pressed, n, m) /\ UpsWait(q, f.pressed, n, S)
  BY <1>1 DEF Waits
<1>4. ASSUME NEW i \in DOMAIN q
      PROVE  q[i] = Dn(m) \/ q[i] = Up(m) \/ \E x \in S : q[i] = Up(x)
  <2>1. i \in 1..n \/ i \in n + 1..Len(q)
    BY <1>2
  <2> QED BY <1>3, <2>1 DEF TapsWait, UpsWait
<1>5. ASSUME NEW y \in (f.pressed \cap Plain) \ S
      PROVE  y \in Left(f)
  <2>1. \A i \in DOMAIN q : q[i] # Up(y)
    BY <1>4, <1>5, Kinds, Events DEF Plain
  <2> QED BY <2>1, <1>5 DEF Left, Net
<1> QED BY <1>5

\* A queue of taps of a gesture waits as it should.
LEMMA TapsAreSound ==
    ASSUME user \in Users, NEW q \in Seq(Event), NEW P, NEW b \in Emulated,
           Scenario(b) # "none", IsTaps(q, Modifier(b)), Modifier(b) \notin P,
           \A c \in Emulated : ~Complete(q, c)
    PROVE  Waits(q, P, {})
<1> DEFINE n == Len(q)
           m == Modifier(b)
<1>1. n \in Nat /\ DOMAIN q = 1..n /\ n \in 0..Len(q) /\ m \in Flags
  BY Settings
<1>2. ASSUME NEW c \in Emulated, Scenario(c) = "multiTap", Modifier(c) = m
      PROVE  n < 2 * Count(c)
  <2> DEFINE k == 2 * Count(c)
  <2>1. k \in Nat /\ k > 0
    BY Settings
  <2> HIDE DEF k
  <2>2. SUFFICES ASSUME n >= k PROVE Complete(q, c)
    BY <1>1, <2>1 DEF k
  <2>3. DOMAIN SubSeq(q, 1, k) = 1..k /\ \A i \in 1..k : SubSeq(q, 1, k)[i] = q[i] /\ i \in DOMAIN q
    BY <2>1, <2>2, <1>1
  <2>4. IsTaps(SubSeq(q, 1, k), m)
    BY <2>3 DEF IsTaps
  <2> QED BY <2>2, <2>4, <1>2 DEF Complete, k
<1>3. TapsWait(q, P, n, m)
  BY <1>1, <1>2 DEF TapsWait, IsTaps
<1>4. UpsWait(q, P, n, {})
  BY <1>1 DEF UpsWait
<1> QED BY <1>1, <1>3, <1>4 DEF Waits

\* Most events only do what they say: x goes down or up, unless that is
\* dropped, or g has sent it and nothing else.
Takes(f, e, g) ==
    /\ g.emulationButton = f.emulationButton /\ g.stillDown = f.stillDown
    /\ Left(g) \subseteq Net(f.pressed, Append(f.pending, e))
    /\ viewOnly \/ Net(f.pressed, Append(f.pending, e)) \cap Firm \subseteq Left(g)
    /\ f.pending = <<>> /\ (\E x : e = Up(x)) => g.pending = <<>> /\ Calmer(f, g)

\* Button 1 may become another one.
Clicks(f, e, g) ==
    /\ e = Dn("button1")
    /\ g.emulationButton \in Emulated /\ Scenario(g.emulationButton) # "none"
    /\ Left(g) \subseteq f.pressed \cup {g.emulationButton}
    /\ f.pressed \subseteq Left(f)
    /\ viewOnly \/ (g.emulationButton \in Left(g) /\ f.pressed \subseteq Left(g))
    /\ \/ g.stillDown = f.stillDown
       \/ /\ g.stillDown = f.stillDown \cup {g.emulationButton}
          /\ Modifier(g.emulationButton) \in Left(f) \ Left(g)

LEMMA QueueResult ==
    ASSUME user \in Users, NEW f, Sound(f, Plain), NEW e \in Event,
           \A m \in Flags : e = Dn(m) => m \notin Left(f)
    PROVE  LET g == Queue(f, e)
           IN  /\ But(f, g) /\ Sound(g, {})
               /\ Takes(f, e, g) \/ Clicks(f, e, g)
<1> DEFINE p == f.pending
           P == f.pressed
           q == Append(p, e)
           g == Queue(f, e)
<1>1. /\ f \in FilterType /\ p \in Seq(Event) /\ P \in SUBSET Items
      /\ Waits(p, P, Plain) /\ q \in Seq(Event) /\ q # <<>>
      /\ (viewOnly => P = {})
      /\ \A b \in f.stillDown : Scenario(b) = "clickWhileHolding"
  <2>1. f \in FilterType /\ Waits(p, P, Plain) /\ (viewOnly => P = {})
        /\ \A b \in f.stillDown : Scenario(b) = "clickWhileHolding"
    BY DEF Sound
  <2>2. p \in Seq(Event) /\ P \in SUBSET Items
    BY <2>1 DEF FilterType
  <2> QED BY <2>1, <2>2, Appended
<1>2. But(f, g)
      /\ (Sent(f, e, g) \/ Kept(f, e, g) \/ Dropped(f, e, g) \/ Clicked(f, e, g))
  BY <1>1, QueueOutcome
<1> HIDE DEF g
<1>3. /\ g \in FilterType /\ g.pressed \in SUBSET Items
      /\ \A R \in SUBSET Items : Net(R, <<>>) = R
  BY <1>2, NetEmpty DEF But, FilterType
<1>4. Left(f) \cap (Plain \cup Firm) \subseteq P /\ P \cap Flags \subseteq Left(f)
  BY <1>1, WaitingLeaves
<1>5. \A b \in Emulated : IsTaps(p, Modifier(b)) =>
          p = <<>> \/ (Modifier(b) \notin P /\ Modifier(b) \in Gestures)
  BY <1>1, WaitingIsNoGesture
<1>6. CASE Sent(f, e, g)
  <2>1. g.pressed = IF viewOnly THEN P ELSE Net(P, q)
    BY <1>6 DEF Sent
  <2>2. Left(g) = g.pressed
    BY <1>6, <1>3 DEF Sent, Left
  <2>3. Takes(f, e, g)
    BY <1>1, <1>6, <2>1, <2>2 DEF Takes, Sent
  <2>4. Sound(g, {})
    BY <1>1, <1>3, <1>6, <2>1, NothingWaits DEF Sound, Sent
  <2> QED BY <1>2, <2>3, <2>4 DEF g
<1>7. CASE Kept(f, e, g)
  <2>1. /\ g.pending = q /\ g.pressed = P
        /\ g.emulationButton = f.emulationButton /\ g.stillDown = f.stillDown
        /\ \A c \in Emulated : ~Complete(q, c)
    BY <1>7 DEF Kept
  <2>2. PICK b \in Emulated : Scenario(b) # "none" /\ IsTaps(q, Modifier(b))
    BY <1>7 DEF Kept
  <2>3. Modifier(b) \in Flags
    BY Settings
  <2>4. Modifier(b) \notin P /\ ~(p = <<>> /\ \E x : e = Up(x))
    <3>1. /\ DOMAIN p = 1..Len(p) /\ DOMAIN q = 1..Len(p) + 1 /\ Len(p) \in Nat
          /\ \A i \in 1..Len(p) : q[i] = p[i]
          /\ q[Len(p) + 1] = e
      BY <1>1, Appended
    <3>2. IsTaps(p, Modifier(b))
      BY <2>2, <3>1 DEF IsTaps
    <3>3. CASE p = <<>>
      <4>1. Len(p) = 0 /\ 1 \in DOMAIN q /\ q[1] = e /\ 1 % 2 = 1
        BY <3>1, <3>3
      <4>2. e = Dn(Modifier(b))
        BY <2>2, <4>1 DEF IsTaps
      <4>3. Modifier(b) \notin Left(f)
        BY <2>3, <4>2
      <4> QED BY <1>4, <2>3, <4>2, <4>3, Events
    <3>4. CASE p # <<>>
      BY <1>5, <3>2, <3>4
    <3> QED BY <3>3, <3>4
  <2>5. Waits(q, P, {})
    BY <1>1, <2>1, <2>2, <2>4, TapsAreSound
  <2>6. Sound(g, {})
    BY <1>1, <1>3, <2>1, <2>5 DEF Sound
  <2>7. Takes(f, e, g)
    BY <2>1, <2>4 DEF Takes, Left
  <2> QED BY <1>2, <2>6, <2>7 DEF g
<1>8. CASE Dropped(f, e, g)
  <2>1. /\ g.pending = <<>> /\ g.pressed = P /\ p # <<>>
        /\ g.emulationButton = f.emulationButton /\ g.stillDown = f.stillDown
    BY <1>8 DEF Dropped
  <2>2. PICK b \in Emulated :
            /\ IsTaps(p, Modifier(b))
            /\ e = Dn(EscapeChar) \/ IsTaps(q, Modifier(b))
    BY <1>8 DEF Dropped
  <2>3. Modifier(b) \in Gestures /\ Modifier(b) \in Flags /\ Modifier(b) \notin P
    BY <1>5, <2>1, <2>2, Settings
  <2>4. Left(g) = P
    BY <1>1, <1>3, <2>1 DEF Left
  <2>5. P \subseteq Net(P, q)
    <3>1. CASE IsTaps(q, Modifier(b))
      BY <1>1, <2>3, <3>1, TapsLeave
    <3>2. CASE e = Dn(EscapeChar)
      <4>1. PICK x \in Items : e = Dn(x)
        BY <3>2, Events
      <4>2. P \subseteq Net(P, p)
        BY <1>1, <2>2, <2>3, TapsLeave
      <4> QED BY <1>1, <4>1, <4>2, NetDown
    <3> QED BY <2>2, <3>1, <3>2
  <2>6. Net(P, q) \cap Firm \subseteq P
    <3>1. PICK x \in Items : e = Dn(x) \/ e = Up(x)
      BY Events
    <3>2. e = Dn(x) => x \notin Firm
      <4>1. SUFFICES ASSUME e = Dn(x) PROVE x = EscapeChar \/ x = Modifier(b)
        BY <2>3, KeyboardAssumption, Kinds DEF Firm
      <4>2. CASE e = Dn(EscapeChar)
        BY <4>1, <4>2, Events
      <4>3. CASE IsTaps(q, Modifier(b))
        <5>1. Len(p) + 1 \in DOMAIN q /\ q[Len(p) + 1] = e
          BY <1>1, Appended
        <5> QED BY <2>3, <4>1, <4>3, <5>1, Events DEF IsTaps
      <4> QED BY <2>2, <4>2, <4>3
    <3>3. Net(P, q) \subseteq Left(f) \cup {x} /\ (e = Up(x) => Net(P, q) \subseteq Left(f))
      BY <1>1, <3>1, NetDown, NetUp DEF Left
    <3> QED BY <1>4, <3>1, <3>2, <3>3
  <2>7. Takes(f, e, g)
    BY <2>1, <2>4, <2>5, <2>6 DEF Takes
  <2>8. Sound(g, {})
    BY <1>1, <1>3, <2>1, NothingWaits DEF Sound
  <2> QED BY <1>2, <2>7, <2>8 DEF g
<1>9. CASE Clicked(f, e, g)
  <2>1. PICK b \in Emulated :
          /\ Scenario(b) # "none" /\ IsTaps(p, Modifier(b))
          /\ g.emulationButton = b
          /\ g.pressed = IF viewOnly THEN P ELSE P \cup {b}
          /\ \/ g.stillDown = f.stillDown
             \/ /\ Scenario(b) = "clickWhileHolding" /\ p = <<Dn(Modifier(b))>>
                /\ g.stillDown = f.stillDown \cup {b}
    BY <1>9 DEF Clicked
  <2>2. e = Dn("button1") /\ g.pending = <<>>
    BY <1>9 DEF Clicked
  <2>3. Left(g) = g.pressed
    BY <1>3, <2>2 DEF Left
  <2>4. Modifier(b) \in Flags /\ b \in Buttons
    BY Settings, Kinds
  <2>5. P \subseteq Left(f)
    BY <1>1, <1>5, <2>1, TapsLeave DEF Left
  <2>6. p = <<Dn(Modifier(b))>> => Modifier(b) \in Left(f) \ Left(g)
    <3>1. SUFFICES ASSUME p = <<Dn(Modifier(b))>> PROVE Modifier(b) \in Left(f) \ Left(g)
      OBVIOUS
    <3>2. <<>> \in Seq(Event) /\ p = Append(<<>>, Dn(Modifier(b))) /\ Modifier(b) \in Items
      BY <2>4, <3>1, Kinds
    <3>3. Modifier(b) \in Left(f)
      <4>1. Net(P, Append(<<>>, Dn(Modifier(b)))) = Net(P, <<>>) \cup {Modifier(b)}
        BY <1>1, <3>2, NetDown
      <4> QED BY <3>2, <4>1 DEF Left
    <3>4. Modifier(b) \notin P /\ Modifier(b) # b
      BY <1>5, <2>1, <2>4, <3>1, Kinds
    <3> QED BY <2>1, <2>3, <3>3, <3>4
  <2>7. Clicks(f, e, g)
    BY <1>1, <2>1, <2>2, <2>3, <2>5, <2>6 DEF Clicks
  <2>8. Sound(g, {})
    BY <1>1, <1>3, <2>1, <2>2, NothingWaits DEF Sound
  <2> QED BY <1>2, <2>7, <2>8 DEF g
<1> QED BY <1>2, <1>6, <1>7, <1>8, <1>9

LEMMA Releases ==
    ASSUME user \in Users, NEW f, Sound(f, Plain), NEW x \in Items
    PROVE  LET g == Queue(f, Up(x))
           IN  /\ But(f, g) /\ Sound(g, {})
               /\ g.emulationButton = f.emulationButton /\ g.stillDown = f.stillDown
               /\ Left(g) \subseteq Left(f) \ {x}
               /\ viewOnly \/ (Left(f) \cap Firm) \ {x} \subseteq Left(g)
               /\ f.pending = <<>> => g.pending = <<>> /\ Calmer(f, g)
<1> DEFINE g == Queue(f, Up(x))
<1>1. Up(x) \in Event /\ \A y : Up(x) # Dn(y)
  BY Events
<1>2. But(f, g) /\ Sound(g, {}) /\ (Takes(f, Up(x), g) \/ Clicks(f, Up(x), g))
  BY <1>1, QueueResult
<1> HIDE DEF g
<1>3. Takes(f, Up(x), g)
  BY <1>1, <1>2 DEF Clicks
<1>4. f.pending \in Seq(Event) /\ f.pressed \in SUBSET Items
  BY DEF Sound, FilterType
<1>5. Net(f.pressed, Append(f.pending, Up(x))) = Left(f) \ {x}
  BY <1>4, NetUp DEF Left
<1>6. f.pending = <<>> => g.pending = <<>> /\ Calmer(f, g)
  BY <1>3 DEF Takes
<1>7. /\ g.emulationButton = f.emulationButton /\ g.stillDown = f.stillDown
      /\ Left(g) \subseteq Left(f) \ {x}
      /\ viewOnly \/ (Left(f) \ {x}) \cap Firm \subseteq Left(g)
  BY <1>3, <1>5 DEF Takes
<1> QED BY <1>2, <1>6, <1>7 DEF g

LEMMA Presses ==
    ASSUME user \in Users, NEW f, Sound(f, Plain), NEW x \in Items, x # "button1",
           x \in Flags => x \notin Left(f)
    PROVE  LET g == Queue(f, Dn(x))
           IN  /\ But(f, g) /\ Sound(g, {})
               /\ g.emulationButton = f.emulationButton /\ g.stillDown = f.stillDown
               /\ Left(g) \subseteq Left(f) \cup {x}
               /\ viewOnly \/ (Left(f) \cup {x}) \cap Firm \subseteq Left(g)
<1> DEFINE g == Queue(f, Dn(x))
<1>1. Dn(x) \in Event /\ Dn(x) # Dn("button1") /\ \A m \in Flags : Dn(x) = Dn(m) => m = x
  BY Events
<1>2. But(f, g) /\ Sound(g, {}) /\ (Takes(f, Dn(x), g) \/ Clicks(f, Dn(x), g))
  BY <1>1, QueueResult
<1> HIDE DEF g
<1>3. Takes(f, Dn(x), g)
  BY <1>1, <1>2 DEF Clicks
<1>4. f.pending \in Seq(Event) /\ f.pressed \in SUBSET Items
  BY DEF Sound, FilterType
<1>5. Net(f.pressed, Append(f.pending, Dn(x))) = Left(f) \cup {x}
  BY <1>4, NetDown DEF Left
<1>6. /\ g.emulationButton = f.emulationButton /\ g.stillDown = f.stillDown
      /\ Left(g) \subseteq Left(f) \cup {x}
      /\ viewOnly \/ (Left(f) \cup {x}) \cap Firm \subseteq Left(g)
  BY <1>3, <1>5 DEF Takes
<1> QED BY <1>2, <1>6 DEF g

-----------------------------------------------------------------------------
(* queueModifiers: one mask after the other. *)

\* What is queued when the masks of P have been looked at.
Mixed(old, new, P) == (old \ P) \cup (new \cap P)

\* g is f but for modifiers, of which those of Q are pressed.  Something was
\* queued if these are not those of old.
Progress(f, g, Q, old) ==
    /\ \A S \in SUBSET Plain : Sound(f, S) => Sound(g, S)
    /\ Sound(g, {}) \/ (g.pressed = f.pressed /\ Q = old)
    /\ Known(g, Q)
    /\ g.queued = f.queued /\ g.watchCaps = f.watchCaps
    /\ g.emulationButton = f.emulationButton /\ g.stillDown \subseteq f.stillDown
    /\ Left(g) \ Flags \subseteq Left(f)
    /\ viewOnly \/ Left(f) \cap Buttons \subseteq Left(g)

LEMMA RoundProgresses ==
    ASSUME user \in Users, NEW f, NEW g, NEW old \in SUBSET Flags, NEW new \in SUBSET Flags,
           NEW P \in SUBSET Flags, NEW m \in Flags \ P, NEW late \in BOOLEAN,
           Sound(f, Plain), Progress(f, g, Mixed(old, new, P), old)
    PROVE  Progress(f, QueueMask(g, m, new \ old, old \ new, late),
                    Mixed(old, new, P \cup {m}), old)
<1> DEFINE h == QueueMask(g, m, new \ old, old \ new, late)
           Q == Mixed(old, new, P)
           R == Mixed(old, new, P \cup {m})
<1>1. m \in Items /\ m # "button1" /\ m \notin Buttons
  BY Kinds
<1>2. Sound(g, Plain) /\ g \in FilterType /\ Known(g, Q)
  BY CharsPlain DEF Progress, Sound
<1>3. CASE m \in new \ old
  <2>1. h = Queue(g, Dn(m))
    BY <1>3 DEF QueueMask, QueueModifierPressed
  <2>2. R = Q \cup {m} /\ m \notin Q /\ Q \in SUBSET Flags
    BY <1>3 DEF Mixed
  <2>3. m \notin Left(g)
    BY <1>2, <2>2 DEF Known
  <2> HIDE DEF h, Q, R
  <2>4. /\ But(g, h) /\ Sound(h, {})
        /\ h.emulationButton = g.emulationButton /\ h.stillDown = g.stillDown
        /\ Left(h) \subseteq Left(g) \cup {m}
        /\ viewOnly \/ (Left(g) \cup {m}) \cap Firm \subseteq Left(h)
    BY <1>1, <1>2, <2>1, <2>3, Presses
  <2>5. Known(h, R)
    BY <1>2, <2>2, <2>4 DEF Known, Firm
  <2>6. \A S \in SUBSET Plain : Sound(h, S)
    BY <2>4, SoundMore
  <2>7. Left(h) \ Flags \subseteq Left(f) /\ (viewOnly \/ Left(f) \cap Buttons \subseteq Left(h))
    BY <2>4 DEF Progress, Firm
  <2>8. Progress(f, h, R, old)
    BY <2>4, <2>5, <2>6, <2>7 DEF Progress, But
  <2> QED BY <2>8 DEF h, R
<1>4. CASE m \in old \ new
  <2> DEFINE ended == {b \in Emulated :
                 /\ user.profile.emulation[b].scenario = "clickWhileHolding"
                 /\ Modifier(b) = m}
             i == [g EXCEPT !.stillDown = @ \ ended,
                            !.slowTap = IF Len(g.pending) = 1 THEN late
                                ELSE @ /\ Len(g.pending) > 1]
  <2>1. h = Queue(i, Up(m))
    <3>1. h = QueueModifierReleased(g, m, late)
      BY <1>4 DEF QueueMask
    <3> HIDE DEF h
    <3> QED BY <3>1 DEF QueueModifierReleased
  <2>2. R = Q \ {m} /\ Q \in SUBSET Flags
    BY <1>4 DEF Mixed
  <2>3. /\ i \in FilterType /\ i.pending = g.pending /\ i.pressed = g.pressed
        /\ i.queued = g.queued /\ i.watchCaps = g.watchCaps
        /\ i.emulationButton = g.emulationButton /\ i.stillDown = g.stillDown \ ended
    BY <1>2 DEF FilterType
  <2> HIDE DEF i
  <2>4. Sound(i, Plain) /\ Left(i) = Left(g)
    BY <1>2, <2>3 DEF Sound, Left
  <2> HIDE DEF h, Q, R
  <2>5. /\ But(i, h) /\ Sound(h, {})
        /\ h.emulationButton = i.emulationButton /\ h.stillDown = i.stillDown
        /\ Left(h) \subseteq Left(i) \ {m}
        /\ viewOnly \/ (Left(i) \cap Firm) \ {m} \subseteq Left(h)
    BY <1>1, <2>1, <2>4, Releases
  <2>6. \A b \in h.stillDown : b \in g.stillDown /\ Modifier(b) # m
    <3>1. \A b \in g.stillDown : b \in Emulated /\ Scenario(b) = "clickWhileHolding"
      BY <1>2 DEF Sound, FilterType
    <3> QED BY <2>3, <2>5, <3>1 DEF Scenario
  <2>7. Known(h, R)
    BY <1>2, <2>2, <2>4, <2>5, <2>6 DEF Known, Firm
  <2>8. \A S \in SUBSET Plain : Sound(h, S)
    BY <2>5, SoundMore
  <2>9. Left(h) \ Flags \subseteq Left(f) /\ h.stillDown \subseteq f.stillDown
    BY <2>4, <2>5, <2>6 DEF Progress
  <2>10. viewOnly \/ Left(f) \cap Buttons \subseteq Left(h)
    BY <1>1, <2>4, <2>5 DEF Progress, Firm
  <2>11. Progress(f, h, R, old)
    BY <2>3, <2>5, <2>7, <2>8, <2>9, <2>10 DEF Progress, But
  <2> QED BY <2>11 DEF h, R
<1>5. CASE m \notin new \ old /\ m \notin old \ new
  <2>1. h = g
    BY <1>5 DEF QueueMask
  <2>2. R = Q
    BY <1>5 DEF Mixed
  <2> QED BY <2>1, <2>2
<1> QED BY <1>3, <1>4, <1>5

LEMMA Modifiers ==
    ASSUME user \in Users, NEW f, Sound(f, Plain), Known(f, f.queued),
           NEW new \in SUBSET Flags, NEW late \in BOOLEAN
    PROVE  Progress([f EXCEPT !.queued = new], QueueModifiers(f, new, late), new, f.queued)
<1> DEFINE old == f.queued
           g0 == [f EXCEPT !.queued = new]
           Mask(g, m) == QueueMask(g, m, new \ old, old \ new, late)
           g1 == Mask(g0, "shift")
           g2 == Mask(g1, "control")
           g3 == Mask(g2, "alternate")
           g4 == Mask(g3, "command")
           g5 == Mask(g4, "caps")
           g6 == Mask(g5, "numpad")
           g7 == Mask(g6, "help")
           Rounds(r) == [n \in 0..7 |-> IF n = 0 THEN g0 ELSE Mask(r[n - 1], Masks[n])]
           after == CHOOSE r : r = Rounds(r)
<1>1. QueueModifiers(f, new, late) = g7
  <2>1. QueueModifiers(f, new, late) = after[7]
    BY DEF QueueModifiers
  <2> HIDE DEF Mask, g0
  <2>2. \E r : r = Rounds(r)
    <3> DEFINE w == [n \in 0..7 |-> CASE n = 0 -> g0 [] n = 1 -> g1 [] n = 2 -> g2
                      [] n = 3 -> g3 [] n = 4 -> g4 [] n = 5 -> g5 [] n = 6 -> g6
                      [] n = 7 -> g7]
    <3>1. ASSUME NEW n \in 0..7
          PROVE  w[n] = IF n = 0 THEN g0 ELSE Mask(w[n - 1], Masks[n])
      <4>1. /\ w[0] = g0 /\ w[1] = g1 /\ w[2] = g2 /\ w[3] = g3
            /\ w[4] = g4 /\ w[5] = g5 /\ w[6] = g6 /\ w[7] = g7
        <5> HIDE DEF g1, g2, g3, g4, g5, g6, g7
        <5> QED OBVIOUS
      <4> HIDE DEF w
      <4>2. CASE n = 0
        BY <4>1, <4>2
      <4>3. CASE n \in 1..7
        BY <4>1, <4>3 DEF Masks
      <4> QED BY <4>2, <4>3
    <3>2. w = Rounds(w)
      BY <3>1
    <3> QED BY <3>2
  <2>3. after = Rounds(after)
    <3> HIDE DEF Rounds
    <3> QED BY <2>2, Zenon
  <2> HIDE DEF after
  <2>4. \A n \in 0..7 : after[n] = IF n = 0 THEN g0 ELSE Mask(after[n - 1], Masks[n])
    BY <2>3
  <2>5. after[7] = g7
    <3>1. after[0] = g0
      BY <2>4
    <3>2. after[1] = g1
      BY <2>4, <3>1 DEF Masks
    <3>3. after[2] = g2
      BY <2>4, <3>2 DEF Masks
    <3>4. after[3] = g3
      BY <2>4, <3>3 DEF Masks
    <3>5. after[4] = g4
      BY <2>4, <3>4 DEF Masks
    <3>6. after[5] = g5
      BY <2>4, <3>5 DEF Masks
    <3>7. after[6] = g6
      BY <2>4, <3>6 DEF Masks
    <3> QED BY <2>4, <3>7 DEF Masks
  <2> QED BY <2>1, <2>5
<1>2. f \in FilterType /\ old \in SUBSET Flags
  BY DEF Sound, FilterType
<1>3. Progress(g0, g0, Mixed(old, new, {}), old) /\ Sound(g0, Plain)
  <2>1. /\ g0 \in FilterType /\ g0.pending = f.pending /\ g0.pressed = f.pressed
        /\ g0.stillDown = f.stillDown
    BY <1>2 DEF FilterType
  <2> HIDE DEF g0
  <2>2. Left(g0) = Left(f) /\ Sound(g0, Plain)
    BY <2>1 DEF Left, Sound
  <2>3. Mixed(old, new, {}) = old
    BY DEF Mixed
  <2> QED BY <2>1, <2>2, <2>3 DEF Progress, Known
<1> DEFINE Done(g, P) == Progress(g0, g, Mixed(old, new, P), old)
<1>4. \A g : \A P \in SUBSET Flags, m \in Flags :
         Done(g, P) /\ m \notin P => Done(Mask(g, m), P \cup {m})
  BY <1>2, <1>3, RoundProgresses
<1> HIDE DEF g0, g1, g2, g3, g4, g5, g6, g7, Done, Mask
<1>5. Done(g1, {"shift"})
  <2>1. Done(Mask(g0, "shift"), {} \cup {"shift"})
    BY <1>3, <1>4 DEF Done, Flags
  <2> QED BY <2>1 DEF g1
<1>6. Done(g2, {"shift", "control"})
  <2>1. Done(Mask(g1, "control"), {"shift"} \cup {"control"})
    BY <1>4, <1>5 DEF Flags
  <2>2. {"shift"} \cup {"control"} = {"shift", "control"}
    OBVIOUS
  <2> QED BY <2>1, <2>2 DEF g2
<1>7. Done(g3, {"shift", "control", "alternate"})
  <2>1. Done(Mask(g2, "alternate"), {"shift", "control"} \cup {"alternate"})
    BY <1>4, <1>6 DEF Flags
  <2>2. {"shift", "control"} \cup {"alternate"} = {"shift", "control", "alternate"}
    OBVIOUS
  <2> QED BY <2>1, <2>2 DEF g3
<1>8. Done(g4, {"shift", "control", "alternate", "command"})
  <2>1. Done(Mask(g3, "command"), {"shift", "control", "alternate"} \cup {"command"})
    BY <1>4, <1>7 DEF Flags
  <2>2. {"shift", "control", "alternate"} \cup {"command"}
        = {"shift", "control", "alternate", "command"}
    OBVIOUS
  <2> QED BY <2>1, <2>2 DEF g4
<1>9. Done(g5, {"shift", "control", "alternate", "command", "caps"})
  <2>1. Done(Mask(g4, "caps"), {"shift", "control", "alternate", "command"} \cup {"caps"})
    BY <1>4, <1>8 DEF Flags
  <2>2. {"shift", "control", "alternate", "command"} \cup {"caps"}
        = {"shift", "control", "alternate", "command", "caps"}
    OBVIOUS
  <2> QED BY <2>1, <2>2 DEF g5
<1>10. Done(g6, Flags \ {"help"})
  <2>1. Done(Mask(g5, "numpad"),
             {"shift", "control", "alternate", "command", "caps"} \cup {"numpad"})
    BY <1>4, <1>9 DEF Flags
  <2>2. {"shift", "control", "alternate", "command", "caps"} \cup {"numpad"} = Flags \ {"help"}
    BY DEF Flags
  <2> QED BY <2>1, <2>2 DEF g6
<1>11. Done(g7, Flags)
  <2>1. Done(Mask(g6, "help"), (Flags \ {"help"}) \cup {"help"})
    BY <1>4, <1>10 DEF Flags
  <2>2. (Flags \ {"help"}) \cup {"help"} = Flags
    BY DEF Flags
  <2> QED BY <2>1, <2>2 DEF g7
<1>12. Mixed(old, new, Flags) = new
  BY <1>2 DEF Mixed
<1> QED BY <1>1, <1>11, <1>12 DEF Done, g0

-----------------------------------------------------------------------------
(* Releasing what is pressed. *)

LEMMA ItemsFinite == IsFiniteSet(Plain)
<1>1. Buttons = ({"button1"} \cup {"button2"}) \cup {"button3"}
  BY DEF Buttons
<1>2. IsFiniteSet(Buttons)
  BY <1>1, FS_Singleton, FS_AddElement
<1> QED BY <1>2, FS_Union, KeyboardAssumption DEF Plain

LEMMA AppendUpsIs ==
    ASSUME NEW f, NEW U \in SUBSET Plain, Sound(f, U), NEW S \in SUBSET U
    PROVE  LET g == AppendUps(f, S)
           IN  /\ Sound(g, U) /\ But(f, g)
               /\ Left(g) = Left(f) \ S
               /\ g.emulationButton = f.emulationButton /\ g.stillDown = f.stillDown
<1> DEFINE p == f.pending
           P == f.pressed
           T == P \cap S
           E == {Up(x) : x \in T}
           r == SetToSeq(E)
           q == p \o r
           g == AppendUps(f, S)
<1>1. f \in FilterType /\ p \in Seq(Event) /\ P \in SUBSET Items
  <2>1. f \in FilterType
    BY DEF Sound
  <2> QED BY <2>1 DEF FilterType
<1>2. E \in SUBSET Event /\ IsFiniteSet(E)
  <2>1. T \in SUBSET Plain /\ T \in SUBSET Items
    BY <1>1
  <2>2. IsFiniteSet(T)
    BY <2>1, ItemsFinite, FS_Subset
  <2> DEFINE h == [x \in T |-> Up(x)]
  <2>3. h \in Surjection(T, E)
    BY DEF Surjection
  <2>4. IsFiniteSet(E)
    BY <2>2, <2>3, FS_Surjection
  <2> QED BY <2>1, <2>4, Events
<1>3. r \in Seq(Event) /\ \A e : e \in E <=> \E i \in DOMAIN r : r[i] = e
  BY <1>2, Ordered
<1>4. g = [f EXCEPT !.pending = q]
  BY DEF AppendUps
<1> HIDE DEF r
<1>5. \A i \in DOMAIN r : \E x \in T : r[i] = Up(x)
  BY <1>3
<1>6. \A x \in T : \E i \in DOMAIN r : r[i] = Up(x)
  BY <1>3
<1>7. Net(P, q) = Net(P, p) \ T
  <2> HIDE DEF T
  <2> QED BY <1>1, <1>3, <1>5, <1>6, NetUps
<1>8. /\ q \in Seq(Event) /\ Len(q) = Len(p) + Len(r) /\ Len(p) \in Nat /\ Len(r) \in Nat
      /\ \A i \in 1..Len(p) : q[i] = p[i]
      /\ DOMAIN r = 1..Len(r)
      /\ \A i \in 1..Len(r) : q[Len(p) + i] = r[i]
  BY <1>1, <1>3
<1> HIDE DEF q, g
<1>9. /\ g \in FilterType /\ g.pending = q /\ g.pressed = P /\ But(f, g)
      /\ g.emulationButton = f.emulationButton /\ g.stillDown = f.stillDown
  BY <1>1, <1>4, <1>8 DEF FilterType, But
<1>10. Waits(q, P, U)
  <2>1. PICK n \in 0..Len(p), m \in Flags : TapsWait(p, P, n, m) /\ UpsWait(p, P, n, U)
    BY DEF Sound, Waits
  <2>2. n \in Nat /\ n \in 0..Len(q) /\ \A i \in 1..n : i \in 1..Len(p)
    BY <2>1, <1>8
  <2>3. TapsWait(q, P, n, m)
    BY <2>1, <2>2, <1>8 DEF TapsWait
  <2>4. UpsWait(q, P, n, U)
    <3>1. SUFFICES ASSUME NEW i \in n + 1..Len(q)
                   PROVE  \E x \in P \cap U : q[i] = Up(x)
      BY DEF UpsWait
    <3>2. CASE i <= Len(p)
      <4>1. i \in n + 1..Len(p) /\ q[i] = p[i]
        BY <3>2, <2>2, <1>8
      <4> QED BY <4>1, <2>1 DEF UpsWait
    <3>3. CASE i > Len(p)
      <4>1. i - Len(p) \in 1..Len(r) /\ i = Len(p) + (i - Len(p))
        BY <3>3, <2>2, <1>8
      <4>2. q[i] = r[i - Len(p)]
        BY <4>1, <1>8
      <4> QED BY <4>1, <4>2, <1>5, <1>8
    <3> QED BY <3>2, <3>3, <2>2, <1>8
  <2> QED BY <2>2, <2>3, <2>4 DEF Waits
<1>11. Sound(g, U)
  BY <1>9, <1>10 DEF Sound
<1>12. Left(g) = Left(f) \ S
  <2>1. Left(g) = Left(f) \ T
    BY <1>7, <1>9 DEF Left
  <2>2. Waits(p, P, Plain)
    BY MoreWaits DEF Sound
  <2>3. Left(f) \cap Plain \subseteq P
    BY <1>1, <2>2, WaitingLeaves
  <2> QED BY <2>1, <2>3
<1> QED BY <1>9, <1>11, <1>12 DEF g

-----------------------------------------------------------------------------
(* The methods that the handlers are made of. *)

\* g is f after some keys and modifiers: the characters of C may be pressed,
\* and modifiers of F.
Goes(f, g, C, F) ==
    /\ Sound(g, Chars) /\ Known(g, g.queued)
    /\ g.queued \subseteq F \/ g.queued = f.queued
    /\ g.emulationButton = f.emulationButton
    /\ Left(g) \ Flags \subseteq Left(f) \cup C
    /\ g.pressed \cap Chars \subseteq f.pressed \cup C
    /\ viewOnly \/ Left(f) \cap Buttons \subseteq Left(g)

LEMMA GoesOn ==
    ASSUME NEW f, NEW g, NEW h, NEW C, NEW D, NEW F, C \cap Flags = {},
           Goes(f, g, C, F), Goes(g, h, D, F)
    PROVE  Goes(f, h, C \cup D, F)
<1>1. viewOnly \/ Left(f) \cap Buttons \subseteq Left(h)
  BY DEF Goes
<1>2. Left(h) \ Flags \subseteq Left(f) \cup (C \cup D)
  BY DEF Goes
<1>3. h.queued \subseteq F \/ h.queued = f.queued
  BY DEF Goes
<1>4. h.pressed \cap Chars \subseteq f.pressed \cup (C \cup D)
  BY DEF Goes
<1> QED BY <1>1, <1>2, <1>3, <1>4 DEF Goes

LEMMA SoundFields ==
    ASSUME NEW f, NEW U \in SUBSET Plain, Sound(f, U)
    PROVE  /\ f \in FilterType /\ Sound(f, Plain)
           /\ f.pending \in Seq(Event) /\ f.pressed \in SUBSET Items
           /\ f.queued \in SUBSET Flags /\ f.stillDown \in SUBSET Emulated
           /\ Left(f) \in SUBSET Items /\ Left(f) \cap (Plain \cup Firm) \subseteq f.pressed
<1>1. f \in FilterType
  BY DEF Sound
<1>2. Sound(f, Plain)
  BY SoundMore
<1>3. Left(f) \cap (Plain \cup Firm) \subseteq f.pressed
  BY <1>1, <1>2, WaitingLeaves DEF Sound
<1> QED BY <1>1, <1>2, <1>3, NetType DEF FilterType, Left

\* What taps alone follow is pressed as long as the server holds it.
LEMMA HeldWas ==
    ASSUME NEW f, NEW U \in SUBSET Plain, Sound(f, U), NEW g, NEW C,
           Sound(g, {}), Left(g) \ Flags \subseteq Left(f) \cup C
    PROVE  g.pressed \cap Chars \subseteq f.pressed \cup C
<1>1. Left(f) \cap Plain \subseteq f.pressed
  BY SoundFields
<1>2. g.pressed \cap Plain \subseteq Left(g)
  <2>1. (g.pressed \cap Plain) \ {} \subseteq Left(g)
    BY WaitingHolds
  <2> QED BY <2>1
<1> QED BY <1>1, <1>2, Kinds DEF Plain

LEMMA ModifiersGo ==
    ASSUME user \in Users, NEW f, Sound(f, Chars), Known(f, f.queued),
           NEW new \in SUBSET Flags, NEW F, new \subseteq F, NEW late \in BOOLEAN
    PROVE  LET g == QueueModifiers(f, new, late)
           IN  /\ Goes(f, g, {}, F) /\ g.queued = new
               /\ Sound(g, {}) \/ (g.pressed = f.pressed /\ new = f.queued)
               /\ Sound(f, {}) => Sound(g, {})
<1> DEFINE g == QueueModifiers(f, new, late)
           s == [f EXCEPT !.queued = new]
<1>1. f \in FilterType /\ Sound(f, Plain) /\ {} \in SUBSET Plain /\ Chars \in SUBSET Plain
  BY SoundFields, CharsPlain
<1>2. Progress(s, g, new, f.queued)
  BY <1>1, Modifiers
<1>3. /\ s \in FilterType /\ s.pending = f.pending /\ s.pressed = f.pressed
      /\ s.queued = new /\ s.emulationButton = f.emulationButton
      /\ s.stillDown = f.stillDown
  BY <1>1 DEF FilterType
<1> HIDE DEF s, g
<1>4. Left(s) = Left(f) /\ \A S \in SUBSET Plain : Sound(f, S) => Sound(s, S)
  BY <1>3 DEF Left, Sound
<1>5. \A S \in SUBSET Plain : Sound(f, S) => Sound(g, S)
  BY <1>2, <1>4 DEF Progress
<1>6. Known(g, new) /\ g.queued = new /\ g.emulationButton = f.emulationButton
  BY <1>2, <1>3 DEF Progress
<1>7. Left(g) \ Flags \subseteq Left(f) /\ (viewOnly \/ Left(f) \cap Buttons \subseteq Left(g))
  BY <1>2, <1>4 DEF Progress
<1>8. Sound(g, {}) \/ (g.pressed = f.pressed /\ new = f.queued)
  BY <1>2, <1>3 DEF Progress
<1>9. g.pressed \cap Chars \subseteq f.pressed \cup {}
  BY <1>1, <1>7, <1>8, HeldWas
<1>10. Sound(g, Chars) /\ (Sound(f, {}) => Sound(g, {}))
  BY <1>1, <1>5
<1>11. Goes(f, g, {}, F)
  BY <1>6, <1>7, <1>9, <1>10 DEF Goes
<1> QED BY <1>6, <1>8, <1>10, <1>11 DEF g

LEMMA CharacterGoes ==
    ASSUME user \in Users, NEW f, Sound(f, Chars), Known(f, f.queued),
           NEW c \in Chars, NEW F
    PROVE  /\ Goes(f, Queue(f, Dn(c)), {c}, F) /\ Sound(Queue(f, Dn(c)), {})
           /\ Goes(f, Queue(f, Up(c)), {}, F) /\ Sound(Queue(f, Up(c)), {})
           /\ Queue(f, Dn(c)).queued = f.queued /\ Queue(f, Up(c)).queued = f.queued
           /\ c \notin Left(Queue(f, Up(c)))
<1>1. Sound(f, Plain) /\ c \in Items /\ c \notin Flags /\ c \notin Buttons /\ c # "button1"
  BY SoundFields, CharsPlain, Kinds
<1>2. /\ Goes(f, Queue(f, Dn(c)), {c}, F) /\ Sound(Queue(f, Dn(c)), {})
      /\ Queue(f, Dn(c)).queued = f.queued
  <2> DEFINE g == Queue(f, Dn(c))
  <2>1. /\ But(f, g) /\ Sound(g, {})
        /\ g.emulationButton = f.emulationButton /\ g.stillDown = f.stillDown
        /\ Left(g) \subseteq Left(f) \cup {c}
        /\ viewOnly \/ (Left(f) \cup {c}) \cap Firm \subseteq Left(g)
    BY <1>1, Presses
  <2> HIDE DEF g
  <2>2. \A b \in f.stillDown : Modifier(b) # c
    <3>1. f.stillDown \in SUBSET Emulated
      BY SoundFields, CharsPlain
    <3> QED BY <3>1, <1>1, Settings
  <2>3. Known(g, g.queued)
    <3>1. g.queued = f.queued /\ f.queued \in SUBSET Flags
      BY <1>1, <2>1, SoundFields, CharsPlain DEF But
    <3> QED BY <1>1, <2>1, <2>2, <3>1 DEF Known, Firm
  <2>4. g.queued = f.queued /\ Sound(g, Chars)
    BY <2>1, SoundMore DEF But
  <2>5. g.pressed \cap Chars \subseteq f.pressed \cup {c}
    BY <2>1, CharsPlain, HeldWas
  <2>6. Goes(f, g, {c}, F)
    BY <1>1, <2>1, <2>3, <2>4, <2>5 DEF Goes, Firm
  <2> QED BY <2>1, <2>4, <2>6 DEF g
<1>3. /\ Goes(f, Queue(f, Up(c)), {}, F) /\ Sound(Queue(f, Up(c)), {})
      /\ Queue(f, Up(c)).queued = f.queued
      /\ c \notin Left(Queue(f, Up(c)))
  <2> DEFINE g == Queue(f, Up(c))
  <2>1. /\ But(f, g) /\ Sound(g, {})
        /\ g.emulationButton = f.emulationButton /\ g.stillDown = f.stillDown
        /\ Left(g) \subseteq Left(f) \ {c}
        /\ viewOnly \/ (Left(f) \cap Firm) \ {c} \subseteq Left(g)
    BY <1>1, Releases
  <2> HIDE DEF g
  <2>2. Known(g, g.queued)
    <3>1. g.queued = f.queued /\ f.queued \in SUBSET Flags
      BY <1>1, <2>1, SoundFields, CharsPlain DEF But
    <3> QED BY <1>1, <2>1, <3>1 DEF Known, Firm
  <2>3. g.queued = f.queued /\ Sound(g, Chars)
    BY <2>1, SoundMore DEF But
  <2>4. g.pressed \cap Chars \subseteq f.pressed \cup {}
    BY <2>1, CharsPlain, HeldWas
  <2>5. Goes(f, g, {}, F)
    BY <1>1, <2>1, <2>2, <2>3, <2>4 DEF Goes, Firm
  <2> QED BY <2>1, <2>3, <2>5 DEF g
<1> QED BY <1>2, <1>3

LEMMA FlagsChangedGoes ==
    ASSUME user \in Users, NEW f, Sound(f, Chars), Known(f, f.queued),
           NEW new \in SUBSET Flags, NEW F, new \subseteq F, NEW late \in BOOLEAN
    PROVE  LET g == FlagsChanged(f, new, late)
           IN  /\ Goes(f, g, {}, F) /\ g.queued = new
               /\ Left(g) \cap Chars = {}
               /\ Sound(g, {}) \/ new = f.queued
<1> DEFINE h == AppendUps(f, Chars)
           g == QueueModifiers(h, new, late)
<1>1. FlagsChanged(f, new, late) = g
  BY DEF FlagsChanged, SynthesizeKeyUps
<1>2. /\ Sound(h, Chars) /\ But(f, h) /\ Left(h) = Left(f) \ Chars
      /\ h.emulationButton = f.emulationButton /\ h.stillDown = f.stillDown
  BY CharsPlain, AppendUpsIs
<1>3. h.pressed = f.pressed
  <2>1. f \in FilterType
    BY SoundFields, CharsPlain
  <2> QED BY <2>1 DEF AppendUps, FilterType
<1> HIDE DEF h
<1>4. Known(h, h.queued) /\ h.queued = f.queued
  <2>1. f.queued \in SUBSET Flags
    BY SoundFields, CharsPlain
  <2> QED BY <1>2, <2>1, Kinds DEF Known, But
<1>5. Goes(f, h, {}, F)
  BY <1>2, <1>3, <1>4, Kinds DEF Goes
<1>6. Goes(h, g, {}, F) /\ g.queued = new /\ (Sound(g, {}) \/ new = h.queued)
  BY <1>2, <1>4, ModifiersGo
<1> HIDE DEF g
<1>7. Goes(f, g, {}, F)
  <2>1. Goes(f, g, {} \cup {}, F)
    BY <1>5, <1>6, GoesOn
  <2> QED BY <2>1
<1>8. Left(g) \cap Chars = {}
  BY <1>2, <1>6, Kinds DEF Goes
<1> QED BY <1>1, <1>4, <1>6, <1>7, <1>8

LEMMA CapsLockGoes ==
    ASSUME user \in Users, flags \in SUBSET Flags,
           NEW f, Sound(f, Chars), Known(f, f.queued)
    PROVE  /\ Goes(f, UpdateCapsLock(f), {}, flags)
           /\ UpdateCapsLock(f).queued \in {flags, f.queued}
<1> DEFINE s == [f EXCEPT !.watchCaps = FALSE]
<1>1. f \in FilterType
  BY SoundFields, CharsPlain
<1>2. /\ s \in FilterType /\ s.pending = f.pending /\ s.pressed = f.pressed
      /\ s.queued = f.queued /\ s.emulationButton = f.emulationButton
      /\ s.stillDown = f.stillDown
  BY <1>1 DEF FilterType
<1>3. UpdateCapsLock(f) = s \/ UpdateCapsLock(f) = FlagsChanged(s, flags, FALSE)
  BY DEF UpdateCapsLock
<1> HIDE DEF s
<1>4. Left(s) = Left(f) /\ Sound(s, Chars)
  BY <1>2 DEF Left, Sound
<1>5. Known(s, s.queued)
  BY <1>2, <1>4 DEF Known
<1>6. Goes(f, s, {}, flags)
  BY <1>2, <1>4, <1>5 DEF Goes
<1>7. /\ Goes(s, FlagsChanged(s, flags, FALSE), {}, flags)
      /\ FlagsChanged(s, flags, FALSE).queued = flags
  BY <1>4, <1>5, FlagsChangedGoes
<1>8. Goes(f, FlagsChanged(s, flags, FALSE), {} \cup {}, flags)
  BY <1>6, <1>7, GoesOn
<1> QED BY <1>2, <1>3, <1>6, <1>7, <1>8

LEMMA SendAllGoes ==
    ASSUME user \in Users, NEW f, Sound(f, Plain), Known(f, f.queued), NEW F
    PROVE  LET g == SendAll(f)
           IN  /\ Goes(f, g, {}, F) /\ Sound(g, {}) /\ Left(g) = g.pressed
               /\ g.queued = f.queued /\ g.stillDown = f.stillDown
               /\ g.pending = <<>> /\ Left(g) \subseteq Left(f)
<1> DEFINE g == SendAll(f)
<1>1. /\ f \in FilterType /\ f.pressed \in SUBSET Items
      /\ Left(f) \in SUBSET Items /\ Left(f) \cap Plain \subseteq f.pressed
      /\ f.stillDown \in SUBSET Emulated
  BY SoundFields, CharsPlain
<1>2. /\ g \in FilterType
      /\ g = [f EXCEPT !.pending = <<>>,
                       !.pressed = IF viewOnly THEN f.pressed ELSE Left(f)]
  BY <1>1, SendAllIs
<1> HIDE DEF g
<1>3. /\ g.pending = <<>> /\ g.pressed = (IF viewOnly THEN f.pressed ELSE Left(f))
      /\ g.queued = f.queued /\ g.stillDown = f.stillDown
      /\ g.emulationButton = f.emulationButton
  BY <1>1, <1>2 DEF FilterType
<1>4. viewOnly => f.pressed = {}
  BY DEF Sound
<1>5. g.pressed \in SUBSET Items /\ Left(g) = g.pressed
  BY <1>1, <1>3, NetEmpty DEF Left
<1>6. Left(g) \subseteq Left(f) /\ (viewOnly \/ Left(f) \subseteq Left(g))
  BY <1>3, <1>4, <1>5
<1>7. Sound(g, {}) /\ Sound(g, Chars)
  <2>1. Sound(g, {})
    BY <1>2, <1>3, <1>4, NothingWaits DEF Sound
  <2> QED BY <2>1, SoundMore
<1>8. Known(g, g.queued)
  BY <1>3, <1>6 DEF Known
<1>9. g.pressed \cap Chars \subseteq f.pressed
  BY <1>1, <1>5, <1>6 DEF Plain
<1>10. Goes(f, g, {}, F)
  BY <1>3, <1>6, <1>7, <1>8, <1>9 DEF Goes
<1> QED BY <1>3, <1>5, <1>6, <1>7, <1>10 DEF g

\* Nothing is down and nothing is remembered of the gestures.
Blank(f) ==
    /\ Sound(f, {}) /\ Known(f, {})
    /\ f.queued = {} /\ f.stillDown = {} /\ Left(f) = {}

LEMMA RemainingAreReleased ==
    ASSUME user \in Users, NEW f, Sound(f, Plain), Known(f, f.queued)
    PROVE  LET g == SynthesizeRemaining(f)
           IN  /\ Sound(g, Plain) /\ Known(g, g.queued)
               /\ g.queued = {} /\ g.stillDown = {} /\ Left(g) = {}
<1> DEFINE h == AppendUps(f, Buttons)
           i == AppendUps(h, Chars)
           g == QueueModifiers(i, {}, TRUE)
           s == [i EXCEPT !.queued = {}]
<1>1. SynthesizeRemaining(f) = g
  BY DEF SynthesizeRemaining, SynthesizeKeyUps, SynthesizeMouseUps
<1>2. /\ Sound(h, Plain) /\ But(f, h) /\ Left(h) = Left(f) \ Buttons
      /\ h.stillDown = f.stillDown
  BY CharsPlain, AppendUpsIs
<1> HIDE DEF h
<1>3. /\ Sound(i, Plain) /\ But(h, i) /\ Left(i) = Left(h) \ Chars
      /\ i.stillDown = h.stillDown
  BY <1>2, CharsPlain, AppendUpsIs
<1> HIDE DEF i
<1>4. Known(i, i.queued)
  <2>1. f.queued \in SUBSET Flags
    BY SoundFields, CharsPlain
  <2> QED BY <1>2, <1>3, <2>1, Kinds DEF Known, But
<1>5. Progress(s, g, {}, i.queued)
  BY <1>3, <1>4, Modifiers
<1>6. i \in FilterType
  BY <1>3 DEF Sound
<1>7. /\ s \in FilterType /\ s.pending = i.pending /\ s.pressed = i.pressed
      /\ s.queued = {} /\ s.stillDown = i.stillDown
  BY <1>6 DEF FilterType
<1> HIDE DEF s, g
<1>8. Left(s) = Left(i) /\ Sound(s, Plain)
  BY <1>3, <1>7 DEF Left, Sound
<1>9. Sound(g, Plain) /\ Known(g, {}) /\ g.queued = {}
  BY <1>5, <1>7, <1>8, CharsPlain DEF Progress
<1>10. g.stillDown = {}
  BY <1>9 DEF Known
<1>11. Left(f) \in SUBSET Items /\ Left(g) \in SUBSET Items
  BY <1>9, SoundFields, CharsPlain
<1>12. Left(i) \subseteq Flags
  BY <1>2, <1>3, <1>11, Kinds
<1>13. Left(g) \ Flags \subseteq Left(i) /\ Left(g) \cap Flags \subseteq {}
  BY <1>5, <1>8, <1>9 DEF Progress, Known
<1>14. Left(g) = {}
  BY <1>12, <1>13
<1> QED BY <1>1, <1>9, <1>10, <1>14

LEMMA ClearingBlanks ==
    ASSUME user \in Users, NEW f, Sound(f, Plain), Known(f, f.queued)
    PROVE  LET g == ClearAllEmulationStates(f)
           IN  /\ Blank(g) /\ g.emulationButton = "button1"
               /\ g.pending = <<>> /\ g.pressed = {}
               /\ ~g.multiTapTimer /\ g.tapAndClickTimer = NoButton
<1> DEFINE h == SendAll(f)
           i == SynthesizeRemaining(h)
           j == SendAll(i)
           g == [j EXCEPT !.emulationButton = "button1", !.stillDown = {},
                          !.multiTapTimer = FALSE, !.tapAndClickTimer = NoButton]
<1>1. ClearAllEmulationStates(f) = g
  BY DEF ClearAllEmulationStates
<1>2. Sound(h, {}) /\ Goes(f, h, {}, {})
  BY SendAllGoes
<1>3. Sound(h, Plain) /\ Known(h, h.queued)
  <2> HIDE DEF h
  <2> QED BY <1>2, SoundMore DEF Goes
<1> HIDE DEF h
<1>4. /\ Sound(i, Plain) /\ Known(i, i.queued)
      /\ i.queued = {} /\ i.stillDown = {} /\ Left(i) = {}
  BY <1>3, RemainingAreReleased
<1> HIDE DEF i
<1>5. /\ Sound(j, {}) /\ Left(j) = j.pressed /\ j.pending = <<>>
      /\ j.queued = i.queued /\ Left(j) \subseteq Left(i)
  BY <1>4, SendAllGoes
<1> HIDE DEF j
<1>6. j \in FilterType /\ j.pressed = {} /\ j.queued = {}
  BY <1>4, <1>5 DEF Sound
<1>7. /\ g \in FilterType /\ g.pending = <<>> /\ g.pressed = {} /\ g.queued = {}
      /\ g.stillDown = {} /\ g.emulationButton = "button1"
      /\ ~g.multiTapTimer /\ g.tapAndClickTimer = NoButton
  BY <1>5, <1>6, Kinds DEF FilterType
<1> HIDE DEF g
<1>8. Left(g) = {}
  BY <1>7, NetEmpty DEF Left
<1>9. Sound(g, {})
  BY <1>7, NothingWaits DEF Sound
<1>10. Blank(g)
  BY <1>7, <1>8, <1>9 DEF Blank, Known
<1> QED BY <1>1, <1>7, <1>10

-----------------------------------------------------------------------------
(* Keys. *)

LEMMA TypedAreChars ==
    ASSUME NEW k \in Keys, NEW mods
    PROVE  KeyCharacter(k, mods) \in Chars
<1>1. Level(k, mods) \in Levels
  BY DEF Level, Levels
<1> QED BY <1>1, KeyboardAssumption DEF KeyCharacter

LEMMA KeyDownGoes ==
    ASSUME user \in Users, NEW f, Sound(f, Chars), Known(f, f.queued),
           NEW k \in Keys, NEW mods \in SUBSET Flags
    PROVE  LET g == QueueKeyDown(f, k, mods)
           IN  /\ Goes(f, g, {KeyCharacter(k, mods)}, mods) /\ Sound(g, {})
               /\ g.queued \in {mods, f.queued}
<1> DEFINE c == KeyCharacter(k, mods)
           g1 == QueueModifiers(f, mods \ {"control", "alternate"}, FALSE)
           g2 == Queue(g1, Dn(c))
           g3 == QueueModifiers(g2, mods, FALSE)
           g == QueueKeyDown(f, k, mods)
<1>1. c \in Chars /\ c \notin Flags
  BY TypedAreChars, Kinds
<1>2. CASE Translated(k, mods)
  <2>1. g = g3
    BY <1>2 DEF QueueKeyDown
  <2>2. Goes(f, g1, {}, mods)
    BY ModifiersGo
  <2> HIDE DEF g1, c, g
  <2>3. Sound(g1, Chars) /\ Known(g1, g1.queued)
    BY <2>2 DEF Goes
  <2>4. Goes(g1, g2, {c}, mods) /\ Sound(g2, {})
    BY <1>1, <2>3, CharacterGoes
  <2> HIDE DEF g2
  <2>5. Sound(g2, Chars) /\ Known(g2, g2.queued)
    BY <2>4 DEF Goes
  <2>6. Goes(g2, g3, {}, mods) /\ Sound(g3, {}) /\ g3.queued = mods
    BY <2>4, <2>5, ModifiersGo
  <2> HIDE DEF g3
  <2>7. Goes(f, g2, {} \cup {c}, mods)
    BY <2>2, <2>4, GoesOn
  <2>8. Goes(f, g3, ({} \cup {c}) \cup {}, mods)
    BY <1>1, <2>6, <2>7, GoesOn
  <2>9. ({} \cup {c}) \cup {} = {c}
    OBVIOUS
  <2> QED BY <2>1, <2>6, <2>8, <2>9 DEF c, g
<1>3. CASE ~Translated(k, mods)
  <2>1. g = Queue(f, Dn(c))
    BY <1>3 DEF QueueKeyDown
  <2> HIDE DEF g, c
  <2>2. Goes(f, g, {c}, mods) /\ Sound(g, {}) /\ g.queued = f.queued
    BY <1>1, <2>1, CharacterGoes
  <2> QED BY <2>2 DEF g, c
<1> QED BY <1>2, <1>3

LEMMA PasteGoes ==
    ASSUME user \in Users, NEW f, Sound(f, Chars), Known(f, f.queued), NEW text
    PROVE  LET g == PasteString(f, text)
           IN  /\ Sound(g, {}) /\ Known(g, g.queued)
               /\ Knows(g.queued, f.queued)
               /\ g.emulationButton = "button1"
               /\ Left(g) \subseteq Flags /\ g.pressed \subseteq Flags
<1> DEFINE h == ClearAllEmulationStates(f)
           t == [h EXCEPT !.pressed = @ \ text]
           new == f.pressed \cap Flags
           i == QueueModifiers(t, new, TRUE)
           g == SendAll(i)
<1>1. PasteString(f, text) = g
  BY DEF PasteString
<1>2. /\ f \in FilterType /\ f.pressed \in SUBSET Items /\ Sound(f, Plain)
  BY SoundFields, CharsPlain
<1>3. Blank(h) /\ h.emulationButton = "button1" /\ h.pending = <<>> /\ h.pressed = {}
  BY <1>2, ClearingBlanks
<1> HIDE DEF h
<1>4. t = h
  <2>1. h \in FilterType
    BY <1>3 DEF Blank, Sound
  <2> QED BY <1>3, <2>1 DEF FilterType
<1> HIDE DEF t
<1>5. new \subseteq f.queued /\ new \in SUBSET Flags
  <2>1. f.pressed \cap Flags \subseteq Left(f)
    BY <1>2, WaitingLeaves DEF Sound
  <2> QED BY <2>1 DEF Known
<1>12. Knows(new, f.queued)
  <2>1. CASE viewOnly
    <3>1. f.pressed = {}
      BY <2>1 DEF Sound
    <3> QED BY <1>5, <3>1 DEF Knows
  <2>2. CASE ~viewOnly
    <3>1. f.queued \in SUBSET Flags /\ f.queued \ Gestures \subseteq Left(f)
      BY <2>2, SoundFields, CharsPlain DEF Known
    <3>2. Left(f) \cap Firm \subseteq f.pressed
      BY SoundFields, CharsPlain
    <3>3. f.queued \ Gestures \subseteq new
      BY <3>1, <3>2 DEF Firm
    <3> QED BY <1>5, <3>3 DEF Knows
  <2> QED BY <2>1, <2>2
<1> HIDE DEF new
<1>6. Sound(t, Chars) /\ Known(t, t.queued) /\ Left(t) = {} /\ t.emulationButton = "button1"
  <2>1. Sound(t, {}) /\ Known(t, {}) /\ t.queued = {}
    BY <1>3, <1>4 DEF Blank
  <2>2. Sound(t, Chars)
    BY <2>1, SoundMore
  <2> QED BY <1>3, <1>4, <2>1, <2>2 DEF Blank
<1>7. Goes(t, i, {}, new) /\ i.queued = new
  BY <1>5, <1>6, ModifiersGo
<1> HIDE DEF i
<1>8. Sound(i, Chars) /\ Known(i, i.queued) /\ Left(i) \subseteq Flags
      /\ i.emulationButton = "button1"
  BY <1>6, <1>7 DEF Goes
<1>9. Sound(i, Plain)
  BY <1>8, SoundMore DEF Plain
<1>10. /\ Goes(i, g, {}, {}) /\ Sound(g, {}) /\ Left(g) = g.pressed
       /\ g.queued = i.queued /\ Left(g) \subseteq Left(i)
  BY <1>8, <1>9, SendAllGoes
<1> HIDE DEF g
<1>11. Known(g, g.queued) /\ g.emulationButton = "button1"
  BY <1>8, <1>10 DEF Goes
<1> QED BY <1>1, <1>7, <1>8, <1>10, <1>11, <1>12

-----------------------------------------------------------------------------
(* The buttons of the mouse. *)

\* A button goes down, or starts a click of another one.
LEMMA ButtonGoes ==
    ASSUME user \in Users, NEW f, Sound(f, Chars), Known(f, f.queued), NEW b \in Buttons
    PROVE  LET g == Queue(f, Dn(b))
           IN  /\ But(f, g) /\ Sound(g, {}) /\ Known(g, g.queued)
               /\ \/ /\ g.emulationButton = f.emulationButton
                     /\ Left(g) \subseteq Left(f) \cup {b}
                     /\ viewOnly \/ Left(f) \cap Buttons \subseteq Left(g)
                  \/ /\ b = "button1"
                     /\ g.emulationButton \in Emulated
                     /\ Scenario(g.emulationButton) # "none"
                     /\ Left(g) \subseteq Left(f) \cup {g.emulationButton}
                     /\ viewOnly \/ g.emulationButton \in Left(g)
<1> DEFINE g == Queue(f, Dn(b))
<1>1. /\ Sound(f, Plain) /\ f.pending \in Seq(Event) /\ f.pressed \in SUBSET Items
      /\ f.stillDown \in SUBSET Emulated /\ f.queued \in SUBSET Flags
      /\ Left(f) \cap Firm \subseteq f.pressed
  BY SoundFields, CharsPlain
<1>2. b \in Items /\ b \notin Flags /\ Dn(b) \in Event /\ \A m \in Flags : Dn(b) # Dn(m)
  BY Kinds, Events
<1>3. But(f, g) /\ Sound(g, {}) /\ (Takes(f, Dn(b), g) \/ Clicks(f, Dn(b), g))
  BY <1>1, <1>2, QueueResult
<1> HIDE DEF g
<1>4. g.queued = f.queued
  BY <1>3 DEF But
<1>5. CASE Takes(f, Dn(b), g)
  <2>1. Net(f.pressed, Append(f.pending, Dn(b))) = Left(f) \cup {b}
    BY <1>1, <1>2, NetDown DEF Left
  <2>2. /\ g.emulationButton = f.emulationButton /\ g.stillDown = f.stillDown
        /\ Left(g) \subseteq Left(f) \cup {b}
        /\ viewOnly \/ Left(f) \cap Firm \subseteq Left(g)
    BY <1>5, <2>1 DEF Takes
  <2>3. \A c \in f.stillDown : Modifier(c) # b
    BY <1>1, <1>2, Settings
  <2>4. Known(g, g.queued)
    BY <1>1, <1>2, <1>4, <2>2, <2>3 DEF Known, Firm
  <2> QED BY <1>3, <2>2, <2>4 DEF g, Firm
<1>6. CASE Clicks(f, Dn(b), g)
  <2> DEFINE e == g.emulationButton
  <2>1. /\ Dn(b) = Dn("button1") /\ e \in Emulated /\ Scenario(e) # "none"
        /\ Left(g) \subseteq f.pressed \cup {e} /\ f.pressed \subseteq Left(f)
        /\ viewOnly \/ (e \in Left(g) /\ f.pressed \subseteq Left(g))
        /\ \/ g.stillDown = f.stillDown
           \/ /\ g.stillDown = f.stillDown \cup {e}
              /\ Modifier(e) \in Left(f) \ Left(g)
    BY <1>6 DEF Clicks
  <2>2. b = "button1"
    BY <2>1, Events
  <2>3. e \notin Flags /\ Modifier(e) \in Flags /\ \A c \in f.stillDown : Modifier(c) \in Flags
    BY <1>1, <2>1, Settings, Kinds
  <2> HIDE DEF e
  <2>4. Left(g) \cap Flags \subseteq Left(f)
    BY <2>1, <2>3
  <2>5. viewOnly \/ f.queued \ Gestures \subseteq Left(g)
    BY <1>1, <2>1 DEF Known, Firm
  <2>6. Known(g, g.queued)
    BY <1>4, <2>1, <2>3, <2>4, <2>5 DEF Known
  <2> QED BY <1>3, <2>1, <2>2, <2>6 DEF g, e
<1> QED BY <1>3, <1>5, <1>6

LEMMA MouseUpGoes ==
    ASSUME user \in Users, NEW f, Sound(f, Chars), Known(f, f.queued), NEW b \in Buttons
    PROVE  LET g == QueueMouseUp(f, b)
               x == IF f.emulationButton = "button1" THEN b ELSE f.emulationButton
           IN  /\ Sound(g, {}) /\ Known(g, g.queued)
               /\ g.queued = f.queued /\ g.stillDown = f.stillDown
               /\ g.emulationButton = "button1"
               /\ Left(g) \subseteq Left(f) \ {x}
               /\ f.pending = <<>> => g.pending = <<>> /\ Calmer(f, g)
<1> DEFINE x == IF f.emulationButton = "button1" THEN b ELSE f.emulationButton
           h == [f EXCEPT !.emulationButton = "button1"]
           g == Queue(h, Up(x))
<1>1. f \in FilterType /\ Sound(f, Plain)
  BY SoundFields, CharsPlain
<1>2. f.emulationButton = "button1" => h = f
  BY <1>1 DEF FilterType
<1>3. QueueMouseUp(f, b) = g
  BY <1>2 DEF QueueMouseUp
<1>4. x \in Items /\ x \notin Flags /\ f.queued \in SUBSET Flags
  BY <1>1, Kinds DEF FilterType
<1> HIDE DEF x
<1>5. /\ h \in FilterType /\ h.pending = f.pending /\ h.pressed = f.pressed
      /\ h.queued = f.queued /\ h.stillDown = f.stillDown
      /\ h.emulationButton = "button1" /\ h.multiTapTimer = f.multiTapTimer
      /\ h.tapAndClickTimer = f.tapAndClickTimer
  BY <1>1, Kinds DEF FilterType
<1> HIDE DEF h
<1>6. Sound(h, Plain) /\ Left(h) = Left(f)
  BY <1>1, <1>5 DEF Sound, Left
<1>7. /\ But(h, g) /\ Sound(g, {})
      /\ g.emulationButton = h.emulationButton /\ g.stillDown = h.stillDown
      /\ Left(g) \subseteq Left(h) \ {x}
      /\ viewOnly \/ (Left(h) \cap Firm) \ {x} \subseteq Left(g)
      /\ h.pending = <<>> => g.pending = <<>> /\ Calmer(h, g)
  BY <1>4, <1>6, Releases
<1> HIDE DEF g
<1>8. g.queued = f.queued /\ Known(g, g.queued)
  BY <1>4, <1>5, <1>6, <1>7 DEF Known, But, Firm
<1>9. f.pending = <<>> => g.pending = <<>> /\ Calmer(f, g)
  BY <1>5, <1>7 DEF Calmer
<1> QED BY <1>3, <1>5, <1>6, <1>7, <1>8, <1>9 DEF x

LEMMA MouseDownGoes ==
    ASSUME user \in Users, NEW f, Sound(f, Chars), Known(f, f.queued), NEW b \in Buttons
    PROVE  LET g == QueueMouseDown(f, b)
           IN  /\ Sound(g, {}) /\ Known(g, g.queued) /\ g.queued = f.queued
               /\ \/ /\ g.emulationButton = "button1"
                     /\ Left(g) \subseteq Left(f) \cup {b}
                  \/ /\ b = "button1"
                     /\ g.emulationButton \in Emulated
                     /\ Scenario(g.emulationButton) # "none"
                     /\ Left(g) \subseteq Left(f) \cup {g.emulationButton}
                     /\ viewOnly \/ g.emulationButton \in Left(g)
<1> DEFINE h == IF f.emulationButton # "button1"
                THEN QueueMouseUp(f, f.emulationButton) ELSE f
           g == Queue(h, Dn(b))
<1>1. QueueMouseDown(f, b) = g
  BY DEF QueueMouseDown
<1>2. /\ Sound(h, Chars) /\ Known(h, h.queued) /\ h.queued = f.queued
      /\ h.emulationButton = "button1" /\ Left(h) \subseteq Left(f)
  <2>1. CASE f.emulationButton = "button1"
    BY <2>1
  <2>2. CASE f.emulationButton # "button1"
    <3> DEFINE i == QueueMouseUp(f, f.emulationButton)
    <3>1. h = i
      BY <2>2
    <3>2. f.emulationButton \in Buttons
      BY DEF Sound, FilterType
    <3>3. /\ Sound(i, {}) /\ Known(i, i.queued) /\ i.queued = f.queued
          /\ i.emulationButton = "button1" /\ Left(i) \subseteq Left(f)
      BY <3>2, MouseUpGoes
    <3> HIDE DEF i, h
    <3> QED BY <3>1, <3>3, SoundMore
  <2> QED BY <2>1, <2>2
<1> HIDE DEF h
<1>3. /\ But(h, g) /\ Sound(g, {}) /\ Known(g, g.queued)
      /\ \/ /\ g.emulationButton = h.emulationButton
            /\ Left(g) \subseteq Left(h) \cup {b}
         \/ /\ b = "button1"
            /\ g.emulationButton \in Emulated
            /\ Scenario(g.emulationButton) # "none"
            /\ Left(g) \subseteq Left(h) \cup {g.emulationButton}
            /\ viewOnly \/ g.emulationButton \in Left(g)
  BY <1>2, ButtonGoes
<1> HIDE DEF g
<1>4. g.queued = f.queued
  BY <1>2, <1>3 DEF But
<1>5. /\ \/ /\ g.emulationButton = "button1"
            /\ Left(g) \subseteq Left(f) \cup {b}
         \/ /\ b = "button1"
            /\ g.emulationButton \in Emulated
            /\ Scenario(g.emulationButton) # "none"
            /\ Left(g) \subseteq Left(f) \cup {g.emulationButton}
            /\ viewOnly \/ g.emulationButton \in Left(g)
  BY <1>2, <1>3
<1> QED BY <1>1, <1>3, <1>4, <1>5

-----------------------------------------------------------------------------
(* Steps.  The settings never change, so what was said of filter' with them *)
(* holds in the next state.                                                 *)

\* The user either has one button or emulates none.
OneButton ==
    \A u \in Users :
        \/ u.buttons \subseteq {"button1"}
        \/ \A b \in Emulated : u.profile.emulation[b].scenario = "none"

\* An equivalent that only the filter finds discards releases that wait.  They
\* wait after a modifier went up of which the filter did not know: any one, if
\* none is held any more, else one that a gesture uses.  If the next key can be
\* such an equivalent, that modifier does not change what a key types: with
\* Command, Control does not.
HarmlessEquivalents ==
    \A u \in Users : \A e \in u.viewEquivalents :
        LET used == {u.profile.emulation[b].modifier :
                        b \in {c \in Emulated : u.profile.emulation[c].scenario # "none"}}
            unheard == u.flags \cap (IF e[2] = {} THEN Flags ELSE used)
        IN  unheard \ e[2] \subseteq {"numpad", "help"} \cup
                                     {m \in {"control"} : "command" \in e[2]}

\* No text is dropped on a window that is not key.
Undropped == ~Drops

Preserved ==
    /\ IInv'
    /\ Undropped /\ FocusKnown => FocusKnown'
    /\ HarmlessEquivalents /\ FocusKnown /\ KeysKnown => KeysKnown'
    /\ EmulatedButtonIsHeld => EmulatedButtonIsHeld'
    /\ OneButton /\ EmulatedButtonIsHeld /\ ButtonsKnown => ButtonsKnown'

LEMMA IInvStays ==
    ASSUME IInv, UNCHANGED <<user, viewOnly>>,
           buttons' \subseteq user.buttons, keys' \subseteq Keys, flags' \subseteq user.flags,
           focus' \in BOOLEAN, lastCharacters' \in Chars \cup {NoCharacter},
           Sound(filter', Chars), Known(filter', filter'.queued)
    PROVE  IInv'
<1>1. Sound(filter, Chars)'
  BY DEF Sound, Waits, TapsWait, UpsWait, Scenario, Modifier, Count
<1>2. Known(filter, filter.queued)'
  BY DEF Known, Left, Gestures, Scenario, Modifier
<1>3. TypeOK'
  BY DEF IInv, TypeOK, Sound
<1> QED BY <1>1, <1>2, <1>3 DEF IInv

LEMMA KeysStay ==
    ASSUME UNCHANGED <<user, keys, flags, lastCharacters>>, KeysKnown,
           filter'.pressed \cap Chars \subseteq filter.pressed,
           Left(filter') \cap Chars \subseteq Left(filter)
    PROVE  KeysKnown'
BY DEF KeysKnown, Unheard, Gestures, Scenario, Modifier, Typed, KeyCharacter, Level,
       Translated, Left

LEMMA KeysAre ==
    ASSUME UNCHANGED user, NEW G \in SUBSET user.flags, flags' \subseteq G,
           filter'.pressed \cap Chars \subseteq Typed(keys', G),
           \/ G = flags'
           \/ /\ Left(filter') \cap Chars = {}
              /\ flags' = {} \/ G \subseteq flags' \cup Gestures,
           lastCharacters' = NoCharacter \/ filter'.pressed \cap Chars = {}
    PROVE  KeysKnown'
BY DEF KeysKnown, Unheard, Gestures, Scenario, Modifier, Typed, KeyCharacter, Level,
       Translated, Left

LEMMA ButtonsStay ==
    ASSUME IInv, UNCHANGED <<user, viewOnly, buttons>>,
           NEW C \in SUBSET Chars, NEW F, Goes(filter, filter', C, F)
    PROVE  /\ EmulatedButtonIsHeld => EmulatedButtonIsHeld'
           /\ ButtonsKnown => ButtonsKnown'
<1>1. /\ C \cap Buttons = {} /\ Flags \cap Buttons = {}
      /\ filter.emulationButton \in Buttons
  BY Kinds DEF IInv, Sound, FilterType
<1>2. Left(filter') \cap Buttons \subseteq Left(filter)
  BY <1>1 DEF Goes
<1>3. filter'.emulationButton = filter.emulationButton
      /\ (viewOnly \/ Left(filter) \cap Buttons \subseteq Left(filter'))
  BY DEF Goes
<1> QED BY <1>1, <1>2, <1>3 DEF ButtonsKnown, EmulatedButtonIsHeld, Drained, Left, Scenario

\* What the invariants say of the filter before a step.
LEMMA Before ==
    ASSUME IInv
    PROVE  /\ user \in Users /\ user.flags \in SUBSET Flags /\ user.buttons \in SUBSET Buttons
           /\ flags \in SUBSET Flags
           /\ Sound(filter, Chars) /\ Sound(filter, Plain) /\ Known(filter, filter.queued)
           /\ filter \in FilterType /\ Left(filter) \in SUBSET Items
           /\ FocusKnown /\ ~focus =>
                 /\ filter.pending = <<>> /\ filter.pressed = {} /\ Left(filter) = {}
                 /\ filter.queued = {} /\ filter.stillDown = {}
                 /\ ~filter.multiTapTimer /\ filter.tapAndClickTimer = NoButton
<1>1. /\ user \in Users /\ user.flags \in SUBSET Flags /\ user.buttons \in SUBSET Buttons
      /\ flags \in SUBSET Flags
  BY UserAssumption DEF IInv, TypeOK
<1>2. /\ Sound(filter, Chars) /\ Sound(filter, Plain) /\ Known(filter, filter.queued)
      /\ filter \in FilterType /\ Left(filter) \in SUBSET Items
  BY SoundFields, CharsPlain DEF IInv
<1>3. FocusKnown /\ ~focus =>
         /\ filter.pending = <<>> /\ filter.pressed = {} /\ Left(filter) = {}
         /\ filter.queued = {} /\ filter.stillDown = {}
         /\ ~filter.multiTapTimer /\ filter.tapAndClickTimer = NoButton
  BY NetEmpty DEF FocusKnown, Knows, ResignedHoldsNothing, Left
<1> QED BY <1>1, <1>2, <1>3

\* Of a window that has the focus, only what the filter knows matters.
LEMMA FocusIs ==
    ASSUME UNCHANGED user, Knows(filter'.queued, IF focus' THEN flags' ELSE {}),
           focus' \/ ResignedHoldsNothing'
    PROVE  FocusKnown'
<1>1. Knows(filter.queued, IF focus THEN flags ELSE {})'
  BY DEF Knows, Gestures, Scenario, Modifier
<1>2. ResignedHoldsNothing'
  BY DEF ResignedHoldsNothing
<1> QED BY <1>1, <1>2 DEF FocusKnown

\* A handler that clears everything.
LEMMA BlankStep ==
    ASSUME IInv, UNCHANGED <<user, viewOnly, buttons>>,
           keys' \subseteq Keys, flags' \subseteq user.flags, focus' \in BOOLEAN,
           lastCharacters' \in Chars \cup {NoCharacter},
           Blank(filter'), filter'.emulationButton = "button1",
           filter'.pending = <<>>, filter'.pressed = {},
           ~filter'.multiTapTimer, filter'.tapAndClickTimer = NoButton
    PROVE  Preserved
<1>1. /\ Sound(filter', Chars) /\ Known(filter', filter'.queued)
      /\ filter'.queued = {} /\ filter'.stillDown = {} /\ Left(filter') = {}
  BY SoundMore DEF Blank
<1>2. IInv'
  BY <1>1, IInvStays DEF IInv, TypeOK
<1>3. FocusKnown'
  <2>1. Knows(filter'.queued, IF focus' THEN flags' ELSE {})
    BY <1>1 DEF Knows
  <2> QED BY <1>1, <2>1, FocusIs DEF ResignedHoldsNothing
<1>4. KeysKnown'
  BY KeysAre
<1>5. ButtonsKnown' /\ EmulatedButtonIsHeld'
  BY <1>1 DEF ButtonsKnown, EmulatedButtonIsHeld, Left
<1> QED BY <1>2, <1>3, <1>4, <1>5 DEF Preserved

\* A handler of a window that has the focus, which only concerns keys.
LEMMA KeyStep ==
    ASSUME IInv, UNCHANGED <<user, viewOnly, buttons, focus>>, focus,
           keys' \subseteq Keys, flags' \subseteq user.flags,
           lastCharacters' \in Chars \cup {NoCharacter},
           NEW C \in SUBSET Chars, Goes(filter, filter', C, flags'),
           FocusKnown => Knows(filter'.queued, flags'),
           HarmlessEquivalents /\ FocusKnown /\ KeysKnown => KeysKnown'
    PROVE  Preserved
<1>1. IInv'
  BY IInvStays DEF Goes, IInv, TypeOK
<1>2. FocusKnown => FocusKnown'
  BY FocusIs DEF FocusKnown
<1>3. /\ EmulatedButtonIsHeld => EmulatedButtonIsHeld'
      /\ ButtonsKnown => ButtonsKnown'
  BY ButtonsStay
<1> QED BY <1>1, <1>2, <1>3 DEF Preserved

-----------------------------------------------------------------------------
(* One lemma for each action of Next. *)

LEMMA MouseDownPreserves ==
    ASSUME IInv, NEW b \in Buttons, MouseDown(b)
    PROVE  Preserved
<1> DEFINE g == QueueMouseDown(filter, b)
<1>1. /\ focus /\ b \in user.buttons \ buttons /\ buttons' = buttons \cup {b}
      /\ filter' = g
      /\ UNCHANGED <<user, viewOnly, keys, flags, focus, lastCharacters>>
  BY DEF MouseDown
<1>2. /\ user \in Users /\ Sound(filter, Chars) /\ Known(filter, filter.queued)
      /\ filter.emulationButton \in Buttons
  BY Before DEF FilterType
<1>3. /\ Sound(g, {}) /\ Known(g, g.queued) /\ g.queued = filter.queued
      /\ \/ /\ g.emulationButton = "button1"
            /\ Left(g) \subseteq Left(filter) \cup {b}
         \/ /\ b = "button1"
            /\ g.emulationButton \in Emulated
            /\ Scenario(g.emulationButton) # "none"
            /\ Left(g) \subseteq Left(filter) \cup {g.emulationButton}
            /\ viewOnly \/ g.emulationButton \in Left(g)
  BY <1>2, MouseDownGoes
<1> HIDE DEF g
<1>4. IInv'
  <2>1. Sound(g, Chars)
    BY <1>3, SoundMore
  <2>2. buttons' \subseteq user.buttons
    BY <1>1 DEF IInv, TypeOK
  <2> QED BY <1>1, <1>3, <2>1, <2>2, IInvStays DEF IInv, TypeOK
<1>5. FocusKnown => FocusKnown'
  BY <1>1, <1>3, FocusIs DEF FocusKnown
<1>6. KeysKnown => KeysKnown'
  <2>1. Left(g) \subseteq Left(filter) \cup Buttons
    BY <1>3, Kinds
  <2>2. g.pressed \cap Chars \subseteq filter.pressed \cup Buttons
    BY <1>2, <1>3, <2>1, CharsPlain, HeldWas
  <2> QED BY <1>1, <2>1, <2>2, KeysStay, Kinds
<1>7. EmulatedButtonIsHeld'
  BY <1>1, <1>3 DEF EmulatedButtonIsHeld, Drained, Left
<1>8. OneButton /\ EmulatedButtonIsHeld /\ ButtonsKnown => ButtonsKnown'
  <2>1. SUFFICES ASSUME OneButton, EmulatedButtonIsHeld, ButtonsKnown PROVE ButtonsKnown'
    OBVIOUS
  <2>2. user.buttons \subseteq {"button1"} \/ \A e \in Emulated : Scenario(e) = "none"
    BY <1>2, <2>1 DEF OneButton, Scenario
  <2>3. filter.emulationButton = "button1"
    <3>1. SUFFICES ASSUME filter.emulationButton # "button1" PROVE FALSE
      OBVIOUS
    <3>2. Scenario(filter.emulationButton) # "none" /\ "button1" \in buttons
      BY <2>1, <3>1 DEF ButtonsKnown, EmulatedButtonIsHeld
    <3>3. filter.emulationButton \in Emulated
      BY <1>2, <3>1 DEF Buttons, Emulated
    <3> QED BY <1>1, <2>2, <3>2, <3>3
  <2>4. Left(filter) \cap Buttons \subseteq buttons
    BY <2>1, <2>3 DEF ButtonsKnown
  <2>5. CASE g.emulationButton = "button1" /\ Left(g) \subseteq Left(filter) \cup {b}
    BY <1>1, <2>4, <2>5 DEF ButtonsKnown, Left
  <2>6. CASE /\ b = "button1"
             /\ g.emulationButton \in Emulated
             /\ Scenario(g.emulationButton) # "none"
             /\ Left(g) \subseteq Left(filter) \cup {g.emulationButton}
             /\ viewOnly \/ g.emulationButton \in Left(g)
    <3>1. buttons = {}
      <4>1. buttons \subseteq user.buttons
        BY DEF IInv, TypeOK
      <4> QED BY <1>1, <2>2, <2>6, <4>1
    <3>2. Left(g) \cap Buttons \subseteq {g.emulationButton} /\ g.emulationButton # "button1"
      BY <2>4, <2>6, <3>1, Kinds
    <3> QED BY <1>1, <2>6, <3>2 DEF ButtonsKnown, Left, Scenario
  <2> QED BY <1>3, <2>5, <2>6
<1> QED BY <1>4, <1>5, <1>6, <1>7, <1>8 DEF Preserved

LEMMA MouseUpPreserves ==
    ASSUME IInv, NEW b \in Buttons, MouseUp(b)
    PROVE  Preserved
<1> DEFINE g == QueueMouseUp(filter, b)
           x == IF filter.emulationButton = "button1" THEN b ELSE filter.emulationButton
<1>1. /\ b \in buttons /\ buttons' = buttons \ {b}
      /\ filter' = g
      /\ UNCHANGED <<user, viewOnly, keys, flags, focus, lastCharacters>>
  BY DEF MouseUp
<1>2. /\ user \in Users /\ Sound(filter, Chars) /\ Known(filter, filter.queued)
      /\ filter.emulationButton \in Buttons
  BY Before DEF FilterType
<1>3. /\ Sound(g, {}) /\ Known(g, g.queued)
      /\ g.queued = filter.queued /\ g.stillDown = filter.stillDown
      /\ g.emulationButton = "button1"
      /\ Left(g) \subseteq Left(filter) \ {x}
      /\ filter.pending = <<>> => g.pending = <<>> /\ Calmer(filter, g)
  BY <1>2, MouseUpGoes
<1> HIDE DEF g, x
<1>4. IInv'
  <2>1. Sound(g, Chars)
    BY <1>3, SoundMore
  <2>2. buttons' \subseteq user.buttons
    BY <1>1 DEF IInv, TypeOK
  <2> QED BY <1>1, <1>3, <2>1, <2>2, IInvStays DEF IInv, TypeOK
<1>5. FocusKnown => FocusKnown'
  <2>1. CASE focus
    BY <1>1, <1>3, <2>1, FocusIs DEF FocusKnown
  <2>2. CASE ~focus /\ FocusKnown
    <3>1. /\ filter.pending = <<>> /\ Left(filter) = {} /\ filter.queued = {}
          /\ filter.stillDown = {}
          /\ ~filter.multiTapTimer /\ filter.tapAndClickTimer = NoButton
      BY <2>2, Before
    <3>2. g.pending = <<>> /\ ~g.multiTapTimer /\ g.tapAndClickTimer = NoButton
      BY <1>3, <3>1 DEF Calmer
    <3>3. g.pressed = {}
      <4>1. g.pressed \in SUBSET Items
        BY <1>3 DEF Sound, FilterType
      <4> QED BY <1>3, <3>1, <3>2, <4>1, NetEmpty DEF Left
    <3>4. Knows(filter'.queued, IF focus' THEN flags' ELSE {})
      BY <1>1, <1>3, <2>2, <3>1 DEF Knows
    <3> QED BY <1>1, <1>3, <3>1, <3>2, <3>3, <3>4, FocusIs DEF ResignedHoldsNothing
  <2> QED BY <2>1, <2>2
<1>6. KeysKnown => KeysKnown'
  <2>1. g.pressed \cap Chars \subseteq filter.pressed \cup {}
    BY <1>2, <1>3, CharsPlain, HeldWas
  <2> QED BY <1>1, <1>3, <2>1, KeysStay
<1>7. EmulatedButtonIsHeld'
  BY <1>1, <1>3 DEF EmulatedButtonIsHeld
<1>8. ButtonsKnown => ButtonsKnown'
  <2>1. SUFFICES ASSUME ButtonsKnown PROVE ButtonsKnown'
    OBVIOUS
  <2>2. Left(g) \cap Buttons \subseteq buttons'
    <3>1. CASE filter.emulationButton = "button1"
      BY <1>1, <1>3, <2>1, <3>1 DEF ButtonsKnown, x
    <3>2. CASE filter.emulationButton # "button1"
      BY <1>3, <2>1, <3>2 DEF ButtonsKnown, x
    <3> QED BY <3>1, <3>2
  <2> QED BY <1>1, <1>3, <2>2 DEF ButtonsKnown, Left
<1> QED BY <1>4, <1>5, <1>6, <1>7, <1>8 DEF Preserved

\* What waits is sent on, while the user does nothing.
LEMMA SendingPreserves ==
    ASSUME IInv, UNCHANGED <<user, viewOnly, buttons, keys, flags, focus, lastCharacters>>,
           NEW s \in FilterType, filter' = SendAll(s),
           s.pending = filter.pending, s.pressed = filter.pressed,
           s.queued = filter.queued, s.stillDown = filter.stillDown,
           s.emulationButton = filter.emulationButton,
           FocusKnown /\ ~focus =>
               /\ s.multiTapTimer = filter.multiTapTimer
               /\ s.tapAndClickTimer = filter.tapAndClickTimer
    PROVE  Preserved
<1> DEFINE g == SendAll(s)
<1>1. user \in Users /\ Sound(filter, Plain) /\ Known(filter, filter.queued)
  BY Before
<1>2. Sound(s, Plain) /\ Left(s) = Left(filter)
  BY <1>1 DEF Sound, Left
<1>3. Known(s, s.queued)
  BY <1>1, <1>2 DEF Known
<1>4. /\ Goes(s, g, {}, {}) /\ Sound(g, {}) /\ Left(g) = g.pressed
      /\ g.queued = s.queued /\ g.stillDown = s.stillDown
      /\ g.pending = <<>> /\ Left(g) \subseteq Left(s)
  BY <1>1, <1>2, <1>3, SendAllGoes
<1>5. g.multiTapTimer = s.multiTapTimer /\ g.tapAndClickTimer = s.tapAndClickTimer
  <2>1. g = [s EXCEPT !.pending = <<>>,
                      !.pressed = IF viewOnly THEN s.pressed ELSE Left(s)]
    BY SendAllIs
  <2> HIDE DEF g
  <2> QED BY <2>1 DEF FilterType
<1> HIDE DEF g
<1>6. filter' = g
  BY DEF g
<1>7. Goes(filter, g, {}, {})
  BY <1>2, <1>4 DEF Goes
<1>8. IInv'
  BY <1>6, <1>7, IInvStays DEF Goes, IInv, TypeOK
<1>9. FocusKnown => FocusKnown'
  <2>1. CASE focus
    BY <1>4, <1>6, <2>1, FocusIs DEF FocusKnown
  <2>2. CASE ~focus /\ FocusKnown
    <3>1. /\ Left(filter) = {} /\ filter.queued = {} /\ filter.stillDown = {}
          /\ ~filter.multiTapTimer /\ filter.tapAndClickTimer = NoButton
      BY <2>2, Before
    <3>2. Knows(filter'.queued, IF focus' THEN flags' ELSE {})
      BY <1>4, <1>6, <3>1 DEF Knows
    <3>3. ResignedHoldsNothing'
      BY <1>2, <1>4, <1>5, <1>6, <2>2, <3>1 DEF ResignedHoldsNothing
    <3> QED BY <3>2, <3>3, FocusIs
  <2> QED BY <2>1, <2>2
<1>10. KeysKnown => KeysKnown'
  BY <1>2, <1>4, <1>6, <1>7, KeysStay DEF Goes
<1>11. /\ EmulatedButtonIsHeld => EmulatedButtonIsHeld'
       /\ ButtonsKnown => ButtonsKnown'
  BY <1>6, <1>7, ButtonsStay
<1> QED BY <1>8, <1>9, <1>10, <1>11 DEF Preserved

LEMMA ScrollWheelPreserves ==
    ASSUME IInv, ScrollWheel
    PROVE  Preserved
<1>1. filter \in FilterType
  BY Before
<1> QED BY <1>1, SendingPreserves DEF ScrollWheel

LEMMA TimeoutPreserves ==
    ASSUME IInv, Timeout
    PROVE  Preserved
<1>1. filter \in FilterType
  BY Before
<1>2. FocusKnown /\ ~focus => ~filter.multiTapTimer /\ filter.tapAndClickTimer = NoButton
  BY Before
<1>3. CASE MultiTapTimeout
  <2> DEFINE s == [filter EXCEPT !.multiTapTimer = FALSE]
  <2>1. /\ s \in FilterType
        /\ s.pending = filter.pending /\ s.pressed = filter.pressed
        /\ s.queued = filter.queued /\ s.stillDown = filter.stillDown
        /\ s.emulationButton = filter.emulationButton
    BY <1>1 DEF FilterType
  <2>2. /\ filter.multiTapTimer /\ filter' = SendAll(s)
        /\ UNCHANGED <<user, viewOnly, buttons, keys, flags, focus, lastCharacters>>
    BY <1>3 DEF MultiTapTimeout
  <2> HIDE DEF s
  <2> QED BY <1>2, <2>1, <2>2, SendingPreserves
<1>4. CASE TapAndClickTimeout
  <2> DEFINE s == [filter EXCEPT !.tapAndClickTimer = NoButton]
  <2>1. /\ s \in FilterType
        /\ s.pending = filter.pending /\ s.pressed = filter.pressed
        /\ s.queued = filter.queued /\ s.stillDown = filter.stillDown
        /\ s.emulationButton = filter.emulationButton
    BY <1>1 DEF FilterType
  <2>2. /\ filter.tapAndClickTimer # NoButton /\ filter' = SendAll(s)
        /\ UNCHANGED <<user, viewOnly, buttons, keys, flags, focus, lastCharacters>>
    BY <1>4 DEF TapAndClickTimeout
  <2> HIDE DEF s
  <2> QED BY <1>2, <2>1, <2>2, SendingPreserves
<1> QED BY <1>3, <1>4 DEF Timeout

LEMMA KeyDownPreserves ==
    ASSUME IInv, NEW k \in Keys, KeyDown(k)
    PROVE  Preserved
<1> DEFINE u == UpdateCapsLock(filter)
<1>1. /\ focus /\ keys' = keys \cup {k}
      /\ UNCHANGED <<user, viewOnly, buttons, flags, focus>>
  BY DEF KeyDown
<1>2. /\ user \in Users /\ flags \in SUBSET Flags /\ Sound(filter, Plain)
      /\ Sound(filter, Chars) /\ Known(filter, filter.queued)
      /\ keys' \subseteq Keys /\ flags' \subseteq user.flags
  BY <1>1, Before DEF IInv, TypeOK
<1>3. CASE FoundByApp(k)
  <2>1. filter' = ClearAllEmulationStates(filter) /\ lastCharacters' = Unmodified(k)
    BY <1>3 DEF KeyDown
  <2>2. Unmodified(k) \in Chars
    BY KeyboardAssumption DEF Unmodified, Levels
  <2>3. /\ Blank(filter') /\ filter'.emulationButton = "button1"
        /\ filter'.pending = <<>> /\ filter'.pressed = {}
        /\ ~filter'.multiTapTimer /\ filter'.tapAndClickTimer = NoButton
    BY <1>2, <2>1, ClearingBlanks
  <2> QED BY <1>1, <1>2, <2>1, <2>2, <2>3, BlankStep DEF IInv, TypeOK
<1>4. Goes(filter, u, {}, flags) /\ u.queued \in {flags, filter.queued}
  BY <1>2, CapsLockGoes
<1> HIDE DEF u
<1>5. Sound(u, Chars) /\ Known(u, u.queued) /\ (FocusKnown => Knows(u.queued, flags))
  BY <1>1, <1>4 DEF Goes, FocusKnown, Knows
<1>6. CASE ~FoundByApp(k) /\ <<k, flags>> \in user.viewEquivalents
  <2> DEFINE g == Discard(u)
  <2>1. filter' = g /\ lastCharacters' = NoCharacter
    BY <1>6 DEF KeyDown, u
  <2>2. /\ u \in FilterType /\ u.pressed \in SUBSET Items
        /\ u.pressed \cap Flags \subseteq Left(u)
        /\ Left(u) \cap (Plain \cup Firm) \subseteq u.pressed
        /\ u.queued \in SUBSET Flags
    <3>1. Sound(u, Plain) /\ u \in FilterType
      BY <1>5, SoundFields, CharsPlain
    <3> QED BY <3>1, WaitingLeaves DEF Sound, FilterType
  <2>3. /\ g \in FilterType /\ g.pending = <<>> /\ g.pressed = u.pressed
        /\ g.queued = u.queued /\ g.stillDown = u.stillDown
        /\ g.emulationButton = u.emulationButton
    <3>1. <<>> \in Seq(Event)
      OBVIOUS
    <3> QED BY <2>2, <3>1 DEF Discard, FilterType
  <2> HIDE DEF g
  <2>4. Left(g) = u.pressed
    BY <2>2, <2>3, NetEmpty DEF Left
  <2>5. Sound(g, {})
    BY <1>2, <1>5, <2>3, NothingWaits DEF Sound
  <2>6. Known(g, g.queued)
    <3>1. \A b \in u.stillDown : Modifier(b) \in Flags
      BY <1>2, <2>2, Settings DEF FilterType
    <3>2. Left(u) \cap (Flags \ Gestures) \subseteq u.pressed
      BY <2>2 DEF Firm
    <3> QED BY <1>5, <2>2, <2>3, <2>4, <3>1, <3>2 DEF Known
  <2>7. u.pressed \cap Buttons \subseteq Left(u)
    <3>1. (u.pressed \cap Plain) \ Chars \subseteq Left(u)
      BY <1>5, WaitingHolds
    <3> QED BY <3>1, Kinds DEF Plain
  <2>8. Goes(u, g, Chars, flags)
    <3>1. Left(g) \ Flags \subseteq Left(u) \cup Chars
      BY <2>2, <2>4, <2>7, Kinds
    <3>2. Left(u) \cap Buttons \subseteq Left(g)
      BY <2>2, <2>4 DEF Plain
    <3>3. Sound(g, Chars)
      BY <2>5, SoundMore
    <3> QED BY <2>3, <2>6, <3>1, <3>2, <3>3 DEF Goes
  <2>9. Goes(filter, g, {} \cup Chars, flags)
    BY <1>4, <2>8, GoesOn
  <2>10. Goes(filter, filter', Chars, flags')
    BY <1>1, <2>1, <2>9
  <2>11. FocusKnown => Knows(filter'.queued, flags')
    BY <1>1, <1>5, <2>1, <2>3
  <2>12. HarmlessEquivalents /\ KeysKnown => KeysKnown'
    <3>1. SUFFICES ASSUME HarmlessEquivalents, KeysKnown PROVE KeysKnown'
      OBVIOUS
    <3>2. PICK G \in SUBSET user.flags :
              /\ flags \subseteq G /\ filter.pressed \cap Chars \subseteq Typed(keys, G)
              /\ G = flags \/ Unheard(G)
      BY <3>1 DEF KeysKnown
    <3>3. \A m \in G \ flags : \/ m \in {"numpad", "help"}
                               \/ m = "control" /\ "command" \in flags
      <4> DEFINE used == {user.profile.emulation[b].modifier :
                     b \in {c \in Emulated : user.profile.emulation[c].scenario # "none"}}
                 unheard == user.flags \cap (IF flags = {} THEN Flags ELSE used)
      <4>1. unheard \ flags \subseteq {"numpad", "help"} \cup
                                      {m \in {"control"} : "command" \in flags}
        <5>1. <<k, flags>>[2] = flags
          OBVIOUS
        <5> QED BY <1>2, <1>6, <3>1, <5>1 DEF HarmlessEquivalents
      <4>2. used = Gestures
        BY DEF Gestures, Scenario, Modifier
      <4>3. G \ flags \subseteq unheard
        BY <1>2, <3>2, <4>2, Before DEF Unheard
      <4> HIDE DEF unheard
      <4> QED BY <4>1, <4>3
    <3>5. \A j \in Keys : KeyCharacter(j, G) = KeyCharacter(j, flags)
      <4>1. /\ \A x \in {"shift", "caps", "alternate", "command"} : x \in G <=> x \in flags
            /\ "command" \in flags \/ ("control" \in G <=> "control" \in flags)
        BY <3>2, <3>3
      <4>2. /\ G \cap {"shift", "caps"} = flags \cap {"shift", "caps"}
            /\ G \cap {"control", "command"} = {} <=> flags \cap {"control", "command"} = {}
            /\ "alternate" \in G <=> "alternate" \in flags
        BY <4>1
      <4>3. \A j \in Keys : Translated(j, G) = Translated(j, flags)
        BY <4>2 DEF Translated
      <4>4. \A j \in Keys : Level(j, G) = Level(j, flags)
        BY <4>2, <4>3 DEF Level
      <4> QED BY <4>4 DEF KeyCharacter
    <3>6. keys \subseteq Keys
      BY DEF IInv, TypeOK
    <3>7. Typed(keys, G) \subseteq Typed(keys', flags)
      BY <1>1, <3>5, <3>6 DEF Typed
    <3>8. filter'.pressed \cap Chars \subseteq Typed(keys', flags')
      BY <1>1, <1>4, <2>1, <2>3, <3>2, <3>7 DEF Goes
    <3> QED BY <1>1, <1>2, <2>1, <3>8, KeysAre
  <2> QED BY <1>1, <1>2, <2>1, <2>10, <2>11, <2>12, KeyStep
<1>7. CASE ~FoundByApp(k) /\ <<k, flags>> \notin user.viewEquivalents
  <2> DEFINE c == KeyCharacter(k, flags)
             g == QueueKeyDown(u, k, flags)
  <2>1. filter' = g /\ lastCharacters' = NoCharacter
    BY <1>7 DEF KeyDown, u
  <2>2. c \in Chars
    BY TypedAreChars
  <2>3. Goes(u, g, {c}, flags) /\ Sound(g, {}) /\ g.queued \in {flags, u.queued}
    BY <1>2, <1>5, KeyDownGoes
  <2> HIDE DEF c, g
  <2>4. Goes(filter, g, {} \cup {c}, flags)
    BY <1>4, <2>3, GoesOn
  <2>5. Goes(filter, filter', {c}, flags')
    BY <1>1, <2>1, <2>4
  <2>6. FocusKnown => Knows(filter'.queued, flags')
    BY <1>1, <1>5, <2>1, <2>3 DEF Knows
  <2>7. KeysKnown => KeysKnown'
    <3>1. SUFFICES ASSUME KeysKnown PROVE KeysKnown'
      OBVIOUS
    <3>2. Left(filter) \cap Chars \subseteq Typed(keys, flags)
      <4>1. Left(filter) \cap Plain \subseteq filter.pressed
        BY <1>2, SoundFields, CharsPlain
      <4> QED BY <3>1, <4>1 DEF KeysKnown, Plain
    <3>3. Typed(keys', flags) = Typed(keys, flags) \cup {c}
      BY <1>1 DEF Typed, c
    <3>4. (filter'.pressed \cap Plain) \ {} \subseteq Left(filter')
      BY <2>1, <2>3, WaitingHolds
    <3>5. filter'.pressed \cap Chars \subseteq Typed(keys', flags')
      BY <1>1, <2>5, <3>2, <3>3, <3>4, Kinds DEF Goes, Plain
    <3> QED BY <1>1, <1>2, <2>1, <3>5, KeysAre
  <2> QED BY <1>1, <1>2, <2>1, <2>2, <2>5, <2>6, <2>7, KeyStep
<1> QED BY <1>3, <1>6, <1>7

LEMMA KeyUpPreserves ==
    ASSUME IInv, NEW k \in Keys, KeyUp(k)
    PROVE  Preserved
<1> DEFINE u == UpdateCapsLock(filter)
           c == KeyCharacter(k, flags)
           g == Queue(u, Up(c))
<1>1. /\ focus /\ k \in keys /\ keys' = keys \ {k}
      /\ UNCHANGED <<user, viewOnly, buttons, flags, focus>>
  BY DEF KeyUp
<1>2. /\ user \in Users /\ flags \in SUBSET Flags
      /\ Sound(filter, Chars) /\ Known(filter, filter.queued)
      /\ keys' \subseteq Keys /\ flags' \subseteq user.flags
  BY <1>1, Before DEF IInv, TypeOK
<1>3. CASE lastCharacters = Unmodified(k)
  <2>1. filter' = filter /\ lastCharacters' = NoCharacter
    BY <1>3 DEF KeyUp
  <2>2. Unmodified(k) # NoCharacter
    BY KeyboardAssumption DEF Unmodified, Levels
  <2>3. Goes(filter, filter', {}, flags')
    BY <1>2, <2>1 DEF Goes
  <2>4. KeysKnown => filter.pressed \cap Chars = {}
    BY <1>3, <2>2 DEF KeysKnown
  <2>5. KeysKnown => KeysKnown'
    BY <1>1, <1>2, <2>1, <2>4, KeysAre
  <2>6. FocusKnown => Knows(filter'.queued, flags')
    BY <1>1, <2>1 DEF FocusKnown
  <2> QED BY <1>1, <1>2, <2>1, <2>3, <2>5, <2>6, KeyStep
<1>4. CASE lastCharacters # Unmodified(k)
  <2>1. filter' = g /\ lastCharacters' = lastCharacters
    BY <1>4 DEF KeyUp, QueueKeyUp
  <2>2. c \in Chars
    BY TypedAreChars
  <2>3. Goes(filter, u, {}, flags) /\ u.queued \in {flags, filter.queued}
    BY <1>2, CapsLockGoes
  <2> HIDE DEF u, c
  <2>4. Sound(u, Chars) /\ Known(u, u.queued) /\ (FocusKnown => Knows(u.queued, flags))
    BY <1>1, <2>3 DEF Goes, FocusKnown, Knows
  <2>5. Goes(u, g, {}, flags) /\ Sound(g, {}) /\ g.queued = u.queued /\ c \notin Left(g)
    BY <1>2, <2>2, <2>4, CharacterGoes
  <2> HIDE DEF g
  <2>6. Goes(filter, g, {} \cup {}, flags)
    BY <2>3, <2>5, GoesOn
  <2>7. Goes(filter, filter', {}, flags')
    BY <1>1, <2>1, <2>6
  <2>8. FocusKnown => Knows(filter'.queued, flags')
    BY <1>1, <2>1, <2>4, <2>5
  <2>9. KeysKnown => KeysKnown'
    <3>1. SUFFICES ASSUME KeysKnown PROVE KeysKnown'
      OBVIOUS
    <3>2. Left(filter) \cap Chars \subseteq Typed(keys, flags)
      <4>1. Left(filter) \cap Plain \subseteq filter.pressed
        BY <1>2, SoundFields, CharsPlain
      <4> QED BY <3>1, <4>1 DEF KeysKnown, Plain
    <3>3. Typed(keys, flags) \ {c} \subseteq Typed(keys', flags)
      BY <1>1 DEF Typed, c
    <3>4. (filter'.pressed \cap Plain) \ {} \subseteq Left(filter')
      BY <2>1, <2>5, WaitingHolds
    <3>5. filter'.pressed \cap Chars \subseteq Typed(keys', flags')
      BY <1>1, <2>1, <2>5, <2>7, <3>2, <3>3, <3>4, Kinds DEF Goes, Plain
    <3>6. lastCharacters' = NoCharacter \/ filter'.pressed \cap Chars = {}
      BY <2>1, <2>7, <3>1 DEF Goes, KeysKnown
    <3> QED BY <1>1, <1>2, <3>5, <3>6, KeysAre
  <2> QED BY <1>1, <1>2, <2>1, <2>7, <2>8, <2>9, KeyStep DEF IInv, TypeOK
<1> QED BY <1>3, <1>4

LEMMA ChangeFlagsPreserves ==
    ASSUME IInv, NEW new \in SUBSET user.flags, ChangeFlags(new)
    PROVE  Preserved
<1>1. /\ focus /\ flags' = new
      /\ UNCHANGED <<user, viewOnly, buttons, keys, focus, lastCharacters>>
  BY DEF ChangeFlags
<1>2. PICK late \in BOOLEAN : filter' = FlagsChanged(filter, new, late)
  BY DEF ChangeFlags
<1>3. /\ user \in Users /\ new \in SUBSET Flags
      /\ Sound(filter, Chars) /\ Known(filter, filter.queued)
  BY Before
<1>4. /\ Goes(filter, filter', {}, new) /\ filter'.queued = new
      /\ Left(filter') \cap Chars = {}
      /\ Sound(filter', {}) \/ new = filter.queued
  <2> DEFINE g == FlagsChanged(filter, new, late)
  <2>1. new \subseteq new
    OBVIOUS
  <2>2. /\ Goes(filter, g, {}, new) /\ g.queued = new
        /\ Left(g) \cap Chars = {}
        /\ Sound(g, {}) \/ new = filter.queued
    BY <1>3, <2>1, FlagsChangedGoes
  <2>3. filter' = g
    BY <1>2
  <2> HIDE DEF g
  <2> QED BY <2>2, <2>3
<1>5. FocusKnown /\ KeysKnown => KeysKnown'
  <2>1. SUFFICES ASSUME FocusKnown, KeysKnown PROVE KeysKnown'
    OBVIOUS
  <2>2. lastCharacters' = NoCharacter \/ filter'.pressed \cap Chars = {}
    BY <1>1, <1>4, <2>1 DEF Goes, KeysKnown
  <2>3. CASE Sound(filter', {})
    <3>1. (filter'.pressed \cap Plain) \ {} \subseteq Left(filter')
      BY <2>3, WaitingHolds
    <3>2. filter'.pressed \cap Chars = {}
      BY <1>4, <3>1 DEF Plain
    <3> QED BY <1>1, <2>2, <3>2, KeysAre
  <2>4. CASE new = filter.queued
    <3>1. PICK G \in SUBSET user.flags :
              /\ flags \subseteq G /\ filter.pressed \cap Chars \subseteq Typed(keys, G)
              /\ G = flags \/ Unheard(G)
      BY <2>1 DEF KeysKnown
    <3>2. flags' \subseteq flags /\ (flags' = {} \/ flags \subseteq flags' \cup Gestures)
      BY <1>1, <2>1, <2>4 DEF FocusKnown, Knows
    <3>3. flags' \subseteq G /\ (flags' = {} \/ G \subseteq flags' \cup Gestures)
      BY <3>1, <3>2 DEF Unheard
    <3>4. filter'.pressed \cap Chars \subseteq Typed(keys', G)
      BY <1>1, <1>4, <3>1 DEF Goes
    <3> QED BY <1>1, <1>4, <2>2, <3>3, <3>4, KeysAre
  <2> QED BY <1>4, <2>3, <2>4
<1>6. Knows(filter'.queued, flags')
  BY <1>1, <1>4 DEF Knows
<1> QED BY <1>1, <1>4, <1>5, <1>6, KeyStep DEF IInv, TypeOK

LEMMA PastePreserves ==
    ASSUME IInv, NEW text \in Texts, Paste(text)
    PROVE  Preserved
<1> DEFINE u == UpdateCapsLock(filter)
<1>1. /\ focus \/ Drops
      /\ filter' = PasteString(u, text)
      /\ UNCHANGED <<user, viewOnly, buttons, keys, flags, focus, lastCharacters>>
  BY DEF Paste
<1>2. /\ user \in Users /\ flags \in SUBSET Flags
      /\ Sound(filter, Chars) /\ Known(filter, filter.queued)
  BY Before
<1>3. Goes(filter, u, {}, flags) /\ u.queued \in {flags, filter.queued}
  BY <1>2, CapsLockGoes
<1> HIDE DEF u
<1>4. Sound(u, Chars) /\ Known(u, u.queued)
  BY <1>3 DEF Goes
<1>5. /\ Sound(filter', {}) /\ Known(filter', filter'.queued)
      /\ Knows(filter'.queued, u.queued)
      /\ filter'.emulationButton = "button1"
      /\ Left(filter') \subseteq Flags /\ filter'.pressed \subseteq Flags
  BY <1>1, <1>2, <1>4, PasteGoes
<1>6. IInv'
  <2>1. Sound(filter', Chars)
    BY <1>5, SoundMore
  <2> QED BY <1>1, <1>5, <2>1, IInvStays DEF IInv, TypeOK
<1>7. Undropped /\ FocusKnown => FocusKnown'
  <2>1. SUFFICES ASSUME Undropped, FocusKnown PROVE FocusKnown'
    OBVIOUS
  <2>2. focus /\ Knows(u.queued, flags)
    BY <1>1, <1>3, <2>1 DEF Undropped, FocusKnown, Knows
  <2>3. Knows(filter'.queued, flags)
    BY <1>5, <2>2 DEF Knows
  <2> QED BY <1>1, <2>2, <2>3, FocusIs
<1>8. KeysKnown'
  <2>1. filter'.pressed \cap Chars = {} /\ flags' \subseteq user.flags
    BY <1>1, <1>5, Kinds DEF IInv, TypeOK
  <2> QED BY <1>1, <2>1, KeysAre
<1>9. ButtonsKnown' /\ EmulatedButtonIsHeld'
  BY <1>5, Kinds DEF ButtonsKnown, EmulatedButtonIsHeld, Left
<1> QED BY <1>6, <1>7, <1>8, <1>9 DEF Preserved

LEMMA BecomeActivePreserves ==
    ASSUME IInv, BecomeActive
    PROVE  Preserved
<1>1. /\ filter \in FilterType /\ Sound(filter, Chars) /\ Known(filter, filter.queued)
  BY Before
<1>2. /\ filter' = [filter EXCEPT !.watchCaps = TRUE]
      /\ UNCHANGED <<user, viewOnly, buttons, keys, flags, focus, lastCharacters>>
  BY DEF BecomeActive
<1>3. /\ filter' \in FilterType /\ filter'.pending = filter.pending
      /\ filter'.pressed = filter.pressed /\ filter'.queued = filter.queued
      /\ filter'.stillDown = filter.stillDown
      /\ filter'.emulationButton = filter.emulationButton
      /\ filter'.multiTapTimer = filter.multiTapTimer
      /\ filter'.tapAndClickTimer = filter.tapAndClickTimer
  BY <1>1, <1>2 DEF FilterType
<1>4. Left(filter') = Left(filter) /\ Sound(filter', Chars)
  BY <1>1, <1>3 DEF Left, Sound
<1>5. Known(filter', filter'.queued)
  BY <1>1, <1>3, <1>4 DEF Known
<1>6. IInv'
  BY <1>2, <1>4, <1>5, IInvStays DEF IInv, TypeOK
<1>7. FocusKnown => FocusKnown'
  BY <1>2, <1>3, FocusIs DEF FocusKnown, ResignedHoldsNothing
<1>8. KeysKnown => KeysKnown'
  BY <1>2, <1>3, <1>4, KeysStay
<1>9. /\ EmulatedButtonIsHeld => EmulatedButtonIsHeld'
      /\ ButtonsKnown => ButtonsKnown'
  BY <1>2, <1>3, <1>4 DEF ButtonsKnown, EmulatedButtonIsHeld, Drained, Left, Scenario
<1> QED BY <1>6, <1>7, <1>8, <1>9 DEF Preserved

LEMMA BecomeKeyPreserves ==
    ASSUME IInv, BecomeKey
    PROVE  Preserved
<1>1. /\ ~focus /\ focus' = TRUE
      /\ UNCHANGED <<user, viewOnly, filter, buttons, keys, flags, lastCharacters>>
  BY DEF BecomeKey
<1>2. Sound(filter', Chars) /\ Known(filter', filter'.queued)
  BY <1>1, Before
<1>3. IInv'
  BY <1>1, <1>2, IInvStays DEF IInv, TypeOK
<1>4. FocusKnown => FocusKnown'
  BY <1>1, FocusIs DEF FocusKnown, Knows
<1>5. KeysKnown => KeysKnown'
  BY <1>1, KeysStay
<1>6. /\ EmulatedButtonIsHeld => EmulatedButtonIsHeld'
      /\ ButtonsKnown => ButtonsKnown'
  BY <1>1 DEF ButtonsKnown, EmulatedButtonIsHeld, Drained, Left, Scenario
<1> QED BY <1>3, <1>4, <1>5, <1>6 DEF Preserved

LEMMA ResignKeyPreserves ==
    ASSUME IInv, ResignKey \/ FullscreenWarning
    PROVE  Preserved
<1>1. /\ focus' = FALSE
      /\ UNCHANGED <<user, viewOnly, buttons, keys, flags, lastCharacters>>
  BY DEF ResignKey, FullscreenWarning
<1>2. user \in Users /\ Sound(filter, Plain) /\ Known(filter, filter.queued)
  BY Before
<1>3. PICK f : /\ Sound(f, Plain) /\ Known(f, f.queued)
               /\ filter' = ClearAllEmulationStates(f)
  <2>1. CASE ResignKey
    BY <1>2, <2>1 DEF ResignKey
  <2>2. CASE FullscreenWarning
    <3> DEFINE s == SynthesizeRemaining(filter)
    <3>1. filter' = ClearAllEmulationStates(s)
      BY <2>2 DEF FullscreenWarning
    <3>2. Sound(s, Plain) /\ Known(s, s.queued)
      BY <1>2, RemainingAreReleased
    <3> HIDE DEF s
    <3> QED BY <3>1, <3>2
  <2> QED BY <2>1, <2>2
<1>4. /\ Blank(filter') /\ filter'.emulationButton = "button1"
      /\ filter'.pending = <<>> /\ filter'.pressed = {}
      /\ ~filter'.multiTapTimer /\ filter'.tapAndClickTimer = NoButton
  BY <1>2, <1>3, ClearingBlanks
<1> QED BY <1>1, <1>4, BlankStep DEF IInv, TypeOK

LEMMA ElsewherePreserves ==
    ASSUME IInv, NEW newKeys \in SUBSET Keys, NEW newFlags \in SUBSET user.flags,
           Elsewhere(newKeys, newFlags)
    PROVE  Preserved
<1>1. /\ ~focus /\ keys' = newKeys /\ flags' = newFlags
      /\ UNCHANGED <<user, viewOnly, filter, buttons, focus, lastCharacters>>
  BY DEF Elsewhere
<1>2. Sound(filter', Chars) /\ Known(filter', filter'.queued)
  BY <1>1, Before
<1>3. IInv'
  BY <1>1, <1>2, IInvStays DEF IInv, TypeOK
<1>4. FocusKnown => FocusKnown'
  BY <1>1, FocusIs DEF FocusKnown, ResignedHoldsNothing
<1>5. FocusKnown => KeysKnown'
  <2>1. FocusKnown => filter'.pressed = {}
    BY <1>1 DEF FocusKnown, ResignedHoldsNothing
  <2> QED BY <1>1, <2>1, KeysAre
<1>6. /\ EmulatedButtonIsHeld => EmulatedButtonIsHeld'
      /\ ButtonsKnown => ButtonsKnown'
  BY <1>1 DEF ButtonsKnown, EmulatedButtonIsHeld, Drained, Left, Scenario
<1> QED BY <1>3, <1>4, <1>5, <1>6 DEF Preserved

LEMMA StutterPreserves ==
    ASSUME IInv, UNCHANGED vars
    PROVE  Preserved
<1>1. UNCHANGED <<user, viewOnly, filter, buttons, keys, flags, focus, lastCharacters>>
  BY DEF vars
<1>2. Sound(filter', Chars) /\ Known(filter', filter'.queued)
  BY <1>1, Before
<1>3. IInv'
  BY <1>1, <1>2, IInvStays DEF IInv, TypeOK
<1>4. FocusKnown => FocusKnown'
  BY <1>1, FocusIs DEF FocusKnown, ResignedHoldsNothing
<1>5. KeysKnown => KeysKnown'
  BY <1>1, KeysStay
<1>6. /\ EmulatedButtonIsHeld => EmulatedButtonIsHeld'
      /\ ButtonsKnown => ButtonsKnown'
  BY <1>1 DEF ButtonsKnown, EmulatedButtonIsHeld, Drained, Left, Scenario
<1> QED BY <1>3, <1>4, <1>5, <1>6 DEF Preserved

LEMMA NextPreserves ==
    ASSUME IInv, [Next]_vars
    PROVE  Preserved
<1>1. ASSUME NEW b \in Buttons, MouseDown(b) \/ MouseUp(b) PROVE Preserved
  BY <1>1, MouseDownPreserves, MouseUpPreserves
<1>2. ASSUME NEW k \in Keys, KeyDown(k) \/ KeyUp(k) PROVE Preserved
  BY <1>2, KeyDownPreserves, KeyUpPreserves
<1>3. ASSUME NEW new \in SUBSET user.flags, ChangeFlags(new) PROVE Preserved
  BY <1>3, ChangeFlagsPreserves
<1>4. ASSUME NEW text \in Texts, Paste(text) PROVE Preserved
  BY <1>4, PastePreserves
<1>5. ASSUME NEW newKeys \in SUBSET Keys, NEW newFlags \in SUBSET user.flags,
             Elsewhere(newKeys, newFlags)
      PROVE  Preserved
  BY <1>5, ElsewherePreserves
<1> QED BY <1>1, <1>2, <1>3, <1>4, <1>5, ScrollWheelPreserves, TimeoutPreserves,
        BecomeActivePreserves, BecomeKeyPreserves, ResignKeyPreserves, StutterPreserves
     DEF Next

LEMMA Starts ==
    ASSUME Init
    PROVE  IInv /\ FocusKnown /\ KeysKnown /\ ButtonsKnown /\ EmulatedButtonIsHeld
<1>1. /\ user \in Users /\ filter = EmptyFilter /\ buttons = {} /\ keys = {} /\ flags = {}
      /\ focus = FALSE /\ lastCharacters = NoCharacter /\ viewOnly \in BOOLEAN
  BY DEF Init
<1>2. /\ filter \in FilterType /\ filter.pending = <<>> /\ filter.pressed = {}
      /\ filter.queued = {} /\ filter.stillDown = {} /\ filter.emulationButton = "button1"
      /\ ~filter.multiTapTimer /\ filter.tapAndClickTimer = NoButton
  <2>1. <<>> \in Seq(Event)
    OBVIOUS
  <2> QED BY <1>1, <2>1, Kinds DEF EmptyFilter, FilterType
<1>3. Left(filter) = {}
  BY <1>2, NetEmpty DEF Left
<1>4. Sound(filter, Chars)
  BY <1>1, <1>2, NothingWaits DEF Sound
<1>5. IInv
  BY <1>1, <1>2, <1>3, <1>4 DEF IInv, TypeOK, Known
<1>6. FocusKnown
  BY <1>1, <1>2 DEF FocusKnown, Knows, ResignedHoldsNothing
<1>7. KeysKnown
  BY <1>1, <1>2 DEF KeysKnown
<1>8. ButtonsKnown /\ EmulatedButtonIsHeld
  BY <1>2, <1>3 DEF ButtonsKnown, EmulatedButtonIsHeld
<1> QED BY <1>5, <1>6, <1>7, <1>8

-----------------------------------------------------------------------------
(* What follows. *)

LEMMA IInvHolds == Spec => []IInv
<1>1. Init => IInv
  BY Starts
<1>2. IInv /\ [Next]_vars => IInv'
  BY NextPreserves DEF Preserved
<1> QED BY <1>1, <1>2, PTL DEF Spec

LEMMA EmulatedHolds == Spec => []EmulatedButtonIsHeld
<1>1. Init => EmulatedButtonIsHeld
  BY Starts
<1>2. IInv /\ EmulatedButtonIsHeld /\ [Next]_vars => EmulatedButtonIsHeld'
  BY NextPreserves DEF Preserved
<1> QED BY <1>1, <1>2, IInvHolds, PTL DEF Spec

LEMMA ButtonsHold ==
    ASSUME OneButton
    PROVE  Spec => []ButtonsKnown
<1>1. Init => ButtonsKnown
  BY Starts
<1>2. IInv /\ EmulatedButtonIsHeld /\ ButtonsKnown /\ [Next]_vars => ButtonsKnown'
  BY NextPreserves DEF Preserved
<1> QED BY <1>1, <1>2, IInvHolds, EmulatedHolds, PTL DEF Spec

LEMMA FocusHolds ==
    ASSUME Undropped
    PROVE  Spec => []FocusKnown
<1>1. Init => FocusKnown
  BY Starts
<1>2. IInv /\ FocusKnown /\ [Next]_vars => FocusKnown'
  BY NextPreserves DEF Preserved
<1> QED BY <1>1, <1>2, IInvHolds, PTL DEF Spec

LEMMA KeysHold ==
    ASSUME Undropped, HarmlessEquivalents
    PROVE  Spec => []KeysKnown
<1>1. Init => KeysKnown
  BY Starts
<1>2. IInv /\ FocusKnown /\ KeysKnown /\ [Next]_vars => KeysKnown'
  BY NextPreserves DEF Preserved
<1> QED BY <1>1, <1>2, IInvHolds, FocusHolds, PTL DEF Spec

LEMMA GesturesWait == IInv => OnlyGesturesWait /\ HoldingHidesModifier
<1> SUFFICES ASSUME IInv PROVE OnlyGesturesWait /\ HoldingHidesModifier
  OBVIOUS
<1> DEFINE q == filter.pending
<1>1. HoldingHidesModifier
  BY DEF IInv, Known, HoldingHidesModifier, Drained, Left
<1>2. q \in Seq(Event)
  BY Before DEF FilterType
<1>3. PICK n \in 0..Len(q), m \in Flags :
          TapsWait(q, filter.pressed, n, m) /\ UpsWait(q, filter.pressed, n, Chars)
  BY DEF IInv, Sound, Waits
<1>4. /\ n \in Nat /\ DOMAIN SubSeq(q, 1, n) = 1..n
      /\ \A i \in 1..n : SubSeq(q, 1, n)[i] = q[i]
  BY <1>2
<1>5. IsTaps(SubSeq(q, 1, n), m)
  BY <1>3, <1>4 DEF IsTaps, TapsWait
<1>6. n = 0 \/ \E b \in Emulated : Scenario(b) # "none" /\ Modifier(b) = m
  BY <1>3, <1>4 DEF TapsWait
<1>7. \/ n = 0
      \/ \E b \in Emulated :
            /\ user.profile.emulation[b].scenario # "none"
            /\ IsTaps(SubSeq(q, 1, n), Modifier(b))
  BY <1>5, <1>6 DEF Scenario
<1>8. \A i \in n + 1..Len(q) : \E c \in filter.pressed \cap Chars : q[i] = Up(c)
  BY <1>3 DEF UpsWait
<1>9. OnlyGesturesWait
  BY <1>3, <1>7, <1>8 DEF OnlyGesturesWait
<1> QED BY <1>1, <1>9

\* What the methods of the filter leave is always a filter: an event of the
\* queue is one of a button, a modifier or a character, whatever a gesture
\* dropped, replaced or kept of it, and the emulated button is a button.
THEOREM TypeCorrect == Spec => []TypeOK
<1>1. IInv => TypeOK
  BY DEF IInv
<1> QED BY <1>1, IInvHolds, PTL

\* For every user: nothing but the taps of a gesture and releases that follow
\* them waits (sendAnyValidEventsToServerNow), the server does not know of a
\* modifier that emulates a button while it is held, and holds the emulated
\* button as long as button 1 stands for it (_emulationButton).
THEOREM EmulationHolds == Spec => []EmulationIsTold
<1>1. EmulatedButtonIsHeld /\ OnlyGesturesWait /\ HoldingHidesModifier => EmulationIsTold
  BY DEF EmulationIsTold
<1> QED BY <1>1, GesturesWait, IInvHolds, EmulatedHolds, PTL

\* As long as no text is dropped on it, a window that is not key has nothing
\* pressed on the server, nothing queued and no timer running, whatever
\* gesture it was in the middle of when it resigned (clearAllEmulationStates).
THEOREM ResignedIsClean ==
    ASSUME Undropped
    PROVE  Spec => []ResignedHoldsNothing
<1>1. FocusKnown => ResignedHoldsNothing
  BY DEF FocusKnown
<1> QED BY <1>1, FocusHolds, PTL

\* For every user: the server holds no modifier that the user has released
\* (queueModifiers:).
THEOREM NoModifierStays ==
    ASSUME Undropped
    PROVE  Spec => []NoPhantomModifier
<1>1. IInv /\ FocusKnown => NoPhantomModifier
  BY DEF IInv, FocusKnown, Knows, Known, NoPhantomModifier, Drained, Left
<1> QED BY <1>1, IInvHolds, FocusHolds, PTL

\* Nothing stays pressed on the server that the user has released: modifiers,
\* characters or buttons.  The hypotheses are what the code needs: a mouse of
\* one button where buttons are emulated, no drops on a window that is not
\* key, and no equivalent that discards releases which wait.
THEOREM NothingStays ==
    ASSUME Undropped, OneButton, HarmlessEquivalents
    PROVE  Spec => []NoPhantoms
<1>1. IInv /\ KeysKnown => NoPhantomKey
  <2> SUFFICES ASSUME IInv, KeysKnown PROVE NoPhantomKey
    OBVIOUS
  <2>1. Left(filter) \cap Plain \subseteq filter.pressed
    BY Before, SoundFields, CharsPlain
  <2>2. Left(filter) \cap Chars \subseteq Typed(keys, flags)
    BY <2>1 DEF KeysKnown, Plain
  <2> QED BY <2>2 DEF NoPhantomKey, Drained, Left, Typed
<1>2. EmulatedButtonIsHeld /\ ButtonsKnown => NoPhantomButton
  <2> SUFFICES ASSUME EmulatedButtonIsHeld, ButtonsKnown, buttons = {}
               PROVE  Drained \cap Buttons = {}
    BY DEF NoPhantomButton
  <2>1. filter.emulationButton = "button1"
    BY DEF ButtonsKnown, EmulatedButtonIsHeld
  <2> QED BY <2>1 DEF ButtonsKnown, Drained, Left
<1>3. NoPhantomModifier /\ NoPhantomKey /\ NoPhantomButton => NoPhantoms
  BY DEF NoPhantoms
<1> QED BY <1>1, <1>2, <1>3, IInvHolds, KeysHold, EmulatedHolds, ButtonsHold,
        NoModifierStays, PTL
=============================================================================
