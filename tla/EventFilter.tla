----------------------------- MODULE EventFilter -----------------------------
(***************************************************************************)
(* The input path of one connection: every mouse, keyboard and modifier     *)
(* event of the connection's window goes through an EventFilter, which      *)
(* queues it, looks for the gestures that emulate mouse buttons 2 and 3     *)
(* (EventFilter.h:19-70) and tells the server of everything else.           *)
(*                                                                         *)
(* A handler of the code runs to completion on the main thread, so each one *)
(* is one action; the calls it makes are operators from a filter to a       *)
(* filter.  A timer, the user and the window system interleave freely       *)
(* between handlers.                                                        *)
(***************************************************************************)
EXTENDS Integers, FiniteSets, SequencesExt

CONSTANTS
    Keys,               \* the keys of the keyboard that are not modifiers
    Chars,              \* the characters they produce
    Character(_, _),    \* the character of a key at one of the Levels
    EscapeChar,         \* '\e'
    AsciiByOption,      \* keys that need Option for a character of ASCII
    Users,              \* mouse, keyboard and settings: see UserAssumption
    Texts,              \* what the user pastes: the characters of a string
    Drops,              \* whether text is also dropped on the view
    MaxPending          \* bound on the queue that flagsChanged: still extends

Buttons == {"button1", "button2", "button3"}
Emulated == {"button2", "button3"}
Flags == {"shift", "control", "alternate", "command", "caps", "numpad", "help"}
Items == Buttons \cup Flags \cup Chars
Levels == {"base", "upper", "ascii", "local"}
NoCharacter == "nil"
Scenarios == {"none", "clickWhileHolding", "multiTap", "tapAndClick"}

ProfileType ==
    [emulation: [Emulated -> [scenario: Scenarios, modifier: Flags,
                              count: Nat \ {0}]],
     local: BOOLEAN]    \* interpretModifiersLocally

ASSUME KeyboardAssumption ==
    /\ IsFiniteSet(Chars)
    /\ (Chars \cup {EscapeChar}) \cap (Buttons \cup Flags) = {}
    /\ NoCharacter \notin Chars
    /\ \A k \in Keys, l \in Levels : Character(k, l) \in Chars

ASSUME UserAssumption ==
    /\ \A u \in Users :
          /\ u.buttons \subseteq Buttons       \* what the user can press
          /\ u.flags \subseteq Flags
          /\ u.profile \in ProfileType
          /\ u.appEquivalents \subseteq Keys \X SUBSET Flags
                            \* <<key, flags>> MyApp.sendEvent finds in a menu
          /\ u.viewEquivalents \subseteq Keys \X SUBSET Flags
                            \* those only the filter's keyDown: finds
    /\ Texts \subseteq SUBSET Chars
    /\ Drops \in BOOLEAN
    /\ MaxPending \in Nat

VARIABLES
    user,       \* who uses the connection, which never changes
    viewOnly,   \* BOOL _viewOnly, set once from the server's settings
    filter,     \* the other instance variables of the EventFilter
    buttons,    \* what the user holds down: buttons of the mouse,
    keys,       \*   keys,
    flags,      \*   and the modifierFlags of the keyboard
    focus,      \* the connection's window is the key window
    lastCharacters  \* of MyApp: the key of the last menu equivalent

vars == <<user, viewOnly, filter, buttons, keys, flags, focus,
          lastCharacters>>

(***************************************************************************)
(* An event of the queue says that an item went down or up.  Timestamps are *)
(* kept as the one fact the code derives from them: whether the second      *)
(* event came too long after the first one (slowTap).                       *)
(***************************************************************************)
Dn(x) == <<"down", x>>
Up(x) == <<"up", x>>
Event == {"down", "up"} \X Items

NoButton == "none"

FilterType ==
    [pending: Seq(Event),                       \* _pendingEvents
     queued: SUBSET Flags,                      \* _queuedModifiers
     pressed: SUBSET Items,     \* _pressedButtons, _pressedKeys and
                                \* _pressedModifiers: what the server was told
     emulationButton: Buttons,                  \* _emulationButton
     stillDown: SUBSET Emulated,    \* _clickWhileHoldingModifierStillDown
     multiTapTimer: BOOLEAN,                    \* _multiTapTimer # nil
     tapAndClickTimer: Emulated \cup {NoButton},
                        \* _tapAndClickTimer, with the cursor set beside it
     slowTap: BOOLEAN,
     watchCaps: BOOLEAN]                        \* _watchEventForCapsLock

EmptyFilter ==
    [pending |-> <<>>, queued |-> {}, pressed |-> {},
     emulationButton |-> "button1", stillDown |-> {}, multiTapTimer |-> FALSE,
     tapAndClickTimer |-> NoButton, slowTap |-> FALSE, watchCaps |-> FALSE]

-----------------------------------------------------------------------------
(* Sending.  Net is where a run of sends leaves the server: an up is sent   *)
(* only of what is pressed, so an item ends up pressed if its last event is *)
(* a down, or if it was pressed and has no up.                              *)

Net(S, q) ==
    {x \in S : \A i \in DOMAIN q : q[i] # Up(x)} \cup
    {x \in Items : \E i \in DOMAIN q :
                      /\ q[i] = Dn(x)
                      /\ \A j \in DOMAIN q : j > i => q[j] # Up(x)}

\* sendPendingQueueEntriesInRange: from 0, with _sendEvent's view-only check.
SendFirst(f, n) ==
    LET sent == SubSeq(f.pending, 1, n) IN
    [f EXCEPT
       !.pending = SubSeq(f.pending, n + 1, Len(f.pending)),
       !.pressed = IF viewOnly THEN f.pressed ELSE Net(f.pressed, sent)]

SendAll(f) == SendFirst(f, Len(f.pending))

Discard(f) == [f EXCEPT !.pending = <<>>]

-----------------------------------------------------------------------------
(* Recognising the gestures.  Each handler looks at the whole queue and     *)
(* returns the filter and the number of events at its end to keep back.     *)

Keep(f, n) == [filter |-> f, delay |-> n]

\* _queueEmulatedMouseDownForButton: after the gesture was discarded.
Emulate(f, b) ==
    [f EXCEPT !.emulationButton = b, !.pending = <<Dn(b)>>]

Modifier(b) == user.profile.emulation[b].modifier

HandleClickWhileHolding(f, b) ==
    LET q == f.pending
        hold == Dn(Modifier(b))
    IN CASE q = <<hold, Dn("button1")>> ->
              Keep([Emulate(f, b) EXCEPT !.stillDown = @ \cup {b}], 0)
         [] q = <<hold>> -> Keep(f, 1)
         [] b \in f.stillDown /\ q = <<Dn("button1")>> -> Keep(Emulate(f, b), 0)
         [] OTHER -> Keep(f, 0)

IsTaps(q, m) ==
    \A i \in DOMAIN q : q[i] = IF i % 2 = 1 THEN Dn(m) ELSE Up(m)

\* Mutant: arms its timer in the middle of a tap.
HandleMultiTapMutant(f, b) ==
    LET q == f.pending
        m == Modifier(b)
        n == 2 * user.profile.emulation[b].count
        reset == [f EXCEPT !.multiTapTimer = FALSE]
    IN CASE Len(q) >= n /\ IsTaps(SubSeq(q, 1, n), m) ->
              Keep([reset EXCEPT !.pending = <<>>], 0)
         [] Len(q) < n /\ IsTaps(q, m) ->
              Keep([f EXCEPT !.multiTapTimer = Len(q) % 2 = 1], Len(q))
         [] OTHER -> Keep(reset, 0)

\* The emulated click is written at once: it is neither queued nor pressed.
HandleMultiTap(f, b) ==
    LET q == f.pending
        m == Modifier(b)
        n == 2 * user.profile.emulation[b].count
        reset == [f EXCEPT !.multiTapTimer = FALSE]
    IN CASE Len(q) >= n /\ IsTaps(SubSeq(q, 1, n), m) ->
              Keep([reset EXCEPT !.pending = <<>>], 0)
         [] Len(q) < n /\ IsTaps(q, m) ->
              Keep([f EXCEPT !.multiTapTimer = q # <<>> /\ Len(q) % 2 = 0],
                   Len(q))
         [] OTHER -> Keep(reset, 0)

\* Mutant: keeps what follows a tap and is no click.
HandleTapAndClickMutant(f, b) ==
    LET q == f.pending
        m == Modifier(b)
        tapped == Len(q) >= 2 /\ IsTaps(SubSeq(q, 1, 2), m) /\ ~f.slowTap
    IN CASE tapped /\ Len(q) = 2 -> Keep([f EXCEPT !.tapAndClickTimer = b], 2)
         [] tapped /\ Len(q) > 2 -> Keep(f, Len(q))
         [] q = <<Dn(m)>> -> Keep(f, 1)
         [] OTHER -> Keep(f, 0)

HandleTapAndClick(f, b) ==
    LET q == f.pending
        m == Modifier(b)
        tapped == Len(q) >= 2 /\ IsTaps(SubSeq(q, 1, 2), m) /\ ~f.slowTap
        reset == [f EXCEPT !.tapAndClickTimer = NoButton]
    IN CASE tapped /\ Len(q) = 2 ->
              Keep([f EXCEPT !.tapAndClickTimer = IF @ = NoButton THEN b ELSE @],
                   2)
         [] tapped /\ Len(q) > 2 /\ q[3] = Dn("button1") ->
              Keep(Emulate(reset, b), 0)
         [] tapped /\ Len(q) > 2 /\ q[3] # Dn("button1") ->
              Keep(IF q[3] = Dn(EscapeChar) THEN Discard(reset) ELSE reset, 0)
         [] q = <<Dn(m)>> -> Keep(f, 1)
         [] OTHER -> Keep(f, 0)

HandleForButton(f, b) ==
    CASE user.profile.emulation[b].scenario = "none" -> Keep(f, 0)
      [] user.profile.emulation[b].scenario = "clickWhileHolding" ->
           HandleClickWhileHolding(f, b)
      [] user.profile.emulation[b].scenario = "multiTap" -> HandleMultiTap(f, b)
      [] user.profile.emulation[b].scenario = "tapAndClick" -> HandleTapAndClick(f, b)

SendAnyValid(f) ==
    LET for2 == HandleForButton(f, "button2")
        for3 == HandleForButton(for2.filter, "button3")
        delay == IF for3.delay > for2.delay THEN for3.delay ELSE for2.delay
        len == Len(for3.filter.pending)
    IN SendFirst(for3.filter, IF delay < len THEN len - delay ELSE 0)

-----------------------------------------------------------------------------
(* Queueing. *)

Append1(f, e) == [f EXCEPT !.pending = Append(@, e)]
Queue(f, e) == SendAnyValid(Append1(f, e))

\* Mutant: a mouse up ends the emulation with button 0.
QueueMouseUpMutant0(f, b) ==
    IF f.emulationButton # "button1"
    THEN Queue([f EXCEPT !.emulationButton = NoButton], Up(f.emulationButton))
    ELSE Queue(f, Up(b))

QueueMouseUp(f, b) ==
    IF f.emulationButton # "button1"
    THEN Queue([f EXCEPT !.emulationButton = "button1"], Up(f.emulationButton))
    ELSE Queue(f, Up(b))

QueueMouseDown(f, b) ==
    Queue(IF f.emulationButton # "button1"
          THEN QueueMouseUp(f, f.emulationButton) ELSE f, Dn(b))

QueueModifierPressed(f, m) == Queue(f, Dn(m))

QueueModifierReleased(f, m, late) ==
    LET ended == {b \in Emulated :
                     /\ user.profile.emulation[b].scenario = "clickWhileHolding"
                     /\ Modifier(b) = m}
    IN Queue([f EXCEPT !.stillDown = @ \ ended,
                       !.slowTap = IF Len(f.pending) = 1 THEN late
                           ELSE @ /\ Len(f.pending) > 1],
             Up(m))

\* One round of queueModifiers:'s loop, for the mask m.
QueueMask(f, m, down, up, late) ==
    CASE m \in down -> QueueModifierPressed(f, m)
      [] m \in up -> QueueModifierReleased(f, m, late)
      [] OTHER -> f

\* The masks in the order in which the loop looks at them.
Masks == <<"shift", "control", "alternate", "command", "caps", "numpad", "help">>

\* The filter after each of the loop's rounds; the difference is taken before.
QueueModifiers(f, new, late) ==
    LET after[n \in 0..7] ==
            IF n = 0 THEN [f EXCEPT !.queued = new]
            ELSE QueueMask(after[n - 1], Masks[n],
                           new \ f.queued, f.queued \ new, late)
    IN after[7]

AppendUps(f, S) ==
    [f EXCEPT !.pending = @ \o SetToSeq({Up(x) : x \in f.pressed \cap S})]

SynthesizeKeyUps(f) == AppendUps(f, Chars)
SynthesizeMouseUps(f) == AppendUps(f, Buttons)

\* Mutant: forgets the modifiers.
SynthesizeRemainingMutant(f) == SynthesizeKeyUps(SynthesizeMouseUps(f))

\* The synthesized events carry the seconds since 1970, queued ones those
\* since start-up: a tap they complete is always late.
SynthesizeRemaining(f) ==
    QueueModifiers(SynthesizeKeyUps(SynthesizeMouseUps(f)), {}, TRUE)

\* Mutant: leaves the timers.
ClearAllMutantTimers(f) ==
    [SendAll(SynthesizeRemaining(SendAll(f))) EXCEPT
       !.emulationButton = "button1", !.stillDown = {}]

ClearAllEmulationStates(f) ==
    [SendAll(SynthesizeRemaining(SendAll(f))) EXCEPT
       !.emulationButton = "button1", !.stillDown = {},
       !.multiTapTimer = FALSE, !.tapAndClickTimer = NoButton]

FlagsChanged(f, new, late) == QueueModifiers(SynthesizeKeyUps(f), new, late)

UpdateCapsLock(f) ==
    LET g == [f EXCEPT !.watchCaps = FALSE]
    IN IF f.watchCaps /\ ("caps" \in flags) # ("caps" \in f.pressed)
       THEN FlagsChanged(g, flags, FALSE) ELSE g

-----------------------------------------------------------------------------
(* Keys.  queueKeyEventFromEvent: chooses the character from the two the    *)
(* system computed, with and without the modifiers.                         *)

\* Option makes a character of ASCII out of some keys; Control would make a
\* control code, and with Command the code does not use the character.
Translated(k, mods) ==
    /\ k \in AsciiByOption
    /\ "alternate" \in mods
    /\ mods \cap {"control", "command"} = {}

Level(k, mods) ==
    CASE Translated(k, mods) -> "ascii"
      [] user.profile.local /\ "alternate" \in mods /\ ~Translated(k, mods) -> "local"
      [] ~(user.profile.local /\ "alternate" \in mods) /\ ~Translated(k, mods) ->
           IF mods \cap {"shift", "caps"} = {} THEN "base" ELSE "upper"

KeyCharacter(k, mods) == Character(k, Level(k, mods))

\* A translated key goes down with Control and Option taken back.
QueueKeyDown(f, k, mods) ==
    LET c == KeyCharacter(k, mods)
    IN IF Translated(k, mods)
       THEN QueueModifiers(
              Queue(QueueModifiers(f, mods \ {"control", "alternate"}, FALSE),
                    Dn(c)),
              mods, FALSE)
       ELSE Queue(f, Dn(c))

QueueKeyUp(f, k, mods) == Queue(f, Up(KeyCharacter(k, mods)))

\* The characters go straight to _sendKeyEvent.  So do the events that should
\* press Shift for a capital: they are modifier events, whose character is 0,
\* and _sendKeyEvent neither presses nor releases that.
PasteString(f, text) ==
    LET g == ClearAllEmulationStates(f)
        typed == [g EXCEPT !.pressed = @ \ text]
    IN SendAll(QueueModifiers(typed, f.pressed \cap Flags, TRUE))

-----------------------------------------------------------------------------
(* The handlers. *)

Init ==
    /\ user \in Users
    /\ viewOnly \in BOOLEAN
    /\ filter = EmptyFilter
    /\ buttons = {} /\ keys = {} /\ flags = {}
    /\ focus = FALSE
    /\ lastCharacters = NoCharacter

MouseDown(b) ==
    /\ focus /\ b \in user.buttons \ buttons
    /\ buttons' = buttons \cup {b}
    /\ filter' = QueueMouseDown(filter, b)
    /\ UNCHANGED <<user, viewOnly, keys, flags, focus, lastCharacters>>

\* The view that got the press gets the release, even after losing focus.
MouseUp(b) ==
    /\ b \in buttons
    /\ buttons' = buttons \ {b}
    /\ filter' = QueueMouseUp(filter, b)
    /\ UNCHANGED <<user, viewOnly, keys, flags, focus, lastCharacters>>

ScrollWheel ==
    /\ ~viewOnly
    /\ filter' = SendAll(filter)
    /\ UNCHANGED <<user, viewOnly, buttons, keys, flags, focus,
                   lastCharacters>>

\* charactersIgnoringModifiers, which Shift still changes.
Unmodified(k) == Character(k, IF "shift" \in flags THEN "upper" ELSE "base")

\* MyApp.sendEvent: looks a key up in the menus before the window gets it,
\* unless the connection is view-only.
FoundByApp(k) == ~viewOnly /\ <<k, flags>> \in user.appEquivalents

\* The filter's keyDown: looks again, with the whole of the event's flags.
KeyDown(k) ==
    /\ focus
    /\ keys' = keys \cup {k}
    /\ filter' =
         IF FoundByApp(k)
         THEN ClearAllEmulationStates(filter)
         ELSE IF <<k, flags>> \in user.viewEquivalents
              THEN Discard(UpdateCapsLock(filter))
              ELSE QueueKeyDown(UpdateCapsLock(filter), k, flags)
    /\ lastCharacters' = IF FoundByApp(k)
                         THEN Unmodified(k) ELSE NoCharacter
    /\ UNCHANGED <<user, viewOnly, buttons, flags, focus>>

\* The release of a menu equivalent goes no further than MyApp.
KeyUp(k) ==
    /\ focus /\ k \in keys
    /\ keys' = keys \ {k}
    /\ IF lastCharacters = Unmodified(k)
       THEN lastCharacters' = NoCharacter /\ UNCHANGED filter
       ELSE /\ filter' = QueueKeyUp(UpdateCapsLock(filter), k, flags)
            /\ UNCHANGED lastCharacters
    /\ UNCHANGED <<user, viewOnly, buttons, flags, focus>>

\* new = flags: a key that is no modifier of the filter's, such as Fn, or the
\* second of two Shift keys; then the releases are queued and not sent.
ChangeFlags(new) ==
    /\ focus
    /\ Len(filter.pending) < MaxPending
    /\ flags' = new
    /\ \E late \in BOOLEAN :
          /\ late => Len(filter.pending) = 1
          /\ filter' = FlagsChanged(filter, new, late)
    /\ UNCHANGED <<user, viewOnly, buttons, keys, focus, lastCharacters>>

\* From the menu, or dropped on the view, whose window need not be key.
Paste(text) ==
    /\ focus \/ Drops
    /\ filter' = PasteString(UpdateCapsLock(filter), text)
    /\ UNCHANGED <<user, viewOnly, buttons, keys, flags, focus,
                   lastCharacters>>

\* _resetMultiTapTimer: and _resetTapModifierAndClick: as their timers fire.
MultiTapTimeout ==
    /\ filter.multiTapTimer
    /\ filter' = SendAll([filter EXCEPT !.multiTapTimer = FALSE])
    /\ UNCHANGED <<user, viewOnly, buttons, keys, flags, focus,
                   lastCharacters>>

TapAndClickTimeout ==
    /\ filter.tapAndClickTimer # NoButton
    /\ filter' = SendAll([filter EXCEPT !.tapAndClickTimer = NoButton])
    /\ UNCHANGED <<user, viewOnly, buttons, keys, flags, focus,
                   lastCharacters>>

\* applicationDidBecomeActive: reaches the filters of all connections; the
\* window was not key while the application was in the background.
BecomeActive ==
    /\ ~focus
    /\ filter' = [filter EXCEPT !.watchCaps = TRUE]
    /\ UNCHANGED <<user, viewOnly, buttons, keys, flags, focus,
                   lastCharacters>>

BecomeKey ==
    /\ ~focus
    /\ focus' = TRUE
    /\ UNCHANGED <<user, viewOnly, filter, buttons, keys, flags,
                   lastCharacters>>

ResignKey ==
    /\ focus
    /\ focus' = FALSE
    /\ filter' = ClearAllEmulationStates(filter)
    /\ UNCHANGED <<user, viewOnly, buttons, keys, flags, lastCharacters>>

\* makeConnectionFullscreen: with its warning, a sheet that takes the keyboard.
FullscreenWarning ==
    /\ focus
    /\ focus' = FALSE
    /\ filter' = ClearAllEmulationStates(SynthesizeRemaining(filter))
    /\ UNCHANGED <<user, viewOnly, buttons, keys, flags, lastCharacters>>

\* While another window is key the keyboard changes unseen.
Elsewhere(newKeys, newFlags) ==
    /\ ~focus
    /\ keys' = newKeys /\ flags' = newFlags
    /\ UNCHANGED <<user, viewOnly, filter, buttons, focus,
                   lastCharacters>>

Timeout == MultiTapTimeout \/ TapAndClickTimeout

Next ==
    \/ \E b \in Buttons : MouseDown(b) \/ MouseUp(b)
    \/ ScrollWheel
    \/ \E k \in Keys : KeyDown(k) \/ KeyUp(k)
    \/ \E new \in SUBSET user.flags : ChangeFlags(new)
    \/ \E text \in Texts : Paste(text)
    \/ Timeout
    \/ BecomeActive \/ BecomeKey \/ ResignKey
    \/ FullscreenWarning
    \/ \E newKeys \in SUBSET Keys, newFlags \in SUBSET user.flags :
          Elsewhere(newKeys, newFlags)

Spec == Init /\ [][Next]_vars

\* The run loop fires the timers; nobody promises that the user does anything.
FairSpec == Spec /\ WF_vars(MultiTapTimeout) /\ WF_vars(TapAndClickTimeout)

-----------------------------------------------------------------------------
(* What must hold. *)

\* Every value is one the code can store.
TypeOK ==
    /\ user \in Users /\ viewOnly \in BOOLEAN
    /\ filter \in FilterType
    /\ buttons \subseteq user.buttons /\ keys \subseteq Keys
    /\ flags \subseteq user.flags /\ focus \in BOOLEAN
    /\ lastCharacters \in Chars \cup {NoCharacter}

\* What the server will hold pressed once the queue has drained.
Drained == Net(filter.pressed, filter.pending)

\* The server is never left holding a modifier that the user does not hold:
\* whatever the gestures kept back, dropped or translated, and whatever
\* changed while the window was not key (_queuedModifiers, queueModifiers:).
NoPhantomModifier ==
    Drained \cap Flags \subseteq IF focus THEN flags ELSE {}

\* Nor a character whose key is up: a key that goes up produces the character
\* it went down with, or flagsChanged: has released that before
\* (_synthesizeRemainingKeyUpEvents).
NoPhantomKey ==
    Drained \cap Chars \subseteq {KeyCharacter(k, flags) : k \in keys}

\* Nor a button once every button of the mouse is up (_emulationButton).
NoPhantomButton ==
    buttons = {} => Drained \cap Buttons = {}

\* Nothing stays pressed on the server that the user has released, by whatever
\* way the events went through the queue (_pendingEvents).
NoPhantoms == NoPhantomModifier /\ NoPhantomKey /\ NoPhantomButton

\* Only the gestures keep events back: what waits in the queue is taps of one
\* gesture's modifier, then nothing but releases of pressed characters.  No
\* click and no key stroke waits (sendAnyValidEventsToServerNow).
OnlyGesturesWait ==
    \E n \in 0..Len(filter.pending) :
        /\ \/ n = 0
           \/ \E b \in Emulated :
                 /\ user.profile.emulation[b].scenario # "none"
                 /\ IsTaps(SubSeq(filter.pending, 1, n), Modifier(b))
        /\ \A i \in n + 1..Len(filter.pending) :
              \E c \in filter.pressed \cap Chars : filter.pending[i] = Up(c)

\* While button 1 stands for another one it is down, and the server was told
\* that the other one is (unless the connection is view-only).
EmulatedButtonIsHeld ==
    filter.emulationButton # "button1" =>
        /\ "button1" \in buttons
        /\ viewOnly \/ filter.emulationButton \in Drained

\* As long as a held modifier emulates a button, the server does not know
\* that it is held (_clickWhileHoldingModifierStillDown).
HoldingHidesModifier ==
    \A b \in filter.stillDown :
        Modifier(b) \in filter.queued /\ Modifier(b) \notin Drained

\* What the server was told during an emulation is the emulation's side of
\* what the user holds: the button instead of button 1 and its modifier; and
\* only the taps of a gesture are kept back
\* (_emulationButton, handleClickWhileHoldingForButton:).
EmulationIsTold == EmulatedButtonIsHeld /\ HoldingHidesModifier /\ OnlyGesturesWait

\* A window that is not key leaves nothing behind: "Reset keyboard state on
\* remote end" (windowDidResignKey:, Session.m:659).
ResignedHoldsNothing ==
    ~focus => /\ filter.pressed = {} /\ filter.pending = <<>>
              /\ filter.queued = {} /\ filter.stillDown = {}
              /\ ~filter.multiTapTimer /\ filter.tapAndClickTimer = NoButton

\* A whole number of taps waits in the queue.
TapWaits ==
    /\ filter.pending # <<>> /\ Len(filter.pending) % 2 = 0
    /\ \E b \in Emulated : /\ user.profile.emulation[b].scenario \in
                                {"multiTap", "tapAndClick"}
                           /\ IsTaps(filter.pending, Modifier(b))

\* A tap that nothing follows is sent on when its time is up
\* ("within the time limit", EventFilter.h:43-50).
TapsEnd == TapWaits ~> ~TapWaits
=============================================================================
