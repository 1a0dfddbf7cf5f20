---------------------------- MODULE MCEventFilter ----------------------------
(***************************************************************************)
(* Small keyboards and a few users for EventFilter.                         *)
(***************************************************************************)
EXTENDS EventFilter

MCKeys == {"k", "esc"}
MCChars == {"a", "A", "@", "u", "escape"}
MCCharacter(k, level) ==
    IF k = "esc" THEN "escape"
    ELSE [base |-> "a", upper |-> "A", ascii |-> "@", local |-> "u"][level]
MCAsciiByOption == {"k"}

OneKey == {"k"}
NoEscape == {"a", "A", "@", "u"}

MCTexts == {{"a"}, {"a", "A"}}

Emulation(scenario, modifier, count) ==
    [scenario |-> scenario, modifier |-> modifier, count |-> count]
NoEmulation == Emulation("none", "control", 2)
Hold(m) == Emulation("clickWhileHolding", m, 2)
Taps(m, n) == Emulation("multiTap", m, n)
TapClick(m) == Emulation("tapAndClick", m, 2)

Profile(for2, for3, local) ==
    [emulation |-> [b \in Emulated |-> IF b = "button2" THEN for2 ELSE for3],
     local |-> local]
User(mouse, modifiers, p, app, view) ==
    [buttons |-> mouse, flags |-> modifiers, profile |-> p,
     appEquivalents |-> app, viewEquivalents |-> view]

\* Profile.m:95-113 sets the first of these by default.
Holder(p) == User({"button1"}, {"control", "alternate", "shift"}, p,
                  {<<"k", {"control"}>>}, {})
Holders == {Holder(Profile(NoEmulation, Hold("control"), FALSE)),
            Holder(Profile(Hold("alternate"), Hold("control"), TRUE))}

Tapper(p) == User({"button1"}, {"control", "shift"}, p,
                  {}, {<<"k", {"control", "shift"}>>})
Tappers == {Tapper(Profile(TapClick("shift"), Taps("control", 2), FALSE)),
            Tapper(Profile(Taps("control", 1), TapClick("control"), FALSE)),
            Tapper(Profile(TapClick("control"), TapClick("shift"), FALSE)),
            Tapper(Profile(Hold("shift"), TapClick("control"), FALSE))}

\* Three buttons and no emulation.
Clickers == {User(Buttons, {"caps", "shift", "command"},
                  Profile(NoEmulation, NoEmulation, FALSE),
                  {<<"k", {"command"}>>}, {<<"esc", {"command"}>>})}

MCUsers == Holders \cup Tappers \cup Clickers

\* Users whom the passing run leaves out.
HolderWithTwoButtons ==
    {[u EXCEPT !.buttons = {"button1", "button3"}] : u \in Holders}
=============================================================================
