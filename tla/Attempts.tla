------------------------------- MODULE Attempts -------------------------------
(***************************************************************************)
(* What a ConnectionWaiter promises its delegate: an attempt to connect is   *)
(* answered at most once, an error is shown before it is answered with      *)
(* failure, unless the user has refused to answer a question of ssh's, and   *)
(* a cancelled attempt says nothing more.                                    *)
(***************************************************************************)
CONSTANT Waiters
VARIABLE attempt        \* how far each attempt is

States == {"none", "trying", "asking", "error",
           "succeeded", "failed", "cancelled"}

\* Nothing leaves the last three.
Steps == {<<"none", "trying">>, <<"none", "error">>,
          <<"trying", "error">>, <<"trying", "succeeded">>,
          <<"trying", "cancelled">>,
          <<"trying", "asking">>, <<"asking", "trying">>,
          <<"asking", "error">>, <<"asking", "failed">>,
          <<"asking", "cancelled">>,
          <<"error", "failed">>, <<"error", "cancelled">>}

Init == attempt = [w \in Waiters |-> "none"]

Step(w, to) == /\ <<attempt[w], to>> \in Steps
               /\ attempt' = [attempt EXCEPT ![w] = to]

Next == \E w \in Waiters, to \in States : Step(w, to)

Spec == Init /\ [][Next]_attempt
=============================================================================
