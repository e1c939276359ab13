------------------------------ MODULE MCNetSync ------------------------------
(***************************************************************************)
(* Small instances of NetSync for TLC.                                     *)
(***************************************************************************)
EXTENDS NetSync

CONSTANTS a, b

Two         == {a, b}
NobodyQuits == {}
LeaverQuits == {b}

NoTimers  == [p \in Players |-> 0]
TimersOfA == [p \in Players |-> IF p = a THEN 1 ELSE 0]
AllTimers == [p \in Players |-> 1]
Silent    == [p \in Players |-> 0]
OneSends  == [p \in Players |-> IF p = a THEN 1 ELSE 0]

TwoDecks  == [decks |-> 2, replay |-> <<>>, asks |-> FALSE, end |-> 3,
               nap |-> NoTimers, sends |-> Silent]

(* Frames of a deck and of the capture meet in the other deck's queue. *)
Merging   == [decks |-> 2, replay |-> <<1>>, asks |-> FALSE, end |-> 3,
               nap |-> TimersOfA, sends |-> OneSends]

(* One deck and a capture: the replay alone paces it. *)
Replaying == [decks |-> 1, replay |-> <<1, 3>>, asks |-> TRUE, end |-> 6,
               nap |-> AllTimers, sends |-> OneSends]

Quiet      == {TwoDecks}
Busy       == {Merging, Replaying}
ReplayOnly == {Replaying}
=============================================================================
