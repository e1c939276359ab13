----------------------------- MODULE TimedLink -----------------------------
(***************************************************************************)
(* What the two boards of a CDJ-2000 are promised about the wire between   *)
(* them: a frame put on the wire at guest time t of its sender reaches the *)
(* other board when that board's own clock reads t + Latency -- not later, *)
(* not earlier, in the order sent -- whatever the hosts do; a board whose  *)
(* clock moves by whole instructions may be that little late.  One whose   *)
(* firmware has not opened its end of the link lets the frames pile up and *)
(* takes them when it does.  When the link is cut what is on it is gone.   *)
(*                                                                         *)
(* CoSim implements this with promises and two TCP streams.                *)
(***************************************************************************)
EXTENDS Integers, Sequences

CONSTANTS
    Latency,    \* CDJ_COSIM_QUANTUM_US: guest time a frame spends on the wire
    Jitter      \* Jitter[b]: how late b may be in taking a frame

Boards == {"main", "gui"}

Other(b) == IF b = "main" THEN "gui" ELSE "main"

VARIABLES
    clock,      \* clock[b]: the guest time of board b
    line,       \* line[b]: the frames on their way to b, oldest first
    put,        \* put[b]: how many frames b has put on the wire
    listens,    \* listens[b]: b's end of the link is open
    linked      \* linked[b]: b is still on the link

vars == <<clock, line, put, listens, linked>>

Frame == [due : Nat, n : Nat]

TypeOK ==
    /\ clock \in [Boards -> Nat]
    /\ line \in [Boards -> Seq(Frame)]
    /\ put \in [Boards -> Nat]
    /\ listens \in [Boards -> BOOLEAN]
    /\ linked \in [Boards -> BOOLEAN]

Init ==
    /\ clock = [b \in Boards |-> 0]
    /\ line = [b \in Boards |-> <<>>]
    /\ put = [b \in Boards |-> 0]
    /\ listens \in [Boards -> BOOLEAN]
    /\ linked = [b \in Boards |-> TRUE]

(* Guest time passes on b, but never over a frame b has yet to take. *)
Pass(b) ==
    /\ clock' \in [Boards -> Nat]
    /\ clock'[b] > clock[b]
    /\ clock'[Other(b)] = clock[Other(b)]
    /\ linked[b] /\ listens[b] =>
          \A i \in 1..Len(line[b]) : clock'[b] <= line[b][i].due + Jitter[b]
    /\ UNCHANGED <<line, listens, linked, put>>

(* b puts a frame on the wire: it must not be due in the other's past. *)
Put(b) ==
    LET o == Other(b)
        due == clock[b] + Latency
    IN  /\ linked[b]
        /\ put' = [put EXCEPT ![b] = @ + 1]
        /\ linked[o] => clock[o] <= due + Jitter[o]
        /\ line' = IF linked[o]
                   THEN [line EXCEPT ![o] = Append(@, [due |-> due, n |-> put'[b]])]
                   ELSE line
        /\ UNCHANGED <<clock, listens, linked>>

(* b takes the oldest frames, at the very time they are due, or as little   *)
(* later as it may.                                                         *)
Take(b) ==
    /\ linked[b] /\ listens[b]
    /\ UNCHANGED <<clock, listens, linked, put>>
    /\ \E k \in 1..Len(line[b]) :
          /\ \A i \in 1..k : clock[b] \in line[b][i].due..(line[b][i].due + Jitter[b])
          /\ line' = [line EXCEPT ![b] = SubSeq(@, k + 1, Len(@))]

(* b opens its end of the link and takes what is overdue, but for what may  *)
(* still be taken within its lateness.                                      *)
Listen(b) ==
    /\ linked[b] /\ ~listens[b]
    /\ listens' = [listens EXCEPT ![b] = TRUE]
    /\ \E k \in 0..Len(line[b]) :
          /\ \A i \in 1..k : line[b][i].due <= clock[b]
          /\ \A i \in (k + 1)..Len(line[b]) : clock[b] <= line[b][i].due + Jitter[b]
          /\ line' = [line EXCEPT ![b] = SubSeq(@, k + 1, Len(@))]
    /\ UNCHANGED <<clock, linked, put>>

(* b is off the link, and with it whatever it had not taken. *)
Cut(b) ==
    /\ linked' = [linked EXCEPT ![b] = FALSE]
    /\ line' = [line EXCEPT ![b] = <<>>]
    /\ UNCHANGED <<clock, listens, put>>

Next == \E b \in Boards : Pass(b) \/ Put(b) \/ Take(b) \/ Listen(b) \/ Cut(b)

Spec == Init /\ [][Next]_vars
=============================================================================
