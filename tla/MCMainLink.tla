----------------------------- MODULE MCMainLink -----------------------------
(***************************************************************************)
(* Small instances of MainLink for TLC.                                    *)
(***************************************************************************)
EXTENDS MainLink

(* The defaults: a FIFO, moved on by the acknowledge. *)
Default == [fifo |-> TRUE, oneShot |-> FALSE, onAnswer |-> FALSE, txTime |-> 0,
            firmware |-> 2, polls |-> FALSE, requests |-> 6, records |-> 0]

(* A firmware that acknowledges long after the watchdog. *)
Deaf    == [Default EXCEPT !.firmware = 12, !.requests = 4]

Direct  == [Default EXCEPT !.fifo = FALSE, !.oneShot = TRUE]
Answer  == [Default EXCEPT !.onAnswer = TRUE, !.requests = 5, !.records = 3]
Sending == [Default EXCEPT !.txTime = 2, !.polls = TRUE, !.requests = 0, !.records = 4]

All         == {Default, Deaf, Direct, Answer, Sending}
DefaultOnly == {Default}
=============================================================================
