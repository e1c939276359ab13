------------------------------ MODULE MainLink ------------------------------
(***************************************************************************)
(* MAIN's end of the wire to the GUI board: the two halves of the link     *)
(* controller in emulator/qemu/cdj2000_main.c.  The receive half puts the  *)
(* GUI's requests into a buffer of the firmware, one per acknowledge, from *)
(* a FIFO with a least time between two of them and a watchdog; requests   *)
(* that arrive while nothing is armed wait in a backlog.  The transmit     *)
(* half sends MAIN's records and reports their completion.                 *)
(*                                                                         *)
(* The firmware (not part of the repository) is what the code's comments   *)
(* say of it: an interrupt handler that acknowledges, re-arms and wakes a  *)
(* task, and the task, which examines what is in the buffer.               *)
(*                                                                         *)
(* rx is the receive half's CdjLinkState and tx the transmit half's; the   *)
(* functions of the code are operators from one such state to the next.    *)
(* Guest time passes in Tick; timers count down to 0 and then fire.        *)
(*                                                                         *)
(* An operator headed "A slip" is the definition below it with a mistake   *)
(* in it, for trying the properties; no specification uses one.            *)
(***************************************************************************)
EXTENDS Integers, Sequences, SequencesExt

CONSTANTS
    Gap,        \* CDJ_LINK_RX_GAP_US: least time between two deliveries
    Watchdog,   \* 50 ms: a frame is taken as acknowledged after this long
    QueueMax,   \* CDJ_LINK_RX_QUEUE_MAX: frames in the FIFO
    BacklogMax, \* sizeof(cdj_link_cosim_backlog), in requests
    Setups      \* how the program may be started, what firmware it runs, and
                \* the bounds it is explored to:
                \*   fifo      CDJ_LINK_RX_QUEUE: is there a FIFO
                \*   oneShot   CDJ_LINK_RX_ONESHOT: a delivery disarms
                \*   onAnswer  CDJ_LINK_RX_HANDOVER=answer: a record sent
                \*             frees the buffer
                \*   txTime    CDJ_LINK_TX_US: how long a record is in flight
                \*   firmware  it is done with a frame this long after delivery
                \*   polls     may it arm again before the completion
                \*   requests  bound: requests the GUI sends
                \*   records   bound: times MAIN arms the transmit half

ASSUME MainLinkAssumption ==
    /\ Gap \in Nat \ {0} /\ Watchdog \in Nat /\ Watchdog > Gap
    /\ QueueMax \in Nat \ {0} /\ BacklogMax \in Nat \ {0}
    /\ Setups \subseteq [fifo : BOOLEAN, oneShot : BOOLEAN, onAnswer : BOOLEAN,
                         txTime : Nat, firmware : Nat, polls : BOOLEAN,
                         requests : Nat, records : Nat]

Off == -1       \* a timer that is not pending

VARIABLES
    setup,      \* as above, for the whole run
    rx,         \* the receive half and its backlog
    tx,         \* the transmit half
    requests,   \* requests that have reached MAIN
    isr,        \* the firmware's receive handler: idle, acked, disarmed
    woken,      \* wake-ups the receive task has yet to take
    read,       \* what the task has examined
    busy,       \* the firmware's transmit-in-progress flag
    records     \* frames the firmware has armed the transmit half with

guest == <<isr, woken, read>>
sender == <<busy, records>>
vars == <<setup, rx, tx, requests, guest, sender>>

Least(x, y) == IF x <= y THEN x ELSE y

-----------------------------------------------------------------------------
(* The receive half. *)

(* cdj_link_can_receive *)
CanReceive(r) == r.armed /\ r.ready

(* A slip: the watchdog is not started. *)
DeliverUnwatched(r, f) ==
    [r EXCEPT !.buffer = f, !.handed = Append(@, f),
              !.armed = @ /\ ~setup.oneShot,
              !.status = TRUE, !.irq = TRUE,
              !.pending = TRUE, !.since = 0]

(* cdj_link_deliver: into the guest's buffer, with the watchdog and the     *)
(* interrupt.                                                               *)
Deliver(r, f) ==
    [r EXCEPT !.buffer = f, !.handed = Append(@, f),
              !.armed = @ /\ ~setup.oneShot,
              !.status = TRUE, !.irq = TRUE,
              !.pending = TRUE, !.since = 0, !.dogIn = Watchdog]

(* A slip: the gap is not kept ... *)
ReleaseAtOnce(r) ==
    IF r.pending \/ r.queue = <<>> THEN r
    ELSE Deliver([r EXCEPT !.queue = Tail(@)], Head(r.queue))

(* ... or is one short ... *)
ReleaseEarly(r) ==
    IF r.pending \/ r.queue = <<>> THEN r
    ELSE IF r.since < Gap - 1
    THEN [r EXCEPT !.gapIn = IF @ = Off THEN Gap - 1 - r.since ELSE @]
    ELSE Deliver([r EXCEPT !.queue = Tail(@)], Head(r.queue))

(* ... or nothing is there to end it. *)
ReleaseUntimed(r) ==
    IF r.pending \/ r.queue = <<>> \/ r.since < Gap THEN r
    ELSE Deliver([r EXCEPT !.queue = Tail(@)], Head(r.queue))

(* cdj_link_rx_release: the oldest waiting frame, when the buffer is free   *)
(* and the gap is up.                                                       *)
Release(r) ==
    IF r.pending \/ r.queue = <<>> THEN r
    ELSE IF r.since < Gap
    THEN [r EXCEPT !.gapIn = IF @ = Off THEN Gap - r.since ELSE @]
    ELSE Deliver([r EXCEPT !.queue = Tail(@)], Head(r.queue))

(* cdj_link_rx_next *)
RxNext(r) == Release([r EXCEPT !.pending = FALSE, !.dogIn = Off])

(* cdj_link_rx_answered, and an acknowledge or re-arm in the other mode. *)
Handover(r) == IF r.pending THEN RxNext(r) ELSE r

(* A slip: off by one at the limit. *)
EnqueueTooMany(r, f) ==
    IF Len(r.queue) > QueueMax
    THEN [r EXCEPT !.queue = Append(Tail(@), f), !.lost = @ + 1]
    ELSE [r EXCEPT !.queue = Append(@, f)]

Enqueue(r, f) ==
    IF Len(r.queue) = QueueMax
    THEN [r EXCEPT !.queue = Append(Tail(@), f), !.lost = @ + 1]
    ELSE [r EXCEPT !.queue = Append(@, f)]

(* A slip: a frame comes before the gap is up. *)
ReceiveTooSoon(r, f) ==
    IF ~setup.fifo
    THEN [r EXCEPT !.buffer = f, !.handed = Append(@, f),
                   !.armed = @ /\ ~setup.oneShot, !.status = TRUE, !.irq = TRUE]
    ELSE IF r.pending \/ r.queue # <<>>
    THEN Release(Enqueue(r, f))
    ELSE Deliver(r, f)

(* cdj_link_receive, one whole frame. *)
Receive(r, f) ==
    IF ~setup.fifo
    THEN [r EXCEPT !.buffer = f, !.handed = Append(@, f),
                   !.armed = @ /\ ~setup.oneShot, !.status = TRUE, !.irq = TRUE]
    ELSE IF r.pending \/ r.queue # <<>> \/ r.since < Gap
    THEN Release(Enqueue(r, f))
    ELSE Deliver(r, f)

(* A slip: the backlog is not moved up. *)
PassedTwice(r) ==
    IF CanReceive(r) /\ r.backlog # <<>> THEN Receive(r, Head(r.backlog)) ELSE r

(* cdj_link_cosim_pump: from the backlog while a receive is armed; each     *)
(* turn of its loop takes one request.                                      *)
Passed(r) ==
    IF CanReceive(r) /\ r.backlog # <<>>
    THEN Receive([r EXCEPT !.backlog = Tail(@)], Head(r.backlog)) ELSE r

Pump(r) ==
    LET passed[n \in 0..Len(r.backlog)] == IF n = 0 THEN r ELSE Passed(passed[n - 1])
    IN  passed[Len(r.backlog)]

(* cdj_link_cosim_request: a backlog without room is thrown away first. *)
Request(r, f) ==
    Pump(IF Len(r.backlog) = BacklogMax
         THEN [r EXCEPT !.backlog = <<f>>, !.lost = @ + BacklogMax]
         ELSE [r EXCEPT !.backlog = Append(@, f)])

(* cdj_link_write, LINK_CONTROL: the edge of START, and its clearing. *)
Arm(r) ==
    LET armed == [r EXCEPT !.armed = TRUE]
    IN  Pump(IF setup.onAnswer THEN armed ELSE Handover(armed))

Disarm(r) == [r EXCEPT !.armed = FALSE]

(* cdj_link_write, LINK_STATUS: the interrupt is lowered before the next    *)
(* frame may raise it.                                                      *)
Acknowledge(r) ==
    LET acked == [r EXCEPT !.status = FALSE, !.irq = FALSE]
    IN  IF setup.onAnswer THEN acked ELSE Handover(acked)

-----------------------------------------------------------------------------
(* The transmit half. *)

(* cdj_link_tx_complete: the channel's own interrupt, and the transfer-done *)
(* one with its gate.                                                       *)
Complete(t) ==
    [t EXCEPT !.start = FALSE, !.inFlight = Off, !.irq = TRUE,
              !.gate = TRUE, !.mode = TRUE]

(* A slip, and once the code: an arm with nothing to send never completes. *)
TransmitSilently(t, kind) ==
    IF kind # "record" THEN t
    ELSE IF setup.txTime > 0 THEN [t EXCEPT !.inFlight = setup.txTime, !.wire = @ + 1]
    ELSE Complete([t EXCEPT !.wire = @ + 1])

(* cdj_link_transmit: a record goes out and may take its time; an arm with  *)
(* nothing to send, or with too much, completes at once.                    *)
Transmit(t, kind) ==
    IF kind = "record" /\ setup.txTime > 0
    THEN [t EXCEPT !.inFlight = setup.txTime, !.wire = @ + 1]
    ELSE Complete(IF kind = "record" THEN [t EXCEPT !.wire = @ + 1] ELSE t)

(* cdj_link_write, LINK_CONTROL with START: a record in flight is finished  *)
(* first, and only an edge arms.                                            *)
Flush(t) == IF t.inFlight # Off THEN Complete(t) ELSE t

(* A slip: a record in flight is not finished first. *)
ArmTransmitUnflushed(t, kind) ==
    IF t.start THEN t ELSE Transmit([t EXCEPT !.start = TRUE], kind)

ArmTransmit(t, kind) ==
    LET f == Flush(t)
    IN  IF f.start THEN f ELSE Transmit([f EXCEPT !.start = TRUE], kind)

Sends(t, kind) == kind = "record" /\ ~Flush(t).start

-----------------------------------------------------------------------------
Init ==
    /\ setup \in Setups
    /\ rx = [armed |-> FALSE, ready |-> FALSE, buffer |-> 0, status |-> FALSE,
             irq |-> FALSE, pending |-> FALSE, queue |-> <<>>, backlog |-> <<>>,
             since |-> 0, gapIn |-> Off, dogIn |-> Off, handed |-> <<>>, lost |-> 0]
    /\ tx = [start |-> FALSE, inFlight |-> Off, irq |-> FALSE, gate |-> FALSE,
             mode |-> FALSE, wire |-> 0]
    /\ requests = 0
    /\ isr = "idle" /\ woken = 0 /\ read = <<>>
    /\ busy = FALSE /\ records = [record |-> 0, nothing |-> 0]

(* The co-simulation hands over a request of the GUI. *)
RequestArrives ==
    /\ requests < setup.requests
    /\ requests' = requests + 1
    /\ rx' = Request(rx, requests + 1)
    /\ UNCHANGED <<setup, tx, guest, sender>>

(* cs.poll: each step of the co-simulation pumps once more. *)
CosimPoll ==
    /\ rx.backlog # <<>>
    /\ rx' = Pump(rx)
    /\ UNCHANGED <<setup, tx, requests, guest, sender>>

GapTimer ==
    /\ rx.gapIn = 0
    /\ rx' = Release([rx EXCEPT !.gapIn = Off])
    /\ UNCHANGED <<setup, tx, requests, guest, sender>>

WatchdogTimer ==
    /\ rx.dogIn = 0
    /\ rx' = Handover([rx EXCEPT !.dogIn = Off])
    /\ UNCHANGED <<setup, tx, requests, guest, sender>>

TxTimer ==
    /\ tx.inFlight = 0
    /\ tx' = Complete(tx)
    /\ UNCHANGED <<setup, rx, requests, guest, sender>>

(* The firmware opens the link: buffer and length, each write pumps ... *)
SetBuffer ==
    /\ ~rx.ready
    /\ rx' = Pump([rx EXCEPT !.ready = TRUE])
    /\ UNCHANGED <<setup, tx, requests, guest, sender>>

(* ... and the first receive. *)
OpenLink ==
    /\ rx.ready /\ ~rx.armed /\ isr = "idle" /\ ~rx.irq
    /\ rx' = Arm(rx)
    /\ UNCHANGED <<setup, tx, requests, guest, sender>>

(* The receive handler. *)
IsrAcknowledge ==
    /\ isr = "idle" /\ rx.irq
    /\ rx' = Acknowledge(rx)
    /\ isr' = "acked"
    /\ UNCHANGED <<setup, tx, requests, woken, read, sender>>

IsrDisarm ==
    /\ isr = "acked"
    /\ rx' = Disarm(rx)
    /\ isr' = "disarmed"
    /\ UNCHANGED <<setup, tx, requests, woken, read, sender>>

IsrArm ==
    /\ isr = "disarmed"
    /\ rx' = Arm(rx)
    /\ isr' = "idle"
    /\ woken' = woken + 1
    /\ UNCHANGED <<setup, tx, requests, read, sender>>

(* The receive task. *)
Examine ==
    /\ woken > 0
    /\ woken' = woken - 1
    /\ read' = Append(read, rx.buffer)
    /\ UNCHANGED <<setup, rx, tx, requests, isr, sender>>

(* The firmware sends; its arm clears the gate bit of the mode register. *)
SendRecord ==
    /\ ~busy \/ setup.polls
    /\ records.record + records.nothing < setup.records
    /\ busy' = TRUE
    /\ \E kind \in {"record", "nothing"} :
          /\ records' = [records EXCEPT ![kind] = @ + 1]
          /\ tx' = ArmTransmit([tx EXCEPT !.mode = FALSE], kind)
          /\ rx' = IF setup.onAnswer /\ Sends(tx, kind) THEN Handover(rx) ELSE rx
    /\ UNCHANGED <<setup, requests, guest>>

TxIsr ==
    /\ tx.irq
    /\ tx' = [tx EXCEPT !.irq = FALSE]
    /\ UNCHANGED <<setup, rx, requests, guest, sender>>

(* The transfer-done handler: cdj_link_mode_write lowers the gate; the      *)
(* firmware is free again if it saw the bit in both registers.              *)
DoneIsr ==
    /\ tx.gate
    /\ tx' = [tx EXCEPT !.gate = FALSE]
    /\ busy' = (busy /\ ~tx.mode)
    /\ UNCHANGED <<setup, rx, requests, guest, records>>

GuestDone == isr = "idle" /\ ~rx.irq /\ woken = 0

(* Guest time: no timer is overdue, and the firmware is not.                *)
Down(t) == IF t = Off THEN Off ELSE t - 1

Tick ==
    /\ 0 \notin {rx.gapIn, rx.dogIn, tx.inFlight}
    /\ rx.since < setup.firmware \/ GuestDone
    /\ rx' = [rx EXCEPT !.since = Least(@ + 1, Gap + setup.firmware),
                        !.gapIn = Down(@), !.dogIn = Down(@)]
    /\ tx' = [tx EXCEPT !.inFlight = Down(@)]
    /\ UNCHANGED <<setup, requests, guest, sender>>

Timers == GapTimer \/ WatchdogTimer \/ TxTimer

Handler == IsrAcknowledge \/ IsrDisarm \/ IsrArm

Next ==
    \/ RequestArrives \/ CosimPoll \/ Timers \/ Tick
    \/ SetBuffer \/ OpenLink \/ Handler \/ Examine
    \/ SendRecord \/ TxIsr \/ DoneIsr

(* Guest time passes and timers fire.  Of the firmware it is only assumed   *)
(* that it serves the transmit interrupts.                                  *)
Fairness ==
    /\ WF_vars(Tick) /\ WF_vars(Timers)
    /\ WF_vars(TxIsr) /\ WF_vars(DoneIsr)

Spec == Init /\ [][Next]_vars /\ Fairness
-----------------------------------------------------------------------------
Requests == UNION {1..s.requests : s \in Setups}

(* The firmware is done with a frame before the gap is up. *)
Prompt == setup.firmware < Gap

TypeOK ==
    /\ setup \in Setups
    /\ rx \in [armed : BOOLEAN, ready : BOOLEAN, buffer : Requests \cup {0},
               status : BOOLEAN, irq : BOOLEAN, pending : BOOLEAN,
               queue : Seq(Requests), backlog : Seq(Requests),
               since : 0..(Gap + setup.firmware),
               gapIn : Off..Gap, dogIn : Off..Watchdog,
               handed : Seq(Requests), lost : 0..setup.requests]
    /\ Len(rx.queue) <= QueueMax /\ Len(rx.backlog) <= BacklogMax
    /\ tx \in [start : BOOLEAN, inFlight : Off..setup.txTime, irq : BOOLEAN,
               gate : BOOLEAN, mode : BOOLEAN, wire : 0..setup.records]
    /\ requests \in 0..setup.requests
    /\ isr \in {"idle", "acked", "disarmed"}
    /\ woken \in Nat /\ read \in Seq(Requests)
    /\ busy \in BOOLEAN
    /\ records \in [{"record", "nothing"} -> 0..setup.records]

(* Requests reach the firmware in the order sent, none twice, and only a    *)
(* full FIFO or a full backlog loses one.                                   *)
InOrder ==
    LET all == rx.handed \o rx.queue \o rx.backlog
    IN  /\ \A i \in 1..(Len(all) - 1) : all[i] < all[i + 1]
        /\ Len(all) + rx.lost = requests

(* The FIFO never stands still: a waiting frame has the acknowledge of the  *)
(* one before it, or a timer, to move it, and a frame that is never         *)
(* acknowledged has the watchdog.                                           *)
QueueMoves ==
    setup.fifo =>
        /\ rx.queue # <<>> => rx.pending \/ rx.gapIn # Off
        /\ rx.pending => rx.dogIn # Off

(* Requests wait in the backlog only "until MAIN has a receive armed": the  *)
(* write that arms it, or gives it a buffer, takes them at once.            *)
BacklogOnlyWhileUnarmed == rx.backlog # <<>> => ~CanReceive(rx)

(* No request lies where nothing will fetch it. *)
NothingStuck == QueueMoves /\ BacklogOnlyWhileUnarmed

(* "so the task that examines it sees every frame in order" (the receive    *)
(* FIFO's comment): the firmware's task examines each delivered frame once. *)
EachReadOnce ==
    Prompt /\ setup.fifo =>
        /\ Len(read) <= Len(rx.handed)
        /\ \A i \in 1..Len(read) : read[i] = rx.handed[i]

(* What MAIN is asked, its task examines: in order, nothing twice, nothing  *)
(* lost but by a full FIFO or a full backlog.                               *)
ReadInOrder == InOrder /\ EachReadOnce

(* Whatever the firmware does with its receive interrupt, or does not, a    *)
(* request in the FIFO goes on: "with a 50 ms watchdog in case a frame is   *)
(* never acknowledged".                                                     *)
QueueDrains ==
    \A f \in Requests :
        (setup.firmware > Watchdog /\ f \in ToSet(rx.queue)) ~> (f \notin ToSet(rx.queue))

(* Every record the firmware armed the transmit half with went out, in      *)
(* flight or not when the next one came.                                    *)
AllSent == tx.wire = records.record

(* "without the completion the sender is dead for the rest of the run":     *)
(* whatever it armed with, the firmware's transmit-in-progress flag clears. *)
TxRecovers == busy ~> ~busy

(* Two frames never go into the buffer closer than the gap, and a frame "is *)
(* only accepted while the driver has a receive armed, so the guest can     *)
(* never be handed a frame it has nowhere to put": nothing but the gap      *)
(* keeps the FIFO from handing one over inside the re-arm.                  *)
HandedInTime ==
    [][rx'.handed # rx.handed =>
          /\ setup.fifo => rx.since >= Gap /\ Len(rx'.handed) = Len(rx.handed) + 1
          /\ Prompt /\ ~setup.oneShot => rx.armed \/ rx'.armed]_vars

(* "co-simulated requests overflowed the backlog; the oldest are dropped":  *)
(* an overflow gives up no more than the new request needs room for.        *)
OldestDropped ==
    [][Len(rx.backlog) = BacklogMax /\ requests' # requests =>
          rx'.lost <= rx.lost + 1]_vars
=============================================================================
