------------------------------ MODULE DspAudio ------------------------------
(***************************************************************************)
(* How the DSP's audio leaves it: the transfer controller EDMA              *)
(* (emulator/qemu/cdj_c6747_edma.c) moves words from a double buffer to the *)
(* serial port McASP (cdj_c6747_mcasp.c), which sends one on each of its    *)
(* serializers in a slot; both are put together in cdj2000_nxs_hpi.c, where *)
(* every register write and every slot is a transaction: the requests it    *)
(* makes are served at once, and if one cannot be nothing of it happens.    *)
(*                                                                          *)
(* Channel 3 feeds the port.  Its parameters link to those of the other     *)
(* half of the buffer, in turn; a half that is done is announced to the     *)
(* program, whose service routine is external, and the first also chains    *)
(* channel 7, which copies a block in memory.  A word is its place in the   *)
(* buffer.  QDMA, the second region, changes of the serializers' modes and  *)
(* formats, DIT and the clock's rate are left out; the order of a slot's    *)
(* words is what the port writes, not what a converter makes of them.       *)
(*                                                                          *)
(* The program keeps to an order: it clears a latched event, and all of     *)
(* XSTAT, only while the serializers are in reset.                          *)
(***************************************************************************)
EXTENDS Integers, Sequences, FiniteSets

CONSTANTS
    Serializers,    \* the transmitting serializers, 1 to this
    HalfFrames,     \* frames of half the buffer
    ServiceLimit,   \* requests one transaction may serve, 1048576: one and its chained one
    MaxSlots,       \* bound: slots of a run
    MaxAudioWrites  \* bound: the program's register writes beside the routine's

ASSUME DspAudioAssumption ==
    /\ Serializers \in Nat \ {0} /\ HalfFrames \in Nat \ {0}
    /\ ServiceLimit \in Nat \ {0, 1} /\ MaxSlots \in Nat /\ MaxAudioWrites \in Nat

VARIABLES
    edma,       \* the EDMA's registers and parameters
    mcasp,      \* the serial port's
    irq,        \* event 8 has been requested of the core
    isr,        \* where the service routine is, and the completions it read
    wire,       \* history: the words of each slot sent
    restarts,   \* history: after which of them the serializers were reset
    halves,     \* history: halves of the buffer done
    audioWrites, slotsRun,
    audioFault  \* a slot or a write was refused, and the DSP stopped

audioVars == <<edma, mcasp, irq, isr, wire, restarts, halves, audioWrites, slotsRun, audioFault>>

Ping == 0                           \* the parameters of the halves
Pong == 1
Feeder == 3                           \* the channels
Copier == 7
HalfWords == HalfFrames * Serializers
Ends == Serializers + 1             \* no serializer is to be written

(* The shapes of a half: a word an event, as one row or in frames, or a     *)
(* frame an event.                                                          *)
Half(shape, half) ==
    [src |-> half * HalfWords, ab |-> shape = "frame", static |-> FALSE,
     bcnt |-> IF shape = "row" THEN HalfWords ELSE Serializers,
     ccnt |-> IF shape = "row" THEN 1 ELSE HalfFrames,
     brld |-> Serializers, bidx |-> 1,
     cidx |-> IF shape = "frame" THEN Serializers ELSE 1,
     link |-> 1 - half, tcint |-> TRUE, tcch |-> half = Ping,
     tcc |-> IF half = Ping THEN Copier ELSE Feeder]

Block == [src |-> 0, ab |-> TRUE, static |-> TRUE, bcnt |-> 1, ccnt |-> 1, brld |-> 0,
          bidx |-> 0, cidx |-> 0, link |-> Ping, tcint |-> FALSE, tcch |-> FALSE, tcc |-> 0]

AudioInit ==
    /\ \E shape \in {"row", "rows", "frame"} :
         edma = [param |-> [set \in {Ping, Pong, Feeder, Copier} |->
                               IF set = Copier THEN Block
                               ELSE Half(shape, IF set = Pong THEN Pong ELSE Ping)],
                 er |-> {}, eer |-> {Copier}, cer |-> {}, emr |-> {}, ipr |-> {}, notify |-> FALSE]
    /\ \E active \in {{0, 1}, {1}} :
         mcasp = [gblctl |-> {}, xrdy |-> {}, next |-> Ends, xdata |-> FALSE,
                  xundrn |-> FALSE, xdmaerr |-> FALSE, slot |-> 0 - 1, xtdm |-> active,
                  xbuf |-> [n \in 1..Serializers |-> 0],
                  fresh |-> {}, writes |-> 0]
    /\ irq = FALSE /\ isr = [at |-> "idle", read |-> {}]
    /\ wire = <<>> /\ restarts = {} /\ halves = <<0, 0>>
    /\ audioWrites = 0 /\ slotsRun = 0 /\ audioFault = FALSE

-----------------------------------------------------------------------------
(* The port. *)

All == 1..Serializers

(* note_xbuf_write, at the DMA port, which goes through the serializers. *)
PortWritten(x, word) ==
    IF x.next = Ends THEN [x EXCEPT !.xdmaerr = TRUE]
    ELSE [x EXCEPT !.xbuf[x.next] = word, !.fresh = @ \cup {x.next},
                   !.xrdy = @ \ {x.next}, !.next = @ + 1, !.writes = @ + 1,
                   !.xdata = @ /\ x.xrdy # {x.next}]

(* write_gblctl: the serializers, the state machine and the frame sync in   *)
(* reset or released.                                                       *)
Gblctl(x, bits) ==
    LET rising == bits \ x.gblctl
        clear == "srclr" \notin bits
        y == [x EXCEPT !.gblctl = bits,
                       !.slot = IF "frst" \in bits THEN @ ELSE -1,
                       !.xrdy = IF clear THEN {} ELSE IF "srclr" \in rising THEN All ELSE @,
                       !.next = IF clear THEN Ends ELSE IF "srclr" \in rising THEN 1 ELSE @,
                       !.xdata = IF clear THEN FALSE ELSE @ \/ "srclr" \in rising]
    IN  [y EXCEPT !.xundrn = @ \/ ("smrst" \in rising /\ y.xrdy # {})]

(* cdj_c6747_mcasp_tx_slot: in an active slot every serializer sends the    *)
(* word it was given, or the last one again, and asks for the next.         *)
NextSlot(x) == (x.slot + 1) % 2
SlotSent(x) ==
    IF NextSlot(x) \notin x.xtdm THEN [x EXCEPT !.slot = NextSlot(x)]
    ELSE [x EXCEPT !.slot = NextSlot(x), !.fresh = {}, !.xundrn = @ \/ x.fresh # All,
                   !.xrdy = All, !.next = 1, !.xdata = TRUE]

-----------------------------------------------------------------------------
(* The EDMA.  A transaction is its registers, the port's and the requests   *)
(* still to serve; it fails if one cannot be served.                        *)

Transaction(e, x) == [e |-> e, x |-> x, queue |-> <<>>, ok |-> TRUE, done |-> <<0, 0>>]
Failed(t) == [t EXCEPT !.ok = FALSE]

(* transfer_bytes: one array, or the bcnt arrays of a frame. *)
Moved(t, ch, p) ==
    LET arrays == IF p.ab THEN p.bcnt ELSE 1
        after[i \in 0..arrays] ==
            IF i = 0 THEN t.x ELSE PortWritten(after[i - 1], p.src + (i - 1) * p.bidx)
    IN  IF ch = Feeder THEN after[arrays] ELSE t.x

Final(p) == (p.ab \/ p.bcnt = 1) /\ p.ccnt = 1

(* A slip: a set is linked one event late. *)
AdvancedLate(param, ch) ==
    LET p == param[ch]
    IN  IF p.static THEN p
        ELSE IF Final(p) /\ p.src % 2 = 0 THEN param[p.link]
        ELSE IF p.ab THEN [p EXCEPT !.ccnt = @ - 1, !.src = @ + p.cidx]
        ELSE IF p.bcnt > 1 THEN [p EXCEPT !.bcnt = @ - 1, !.src = @ + p.bidx]
        ELSE [p EXCEPT !.bcnt = p.brld, !.ccnt = @ - 1, !.src = @ + p.cidx]

(* What follows in the parameters: the next array or frame, or the linked   *)
(* set; STATIC keeps them.                                                  *)
Advanced(param, ch) ==
    LET p == param[ch]
    IN  IF p.static THEN p
        ELSE IF Final(p) THEN param[p.link]
        ELSE IF p.ab THEN [p EXCEPT !.ccnt = @ - 1, !.src = @ + p.cidx]
        ELSE IF p.bcnt > 1 THEN [p EXCEPT !.bcnt = @ - 1, !.src = @ + p.bidx]
        ELSE [p EXCEPT !.bcnt = p.brld, !.ccnt = @ - 1, !.src = @ + p.cidx]

(* complete_one: the transfer, the parameters, the completion, which is a   *)
(* pulse only where none was pending, and the chained channel.              *)
Completed(t, ch) ==
    LET p == t.e.param[ch]
        final == Final(p)
        chains == final /\ p.tcch
    IN  IF p.bcnt = 0 \/ p.ccnt = 0 THEN Failed(t)
        ELSE [t EXCEPT
                !.x = Moved(t, ch, p),
                !.e.er = @ \ {ch}, !.e.param[ch] = Advanced(t.e.param, ch),
                !.e.ipr = IF final /\ p.tcint THEN @ \cup {p.tcc} ELSE @,
                !.e.notify = @ \/ (final /\ p.tcint /\ t.e.ipr = {}),
                !.e.emr = IF chains /\ p.tcc \in t.e.cer \ {ch} THEN @ \cup {p.tcc} ELSE @,
                !.e.cer = (@ \ {ch}) \cup (IF chains THEN {p.tcc} ELSE {}),
                !.queue = IF chains THEN Append(@, p.tcc) ELSE @,
                !.done = IF ch = Copier THEN <<@[1], @[2] + 1>>
                         ELSE IF chains THEN <<@[1] + 1, @[2]>> ELSE @]

(* service: the queue, to its end. *)
Served(t, events) ==
    LET after[i \in 0..ServiceLimit] ==
            IF i = 0 THEN [t EXCEPT !.queue = events]
            ELSE LET u == after[i - 1]
                 IN  IF u.queue = <<>> \/ ~u.ok THEN u
                     ELSE Completed([u EXCEPT !.queue = Tail(@)], Head(u.queue))
        last == after[ServiceLimit]
    IN  IF last.queue # <<>> THEN Failed(last) ELSE last

(* cdj_c6747_edma_event: a channel not enabled latches its event. *)
EdmaEvent(t, ch) ==
    IF ch \notin t.e.eer THEN [t EXCEPT !.e.er = @ \cup {ch}]
    ELSE Served([t EXCEPT !.e.emr = IF ch \in t.e.er THEN @ \cup {ch} ELSE @,
                          !.e.er = @ \cup {ch}], <<ch>>)

(* service_mcasp_axevt: while the port asks, and is given something. *)
Fed(t) ==
    LET after[i \in 0..Serializers] ==
            IF i = 0 THEN [t |-> t, more |-> TRUE]
            ELSE LET u == after[i - 1].t
                     v == EdmaEvent(u, Feeder)
                 IN  IF ~after[i - 1].more \/ ~u.ok \/ ~u.x.xdata THEN after[i - 1]
                     ELSE [t |-> v, more |-> v.x.writes # u.x.writes]
        end == after[Serializers].t
    IN  [end EXCEPT !.x.writes = 0]

(* edma_mcasp_transaction and advance_functional_mcasp_slots: all of it, or *)
(* the DSP stops; a completion's pulse goes to the core.                    *)
Commits(t) ==
    LET u == Fed(t)
    IN  /\ audioFault' = ~u.ok
        /\ edma' = IF u.ok THEN [u.e EXCEPT !.notify = FALSE] ELSE edma
        /\ mcasp' = IF u.ok THEN u.x ELSE mcasp
        /\ irq' = (irq \/ (u.ok /\ u.e.notify))
        /\ halves' = IF u.ok THEN <<halves[1] + u.done[1], halves[2] + u.done[2]>> ELSE halves

Now == Transaction(edma, mcasp)

-----------------------------------------------------------------------------
(* The slots. *)

Runs == {"srclr", "smrst", "frst"}

Slot ==
    /\ ~audioFault /\ mcasp.gblctl = Runs /\ slotsRun < MaxSlots /\ slotsRun' = slotsRun + 1
    /\ Commits([Now EXCEPT !.x = SlotSent(mcasp)])
    /\ wire' = IF NextSlot(mcasp) \in mcasp.xtdm
               THEN Append(wire, [words |-> mcasp.xbuf, fresh |-> mcasp.fresh]) ELSE wire
    /\ UNCHANGED <<isr, restarts, audioWrites>>

-----------------------------------------------------------------------------
(* The program. *)

Write(t) ==
    /\ ~audioFault /\ audioWrites < MaxAudioWrites /\ audioWrites' = audioWrites + 1
    /\ Commits(t) /\ UNCHANGED <<isr, wire, slotsRun>>

WriteGblctl ==
    \E bits \in {{}, {"srclr"}, {"srclr", "smrst"}, Runs} :
        /\ bits # mcasp.gblctl /\ Write([Now EXCEPT !.x = Gblctl(mcasp, bits)])
        /\ restarts' = IF bits = {} THEN restarts \cup {Len(wire)} ELSE restarts

(* EESR: an event latched before is served at once. *)
EnableEvents ==
    /\ Feeder \notin edma.eer /\ (mcasp.gblctl = {} => Feeder \notin edma.er)
    /\ Write(LET t == [Now EXCEPT !.e.eer = @ \cup {Feeder}]
             IN  IF Feeder \in edma.er THEN Served(t, <<Feeder>>) ELSE t)
    /\ UNCHANGED restarts

DisableEvents ==
    /\ Feeder \in edma.eer /\ Write([Now EXCEPT !.e.eer = @ \ {Feeder}]) /\ UNCHANGED restarts

(* ECR, and XSTAT with all its bits. *)
ClearEvents ==
    /\ mcasp.gblctl = {} /\ Feeder \in edma.er
    /\ Write([Now EXCEPT !.e.er = @ \ {Feeder}]) /\ UNCHANGED restarts

ClearXstat ==
    \E all \in BOOLEAN :
        /\ all => mcasp.gblctl = {}
        /\ mcasp.xundrn \/ mcasp.xdmaerr
        /\ Write([Now EXCEPT !.x.xundrn = FALSE, !.x.xdmaerr = FALSE, !.x.xdata = @ /\ ~all])
        /\ UNCHANGED restarts

(* The service routine of event 8: it reads IPR, writes what it read to     *)
(* ICR, and ends with IEVAL, which asks for another pulse if need be.       *)
Routine(from, to, t) ==
    /\ ~audioFault /\ isr.at = from /\ isr' = [at |-> to, read |-> {}] /\ Commits(t)
    /\ UNCHANGED <<wire, restarts, audioWrites, slotsRun>>

EnterRoutine ==
    /\ ~audioFault /\ irq /\ isr.at = "idle" /\ irq' = FALSE /\ isr' = [isr EXCEPT !.at = "reads"]
    /\ UNCHANGED <<edma, mcasp, wire, restarts, halves, audioWrites, slotsRun, audioFault>>
ReadIpr ==
    /\ ~audioFault /\ isr.at = "reads" /\ isr' = [at |-> "clears", read |-> edma.ipr]
    /\ UNCHANGED <<edma, mcasp, irq, wire, restarts, halves, audioWrites, slotsRun, audioFault>>
WriteIcr ==
    Routine("clears", "evaluates", [Now EXCEPT !.e.ipr = @ \ isr.read])
WriteIeval ==
    Routine("evaluates", "idle", [Now EXCEPT !.e.notify = @ \/ edma.ipr # {}])

AudioNext ==
    \/ Slot \/ WriteGblctl \/ EnableEvents \/ DisableEvents \/ ClearEvents \/ ClearXstat
    \/ EnterRoutine \/ ReadIpr \/ WriteIcr \/ WriteIeval

AudioSpec == AudioInit /\ [][AudioNext]_audioVars

-----------------------------------------------------------------------------
(* Properties. *)

AudioTypeOK ==
    /\ edma.er \subseteq {Feeder, Copier} /\ edma.cer \subseteq {Feeder, Copier}
    /\ \A set \in DOMAIN edma.param : edma.param[set].src \in 0..2 * HalfWords
    /\ mcasp.next \in 1..Ends /\ mcasp.xrdy \subseteq All /\ mcasp.fresh \subseteq All
    /\ mcasp.slot \in -1..1 /\ isr.at \in {"idle", "reads", "clears", "evaluates"}
    /\ audioWrites \in 0..MaxAudioWrites /\ slotsRun \in 0..MaxSlots

(* "A transfer empties every active serializer buffer in lockstep": the     *)
(* serializers of a slot send the words of one frame, the first of a frame  *)
(* on the first, or all of them the last ones again.                        *)
FramesWhole ==
    \A k \in 1..Len(wire) :
        LET frame == wire[k]
        IN  /\ frame.fresh \in {{}, All}
            /\ frame.fresh = All =>
                  /\ frame.words[1] % Serializers = 0
                  /\ \A n \in All : frame.words[n] = frame.words[1] + n - 1

(* Frame after frame of the buffer is sent, ping and pong in turn, none     *)
(* twice and, unless the serializers were reset between, none left out.     *)
FramesInOrder ==
    \A k \in 2..Len(wire) :
        LET before == {j \in 1..k - 1 : wire[j].fresh = All}
            last == CHOOSE j \in before : \A i \in before : i <= j
        IN  before # {} /\ wire[k].fresh = All /\ (\A r \in restarts : r < last \/ r >= k) =>
                wire[k].words[1] = (wire[last].words[1] + Serializers) % (2 * HalfWords)

(* A completion the program has not been told of is requested of the core,  *)
(* or the routine will still ask: a pulse is made only where none was       *)
(* pending, and one half can be done while the routine clears another.      *)
CompletionAnnounced ==
    edma.ipr # {} => irq \/ isr.at \in {"reads", "clears", "evaluates"}

(* Each time the first half is done the chained copy is made, in the same   *)
(* transaction, and no request is refused.                                  *)
CopiedInTime == ~audioFault /\ halves[1] = halves[2] /\ edma.cer = {}

AudioExact == FramesWhole /\ FramesInOrder /\ CompletionAnnounced /\ CopiedInTime
=============================================================================
