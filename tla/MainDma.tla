------------------------------ MODULE MainDma ------------------------------
(***************************************************************************)
(* MAIN's DMA controller and the SD host it serves, in                     *)
(* emulator/qemu/cdj2000_main.c.  A transfer runs inside the store that    *)
(* starts its channel, except where the firmware could not bear that: the  *)
(* panel's halves, the USB module's bursts and the card's blocks come      *)
(* later.  A completion raises a level on a vector, which the handler must *)
(* be able to take down.                                                   *)
(*                                                                         *)
(* The firmware is the one the source's comments describe: a panel task,   *)
(* a card driver of one DMA per block, the PCM sender, the boot download.  *)
(*                                                                         *)
(* An operator headed "A slip" is the definition below it with a mistake   *)
(* in it, for trying the properties; no specification uses one.            *)
(***************************************************************************)
EXTENDS Integers, Sequences, FiniteSets

CONSTANTS
    MaxBlocks,      \* the longest transfer of the card driver
    CardWrites,     \* does the driver also write to the card
    MaxDmaJobs      \* bound: jobs the firmware starts

ASSUME MainDmaAssumption ==
    /\ MaxBlocks \in Nat \ {0} /\ CardWrites \in BOOLEAN /\ MaxDmaJobs \in Nat

VARIABLES
    chan,       \* the channels: what is programmed, the role taken, CHCR
    pend,       \* completions raised and not taken down, by their consumer
    panelTimer, \* the panel exchange is on its way
    usbBusy,    \* the USB module moves a burst
    sdhi,       \* the SD host controller
    card,       \* the card: its state, the next block, what was written
    panel,      \* the firmware's panel task and the halves it has seen end
    driver,     \* the firmware's card driver
    memory,     \* the blocks the present read has brought to memory
    stage,      \* which program runs: the loader or the application
    dmaJobs

dmaVars == <<chan, pend, panelTimer, usbBusy, sdhi, card, panel, driver, memory,
             stage, dmaJobs>>
cardVars == <<sdhi, card, driver, memory>>

Channels == {2, 3, 4, 5, 8}
Users == {"rx", "tx", "card", "dsp", "dma5", "usb"}
NoChannel == 0

RxChannel == IF stage = "loader" THEN 4 ELSE 3
TxChannel == IF stage = "loader" THEN 5 ELSE 4

DmaInit ==
    /\ chan = [c \in Channels |-> [ends |-> "plain", role |-> "plain",
                                   armed |-> FALSE, te |-> FALSE, ie |-> FALSE]]
    /\ pend = [u \in Users |-> NoChannel]
    /\ panelTimer = FALSE /\ usbBusy = FALSE
    /\ sdhi = [rxrdy |-> FALSE, txrq |-> FALSE, masked |-> TRUE, dataend |-> FALSE,
               open |-> FALSE, full |-> FALSE, buf |-> 0, left |-> 0, multi |-> FALSE,
               stop |-> FALSE, writing |-> FALSE, timer |-> FALSE, present |-> TRUE]
    /\ card = [state |-> "tran", next |-> 1, written |-> <<>>]
    /\ panel = [at |-> "idle", seen |-> {}]
    /\ driver = [at |-> "idle", write |-> FALSE, todo |-> 0, blocks |-> 0,
                 events |-> {}, disturbed |-> FALSE]
    /\ memory = <<>> /\ dmaJobs = 0
    /\ stage \in {"loader", "application"}

-----------------------------------------------------------------------------
(* CHCR, and the completions. *)

(* A slip: only clearing TE acknowledges. *)
DroppedByTE(u, c, te, ie) ==
    CASE u = "rx" -> ~te /\ chan[c].role = "rx"
      [] u = "tx" -> ~te /\ chan[c].role = "tx"
      [] u = "card" -> ~te /\ chan[c].ends = "card_in"
      [] u = "dsp" -> ~te /\ chan[c].role = "dsp" /\ c # 5
      [] u = "dma5" -> c = 5 /\ ~te
      [] u = "usb" -> c = pend["usb"] /\ ~te

(* A store to CHCR takes down the level of a completion it acknowledges:   *)
(* by clearing TE, or on channel 5 and the USB channel IE as well.  Whose  *)
(* it is is told by the role the channel last ran in, the card's by SAR.   *)
Dropped(u, c, te, ie) ==
    CASE u = "rx" -> ~te /\ chan[c].role = "rx"
      [] u = "tx" -> ~te /\ chan[c].role = "tx"
      [] u = "card" -> ~te /\ chan[c].ends = "card_in"
      [] u = "dsp" -> ~te /\ chan[c].role = "dsp" /\ c # 5
      [] u = "dma5" -> c = 5 /\ (~te \/ ~ie)
      [] u = "usb" -> c = pend["usb"] /\ (~te \/ ~ie)

PendAfter(c, te, ie) ==
    [u \in Users |-> IF Dropped(u, c, te, ie) THEN NoChannel ELSE pend[u]]

(* The handler's store to CHCR, which starts nothing. *)
Store(c, te, ie) ==
    /\ pend' = PendAfter(c, te, ie)
    /\ chan' = [chan EXCEPT ![c].te = te, ![c].ie = ie]

(* Raised on the vector of the channel it ran on; a level already up stays. *)
Raise(p, u, c) == IF p[u] = NoChannel THEN [p EXCEPT ![u] = c] ELSE p
Vector(u, c) == c

(* The channel is programmed and started: TE = 0, IE = 1, DE = 1. *)
Started(c, ends, role, armed, te) ==
    chan' = [chan EXCEPT ![c] = [ends |-> ends, role |-> role, armed |-> armed,
                                 te |-> te, ie |-> TRUE]]

Job == dmaJobs < MaxDmaJobs /\ dmaJobs' = dmaJobs + 1

-----------------------------------------------------------------------------
(* The panel.  The task arms the transmit half, then the receive half; both *)
(* end when the timer fires, transmit first.                                *)

StartPanelHalf(u, c) ==
    /\ pend' = PendAfter(c, FALSE, TRUE)
    /\ Started(c, "panel", u, TRUE, FALSE)
    /\ panelTimer' = TRUE
    /\ UNCHANGED <<usbBusy, cardVars, stage>>

ArmTx ==
    /\ Job /\ panel.at = "idle"
    /\ StartPanelHalf("tx", TxChannel)
    /\ panel' = [at |-> "tx_armed", seen |-> {}]

ArmRx ==
    /\ panel.at = "tx_armed"
    /\ StartPanelHalf("rx", RxChannel)
    /\ panel' = [panel EXCEPT !.at = "waiting"] /\ UNCHANGED dmaJobs

ArmedFor(u) == {c \in Channels : chan[c].armed /\ chan[c].role = u}

(* The timer's call.  The panel answers what is armed; a half that is armed *)
(* later gets a call of its own.                                            *)
PanelDone ==
    /\ panelTimer /\ panelTimer' = FALSE
    /\ chan' = [c \in Channels |->
                  IF chan[c].armed THEN [chan[c] EXCEPT !.armed = FALSE, !.te = TRUE]
                  ELSE chan[c]]
    /\ pend' = [u \in Users |->
                  IF u \in {"rx", "tx"} /\ \E c \in ArmedFor(u) : chan[c].ie
                  THEN Vector(u, CHOOSE c \in ArmedFor(u) : chan[c].ie) ELSE pend[u]]
    /\ UNCHANGED <<usbBusy, cardVars, panel, stage, dmaJobs>>

(* The interrupt of a panel channel: the handler takes TE down. *)
PanelHandler(u) ==
    LET c == IF u = "rx" THEN RxChannel ELSE TxChannel
    IN  /\ pend[u] = c
        /\ Store(c, FALSE, chan[c].ie)
        /\ panel' = [at |-> IF panel.seen \union {u} = {"rx", "tx"} THEN "idle"
                            ELSE panel.at,
                     seen |-> panel.seen \union {u}]
        /\ UNCHANGED <<panelTimer, usbBusy, cardVars, stage, dmaJobs>>

-----------------------------------------------------------------------------
(* The DSP: channel 8 downloads its program, channel 5 feeds it sound; the *)
(* copy is made in the store.  Its level is not raised over one that is up.*)

StartDsp(c) ==
    /\ Job /\ stage = "application"
    /\ c = 8 => driver.at = "idle" /\ pend["card"] = NoChannel
    /\ c = 5 \/ pend["dsp"] = NoChannel
    /\ Started(c, "dsp", "dsp", FALSE, TRUE)
    /\ pend' = Raise(PendAfter(c, FALSE, TRUE), IF c = 5 THEN "dma5" ELSE "dsp", c)
    /\ UNCHANGED <<panelTimer, usbBusy, cardVars, panel, stage>>

(* The boot download's handler clears bits 2 (IE), 0 (DE) and 1 (TE). *)
DspHandler ==
    /\ pend["dsp"] = 8
    /\ IF chan[8].ie THEN Store(8, chan[8].te, FALSE) ELSE Store(8, FALSE, FALSE)
    /\ UNCHANGED <<panelTimer, usbBusy, cardVars, panel, stage, dmaJobs>>

(* Channel 5's clears IE, and leaves TE for the sender. *)
Dma5Handler ==
    /\ pend["dma5"] = 5
    /\ Store(5, chan[5].te, FALSE)
    /\ UNCHANGED <<panelTimer, usbBusy, cardVars, panel, stage, dmaJobs>>

-----------------------------------------------------------------------------
(* The USB module's bursts: the module reports the end. *)

StartUsb ==
    /\ Job /\ stage = "application" /\ ~usbBusy /\ pend["usb"] = NoChannel
    /\ pend' = PendAfter(2, FALSE, TRUE)
    /\ Started(2, "usb", "usb", FALSE, FALSE)
    /\ usbBusy' = TRUE
    /\ UNCHANGED <<panelTimer, cardVars, panel, stage>>

UsbDone ==
    /\ usbBusy /\ usbBusy' = FALSE
    /\ chan' = [chan EXCEPT ![2].te = TRUE]
    /\ pend' = Raise(pend, "usb", 2)
    /\ UNCHANGED <<panelTimer, cardVars, panel, stage, dmaJobs>>

UsbHandler ==
    /\ pend["usb"] = 2
    /\ \E te \in BOOLEAN : Store(2, te, FALSE)
    /\ UNCHANGED <<panelTimer, usbBusy, cardVars, panel, stage, dmaJobs>>
-----------------------------------------------------------------------------
(* The SD host: one block buffer, filled or offered after SDHI_XFER_NS so   *)
(* that RXRDY never comes inside the store that begins the block.           *)

CardLine == (sdhi.rxrdy \/ sdhi.txrq) /\ ~sdhi.masked

(* The end of the data phase; a counted transfer is stopped by CMD12.       *)
DataEnd(s) == [s EXCEPT !.left = 0, !.dataend = TRUE, !.multi = FALSE]
(* A slip: the card is not stopped. *)
CardRunsOn(s, k) == k

CardAfterEnd(s, k) == IF s.multi /\ s.stop THEN [k EXCEPT !.state = "tran"] ELSE k

(* A slip: the next block is announced at once.                             *)
BlockDoneAtOnce(s, k) ==
    LET quiet == [s EXCEPT !.rxrdy = FALSE, !.txrq = FALSE]
    IN  IF s.left > 1
        THEN <<[quiet EXCEPT !.left = @ - 1, !.rxrdy = ~s.writing, !.txrq = s.writing,
                             !.full = FALSE], k>>
        ELSE <<DataEnd(quiet), CardAfterEnd(s, k)>>

(* A block has been moved: the next one is announced later, or it was the   *)
(* last.                                                                    *)
BlockDone(s, k) ==
    LET quiet == [s EXCEPT !.rxrdy = FALSE, !.txrq = FALSE]
    IN  IF s.left > 1
        THEN <<[quiet EXCEPT !.left = @ - 1, !.timer = TRUE], k>>
        ELSE <<DataEnd(quiet), CardAfterEnd(s, k)>>

(* The store that begins a data phase of n blocks.  An absent card answers  *)
(* nothing, and neither does one still sending: a command timeout.          *)
Answered == sdhi.present /\ card.state = "tran"

Begin(write, n) ==
    /\ sdhi' = [sdhi EXCEPT !.masked = FALSE, !.rxrdy = FALSE, !.txrq = FALSE,
                            !.dataend = FALSE, !.open = Answered, !.full = FALSE,
                            !.stop = n > 1,
                            !.multi = IF Answered THEN n > 1 ELSE @,
                            !.left = IF Answered THEN n ELSE 0,
                            !.writing = IF Answered THEN write ELSE @,
                            !.timer = @ \/ Answered]
    /\ card' = IF Answered
               THEN [card EXCEPT !.state = IF write THEN "rcv" ELSE "data",
                                 !.next = 1, !.written = <<>>]
               ELSE card

(* The data timer.  Reading the block of a single-block command ends it.    *)
DataReady ==
    /\ sdhi.timer
    /\ IF ~sdhi.open
       THEN sdhi' = [sdhi EXCEPT !.timer = FALSE] /\ UNCHANGED card
       ELSE IF sdhi.writing
       THEN sdhi' = [sdhi EXCEPT !.timer = FALSE, !.txrq = TRUE, !.full = FALSE]
            /\ UNCHANGED card
       ELSE /\ sdhi' = [sdhi EXCEPT !.timer = FALSE, !.rxrdy = TRUE, !.full = FALSE,
                                    !.buf = card.next]
            /\ card' = [card EXCEPT !.next = @ + 1,
                                    !.state = IF sdhi.multi THEN @ ELSE "tran"]
    /\ UNCHANGED <<chan, pend, panelTimer, usbBusy, panel, driver, memory, stage,
                   dmaJobs>>

(* The driver arms its wait after the store: an interrupt that comes inside *)
(* the store is handled before, and forgotten.                              *)
BeforeArmed(s) == [s EXCEPT !.rxrdy = FALSE, !.txrq = FALSE]

(* What a DMA at the data port does.  With no block the channel completes   *)
(* all the same and moves nothing; past the end of one it moves rubbish, 0. *)
CardTransfer(out) ==
    LET moved == IF sdhi.full THEN 0 ELSE sdhi.buf
        after == IF out
                 THEN BlockDone([sdhi EXCEPT !.full = FALSE],
                        [card EXCEPT !.written = Append(@, driver.blocks - driver.todo + 1),
                                     !.state = IF sdhi.multi THEN @ ELSE "tran"])
                 ELSE BlockDone([sdhi EXCEPT !.full = TRUE], card)
    IN  IF ~sdhi.open \/ (out /\ ~sdhi.writing)
        THEN UNCHANGED <<sdhi, card, memory>>
        ELSE /\ sdhi' = BeforeArmed(after[1]) /\ card' = after[2]
             /\ memory' = IF out THEN memory ELSE Append(memory, moved)

(* "sd eject" and "sd insert" of the panel's input channel, at any time.    *)
Eject ==
    /\ Job /\ sdhi.present
    /\ sdhi' = [sdhi EXCEPT !.present = FALSE, !.open = FALSE, !.full = FALSE,
                            !.left = 0]
    /\ driver' = [driver EXCEPT !.disturbed = TRUE]
    /\ UNCHANGED <<chan, pend, panelTimer, usbBusy, card, panel, memory, stage>>

Insert ==
    /\ Job /\ ~sdhi.present
    /\ sdhi' = [sdhi EXCEPT !.present = TRUE]
    /\ UNCHANGED <<chan, pend, panelTimer, usbBusy, card, panel, driver, memory, stage>>

-----------------------------------------------------------------------------
(* The card driver: for each block wait for RXRDY or TXRQ, start a DMA of   *)
(* one block, wait for its end; then wait for DATAEND.  An inserted card is *)
(* initialised before it is used, which returns it to the transfer state.   *)

Ask ==
    /\ Job /\ stage = "application" /\ driver.at = "idle" /\ pend["dsp"] = NoChannel
    /\ \E write \in IF CardWrites THEN BOOLEAN ELSE {FALSE}, n \in 1..MaxBlocks :
         /\ Begin(write, n)
         /\ driver' = [at |-> IF Answered THEN "block" ELSE "idle", write |-> write,
                       todo |-> n, blocks |-> n, events |-> {}, disturbed |-> FALSE]
    /\ memory' = <<>>
    /\ UNCHANGED <<chan, pend, panelTimer, usbBusy, panel, stage>>

CardHandler ==
    /\ CardLine
    /\ sdhi' = [sdhi EXCEPT !.rxrdy = FALSE, !.txrq = FALSE]
    /\ driver' = [driver EXCEPT !.events = @ \union {"block"}]
    /\ UNCHANGED <<chan, pend, panelTimer, usbBusy, card, panel, memory, stage, dmaJobs>>

StartCard ==
    /\ driver.at = "block" /\ "block" \in driver.events
    /\ CardTransfer(driver.write)
    /\ Started(8, IF driver.write THEN "card_out" ELSE "card_in", "plain", FALSE, TRUE)
    /\ pend' = Raise(PendAfter(8, FALSE, TRUE), "card", 8)
    /\ driver' = [driver EXCEPT !.at = "moved", !.todo = @ - 1,
                                !.events = @ \ {"block"}]
    /\ UNCHANGED <<panelTimer, usbBusy, panel, stage, dmaJobs>>

CardDmaHandler ==
    /\ pend["card"] = 8
    /\ Store(8, FALSE, FALSE)
    /\ driver' = [driver EXCEPT !.events = @ \union {"moved"}]
    /\ UNCHANGED <<panelTimer, usbBusy, sdhi, card, panel, memory, stage, dmaJobs>>

BlockMoved ==
    /\ driver.at = "moved" /\ "moved" \in driver.events
    /\ driver' = [driver EXCEPT !.at = IF driver.todo = 0 THEN "end" ELSE "block",
                                !.events = @ \ {"moved"}]
    /\ UNCHANGED <<chan, pend, panelTimer, usbBusy, sdhi, card, panel, memory, stage,
                   dmaJobs>>

JobDone ==
    /\ driver.at = "end" /\ sdhi.dataend
    /\ driver' = [driver EXCEPT !.at = "done"]
    /\ sdhi' = [sdhi EXCEPT !.masked = TRUE]
    /\ UNCHANGED <<chan, pend, panelTimer, usbBusy, card, panel, memory, stage, dmaJobs>>

(* The 500-tick wait runs out only when nothing is on its way. *)
NothingComing == ~sdhi.timer /\ ~CardLine /\ driver.events = {}

GiveUp ==
    /\ \/ driver.at = "done"
       \/ driver.at = "block" /\ driver.disturbed /\ NothingComing
       \/ driver.at = "end" /\ driver.disturbed /\ ~sdhi.dataend
    /\ driver' = [driver EXCEPT !.at = "idle"]
    /\ sdhi' = [sdhi EXCEPT !.masked = TRUE]
    /\ card' = IF driver.disturbed THEN [card EXCEPT !.state = "tran"] ELSE card
    /\ UNCHANGED <<chan, pend, panelTimer, usbBusy, panel, memory, stage, dmaJobs>>

PanelSide == ArmTx \/ ArmRx \/ PanelDone \/ \E u \in {"rx", "tx"} : PanelHandler(u)
DspSide == DspHandler \/ Dma5Handler \/ \E c \in {5, 8} : StartDsp(c)
UsbSide == StartUsb \/ UsbDone \/ UsbHandler
CardSide == DataReady \/ Eject \/ Insert \/ Ask \/ CardHandler \/ StartCard
              \/ CardDmaHandler \/ BlockMoved \/ JobDone \/ GiveUp

DmaNext == PanelSide \/ DspSide \/ UsbSide \/ CardSide

DmaSpec == DmaInit /\ [][DmaNext]_dmaVars

-----------------------------------------------------------------------------
(* Properties. *)

DmaTypeOK ==
    /\ chan \in [Channels -> [ends : {"plain", "panel", "card_in", "card_out", "dsp", "usb"},
                              role : {"plain", "rx", "tx", "dsp", "usb"},
                              armed : BOOLEAN, te : BOOLEAN, ie : BOOLEAN]]
    /\ pend \in [Users -> Channels \union {NoChannel}]
    /\ sdhi.left \in 0..MaxBlocks /\ driver.todo \in 0..MaxBlocks
    /\ card.state \in {"tran", "data", "rcv"} /\ card.next \in 1..MaxBlocks + 1
    /\ panel.at \in {"idle", "tx_armed", "waiting"} /\ panel.seen \subseteq {"rx", "tx"}

(* A "channel is pending exactly while it has a completion the guest has    *)
(* not yet taken out of CHCR": a level that is up has an unacknowledged     *)
(* completion under it, on a channel that has a handler, and a completion   *)
(* that asks for an interrupt has its level up.  Only a transfer to the     *)
(* card leaves a level behind it that its acknowledge does not take down:   *)
(* see DmaAcknowledged.                                                     *)
LevelsMatchCompletions ==
    /\ \A u \in Users : pend[u] # NoChannel =>
         /\ chan[pend[u]].te \/ (u = "card" /\ chan[pend[u]].ends = "card_out")
         /\ (u \in {"dma5", "usb"} => chan[pend[u]].ie)
         /\ u = "rx" => pend[u] = RxChannel
         /\ u = "tx" => pend[u] = TxChannel
    /\ \A c \in Channels : chan[c].te /\ chan[c].ie => \E u \in Users : pend[u] = c

(* The handler of the card's DMA acknowledges by clearing TE: "Left         *)
(* asserted it would be re-entered forever".                                *)
DmaAcknowledged == pend["card"] # NoChannel => chan[pend["card"]].te

(* A task that waits for an interrupt has one coming: for the panel's       *)
(* halves, and for the card's next block, its DMA or its DATAEND, as long   *)
(* as the card is in.                                                       *)
SomethingComes ==
    /\ panel.at = "waiting" =>
         panelTimer \/ \E u \in {"rx", "tx"} \ panel.seen : pend[u] # NoChannel
    /\ driver.at = "block" /\ ~driver.disturbed =>
         sdhi.timer \/ CardLine \/ "block" \in driver.events
    /\ driver.at = "moved" => "moved" \in driver.events \/ pend["card"] # NoChannel
    /\ driver.at = "end" /\ ~driver.disturbed => sdhi.dataend

(* A job the driver takes for complete has moved every block once and in    *)
(* order, and left the card ready for the next command.                     *)
JobsComplete ==
    driver.at = "done" =>
        /\ (IF driver.write THEN card.written ELSE memory) = [k \in 1..driver.blocks |-> k]
        /\ card.state = "tran"

(* The levels tell the truth, nobody waits for nothing, and what is called  *)
(* done is done.                                                            *)
DmaExact == LevelsMatchCompletions /\ SomethingComes /\ JobsComplete
=============================================================================
