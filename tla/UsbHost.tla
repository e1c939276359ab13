------------------------------ MODULE UsbHost ------------------------------
(***************************************************************************)
(* The USB host module, emulator/qemu/cdj2000_usbh.c, as MAIN's driver of  *)
(* a memory stick uses it: one bulk pipe out, one in, and a FIFO port that *)
(* the DMA controller empties or fills.  A transaction is issued by one    *)
(* timer, which must be set going ("kicked") by everything that may allow  *)
(* one; the stick answers at once, later, or not yet.                      *)
(*                                                                         *)
(* Data is counted in packets.  The control pipe is left out.              *)
(*                                                                         *)
(* An operator headed "A slip" is the definition below it with a mistake   *)
(* in it, for trying the properties; no specification uses one.            *)
(***************************************************************************)
EXTENDS Integers, Sequences, FiniteSets

CONSTANTS
    UsbSizes,       \* lengths, in packets, of a READ or WRITE
    UsbRates,       \* whether CDJ_USB_READ_BPS is set: the cases to take
    MaxUsbCommands, \* bound: commands of the driver
    MaxNaks         \* bound: NAKs, failed transactions and detaches together

ASSUME UsbHostAssumption ==
    /\ UsbSizes \subseteq Nat \ {0} /\ UsbRates \subseteq BOOLEAN
    /\ MaxUsbCommands \in Nat /\ MaxNaks \in Nat

VARIABLES
    usb,        \* the module: the pipes, the DMA port, status, the timer
    stick,      \* the device: the stage of its command, what it was given
    host,       \* the driver: its step, command, and the memory it reads to
    naks

usbVars == <<usb, stick, host, naks>>

Csw == 0        \* the status packet; data packets are 1, 2, ...
Cbw == -1       \* the command packet
Rubbish == -2   \* never sent

QuietIn == [pid |-> "nak", inflight |-> FALSE, held |-> FALSE, stopped |-> FALSE,
            rx |-> <<>>, pkt |-> Rubbish, trn |-> 0, count |-> 0, retries |-> 0]
QuietOut == [pid |-> "nak", inflight |-> FALSE, tx |-> <<>>, valid |-> FALSE,
             hold |-> FALSE, retries |-> 0]
NoDma == [active |-> FALSE, toFifo |-> FALSE, left |-> 0, dreqe |-> FALSE,
          sel |-> "none", done |-> FALSE]

UsbInit ==
    /\ \E rated \in UsbRates :
         usb = [rated |-> rated, in |-> QuietIn, out |-> QuietOut, dma |-> NoDma,
                sts |-> {}, timer |-> FALSE, attached |-> TRUE, memory |-> <<>>]
    /\ stick = [stage |-> "cbw", write |-> FALSE, next |-> 1, size |-> 0, got |-> <<>>]
    /\ host = [at |-> "idle", write |-> FALSE, size |-> 0, commands |-> 0,
                status |-> FALSE]
    /\ naks = 0

-----------------------------------------------------------------------------
(* The module, as functions of its state. *)

Kick(u) == [u EXCEPT !.timer = TRUE]

(* The DMA port moves what it can while DREQE points it at a pipe: to the  *)
(* transmit buffer everything at once, which then waits a microframe; from *)
(* the receive buffer what is there.                                       *)
ServiceDma(u) ==
    LET d == u.dma
        n == IF Len(u.in.rx) < d.left THEN Len(u.in.rx) ELSE d.left
        filled == [u EXCEPT !.out.tx = @ \o [k \in 1..d.left |-> k], !.out.valid = TRUE,
                            !.out.hold = TRUE, !.timer = TRUE, !.dma.left = 0]
        drained == [u EXCEPT !.memory = @ \o SubSeq(u.in.rx, 1, n),
                             !.in.rx = SubSeq(@, n + 1, Len(@)), !.dma.left = @ - n,
                             !.timer = @ \/ (n > 0 /\ n = Len(u.in.rx))]
        moved == IF ~d.toFifo THEN drained
                 ELSE IF u.out.valid \/ d.left = 0 THEN u ELSE filled
    IN  IF ~d.active \/ ~d.dreqe \/ d.sel = "none" THEN u
        ELSE IF moved.dma.left > 0 THEN moved
        ELSE [moved EXCEPT !.dma.active = FALSE, !.dma.done = TRUE]

(* A slip: a packet that was held back is still held when it is delivered. *)
FinishInStillHeld(u, pkt) ==
    LET p == u.in
        ends == pkt = Csw \/ (p.trn > 0 /\ p.count + 1 >= p.trn)
        taken == [u EXCEPT !.in = [p EXCEPT !.inflight = FALSE, !.retries = 0,
                                            !.rx = Append(@, pkt), !.count = @ + 1,
                                            !.stopped = @ \/ ends,
                                            !.pid = IF ends THEN "nak" ELSE @],
                           !.sts = @ \union {"brdy"}]
    IN  Kick(ServiceDma(taken))

(* An IN transaction has brought a packet.  A short packet, or the counted *)
(* one, stops the pipe and puts it to NAK.                                 *)
FinishIn(u, pkt) ==
    LET p == u.in
        ends == pkt = Csw \/ (p.trn > 0 /\ p.count + 1 >= p.trn)
        taken == [u EXCEPT !.in = [p EXCEPT !.inflight = FALSE, !.held = FALSE,
                                            !.retries = 0, !.rx = Append(@, pkt), !.count = @ + 1,
                                            !.stopped = @ \/ ends,
                                            !.pid = IF ends THEN "nak" ELSE @],
                           !.sts = @ \union {"brdy"}]
    IN  Kick(ServiceDma(taken))

(* At a limited rate the packet is held back until its time. *)
DoneIn(u, pkt) ==
    IF u.rated THEN Kick([u EXCEPT !.in.held = TRUE, !.in.inflight = TRUE, !.in.pkt = pkt])
    ELSE FinishIn(u, pkt)

(* An OUT packet has gone; the last one empties the buffer, which is then  *)
(* writable again.                                                         *)
FinishOut(u) ==
    LET rest == IF u.out.tx = <<>> THEN <<>> ELSE Tail(u.out.tx)
        gone == [u EXCEPT !.out.inflight = FALSE, !.out.tx = rest, !.out.retries = 0]
    IN  Kick(IF rest # <<>> THEN gone
             ELSE ServiceDma([gone EXCEPT !.out.valid = FALSE,
                                          !.sts = @ \union {"bemp", "brdy_out"}]))

(* A slip: a NAK is not retried. *)
FailedQuietly(u, pipe, answer) ==
    LET over == [u EXCEPT ![pipe].inflight = FALSE]
        missed == [over EXCEPT ![pipe].retries = @ + 1]
    IN  CASE answer = "nak" -> over
          [] answer = "bad" /\ u[pipe].retries < 2 -> Kick(missed)
          [] answer = "bad" /\ u[pipe].retries >= 2 ->
               [missed EXCEPT ![pipe].pid = "nak", !.sts = @ \union {"nrdy"}]
          [] OTHER -> [over EXCEPT ![pipe].pid = "stall", !.sts = @ \union {"nrdy"}]

(* A NAK is retried; so is no answer or a bad packet, until the third in a *)
(* row, which puts the pipe to NAK; a STALL stops the pipe.  The last two  *)
(* are reported.                                                           *)
Failed(u, pipe, answer) ==
    LET over == [u EXCEPT ![pipe].inflight = FALSE]
        missed == [over EXCEPT ![pipe].retries = @ + 1]
    IN  CASE answer = "nak" -> Kick(over)
          [] answer = "bad" /\ u[pipe].retries < 2 -> Kick(missed)
          [] answer = "bad" /\ u[pipe].retries >= 2 ->
               [missed EXCEPT ![pipe].pid = "nak", !.sts = @ \union {"nrdy"}]
          [] OTHER -> [over EXCEPT ![pipe].pid = "stall", !.sts = @ \union {"nrdy"}]

-----------------------------------------------------------------------------
(* The stick: a command, its data, its status. *)

StickTakes(d, pkt) ==
    CASE d.stage = "cbw" /\ pkt = Cbw ->
           [d EXCEPT !.stage = IF host.write THEN "out" ELSE "in", !.next = 1,
                     !.write = host.write, !.size = host.size, !.got = <<>>]
      [] d.stage = "out" /\ pkt # Cbw ->
           [d EXCEPT !.got = Append(@, pkt), !.next = @ + 1,
                     !.stage = IF d.next = d.size THEN "csw" ELSE @]
      [] OTHER -> [d EXCEPT !.stage = "stalled"]

StickGives(d) ==
    CASE d.stage = "in" -> [d EXCEPT !.next = @ + 1,
                                     !.stage = IF d.next = d.size THEN "csw" ELSE @]
      [] d.stage = "csw" -> [d EXCEPT !.stage = "cbw"]
      [] OTHER -> [d EXCEPT !.stage = "stalled"]
Given(d) == IF d.stage = "in" THEN d.next ELSE Csw

CanOut(u) == u.out.pid = "buf" /\ ~u.out.inflight /\ u.out.valid
CanIn(u) == u.in.pid = "buf" /\ ~u.in.inflight /\ ~u.in.stopped /\ u.in.rx = <<>>

(* The OUT pipe's turn: a held buffer waits on, an empty one is answered   *)
(* here, anything else goes to the stick.                                  *)
RunOut(u, d, answer) ==
    LET after == StickTakes(d, Head(u.out.tx))
    IN  IF ~CanOut(u) THEN <<u, d>>
        ELSE IF u.out.hold THEN <<Kick(u), d>>
        ELSE IF u.out.tx = <<>> THEN <<FinishOut(u), d>>
        ELSE IF answer \in {"nak", "bad"} THEN <<Failed(u, "out", answer), d>>
        ELSE IF after.stage = "stalled" THEN <<Failed(u, "out", "stall"), after>>
        ELSE IF answer = "later" THEN <<[u EXCEPT !.out.inflight = TRUE], d>>
        ELSE <<FinishOut(u), after>>

RunIn(u, d, answer) ==
    LET after == StickGives(d)
    IN  IF ~CanIn(u) THEN <<u, d>>
        ELSE IF answer \in {"nak", "bad"} THEN <<Failed(u, "in", answer), d>>
        ELSE IF after.stage = "stalled" THEN <<Failed(u, "in", "stall"), after>>
        ELSE IF answer = "later" THEN <<[u EXCEPT !.in.inflight = TRUE], d>>
        ELSE <<DoneIn(u, Given(d)), after>>

(* The timer: the held packet if its time has come, the DMA, the pipes.    *)
(* With no device, or while the bus is reset, it does nothing.             *)
Fire ==
    /\ usb.timer
    /\ \E answer \in {"now", "later", "nak", "bad"}, passed \in BOOLEAN :
         LET u0 == [usb EXCEPT !.timer = FALSE,
                               !.out.hold = @ /\ ~passed]
             u1 == IF ~u0.in.held THEN u0
                   ELSE IF passed THEN FinishIn(u0, u0.in.pkt) ELSE Kick(u0)
             o == RunOut(ServiceDma(u1), stick, answer)
             i == RunIn(o[1], o[2], answer)
         IN  /\ answer \in {"nak", "bad"} => naks < MaxNaks
             /\ naks' = IF answer \in {"nak", "bad"} THEN naks + 1 ELSE naks
             /\ usb' = IF usb.attached THEN i[1] ELSE [usb EXCEPT !.timer = FALSE]
             /\ stick' = IF usb.attached THEN i[2] ELSE stick
    /\ UNCHANGED host

(* The stick answers a transaction it had put off, ... *)
AsyncComplete ==
    /\ \/ /\ usb.out.inflight
          /\ usb' = FinishOut(usb) /\ stick' = StickTakes(stick, Head(usb.out.tx))
       \/ /\ usb.in.inflight /\ ~usb.in.held
          /\ usb' = DoneIn(usb, Given(stick)) /\ stick' = StickGives(stick)
    /\ UNCHANGED <<host, naks>>

(* ... or the transaction fails without one. *)
AsyncFail ==
    /\ naks < MaxNaks /\ naks' = naks + 1
    /\ \/ usb.out.inflight /\ usb' = Failed(usb, "out", "bad")
       \/ usb.in.inflight /\ ~usb.in.held /\ usb' = Failed(usb, "in", "bad")
    /\ UNCHANGED <<stick, host>>

(* The stick is pulled: what is under way is cancelled, a held packet      *)
(* dropped.                                                                *)
Detach ==
    /\ usb.attached /\ naks < MaxNaks /\ naks' = naks + 1
    /\ usb' = [usb EXCEPT !.attached = FALSE, !.in.inflight = FALSE, !.in.held = FALSE,
                          !.out.inflight = FALSE, !.sts = @ \union {"dtch"}]
    /\ host' = [host EXCEPT !.at = "gone"]
    /\ UNCHANGED stick

-----------------------------------------------------------------------------
(* MAIN's driver, as the module's comments describe it: the command, the   *)
(* data by DMA, the status by the FIFO.                                    *)

(* Writing BUF re-arms a pipe that has stopped or was given up. *)
Buf(u) == Kick([u EXCEPT !.in.pid = "buf", !.in.stopped = FALSE, !.in.retries = 0])

Goes(from, to) == host.at = from /\ host' = [host EXCEPT !.at = to]

SendCommand ==
    /\ host.at = "idle" /\ host.commands < MaxUsbCommands
    /\ \E write \in BOOLEAN, n \in UsbSizes :
         host' = [host EXCEPT !.at = "cbw", !.write = write, !.size = n,
                              !.commands = @ + 1, !.status = FALSE]
    /\ usb' = Kick([usb EXCEPT !.out.tx = Append(@, Cbw), !.out.valid = TRUE,
                               !.out.pid = "buf", !.out.retries = 0, !.sts = {},
                               !.memory = <<>>])

(* The DMA controller first, ... *)
StartDma ==
    /\ "bemp" \in usb.sts /\ Goes("cbw", "select")
    /\ usb' = Kick(ServiceDma(
                 [usb EXCEPT !.sts = {}, !.in.trn = host.size, !.in.count = 0,
                    !.dma = [@ EXCEPT !.active = TRUE, !.toFifo = host.write,
                                      !.left = host.size]]))

(* ... then the port pointed at the pipe, and a receiving pipe let go. *)
Select ==
    /\ Goes("select", IF host.write THEN "data" ELSE "go")
    /\ usb' = Kick([usb EXCEPT !.dma.dreqe = TRUE,
                               !.dma.sel = IF host.write THEN "out" ELSE "in"])
Go == Goes("go", "data") /\ usb' = Buf(usb)

(* After a DMA write: the pipe to NAK, BVAL, the pipe to BUF. *)
DmaOver ==
    /\ usb.dma.done /\ Goes("data", IF host.write THEN "bval" ELSE "reload")
    /\ usb' = IF host.write THEN Kick([usb EXCEPT !.dma.done = FALSE, !.out.pid = "nak"])
              ELSE [usb EXCEPT !.dma.done = FALSE]
Bval == Goes("bval", "buf") /\ usb' = Kick([usb EXCEPT !.out.valid = TRUE])
OutBuf ==
    /\ Goes("buf", "sent")
    /\ usb' = Kick([usb EXCEPT !.out.pid = "buf", !.out.retries = 0])
Sent == "bemp" \in usb.sts /\ Goes("sent", "reload") /\ UNCHANGED usb

(* The status: the counter cleared and loaded again, the pipe to BUF, the  *)
(* FIFO read when it has come.                                             *)
Reload ==
    /\ Goes("reload", "csw")
    /\ usb' = Buf([usb EXCEPT !.in.trn = 1, !.in.count = 0, !.sts = {},
                              !.dma.dreqe = FALSE, !.dma.sel = "none"])
ReadStatus ==
    /\ "brdy" \in usb.sts /\ host.at = "csw"
    /\ host' = [host EXCEPT !.at = "idle", !.status = usb.in.rx = <<Csw>>]
    /\ usb' = Kick([usb EXCEPT !.in.rx = <<>>, !.sts = {}])

(* A stick put back: the bus is reset, the pipes are cleared. *)
Attach ==
    /\ host.at = "gone" /\ host' = [host EXCEPT !.at = "idle", !.status = FALSE]
    /\ usb' = Kick([usb EXCEPT !.attached = TRUE, !.sts = {}, !.dma.dreqe = FALSE,
                      !.dma.sel = "none", !.dma.done = FALSE,
                      !.in = [@ EXCEPT !.rx = <<>>, !.pid = "nak"],
                      !.out = [@ EXCEPT !.tx = <<>>, !.valid = FALSE, !.pid = "nak"]])
    /\ stick' = [stick EXCEPT !.stage = "cbw"]

Driver ==
    \/ Attach /\ UNCHANGED naks
    \/ /\ \/ SendCommand \/ StartDma \/ Select \/ Go \/ DmaOver \/ Bval
          \/ OutBuf \/ Sent \/ Reload \/ ReadStatus
       /\ UNCHANGED <<stick, naks>>

UsbNext == Fire \/ AsyncComplete \/ AsyncFail \/ Detach \/ Driver
UsbSpec == UsbInit /\ [][UsbNext]_usbVars

-----------------------------------------------------------------------------
Packets == Int
UsbTypeOK ==
    /\ usb.in.pid \in {"nak", "buf", "stall"} /\ usb.out.pid \in {"nak", "buf", "stall"}
    /\ usb.in.rx \in Seq(Packets) /\ usb.out.tx \in Seq(Packets)
    /\ usb.dma.left \in Nat /\ usb.dma.active \in BOOLEAN
    /\ usb.in.retries \in 0..3 /\ usb.out.retries \in 0..3
    /\ usb.sts \subseteq {"bemp", "brdy", "brdy_out", "nrdy", "dtch"}
    /\ usb.timer \in BOOLEAN /\ usb.attached \in BOOLEAN
    /\ stick.stage \in {"cbw", "in", "out", "csw", "stalled"}
    /\ naks \in 0..MaxNaks

(* A READ that ended with its status has every packet in memory once and   *)
(* in order; a WRITE has given the stick every packet once and in order.   *)
UsbDataExact ==
    host.at = "idle" /\ host.status =>
        (IF host.write THEN stick.got ELSE usb.memory) = [k \in 1..host.size |-> k]

(* The status packet is not read off the stick before the driver waits for *)
(* it: on the counted packet the pipe goes to NAK by itself.               *)
StatusAwaited ==
    Csw \in {usb.in.rx[k] : k \in 1..Len(usb.in.rx)} => host.at \in {"csw", "gone"}

(* What may be done, now or when its time has come, has the timer going:   *)
(* nobody else would look at it again.                                     *)
NothingForgotten ==
    usb.attached /\ (CanOut(usb) \/ CanIn(usb) \/ usb.in.held) => usb.timer

(* The stick is never given what it does not expect (an empty packet after *)
(* a full buffer, data without a command), so that it never stalls.        *)
NeverStalls == stick.stage # "stalled"

(* A command's data is exact, its status is the driver's, and the stick has *)
(* been given nothing else.                                                 *)
UsbExact == UsbDataExact /\ StatusAwaited /\ NeverStalls
=============================================================================
