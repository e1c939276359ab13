# TLA+ specifications of cdj2000-emulator

This directory keeps formal models of the parts of the CDJ-2000 emulator in
which several actors meet: two programs that share one guest time, players on
one network segment, a serial link between firmware and device, and a DSP that
runs only when someone has woken it. Every module is translated from the
source; `PROJECT.json` names, for each definition, the lines it stands for.
Paths below are relative to the repository's root.

## 1. The system

An emulated player is two programs. QEMU runs the MAIN board (SH-4, the
machine in `emulator/qemu/cdj2000_main.c` and the devices beside it); GNU's
Blackfin simulator, patched by `patches/*.patch`, runs the GUI board. They
talk over TCP streams that stand for the serial link of the real board.
Several players can share a network through a hub in Python. Host tools
(`tools/`) launch, drive and watch the programs.

| Part | State | Operations | Interacts with | What must hold |
|---|---|---|---|---|
| Co-simulation clock (`cdj2000_cosim.c`, patch 14) | both clocks, last report and promise each way, queue of received frames with their times, step timer | step, report, receive, deliver, send, open the link, accept, connect, drop | the two programs, through two streams; MAIN's link device; the GUI's SPORT link | neither clock runs ahead of what the other has promised; a frame is taken exactly one latency after it was sent, in order, once; the boards never wait for each other; the loss of one leaves the other running |
| Player network (`cdj2000_netsim.c`, `tools/cdj_main/link_hub.py`) | as above in each player; in the hub a record per connection, the position in a replayed capture | step, send, receive, join, leave, grant, push replay, answer ARP | players, through the hub | the same end to end through the hub, with frames of several senders merged by time |
| MAIN's GUI link (`cdj2000_main.c`) | receive buffer, FIFO, backlog, gap timer, watchdog, interrupt; transmit half with its completion | request arrives, firmware arms / acknowledges / sends, timers | the co-simulation or a socket on one side, the firmware on the other | order, no loss below the limits, nothing overwritten before it is read, nothing stuck |
| DSP scheduler and Nexus host port (`cdj_dsp_scheduler.c`, `cdj2000_nxs_hpi.c`, `cdj_c6747_hpi.c`) | activation, remaining budget, timer; HINT, DSPINT, reset, boot phase | MAIN's reads and writes, the DSP's, the timer | MAIN's firmware, the DSP interpreter | a woken DSP runs its whole budget; none is left with work and no timer; the scheduler's record is always valid |
| DSP interpreter (`cdj_c674x*.c`) | registers, pipeline of delayed results, loop buffer | execute one packet | memory, peripherals | instruction semantics |
| DSP peripherals (`cdj_c6747_*.c`) | EDMA parameter sets and queues, SPI and McASP shifters, timer, interrupt latches, cache tags, clocks | register reads and writes, advance | interpreter, each other | events are neither lost nor repeated |
| DSP checkpoints (`cdj_dsp_checkpoint.c`) | a file | write, read | host port | a file is taken whole or not at all |
| First-generation DSP (`cdj2000_dsp*.c`) | load state, deck state, event FIFO | MAIN's bus accesses, time | MAIN | answers match the firmware's handshake |
| MAIN board: memory map, GPIO, DMA, console, card (`cdj2000_main.c`) | many small devices | register accesses, host events | firmware, host | completions and interrupts pair up |
| Panel input (`cdj2000_input.c`) | contact states, queue of presses, acknowledges | press, release, frame | host control channel, panel frames | every press is seen long enough |
| USB host (`cdj2000_usbh.c`, `cdj2000_usb*.c`) | pipes, port, packets in flight | register accesses, completions, attach, detach | QEMU's USB stack | no packet outlives its pipe |
| ATA, Ethernet, I2C (`cdj2000_ata.c`, `cdj_sh7764_eth.c`, `cdj_rtl8201fl.c`, `cdj_nxs_eth.c`, `*_iic.c`) | registers, descriptor rings, bit engines | register accesses, packets | QEMU's drives and networks | rings and bit counters agree with the driver |
| GUI board (patches 02, 05, 09, 13) | SPORT link staging, DMA, display | firmware accesses, link input | MAIN, viewer | staged records reach the firmware in order |
| QEMU patches | interrupt priorities | assert, mask, return | SH-4 core | a masked source is offered again |
| Proxy, QMP client, peers (`tools/cdj_main/`) | sockets | forward, inject, ask | running programs | answers belong to their questions |
| Everything else in `tools/`, `scripts/`, `tests/`, `analysis/` | files | offline work | | |

Hard behaviour, in short: two clocks that may only advance on each other's
word; promises made while asleep and interrupts that arrive before they are
up; reports and frames that cross; a program that ends in the middle of the
other's waiting loop; players that join and leave; a buffer shared by an
interrupt, a timer and a task; queues at their limits; wakes that come while
the work they ask for is under way. The list with lines is under "hazards" in
`PROJECT.json`; a hazard no property covers says why.

## 2. The modules

| Module | Models | Composed by |
|---|---|---|
| `TimedLink` | the abstract wire of fixed latency between two boards | implemented by `CoSim` |
| `CoSim` | both ends of the co-simulation clock | `MCCoSim` |
| `NetSync` | players and hub of the network clock | `MCNetSync` |
| `MainLink` | both halves of MAIN's GUI link, with its firmware as environment | `MCMainLink` |
| `PanelInput` | presses, held buttons, levels, lid and door of the panel | `MCMainDevices` |
| `ControlLine` | how the panel's control channel cuts a stream into commands | `MCMainDevices` |
| `MainDma` | MAIN's DMA channels, their interrupt levels, the memory card | `MCMainDevices` |
| `UsbHost` | the USB host module's bulk pipes and FIFO port | `MCMainDevices` |
| `ShIntc` | interrupts of MAIN's CPU with the repository's QEMU patches | `MCMainDevices` |
| `QmpClient` | the tools' connection to QEMU's monitor | `MCMainDevices` |
| `DspScheduler` | the functions of the DSP scheduler | `NxsDsp` |
| `NxsDsp` | the host-port device, MAIN and the DSP around the scheduler | `MCDsp` |
| `DspLoop` | the DSP's loop buffer and its interrupts | `MCDsp` |
| `DspPipeline` | issue and retirement of packets, with interrupts | `MCDsp` |
| `DspAlu`, `DspArith` | integer arithmetic; the packets of instructions that use it | `MCDspArith`, `MCDsp` |
| `DspTimer` | one 64-bit timer | `MCDsp` |
| `DspIntc` | the DSP's interrupt controller and its combined events | `MCDsp` |
| `DspAudio` | the audio path: EDMA and McASP | `MCDsp` |
| `DspCheckpoint` | the checkpoint file, its writer and its reader | `MCDsp` |
| `*Proofs` | theorems about `CoSim`, `NetSync`, `NxsDsp`, `MainLink`, `ShIntc`, `QmpClient`; in `DspProofs` about `DspIntc`, `DspAudio`, `DspTimer`, `DspCheckpoint`; in `MainDevicesProofs` about `MainDma`, `UsbHost`, `PanelInput` | |
| `MC*` | small instances for TLC | |

`MCMainDevices` and `MCDsp` explore several components in one run. These share
no state in the code either (what they do to each other is an input of the
model), so a behaviour picks one of them with the variable `unit` and leaves the
others at rest; the run's states are those of the components side by side, not
their product.

An operator whose comment begins "A slip" repeats the definition after it with
one plausible mistake. No specification uses one; substituting it for the
correct definition makes TLC find the property it is listed with violated
("mutants" in `PROJECT.json`), which shows that the property depends on that
line of code.

### 2.1 CoSim and TimedLink

The two programs run the same step, so one action with a board as parameter
stands for both functions. The map names the lines of one of them; the other's
are these.

| Definition | MAIN, `cdj2000_cosim.c` | GUI, patch 14 |
|---|---|---|
| `Pass` | `cosim_step` | `bfin_cosim_step` |
| `Drain`, `Frames` | `cosim_drain`, `cosim_parse` | `bfin_cosim_drain`, `bfin_cosim_parse` |
| `Handover`, `PumpRequests` | `cosim_deliver`, `cs.poll` | `bfin_cosim_deliver` |
| `Asleep`, `Promise` | `cosim_promise` | `bfin_cosim_promise` |
| `MustReport`, `NextStep` | the rest of `cosim_step` | the rest of `bfin_cosim_step` |
| `Lost`, `Drop` | `cosim_lost` | `bfin_cosim_lost`: the GUI exits |
| `Send` | `cdj_cosim_send_record` | `bfin_cosim_send_request` |
| `AttachLink` | | `bfin_cosim_attach_link` |
| `Tick`, `Doze`, `TimerFires` | QEMU's clock (external) | `sim_engine_run`'s loop |

A step may be held up by the peer, in its waiting loop. `Pass` is what a step
does between two such waits: its beginning, when the timer fires, or one turn
of the loop, when there is something to read. It reads the stream once, as far
as messages have arrived (any prefix of what has been sent), and after that
touches only its own variables and appends to its stream; the other program
meanwhile can only append to the stream being read. So taking a pass at once
loses no behaviour. `pc` says whether the guest runs or the step waits.

Guest time is an integer. `Half` is half a quantum in such units: with
`Half = 1` the code's half-quantum tests are decided on a coarse grain and the
instances reach several quanta; with `Half = 2` reports fall between half
quanta and frames come due between steps. Both grains are run, since a
mistake of one unit may be invisible on the coarse one. `MaxNap = 0` means
that a sleeping board has no timer of its own and sleeps until a frame wakes
it; `MaxNap = 1` gives it one. `MaxCycle` is the number of units an
instruction of the GUI may take. What a frame holds is only its number.

`TimedLink` says what the boards may rely on: a frame is taken, in order and
once, when the receiver's own clock reads sending time plus latency, at most
`Jitter` late. `LinkSpec` is that specification under the mapping that joins a
receiver's queue and stream, with the jitter the code has: the rest of one GUI
instruction (`Slack`) and, for a record that was held until the firmware
opened its link, the rest of a step (`Held`). Its exception is stated too: a
GUI whose firmware has not opened the link lets frames pile up.

### 2.2 NetSync

A player (`netsim_step` and what it calls) is as a board of `CoSim`, with two
differences in the code: frames of several senders are inserted by time, and
only a TIME message raises the promise. `Pass` is one pass over the step, up
to the next time it waits. The hub (`SyncHub`) is single-threaded: one message
or one connection event is one action, with the push of replayed frames and
the grants that follow it (`PushAndGrant`) part of the action. Before its
hello a connection is known and not joined, as in the code. A message's
address is left out: the hub repeats every frame to every other player.

`setup` is how the hub was started (the number of decks, the capture) together
with the bounds that instance is explored to. It is chosen once, so that one
run covers several command lines. `NetSyncAssumption` asks that a capture's
frames are in the order of their times, as a recorder writes them: the hub
takes them as they stand in the file (`Replay`) and bounds its grants by the next one
alone, so an out-of-order capture would put frames in a player's past.

### 2.3 MainLink

`rx` and `tx` are the two `CdjLinkState` records. The functions of the device
are operators from state to state (`Deliver`, `Release`, `Receive`, `Pump`
and so on, in the code's call structure), so that an action is a guest access or a
timer with every call it makes. The firmware is not part of the repository; it
is what the device's comments say of it: an interrupt handler in three
accesses (acknowledge, clear, arm), a task that is woken and reads the buffer,
a sender that sets a busy flag cleared by the completion interrupt. These
actions are marked external. Guest time passes in `Tick`, timers count down.
`setup` is how the program was started (its environment variables), what
firmware it runs and the bounds on both; it never changes. A property that
depends on it says so: `EachReadOnce` is about a FIFO, freed by acknowledges,
and a firmware that is done with a frame before the gap is up (`Prompt`).

Left out: the receive half's second presentation through the flag register
(`LINK_FLAG_RX`), which one firmware version needs; the contents of records;
counters and traces.

### 2.4 DspScheduler and NxsDsp

The scheduler's functions are operators on its record: `CanX` is the condition
under which the function returns true and `X` what it stores. `NxsDsp` wraps
them in the device: MAIN's accesses of the control register, port reset, boot
phase, reset line, and the timer's tick. The DSP's own program is unknown:
in a slice it executes any number of packets up to the quota and may raise
HINT, take DSPINT, fault, or (if `DspResetsHpi`) reset the port. The mode,
legacy or deferred, is a field of the scheduler's record as in the code. A HINT raised
ends the slice after its packet, as in the interpreter's loop.
`since` is a history variable: packets executed since the last stimulus.

### 2.5 PanelInput and ControlLine

The panel's microcontroller is emulated by an answer to each exchange MAIN
makes. `Exchange` is `cdj_input_apply` with everything it calls: the press at the head of
the queue begins if none is under way, is kept down for `MinFrames` exchanges
and its hold time, then kept up for as many and the gap. The client's commands (`Press`,
`Hold`, `Level`, `Clear`, `SetLid`, `SetDoor`, `Turn`) come between exchanges. A payload is the
set of its bits that are 1. It is put together in the code's order (`Payload`): held
buttons, the press, then the analogue field, which once it is driven is stored over whatever lies in
its bytes (`Overwritten`), then levels, door and lid. `FieldBits` are the bits of
those bytes that commands name as well. `wire` is what the firmware has seen; `acks` is
the ring a client asks, whose slots are reused.

`ControlLine` is the channel those commands come by: a client types lines of any
length, the program receives any piece of the stream, and a new client may
replace the old one at any moment. Bytes carry the line they belong to, so
"part of a line was taken for a command" can be said.

### 2.6 MainDma

One controller serves five users: the panel's two halves, the DSP download
and the sound feeder, the USB module and the memory card. `chan` is what the
firmware has programmed and CHCR; `pend` holds, per user, the channel whose
completion holds the level up. A transfer happens inside the store that starts it, as in
the code, except the panel's (a timer), USB's (the module says when) and the
card's blocks, which become ready in the SD host's own time. The firmware's
panel task, card driver and handlers are external. `Eject` and `Insert` may
come at any time; the driver then gives the job up.

### 2.7 UsbHost

The functions of the module (`ServiceDma`, `FinishIn`, `FinishOut`, `RunIn`,
`RunOut`) are operators from state to state; `Fire` is the transaction timer
with all of it, `AsyncComplete` a packet QEMU answers later, `Detach` the stick
pulled. A NAK is retried for ever, a failed transaction (`AsyncFail`, or at once) twice; the
third in a row puts the pipe to NAK. The stick is the other side of QEMU's bus: it expects a command, data
and the reading of a status, in that order, and stalls at anything else. The driver is external. Data
is counted in packets, whose numbers show loss, repetition and order.

### 2.8 ShIntc

QEMU's controller and CPU loop as the three patches leave them. `cpu` tells
whether the CPU is in its loop, where interrupts are offered, in translated
blocks that chain to each other, or before the delay slot of an `rte`. A
request brings it back only as the number of pending sources leaves 0, so it
must be argued that nothing else is needed. The firmware is its tasks (mask,
sleep, change a level, poll a device) and its handler's fixed path
(`OpenWindow`, `CloseWindow`, `ClearDevice`, `RestoreSsr`,
`ReturnFromHandler`), external.

While a handler runs, a higher source that joins one already pending and masked gives no
kick, and waits for the next write of SR or the `rte`. That is how
the code is; `OfferedAgain` speaks of tasks.

### 2.9 QmpClient

`AskMonitor` and the receiving loop of `Qmp.command`, one line per
`ReceiveReply`; `TimeOut` at any moment of a wait. The monitor carries out requests in order,
and reports events between answers. An answer left behind by a timeout is met
by the next command, which fails on it ("foreign") and leaves its own answer behind in
turn: no later command on that connection succeeds, and none is given
another's answer.

### 2.10 The DSP's core

`DspLoop` is the loop buffer: `Setup` at the SPLOOP, `Cycle` one cycle of
`loop_step` with the fetching, the issue of every overlapping iteration and
an interrupt request in any of them, `Vector` and `Return` a service routine.
The histories `ran`, `once` and `tail` count what has been executed.

`DspPipeline` issues packets: `Step` is one call of the interpreter, with an
interrupt presented or not before it. A program is a constant: ten of them in the instance,
each with the path it takes and the memory it leaves on a
machine without interrupts, and with the packets that must be refused.

`DspAlu` has the arithmetic and `DspArith` the packets around it: what is read, what
is written how many cycles later, when the saturation flag follows, which
combinations stop the DSP. Widths follow from `ByteBits`, 8 in the code.
`MCDspArith` states, for each of 29 routines, what must have been computed in
terms of plain numbers: a product of words by its parts, a quotient with its
remainder, a shuffle by its inverse.

### 2.11 The DSP's devices

`DspTimer`: `Clock` is one clock of either half with its prescaler, reload
and interrupt; the others are the program's register accesses between clocks.
Mode, prescaler, periods and reloads are what the program wrote before it lets the
counters run: any of `TimerSetups`, in which the two halves run in the same way. A zero
period does not count, at the start and after a reload.

`DspIntc`: `Event` sets a flag and may make the combined event; `Take` moves requests
to the core. The service routine is external: it reads the flags, clears what
it read, and looks again.

`DspAudio`: `Slot` is one slot of the serial port with every word it asks for, each
fetched by the EDMA in the same transaction, with the reload of linked parameters,
the chained copy and the completion's interrupt; the other actions are the
program's writes and the steps of its routine. If a request cannot be served, the
transaction is undone and the DSP stops (`audioFault`).

`DspCheckpoint`: `CaptureState` and `WriteSection` put a file on disk, a
section at a time, in the current schema; old files of the other schemas are
found. `WriteFails`, `WriterCrashes` and `DamageFile` leave it unfinished,
cut, altered or too long. `ReadBack` is the reader. What a schema has not is given the value
it has after a reset. Two details are as in the code: the scheduler's is synchronous
mode, and the receive buffer of the SPI, which lies where schemas 5 to 7
had padding, is cleared for schema 8 only. A refused read may have written to the caller's memory,
which the caller then does not use.

## 3. What the runs check

All runs finish in about two minutes or less with two workers.

| Run | Question | Bounds |
|---|---|---|
| `CoSim_safety` | do both boards keep within the lookahead, is nothing late by more than an instruction, is no promise broken | 1.5 quanta of two units, two frames at most, timers, instructions of two units |
| `CoSim_fine` | does the pair implement the wire, on the fine grain and with the link opened at any time | 1.5 quanta of four units, two records of MAIN's, instructions of up to two units, no timers |
| `CoSim_live` | can the boards hold each other up; does the survivor run on, whenever a program ends, with interrupts from the host | 1.5 quanta, one record |
| `NetSync_safety` | lookahead, promises and delivery end to end through the hub; the hold until all are in; the merge of frames by time; the replay's bound on the grant | two decks and one frame of a deck and of the capture each, 1.5 quanta; one deck and two captured frames, three quanta |
| `NetSync_live` | can players and hub hold each other up; does every player survive the hub | two decks, 1.5 quanta, no frames |
| `MainLink_all` | order, movement and exclusive use of the buffer, the watchdog, the recovery of the sender | five setups; up to six requests against a FIFO and a backlog of two; four arms |
| `MainDevices_all` | do acknowledges of presses tell the truth and presses stay apart; are lines whole; do DMA levels and completions pair up and jobs complete; is a USB transfer exact and never forgotten; are interrupts nested upwards and offered again; are answers the asker's | seven exchanges and three commands against a queue of two, with a bit in the analogue field's byte and one outside it; lines of 0 to 5 bytes against a buffer of 4, two clients; four DMA jobs of at most two blocks; two USB commands of one or two packets, three NAKs, failures or detaches; three sources at levels 8, 4, 4 with four assertions; four monitor commands and one event |
| `Dsp_all` | no stranded DSP, whole activations, rest, MAIN's input, in both modes; do interrupted loops, pipelines, timers, combined events and the audio path come out as if nothing had come between; is integer arithmetic that of the numbers; is a checkpoint taken whole or not at all | activation of five packets in slices of two, numbers up to four, nine calls of MAIN's; loops of one to six cycles interrupted twice; ten programs with up to three requests; timers of two words of three values, 432 set-ups and 54 with zero and the largest periods and reloads, seven clocks, two writes; four events; two serializers, six slots, four writes; 29 routines on nine corner values of words of eight bits; files of all twelve schemas, damaged once |

What can go wrong is between two actors and a few steps, which is why such
bounds are enough:

- One and a half quanta contain a whole lookahead, its limit, and the delivery
  of a frame sent after the start: a frame in flight with a report before and
  one after it, a sleeper with a timer before or after a frame, and time for both
  boards to be at the limit and leave it.
- Queues of two are full, half full and empty; six requests overflow FIFO and
  backlog together. A ring of two acknowledges is reused by the third press.
- An activation of five in slices of two has a short last slice, as 1000000
  in slices of 4096 has. At the largest number a scheduler refuses to go on.
- Two blocks of a card have a first and a last one; a USB command of two
  packets has one that ends the buffer and one that does not.
- Two equal levels under a higher one show the tie and the nesting.
- A loop whose iterations overlap threefold, interrupted twice, is also drained
  while it is being entered again. A timer of three values passes its period,
  and the carry into its high half, within seven clocks.
- In words of eight bits with bytes of two, every sign, carry and saturation of
  the 32-bit instructions has its counterpart; the nine operands are the corners.

`CHECK_DEADLOCK FALSE` stands in the configurations of `CoSim`, `NetSync`,
`MCMainDevices` and `MCDsp`: there clocks, calls and inputs end at their
bounds, after which nothing is left to do. That nothing stops before is what
`BothAdvance`, `SurvivesLoss`, `AllAdvance`, `SurvivesHub`, `ComesToRest`,
`NothingForgotten` and `SomethingComes` say. In `MainLink` time never ends and
deadlock is checked.

### Fairness

- `CoSim`: each program keeps executing (weak fairness of its instructions,
  of its step and of noticing a closed stream), and MAIN's main loop accepts
  the GUI or gives up. Nothing is assumed of the guest: it need not send,
  sleep or open its link; the host need not type.
- `NetSync`: every program is scheduled, the hub serves every ready
  connection (its selector loop does), and every deck that is on the command
  line is started.
- `MainLink`: time passes and due timers fire. Of the firmware only that it
  serves its transmit interrupts, which its driver's comment in the source
  relies on; for the receive half nothing at all.
- `NxsDsp` (`Dsp_all`): QEMU runs a pending timer. The DSP's other parts and
  `MCMainDevices` have no fairness: what must go on is stated as an invariant, that
  whatever may proceed has a timer set or an interrupt pending.

### Where code and comments disagree

Four runs end in a counterexample on purpose: each checks a sentence of the
repository that the code does not keep. `PROJECT.json` quotes them.

| Run | What is shown |
|---|---|
| `CoSim_overshoot` | an instruction of two cycles passes a frame's time, so the GUI takes it late; `CoSim_safety` shows by how much at most |
| `NetSync_arp` | an ARP answer stamped "never" when the only player is past the end of the capture |
| `MainLink_backlog` | an overflowing backlog drops everything, not the oldest |
| `MainDevices_ack` | the store that acknowledges the card's DMA takes its level down after a read from the card only: after a write the level stays up |

One is stated as it is in the property: the ring of acknowledgements is to hold the
frame a press's bit "first went out in and the last one that still carried it"
(`cdj2000_input.c`, the comment before `CDJ_INPUT_ACKS`). A press in the byte of a driven analogue
field, or under a level, the lid or the door, is acknowledged as done though no
exchange carried it; `AcksMatchTheWire` allows for exactly these (`Forced`).

Four more are seen by changing a constant:

- A character typed on MAIN's console (`cdj_console_receive`) wakes it before
  its promise is up, and what it then sends is late in the GUI:
  `CoSim_safety` with `HostInput = TRUE` violates `PromiseKept`.
- A record that was held when the link opens in the middle of a step is taken
  late, by less than half a quantum, because `bfin_cosim_attach_link` does not
  recompute `next_ticks`: `CoSim_fine` with the invariant `NeverLate` and `MaxCycle = 1`.
- A hub started for two decks freezes the one that is left when the other
  goes (`SyncHub.grant` applies "hold everyone at the start" at any time);
  `AllAdvance` leaves that case out.
- A port reset by the DSP's program clears HINT and leaves MAIN's input low:
  `Dsp_all` with `DspResetsHpi = TRUE` violates `LineFollowsHint`.

The properties of the passing runs are stated so that these cases are
accounted for (`Slack`, `Held`) or excluded by a constant (`HostInput`,
`DspResetsHpi`) or by a condition the property names (a transfer to the card in
`LevelsMatchCompletions`, what is set over a press in `AcksMatchTheWire`), never by weakening the rest.

## 4. What is proved

Each `*Proofs` module extends the component's and holds its theorems, for
every value of the constants that the named assumptions allow. None of them bounds what
the bounds of the runs bound: they hold for any `MaxTime`, `MaxCalls`, number of events, and so on.
The version of `tlapm` used reads the second `@` of `[f EXCEPT ![p] = [@ EXCEPT !.x = g(@)]]` as `f[p].x.x`;
the modules proved about do not use that form (`Heard` in `NetSync` is an operator for this reason).

### CoSimProofs

- `BoardsTyped`: `Spec => []TypeOK`.
- `StaysInStep`: `~HostInput => (Spec => []InStep)`. For every quantum, length
  of an instruction, number of frames, and every way the streams are cut and the programs
  scheduled, no clock passes the other's promise plus one quantum
  (by more than the rest of an instruction), and no frame on its way to a
  listening board is late by more than `Slack` and `Held`.
- `PromisesAreKept`: `~HostInput => (Spec => PromiseKept)`.
- `BoardsAreWired`: `~HostInput => (Spec => LinkSpec)`, the refinement of the
  abstract wire `TimedLink`, step by step. A frame's place on the wire is its place in the
  stream or in the queue behind it (`Wire`), the link is open when `Opened` says so, and
  `OnLink` says whose program is at its end, and `Late` is the rest of an instruction and what
  the link's opening holds back. There is one lemma for each kind of step of the wire (a
  frame sent, frames taken, the link opened, a clock moved); they rest on `IInv` for the times and on
  lemmas about `Frames` for the order. An attempt at this proof corrected the
  abstract specification: `Listen` had demanded that no frame left on the wire be due, which a board that
  stops within an instruction of two units does not keep. It now allows the rest of that instruction.

`InStep` is far from inductive. What carries it is a chain: what a board has
*been told* is at most what is in the stream to it, and that is at most what the other board *would say now*, the later of its clock and its promise
(`Says`). `IInv` has, for each board, that its own promise fits its clock, its next
stop and its timer (`Kept`); that what it believes and what the stream to it says is
true of the other, and that the stream does not go back at its frames
(`Believed`); that its queue is in time order and within what it was told
(`Queued`); that its clock and next stop are within those (`Paced`). The two
halves of `Believed` and `Paced` meet in `InStep`.

One pass of the step reads a prefix of the stream, hands frames over and
computes promise, report and next stop. `PassDoes` states what that amounts to
in numbers, and is proved once; the lemma for each kind of step uses it and no longer looks at
the code. `Frames`, the recursive function that collects the frames of
a prefix, is reasoned about by a least counterexample (`LeastNumber`, from the
library's `WFMin`), since induction theorems that take an operator cannot be used here.

### NetSyncProofs

- `NetTypesHold`: `Spec => []TypeOK`, with every player's queue in time order.
- `NothingArrivesInThePast`: `Spec => []NoPastArrival`.
- `PlayersKeepPace`: `Spec => []KeepsPace`.
- `PromisesAreKept`, `FramesAreTakenOnTime`: `Spec => PromiseKept`, `Spec => TakenOnTime`.

They hold for any finite set of players, any quantum, command line and ordered capture,
with players that are launched, quit and lose the hub at any step.
A player trusts one number, the last grant it has read, and that number has been through three
stages: another player's promise waits in its stream to the hub, then in the
hub's record, and the grant made of it waits in the stream down. `NetInv`
follows it through all three. `UpSound`: a stream up does not go back, starts no earlier than
what the hub has noted of its player, and ends no later than what the player says now
(`Says`). `Granted`: a grant is at most what every other joined connection has promised and
at most the next replayed frame's time; and one above zero means that all decks are in
(`AllIn`), so that nobody can still join whose promise nobody waited for.
`DownSound`: a stream down holds no grant beyond the hub's, and behind a grant no
frame stamped before it. On the player's own side are `Kept` and `Paced`, as in
`CoSimProofs`, with the queue in time order (`InOrder`). That a program may go at any time makes
the streams and the record disagree for a while; `UpSound` says how far.

`PassDoes` of the other clock has its counterpart in `PassNumbers`; what
`netsim_parse` makes of a run of messages is `QueueAfterHolds` (the queue has what it had and
the frames read, in order), `GrantAfterIsGreatest` and `DrainedQueue`. One turn of the hub is
proved once, for any service before it (`PushAndGrantKeeps`); accepting,
hearing and dropping are three uses of it (`HubTurnKeeps`). `GrantOf` compares a
number of connections with the number of decks: `EnoughIsAll` shows that as many as the hub was
told of are all there are, by the cardinality of the players started. `NetInv` was
first checked by TLC on the instances of `NetSync_safety`, on those of
`NetSync_live` with a player that quits, and on one of three players.

### NxsDspProofs

- `TypeCorrect`, `SchedulerStaysValid`, `WorkIsNeverStranded`:
  `Spec => []TypeOK`, `[]SchedulerValid`, `[]NeverStranded`. The scheduler's
  functions refuse an invalid record and the device stops the DSP when they
  do; no such record ever comes about. A started DSP that has not faulted has
  a timer exactly when it has work, and an unseen DSPINT is work.
- `LineIsHint`: if the DSP does not reset its port, MAIN's input is low exactly while HINT is set.

The conjunction of the first three is inductive (`InitInv`, `NextInv`).
`NeverStranded` alone is not: a slice ends it only if the scheduler's `end`
cannot refuse what the interpreter reports, which is where validity comes in.
`RequestedValid`, `BegunValid` and `EndedValid` are about the scheduler alone;
the last says that the check `cdj_dsp_scheduler_end` makes of its own result
never fails. `OneMoreSlice` is the arithmetic beneath. `LineInv` adds what the line needs.

### MainLinkProofs

- `EveryRecordIsSent`: `Spec => []AllSent`, in every setup and whatever the
  firmware does. `TxInv` adds that the channel is started exactly when a
  record is in flight, so that an arm always finds it free or finishes it first.
- `LinkTypes`, `RequestsKeepMoving`, `RequestsAreReadInOrder`,
  `FramesAreHandedInTime`: `Spec => []TypeOK`, `[]NothingStuck`, `[]ReadInOrder`,
  `[]HandedInTime`, for any gap, watchdog, FIFO and backlog, any number of
  requests and every setup.

`ReadInOrder` speaks of what the task examined, long after the request went
through backlog, FIFO and buffer. `RxInv` follows a request all the way: what was
handed over, then what is in the FIFO, then the backlog, are rising numbers below
the next request; a frame in the FIFO keeps the gap timer or an acknowledge
going; the buffer's frame is the last one handed over. The other half of `RxInv`
(`GuestInv`) is about the firmware: each frame handed over is answered by a
pending interrupt, a handler under way or a task that was woken, so that as many frames
are unread as there are of these. Only with both can "the buffer was not written
over before it was read" be carried through a step.

### ShIntcProofs

- `InterruptsAreExact`: `IntrSpec => []IntrExact`, for any sources and levels.
  `NestUpwards` follows from `Stacked` and `InForce`: SR and SSR always show
  how far the topmost handler has come. `OfferedAgain` follows from `TaskMask`
  (a task's mask is all or nothing) and `Offered`: what a task does not accept as it leaves
  the loop it accepts only after a write of SR, or after the number of pending
  sources has left 0, and both bring the CPU back.

### QmpClientProofs

- `AnswersAreOwn`: `QmpSpec => []AnswersOwn`. The invariant is the order of the
  stream: unread answers, then unasked commands, are rising numbers up to the last
  command, without a gap; and from the first lost command on there is always
  one more unread answer than there should be (`Behind`).

### DspProofs

- `EventsAreAnnounced`: `IntcSpec => []EventAnnounced`, which is inductive with the types.
- `CheckpointsAreWhole`: `CheckpointSpec => []CheckpointWhole`, for any number of captures,
  failures, damage and reads. A file is read back only if its header's sum is that
  of its sections. `CheckpointInv` says that the sum in a header is
  always that of the payload of one capture under one schema, whatever was done to the file since
  (`OfACapture`); so a file whose sections match is that payload, and since no two schemas that
  the reader tells apart have the same sections, it is read under its own.
- `AudioIsExact`: `AudioSpec => []AudioExact`, for any number of serializers, frames,
  slots and writes, and the three shapes of the buffer. `AudioInv` holds
  between transactions: the port asks for all the words of a frame or for none
  (`PortAsks`, `PortIdle`), the feeder's parameters are at the first word of a frame
  (`ParamsAt`), what the port still has to send is the frame before that one (`Loaded`),
  and what was sent last is the frame before that, unless the
  serializers were reset since (`History`). What one transaction does is a recursion over requests
  inside one over words. Both are recursive functions over an interval; `Iterates` shows,
  from the least counterexample, that such a function has a solution with values in a set that its step
  does not leave, and the set is the lemma: `Moves` for the words of one request, `ServedByTurns`
  for a request and the one it chains (which is why `ServiceLimit` must be more than one),
  `FedFrame` for the requests that fill a frame. `Answered` is what every action then uses.
- `TimerIsExact`: `TimerSpec => []TimerExact`, for any width of the registers, the
  three modes, any set of set-ups (`TimerSetups`: any prescaler, periods and reloads, zero
  included, in place before the counters start, with one kind for both halves), and any number of
  clocks and accesses. A period written to a counter that is under way is not
  modelled. A counter is a value (`At`), its last value (`Top`), the clocks since it came
  to the value (`Sub`) and those a value lasts (`Size`), whichever registers of which mode hold
  them. `DualTicks`, `ChainedTicks` and `SingleTicks` show that `tick_one` does to these what
  `Counts` says; that is all `StandsOn` uses to show that a counter which stands where `n`
  clocks put it stands a clock later where `n + 1` do, and has made an interrupt more exactly
  if that clock brought it to its period (`OneMorePeak`). The invariant (`TimerInv`) adds that a
  low half that was read has its high half in the shadow.

### MainDevicesProofs

- `DmaIsExact`: `DmaSpec => []DmaExact`, for any number and length of jobs. `DmaInv`
  says who runs on which channel (`Roles`), so that a completion of one user
  cannot drop another's level; that a level is up only over a channel that
  has ended, or, the card's, after a transfer to the card, whose acknowledge leaves it up
  (`CardLevel`, `PanelLevels`, `DspLevel`, `SoundLevel`, `UsbLevel`); that each half the
  panel's task has armed is on its way, has ended or was seen to end (`PanelWaits`);
  and what holds of a card job at each step of its driver (`JobInv`): either all blocks
  were moved (`AllMoved`), or the card is gone, or the data phase goes on
  (`GoesOn`): what was moved, what is in the host's buffer and what the card
  gives next are consecutive, and the timer runs unless the block has been
  announced. `JobsComplete` is only about the end of a job and needs all of it.
- `UsbIsExact`, `NothingIsForgotten`: `UsbSpec => []UsbExact`,
  `[]NothingForgotten`, for transfers of any size and any number of commands, NAKs, failed
  transactions and late answers. `Phase` says what holds at each of the driver's steps: in a read, that memory, the
  packet held back and the stick's next packet are consecutive (`Reading`); in a write, that what the
  stick has and what the buffer holds make up the transfer (`Writing`); in the
  status phase, that the data is whole and the status is on the stick, held back
  or in the FIFO, once (`Status`). That the timer is going (`Alert`) is
  preserved by each of the module's functions on its own.
- `PressesAreExact`: `PanelSpec => []PressesExact`, for any queue, hold, gap,
  `MinFrames` and analogue field. `InputInv` counts the frames of the channel's phase on the wire: the press under way
  had every frame since its first, which its acknowledgement names (`DownSince`); after
  it, as many frames as the phase is old carry none (`Quiet`). A completed
  acknowledgement is then true when it is written (`Told`), and stays so because press
  numbers rise and its own never comes again (`Ordered`); and a press begins only
  on an idle channel, whose last `MinFrames` frames were quiet (`Apart`). The
  slots of the ring are reused; `Ordered` says that a slot's number has that slot.

Each of the three inductive invariants was first checked by TLC on the
instances of the run `MainDevices_all`.

### Only model-checked

Liveness under fairness (`BothAdvance`, `SurvivesLoss`, `AllAdvance`,
`SurvivesHub`, `QueueDrains`, `TxRecovers`, `WholeActivation`, `ComesToRest`),
and `ENABLED`, are out of the provers' reach. So are statements by induction
over data of any length, such as what an arithmetic routine computes for every
width. Left to TLC besides: `ControlLine`
(whose properties are about how a line of any length is cut), and of the DSP
the loop buffer, pipeline and arithmetic. `DevicesTypeOK`
and `DspTypeOK` are conjunctions of the components' type invariants, kept for the
runs; the proofs carry types of their own, without the runs' bounds.

## 5. Not modelled

Of the components that are:

- MAIN's link: the receive half's second presentation (`LINK_FLAG_RX`), whose
  user's timing is not in the repository.
- The network: payloads, pcap files, and real-time pacing. The capacity of
  host sockets: the hub's and a player's blocking sends could hold each other
  up with both buffers full, but nothing in the code says how large they are.
- The DSP's core: decoding of instruction words, floating point, SPLOOPW and
  the reload of a loop. These are sequential, and checked in the repository
  against recorded vectors.
- The DSP's devices: SPI, cache, clock, power and pin registers, which answer
  with what was written; QDMA; the watchdog.
- Checkpoints: whether an accepted state is sensible (`state_valid`), and
  checksums that agree by chance.
- USB: the control pipe and the enumeration; the devices behind QEMU's bus.
- MAIN's memory map, timers, flash and console.

Of the others:

- First-generation DSP: a table of answers, called from MAIN's accesses only.
- ATA, Ethernet and I2C: sequential, one command or descriptor at a time.
- The GUI's SPORT staging and its cache of canned answers: how fast the
  firmware reads its SPORT is not in the repository.
- The small simulator patches: portability, traces, single expressions.
- The link proxy and the network peers, test helpers that answer what they are asked.
- Launchers, monitors, viewers, reports, media, firmware and analysis tools,
  build scripts: host I/O and offline work.

Real time in waiting loops (the periodic notes), traces, captures and
statistics are left out everywhere.

## 6. Plan

Done: everything in section 2, with the proofs of section 4. The order was by
weight: the clocks first, then MAIN's link and the DSP's scheduler, the
board's devices, the DSP's core and devices, and the tools' connection to the monitor.

Left, and why:

1. The DSP's loop buffer by proof.
2. The GUI's SPORT staging, if the firmware's side becomes known.
