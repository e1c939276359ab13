------------------------------ MODULE ShIntc ------------------------------
(***************************************************************************)
(* Interrupts of MAIN's SH-4: QEMU's controller and CPU loop with this     *)
(* repository's patches (qemu-sh-intc-priority-imask, -order,              *)
(* qemu-sh-tmu-stop-reset), the sources cdj_intc_init registers, and the   *)
(* firmware's way with SR that the patches and the machine's comments      *)
(* record.                                                                 *)
(*                                                                         *)
(* The CPU runs translated blocks that chain into each other; an interrupt *)
(* is offered only when it comes back to its loop.  A request kicks it     *)
(* there when the number of pending sources leaves 0; besides, every write *)
(* of SR and the delay slot of an rte end in the loop.                     *)
(***************************************************************************)
EXTENDS Integers, Sequences, FiniteSets, SequencesExt

CONSTANTS
    IntrLevels,     \* the level the firmware gives each source; the
                    \* sources are 1..Len(IntrLevels), in cdj_intc's order
    IntrFixed,      \* sources in no priority register: their level is set
                    \* by the board and always on
    IntrTimers,     \* the sources of the timers
    IntrWindow,     \* the IMASK of the interrupt prologue
    MaxAsserts      \* bound: times a device raises its line

Sources == DOMAIN IntrLevels

ASSUME IntrAssumption ==
    /\ IntrLevels \in Seq(1..14) /\ IntrWindow \in 1..15 /\ MaxAsserts \in Nat
    /\ IntrFixed \subseteq Sources /\ IntrTimers \subseteq Sources
    /\ \A s \in Sources : IntrLevels[s] < IntrWindow

VARIABLES
    lines,      \* the sources whose device holds its line up
    prio,       \* sources[].prio; 0 for a field that holds 0
    requested,  \* CPU_INTERRUPT_HARD
    kicked,     \* cpu_interrupt has asked the CPU back to its loop
    cpu,        \* "loop", "chained", "slot" (an rte's delay slot is next)
    asleep,     \* halted by the sleep instruction
    sr, ssr,    \* [imask, bl]
    handlers,   \* the handlers entered and not left
    asserts     \* times a line went up

intrVars == <<lines, prio, requested, kicked, cpu, asleep, sr, ssr, handlers, asserts>>

Masked == [imask |-> 15, bl |-> TRUE]
Reset0 == [s \in Sources |-> IF s \in IntrFixed THEN IntrLevels[s] ELSE 0]

IntrInit ==
    /\ lines = {} /\ prio = Reset0 /\ requested = FALSE /\ kicked = FALSE
    /\ cpu = "loop" /\ asleep = FALSE /\ sr = Masked /\ ssr = Masked
    /\ handlers = <<>> /\ asserts = 0

-----------------------------------------------------------------------------
(* The controller.  *)

PendingAt(up, level) == {s \in up : level[s] > 0}
PendingSources == PendingAt(lines, prio)

(* sh_intc_get_pending_vector: the highest level above IMASK, the first    *)
(* source among equals; the empty set stands for -1.                       *)
PendingVector(imask) ==
    {s \in PendingSources :
        /\ prio[s] > imask
        /\ \A t \in PendingSources :
              prio[t] < prio[s] \/ (prio[t] = prio[s] /\ s <= t)}

(* sh_intc_toggle_source: the request follows the number of pending        *)
(* sources, and the CPU is called only as that number leaves 0.            *)
Settle(up, level) ==
    /\ lines' = up /\ prio' = level
    /\ requested' = (PendingAt(up, level) # {})
    /\ kicked' = (kicked \/ (PendingSources = {} /\ PendingAt(up, level) # {}))

(* A device raises its line, at any moment.  *)
RaiseLine(s) ==
    /\ s \notin lines /\ asserts < MaxAsserts /\ asserts' = asserts + 1
    /\ Settle(lines \cup {s}, prio)
    /\ UNCHANGED <<cpu, asleep, sr, ssr, handlers>>

(* sh_intc_write: the firmware gives a source its level, or takes it away. *)
(* It never goes from one level to another without the 0 between.          *)
SetLevel(s) ==
    /\ cpu = "chained" /\ handlers = <<>> /\ s \notin IntrFixed
    /\ Settle(lines, [prio EXCEPT ![s] = IF @ = 0 THEN IntrLevels[s] ELSE 0])
    /\ UNCHANGED <<cpu, asleep, sr, ssr, handlers, asserts>>

(* A task clears the device itself, without its handler.  *)
PollDevice(s) ==
    /\ cpu = "chained" /\ handlers = <<>> /\ s \in lines
    /\ Settle(lines \ {s}, prio)
    /\ UNCHANGED <<cpu, asleep, sr, ssr, handlers, asserts>>

-----------------------------------------------------------------------------
(* The CPU's loop.  *)

(* superh_cpu_exec_interrupt finds a vector.  *)
Accepts == ~(sr.bl /\ ~asleep) /\ \E s \in PendingSources : prio[s] > sr.imask

(* superh_cpu_exec_interrupt and superh_cpu_do_interrupt: SR goes to SSR,  *)
(* BL is set and IMASK takes the level of what is accepted.                *)
TakeInterrupt ==
    /\ cpu = "loop" /\ requested /\ Accepts
    /\ \E s \in PendingVector(sr.imask) :
          /\ ssr' = sr /\ sr' = [imask |-> prio[s], bl |-> TRUE]
          /\ handlers' = Append(handlers,
                [source |-> s, level |-> prio[s], phase |-> "entered",
                 entry |-> 0, saved |-> Masked])
    /\ cpu' = "chained" /\ kicked' = FALSE /\ asleep' = FALSE
    /\ UNCHANGED <<lines, prio, requested, asserts>>

(* Nothing is accepted: the next block runs, and those it chains to.  A    *)
(* halted CPU waits for a request.                                         *)
EnterBlocks ==
    /\ cpu = "loop" /\ ~(requested /\ Accepts) /\ (asleep => requested)
    /\ cpu' = "chained" /\ kicked' = FALSE
    /\ UNCHANGED <<lines, prio, requested, asleep, sr, ssr, handlers, asserts>>

(* The kick is seen at the end of a block.  *)
LeaveBlocks ==
    /\ cpu = "chained" /\ kicked
    /\ cpu' = "loop" /\ kicked' = FALSE
    /\ UNCHANGED <<lines, prio, requested, asleep, sr, ssr, handlers, asserts>>

(* A slip: the block of the slot chains into the resumed code.  *)
SlotChains ==
    /\ cpu = "slot" /\ cpu' = "chained" /\ UNCHANGED kicked
    /\ UNCHANGED <<lines, prio, requested, asleep, sr, ssr, handlers, asserts>>

(* use_exit_tb: what the delay slot of an rte ends in.  *)
RunSlot ==
    /\ cpu = "slot" /\ cpu' = "loop" /\ kicked' = FALSE
    /\ UNCHANGED <<lines, prio, requested, asleep, sr, ssr, handlers, asserts>>

-----------------------------------------------------------------------------
(* The firmware.  *)

WriteSr(value) == sr' = value /\ cpu' = "loop"
Top == handlers[Len(handlers)]
InPhase(phase) == cpu = "chained" /\ handlers # <<>> /\ Top.phase = phase
ToPhase(phase) == handlers' = [handlers EXCEPT ![Len(handlers)].phase = phase]

(* A task lowers its mask, raises it for a critical section (loc_cpu), or  *)
(* sleeps.                                                                 *)
TaskMasks ==
    /\ cpu = "chained" /\ handlers = <<>> /\ ~asleep
    /\ \E imask \in {0, 15} \ (IF sr.bl THEN {15} ELSE {sr.imask}) :
          WriteSr([imask |-> imask, bl |-> FALSE])
    /\ UNCHANGED <<lines, prio, requested, kicked, asleep, ssr, handlers, asserts>>

TaskSleeps ==
    /\ cpu = "chained" /\ handlers = <<>> /\ sr = [imask |-> 0, bl |-> FALSE]
    /\ cpu' = "loop" /\ asleep' = TRUE
    /\ UNCHANGED <<lines, prio, requested, kicked, sr, ssr, handlers, asserts>>

(* The prologue keeps SSR and its own mask, and opens a window no device   *)
(* reaches.                                                                *)
OpenWindow ==
    /\ InPhase("entered")
    /\ handlers' = [handlers EXCEPT ![Len(handlers)].phase = "window",
                                    ![Len(handlers)].saved = ssr,
                                    ![Len(handlers)].entry = sr.imask]
    /\ WriteSr([imask |-> IntrWindow, bl |-> FALSE])
    /\ UNCHANGED <<lines, prio, requested, kicked, asleep, ssr, asserts>>

(* It restores the mask it was entered with, and only then does the body   *)
(* take the device's line down.                                            *)
CloseWindow ==
    /\ InPhase("window") /\ ToPhase("body")
    /\ WriteSr([imask |-> Top.entry, bl |-> FALSE])
    /\ UNCHANGED <<lines, prio, requested, kicked, asleep, ssr, asserts>>

ClearDevice ==
    /\ InPhase("body") /\ ToPhase("cleared")
    /\ Settle(lines \ {Top.source}, prio)
    /\ UNCHANGED <<cpu, asleep, sr, ssr, asserts>>

RestoreSsr ==
    /\ InPhase("cleared") /\ ToPhase("leaving")
    /\ ssr' = Top.saved /\ WriteSr([sr EXCEPT !.bl = TRUE])
    /\ UNCHANGED <<lines, prio, requested, kicked, asleep, asserts>>

(* The rte restores SR and ends its block; at the loop its delay slot is   *)
(* indivisible, so nothing is offered before the slot has run.             *)
ReturnFromHandler ==
    /\ InPhase("leaving") /\ handlers' = Front(handlers)
    /\ sr' = ssr /\ cpu' = "slot"
    /\ UNCHANGED <<lines, prio, requested, kicked, asleep, ssr, asserts>>

(* A reset of the machine: the CPU is masked and the timers stop, their    *)
(* lines falling; the boot then zeroes the levels.                         *)
ResetBoard ==
    /\ handlers # <<>> /\ handlers' = <<>>
    /\ Settle(lines \ IntrTimers, Reset0)
    /\ sr' = Masked /\ cpu' = "loop" /\ asleep' = FALSE
    /\ UNCHANGED <<ssr, asserts>>

IntrNext ==
    \/ \E s \in Sources : RaiseLine(s) \/ SetLevel(s) \/ PollDevice(s)
    \/ TakeInterrupt \/ EnterBlocks \/ LeaveBlocks \/ RunSlot
    \/ TaskMasks \/ TaskSleeps \/ OpenWindow \/ CloseWindow \/ ClearDevice
    \/ RestoreSsr \/ ReturnFromHandler \/ ResetBoard

-----------------------------------------------------------------------------

IntrTypeOK ==
    LET Sr == [imask : 0..15, bl : BOOLEAN]
    IN  /\ lines \subseteq Sources /\ prio \in [Sources -> 0..15]
        /\ requested \in BOOLEAN /\ kicked \in BOOLEAN /\ asleep \in BOOLEAN
        /\ cpu \in {"loop", "chained", "slot"} /\ sr \in Sr /\ ssr \in Sr
        /\ asserts \in 0..MaxAsserts
        /\ \A i \in DOMAIN handlers :
              /\ handlers[i].source \in Sources /\ handlers[i].level \in 1..14
              /\ handlers[i].saved \in Sr /\ handlers[i].entry \in 0..15
              /\ handlers[i].phase \in {"entered", "window", "body", "cleared", "leaving"}

(* Handlers nest only upwards: one interrupts another only with a higher   *)
(* level, so none is re-entered before it has taken its device's line down *)
(* ("re-enters the handler immediately and nests until the stack is gone", *)
(* sh_intc.c's patch), and what is left returns to the mask below it.      *)
NestUpwards ==
    /\ \A i, j \in DOMAIN handlers :
          i < j => /\ handlers[i].level < handlers[j].level
                   /\ handlers[i].source # handlers[j].source
    /\ \A i \in DOMAIN handlers :
          LET held == IF i = Len(handlers) /\ Top.phase = "entered" THEN ssr
                      ELSE handlers[i].saved
          IN  held.imask = IF i > 1 THEN handlers[i - 1].level ELSE 0

(* Nobody is forgotten: a task that runs on in its chained blocks, or      *)
(* sleeps, with no kick on its way, has nothing pending that it would      *)
(* accept.  Within a handler that does not hold: beside a pending source   *)
(* the number does not leave 0, and a higher one waits for the handler's   *)
(* next write of SR or its rte.  The rte's slot must therefore end in the  *)
(* loop, or what waited there is "never offered again".                    *)
OfferedAgain ==
    handlers = <<>> /\ (cpu = "chained" \/ asleep) /\ Accepts =>
        kicked \/ (asleep /\ requested)

IntrExact == NestUpwards /\ OfferedAgain
=============================================================================
