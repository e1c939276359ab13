------------------------------- MODULE NxsDsp -------------------------------
(***************************************************************************)
(* When the NXS player's DSP runs: emulator/qemu/cdj2000_nxs_hpi.c with    *)
(* its scheduler.  The DSP has no thread: it executes inside a call of     *)
(* MAIN's (legacy mode) or of a timer's (deferred mode), only after a      *)
(* stimulus of MAIN -- a DSPINT, the acknowledge of a HINT, a change of    *)
(* the boot phase -- and it yields when it raises HINT.  A stimulus that   *)
(* is dropped strands it.                                                  *)
(*                                                                         *)
(* The program in the DSP is any: a run of it executes some packets and    *)
(* may raise HINT, take the DSPINT, reset the port or fault.               *)
(*                                                                         *)
(* An operator headed "A slip" is the definition below it with a mistake   *)
(* in it, for trying the properties; no specification uses one.            *)
(***************************************************************************)
EXTENDS DspScheduler

CONSTANTS
    DspResetsHpi,   \* may the DSP's program reset the host port (HPIRST)
    MaxCalls        \* bound: calls of MAIN's

ASSUME NxsDspAssumption == DspResetsHpi \in BOOLEAN /\ MaxCalls \in Nat

VARIABLES
    sched,      \* the scheduler's state
    timer,      \* dsp_timer is pending (deferred mode)
    released,   \* MAIN has let go of the DSP's reset line
    started,    \* the interpreter has been started
    halted,     \* ... and has stopped on a fault
    hint,       \* HPIC.HINT: the DSP asks for the host
    dspint,     \* HPIC.DSPINT: the host asks for the DSP
    line,       \* UHPI_HINT as MAIN sees it, active low
    event,      \* event 34 is requested and the CPU has not seen it
    phase,      \* the boot phase MAIN shows the DSP
    calls,      \* calls of MAIN's so far
    since       \* packets executed since the last stimulus

lifecycle == <<released, started, halted, phase>>
port == <<hint, dspint, line, event>>
vars == <<sched, timer, lifecycle, port, calls, since>>

Init ==
    /\ sched \in {ResetScheduler(d) : d \in BOOLEAN} /\ timer = FALSE
    /\ released = FALSE /\ started = FALSE /\ halted = FALSE
    /\ hint = FALSE /\ dspint = FALSE /\ line = TRUE /\ event = FALSE
    /\ phase = 0 /\ calls = 0 /\ since = 0

Port(h, i, e, l) == hint' = h /\ dspint' = i /\ event' = e /\ line' = l

(* A slip: MAIN is not told of the DSP's HINT. *)
ExecuteUnheard(quota, n, fault, h, i, l) ==
    /\ n \in 0..quota
    /\ hint' \in BOOLEAN /\ dspint' \in {i, FALSE}
    /\ h /\ ~hint' => DspResetsHpi /\ ~dspint' /\ n > 0
    /\ h /\ hint' /\ n > 1 => DspResetsHpi
    /\ ~h /\ hint' => n > 0
    /\ ~fault => IF hint' THEN n > 0 ELSE n = quota
    /\ line' = l
    /\ event' = FALSE

(* execute_dsp: n packets of the DSP's program, at most quota, on a port    *)
(* with HINT = h, DSPINT = i and MAIN's line = l.  A HINT yields after the  *)
(* packet, a fault stops the DSP at it.  The line falls when the DSP raises *)
(* HINT; when the DSP resets the port nothing raises it.                    *)
Execute(quota, n, fault, h, i, l) ==
    /\ n \in 0..quota
    /\ hint' \in BOOLEAN /\ dspint' \in {i, FALSE}
    /\ h /\ ~hint' => DspResetsHpi /\ ~dspint' /\ n > 0
    /\ h /\ hint' /\ n > 1 => DspResetsHpi
    /\ ~h /\ hint' => n > 0
    /\ ~fault => IF hint' THEN n > 0 ELSE n = quota
    /\ line' = (l /\ ~hint')
    /\ event' = FALSE

(* run_dsp, from a port as MAIN's call leaves it.  Nothing runs on a DSP    *)
(* that has not been started or has stopped.                                *)
NotRun(h, i, e, l) ==
    /\ ~started' \/ halted
    /\ Port(h, i, e, l)
    /\ UNCHANGED <<sched, timer, halted, since>>

(* A slip: the request is noted and no timer set ... *)
ScheduleUnarmed(h, i, e, l) ==
    /\ started' /\ ~halted /\ sched.deferred
    /\ Port(h, i, e, l)
    /\ since' = 0
    /\ UNCHANGED timer
    /\ IF CanRequest(sched)
       THEN sched' = Requested(sched) /\ UNCHANGED halted
       ELSE halted' = TRUE /\ UNCHANGED sched

(* ... or a refused one is not noticed. *)
ScheduleUnnoticed(h, i, e, l) ==
    /\ started' /\ ~halted /\ sched.deferred
    /\ Port(h, i, e, l)
    /\ since' = 0
    /\ UNCHANGED halted
    /\ IF CanRequest(sched)
       THEN sched' = Requested(sched) /\ timer' = TRUE
       ELSE UNCHANGED <<sched, timer>>

Schedule(h, i, e, l) ==
    /\ started' /\ ~halted /\ sched.deferred
    /\ Port(h, i, e, l)
    /\ since' = 0
    /\ IF CanRequest(sched)
       THEN sched' = Requested(sched) /\ timer' = TRUE /\ UNCHANGED halted
       ELSE halted' = TRUE /\ UNCHANGED <<sched, timer>>

RunAtOnce(h, i, l) ==
    /\ started' /\ ~halted /\ ~sched.deferred
    /\ halted' \in BOOLEAN
    /\ \E n \in 0..Activation : Execute(Activation, n, halted', h, i, l) /\ since' = n
    /\ UNCHANGED <<sched, timer>>

Stimulus(h, i, e, l) == NotRun(h, i, e, l) \/ Schedule(h, i, e, l) \/ RunAtOnce(h, i, l)

(* hpi_write to HPIC: MAIN acknowledges a HINT, raises DSPINT, or both; the *)
(* first DSPINT starts the DSP (start_dsp).                                 *)
HostControl(ack, ask) ==
    LET h == hint /\ ~ack
        rising == ask /\ ~dspint
    IN  /\ calls < MaxCalls
        /\ rising \/ h # hint
        /\ calls' = calls + 1
        /\ started' = (started \/ rising)
        /\ Stimulus(h, dspint \/ ask, event \/ rising, IF h # hint THEN ~h ELSE line)
        /\ UNCHANGED <<released, phase>>

(* hpi_write to HPIC with HPIRST: both bits fall, which for a HINT is an    *)
(* acknowledge.                                                             *)
HostResetsPort ==
    /\ calls < MaxCalls
    /\ calls' = calls + 1
    /\ \/ hint /\ UNCHANGED started /\ Stimulus(FALSE, FALSE, event, TRUE)
       \/ ~hint /\ Port(FALSE, FALSE, event, line)
          /\ UNCHANGED <<started, sched, timer, halted, since>>
    /\ UNCHANGED <<released, phase>>

(* cdj_nxs_hpi_boot_phase *)
BootPhase ==
    /\ calls < MaxCalls
    /\ calls' = calls + 1
    /\ phase' = 1 - phase
    /\ UNCHANGED <<released, started>>
    /\ Stimulus(hint, dspint, event, line)

(* cdj_nxs_hpi_reset_line *)
AssertReset ==
    /\ released
    /\ released' = FALSE
    /\ timer' = FALSE /\ sched' = ResetScheduler(sched.deferred)
    /\ Port(FALSE, FALSE, FALSE, TRUE)
    /\ started' = FALSE /\ halted' = FALSE
    /\ since' = 0
    /\ UNCHANGED <<phase, calls>>

ReleaseReset ==
    /\ ~released /\ calls < MaxCalls
    /\ released' = TRUE
    /\ calls' = calls + 1
    /\ Port(TRUE, FALSE, event, FALSE)
    /\ UNCHANGED <<sched, timer, started, halted, phase, since>>

(* A slice of the scheduled activation. *)
RunSlice ==
    LET s == Begun(sched)
    IN  /\ \E n \in 0..Quota(s), fault \in BOOLEAN :
              /\ Execute(Quota(s), n, fault, hint, dspint, line)
              /\ IF CanEnd(s, n, hint', fault)
                 THEN sched' = Ended(s, n, hint', fault) /\ halted' = fault
                 ELSE sched' = s /\ halted' = TRUE
              /\ since' = since + n
        /\ timer' = (sched'.pending /\ ~halted')

(* deferred_dsp_tick: it returns at once when there is nothing to run, and  *)
(* the DSP stops when the scheduler refuses a slice.                        *)
Tick ==
    /\ timer
    /\ IF started /\ ~halted /\ sched.pending /\ CanBegin(sched)
       THEN RunSlice
       ELSE /\ timer' = FALSE
            /\ halted' = (halted \/ (started /\ sched.pending))
            /\ UNCHANGED <<sched, port, since>>
    /\ UNCHANGED <<released, started, phase, calls>>

Next ==
    \/ \E ack, ask \in BOOLEAN : HostControl(ack, ask)
    \/ HostResetsPort \/ BootPhase \/ AssertReset \/ ReleaseReset
    \/ Tick

(* QEMU runs its timers. *)
Spec == Init /\ [][Next]_vars /\ WF_vars(Tick)
-----------------------------------------------------------------------------
TypeOK ==
    /\ sched \in Scheduler
    /\ timer \in BOOLEAN
    /\ released \in BOOLEAN /\ started \in BOOLEAN /\ halted \in BOOLEAN
    /\ hint \in BOOLEAN /\ dspint \in BOOLEAN /\ line \in BOOLEAN /\ event \in BOOLEAN
    /\ phase \in 0..1 /\ calls \in Nat /\ since \in Nat

(* No call of MAIN's or of the timer's leaves the scheduler in a state that *)
(* its own functions, or a checkpoint's reader, would refuse.               *)
SchedulerValid == Valid(sched)

(* "instead of stranding the DSP": what has been scheduled has a timer to   *)
(* run it, no timer runs for nothing, and a DSPINT that the CPU has not     *)
(* seen yet is scheduled.                                                   *)
NeverStranded ==
    sched.deferred /\ started /\ ~halted =>
        /\ timer <=> sched.pending
        /\ event => sched.pending

(* MAIN's input follows the port: UHPI_HINT is low while HINT is set.       *)
LineFollowsHint == line = ~hint

(* A stimulus is worth a whole activation, also one that comes in the       *)
(* middle of another: the DSP comes to rest by itself only when it has      *)
(* executed that many packets since.                                        *)
WholeActivation ==
    [][sched.pending /\ ~sched'.pending /\ started' =>
          hint' \/ halted' \/ since' >= Activation]_vars

(* A DSP that has been given something to execute comes to rest: it asks    *)
(* for MAIN, faults or is stopped, is reset or has used its budget.         *)
ComesToRest == sched.pending ~> ~sched.pending \/ halted
=============================================================================
