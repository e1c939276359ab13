------------------------------ MODULE DspIntc ------------------------------
(***************************************************************************)
(* The DSP's interrupt controller, emulator/qemu/cdj_c6747_intc.c: events   *)
(* set flags, the flags of a group that are not masked make its combined    *)
(* event, and each of the core's interrupts selects one event.  Requests    *)
(* wait until the core takes them, before a step (cdj2000_nxs_hpi.c's       *)
(* execute_dsp), into its interrupt flags.                                  *)
(*                                                                          *)
(* Events 1 to 3 are of one group, whose combined event is 0.  The service  *)
(* routine of the combined event is external: it reads the masked flags,    *)
(* clears those it read and serves them, until it reads none.  The          *)
(* exception masks, which only keep their value, are left out.              *)
(***************************************************************************)
EXTENDS Integers, FiniteSets

CONSTANTS
    Interrupts,     \* the core's interrupts
    MaxEvents       \* bound: events of a run

Events == 1..3
Combined == 0

ASSUME DspIntcAssumption == Interrupts # {} /\ MaxEvents \in Nat

VARIABLES
    intc,       \* event_flag, event_mask and interrupt_mux, and cpu_request
    ifr,        \* the core's interrupt flags
    routine,    \* where the combined event's routine is, and what it has read
    events      \* events and register writes so far

intcVars == <<intc, ifr, routine, events>>

IntcInit ==
    /\ \E mux \in [Interrupts -> {Combined, 1}] :
         intc = [flag |-> {}, mask |-> Events, mux |-> mux, request |-> {}]
    /\ ifr = {} /\ routine = [at |-> "idle", read |-> {}]
    /\ events = 0

CombinedActive(c) == c.flag \ c.mask # {}

(* request_selected_event: the interrupts that select the event. *)
Selected(c, event) == {i \in Interrupts : c.mux[i] = event}

(* The combined event's turn from inactive to active is an event too. *)
Combine(before, after) ==
    IF ~CombinedActive(before) /\ CombinedActive(after)
    THEN [after EXCEPT !.request = @ \cup Selected(after, Combined)] ELSE after

-----------------------------------------------------------------------------

(* A slip: the group is looked at after the event's flag is set. *)
RaisedTooLate(c, es) ==
    LET flagged == [c EXCEPT !.flag = @ \cup es,
                             !.request = @ \cup UNION {Selected(c, e) : e \in es}]
    IN  Combine(flagged, flagged)

(* deliver_event, and EVTSET, which raises several: each goes to the        *)
(* interrupts that select it, whatever its mask and its flag.               *)
Raised(c, es) ==
    LET flagged == [c EXCEPT !.flag = @ \cup es,
                             !.request = @ \cup UNION {Selected(c, e) : e \in es}]
    IN  Combine(c, flagged)

(* A device's event, or EVTSET. *)
Event ==
    \E es \in SUBSET Events \ {{}} :
        /\ events < MaxEvents /\ events' = events + 1
        /\ intc' = Raised(intc, es)
        /\ UNCHANGED <<ifr, routine>>

(* EVTMASK. *)
WriteMask ==
    \E mask \in SUBSET Events :
        /\ mask # intc.mask /\ events < MaxEvents /\ events' = events + 1
        /\ intc' = Combine(intc, [intc EXCEPT !.mask = mask])
        /\ UNCHANGED <<ifr, routine>>

(* INTMUX: an interrupt selects another event, while nothing is pending. *)
WriteMux ==
    \E i \in Interrupts, e \in {Combined} \cup Events :
        /\ ~CombinedActive(intc) /\ intc.request \cup ifr = {} /\ routine.at = "idle"
        /\ e # intc.mux[i] /\ events < MaxEvents /\ events' = events + 1
        /\ intc' = [intc EXCEPT !.mux[i] = e]
        /\ UNCHANGED <<ifr, routine>>

(* cpu_pending: before a step the core takes the requests. *)
Take ==
    /\ intc.request # {} /\ ifr' = ifr \cup intc.request
    /\ intc' = [intc EXCEPT !.request = {}]
    /\ UNCHANGED <<routine, events>>

(* The core enters the routine of an interrupt. *)
Serve ==
    \E i \in ifr :
        /\ routine.at = "idle" /\ ifr' = ifr \ {i}
        /\ routine' = [at |-> IF intc.mux[i] = Combined THEN "reads" ELSE "idle", read |-> {}]
        /\ UNCHANGED <<intc, events>>

(* The routine reads MEVTFLAG, *)
ReadFlags ==
    /\ routine.at = "reads"
    /\ LET read == intc.flag \ intc.mask
       IN  routine' = [at |-> IF read = {} THEN "idle" ELSE "clears", read |-> read]
    /\ UNCHANGED <<intc, ifr, events>>

(* and writes it to EVTCLR. *)
ClearFlags ==
    /\ routine.at = "clears" /\ routine' = [routine EXCEPT !.at = "reads"]
    /\ intc' = [intc EXCEPT !.flag = @ \ routine.read]
    /\ UNCHANGED <<ifr, events>>

IntcNext == Event \/ WriteMask \/ WriteMux \/ Take \/ Serve \/ ReadFlags \/ ClearFlags

IntcSpec == IntcInit /\ [][IntcNext]_intcVars

-----------------------------------------------------------------------------
(* Properties. *)

IntcTypeOK ==
    /\ intc.flag \subseteq Events /\ intc.mask \subseteq Events
    /\ intc.mux \in [Interrupts -> {Combined} \cup Events]
    /\ intc.request \subseteq Interrupts /\ ifr \subseteq Interrupts
    /\ routine.at \in {"idle", "reads", "clears"} /\ events \in 0..MaxEvents

(* No unmasked event of the group waits for a routine that will not come:   *)
(* while an interrupt selects the combined event it is requested, or the    *)
(* routine has yet to read the flags again.  The combined event is an edge, *)
(* and one flag is set while another is cleared, or is unmasked.            *)
EventAnnounced ==
    CombinedActive(intc) /\ Selected(intc, Combined) # {} =>
        routine.at # "idle" \/ Selected(intc, Combined) \cap (intc.request \cup ifr) # {}
=============================================================================
