---------------------------- MODULE DspScheduler ----------------------------
(***************************************************************************)
(* The deferred DSP scheduler, emulator/qemu/cdj_dsp_scheduler.c: pure     *)
(* functions on a small serializable state.  A request starts an           *)
(* activation of a fixed number of packets, executed in slices; a request  *)
(* during an activation is remembered and starts one more when it is over. *)
(* Every function refuses a state that is not valid.                       *)
(*                                                                         *)
(* An operator headed "A slip" is the definition below it with a mistake   *)
(* in it, for trying the properties; no specification uses one.            *)
(***************************************************************************)
EXTENDS Integers

CONSTANTS
    Activation, \* CDJ_DSP_SCHEDULER_ACTIVATION_STEPS
    Slice,      \* CDJ_DSP_SCHEDULER_SLICE_STEPS
    MaxId       \* UINT64_MAX: the last activation and slice numbers

ASSUME DspSchedulerAssumption ==
    /\ Activation \in Nat \ {0} /\ Slice \in Nat \ {0} /\ MaxId \in Nat \ {0}

(* deferred is the mode: deferred-v1, or legacy, when nothing is scheduled. *)
Scheduler == [deferred : BOOLEAN, activation : 0..MaxId, slice : 0..MaxId,
              remaining : Nat, pending : BOOLEAN, rearm : BOOLEAN]

(* cdj_dsp_scheduler_reset, in either mode *)
ResetScheduler(d) == [deferred |-> d, activation |-> 0, slice |-> 0,
                      remaining |-> 0, pending |-> FALSE, rearm |-> FALSE]

Idle(s) == s = ResetScheduler(s.deferred)

(* A slice has been cut off the activation a whole number of times. *)
WholeSlices(n) == \E k \in 0..Activation : n = k * Slice

(* cdj_dsp_scheduler_valid *)
Valid(s) ==
    /\ ~s.deferred => Idle(s)
    /\ s.remaining <= Activation
    /\ s.pending <=> s.remaining # 0
    /\ s.rearm => s.pending
    /\ s.activation = 0 => s.slice = 0 /\ ~s.pending
    /\ s.activation # 0 /\ s.slice = 0 => s.remaining = Activation
    /\ s.pending => WholeSlices(Activation - s.remaining)

(* A slip: the last activation number is not the last. *)
CanRequestForEver(s) == Valid(s) /\ s.deferred

(* cdj_dsp_scheduler_request *)
CanRequest(s) == Valid(s) /\ s.deferred /\ (s.pending \/ s.activation < MaxId)

(* A slip: a new activation keeps the number of the last. *)
RequestedUnnumbered(s) ==
    IF s.pending THEN [s EXCEPT !.rearm = TRUE]
    ELSE [s EXCEPT !.remaining = Activation, !.pending = TRUE]

Requested(s) ==
    IF s.pending THEN [s EXCEPT !.rearm = TRUE]
    ELSE [s EXCEPT !.activation = @ + 1, !.remaining = Activation, !.pending = TRUE]

(* cdj_dsp_scheduler_begin *)
CanBegin(s) == Valid(s) /\ s.deferred /\ s.pending /\ s.slice < MaxId

Begun(s) == [s EXCEPT !.slice = @ + 1]

Quota(s) == IF s.remaining < Slice THEN s.remaining ELSE Slice

(* cdj_dsp_scheduler_end: a slice stops short only for a HINT or a fault,   *)
(* and then the activation is over, and with it what was remembered.        *)
Over(s) == [s EXCEPT !.remaining = 0, !.pending = FALSE, !.rearm = FALSE]

(* A slip: what was remembered during the activation is forgotten. *)
EndedForgetful(s, executed, hint, fault) ==
    IF hint \/ fault \/ s.remaining <= executed THEN Over(s)
    ELSE [s EXCEPT !.remaining = @ - executed]

Ended(s, executed, hint, fault) ==
    IF hint \/ fault THEN Over(s)
    ELSE IF s.remaining > executed THEN [s EXCEPT !.remaining = @ - executed]
    ELSE IF s.rearm
    THEN [s EXCEPT !.activation = @ + 1, !.remaining = Activation, !.rearm = FALSE]
    ELSE Over(s)

CanEnd(s, executed, hint, fault) ==
    /\ Valid(s) /\ s.deferred /\ s.pending
    /\ executed <= Quota(s)
    /\ hint \/ fault \/ executed = Quota(s)
    /\ hint \/ fault \/ s.remaining > executed \/ ~s.rearm \/ s.activation < MaxId
    /\ Valid(Ended(s, executed, hint, fault))
=============================================================================
