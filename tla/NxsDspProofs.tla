---------------------------- MODULE NxsDspProofs ----------------------------
(***************************************************************************)
(* What holds of NxsDsp for every size of an activation and of a slice,    *)
(* every largest number and both modes.  The lemmas are about the          *)
(* scheduler's functions; the theorems follow from one inductive           *)
(* invariant, which is the conjunction of what they state.                 *)
(***************************************************************************)
EXTENDS NxsDsp, TLAPS

(* Cutting one more slice off an activation leaves it cut a whole number of *)
(* times.                                                                   *)
LEMMA OneMoreSlice ==
    ASSUME NEW n \in Nat, WholeSlices(n), n + Slice <= Activation
    PROVE  WholeSlices(n + Slice)
<1>1. PICK k \in 0..Activation : n = k * Slice
  BY DEF WholeSlices
<1>2. n + Slice = (k + 1) * Slice
  BY <1>1, DspSchedulerAssumption
<1>3. k <= n
  BY <1>1, DspSchedulerAssumption
<1>4. k + 1 \in 0..Activation
  BY <1>3, DspSchedulerAssumption
<1> QED
  BY <1>2, <1>4 DEF WholeSlices

(* A state that has just been reset is valid, in either mode. *)
LEMMA ResetValid ==
    ASSUME NEW d \in BOOLEAN
    PROVE  ResetScheduler(d) \in Scheduler /\ Valid(ResetScheduler(d))
  BY DspSchedulerAssumption DEF ResetScheduler, Scheduler, Valid, Idle

(* A request that is not refused leaves a valid state with work to do. *)
LEMMA RequestedValid ==
    ASSUME NEW s \in Scheduler, CanRequest(s)
    PROVE  /\ Requested(s) \in Scheduler
           /\ Valid(Requested(s))
           /\ Requested(s).pending
<1>1. CASE s.pending
  BY <1>1, DspSchedulerAssumption DEF Scheduler, CanRequest, Requested, Valid, Idle, ResetScheduler
<1>2. CASE ~s.pending
  <2> DEFINE r == Requested(s)
  <2>1. r \in Scheduler
    <3>1. s.activation + 1 \in 0..MaxId
      BY <1>2, DspSchedulerAssumption DEF Scheduler, CanRequest
    <3> QED
      BY <1>2, <3>1, DspSchedulerAssumption DEF Requested, Scheduler
  <2>2. /\ r.activation = s.activation + 1 /\ r.slice = s.slice
        /\ r.remaining = Activation /\ r.pending /\ ~r.rearm /\ r.deferred
    BY <1>2 DEF Scheduler, Requested, CanRequest, Valid
  <2>3. Activation - r.remaining = 0 /\ WholeSlices(0)
    BY <2>2, DspSchedulerAssumption DEF WholeSlices
  <2>4. r.activation # 0
    BY <2>2 DEF Scheduler
  <2> HIDE DEF r
  <2>5. Valid(r)
    BY <2>2, <2>3, <2>4, DspSchedulerAssumption DEF CanRequest, Valid
  <2> QED
    BY <2>1, <2>2, <2>5 DEF r
<1> QED
  BY <1>1, <1>2

(* Beginning a slice keeps a valid state valid. *)
LEMMA BegunValid ==
    ASSUME NEW s \in Scheduler, CanBegin(s)
    PROVE  /\ Begun(s) \in Scheduler
           /\ Valid(Begun(s))
           /\ Begun(s).pending
           /\ Begun(s).slice # 0
           /\ Begun(s).deferred
  BY DspSchedulerAssumption DEF Scheduler, CanBegin, Begun, Valid, Idle, ResetScheduler

(* A slice that has been begun, and has executed what its quota allows,     *)
(* can be ended: the check that cdj_dsp_scheduler_end makes of its own      *)
(* result never refuses, and a DSP is not stopped for it.                   *)
LEMMA EndedValid ==
    ASSUME NEW s \in Scheduler, Valid(s), s.deferred, s.pending, s.slice # 0,
           NEW n \in 0..Quota(s), NEW hint0 \in BOOLEAN, NEW fault0 \in BOOLEAN,
           hint0 \/ fault0 \/ n = Quota(s),
           hint0 \/ fault0 \/ s.remaining > n \/ ~s.rearm \/ s.activation < MaxId
    PROVE  /\ Ended(s, n, hint0, fault0) \in Scheduler
           /\ CanEnd(s, n, hint0, fault0)
<1> DEFINE e == Ended(s, n, hint0, fault0)
<1>1. s.activation # 0 /\ n \in Nat /\ n <= Quota(s) /\ n <= s.remaining
  BY DspSchedulerAssumption DEF Valid, Scheduler, Quota
<1>2. ASSUME e = Over(s)
      PROVE  e \in Scheduler /\ Valid(e)
  <2>1. Over(s) \in Scheduler
    BY DEF Over, Scheduler
  <2>2. /\ Over(s).activation = s.activation /\ Over(s).slice = s.slice
        /\ Over(s).remaining = 0 /\ ~Over(s).pending /\ ~Over(s).rearm
        /\ Over(s).deferred
    BY DEF Over, Scheduler
  <2>3. Valid(Over(s))
    BY <1>1, <2>2, DspSchedulerAssumption DEF Valid
  <2> QED
    BY <1>2, <2>1, <2>3
<1>3. CASE hint0 \/ fault0
  <2>1. e = Over(s)
    BY <1>3 DEF Ended
  <2> HIDE DEF e
  <2>2. e \in Scheduler /\ Valid(e)
    BY <1>2, <2>1
  <2> QED
    BY <1>1, <1>3, <2>2 DEF CanEnd, e
<1>4. CASE ~hint0 /\ ~fault0 /\ s.remaining > n
  <2>1. n = Slice
    BY <1>4, DspSchedulerAssumption DEF Quota, Scheduler
  <2>2. WholeSlices((Activation - s.remaining) + Slice)
    BY <1>4, <2>1, OneMoreSlice, DspSchedulerAssumption DEF Scheduler, Valid
  <2>3. e \in Scheduler
    BY <1>4, <2>1, DspSchedulerAssumption DEF Ended, Scheduler
  <2>4. /\ e.activation = s.activation /\ e.slice = s.slice
        /\ e.remaining = s.remaining - Slice /\ e.pending = s.pending /\ e.rearm = s.rearm
        /\ e.deferred
    BY <1>4, <2>1 DEF Ended, Scheduler
  <2>5. /\ Activation - e.remaining = (Activation - s.remaining) + Slice
        /\ e.remaining # 0 /\ e.remaining <= Activation
    BY <1>4, <2>1, <2>4, DspSchedulerAssumption DEF Scheduler, Valid
  <2> HIDE DEF e
  <2>6. Valid(e)
    BY <1>1, <2>2, <2>4, <2>5 DEF Valid
  <2> QED
    BY <1>1, <1>4, <2>3, <2>6 DEF CanEnd, e
<1>5. CASE ~hint0 /\ ~fault0 /\ ~(s.remaining > n) /\ s.rearm
  <2>1. e \in Scheduler
    <3>1. s.activation + 1 \in 0..MaxId
      BY <1>5, DspSchedulerAssumption DEF Scheduler
    <3> QED
      BY <1>5, <3>1, DspSchedulerAssumption DEF Ended, Scheduler
  <2>2. /\ e.activation = s.activation + 1 /\ e.slice = s.slice
        /\ e.remaining = Activation /\ e.pending = s.pending /\ ~e.rearm /\ e.deferred
    BY <1>5 DEF Ended, Scheduler
  <2>3. Activation - e.remaining = 0 /\ WholeSlices(0) /\ e.activation # 0
    BY <2>2, DspSchedulerAssumption DEF WholeSlices, Scheduler
  <2> HIDE DEF e
  <2>4. Valid(e)
    BY <2>2, <2>3, DspSchedulerAssumption DEF Valid
  <2> QED
    BY <1>1, <1>5, <2>1, <2>4 DEF CanEnd, e
<1>6. CASE ~hint0 /\ ~fault0 /\ ~(s.remaining > n) /\ ~s.rearm
  <2>1. e = Over(s)
    BY <1>6 DEF Ended
  <2> HIDE DEF e
  <2>2. e \in Scheduler /\ Valid(e)
    BY <1>2, <2>1
  <2> QED
    BY <1>1, <1>6, <2>2 DEF CanEnd, e
<1> QED
  BY <1>3, <1>4, <1>5, <1>6

-----------------------------------------------------------------------------
(* The inductive invariant. *)
Inv == TypeOK /\ SchedulerValid /\ NeverStranded

(* The device starts with an idle scheduler and no work.                    *)
LEMMA InitInv == Init => Inv
<1> SUFFICES ASSUME Init PROVE Inv
  OBVIOUS
<1>1. TypeOK
  <2>1. phase \in 0..1 /\ calls \in Nat /\ since \in Nat
    BY DEF Init
  <2> QED
    BY <2>1, ResetValid, Zenon DEF Init, TypeOK
<1>2. SchedulerValid
  BY ResetValid DEF Init, SchedulerValid
<1>3. NeverStranded
  BY DEF Init, NeverStranded
<1> QED
  BY <1>1, <1>2, <1>3 DEF Inv

(* A call of MAIN's that stimulates the DSP, in each of the three things it *)
(* can come to.                                                             *)
LEMMA StimulusInv ==
    ASSUME Inv,
           NEW h \in BOOLEAN, NEW i \in BOOLEAN, NEW e \in BOOLEAN, NEW l \in BOOLEAN,
           released' \in BOOLEAN, started' \in BOOLEAN, phase' \in 0..1, calls' \in Nat,
           Stimulus(h, i, e, l)
    PROVE  Inv'
<1>1. CASE NotRun(h, i, e, l)
  <2>1. TypeOK'
    BY <1>1 DEF Inv, TypeOK, NotRun, Port
  <2>2. SchedulerValid'
    BY <1>1 DEF Inv, SchedulerValid, NotRun, Valid, Idle
  <2>3. NeverStranded'
    BY <1>1 DEF NeverStranded, NotRun
  <2> QED
    BY <2>1, <2>2, <2>3 DEF Inv
<1>2. CASE Schedule(h, i, e, l)
  <2>1. CASE CanRequest(sched)
    <3>1. sched' \in Scheduler /\ Valid(sched') /\ sched'.pending
      BY <1>2, <2>1, RequestedValid DEF Inv, TypeOK, Schedule
    <3>2. TypeOK'
      BY <1>2, <2>1, <3>1 DEF Inv, TypeOK, Schedule, Port
    <3>3. NeverStranded'
      BY <1>2, <2>1, <3>1 DEF Schedule, NeverStranded
    <3> QED
      BY <3>1, <3>2, <3>3 DEF Inv, SchedulerValid
  <2>2. CASE ~CanRequest(sched)
    <3>1. TypeOK'
      BY <1>2, <2>2 DEF Inv, TypeOK, Schedule, Port
    <3>2. SchedulerValid'
      BY <1>2, <2>2 DEF Inv, SchedulerValid, Schedule
    <3>3. NeverStranded'
      BY <1>2, <2>2 DEF Schedule, NeverStranded
    <3> QED
      BY <3>1, <3>2, <3>3 DEF Inv
  <2> QED
    BY <2>1, <2>2
<1>3. CASE RunAtOnce(h, i, l)
  <2>1. PICK n \in 0..Activation :
          Execute(Activation, n, halted', h, i, l) /\ since' = n
    BY <1>3 DEF RunAtOnce
  <2>2. TypeOK'
    <3>1. line' \in BOOLEAN /\ hint' \in BOOLEAN /\ dspint' \in BOOLEAN /\ event' \in BOOLEAN
      BY <2>1 DEF Execute
    <3>2. sched' = sched /\ timer' = timer /\ halted' \in BOOLEAN /\ since' \in Nat
      BY <1>3, <2>1, DspSchedulerAssumption DEF RunAtOnce
    <3> QED
      BY <3>1, <3>2 DEF Inv, TypeOK
  <2>3. SchedulerValid'
    BY <1>3 DEF Inv, SchedulerValid, RunAtOnce
  <2>4. NeverStranded'
    BY <1>3 DEF NeverStranded, RunAtOnce
  <2> QED
    BY <2>2, <2>3, <2>4 DEF Inv
<1> QED
  BY <1>1, <1>2, <1>3 DEF Stimulus

(* A slice of an activation: what it comes to is what EndedValid allows, or *)
(* the DSP is stopped.                                                      *)
LEMMA RunSliceInv ==
    ASSUME Inv, CanBegin(sched), RunSlice,
           UNCHANGED <<released, started, phase, calls>>
    PROVE  Inv'
<1> DEFINE s == Begun(sched)
<1>1. s \in Scheduler /\ Valid(s) /\ s.pending /\ s.slice # 0 /\ s.deferred
  BY BegunValid DEF Inv, TypeOK, CanBegin
<1>2. PICK n \in 0..Quota(s), fault \in BOOLEAN :
        /\ Execute(Quota(s), n, fault, hint, dspint, line)
        /\ IF CanEnd(s, n, hint', fault)
           THEN sched' = Ended(s, n, hint', fault) /\ halted' = fault
           ELSE sched' = s /\ halted' = TRUE
        /\ since' = since + n
  BY DEF RunSlice
<1> HIDE DEF s
<1>3. hint' \in BOOLEAN /\ dspint' \in BOOLEAN /\ line' \in BOOLEAN /\ event' = FALSE
  BY <1>2 DEF Execute, Inv, TypeOK
<1>4. sched' \in Scheduler /\ Valid(sched') /\ halted' \in BOOLEAN
  <2>1. CASE CanEnd(s, n, hint', fault)
    <3>1. /\ hint' \/ fault \/ n = Quota(s)
          /\ hint' \/ fault \/ s.remaining > n \/ ~s.rearm \/ s.activation < MaxId
          /\ Valid(Ended(s, n, hint', fault))
      BY <2>1 DEF CanEnd
    <3>2. Ended(s, n, hint', fault) \in Scheduler
      BY <1>1, <1>3, <3>1, EndedValid
    <3> QED
      BY <1>2, <2>1, <3>1, <3>2
  <2>2. CASE ~CanEnd(s, n, hint', fault)
    BY <1>1, <1>2, <2>2
  <2> QED
    BY <2>1, <2>2
<1>5. since' \in Nat
  <2>1. n \in Nat
    BY <1>1, DspSchedulerAssumption DEF Quota, Scheduler
  <2> QED
    BY <1>2, <2>1 DEF Inv, TypeOK
<1>6. timer' = (sched'.pending /\ ~halted')
  BY DEF RunSlice
<1>7. TypeOK'
  BY <1>3, <1>4, <1>5, <1>6 DEF Inv, TypeOK
<1>8. NeverStranded'
  BY <1>3, <1>6 DEF NeverStranded
<1> QED
  BY <1>4, <1>7, <1>8 DEF Inv, SchedulerValid

(* Every step of MAIN's and of the timer's keeps the invariant. *)
LEMMA NextInv == Inv /\ [Next]_vars => Inv'
<1> SUFFICES ASSUME Inv, [Next]_vars PROVE Inv'
  OBVIOUS
<1>1. ASSUME NEW ack \in BOOLEAN, NEW ask \in BOOLEAN, HostControl(ack, ask)
      PROVE  Inv'
  <2> DEFINE h == hint /\ ~ack
  <2> DEFINE e == event \/ (ask /\ ~dspint)
  <2> DEFINE l == IF h # hint THEN ~h ELSE line
  <2>1. h \in BOOLEAN /\ (dspint \/ ask) \in BOOLEAN /\ e \in BOOLEAN /\ l \in BOOLEAN
    BY DEF Inv, TypeOK
  <2>2. released' \in BOOLEAN /\ started' \in BOOLEAN /\ phase' \in 0..1 /\ calls' \in Nat
    BY <1>1 DEF Inv, TypeOK, HostControl
  <2>3. Stimulus(h, dspint \/ ask, e, l)
    BY <1>1 DEF HostControl
  <2> QED
    BY <2>1, <2>2, <2>3, StimulusInv
<1>2. CASE HostResetsPort
  <2>1. released' \in BOOLEAN /\ started' \in BOOLEAN /\ phase' \in 0..1 /\ calls' \in Nat
    <3>1. released' = released /\ started' = started /\ phase' = phase /\ calls' = calls + 1
      BY <1>2, Zenon DEF HostResetsPort
    <3> QED
      BY <3>1 DEF Inv, TypeOK
  <2>2. CASE Stimulus(FALSE, FALSE, event, TRUE)
    BY <2>1, <2>2, StimulusInv DEF Inv, TypeOK
  <2>3. CASE Port(FALSE, FALSE, event, line) /\ UNCHANGED <<started, sched, timer, halted, since>>
    BY <2>1, <2>3 DEF Inv, TypeOK, SchedulerValid, NeverStranded, Port
  <2> QED
    BY <1>2, <2>2, <2>3 DEF HostResetsPort
<1>3. CASE BootPhase
  <2>1. released' \in BOOLEAN /\ started' \in BOOLEAN /\ phase' \in 0..1 /\ calls' \in Nat
    BY <1>3 DEF Inv, TypeOK, BootPhase
  <2>2. Stimulus(hint, dspint, event, line)
    BY <1>3 DEF BootPhase
  <2> QED
    BY <2>1, <2>2, StimulusInv DEF Inv, TypeOK
<1>4. CASE AssertReset
  <2>0. sched' \in Scheduler /\ Valid(sched')
    <3>1. sched.deferred \in BOOLEAN
      BY DEF Inv, TypeOK, Scheduler
    <3> QED
      BY <1>4, <3>1, ResetValid DEF AssertReset
  <2>1. TypeOK'
    BY <1>4, <2>0 DEF Inv, TypeOK, AssertReset, Port
  <2>2. SchedulerValid'
    BY <2>0 DEF SchedulerValid
  <2>3. NeverStranded'
    BY <1>4 DEF AssertReset, NeverStranded
  <2> QED
    BY <2>1, <2>2, <2>3 DEF Inv
<1>5. CASE ReleaseReset
  <2>1. TypeOK'
    <3>1. calls' \in Nat
      BY <1>5 DEF Inv, TypeOK, ReleaseReset
    <3> QED
      BY <1>5, <3>1, Zenon DEF Inv, TypeOK, ReleaseReset, Port
  <2>2. SchedulerValid' /\ NeverStranded'
    BY <1>5 DEF Inv, ReleaseReset, Port, SchedulerValid, NeverStranded
  <2> QED
    BY <2>1, <2>2 DEF Inv
<1>6. CASE Tick
  <2>1. CASE started /\ ~halted /\ sched.pending /\ CanBegin(sched)
    BY <1>6, <2>1, RunSliceInv DEF Tick
  <2>2. CASE ~(started /\ ~halted /\ sched.pending /\ CanBegin(sched))
    <3>1. /\ timer' = FALSE /\ halted' = (halted \/ (started /\ sched.pending))
          /\ UNCHANGED <<sched, port, since, released, started, phase, calls>>
      BY <1>6, <2>2 DEF Tick
    <3>2. TypeOK'
      BY <3>1 DEF Inv, TypeOK, port
    <3>3. SchedulerValid'
      BY <3>1 DEF Inv, SchedulerValid
    <3>4. ASSUME started', ~halted'
          PROVE  started /\ ~halted /\ ~sched.pending
      BY <3>1, <3>4
    <3>5. ASSUME sched.deferred, started', ~halted'
          PROVE  ~timer' /\ ~sched'.pending /\ ~event'
      BY <3>1, <3>4, <3>5 DEF Inv, NeverStranded, port
    <3>6. NeverStranded'
      BY <3>1, <3>5 DEF NeverStranded
    <3> QED
      BY <3>2, <3>3, <3>6 DEF Inv
  <2> QED
    BY <2>1, <2>2
<1>7. CASE UNCHANGED vars
  BY <1>7 DEF Inv, TypeOK, SchedulerValid, NeverStranded, vars, lifecycle, port
<1> QED
  BY <1>1, <1>2, <1>3, <1>4, <1>5, <1>6, <1>7 DEF Next

-----------------------------------------------------------------------------
(* The invariant holds in every reachable state.                            *)
LEMMA Invariance == Spec => []Inv
  BY InitInv, NextInv, PTL DEF Spec

(* Every variable of the host port and its scheduler keeps its type: the    *)
(* activation and slice numbers never pass the largest one.                 *)
THEOREM TypeCorrect == Spec => []TypeOK
<1>1. Inv => TypeOK
  BY DEF Inv
<1> QED
  BY <1>1, Invariance, PTL

(* cdj_dsp_scheduler_valid holds of the scheduler after every call, so that *)
(* none of its functions refuses a state it made, and a checkpoint taken at *)
(* any point is one that the reader accepts.                                *)
THEOREM SchedulerStaysValid == Spec => []SchedulerValid
<1>1. Inv => SchedulerValid
  BY DEF Inv
<1> QED
  BY <1>1, Invariance, PTL

(* Work that has been scheduled has a timer that will run it, and a DSPINT  *)
(* that the CPU has not seen is scheduled.                                  *)
THEOREM WorkIsNeverStranded == Spec => []NeverStranded
<1>1. Inv => NeverStranded
  BY DEF Inv
<1> QED
  BY <1>1, Invariance, PTL

-----------------------------------------------------------------------------
(* It is inductive with the type of HINT alone. *)
LineInv == hint \in BOOLEAN /\ line = ~hint

(* Whatever MAIN did to the port, a run of the DSP leaves the line true. *)
LEMMA StimulusLine ==
    ASSUME ~DspResetsHpi, NEW h \in BOOLEAN, NEW i, NEW e, NEW l, l = ~h,
           Stimulus(h, i, e, l)
    PROVE  LineInv'
<1>1. CASE NotRun(h, i, e, l) \/ Schedule(h, i, e, l)
  BY <1>1 DEF NotRun, Schedule, Port, LineInv
<1>2. CASE RunAtOnce(h, i, l)
  <2>1. PICK n \in 0..Activation : Execute(Activation, n, halted', h, i, l)
    BY <1>2 DEF RunAtOnce
  <2> QED
    BY <2>1 DEF Execute, LineInv
<1> QED
  BY <1>1, <1>2 DEF Stimulus

(* Every access of MAIN's and every slice leaves the input showing HINT.    *)
LEMMA LineStep ==
    ASSUME ~DspResetsHpi, LineInv, [Next]_vars
    PROVE  LineInv'
<1>1. ASSUME NEW ack \in BOOLEAN, NEW ask \in BOOLEAN, HostControl(ack, ask)
      PROVE  LineInv'
  <2> DEFINE h == hint /\ ~ack
             l == IF h # hint THEN ~h ELSE line
  <2>1. PICK i, e : Stimulus(h, i, e, l)
    BY <1>1 DEF HostControl
  <2>2. h \in BOOLEAN /\ l = ~h
    BY DEF LineInv
  <2> HIDE DEF h, l
  <2> QED
    BY <2>1, <2>2, StimulusLine
<1>2. CASE HostResetsPort
  BY <1>2, StimulusLine DEF HostResetsPort, LineInv, Port
<1>3. CASE BootPhase
  BY <1>3, StimulusLine DEF BootPhase, LineInv
<1>4. CASE AssertReset \/ ReleaseReset
  BY <1>4 DEF AssertReset, ReleaseReset, Port, LineInv
<1>5. CASE Tick
  <2>1. CASE RunSlice
    <3>1. PICK n, fault : Execute(Quota(Begun(sched)), n, fault, hint, dspint, line)
      BY <2>1 DEF RunSlice
    <3> QED
      BY <3>1 DEF Execute, LineInv
  <2> QED
    BY <1>5, <2>1 DEF Tick, port, LineInv
<1>6. CASE UNCHANGED vars
  BY <1>6 DEF vars, port, LineInv
<1> QED
  BY <1>1, <1>2, <1>3, <1>4, <1>5, <1>6 DEF Next

(* Unless the DSP's program resets the port itself, MAIN's line is low     *)
(* exactly while HINT is set: a DSP that asks is heard, and one that has    *)
(* been acknowledged does not interrupt again.                              *)
THEOREM LineIsHint == ~DspResetsHpi => (Spec => []LineFollowsHint)
<1> SUFFICES ASSUME ~DspResetsHpi PROVE Spec => []LineFollowsHint
  OBVIOUS
<1>1. Init => LineInv
  BY DEF Init, LineInv
<1>2. LineInv /\ [Next]_vars => LineInv'
  BY LineStep
<1>3. LineInv => LineFollowsHint
  BY DEF LineInv, LineFollowsHint
<1> QED
  BY <1>1, <1>2, <1>3, PTL DEF Spec
=============================================================================
