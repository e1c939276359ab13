------------------------------- MODULE MCDsp -------------------------------
(***************************************************************************)
(* An instance for TLC of the DSP: when MAIN lets it run (NxsDsp), and the *)
(* parts of its core and its devices.  They share no state, so one of them *)
(* runs in each behaviour while the others rest.                           *)
(***************************************************************************)
EXTENDS NxsDsp, DspLoop, DspPipeline, DspTimer, DspIntc, DspAudio, DspCheckpoint,
        MCDspArith

VARIABLE unit       \* the part that runs

dspVars == <<unit, vars, loopVars, coreVars, timerVars, intcVars, audioVars, arithVars,
             checkpointVars>>

(* Loops of one to six cycles, with masked operations and empty cycles. *)
P(masked, wait) == [masked |-> masked, wait |-> wait]
Bodies == {<<P(FALSE, 0)>>, <<P(TRUE, 1), P(FALSE, 0), P(FALSE, 0)>>,
           <<P(FALSE, 4), P(TRUE, 0), P(FALSE, 0)>>, <<P(FALSE, 0), P(TRUE, 0)>>}
SmallLoops == [delayed : BOOLEAN, ii : {1, 2, 3}, count : {0, 1, 2, 5, 7},
               delay : {0, 2}, body : Bodies]

(* Programs of the core, each with one service routine, the path it takes, *)
(* the result, where no interrupt may come and which packets are refused.  *)
Prog(main, ints, service, trace, final, closed, refused) ==
    [code |-> main \o <<{}>> \o service, done |-> Len(main) + 1, ints |-> ints,
     vector |-> [i \in ints |-> Len(main) + 2], path |-> trace,
     result |-> [c \in {0, 1} |-> final[c + 1]], closed |-> closed, refused |-> refused]

Isr1 == <<{Set("i", 1)}, {Store(2, "i")}, {Birp}, {Nop(5)}>>
Isr2 == <<{Protected(2, "i")}, {Store(2, "i"), Birp}, {Gate("csr", 2)}, {Nop(4)}>>

(* A load and two stores of a cell under way at once. *)
Straight(service) ==
    Prog(<<{Set("a", 1)}, {Store(0, "a")}, {Load(0, "b"), Set("a", 2)}, {Store(0, "a")},
           {Nop(4)}, {Store(1, "b")}, {Nop(3)}>>,
         {4, 5}, service, <<1, 2, 3, 4, 5, 6, 7>>, <<2, 1>>, {}, {})

(* BDEC around a loop, and a branch in the delay slots of another. *)
BackOnce ==
    Prog(<<{Set("a", 0), Set("b", 7)}, {Store(0, "a")}, {Dec("a", 2)}, {}, {Nop(2)}, {Nop(2)},
           {Store(1, "b")}>>,
         {4}, Isr1, <<1, 2, 3, 4, 5, 6, 2, 3, 4, 5, 6, 7>>, <<-1, 7>>, {3, 4, 5}, {})
BranchTwice ==
    Prog(<<{Branch(5, 1)}, {Branch(7, 1), Set("a", 4)}, {Nop(9)}, {Set("a", 6)}, {Store(0, "a")},
           {Store(1, "a")}, {Nop(2)}>>,
         {4}, Isr1, <<1, 2, 3, 5, 7>>, <<4, 0>>, {1, 2, 3}, {})

(* Between DINT and RINT; IDLE, in a delay slot too; the control registers. *)
Critical ==
    Prog(<<{Simple("dint")}, {Load(0, "b")}, {Nop(4)}, {Set("b", 3)}, {Store(1, "b")},
           {Simple("rint")}, {}>>,
         {4}, Isr1, <<1, 2, 3, 4, 5, 6, 7>>, <<0, 3>>, {1, 2, 3, 4, 5}, {})
Sleeps ==
    Prog(<<{Branch(4, 1)}, {Asleep, Set("a", 1)}, {Set("a", 2)}, {Asleep, Store(0, "a")},
           {Store(1, "a")}>>,
         {4}, Isr1, <<1, 2, 4, 5>>, <<1, 1>>, {1}, {})
Masks ==
    Prog(<<{Gate("csr", 0)}, {Gate("isr", 5)}, {Set("b", 1)}, {}, {Gate("icr", 5)},
           {Gate("tsr", 2)}, {Gate("isr", 5), Gate("icr", 5)}, {Simple("rint")}, {}, {}, {}>>,
         {5}, <<{Gate("itsr", 1)}, {Birp}, {Nop(5)}>>, <<1, 2, 3, 4, 5, 6, 7, 8, 9, 10, 11>>,
         <<0, 0>>, 1..7, {})

(* Refused: a load and a store of a cell in one packet, a register written *)
(* while a load of it is under way, an interrupt let into a routine.       *)
Clash == Prog(<<{Set("a", 1)}, {Store(0, "a"), Load(0, "b")}>>, {4}, Isr1, <<1, 2>>, <<0, 0>>,
              {}, {2})
Late == Prog(<<{Load(0, "b")}, {Nop(3)}, {Set("b", 1)}>>, {}, Isr1, <<1, 2>>, <<0, 0>>, {}, {3})
Nests == Prog(<<{Set("a", 1)}, {Set("a", 2)}>>, {4},
              <<{Gate("csr", 3)}, {Nop(2)}, {Birp}, {Nop(5)}>>, <<1, 2>>, <<0, 0>>, {}, 4..7)

SmallPrograms == {Straight(Isr1), Straight(Isr2), BackOnce, BranchTwice, Critical, Sleeps, Masks,
                  Clash, Late, Nests}

(* The timer's set-ups: what it may be used for, with counters that come to *)
(* their period and with zero and the largest periods and reloads.          *)
HalfValues(low, high) == [h \in Halves |-> IF h = "12" THEN low ELSE high]
SmallSetups ==
    [mode : Modes, psc : {0, 2}, kind : 1..3, prd : {HalfValues(p, 1) : p \in Word},
     rel : {HalfValues(1, 2)}, external : BOOLEAN, readReset : {{}, {"34"}},
     enabled : {{"34"}, Halves}]
    \cup
    [mode : Modes, psc : {1}, kind : {1, 3}, prd : {HalfValues(0, 0), HalfValues(2, 2), HalfValues(1, 0)},
     rel : {HalfValues(0, 0), HalfValues(2, 0), HalfValues(0, 1)}, external : {FALSE},
     readReset : {Halves}, enabled : {Halves}]
Unused == CHOOSE s \in SmallSetups : s.mode = "whole" /\ s.kind = 1

-----------------------------------------------------------------------------
(* Which part runs.  A part that rests has one initial state. *)

Units == {"nxs", "loop", "core", "timer", "intc", "audio", "arith", "checkpoint"}

DspInit ==
    /\ unit \in Units
    /\ Init /\ (unit # "nxs" => ~sched.deferred)
    /\ LoopInit /\ (unit # "loop" => loop = CHOOSE l \in Loops : TRUE)
    /\ CoreInit /\ (unit # "core" => strict /\ program = CHOOSE p \in Programs : TRUE)
    /\ TimerInit
    /\ unit # "timer" => \A f \in DOMAIN Unused : tim[f] = Unused[f]
    /\ IntcInit /\ (unit # "intc" => \A i \in Interrupts : intc.mux[i] = 1)
    /\ AudioInit
    /\ unit # "audio" => edma.param[Ping].ab /\ mcasp.xtdm = {1}
    /\ CheckpointInit /\ (unit # "checkpoint" => disk = NoFile)
    /\ \/ unit = "arith" /\ ArithInit
       \/ unit # "arith" /\ alu = Started("divide", <<>>)

RestOf(part, variables) == unit # part => UNCHANGED variables

DspNext ==
    /\ UNCHANGED unit
    /\ \/ unit = "nxs" /\ Next
       \/ unit = "loop" /\ LoopNext
       \/ unit = "core" /\ CoreNext
       \/ unit = "timer" /\ TimerNext
       \/ unit = "intc" /\ IntcNext
       \/ unit = "audio" /\ AudioNext
       \/ unit = "arith" /\ ArithNext
       \/ unit = "checkpoint" /\ CheckpointNext
    /\ RestOf("nxs", vars) /\ RestOf("loop", loopVars) /\ RestOf("core", coreVars)
    /\ RestOf("timer", timerVars) /\ RestOf("intc", intcVars) /\ RestOf("audio", audioVars)
    /\ RestOf("arith", arithVars) /\ RestOf("checkpoint", checkpointVars)

(* The fairness is NxsDsp's. *)
DspSpec == DspInit /\ [][DspNext]_dspVars /\ WF_vars(unit = "nxs" /\ Tick)

DspTypeOK ==
    /\ TypeOK /\ SchedulerValid /\ LoopTypeOK /\ CoreTypeOK /\ TimerTypeOK /\ IntcTypeOK
    /\ AudioTypeOK /\ ArithTypeOK /\ CheckpointTypeOK
=============================================================================
