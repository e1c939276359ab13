---------------------------- MODULE DspPipeline ----------------------------
(***************************************************************************)
(* The issue and retirement of the DSP core's packets, emulator/qemu/      *)
(* cdj_c674x.c with cdj_c674x_multicycle.h: a packet's register writes are  *)
(* done at once, its stores two cycles later, its loads read memory two     *)
(* cycles later and write their register four later, its branches are taken *)
(* five later, and an interrupt may come before any packet.  A packet that  *)
(* is refused leaves the core as it was.                                    *)
(*                                                                          *)
(* A program is a sequence of packets, each a set of operations; what an    *)
(* operation computes is a constant.  The arithmetic, the decoding of       *)
(* instructions and addresses and the loop buffer (DspLoop) are left out.   *)
(***************************************************************************)
EXTENDS Integers, Sequences, FiniteSets, SequencesExt

CONSTANTS
    Programs,       \* what the core may run (IsProgram, below)
    MaxRequests     \* bound: interrupt requests presented in a run

Registers == {"a", "b", "i"}
Cells == {0, 1, 2}

(* Operations: [op, at, reg, value, to, n], of which each kind uses some.   *)
Op(op, at, reg, value, to, n) ==
    [op |-> op, at |-> at, reg |-> reg, value |-> value, to |-> to, n |-> n]
Set(reg, value) == Op("set", 0, reg, value, 0, 1)
Dec(reg, to)    == Op("bdec", 0, reg, 0, to, 1)
Load(at, reg)   == Op("load", at, reg, 0, 0, 1)
Protected(at, reg) == Op("load", at, reg, 0, 0, 5)
Store(at, reg)  == Op("store", at, reg, 0, 0, 1)
Nop(n)          == Op("nop", 0, "a", 0, 0, n)
Branch(to, n)   == Op("branch", 0, "a", 0, to, n)
Simple(op)      == Op(op, 0, "a", 0, 0, 1)
Gate(op, value) == Op(op, 0, "a", value, 0, 1)
Birp == Simple("return")
Asleep == Simple("idle")

(* The main program starts at packet 1 and rests at done; vector is where   *)
(* each interrupt's routine starts.  The rest says what the program does on *)
(* a machine without interrupts: the packets it issues (path), the memory   *)
(* it leaves (result), after how many of its packets an interrupt must not  *)
(* come (closed), and the packets the core refuses (refused).               *)
IsProgram(p) ==
    LET packets == 1..Len(p.code)
    IN  /\ \A k \in packets : \A o \in p.code[k] :
               o.at \in Cells /\ o.reg \in Registers /\ o.n \in 1..9
        /\ p.done \in packets /\ \A i \in p.ints : p.vector[i] \in packets
        /\ ToSet(p.path) \subseteq packets /\ p.refused \subseteq packets
        /\ p.closed \subseteq 0..Len(p.path) /\ DOMAIN p.result \subseteq Cells

ASSUME DspPipelineAssumption ==
    (\A p \in Programs : IsProgram(p)) /\ MaxRequests \in Nat

Forever == 99       \* CDJ_C674X_IDLE_FOREVER

VARIABLES
    program,    \* the program that runs
    strict,     \* the fixed interrupt entry, or only as long as the drain
    core,       \* the core: see CoreInit
    requests,   \* interrupt requests so far
    path,       \* history: the main program's packets
    inOrder,    \* history: memory as the stores issued so far leave it
    opened      \* history: after how many of them an interrupt came

coreVars == <<program, strict, core, requests, path, inOrder, opened>>

(* csr and tsr hold GIE both, csr and itsr PGIE: one physical bit each.     *)
CoreInit ==
    /\ program \in Programs /\ strict \in BOOLEAN
    /\ core = [pc |-> 1, regs |-> [r \in Registers |-> 0],
               ram |-> [c \in Cells |-> 0], stores |-> <<>>, loads |-> <<>>,
               branches |-> <<>>, idle |-> 0, csr |-> [gie |-> 1, pgie |-> 0],
               tsr |-> [gie |-> 1, sgie |-> 0, int |-> FALSE],
               itsr |-> [gie |-> 0, sgie |-> 0, int |-> FALSE],
               ifr |-> {}, irp |-> 1, fault |-> FALSE, stale |-> FALSE]
    /\ requests = 0 /\ path = <<>> /\ opened = {}
    /\ inOrder = [c \in Cells |-> 0]

-----------------------------------------------------------------------------
(* An interrupt, offered before every step. *)

Lowest(S) == CHOOSE i \in S : \A j \in S : i <= j
Latest(S) == CHOOSE n \in S : \A m \in S : m <= n

(* interrupt_pipe_down: nine empty cycles, or as many as drain what is      *)
(* under way, which also end an IDLE.                                       *)
PipeDown(c) ==
    IF strict THEN [c EXCEPT !.idle = 9]
    ELSE LET drain == Latest({0} \cup {c.loads[i].left : i \in DOMAIN c.loads}
                             \cup {c.stores[i].left : i \in DOMAIN c.stores})
         IN  [c EXCEPT !.idle = Latest({drain, IF @ = Forever THEN 0 ELSE @})]

(* A slip: an interrupt is taken in a branch's delay slots. *)
RecognisesInDelay(c) == c.csr.gie = 1 /\ c.ifr # {}

(* Whether the core takes one of the interrupts flagged (all are enabled).  *)
Recognises(c) == c.csr.gie = 1 /\ c.ifr # {} /\ c.branches = <<>>

Entered(c) ==
    LET i == Lowest(c.ifr)
        saved == [c.tsr EXCEPT !.gie = c.csr.gie]
    IN  PipeDown([c EXCEPT !.itsr = saved, !.irp = c.pc, !.ifr = @ \ {i},
                           !.csr = [gie |-> 0, pgie |-> saved.gie],
                           !.tsr = [gie |-> 0, sgie |-> 0, int |-> TRUE],
                           !.pc = program.vector[i]])

(* cdj_c674x_interrupt: the requests are flagged, and one is taken; a core  *)
(* already in a service routine refuses.                                    *)
Interrupted(c, pending) ==
    LET flagged == [c EXCEPT !.ifr = @ \cup pending]
    IN  IF ~Recognises(flagged) THEN flagged
        ELSE IF c.tsr.int THEN [flagged EXCEPT !.fault = TRUE]
        ELSE Entered(flagged)

-----------------------------------------------------------------------------
(* The issue of a packet. *)

Of(ops, kind) == {o \in ops : o.op = kind}

(* cdj_c674x_multicycle.h: the cycles a packet takes, and whether the       *)
(* operations that take several may stand together: equal NOPs, and         *)
(* protected loads, which share theirs.                                     *)
Generators(ops) == {o \in ops : o.op = "idle" \/ o.n > 1}
Duration(ops) == Latest({1} \cup {o.n : o \in ops})
TimingAllowed(ops) ==
    \/ Cardinality(Generators(ops)) <= 1
    \/ \A o, p \in Generators(ops) :
           o.op = p.op /\ o.n = p.n /\ o.op \in {"nop", "load"}

Taken(c, ops) == Of(ops, "branch") \cup Of(ops, "return")
                   \cup {o \in Of(ops, "bdec") : c.regs[o.reg] >= 0}

(* queue_branch: the branches in the pipeline have a cycle each. *)
Queued(c, ops) ==
    IF Taken(c, ops) = {} THEN c.branches
    ELSE LET o == CHOOSE t \in Taken(c, ops) : TRUE
         IN  Append(c.branches,
                    [left |-> 6, to |-> IF o.op = "return" THEN c.irp ELSE o.to])

(* A register's E1 writes, none twice in a packet. *)
Writes(c, ops) == Of(ops, "set") \cup (Taken(c, ops) \cap Of(ops, "bdec"))
Written(c, ops) ==
    [r \in Registers |->
        IF \E o \in Writes(c, ops) : o.reg = r
        THEN LET o == CHOOSE w \in Writes(c, ops) : w.reg = r
             IN  IF o.op = "set" THEN o.value ELSE c.regs[r] - 1
        ELSE c.regs[r]]

(* What a packet appends to the delayed results: registers loaded and       *)
(* interrupt flags set or cleared by MVC, which become visible a packet     *)
(* later.  want is what the stores issued before would have it load.        *)
Delayed(c, ops) ==
    SetToSeq({[kind |-> "load", left |-> 5, at |-> o.at, reg |-> o.reg,
               value |-> 0, want |-> inOrder[o.at], ints |-> {}] :
                  o \in Of(ops, "load")}
             \cup {[kind |-> o.op, left |-> 2, at |-> 0, reg |-> "a",
                    value |-> 0, want |-> 0, ints |-> {o.value}] :
                       o \in Of(ops, "isr") \cup Of(ops, "icr")})
Stored(c, ops) ==
    SetToSeq({[left |-> 3, at |-> o.at, value |-> c.regs[o.reg]] :
                  o \in Of(ops, "store")})

(* The interrupt enables and the task state: DINT, RINT, B IRP and MVC.     *)
Gated(c, ops) ==
    IF Of(ops, "dint") # {}
    THEN [c EXCEPT !.tsr.sgie = c.csr.gie, !.tsr.gie = 0, !.csr.gie = 0]
    ELSE IF Of(ops, "rint") # {}
    THEN [c EXCEPT !.tsr.gie = c.tsr.sgie, !.tsr.sgie = 0, !.csr.gie = c.tsr.sgie]
    ELSE IF Of(ops, "return") # {}
    THEN [c EXCEPT !.tsr = [c.itsr EXCEPT !.gie = c.csr.pgie], !.csr.gie = c.csr.pgie]
    ELSE IF Of(ops, "csr") # {}
    THEN LET v == (CHOOSE o \in Of(ops, "csr") : TRUE).value
         IN  [c EXCEPT !.csr = [gie |-> v % 2, pgie |-> v \div 2],
                       !.tsr.gie = v % 2, !.itsr.gie = v \div 2]
    ELSE IF Of(ops, "tsr") # {}
    THEN LET v == (CHOOSE o \in Of(ops, "tsr") : TRUE).value
         IN  [c EXCEPT !.tsr.gie = v % 2, !.tsr.sgie = v \div 2, !.csr.gie = v % 2]
    ELSE IF Of(ops, "itsr") # {}
    THEN LET v == (CHOOSE o \in Of(ops, "itsr") : TRUE).value
         IN  [c EXCEPT !.itsr = [gie |-> v % 2, sgie |-> v \div 2, int |-> FALSE],
                       !.csr.pgie = v % 2]
    ELSE c

(* What the core refuses: several long operations, two branches, two writes *)
(* of a register now or with a load's that is due, and a load and a store   *)
(* that reach one cell in the same cycle.                                   *)
Refused(c, ops) ==
    LET loads == ToSet(c.loads) \cup ToSet(Delayed(c, ops))
        stores == ToSet(c.stores) \cup ToSet(Stored(c, ops))
    IN  \/ ~TimingAllowed(ops)
        \/ Cardinality(Taken(c, ops)) > 1
        \/ Taken(c, ops) # {} /\ \E i \in DOMAIN c.branches : c.branches[i].left = 6
        \/ \E o, p \in Writes(c, ops) : o # p /\ o.reg = p.reg
        \/ \E o, p \in Of(ops, "load") : o # p /\ o.reg = p.reg
        \/ \E l \in loads : l.kind = "load" /\
              \/ l.left = 1 /\ \E o \in Writes(c, ops) : o.reg = l.reg
              \/ \E s \in stores : s.left = l.left - 2 /\ s.at = l.at

-----------------------------------------------------------------------------
(* Retirement. *)

Older(s) == [i \in DOMAIN s |-> [s[i] EXCEPT !.left = @ - 1]]
Waiting(s) == SelectSeq(s, LAMBDA e : e.left > 0)
Due(s) == SelectSeq(s, LAMBDA e : e.left = 0)

(* One cycle: the stores that are due, then the loads that read memory,     *)
(* then the registers and flags that are due (a flag set wins over one      *)
(* cleared), then the branch, which ends the cycles of the packet and any   *)
(* IDLE.                                                                    *)
Cycle1(c) ==
    LET stores == Older(c.stores)
        loads == Older(c.loads)
        branches == Older(c.branches)
        ram == FoldLeft(LAMBDA m, s : [m EXCEPT ![s.at] = s.value], c.ram, Due(stores))
        filled == [i \in DOMAIN loads |->
                      IF loads[i].kind = "load" /\ loads[i].left = 2
                      THEN [loads[i] EXCEPT !.value = ram[loads[i].at]] ELSE loads[i]]
        results == SelectSeq(Due(filled), LAMBDA l : l.kind = "load")
        flags(kind) == UNION {l.ints : l \in {x \in ToSet(Due(filled)) : x.kind = kind}}
        turn == branches # <<>> /\ branches[1].left = 0
    IN  [c EXCEPT !.ram = ram, !.stores = Waiting(stores), !.loads = Waiting(filled),
            !.regs = FoldLeft(LAMBDA r, l : [r EXCEPT ![l.reg] = l.value], @, results),
            !.ifr = (@ \ flags("icr")) \cup flags("isr"),
            !.stale = @ \/ \E i \in DOMAIN results : results[i].value # results[i].want,
            !.branches = IF turn THEN Tail(branches) ELSE branches,
            !.pc = IF turn THEN branches[1].to ELSE @,
            !.idle = IF turn THEN 0 ELSE @]

Turns(c) == c.branches # <<>> /\ c.branches[1].left = 1

(* n cycles, ended by a branch. *)
Cycles(c, n) ==
    LET after[k \in 1..n] ==
            IF k = 1 THEN [state |-> Cycle1(c), ended |-> Turns(c)]
            ELSE IF after[k - 1].ended THEN after[k - 1]
            ELSE [state |-> Cycle1(after[k - 1].state), ended |-> Turns(after[k - 1].state)]
    IN  after[n].state

(* cdj_c674x_execute. *)
Executed(c, ops) ==
    IF Refused(c, ops) THEN [c EXCEPT !.fault = TRUE]
    ELSE LET issued == [Gated(c, ops) EXCEPT
                           !.regs = Written(c, ops),
                           !.branches = Queued(c, ops),
                           !.stores = @ \o Stored(c, ops),
                           !.loads = @ \o Delayed(c, ops),
                           !.idle = IF Of(ops, "idle") # {} THEN Forever ELSE @,
                           !.pc = @ + 1]
         IN  Cycles(issued, Duration(ops))

(* cdj_c674x_step: an empty cycle, or the next packet. *)
Stepped(c) ==
    IF c.idle # 0
    THEN Cycle1([c EXCEPT !.idle = IF @ = Forever THEN @ ELSE @ - 1])
    ELSE Executed(c, program.code[c.pc])

(* One turn of execute_dsp's loop: the requests the interrupt controller    *)
(* has, then a step.  The main program stops where it is done.              *)
Step ==
    \E pending \in SUBSET program.ints :
        LET c == Interrupted(core, pending)
            entered == c.tsr.int /\ ~core.tsr.int
            issues == ~c.fault /\ c.idle = 0 /\ ~Refused(c, program.code[c.pc])
        IN  /\ ~core.fault
            /\ core.pc # program.done \/ core.idle # 0 \/ pending # {} \/ core.ifr # {}
            /\ pending # {} => requests < MaxRequests
            /\ requests' = IF pending # {} THEN requests + 1 ELSE requests
            /\ core' = IF c.fault THEN c
                       ELSE IF c.pc = program.done /\ c.idle = 0 THEN Cycle1(c)
                       ELSE Stepped(c)
            /\ path' = IF issues /\ c.pc < program.done
                       THEN Append(path, c.pc) ELSE path
            /\ inOrder' = IF issues
                          THEN FoldLeft(LAMBDA m, s : [m EXCEPT ![s.at] = s.value],
                                        inOrder, Stored(c, program.code[c.pc]))
                          ELSE inOrder
            /\ opened' = IF entered THEN opened \cup {Len(path)} ELSE opened
            /\ UNCHANGED <<program, strict>>

CoreNext == Step

CoreSpec == CoreInit /\ [][CoreNext]_coreVars

-----------------------------------------------------------------------------
(* Properties. *)

CoreTypeOK ==
    /\ core.pc \in 1..Len(program.code) /\ core.idle \in 0..9 \cup {Forever}
    /\ core.regs \in [Registers -> Int] /\ core.ram \in [Cells -> Int]
    /\ Len(core.branches) <= 6 /\ Len(core.stores) <= 6 /\ Len(core.loads) <= 10
    /\ core.csr \in [gie : 0..1, pgie : 0..1] /\ core.ifr \subseteq program.ints
    /\ requests \in 0..MaxRequests

AtRest == core.pc = program.done /\ core.stores = <<>> /\ core.loads = <<>>

(* "the current PC is exactly the first execute packet annulled by the      *)
(* interrupt": with interrupts before any packet, the program issues the    *)
(* packets it issues without, once each, and leaves the same memory.        *)
Precise ==
    /\ IsPrefix(path, program.path)
    /\ AtRest => path = program.path /\ \A k \in DOMAIN program.result :
                                           core.ram[k] = program.result[k]

(* "Section 5.4.2 forbids recognition in a branch's five delay packets";    *)
(* nor is an interrupt taken between DINT and RINT.                         *)
NotInside == opened \cap program.closed = {}

(* "a load following a store accesses the value placed in memory by that    *)
(* store": a load's register gets what the stores issued before it wrote,   *)
(* none later.                                                              *)
LoadsInOrder == ~core.stale

(* "CSR.GIE and TSR.GIE are the same physical bit", and "PGIE and ITSR.GIE".*)
OneBit == core.csr.gie = core.tsr.gie /\ core.csr.pgie = core.itsr.gie

(* Nothing legal is refused, and what is not legal is.                      *)
RefusedOnly == core.fault => core.pc \in program.refused

PipelineExact == Precise /\ NotInside /\ LoadsInOrder /\ OneBit /\ RefusedOnly
=============================================================================
