------------------------------ MODULE DspLoop ------------------------------
(***************************************************************************)
(* The DSP's loop buffer, emulator/qemu/cdj_c674x_loop.c and loop_step() of *)
(* cdj_c674x.c: SPLOOP starts a loop whose body is fetched once, a packet a *)
(* cycle, and issued again every ii cycles, so that iterations overlap.     *)
(* An interrupt stops the launching of iterations, lets the ones begun run  *)
(* out, and returns to the SPLOOP, which fetches the body again and goes on *)
(* with what the loop counter ILC says is left.                             *)
(*                                                                          *)
(* Every packet of the body has one operation for the buffer, may have one  *)
(* masked by SPMASK (executed once, not buffered) on a unit of its own, and *)
(* may be followed by empty cycles (NOP n, a protected load).  SPLOOPW, the *)
(* reload by SPKERNELR and a request withdrawn while its loop drains are    *)
(* left out; the retained tags, a cross-check, are not told apart.          *)
(*                                                                          *)
(* An operator headed "A slip" is the definition below it with a mistake    *)
(* in it, for trying the properties; no specification uses one.             *)
(***************************************************************************)
EXTENDS Integers, Sequences, FiniteSets

CONSTANTS
    Loops,              \* the loops a program may run (IsLoop, below)
    MaxLoopInterrupts   \* bound: interrupts of one loop

(* A loop: SPLOOPD or SPLOOP, the initiation interval, ILC at its start,   *)
(* the fetch delay of its SPKERNEL, and its packets.                       *)
IsLoop(l) ==
    /\ l.delayed \in BOOLEAN /\ l.ii \in 1..16 /\ l.count \in Nat /\ l.delay \in Nat
    /\ Len(l.body) \in Nat \ {0}
    /\ \A k \in 1..Len(l.body) : l.body[k].masked \in BOOLEAN /\ l.body[k].wait \in Nat

ASSUME DspLoopAssumption ==
    /\ \A l \in Loops : IsLoop(l)
    /\ MaxLoopInterrupts \in Nat

VARIABLES
    loop,       \* the loop this program runs
    loopAt,     \* "setup" at its SPLOOP, "loop", "drained", "isr", "after"
    lbuf,       \* the loop buffer
    ilc,        \* the loop counter
    loopPhase,  \* of an interrupt of the loop: "none", "armed", "draining"
    splx,       \* TSR.SPLX as B IRP has restored it: the SPLOOP is a return
    fetched,    \* the packet to fetch next
    ran,        \* history: how often each packet's operation has issued
    once,       \* history: how often the operations outside the buffer have
    tail,       \* history: the packets after the loop fetched beside it
    loopIrqs    \* interrupts so far

loopVars == <<loop, loopAt, lbuf, ilc, loopPhase, splx, fetched, ran, once, tail, loopIrqs>>

Packets == 1..Len(loop.body)
EmptyBuffer == [slots |-> <<>>, cycle |-> 0, iterations |-> 0, sealed |-> FALSE,
                post |-> 0, end |-> 0, wait |-> 0, delayed |-> FALSE]

LoopInit ==
    /\ loop \in Loops /\ loopAt = "setup" /\ lbuf = EmptyBuffer
    /\ ilc = loop.count /\ loopPhase = "none" /\ splx = FALSE /\ fetched = 1
    /\ ran = [p \in Packets |-> 0] /\ once = [p \in 0..Len(loop.body) |-> 0]
    /\ tail = <<>> /\ loopIrqs = 0

Larger(a, b) == IF a > b THEN a ELSE b
Smaller(a, b) == IF a < b THEN a ELSE b
Stages(n) == (n + loop.ii - 1) \div loop.ii

-----------------------------------------------------------------------------

(* A slip: a loop that is returned to counts its opening cycles again. *)
SetupCountsAgain ==
    LET delayed == loop.delayed
    IN  /\ loopAt = "setup" /\ loopAt' = "loop"
        /\ lbuf' = [EmptyBuffer EXCEPT !.delayed = delayed,
                       !.iterations = IF delayed THEN ilc + Stages(4) ELSE ilc]
        /\ ilc' = IF ~delayed /\ ilc > 0 THEN ilc - 1 ELSE ilc
        /\ fetched' = 1
        /\ once' = IF splx THEN once ELSE [once EXCEPT ![0] = @ + 1]
        /\ UNCHANGED <<loop, loopPhase, splx, ran, tail, loopIrqs>>

(* The SPLOOP packet.  SPLOOPD runs the iterations of its first four cycles *)
(* besides the counted ones; on return it is a SPLOOP, and what stands      *)
(* beside it is a NOP.                                                      *)
Setup ==
    LET delayed == loop.delayed /\ ~splx
    IN  /\ loopAt = "setup" /\ loopAt' = "loop"
        /\ lbuf' = [EmptyBuffer EXCEPT !.delayed = delayed,
                       !.iterations = IF delayed THEN ilc + Stages(4) ELSE ilc]
        /\ ilc' = IF ~delayed /\ ilc > 0 THEN ilc - 1 ELSE ilc
        /\ fetched' = 1
        /\ once' = IF splx THEN once ELSE [once EXCEPT ![0] = @ + 1]
        /\ UNCHANGED <<loop, loopPhase, splx, ran, tail, loopIrqs>>

(* The last packet is in: when the code after the loop may be fetched, and *)
(* when the last iteration has issued its last packet.                     *)
Sealed(b) ==
    LET n == Len(b.slots)
        loaded == Stages(n) * loop.ii
        end == IF b.iterations = 0 THEN loaded
               ELSE (b.iterations - 1) * loop.ii + n
        post == Larger(b.iterations * loop.ii + loop.delay, loaded)
    IN  [b EXCEPT !.sealed = TRUE, !.end = end, !.post = Smaller(post, end)]

(* One cycle of loading: a packet, or the empty cycle after one. *)
Loaded(b) ==
    IF b.sealed THEN b
    ELSE IF b.wait > 0 THEN [b EXCEPT !.wait = @ - 1, !.slots = Append(@, 0)]
    ELSE LET more == [b EXCEPT !.slots = Append(@, fetched),
                               !.wait = loop.body[fetched].wait]
         IN  IF fetched = Len(loop.body) THEN Sealed(more) ELSE more

(* The packets that issue in this cycle: those a whole number of intervals *)
(* old, of the iterations there are.                                       *)
Issued(b) ==
    {p \in Packets : \E o \in 0..Len(b.slots) - 1 :
        /\ b.slots[o + 1] = p /\ o <= b.cycle /\ (b.cycle - o) % loop.ii = 0
        /\ (b.cycle - o) \div loop.ii < b.iterations}

(* An interrupt is recognised on the last cycle of an interval, when the   *)
(* body is in, the opening is over, the loop would not end by itself, and  *)
(* the counter has enough left to start the loop again.                    *)
Arms ==
    /\ loopPhase = "none" /\ lbuf.sealed
    /\ (lbuf.cycle + 1) % loop.ii = 0 /\ lbuf.cycle + 1 >= 4
    /\ lbuf.cycle < lbuf.iterations * loop.ii
    /\ ilc >= Stages(Len(lbuf.slots))

(* No iteration is launched any more; the ones begun run to their end. *)
Drain(b) ==
    LET launched == b.cycle \div loop.ii
        end == (launched - 1) * loop.ii + Len(b.slots)
    IN  [b EXCEPT !.iterations = launched, !.post = end, !.end = end]

(* ILC after a cycle: what is left to launch; it stands still from the     *)
(* moment an interrupt is recognised.                                      *)
Counted(b, posts, step) ==
    IF b.delayed
    THEN IF ~posts /\ step = "none" /\ b.cycle >= 4 /\ b.cycle % loop.ii = 0
              /\ ilc > 0
         THEN ilc - 1 ELSE ilc
    ELSE IF step # "none" THEN ilc
    ELSE Larger(0, b.iterations - 1 - b.cycle \div loop.ii)

(* loop_step, after the interrupt's turn: load, fetch what follows the     *)
(* loop, issue, count.  A draining buffer waits until the loads and stores *)
(* under way are done (quiet).                                             *)
Cycle(requested, quiet) ==
    LET step == IF requested /\ Arms THEN "armed" ELSE loopPhase
        fetches == ~lbuf.sealed /\ lbuf.wait = 0
        follows == lbuf.sealed /\ lbuf.cycle >= lbuf.post /\ step # "draining"
        b == Loaded(lbuf)
        posts == b.sealed /\ b.cycle >= b.post
        drained == b.sealed /\ b.cycle >= b.end
        next == [b EXCEPT !.cycle = @ + 1]
        returning == splx /\ ~lbuf.sealed
    IN  /\ loopAt = "loop"
        /\ requested => loopIrqs < MaxLoopInterrupts
        /\ loopIrqs' = IF requested /\ Arms THEN loopIrqs + 1 ELSE loopIrqs
        /\ ~quiet => step = "draining" /\ b.cycle = b.end
        /\ ran' = [p \in Packets |-> IF p \in Issued(b) THEN ran[p] + 1 ELSE ran[p]]
        /\ once' = IF fetches /\ loop.body[fetched].masked /\ ~returning
                   THEN [once EXCEPT ![fetched] = @ + 1] ELSE once
        /\ tail' = IF follows THEN Append(tail, fetched) ELSE tail
        /\ fetched' = IF fetches \/ follows THEN fetched + 1 ELSE fetched
        /\ ilc' = Counted(next, posts, step)
        /\ lbuf' = IF step = "armed" THEN Drain(next) ELSE next
        /\ loopPhase' = IF step = "armed" THEN "draining" ELSE step
        /\ loopAt' = IF ~(drained /\ posts /\ quiet) THEN "loop"
                 ELSE IF step = "none" THEN "after" ELSE "drained"
        /\ splx' = (splx /\ ~b.sealed)
        /\ UNCHANGED loop

(* The interrupt is taken, with the SPLOOP's address in IRP and SPLX saved; *)
(* the service routine keeps ILC.                                           *)
Vector ==
    /\ loopAt = "drained" /\ loopAt' = "isr" /\ loopPhase' = "none"
    /\ UNCHANGED <<loop, lbuf, ilc, splx, fetched, ran, once, tail, loopIrqs>>

Return ==
    /\ loopAt = "isr" /\ loopAt' = "setup" /\ splx' = TRUE
    /\ UNCHANGED <<loop, lbuf, ilc, loopPhase, fetched, ran, once, tail, loopIrqs>>

LoopNext == Setup \/ Vector \/ Return
              \/ \E requested, quiet \in BOOLEAN : Cycle(requested, quiet)

LoopSpec == LoopInit /\ [][LoopNext]_loopVars

-----------------------------------------------------------------------------
(* Properties. *)

LoopTypeOK ==
    /\ loop \in Loops /\ loopAt \in {"setup", "loop", "drained", "isr", "after"}
    /\ ilc \in 0..loop.count /\ loopPhase \in {"none", "armed", "draining"}
    /\ splx \in BOOLEAN /\ fetched \in Nat /\ loopIrqs \in 0..MaxLoopInterrupts
    /\ lbuf.slots \in Seq(0..Len(loop.body)) /\ Len(lbuf.slots) < 48
    /\ lbuf.cycle \in Nat /\ lbuf.iterations \in Nat

Iterations == loop.count + (IF loop.delayed THEN Stages(4) ELSE 0)

(* Interrupted or not, however often: every operation of the body has run  *)
(* once for each iteration, each masked one, and what stands beside the    *)
(* SPLOOP, once.                                                           *)
EveryIteration ==
    loopAt = "after" =>
        /\ \A p \in Packets : ran[p] = Iterations
        /\ once[0] = 1
        /\ \A p \in Packets : once[p] = IF loop.body[p].masked THEN 1 ELSE 0

(* A service routine finds whole iterations, and ILC says what is left. *)
WholeIterations ==
    loopAt = "isr" => \A p \in Packets : ran[p] = Iterations - ilc

(* What follows the loop runs once, and only when the last iteration has   *)
(* been launched.                                                          *)
TailOnce ==
    /\ \A k \in 1..Len(tail) : tail[k] = Len(loop.body) + k
    /\ tail # <<>> => ran[1] = Iterations

(* The overlapped, interrupted loop does what the loop written out does.    *)
LoopExact == EveryIteration /\ WholeIterations /\ TailOnce
=============================================================================
