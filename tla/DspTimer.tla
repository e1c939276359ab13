------------------------------ MODULE DspTimer ------------------------------
(***************************************************************************)
(* One of the DSP's 64-bit timers, emulator/qemu/cdj_c6747_timer.c: two     *)
(* counters, used as one of double width, as two, or as one with a          *)
(* prescaler; their periods, reloads, capture on read and interrupt status. *)
(* The DSP's program stops and starts the counters, reads and writes them,  *)
(* and clears the status, between the clocks.                               *)
(*                                                                          *)
(* The program writes the mode, the prescaler, the periods and the reloads  *)
(* once, before it lets the counters run; the two halves then have the same *)
(* way of running.  The watchdog, whose counter the code does not advance,  *)
(* the compare registers, the pins and the emulation registers are left     *)
(* out.  The external clock, of which the code knows no rate, stops what it *)
(* clocks.                                                                  *)
(***************************************************************************)
EXTENDS Integers, FiniteSets

CONSTANTS
    Width,          \* values of a counter register, 2^32
    TimerSetups,    \* what the program may have written before it starts
    MaxClocks,      \* bound: clocks of a run
    MaxWrites       \* bound: register accesses of a run

Word == 0..Width - 1
Halves == {"12", "34"}
Modes == {"whole", "dual", "chained"}

(* A set-up.  "kind" is the enable mode a half has when it is not stopped:  *)
(* 1 once, 2 continuous, 3 continuous with reload; readReset the capture on *)
(* read's, enabled the interrupts'.                                         *)
Setups == [mode : Modes, psc : Nat, kind : 1..3, prd : [Halves -> Word],
           rel : [Halves -> Word], external : BOOLEAN, readReset : SUBSET Halves,
           enabled : SUBSET Halves]

ASSUME DspTimerAssumption ==
    /\ Width \in Nat \ {0, 1} /\ TimerSetups \subseteq Setups
    /\ MaxClocks \in Nat /\ MaxWrites \in Nat

VARIABLES
    tim,        \* its registers
    clocks,     \* clocks so far
    accesses,   \* register accesses so far
    place,      \* history: for each half, where it was set, the period then,
                \* the clocks it has counted and its interrupts since
    pair        \* history: the low half last read and the high half at that time

timerVars == <<tim, clocks, accesses, place, pair>>

None == -1
Nowhere == [low |-> None, high |-> None]

(* Set up, its halves stopped (enamode 0) and held in reset: "out" is       *)
(* TGCR's reset release.                                                    *)
TimerInit ==
    /\ \E s \in TimerSetups :
         tim = [mode |-> s.mode, psc |-> s.psc, tddr |-> 0, kind |-> s.kind,
                  count |-> [h \in Halves |-> 0], prd |-> s.prd, rel |-> s.rel,
                  cap |-> [h \in Halves |-> 0],
                  enamode |-> [h \in Halves |-> 0], out |-> {},
                  external |-> s.external, shadow |-> None,
                  readReset |-> s.readReset, enabled |-> s.enabled,
                  status |-> {}]
    /\ clocks = 0 /\ accesses = 0 /\ pair = Nowhere
    /\ place = [h \in Halves |-> [from |-> 0, prd |-> tim.prd, ran |-> 0, fires |-> 0]]

-----------------------------------------------------------------------------

(* A slip: a counter counts on for a clock after its period. *)
MatchAfterPeriod(count, prd, rel, enamode) ==
    IF enamode = 0 \/ prd = 0 THEN [count |-> count, prd |-> prd, match |-> FALSE]
    ELSE IF count = prd + 1
    THEN IF enamode = 1 THEN [count |-> count, prd |-> prd, match |-> FALSE]
         ELSE [count |-> 0, prd |-> IF enamode = 3 THEN rel ELSE prd, match |-> FALSE]
    ELSE [count |-> count + 1, prd |-> prd, match |-> count = prd]

(* advance: one clock into a counter; whether it came to its period.  It    *)
(* returns to zero, or stays, on the clock after.                           *)
Advance(count, prd, rel, enamode) ==
    IF enamode = 0 \/ prd = 0 THEN [count |-> count, prd |-> prd, match |-> FALSE]
    ELSE IF count = prd
    THEN IF enamode = 1 THEN [count |-> count, prd |-> prd, match |-> FALSE]
         ELSE [count |-> 0, prd |-> IF enamode = 3 THEN rel ELSE prd, match |-> FALSE]
    ELSE [count |-> count + 1, prd |-> prd, match |-> count + 1 = prd]

(* input_clock_known: in dual mode the low half only has an external clock. *)
Clocked(t, h) == t.external => t.mode = "dual" /\ h = "34"

Whole(v) == v["34"] * Width + v["12"]
Split(n) == [h \in Halves |-> IF h = "12" THEN n % Width ELSE (n \div Width) % Width]

(* One half, alone, by its own enable. *)
CountedOn(t, h, enamode) ==
    LET a == Advance(t.count[h], t.prd[h], t.rel[h], enamode)
    IN  [t EXCEPT !.count[h] = a.count % Width, !.prd[h] = a.prd]
Matches(t, h, enamode) == Advance(t.count[h], t.prd[h], t.rel[h], enamode).match

(* tick_one, of each mode: the registers after a clock, the outputs, and    *)
(* the halves that were clocked.                                            *)
Dual(t) ==
    LET runs12 == "12" \in t.out /\ Clocked(t, "12")
        runs34 == "34" \in t.out /\ Clocked(t, "34") /\ t.enamode["34"] # 0
        low == IF runs12 THEN CountedOn(t, "12", t.enamode["12"]) ELSE t
        scaled == runs34 /\ t.tddr = t.psc
        both == IF scaled THEN CountedOn(low, "34", t.enamode["34"]) ELSE low
    IN  [after |-> [both EXCEPT !.tddr = IF ~runs34 THEN @ ELSE IF scaled THEN 0 ELSE @ + 1],
         fired |-> {h \in Halves : /\ h = "12" => runs12
                                   /\ h = "34" => scaled
                                   /\ Matches(t, h, t.enamode[h])},
         ran |-> {h \in Halves : /\ h = "12" => runs12 /\ t.enamode["12"] # 0
                                 /\ h = "34" => runs34}]

Chained(t) ==
    LET reload == t.enamode["12"] = 3 /\ t.prd["12"] # 0 /\ t.count["12"] = t.prd["12"]
        scaled == t.count["34"] = t.prd["34"]
    IN  [after |-> IF ~scaled THEN [t EXCEPT !.count["34"] = (@ + 1) % Width]
                   ELSE [CountedOn(t, "12", t.enamode["12"]) EXCEPT
                            !.count["34"] = 0,
                            !.prd["34"] = IF reload THEN t.rel["34"] ELSE @],
         fired |-> IF scaled /\ Matches(t, "12", t.enamode["12"]) THEN {"12"} ELSE {},
         ran |-> {"12"}]

Single(t) ==
    LET a == Advance(Whole(t.count), Whole(t.prd), Whole(t.rel), t.enamode["12"])
    IN  [after |-> [t EXCEPT !.count = Split(a.count), !.prd = Split(a.prd)],
         fired |-> IF a.match THEN {"12"} ELSE {}, ran |-> {"12"}]

Ticked(t) ==
    IF t.mode = "dual" THEN Dual(t)
    ELSE IF t.out # Halves \/ ~Clocked(t, "12") \/ t.enamode["12"] = 0
    THEN [after |-> t, fired |-> {}, ran |-> {}]
    ELSE IF t.mode = "chained" THEN Chained(t) ELSE Single(t)

(* cdj_c6747_timers_tick: a match sets its status, and is an interrupt only *)
(* where that is enabled.                                                   *)
Clock ==
    LET k == Ticked(tim)
    IN  /\ clocks < MaxClocks /\ clocks' = clocks + 1
        /\ tim' = [k.after EXCEPT !.status = @ \cup (k.fired \cap Halves)]
        /\ place' = [h \in Halves |->
                        [place[h] EXCEPT
                            !.ran = IF h \in k.ran THEN @ + 1 ELSE @,
                            !.fires = IF h \in k.fired \cap tim.enabled THEN @ + 1 ELSE @]]
        /\ UNCHANGED <<accesses, pair>>

-----------------------------------------------------------------------------
(* The program's accesses. *)

(* Where the counters stand, as a number of clocks since they were zero. *)
Phase(t, h) ==
    IF t.mode = "whole" THEN Whole(t.count)
    ELSE IF t.mode = "chained" THEN t.count["12"] * (t.prd["34"] + 1) + t.count["34"]
    ELSE IF h = "34" THEN t.count[h] * (t.psc + 1) + t.tddr ELSE t.count[h]

(* The history of the halves an access sets.  Where they are one counter,   *)
(* the low half's is the counter's.                                         *)
SetHere(t, hs) ==
    [h \in Halves |-> IF h \in hs \/ (hs # {} /\ t.mode # "dual")
                      THEN [from |-> Phase(t, h), prd |-> t.prd, ran |-> 0, fires |-> 0]
                      ELSE place[h]]

Access(t, set, read) ==
    /\ accesses < MaxWrites /\ accesses' = accesses + 1
    /\ tim' = t /\ place' = SetHere(t, set) /\ pair' = read
    /\ UNCHANGED clocks

(* TCR: stopped, or running as its kind says. *)
WriteTcr ==
    \E h \in Halves, mode \in {0, tim.kind} :
        Access([tim EXCEPT !.enamode[h] = mode], {}, pair)

(* TGCR: halves released from reset and held in it.  Only together do the   *)
(* halves of one counter make sense.                                        *)
WriteTgcr ==
    \E out \in SUBSET Halves :
        LET held == Halves \ out
        IN  /\ tim.mode # "dual" => out \in {{}, Halves}
            /\ Access([tim EXCEPT
                          !.out = out, !.tddr = 0,
                          !.count = [h \in Halves |-> IF h \in held THEN 0 ELSE @[h]],
                          !.shadow = IF tim.mode # "whole" \/ "34" \in held
                                     THEN None ELSE @],
                      held \cup (IF tim.mode = "dual" THEN {"34"} ELSE {}),
                      IF "34" \in held THEN Nowhere ELSE pair)

(* TIM12 and TIM34: a value within the period. *)
WriteCount ==
    \E h \in Halves, v \in Word :
        LET t == [tim EXCEPT !.count[h] = v, !.shadow = IF h = "34" THEN None ELSE @]
        IN  /\ tim.mode = "whole" => Whole(t.count) <= Whole(t.prd)
            /\ tim.mode # "whole" => v <= t.prd[h]
            /\ Access(t, {h}, IF h = "34" THEN Nowhere ELSE pair)

ReadResets(h) == tim.mode = "dual" /\ h \in tim.readReset

(* The counter a read captures starts again, with its reload where it has   *)
(* one.                                                                     *)
Captured(h) ==
    [tim EXCEPT !.cap[h] = tim.count[h], !.count[h] = 0,
                  !.prd[h] = IF tim.enamode[h] = 3 THEN tim.rel[h] ELSE @]

(* TIM12: as one counter, the high half is held for the read to come. *)
ReadLow ==
    IF ReadResets("12") THEN Access(Captured("12"), {"12"}, pair)
    ELSE Access([tim EXCEPT !.shadow = IF tim.mode = "whole"
                                         THEN tim.count["34"] ELSE @],
                {}, [low |-> tim.count["12"], high |-> tim.count["34"]])

HighRead == IF tim.shadow # None THEN tim.shadow ELSE tim.count["34"]

ReadHigh ==
    IF ReadResets("34")
    THEN Access([Captured("34") EXCEPT !.shadow = None], {"34"}, Nowhere)
    ELSE Access([tim EXCEPT !.shadow = None], {}, Nowhere)

(* INTCTLSTAT: a status is cleared by writing one. *)
ClearStatus ==
    \E h \in tim.status : Access([tim EXCEPT !.status = @ \ {h}], {}, pair)

TimerNext == Clock \/ WriteTcr \/ WriteTgcr \/ WriteCount \/ ReadLow \/ ReadHigh
               \/ ClearStatus

TimerSpec == TimerInit /\ [][TimerNext]_timerVars

-----------------------------------------------------------------------------
(* Properties. *)

TimerTypeOK ==
    /\ tim.count \in [Halves -> Word] /\ tim.prd \in [Halves -> Word]
    /\ tim.tddr \in 0..tim.psc /\ tim.shadow \in Word \cup {None}
    /\ tim.out \subseteq Halves /\ tim.status \subseteq Halves
    /\ clocks \in 0..MaxClocks /\ accesses \in 0..MaxWrites

(* What the counters are to show.  A period lasts so many clocks, of which  *)
(* the counter stands at its last value for a step's.                       *)
StepOf(h, prd) ==
    CASE tim.mode = "chained" -> prd["34"] + 1
      [] tim.mode = "dual" /\ h = "34" -> tim.psc + 1
      [] OTHER -> 1
TopOf(h, prd) ==
    CASE tim.mode = "whole" -> Whole(prd)
      [] tim.mode = "chained" -> prd["12"]
      [] OTHER -> prd[h]
Period(h, prd) == (TopOf(h, prd) + 1) * StepOf(h, prd)

(* After n clocks: the periods in force, and the clocks into this one.  The *)
(* first may be followed by those of the reload; counted once, it stays.    *)
Shown(h, n) ==
    LET p == place[h].prd
        q == IF tim.kind = 3 THEN tim.rel ELSE p
        first == Period(h, p)
        peak == first - StepOf(h, p)
    IN  IF tim.kind = 1 /\ n > peak THEN [prd |-> p, into |-> peak]
        ELSE IF n < first THEN [prd |-> p, into |-> n]
        ELSE [prd |-> q, into |-> (n - first) % Period(h, q)]
Shows(h, n) == Shown(h, n).into \div StepOf(h, Shown(h, n).prd)
Peaks(h, n) ==
    /\ TopOf(h, Shown(h, n).prd) > 0
    /\ Shown(h, n).into = Period(h, Shown(h, n).prd) - StepOf(h, Shown(h, n).prd)
    /\ Shown(h, n) # Shown(h, n - 1)

(* A counter stopped, held in reset, set or captured keeps its phase: it    *)
(* shows where the clocks it has counted put it, and has made one interrupt *)
(* for each time they brought it to its period.  "A zero period does not    *)
(* count": it stays at zero, for good, also once it is reloaded with one.   *)
CountExact ==
    \A h \in IF tim.mode = "dual" THEN Halves ELSE {"12"} :
        LET at == IF tim.mode = "whole" THEN Whole(tim.count) ELSE tim.count[h]
            from == place[h].from
            n == from + place[h].ran
            fires == IF h \in tim.enabled
                     THEN Cardinality({k \in from + 1..n : Peaks(h, k)}) ELSE 0
        IN  IF TopOf(h, place[h].prd) = 0
            THEN at = 0 /\ place[h].fires = 0
            ELSE at = Shows(h, n) /\ place[h].fires = fires

(* A program that reads the low half and then the high one has read a value *)
(* the counter had, whatever the clocks between.                            *)
ReadWhole ==
    tim.mode = "whole" /\ pair # Nowhere => HighRead = pair.high

TimerExact == CountExact /\ ReadWhole
=============================================================================
