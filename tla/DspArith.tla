----------------------------- MODULE DspArith -----------------------------
(***************************************************************************)
(* Execute packets of integer instructions on the DSP's core: what each    *)
(* instruction reads and computes (the arms of cdj_c674x.c), how many      *)
(* cycles later each result and each saturation flag lands, which packets  *)
(* are refused.  One register file stands for the two.                     *)
(***************************************************************************)
EXTENDS DspAlu, Sequences

CONSTANT Routines       \* by name: operands taken, packets, the circular buffers set up
CONSTANT Operands       \* words a routine starts with

VARIABLE alu

arithVars == <<alu>>
Registry == 0..15

(* An instruction: src1 is a register, or a constant; the predicate is      *)
(* <<>>, or a register and whether it must be zero.                         *)
R(op, dst, a, b) ==
    [op |-> op, dst |-> dst, a |-> a, b |-> b, constant |-> FALSE, form |-> <<>>, when |-> <<>>]
K(op, dst, a, b) == [R(op, dst, a, b) EXCEPT !.constant = TRUE]
Form(i, f) == [i EXCEPT !.form = f]
If(r, zero, i) == [i EXCEPT !.when = <<r, zero>>]

(* Results: the registers written, each some cycles on.  Stop is stop().  *)
Stop == [writes |-> {}, saturated |-> FALSE, stage |-> 0]
Lands(after, dst, pair, value) == [at |-> after, dst |-> dst, pair |-> pair, value |-> value]
Flagged(after, i, value, saturated) ==
    [writes |-> {Lands(after, i.dst, FALSE, Low(value, N))}, saturated |-> saturated,
     stage |-> after]
OneWord(after, i, value) == Flagged(after, i, value, FALSE)
PairFlagged(after, i, value, saturated) ==
    IF i.dst % 2 = 1 THEN Stop
    ELSE [writes |-> {Lands(after, i.dst, TRUE, Low(value, 2 * N))}, saturated |-> saturated,
          stage |-> after]
InPair(after, i, value) == PairFlagged(after, i, value, FALSE)
Long(i, value) == InPair(1, i, Low(value, L))

-----------------------------------------------------------------------------
(* The arms.  x and y are src1 and src2. *)

Logic(i, x, y) ==
    OneWord(1, i, CASE i.op = "and" -> And(x, y) [] i.op = "andn" -> And(x, Not(y))
                 [] i.op = "or" -> Or(x, y) [] i.op = "xor" -> Xor(x, y))
AddSub(i, x, y) ==
    OneWord(1, i, CASE i.op = "add" -> x + y [] i.op = "sub" -> x - y [] i.op = "subr" -> y - x)
DAddSub(i, x, y) == OneWord(1, i, IF i.op = "add.d" THEN y + x ELSE y - x)
Constants(i, old) ==
    OneWord(1, i, CASE i.op = "mvk" -> Sx(i.a, H) [] i.op = "mvkh" -> Low(old, H) + i.a * 2^H
                 [] i.op = "addk" -> old + Sx(i.a, H))
Compare(i, x, y) ==
    OneWord(1, i, IF CASE i.op = "cmpeq" -> x = y
                    [] i.op = "cmpgt" -> Sx(x, N) > Sx(y, N) [] i.op = "cmpgtu" -> x > y
                    [] i.op = "cmplt" -> Sx(x, N) < Sx(y, N) [] i.op = "cmpltu" -> x < y
               THEN 1 ELSE 0)

(* EXT, EXTU, SET, CLR: two counts in src1. *)
Bitfield(i, x, y) ==
    LET left == x \div N   right == x % N
        field == {k \in left..right : k < N}
    IN  IF x >= N * N THEN Stop
        ELSE OneWord(1, i, CASE i.op = "extu" -> Low(y * 2^left, N) \div 2^right
                          [] i.op = "ext" -> Sx(y * 2^left, N) \div 2^right
                          [] i.op = "set" -> Number(Ones(y) \union field)
                          [] i.op = "clr" -> Number(Ones(y) \ field))
ShiftS(i, x, y) == OneWord(1, i, Shift32(y, IF i.constant THEN x ELSE x % (2 * N), i.op))

Packing(i, x, y) ==
    OneWord(1, i, CASE i.op = "pack2" -> Pack2(x, y) [] i.op = "packh2" -> Packh2(x, y)
                 [] i.op = "packhl2" -> Packhl2(x, y) [] i.op = "packlh2" -> Packlh2(x, y)
                 [] i.op = "packl4" -> PackEvery2nd(0, x, y)
                 [] i.op = "packh4" -> PackEvery2nd(1, x, y))
Packed16(i, x, y) ==
    OneWord(1, i, CASE i.op = "abs2" -> Abs2(y) [] i.op = "add2" -> Add2(x, y)
                 [] i.op = "sub2" -> Sub2(x, y) [] i.op = "sadd2" -> Sadd2(x, y)
                 [] i.op = "ssub2" -> Ssub2(x, y) [] i.op = "saddus2" -> Saddus2(x, y)
                 [] i.op = "max2" -> Max2(x, y) [] i.op = "min2" -> Min2(x, y)
                 [] i.op = "shr2" -> Shr2(y, x) [] i.op = "shru2" -> Shru2(y, x)
                 [] i.op = "cmpeq2" -> Cmpeq2(x, y) [] i.op = "cmpgt2" -> Cmpgt2(x, y)
                 [] i.op = "spack2" -> Spack2(x, y))
Packed16M(i, x, y) ==
    LET shifted == Sshv(y, x, i.op = "sshvr")
    IN  IF i.op = "avg2" THEN OneWord(2, i, Avg2(x, y))
        ELSE Flagged(2, i, Sat(shifted, N), Saturates(shifted, N))
Packed8(i, x, y) ==
    CASE i.op = "mpyu4" -> InPair(4, i, Mpyu4(x, y))
      [] i.op = "mpysu4" -> InPair(4, i, Mpysu4(x, y))
      [] i.op = "avgu4" -> OneWord(2, i, Avgu4(x, y))
      [] OTHER -> OneWord(1, i, CASE i.op = "add4" -> Add4(x, y) [] i.op = "sub4" -> Sub4(x, y)
                               [] i.op = "subabs4" -> Subabs4(x, y)
                               [] i.op = "saddu4" -> Saddu4(x, y)
                               [] i.op = "maxu4" -> Maxu4(x, y) [] i.op = "minu4" -> Minu4(x, y)
                               [] i.op = "cmpeq4" -> Cmpeq4(x, y)
                               [] i.op = "cmpgtu4" -> Cmpgtu4(x, y)
                               [] i.op = "spacku4" -> Spacku4(x, y))
PackbitsM(i, x, y) ==
    OneWord(2, i, CASE i.op = "rotl" -> Rotl(y, x) [] i.op = "bitr" -> Bitr(y)
                 [] i.op = "bitc4" -> Bitc4(y) [] i.op = "deal" -> Deal(y)
                 [] i.op = "shfl" -> Shfl(y) [] i.op = "xpnd2" -> Xpnd2(y)
                 [] i.op = "xpnd4" -> Xpnd4(y))
Unpack(i, y) ==
    OneWord(1, i, CASE i.op = "unpkhu4" -> Unpkhu4(y) [] i.op = "unpklu4" -> Unpklu4(y)
                 [] i.op = "swap4" -> Swap4(y))
MergeByte(i, x, y) == OneWord(1, i, IF i.op = "shlmb" THEN Shlmb(x, y) ELSE Shrmb(x, y))

(* Two results at once, of which only SADDSUB reports a saturation. *)
TwoSums(i, x, y) ==
    LET sum == Sx(x, N) + Sx(y, N)   difference == Sx(x, N) - Sx(y, N)
    IN  PairFlagged(1, i,
            CASE i.op = "dpack2" -> Dpack2(x, y) [] i.op = "dpackx2" -> Dpackx2(x, y)
              [] i.op = "shfl3" -> Shfl3(x, y) [] i.op = "addsub" -> Pair(x + y, x - y)
              [] i.op = "addsub2" -> Pair(Add2(x, y), Sub2(x, y))
              [] i.op = "saddsub" -> Pair(Sat(sum, N), Sat(difference, N))
              [] i.op = "saddsub2" -> Pair(Sadd2(x, y), Ssub2(x, y)),
            i.op = "saddsub" /\ (Saturates(sum, N) \/ Saturates(difference, N)))
Dmv(i, x, y) == InPair(1, i, Pair(x, y))

(* Saturating scalars. *)
SatScalar(i, x, y) ==
    LET exact == CASE i.op = "sadd" -> Sx(x, N) + Sx(y, N) [] i.op = "ssub" -> Sx(x, N) - Sx(y, N)
                   [] i.op = "sshl" -> SaturatingShift(y, x % (2 * N))
    IN  Flagged(1, i, Sat(exact, N), Saturates(exact, N))
Rpack2(i, x, y) ==
    Flagged(1, i, Packh2(Low(Sat(2 * Sx(x, N), N), N), Low(Sat(2 * Sx(y, N), N), N)),
            Saturates(2 * Sx(x, N), N) \/ Saturates(2 * Sx(y, N), N))
AbsWord(i, y) == Flagged(1, i, Absolute(y, N), y = 2^(N - 1))

-----------------------------------------------------------------------------
(* The 40-bit longs, in an even and an odd register. *)

LongAddSub(i, x, y) ==
    Long(i, CASE i.op = "addl" -> Sx(x, N) + Sx(y, N) [] i.op = "subl" -> Sx(x, N) - Sx(y, N)
              [] i.op = "addul" -> x + y [] i.op = "subul" -> x - y)
LongAccumulate(i, x, long) ==
    Long(i, CASE i.op = "accl" -> Sx(x, N) + long [] i.op = "accul" -> x + long
              [] i.op = "rsubl" -> Sx(x, N) - long)
SatLong(i, x, long) ==
    LET exact == Sx(x, N) + (IF i.op = "ssub40" THEN -Sx(long, L) ELSE Sx(long, L))
    IN  PairFlagged(1, i, Low(Sat(exact, L), L), Saturates(exact, L))
AbsLong(i, long) == PairFlagged(1, i, Absolute(long, L), long = 2^(L - 1))
Sat40(i, long) == Flagged(1, i, Sat(Sx(long, L), N), Saturates(Sx(long, L), N))
CompareLong(i, x, long) ==
    OneWord(1, i, IF CASE i.op = "cmpeql" -> Sx(x, N) = Sx(long, L)
                    [] i.op = "cmpgtl" -> Sx(x, N) > Sx(long, L)
                    [] i.op = "cmpltl" -> Sx(x, N) < Sx(long, L)
                    [] i.op = "cmpgtul" -> x > long [] i.op = "cmpltul" -> x < long
               THEN 1 ELSE 0)
ShiftLong(i, x, source) ==
    Long(i, Shift40(source, x, CASE i.op \in {"shll", "shlw"} -> "shl" [] i.op = "shrl" -> "shr"
                                 [] i.op = "shrul" -> "shru"))

-----------------------------------------------------------------------------
(* Products. *)

(* The form: which half of each source, and whether it has a sign. *)
Mpy16(i, x, y) ==
    LET Half(v, half, signed) == IF signed THEN S(v, half, H) ELSE U(v, half, H)
    IN  OneWord(2, i, (IF i.constant THEN Sx(x, N) ELSE Half(x, i.form[1], i.form[2]))
                   * Half(y, i.form[3], i.form[4]))
ArmSmpy16(i, x, y) ==
    LET low == Smpy16(x, y, 0, 0)   high == Smpy16(x, y, 1, 1)
        one == Smpy16(x, y, i.form[1], i.form[2])
    IN  IF i.op = "smpy2"
        THEN PairFlagged(4, i, Pair(Sat(high, N), Sat(low, N)),
                         Saturates(high, N) \/ Saturates(low, N))
        ELSE Flagged(2, i, Sat(one, N), Saturates(one, N))
Mpy32(i, x, y) ==
    CASE i.op = "mpy32w" -> OneWord(4, i, Sx(x, N) * Sx(y, N))
      [] i.op = "mpy32" -> InPair(4, i, Sx(x, N) * Sx(y, N))
      [] i.op = "mpy32su" -> InPair(4, i, Sx(x, N) * y)
      [] i.op = "mpy32us" -> InPair(4, i, x * Sx(y, N))
      [] i.op = "mpy32u" -> InPair(4, i, x * y)
MpyHalf32(i, x, y) ==
    LET half == S(x, IF i.op \in {"mpyhi", "mpyhir"} THEN 1 ELSE 0, H)
    IN  IF i.op \in {"mpyhi", "mpyli"} THEN InPair(4, i, half * Sx(y, N))
        ELSE OneWord(4, i, RoundedBy(half, y))
ArmMpyi(i, x, y) ==
    IF i.op = "mpyi" THEN OneWord(9, i, Mpyi(x, y))
    ELSE IF i.dst % 2 = 1 THEN Stop
    ELSE [Stop EXCEPT !.writes = {Lands(9, i.dst, FALSE, U(Mpyi(x, y), 0, N)),
                                     Lands(10, i.dst + 1, FALSE, U(Mpyi(x, y), 1, N))},
                         !.stage = 9]
Mpy2Gmpy4(i, x, y) ==
    IF i.op = "mpy2" THEN InPair(4, i, Mpy2(x, y))
    ELSE OneWord(4, i, Gmpy4(x, y, i.form[1], i.form[2]))
ArmGmpyWord(i, x, y) == OneWord(4, i, GmpyWord(x, y, IF i.op = "gmpy" THEN i.form[1] ELSE 0))
ArmDotp(i, x, y) ==
    LET rounded == Dotprsu2(x, y, IF i.op = "dotprsu2" THEN 1 ELSE -1)
    IN  CASE i.op = "dotp2l" -> InPair(4, i, Dotp2(x, y))
          [] i.op = "dotp2" -> OneWord(4, i, Dotp2(x, y))
          [] i.op = "dotpn2" -> OneWord(4, i, Dotpn2(x, y))
          [] i.op = "dotpsu4" -> OneWord(4, i, Dotpsu4(x, y))
          [] i.op = "dotpu4" -> OneWord(4, i, Dotpu4(x, y))
          [] i.op \in {"dotprsu2", "dotpnrsu2"} ->
                IF Saturates(rounded, N) THEN Stop ELSE OneWord(4, i, rounded \div 2^H)

(* The saturations of this group set no flag. *)
InHalves(odd, even) == Pack(H, 1 :> odd @@ 0 :> even)
TwoDots(i, odd, even) ==
    CASE i.op \in {"cmpy", "ddotp4"} -> InPair(4, i, Pair(odd, Sat(even, N)))
      [] i.op \in {"ddotph2", "ddotpl2"} -> InPair(4, i, Pair(Sat(odd, N), Sat(even, N)))
      [] i.op \in {"cmpyr", "ddotph2r", "ddotpl2r"} ->
            OneWord(4, i, InHalves(RoundMsb16(Sat(odd, N)), RoundMsb16(Sat(even, N))))
      [] i.op = "cmpyr1" ->
            OneWord(4, i, InHalves(RoundShiftMsb16(Sat(odd, N)), RoundShiftMsb16(Sat(even, N))))
ArmCmpy(i, x, high, y) ==
    IF i.op \in {"ddotph2", "ddotpl2", "ddotph2r", "ddotpl2r"} /\ i.a % 2 = 1 THEN Stop
    ELSE TwoDots(i, OddDotted(i.op, x, high, y), EvenDotted(i.op, x, high, y))
Mpy32Nonconditional(i, x, y) ==
    IF i.op = "smpy32" THEN OneWord(4, i, Smpy32(x, y))
    ELSE InPair(4, i, Pair(Sat(RoundedBy(S(x, 1, H), y), N), Sat(RoundedBy(S(x, 0, H), y), N)))

-----------------------------------------------------------------------------
(* ADDAB, ADDAH, ADDAW and SUBA*: an offset scaled by the form, in the      *)
(* circular buffer that AMR sets up for the base register, if it does.      *)
AddressWidth(amr, reg) ==
    IF reg \notin DOMAIN amr.mode THEN 0
    ELSE CASE amr.mode[reg] = 0 -> 0 [] amr.mode[reg] \in {1, 2} -> amr.width[amr.mode[reg]]
           [] amr.mode[reg] = 3 -> -1
Adda(i, x, y, amr, settled) ==
    LET moved == IF i.op = "suba" THEN y - x * 2^i.form[1] ELSE y + x * 2^i.form[1]
        width == AddressWidth(amr, i.b)
    IN  IF (i.b \in DOMAIN amr.mode /\ ~settled) \/ width = -1 THEN Stop
        ELSE OneWord(1, i, CircularAddress(y, moved, width))

LogicOps == {"and", "andn", "or", "xor"}
CompareOps == {"cmpeq", "cmpgt", "cmpgtu", "cmplt", "cmpltu"}
Packed16Ops == {"abs2", "add2", "sub2", "sadd2", "ssub2", "saddus2", "max2", "min2", "shr2",
                "shru2", "cmpeq2", "cmpgt2", "spack2"}
Packed8Ops == {"add4", "sub4", "subabs4", "saddu4", "avgu4", "maxu4", "minu4", "cmpeq4", "cmpgtu4",
               "mpyu4", "mpysu4", "spacku4"}
TwoSumsOps == {"dpack2", "dpackx2", "shfl3", "addsub", "addsub2", "saddsub", "saddsub2"}
LongOps == {"accl", "accul", "rsubl", "sadd40", "ssub40", "absl", "sat40", "cmpeql", "cmpgtl",
            "cmpltl", "cmpgtul", "cmpltul", "shll", "shrl", "shrul", "norml"}

(* What an instruction does with the registers r.  A long is a pair. *)
OnLong(i, x, long) ==
    CASE i.op \in {"accl", "accul", "rsubl"} -> LongAccumulate(i, x, long)
      [] i.op \in {"sadd40", "ssub40"} -> SatLong(i, x, long)
      [] i.op = "absl" -> AbsLong(i, long)
      [] i.op = "sat40" -> Sat40(i, long)
      [] i.op \in {"cmpeql", "cmpgtl", "cmpltl", "cmpgtul", "cmpltul"} -> CompareLong(i, x, long)
      [] i.op \in {"shll", "shrl", "shrul"} -> ShiftLong(i, x, long)
      [] i.op = "norml" -> OneWord(1, i, Norm(long, L))
OnWords(i, x, y, r, c) ==
    CASE i.op \in LogicOps -> Logic(i, x, y)
      [] i.op \in {"add", "sub", "subr"} -> AddSub(i, x, y)
      [] i.op \in {"add.d", "sub.d"} -> DAddSub(i, x, y)
      [] i.op \in {"adda", "suba"} -> Adda(i, x, y, c.amr, c.settled <= c.cycle)
      [] i.op \in {"mvk", "mvkh", "addk"} -> Constants(i, r[i.dst])
      [] i.op \in CompareOps -> Compare(i, x, y)
      [] i.op \in {"ext", "extu", "set", "clr"} -> Bitfield(i, x, y)
      [] i.op \in {"shl", "shr", "shru"} -> ShiftS(i, x, y)
      [] i.op \in {"pack2", "packh2", "packhl2", "packlh2", "packl4", "packh4"} -> Packing(i, x, y)
      [] i.op \in Packed16Ops -> Packed16(i, x, y)
      [] i.op \in {"avg2", "sshvl", "sshvr"} -> Packed16M(i, x, y)
      [] i.op \in Packed8Ops -> Packed8(i, x, y)
      [] i.op \in {"rotl", "bitr", "bitc4", "deal", "shfl", "xpnd2", "xpnd4"} -> PackbitsM(i, x, y)
      [] i.op \in {"unpkhu4", "unpklu4", "swap4"} -> Unpack(i, y)
      [] i.op \in {"shlmb", "shrmb"} -> MergeByte(i, x, y)
      [] i.op = "lmbd" -> OneWord(1, i, Lmbd(x, y))
      [] i.op = "norm" -> OneWord(1, i, Norm(y, N))
      [] i.op = "subc" -> OneWord(1, i, Subc(x, y))
      [] i.op \in TwoSumsOps -> TwoSums(i, x, y)
      [] i.op = "dmv" -> Dmv(i, x, y)
      [] i.op \in {"sadd", "ssub", "sshl"} -> SatScalar(i, x, y)
      [] i.op = "rpack2" -> Rpack2(i, x, y)
      [] i.op = "abs" -> AbsWord(i, y)
      [] i.op \in {"addl", "subl", "addul", "subul"} -> LongAddSub(i, x, y)
      [] i.op = "shlw" -> ShiftLong(i, x, y)
      [] i.op = "mpy16" -> Mpy16(i, x, y)
      [] i.op \in {"smpy16", "smpy2"} -> ArmSmpy16(i, x, y)
      [] i.op \in {"mpy32w", "mpy32", "mpy32su", "mpy32us", "mpy32u"} -> Mpy32(i, x, y)
      [] i.op \in {"mpyhi", "mpyli", "mpyhir", "mpylir"} -> MpyHalf32(i, x, y)
      [] i.op \in {"mpyi", "mpyid"} -> ArmMpyi(i, x, y)
      [] i.op \in {"mpy2", "gmpy4"} -> Mpy2Gmpy4(i, x, y)
      [] i.op \in {"gmpy", "xormpy"} -> ArmGmpyWord(i, x, y)
      [] i.op \in {"dotp2l", "dotp2", "dotpn2", "dotpsu4", "dotpu4", "dotprsu2", "dotpnrsu2"} ->
            ArmDotp(i, x, y)
      [] i.op \in {"cmpy", "cmpyr", "cmpyr1", "ddotp4", "ddotph2", "ddotpl2", "ddotph2r",
                   "ddotpl2r"} -> ArmCmpy(i, x, r[i.a + 1], y)
      [] i.op \in {"smpy32", "mpy2ir"} -> Mpy32Nonconditional(i, x, y)
      [] i.op = "mvd" -> OneWord(4, i, y)
      [] i.op = "readsat" -> OneWord(1, i, IF c.sat THEN 1 ELSE 0)
      [] i.op \in {"clearsat", "setamr"} -> Stop   \* control registers: see ArithStep
Computed(i, c) ==
    LET r == c.regs
        x == IF i.constant THEN Low(i.a, N) ELSE r[i.a]
    IN  IF i.op \in LongOps
        THEN IF i.b % 2 = 1 THEN Stop
             ELSE OnLong(i, x, r[i.b] + 2^N * Low(r[i.b + 1], B))
        ELSE OnWords(i, x, r[i.b], r, c)

-----------------------------------------------------------------------------
(* One cycle: a packet, all of whose instructions read what was there       *)
(* before it; then the results and the flags that are due.                  *)

Started(name, start) ==
    [routine |-> name, start |-> start, at |-> 1, cycle |-> 0,
     regs |-> [n \in Registry |-> IF n \in DOMAIN start THEN start[n] ELSE 0],
     due |-> {}, status |-> {}, sat |-> FALSE, settled |-> 0, refused |-> FALSE,
     amr |-> [mode |-> [n \in 4..7 |-> 0], width |-> <<0, 0>>]]
ArithInit ==
    \E name \in DOMAIN Routines : \E start \in [0..Routines[name].inputs - 1 -> Operands] :
        alu = Started(name, start)

Enabled(i, c) == i.when = <<>> \/ (c.regs[i.when[1]] = 0) = i.when[2]
Overlap(v, w) ==
    /\ v.at = w.at
    /\ v.dst <= w.dst + (IF w.pair THEN 1 ELSE 0) /\ w.dst <= v.dst + (IF v.pair THEN 1 ELSE 0)
Landed(c, writes, n) ==
    LET here == {w \in writes : w.at = c.cycle + 1 /\ (w.dst = n \/ (w.pair /\ w.dst + 1 = n))}
    IN  IF here = {} THEN c.regs[n]
        ELSE LET w == CHOOSE v \in here : TRUE IN U(w.value, n - w.dst, N)

Code(c) == Routines[c.routine].code
Result(i, c, it) ==
    [of |-> i, refused |-> it.stage = 0, flags |-> IF it.saturated THEN {c.cycle + it.stage + 1} ELSE {},
     writes |-> {[w EXCEPT !.at = @ + c.cycle] : w \in it.writes}]
Clashes(c, results) ==
    \E x \in results : \E v \in x.writes :
        \/ \E w \in c.due : Overlap(v, w)
        \/ \E other \in results \ {x} : \E w \in other.writes : Overlap(v, w)
NextCycle(c, control, writes, flags) ==
    [c EXCEPT
        !.at = @ + 1, !.cycle = @ + 1,
        !.regs = [n \in Registry |-> Landed(c, writes, n)],
        !.due = {w \in writes : w.at > c.cycle + 1},
        !.status = {t \in flags : t > c.cycle + 1},
        !.sat = c.cycle + 1 \in flags \/ (@ /\ \A i \in control : i.op # "clearsat"),
        !.amr = IF \E i \in control : i.op = "setamr" THEN Routines[c.routine].amr ELSE @,
        !.settled = IF \E i \in control : i.op = "setamr" THEN c.cycle + 2 ELSE @]
Retire(c, control, results) ==
    IF Clashes(c, results) \/ \E x \in results : x.refused THEN [c EXCEPT !.refused = TRUE]
    ELSE NextCycle(c, control, c.due \union UNION {x.writes : x \in results},
                 c.status \union UNION {x.flags : x \in results})
ControlOps == {"clearsat", "setamr"}
RunPacket(c, run) ==
    Retire(c, {i \in run : i.op \in ControlOps},
           {Result(i, c, Computed(i, c)) : i \in {j \in run : j.op \notin ControlOps}})
ArithStep ==
    /\ ~alu.refused
    /\ alu.at <= Len(Code(alu)) \/ alu.due # {} \/ alu.status # {}
    /\ alu' = RunPacket(alu, IF alu.at > Len(Code(alu)) THEN {}
                           ELSE {i \in Code(alu)[alu.at] : Enabled(i, alu)})

ArithNext == ArithStep
Finished(c) ==
    c.refused \/ (c.at > Len(Code(c)) /\ c.due = {} /\ c.status = {})

ArithTypeOK ==
    /\ alu.regs \in [Registry -> Words] /\ alu.sat \in BOOLEAN /\ alu.refused \in BOOLEAN
    /\ \A w \in alu.due : w.at > alu.cycle /\ w.dst \in Registry
=============================================================================
