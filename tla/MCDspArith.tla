----------------------------- MODULE MCDspArith -----------------------------
(***************************************************************************)
(* Routines for the DSP's integer instructions, and what each must have    *)
(* computed when it is over, stated with the numbers alone: a product of   *)
(* words put together from products of halves, a quotient and a remainder, *)
(* a shuffle undone by its inverse.  The operands are in registers 0 to 3. *)
(***************************************************************************)
EXTENDS DspArith

Corners == {0, 1, 15, 53, 127, 128, 136, 198, 255}
Buffers == [mode |-> (4 :> 1 @@ 5 :> 2 @@ 6 :> 3 @@ 7 :> 0), width |-> <<2, N>>]
Wait(n) == [k \in 1..n |-> {}]
Copy(dst, b) == K("add", dst, 0, b)
Program(inputs, code) == [inputs |-> inputs, code |-> code, amr |-> Buffers]

-----------------------------------------------------------------------------
Division == Program(2,
    <<{K("and", 4, 2^H - 1, 1)}, {K("shl", 4, H - 1, 4)}>> \o [k \in 1..H |-> {R("subc", 0, 0, 4)}])
Walk == Program(2,
    <<{Copy(4, 0), Copy(5, 0), R("setamr", 0, 0, 0)}, {Copy(7, 0), Copy(8, 0)},
      {Form(R("adda", 9, 1, 4), <<0>>), Form(R("suba", 10, 1, 4), <<1>>),
       Form(R("adda", 5, 1, 5), <<2>>), Form(R("suba", 7, 1, 7), <<1>>),
       Form(R("adda", 8, 1, 8), <<1>>), Form(R("adda", 4, 1, 4), <<0>>)}>>
    \o [k \in 1..2^Buffers.width[1] - 1 |-> {Form(R("adda", 4, 1, 4), <<0>>)}])
TooSoon == Program(1,
    <<{R("setamr", 0, 0, 0)}, {Form(R("adda", 4, 0, 4), <<0>>)}>>)
ModeThree == Program(1,
    <<{R("setamr", 0, 0, 0)}, {}, {Form(R("adda", 4, 0, 6), <<0>>)}>>)

(* The flag is seen a cycle after the result, and outlives what clears it   *)
(* in the cycle it lands.                                                   *)
Flag == Program(2,
    <<{R("sadd", 4, 0, 1)}, {R("readsat", 5, 0, 0)}, {R("readsat", 6, 0, 0), R("clearsat", 0, 0, 0)},
      {R("readsat", 7, 0, 0), R("ssub", 8, 0, 1)}, {R("clearsat", 0, 0, 0)},
      {R("readsat", 9, 0, 0)}>>)
Accumulate == Program(3,
    <<{R("addl", 4, 0, 1), R("subl", 6, 0, 1), R("addul", 8, 0, 1), R("subul", 10, 0, 1)},
      {R("accl", 4, 2, 4), R("rsubl", 6, 2, 6), R("accul", 8, 2, 8)},
      {R("sat40", 12, 0, 4)}>>)

WordProducts == Program(2,
    <<{Form(R("mpy16", 4, 0, 1), <<0, FALSE, 0, FALSE>>), Form(R("mpy16", 5, 0, 1), <<1, FALSE, 0, FALSE>>),
       Form(R("mpy16", 6, 0, 1), <<0, FALSE, 1, FALSE>>), Form(R("mpy16", 7, 0, 1), <<1, FALSE, 1, FALSE>>),
       R("mpy32u", 8, 0, 1), R("mpy32", 10, 0, 1), R("mpy32su", 12, 0, 1), R("mpy32us", 14, 0, 1)}>>)
HalfProducts == Program(2,
    <<{R("mpyi", 4, 0, 1), R("mpyid", 6, 0, 1), R("mpyhi", 8, 0, 1), R("mpyli", 10, 0, 1),
       Form(R("mpy16", 12, 0, 1), <<0, FALSE, 0, TRUE>>), R("mpy32w", 13, 0, 1),
       R("mpy2", 14, 0, 1), Form(K("mpy16", 5, 3, 1), <<0, TRUE, 1, TRUE>>)}>>)
Fractions == Program(2,
    <<{Form(R("smpy16", 4, 0, 1), <<0, 1>>), R("smpy2", 6, 0, 1), R("smpy32", 5, 0, 1),
       R("mpyhir", 8, 0, 1), R("mpylir", 9, 0, 1), R("mpy2ir", 10, 0, 1)}>>)

Shuffles == Program(2,
    <<{R("deal", 4, 0, 0), R("bitr", 5, 0, 0), R("swap4", 6, 0, 0), R("rotl", 7, 1, 0),
       K("sub", 8, N, 1), R("shfl", 9, 0, 0), R("bitc4", 10, 0, 0), R("shfl3", 12, 0, 1)}>>
    \o Wait(1) \o
    <<{R("shfl", 4, 0, 4), R("bitr", 5, 0, 5), R("swap4", 6, 0, 6), R("rotl", 7, 8, 7),
       R("deal", 9, 0, 9), K("dotpu4", 10, MapThenSumSet(LAMBDA k : 2^(k * B), 0..3), 10)}>>)
Packs == Program(2,
    <<{R("packh2", 4, 0, 1), R("pack2", 5, 0, 1), R("packhl2", 6, 0, 1), R("packlh2", 7, 0, 1),
       R("unpkhu4", 8, 0, 0), R("unpklu4", 9, 0, 0), R("shlmb", 10, 0, 1), K("shru", 11, 3 * B, 1),
       R("dpack2", 12, 0, 1), R("dpackx2", 14, 0, 1)},
      {R("packh2", 4, 4, 5), R("pack2", 5, 4, 5), R("packh2", 6, 6, 7), R("pack2", 7, 7, 6),
       R("packl4", 8, 8, 9), R("packh4", 9, 8, 9), R("shrmb", 10, 11, 10),
       R("packh2", 12, 13, 12), R("packlh2", 13, 14, 15)}>>)
Clamped == Program(2,
    <<{R("spack2", 4, 0, 1), R("spacku4", 5, 0, 1), R("rpack2", 6, 0, 1)}, {}, {R("readsat", 7, 0, 0)},
      {R("sshvl", 8, 1, 0), R("sshvr", 9, 1, 0)}, {}, {}, {R("readsat", 11, 0, 0), R("sshl", 10, 1, 0)}>>)

ByteWise == Program(2,
    <<{R("saddu4", 4, 0, 1), R("add4", 5, 0, 1), R("subabs4", 6, 0, 1), R("maxu4", 7, 0, 1),
       R("minu4", 8, 0, 1), R("cmpeq4", 9, 0, 1), R("cmpgtu4", 10, 0, 1), R("avgu4", 11, 0, 1),
       R("mpyu4", 12, 0, 1), R("mpysu4", 14, 0, 1), R("dotpu4", 3, 0, 1)},
      {R("sub4", 8, 7, 8), R("cmpgtu4", 0, 1, 0), R("cmpgtu4", 2, 0, 5)},
      {R("xpnd4", 2, 0, 2), R("or", 0, 0, 10)}, {},
      {R("or", 5, 2, 5), R("or", 9, 9, 0)}>>)
HalfWise == Program(2,
    <<{R("max2", 4, 0, 1), R("min2", 5, 0, 1), R("add2", 6, 0, 1), R("sub2", 7, 0, 1),
       R("abs2", 8, 0, 0), R("ssub2", 9, 2, 0), R("cmpgt2", 10, 0, 1), R("cmpeq2", 11, 0, 1),
       R("avg2", 12, 0, 1), R("saddus2", 13, 0, 1), R("sadd2", 14, 0, 1), K("shru2", 15, 1, 0)},
      {R("add2", 4, 4, 5), R("max2", 9, 9, 0), R("xpnd2", 10, 0, 10), K("shr2", 5, H - 1, 0)}>> \o Wait(1) \o
    <<{R("and", 2, 0, 10), R("andn", 3, 1, 10)}, {R("or", 3, 2, 3)}>>)
TwoSumsAtOnce == Program(2,
    <<{R("addsub", 4, 0, 1), R("addsub2", 6, 0, 1), R("saddsub", 8, 0, 1), R("saddsub2", 10, 0, 1),
       R("add2", 12, 0, 1), R("sub2", 13, 0, 1), R("sadd2", 14, 0, 1), R("ssub2", 15, 0, 1)}>>)

Normal == Program(2,
    <<{R("norm", 4, 0, 0), K("lmbd", 5, 1, 0), K("lmbd", 6, 0, 0), R("abs", 7, 0, 0),
       R("dmv", 8, 1, 0)},
      {R("shl", 10, 4, 0), R("norml", 11, 0, 8), R("absl", 14, 0, 8)},
      {R("norm", 12, 0, 10), R("shr", 13, 4, 10), R("shll", 8, 11, 8)}>>)
Fields == Program(2,
    <<{R("ext", 4, 1, 0), R("extu", 5, 1, 0), R("set", 6, 1, 0), R("clr", 7, 1, 0),
       K("shru", 8, 3, 1), K("and", 9, N - 1, 1)},
      {R("shl", 10, 8, 0), R("xor", 6, 6, 7)},
      {R("shr", 10, 9, 10), R("shru", 11, 9, 10)}>>)

Complex == Program(2,
    <<{R("cmpy", 4, 0, 1), R("cmpyr", 6, 0, 1), R("cmpyr1", 7, 0, 1), R("ddotp4", 8, 0, 1),
       R("dotp2l", 10, 0, 1), R("dotpn2", 12, 0, 1), R("dotpsu4", 13, 0, 1), R("packlh2", 14, 1, 1),
       R("dotp2", 15, 0, 1)}, {R("dotp2", 14, 0, 14)}>>)
DoubleDot == Program(3,
    <<{R("ddotph2", 4, 0, 2), R("ddotpl2", 6, 0, 2), R("ddotph2r", 8, 0, 2), R("ddotpl2r", 9, 0, 2)}>>)
OddDot == Program(1, <<{R("ddotph2", 4, 1, 0)}>>)
RoundedDot == Program(2, <<{R("dotprsu2", 4, 0, 1)}, {R("dotpnrsu2", 5, 0, 1)}>>)
Field4 == <<3, 2>>      \* x^2 + x + 1, of degree 2
Galois == Program(2,
    <<{K("add", 2, 90, 0)},
      {Form(R("gmpy4", 4, 0, 2), Field4), Form(R("gmpy4", 5, 1, 2), Field4), R("xor", 6, 0, 1),
       R("xormpy", 7, 0, 2), R("xormpy", 8, 1, 2), Form(R("gmpy", 9, 0, 2), <<29>>),
       Form(R("gmpy", 10, 1, 2), <<29>>), Form(R("gmpy4", 11, 0, 0), Field4)},
      {Form(R("gmpy4", 12, 6, 2), Field4), R("xormpy", 13, 6, 2), Form(R("gmpy", 14, 6, 2), <<29>>)}>>
    \o Wait(2) \o <<{Form(R("gmpy4", 11, 0, 11), Field4)}>>)

Longs == Program(3,
    <<{R("dmv", 4, 1, 0)},
      {R("sadd40", 6, 2, 4), R("cmpgtl", 10, 2, 4), R("cmpltl", 11, 2, 4), R("cmpeql", 12, 2, 4),
       R("cmpgtul", 13, 2, 4), R("cmpltul", 14, 2, 4)}, {R("ssub40", 8, 2, 4)}>>)
LongShifts == Program(3,
    <<{R("dmv", 4, 1, 0)},
      {R("shll", 6, 2, 4), R("shrl", 8, 2, 4), R("shrul", 10, 2, 4), R("shlw", 12, 2, 0)}>>)

(* A result on its way is passed by one that is quicker; two that land      *)
(* together in one register are refused.                                    *)
Passing == Program(2,
    <<{R("mpy32w", 4, 0, 1), R("mvd", 5, 0, 1)}, {Copy(4, 0)}, {Copy(6, 4), K("mvk", 7, 5, 0)},
      {K("mvkh", 7, 10, 0), R("add.d", 8, 0, 1), R("sub.d", 9, 0, 1), R("cmpeq", 10, 0, 1)},
      {K("addk", 7, 2^H - 1, 0), Copy(11, 4), R("cmpgtu", 12, 0, 1), R("cmpltu", 13, 0, 1)},
      {R("cmpgt", 14, 0, 1), R("cmplt", 15, 0, 1)},
      {If(14, FALSE, Copy(4, 0)), If(14, TRUE, Copy(4, 1))}>>)
Together == Program(2, <<{R("mpy32", 4, 0, 1)}, {}, {R("avg2", 5, 0, 1)}>>)
Catching == Program(2, <<{R("mpy32w", 4, 0, 1)}, {}, {}, {Copy(4, 0)}>>)
TwoCycles == Program(1, <<{R("mpyid", 4, 0, 0)}>> \o Wait(5) \o <<{R("mpy32w", 5, 0, 0)}>>)
OddPair == Program(1, <<{R("addl", 5, 0, 0)}>>)

ArithRoutines ==
    "divide" :> Division @@ "walk" :> Walk @@ "too soon" :> TooSoon @@
    "mode three" :> ModeThree @@ "flag" :> Flag @@ "accumulate" :> Accumulate @@
    "products" :> WordProducts @@ "halves" :> HalfProducts @@ "fractions" :> Fractions @@
    "shuffles" :> Shuffles @@ "packs" :> Packs @@ "clamped" :> Clamped @@ "bytes" :> ByteWise @@
    "pairs" :> HalfWise @@ "two sums" :> TwoSumsAtOnce @@ "normal" :> Normal @@
    "fields" :> Fields @@ "complex" :> Complex @@ "double dot" :> DoubleDot @@
    "odd dot" :> OddDot @@ "rounded dot" :> RoundedDot @@ "galois" :> Galois @@
    "longs" :> Longs @@ "long shifts" :> LongShifts @@ "passing" :> Passing @@
    "together" :> Together @@ "catching" :> Catching @@ "two cycles" :> TwoCycles @@
    "odd pair" :> OddPair

-----------------------------------------------------------------------------
(* What a routine has computed: a, b and d are its operands, sa and so on   *)
(* the numbers they are with their signs, r the registers at the end, pair  *)
(* the number in two of them.                                               *)

(* v, a fraction of 2^n, rounded to the nearest integer (up when halfway).  *)
Nearest(result, v, n) == 2^n * result - v \in -(2^(n - 1)) + 1..2^(n - 1)
Bit(condition) == IF condition THEN 1 ELSE 0
Leading(v, bit) ==
    Cardinality({i \in 0..N - 1 : \A j \in i..N - 1 : (v \div 2^j) % 2 = bit})
InBlock(v, base, w) == v \div 2^w = base \div 2^w

Divided(a, b, r) ==
    LET divisor == b % 2^H
    IN  divisor # 0 /\ a \div divisor < 2^H
            => r[0] = (a % divisor) * 2^H + a \div divisor
Walked(a, b, r) ==
    /\ r[4] = a /\ r[9] % 4 = (a + b) % 4 /\ r[10] % 4 = (a - 2 * b) % 4
    /\ InBlock(r[9], a, 2) /\ InBlock(r[10], a, 2)
    /\ r[5] = (a + 4 * b) % 2^N /\ r[7] = (a - 2 * b) % 2^N /\ r[8] = (a + 2 * b) % 2^N
FlagKept(sa, sb, r, sat) ==
    /\ Sx(r[4], N) = Sat(sa + sb, N) /\ Sx(r[8], N) = Sat(sa - sb, N)
    /\ r[5] = 0 /\ r[6] = Bit(Saturates(sa + sb, N)) /\ r[7] = 0
    /\ r[9] = Bit(Saturates(sa - sb, N)) /\ sat = Saturates(sa - sb, N)
Accumulated(a, b, d, r, sat) ==
    LET Long40(n) == Sx(r[n] + 2^N * r[n + 1], L)
        sum == Sx(a, N) + Sx(b, N) + Sx(d, N)
    IN  /\ Long40(4) = sum /\ Long40(6) = Sx(d, N) - (Sx(a, N) - Sx(b, N))
        /\ Long40(8) = Sx(a + b + d, L) /\ Long40(10) = a - b
        /\ Sx(r[12], N) = Sat(sum, N) /\ sat = Saturates(sum, N)

Multiplied(a, b, sa, sb, r) ==
    LET Double(n) == r[n] + 2^N * r[n + 1]
    IN  /\ Double(8) = r[4] + 2^H * (r[5] + r[6]) + 2^N * r[7] /\ Double(8) = a * b
        /\ Sx(Double(10), 2 * N) = sa * sb
        /\ Double(12) = (sa * b) % 2^(2 * N) /\ Double(14) = (a * sb) % 2^(2 * N)
HalvesMultiplied(a, b, sa, sb, r) ==
    LET Double(n) == Sx(r[n] + 2^N * r[n + 1], 2 * N)
        highs == S(a, 1, H) * S(b, 1, H)   lows == S(a, 0, H) * S(b, 0, H)
    IN  /\ r[4] = (sa * sb) % 2^N /\ Double(6) = sa * sb /\ r[13] = r[4]
        /\ Double(8) * 2^H + U(a, 0, H) * sb = sa * sb /\ Double(10) = S(a, 0, H) * sb
        /\ Sx(r[12], N) = U(a, 0, H) * S(b, 0, H)
        /\ r[14] = lows % 2^N /\ r[15] = highs % 2^N /\ Sx(r[5], N) = 3 * S(b, 1, H)
Fractional(a, b, sa, sb, r, sat) ==
    LET F(i, j) == 2 * S(a, i, H) * S(b, j, H)
        Rounded(v) == CHOOSE q \in -(2^N)..2^N : Nearest(q, v, H - 1)
    IN  /\ Sx(r[4], N) = Sat(F(0, 1), N)
        /\ Sx(r[6], N) = Sat(F(0, 0), N) /\ Sx(r[7], N) = Sat(F(1, 1), N)
        /\ sat = (Saturates(F(0, 1), N) \/ Saturates(F(0, 0), N) \/ Saturates(F(1, 1), N))
        /\ Sx(r[5], N) = IF a = 2^(N - 1) /\ b = a THEN 2^(N - 1) - 1 ELSE (2 * sa * sb) \div 2^N
        /\ r[8] = Rounded(S(a, 1, H) * sb) % 2^N /\ r[9] = Rounded(S(a, 0, H) * sb) % 2^N
        /\ Sx(r[11], N) = Sat(Rounded(S(a, 1, H) * sb), N)
        /\ Sx(r[10], N) = Sat(Rounded(S(a, 0, H) * sb), N)

Unshuffled(a, b, r) ==
    /\ r[4] = a /\ r[5] = a /\ r[6] = a /\ r[7] = a /\ r[9] = a
    /\ r[10] = Cardinality(Ones(a))
    /\ Ones(r[12] + 2^N * r[13]) \intersect {3 * i : i \in 0..H - 1} = {3 * i : i \in Ones(U(b, 0, H))}
    /\ Cardinality(Ones(r[12] + 2^N * r[13])) = Cardinality(Ones(a)) + Cardinality(Ones(U(b, 0, H)))
Repacked(a, b, r) ==
    /\ r[4] = a /\ r[5] = b /\ r[6] = a /\ r[7] = b /\ r[8] = a /\ r[9] = 0 /\ r[10] = b
    /\ r[12] = a /\ r[13] = b
ClampedTo(a, b, sa, sb, r, sat) ==
    LET count == Clamp(sb, 1 - N, N - 1)
        Shifted(n) == IF n < 0 THEN sa \div 2^(-n) ELSE sa * 2^n
        doubled == Saturates(2 * sa, N) \/ Saturates(2 * sb, N)
        byHand == sa * 2^(IF b % (2 * N) > N THEN N ELSE b % (2 * N))
    IN  /\ S(r[4], 1, H) = Sat(sa, H) /\ S(r[4], 0, H) = Sat(sb, H)
        /\ \A i \in 0..3 : U(r[5], i, B) = Clamp(S(IF i < 2 THEN b ELSE a, i % 2, H), 0, 2^B - 1)
        /\ S(r[6], 1, H) = Sat(2 * sa, N) \div 2^H /\ S(r[6], 0, H) = Sat(2 * sb, N) \div 2^H
        /\ r[7] = Bit(doubled)
        /\ Sx(r[8], N) = Sat(Shifted(count), N)
        /\ Sx(r[9], N) = Sat(Shifted(Clamp(-sb, 1 - N, N - 1)), N)
        /\ Sx(r[10], N) = Sat(byHand, N)
        /\ r[11] = Bit(doubled \/ Saturates(Shifted(count), N)
                       \/ Saturates(Shifted(Clamp(-sb, 1 - N, N - 1)), N))
        /\ sat = (r[11] = 1 \/ Saturates(byHand, N))

(* A saturating sum of bytes is the plain one with the bytes that carried   *)
(* set; what is not equal is greater one way or the other.                  *)
BytesExact(r) ==
    /\ r[5] = r[4] /\ r[6] = r[8] /\ r[9] = 15
    /\ U(r[12], 0, H) + U(r[12], 1, H) + U(r[13], 0, H) + U(r[13], 1, H) = r[3]
HalvesExact(a, b, r) ==
    /\ r[4] = r[6] /\ r[9] = r[8] /\ \A i \in 0..1 :
        /\ S(r[3], i, H) = (IF S(a, i, H) > S(b, i, H) THEN S(a, i, H) ELSE S(b, i, H))
        /\ i \in Ones(r[11]) <=> U(r[7], i, H) = 0
        /\ U(r[15], i, H) = U(a, i, H) \div 2 /\ S(r[5], i, H) = -Bit(S(a, i, H) < 0)
        /\ 2 * S(r[12], i, H) - (S(a, i, H) + S(b, i, H)) \in {0, 1}
        /\ U(r[13], i, H) = Clamp(U(a, i, H) + S(b, i, H), 0, 2^H - 1)
        /\ S(r[14], i, H) = Sat(S(a, i, H) + S(b, i, H), H)
TwoSumsExact(sa, sb, r, sat) ==
    /\ r[5] = (sa + sb) % 2^N /\ r[4] = (sa - sb) % 2^N /\ r[7] = r[12] /\ r[6] = r[13]
    /\ Sx(r[9], N) = Sat(sa + sb, N) /\ Sx(r[8], N) = Sat(sa - sb, N)
    /\ r[11] = r[14] /\ r[10] = r[15]
    /\ sat = (Saturates(sa + sb, N) \/ Saturates(sa - sb, N))

(* What is normalised has two different top bits, unless it is all sign.    *)
Normalised(a, b, sa, r, sat) ==
    LET long == a + 2^N * (b % 2^B)   sl == Sx(long, L)   after == Sx(r[8] + 2^N * r[9], L)
    IN  /\ r[5] = Leading(a, 0) /\ r[6] = Leading(a, 1) /\ r[4] = r[5] + r[6] - 1
        /\ a \notin {0, 2^N - 1} => r[12] = 0
        /\ r[13] = a
        /\ Sx(r[7], N) = Sat(IF sa < 0 THEN -sa ELSE sa, N)
        /\ r[14] + 2^N * r[15] = Sat(IF sl < 0 THEN -sl ELSE sl, L)
        /\ after = sl * 2^r[11] /\ (sl \notin {0, -1} => after \notin -(2^(L - 2))..2^(L - 2) - 1)
        /\ sat = (a = 2^(N - 1) \/ long = 2^(L - 1))
FieldsExact(a, b, r) ==
    LET left == b \div N   right == b % N
        mask == {k \in 0..N - 1 : left <= k /\ k <= right}
    IN  /\ r[4] = r[10] /\ r[5] = r[11] /\ Ones(r[6]) = mask
        /\ Ones(r[7]) = Ones(a) \ mask

ComplexExact(a, b, r) ==
    LET real == S(a, 1, H) * S(b, 1, H) - S(a, 0, H) * S(b, 0, H)
        imaginary == S(a, 1, H) * S(b, 0, H) + S(a, 0, H) * S(b, 1, H)
        dot == S(a, 1, H) * S(b, 1, H) + S(a, 0, H) * S(b, 0, H)
        Rounded(v) == Sat((v + 2^(H - 1)), N) \div 2^H
        Doubled(v) == Sat((2 * v + 2^(H - 1)), N) \div 2^H
    IN  /\ Sx(r[5], N) = real /\ Sx(r[4], N) = Sat(imaginary, N)
        /\ r[12] = r[5] /\ r[14] = imaginary % 2^N /\ r[15] = r[10]
        /\ Sx(r[10] + 2^N * r[11], 2 * N) = dot
        /\ S(r[6], 1, H) = Rounded(real) /\ S(r[6], 0, H) = Rounded(Sat(imaginary, N))
        /\ S(r[7], 1, H) = Doubled(real) /\ S(r[7], 0, H) = Doubled(Sat(imaginary, N))
        /\ \A i \in 0..1 : Sx(r[8 + i], N) =
               S(a, 1, H) * S(b, 2 * i + 1, B) + S(a, 0, H) * S(b, 2 * i, B)
        /\ Sx(r[13], N) = S(a, 0, B) * U(b, 0, B) + S(a, 1, B) * U(b, 1, B)
                          + S(a, 2, B) * U(b, 2, B) + S(a, 3, B) * U(b, 3, B)

(* Four halves in a row, the highest first: two dot products, one half on. *)
DoubleDotExact(low, high, d, r) ==
    LET half == <<S(high, 1, H), S(high, 0, H), S(low, 1, H), S(low, 0, H)>>
        Dot(k) == Sat(half[k] * S(d, 1, H) + half[k + 1] * S(d, 0, H), N)
        Straddled(x, y) == Sat(half[x] * S(d, 0, H) + half[y] * S(d, 1, H), N)
        Rounded(v) == Sat(v + 2^(H - 1), N) \div 2^H
    IN  /\ Sx(r[5], N) = Dot(1) /\ Sx(r[4], N) = Straddled(3, 2)
        /\ Sx(r[7], N) = Straddled(3, 2) /\ Sx(r[6], N) = Dot(3)
        /\ S(r[8], 1, H) = Rounded(Dot(1)) /\ S(r[8], 0, H) = Rounded(Straddled(3, 2))
        /\ S(r[9], 1, H) = Rounded(Straddled(3, 2)) /\ S(r[9], 0, H) = Rounded(Dot(3))
RoundedDotExact(a, b, r) ==
    /\ Nearest(Sx(r[4], N), S(a, 1, H) * U(b, 1, H) + S(a, 0, H) * U(b, 0, H), H)
    /\ Nearest(Sx(r[5], N), S(a, 1, H) * U(b, 1, H) - S(a, 0, H) * U(b, 0, H), H)

(* The products distribute over the exclusive or, which is a field's sum,   *)
(* and every element of the field of four but 0 has 1 for its cube.         *)
GaloisExact(a, r) ==
    /\ r[12] = Xor(r[4], r[5]) /\ r[13] = Xor(r[7], r[8]) /\ r[14] = Xor(r[9], r[10])
    /\ B = 2 => \A i \in 0..3 : U(r[11], i, B) = Bit(U(a, i, B) # 0)

LongsExact(a, b, d, r, sat) ==
    LET long == a + 2^N * (b % 2^B)   sl == Sx(long, L)   sd == Sx(d, N)
    IN  /\ Sx(r[6] + 2^N * r[7], L) = Sat(sd + sl, L) /\ Sx(r[8] + 2^N * r[9], L) = Sat(sd - sl, L)
        /\ r[10] = Bit(sd > sl) /\ r[11] = Bit(sd < sl) /\ r[12] = Bit(sd = sl)
        /\ r[13] = Bit(d > long) /\ r[14] = Bit(d < long)
        /\ sat = (Saturates(sd + sl, L) \/ Saturates(sd - sl, L))
LongsShifted(a, b, d, r) ==
    LET long == a + 2^N * (b % 2^B)   n == d % (2 * N)   Pair40(k) == r[k] + 2^N * r[k + 1]
    IN  /\ Pair40(6) = (long * 2^n) % 2^L /\ Sx(Pair40(8), L) = Sx(long, L) \div 2^n
        /\ Pair40(10) = long \div 2^n /\ Pair40(12) = (a * 2^n) % 2^L

Passed(a, b, sa, sb, r) ==
    /\ r[11] = (sa * sb) % 2^N /\ r[5] = b /\ r[6] = a /\ r[7] = 5 + 10 * 2^H - 1
    /\ r[8] = (a + b) % 2^N /\ r[9] = (b - a) % 2^N
    /\ r[10] = Bit(a = b) /\ r[12] = Bit(a > b) /\ r[13] = Bit(a < b) /\ r[15] = Bit(sa < sb)
    /\ Sx(r[4], N) = IF sa > sb THEN sa ELSE sb

-----------------------------------------------------------------------------
(* The packet that is refused, or 0. *)
Rounds(a, b, sign) ==
    Saturates(S(a, 1, H) * U(b, 1, H) + sign * S(a, 0, H) * U(b, 0, H) + 2^(H - 1), N)
RefusedAt(name, a, b) ==
    CASE name \in {"odd dot", "odd pair"} -> 1
      [] name = "too soon" -> 2
      [] name \in {"mode three", "together"} -> 3
      [] name = "catching" -> 4
      [] name = "two cycles" -> 7
      [] name = "fields" /\ b >= N * N -> 1
      [] name = "rounded dot" /\ Rounds(a, b, 1) -> 1
      [] name = "rounded dot" /\ Rounds(a, b, -1) -> 2
      [] OTHER -> 0
Right(name, a, b, d, r, sat) ==
    LET sa == Sx(a, N)   sb == Sx(b, N)
    IN  CASE name = "divide" -> Divided(a, b, r)
          [] name = "walk" -> Walked(a, b, r)
          [] name = "flag" -> FlagKept(sa, sb, r, sat)
          [] name = "accumulate" -> Accumulated(a, b, d, r, sat)
          [] name = "products" -> Multiplied(a, b, sa, sb, r)
          [] name = "halves" -> HalvesMultiplied(a, b, sa, sb, r)
          [] name = "fractions" -> Fractional(a, b, sa, sb, r, sat)
          [] name = "shuffles" -> Unshuffled(a, b, r)
          [] name = "packs" -> Repacked(a, b, r)
          [] name = "clamped" -> ClampedTo(a, b, sa, sb, r, sat)
          [] name = "bytes" -> BytesExact(r)
          [] name = "pairs" -> HalvesExact(a, b, r)
          [] name = "two sums" -> TwoSumsExact(sa, sb, r, sat)
          [] name = "normal" -> Normalised(a, b, sa, r, sat)
          [] name = "fields" -> FieldsExact(a, b, r)
          [] name = "complex" -> ComplexExact(a, b, r)
          [] name = "double dot" -> DoubleDotExact(a, b, d, r)
          [] name = "rounded dot" -> RoundedDotExact(a, b, r)
          [] name = "galois" -> GaloisExact(a, r)
          [] name = "longs" -> LongsExact(a, b, d, r, sat)
          [] name = "long shifts" -> LongsShifted(a, b, d, r)
          [] name = "passing" -> Passed(a, b, sa, sb, r)

(* A routine ends with what the numbers say, whatever the operands: results *)
(* land in their own cycle and not in the order of the packets, longs and   *)
(* products keep every bit until they are saturated, the saturation flag is *)
(* set when one was and only then, and a packet is refused exactly when two *)
(* results meet in a register, a pair is odd, an address is formed from a   *)
(* circular buffer that is not yet set up, or a count or a rounded sum is   *)
(* out of range (cdj_c674x.c, its helpers).                                 *)
ArithExact ==
    LET Start(n) == IF n \in DOMAIN alu.start THEN alu.start[n] ELSE 0
        name == alu.routine
        stops == RefusedAt(name, Start(0), Start(1))
    IN  Finished(alu) =>
            IF stops > 0 THEN alu.refused /\ alu.at = stops
            ELSE ~alu.refused /\ Right(name, Start(0), Start(1), Start(2), alu.regs, alu.sat)
=============================================================================
