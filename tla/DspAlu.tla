------------------------------- MODULE DspAlu -------------------------------
(***************************************************************************)
(* The integer arithmetic of the DSP's core: cdj_c674x_packbits.c,         *)
(* cdj_c674x_packed16.c, cdj_c674x_packed8.c, cdj_c674x_mpy32.c,           *)
(* cdj_c674x_dotp.c and the helpers of cdj_c674x.c.  A word has four bytes *)
(* of ByteBits bits (8 in the code) and a long five; every other number    *)
(* follows from that.                                                      *)
(***************************************************************************)
EXTENDS Integers, FiniteSets, TLC, FiniteSetsExt

CONSTANT ByteBits       \* bits in a byte
ASSUME ByteBitsAssumption == ByteBits \in Nat /\ ByteBits > 1

B == ByteBits           \* a byte, a half, a word, a long
H == 2 * B
N == 4 * B
L == 5 * B
Words == 0..2^N - 1

Low(v, n) == v % 2^n
Sx(v, n) == IF Low(v, n) >= 2^(n - 1) THEN Low(v, n) - 2^n ELSE Low(v, n)
Clamp(v, least, most) == IF v < least THEN least ELSE IF v > most THEN most ELSE v
Sat(v, n) == Clamp(v, -(2^(n - 1)), 2^(n - 1) - 1)
Saturates(v, n) == Sat(v, n) # v

(* The set of the bits that are 1, and the number they make. *)
Ones(v) == {i \in 0..2 * N - 1 : (v \div 2^i) % 2 = 1}
Number(bits) == MapThenSumSet(LAMBDA i : 2^i, bits)
Xor(a, b) == Number((Ones(a) \ Ones(b)) \union (Ones(b) \ Ones(a)))
And(a, b) == Number(Ones(a) \intersect Ones(b))
Or(a, b) == Number(Ones(a) \union Ones(b))
Not(a) == 2^N - 1 - a

(* The i-th field of w bits, without and with its sign; fields put together; *)
(* an operation on each half, or on each byte.                               *)
U(v, i, w) == Low(v \div 2^(i * w), w)
S(v, i, w) == Sx(U(v, i, w), w)
Pack(w, f) == MapThenSumSet(LAMBDA i : Low(f[i], w) * 2^(i * w), DOMAIN f)
EachHalf(Op(_, _), a, b) == Pack(H, [i \in 0..1 |-> Op(S(a, i, H), S(b, i, H))])
EachByte(Op(_, _), a, b) == Pack(B, [i \in 0..3 |-> Op(U(a, i, B), U(b, i, B))])
Pair(high, low) == Low(high, N) * 2^N + Low(low, N)

-----------------------------------------------------------------------------
(* Shuffles and bits: cdj_c674x_packbits.c. *)
Unpkhu4(b) == Pack(H, [i \in 0..1 |-> U(b, i + 2, B)])
Unpklu4(b) == Pack(H, [i \in 0..1 |-> U(b, i, B)])
Swap4(b) == Pack(B, 0 :> U(b, 1, B) @@ 1 :> U(b, 0, B) @@ 2 :> U(b, 3, B) @@ 3 :> U(b, 2, B))
Bitr(b) == Number({N - 1 - i : i \in Ones(b)})
Bitc4(b) == EachByte(LAMBDA x, y : Cardinality(Ones(y)), b, b)
Deal(b) == Number({IF i % 2 = 0 THEN i \div 2 ELSE H + i \div 2 : i \in Ones(b)})
Shfl(b) == Number({IF i < H THEN 2 * i ELSE 2 * (i - H) + 1 : i \in Ones(b)})
Shfl3(a, b) ==
    Number({3 * i : i \in Ones(U(b, 0, H))} \union {3 * i + 1 : i \in Ones(U(a, 0, H))}
           \union {3 * i + 2 : i \in Ones(U(a, 1, H))})
Xpnd2(b) == Pack(H, [i \in 0..1 |-> IF i \in Ones(b) THEN -1 ELSE 0])
Xpnd4(b) == Pack(B, [i \in 0..3 |-> IF i \in Ones(b) THEN -1 ELSE 0])
Rotl(b, a) == Number({(i + a) % N : i \in Ones(b)})

(* The leftmost bit that is the last bit of a; the sign bits that repeat. *)
Lmbd(a, b) ==
    LET found == {i \in 0..N - 1 : (i \in Ones(b)) = (a % 2 = 1)}
    IN  IF found = {} THEN N ELSE N - 1 - Max(found)
Norm(b, n) ==
    LET other == {i \in 0..n - 2 : (i \in Ones(b)) # (n - 1 \in Ones(b))}
    IN  IF other = {} THEN n - 1 ELSE n - 2 - Max(other)

Shlmb(a, b) == Low(b * 2^B, N) + U(a, 3, B)
Shrmb(a, b) == U(a, 0, B) * 2^(3 * B) + b \div 2^B
Pack2(a, b) == Pack(H, 1 :> a @@ 0 :> b)
Packh2(a, b) == Pack(H, 1 :> U(a, 1, H) @@ 0 :> U(b, 1, H))
Packhl2(a, b) == Pack(H, 1 :> U(a, 1, H) @@ 0 :> b)
Packlh2(a, b) == Pack(H, 1 :> a @@ 0 :> U(b, 1, H))
PackEvery2nd(first, a, b) ==
    Pack(B, [i \in 0..3 |-> U(IF i < 2 THEN b ELSE a, first + 2 * (i % 2), B)])
Dpack2(a, b) == Pair(Packh2(a, b), Pack2(a, b))
Dpackx2(a, b) == Pair(Packlh2(b, a), Packlh2(a, b))

-----------------------------------------------------------------------------
(* Two halves at a time: cdj_c674x_packed16.c. *)
Abs2(b) == EachHalf(LAMBDA x, y : Sat(IF y < 0 THEN -y ELSE y, H), b, b)
Add2(a, b) == EachHalf(LAMBDA x, y : x + y, a, b)
Sub2(a, b) == EachHalf(LAMBDA x, y : x - y, a, b)
Sadd2(a, b) == EachHalf(LAMBDA x, y : Sat(x + y, H), a, b)
Ssub2(a, b) == EachHalf(LAMBDA x, y : Sat(x - y, H), a, b)
Saddus2(a, b) == EachHalf(LAMBDA x, y : Clamp(Low(x, H) + y, 0, 2^H - 1), a, b)
Max2(a, b) == EachHalf(LAMBDA x, y : IF x >= y THEN x ELSE y, a, b)
Min2(a, b) == EachHalf(LAMBDA x, y : IF x <= y THEN x ELSE y, a, b)
Avg2(a, b) == EachHalf(LAMBDA x, y : (x + y + 1) \div 2, a, b)
Shr2(b, a) == EachHalf(LAMBDA x, y : y \div 2^(a % N), b, b)
Shru2(b, a) == EachHalf(LAMBDA x, y : Low(y, H) \div 2^(a % N), b, b)
Cmpeq2(a, b) == Number({i \in 0..1 : U(a, i, H) = U(b, i, H)})
Cmpgt2(a, b) == Number({i \in 0..1 : S(a, i, H) > S(b, i, H)})
Spack2(a, b) == Pack(H, 1 :> Sat(Sx(a, N), H) @@ 0 :> Sat(Sx(b, N), H))

(* SSHVL, and SSHVR with right: the shift, before it saturates.             *)
Sshv(b, a, right) ==
    LET n == Clamp(IF right THEN -Sx(a, N) ELSE Sx(a, N), 1 - N, N - 1)
    IN  IF n < 0 THEN Sx(b, N) \div 2^(-n) ELSE Sx(b, N) * 2^n

(* Four bytes at a time: cdj_c674x_packed8.c. *)
Add4(a, b) == EachByte(LAMBDA x, y : x + y, a, b)
Sub4(a, b) == EachByte(LAMBDA x, y : x - y, a, b)
Subabs4(a, b) == EachByte(LAMBDA x, y : IF x >= y THEN x - y ELSE y - x, a, b)
Saddu4(a, b) == EachByte(LAMBDA x, y : Clamp(x + y, 0, 2^B - 1), a, b)
Avgu4(a, b) == EachByte(LAMBDA x, y : (x + y + 1) \div 2, a, b)
Maxu4(a, b) == EachByte(LAMBDA x, y : IF x >= y THEN x ELSE y, a, b)
Minu4(a, b) == EachByte(LAMBDA x, y : IF x <= y THEN x ELSE y, a, b)
Cmpeq4(a, b) == Number({i \in 0..3 : U(a, i, B) = U(b, i, B)})
Cmpgtu4(a, b) == Number({i \in 0..3 : U(a, i, B) > U(b, i, B)})
Mpyu4(a, b) == Pack(H, [i \in 0..3 |-> U(a, i, B) * U(b, i, B)])
Mpysu4(a, b) == Pack(H, [i \in 0..3 |-> S(a, i, B) * U(b, i, B)])
Spacku4(a, b) ==
    Pack(B, [i \in 0..3 |-> Clamp(S(IF i < 2 THEN b ELSE a, i % 2, H), 0, 2^B - 1)])

-----------------------------------------------------------------------------
(* Products: cdj_c674x_mpy32.c, cdj_c674x_mpy.c, cdj_c674x_dotp.c. *)
Mpyi(a, b) == Low(Sx(a, N) * Sx(b, N), 2 * N)
Mpy2(a, b) == Pair(S(a, 1, H) * S(b, 1, H), S(a, 0, H) * S(b, 0, H))

(* Twice a product of two halves, before it saturates. *)
Smpy16(a, b, i, j) == 2 * S(a, i, H) * S(b, j, H)

(* Products of polynomials over two elements: a byte's, reduced by x^m +    *)
(* poly from the top down, and GMPY's bit by bit.                           *)
Carryless(a, b) ==
    Number({k \in 0..2 * B : Cardinality({i \in Ones(b) : k - i \in Ones(a)}) % 2 = 1})
GmpyByte(a, b, poly, m) ==
    LET reduced[i \in m - 1..2 * B] ==      \* the product when bits from i on are gone
            IF i = 2 * B THEN Carryless(Low(a, m), Low(b, m))
            ELSE LET above == reduced[i + 1]
                 IN  IF i + 1 \in Ones(above)
                     THEN Xor(above, (2^m + Low(poly, m)) * 2^(i + 1 - m)) ELSE above
    IN  reduced[m - 1]
Gmpy4(a, b, poly, m) == EachByte(LAMBDA x, y : GmpyByte(x, y, poly, m), a, b)
GmpyWord(a, b, poly) ==
    LET product[i \in 0..B + 1] ==          \* bits B down to i are done
            IF i = B + 1 THEN 0
            ELSE LET so_far == product[i + 1]
                     shifted == Xor(Low(2 * so_far, N), IF so_far >= 2^(N - 1) THEN poly ELSE 0)
                 IN  IF i \in Ones(b) THEN Xor(shifted, a) ELSE shifted
    IN  product[0]


(* SUBC, a step of a division; and a slip, that misses what is equal. *)
SubcAbove(a, b) == IF a > b THEN Low(2 * (a - b) + 1, N) ELSE Low(2 * a, N)
Subc(a, b) == IF a >= b THEN Low(2 * (a - b) + 1, N) ELSE Low(2 * a, N)

Absolute(b, n) == Sat(IF Sx(b, n) < 0 THEN -Sx(b, n) ELSE Sx(b, n), n)
Shift40(b, count, op) ==
    LET n == IF count % (2 * N) > L - 1 THEN L ELSE count % (2 * N)
    IN  CASE op = "shl" -> Low(b * 2^n, L)
          [] op = "shru" -> Low(b, L) \div 2^n
          [] op = "shr" -> Low(Sx(b, L) \div 2^n, L)
Shift32(b, n, op) ==
    CASE op = "shl" -> IF n >= N THEN 0 ELSE Low(b * 2^n, N)
      [] op = "shru" -> IF n >= N THEN 0 ELSE b \div 2^n
      [] op = "shr" -> IF n >= N THEN (IF Sx(b, N) < 0 THEN 2^N - 1 ELSE 0)
                       ELSE Low(Sx(b, N) \div 2^n, N)

(* SSHL's shift, before it saturates. *)
SaturatingShift(b, n) == Sx(b, N) * 2^(IF n < N THEN n ELSE N)

(* Two products of halves, added or subtracted, with src2's halves signed   *)
(* or not; the rounded forms are undefined outside a word.                  *)
Dotp2(a, b) == S(a, 0, H) * S(b, 0, H) + S(a, 1, H) * S(b, 1, H)
Dotpn2(a, b) == S(a, 1, H) * S(b, 1, H) - S(a, 0, H) * S(b, 0, H)
Dotprsu2(a, b, sign) == S(a, 1, H) * U(b, 1, H) + sign * S(a, 0, H) * U(b, 0, H) + 2^(H - 1)
Dotpsu4(a, b) == MapThenSumSet(LAMBDA i : S(a, i, B) * U(b, i, B), 0..3)
Dotpu4(a, b) == MapThenSumSet(LAMBDA i : U(a, i, B) * U(b, i, B), 0..3)

(* The complex products and the double dot products: the sum that goes to   *)
(* the odd (high) result and the one that goes to the even.                 *)
Cross(a, b) == S(a, 0, H) * S(b, 1, H) + S(a, 1, H) * S(b, 0, H)
Straddle(high, a, b) == S(high, 0, H) * S(b, 1, H) + S(a, 1, H) * S(b, 0, H)
OddDotted(op, a, high, b) ==
    CASE op \in {"cmpy", "cmpyr", "cmpyr1"} -> Dotpn2(a, b)
      [] op = "ddotp4" -> S(a, 1, H) * S(b, 3, B) + S(a, 0, H) * S(b, 2, B)
      [] op \in {"ddotph2", "ddotph2r"} -> Dotp2(high, b)
      [] op \in {"ddotpl2", "ddotpl2r"} -> Straddle(high, a, b)
EvenDotted(op, a, high, b) ==
    CASE op \in {"cmpy", "cmpyr", "cmpyr1"} -> Cross(a, b)
      [] op = "ddotp4" -> S(a, 1, H) * S(b, 1, B) + S(a, 0, H) * S(b, 0, B)
      [] op \in {"ddotph2", "ddotph2r"} -> Straddle(high, a, b)
      [] op \in {"ddotpl2", "ddotpl2r"} -> Dotp2(a, b)
RoundMsb16(v) == Sat(v + 2^(H - 1), N) \div 2^H
RoundShiftMsb16(v) == Sat(2 * (v + 2^(H - 2)), N) \div 2^H

(* SMPY32, MPY2IR and the halves by a word, rounded.                        *)
Smpy32(a, b) == Sat(2 * Sx(a, N) * Sx(b, N), 2 * N) \div 2^N
RoundedBy(half, b) == (half * Sx(b, N) + 2^(H - 2)) \div 2^(H - 1)

(* Only the low bits of an address change in a circular buffer.             *)
CircularAddress(base, result, width) ==
    IF width \in {0, N} THEN Low(result, N)
    ELSE base - Low(base, width) + Low(result, width)
=============================================================================
