---------------------------- MODULE CoSimProofs ----------------------------
(***************************************************************************)
(* Theorems about the co-simulation clock, for every quantum, length of an *)
(* instruction, bound of the clocks and number of frames.                  *)
(*                                                                         *)
(* First what Frames computes of a stream, then what one pass of the step  *)
(* does in numbers (PassDoes), then the types, then the invariant IInv and *)
(* one lemma for each kind of step that keeps it; last that the boards are *)
(* the wire of TimedLink: what Frames makes of a stream put together or    *)
(* cut, and one lemma for each kind of step of the wire.                   *)
(***************************************************************************)
EXTENDS CoSim, SequenceTheorems, WellFoundedInduction, TLAPS

Framed(m) == [due |-> m.promise + Quantum, n |-> m.n]

(* What a stream says does not go back at its frames. *)
Rising(s) ==
    \A i, j \in DOMAIN s : i <= j /\ s[j].type = "frame" => s[i].promise <= s[j].promise

InTimeOrder(q) == \A i, j \in DOMAIN q : i <= j => q[i].due <= q[j].due

(* A set of numbers that is not empty has a least one. *)
LEMMA LeastNumber ==
    ASSUME NEW T, T \subseteq Nat, T # {}
    PROVE  \E n \in T : \A m \in T : n <= m
<1> DEFINE R == {s \in Nat \X Nat : s[1] < s[2]}
<1>1. OpToRel(<, Nat) = R
  BY DEF OpToRel
<1>2. IsWellFoundedOn(R, Nat)
  BY <1>1, NatLessThanWellFounded
<1>3. \E n \in T : \A m \in T : ~(<<m, n>> \in R)
  <2> HIDE DEF R
  <2> QED
    BY <1>2, WFMin
<1>4. \A m, n \in Nat : m < n => <<m, n>> \in R
  OBVIOUS
<1> HIDE DEF R
<1>5. PICK n \in T : \A m \in T : ~(<<m, n>> \in R)
  BY <1>3
<1>6. ASSUME NEW m \in T
      PROVE  n <= m
  <2>1. n \in Nat /\ m \in Nat
    BY <1>5
  <2>2. ~(m < n)
    BY <1>4, <1>5, <2>1
  <2> QED
    BY <2>1, <2>2
<1> QED
  BY <1>6

(* Frames builds its sequence one message at a time: there is such a       *)
(* function, since there is one for every beginning of the stream, and it  *)
(* has the type, since a first place where it has not would follow one     *)
(* where it has.                                                           *)
LEMMA FramesBuilt ==
    ASSUME NEW s \in Seq(Msg)
    PROVE  \E f : /\ Frames(s) = f[Len(s)] /\ f[0] = <<>>
                  /\ \A i \in 0..Len(s) : f[i] \in Seq(DueFrame)
                  /\ \A i \in 1..Len(s) :
                        f[i] = IF s[i].type # "frame" THEN f[i - 1]
                               ELSE Append(f[i - 1], Framed(s[i]))
<1> DEFINE Frame(m) == [due |-> m.promise + Quantum, n |-> m.n]
           Body(g, i) == IF i = 0 THEN <<>>
                         ELSE IF s[i].type # "frame" THEN g[i - 1]
                         ELSE Append(g[i - 1], Frame(s[i]))
           Upto == CHOOSE g : g = [i \in 0..Len(s) |-> Body(g, i)]
           Begun(n) == \E g \in [0..n -> Seq(DueFrame)] : \A i \in 0..n : g[i] = Body(g, i)
<1>1. Frames(s) = Upto[Len(s)]
  BY DEF Frames
<1>2. ASSUME NEW i \in 1..Len(s)
      PROVE  Frame(s[i]) \in DueFrame
  <2>1. s[i] \in Msg
    OBVIOUS
  <2>2. s[i].promise \in Nat /\ s[i].n \in Nat
    BY <2>1 DEF Msg
  <2>3. Quantum \in Nat
    BY CoSimAssumption DEF Quantum
  <2> QED
    BY <2>2, <2>3 DEF DueFrame
<1>3. ASSUME NEW i \in 1..Len(s), NEW g, g[i - 1] \in Seq(DueFrame)
      PROVE  Body(g, i) \in Seq(DueFrame)
  BY <1>2, <1>3
<1> HIDE DEF Frame
<1>4. \A n \in 0..Len(s) : Begun(n)
  <2> DEFINE T == {n \in 0..Len(s) : ~Begun(n)}
  <2> SUFFICES ASSUME T # {} PROVE FALSE
    OBVIOUS
  <2> HIDE DEF Begun
  <2>0. T \subseteq Nat
    OBVIOUS
  <2>1. PICK n \in T : \A m \in T : n <= m
    <3> HIDE DEF T
    <3> QED
      BY <2>0, LeastNumber
  <2>2. n \in 0..Len(s) /\ ~Begun(n)
    BY <2>1
  <2>3. n # 0
    <3>1. Begun(0)
      <4> DEFINE g == [i \in 0..0 |-> <<>>]
      <4>1. g \in [0..0 -> Seq(DueFrame)] /\ \A i \in 0..0 : g[i] = Body(g, i)
        OBVIOUS
      <4> QED
        BY <4>1 DEF Begun
    <3> QED
      BY <2>2, <3>1
  <2>4. Begun(n - 1)
    <3>1. n - 1 \in 0..Len(s) /\ ~(n <= n - 1)
      BY <2>2, <2>3
    <3> QED
      BY <2>1, <3>1
  <2>5. PICK g \in [0..(n - 1) -> Seq(DueFrame)] : \A i \in 0..(n - 1) : g[i] = Body(g, i)
    BY <2>4 DEF Begun
  <2> DEFINE h == [i \in 0..n |-> IF i = n THEN Body(g, n) ELSE g[i]]
  <2>6. n \in 1..Len(s) /\ n - 1 \in 0..(n - 1) /\ n \in Nat
    BY <2>2, <2>3
  <2>7. Body(g, n) \in Seq(DueFrame)
    BY <1>3, <2>5, <2>6
  <2>8. h \in [0..n -> Seq(DueFrame)]
    <3>1. \A i \in 0..n : i # n => i \in 0..(n - 1)
      BY <2>6
    <3> HIDE DEF Body
    <3> QED
      BY <2>5, <2>7, <3>1
  <2>9. ASSUME NEW i \in 0..n
        PROVE  h[i] = Body(h, i)
    <3>1. CASE i = 0
      BY <2>3, <2>5, <2>6, <3>1
    <3>2. CASE i # 0
      <4>1. i - 1 \in 0..n /\ i - 1 # n
        BY <2>6, <3>2
      <4>2. h[i - 1] = g[i - 1]
        BY <4>1
      <4>3. Body(h, i) = Body(g, i)
        BY <3>2, <4>2
      <4>4. CASE i = n
        BY <4>3, <4>4
      <4>5. CASE i # n
        <5>1. i \in 0..(n - 1)
          BY <2>6, <4>5
        <5> QED
          BY <2>5, <4>3, <4>5, <5>1
      <4> QED
        BY <4>4, <4>5
    <3> QED
      BY <3>1, <3>2
  <2>10. Begun(n)
    BY <2>8, <2>9 DEF Begun
  <2> QED
    BY <2>2, <2>10
<1>5. PICK g \in [0..Len(s) -> Seq(DueFrame)] : \A i \in 0..Len(s) : g[i] = Body(g, i)
  <2>1. Len(s) \in 0..Len(s)
    OBVIOUS
  <2>2. Begun(Len(s))
    <3> HIDE DEF Begun
    <3> QED
      BY <1>4, <2>1
  <2> QED
    BY <2>2
<1>6. g = [i \in 0..Len(s) |-> Body(g, i)]
  BY <1>5, SMTT(40)
<1>7. Upto = [i \in 0..Len(s) |-> Body(Upto, i)]
  BY <1>6
<1> HIDE DEF Upto
<1>8. \A i \in 0..Len(s) : Upto[i] = Body(Upto, i)
  BY <1>7
<1>9. \A i \in 0..Len(s) : Upto[i] \in Seq(DueFrame)
  <2> DEFINE T == {n \in 0..Len(s) : Upto[n] \notin Seq(DueFrame)}
  <2> SUFFICES ASSUME T # {} PROVE FALSE
    OBVIOUS
  <2>0. T \subseteq Nat
    OBVIOUS
  <2>1. PICK n \in T : \A m \in T : n <= m
    <3> HIDE DEF T
    <3> QED
      BY <2>0, LeastNumber
  <2>2. n \in 0..Len(s) /\ Upto[n] \notin Seq(DueFrame)
    BY <2>1
  <2>3. n # 0
    <3>1. 0 \in 0..Len(s) /\ Body(Upto, 0) = <<>>
      OBVIOUS
    <3>2. Upto[0] = <<>>
      BY <1>8, <3>1
    <3>3. <<>> \in Seq(DueFrame)
      OBVIOUS
    <3>4. Upto[0] \in Seq(DueFrame)
      BY <3>2, <3>3
    <3> HIDE DEF T, Body
    <3> QED
      BY <2>2, <3>4, Zenon
  <2>4. n \in 1..Len(s) /\ n - 1 \in 0..Len(s) /\ ~(n <= n - 1)
    BY <2>2, <2>3
  <2>5. Upto[n - 1] \in Seq(DueFrame)
    BY <2>1, <2>4
  <2>6. Body(Upto, n) \in Seq(DueFrame)
    BY <1>3, <2>4, <2>5
  <2> QED
    BY <1>8, <2>2, <2>6
<1>10. Upto[0] = <<>> /\ \A i \in 1..Len(s) : Upto[i] = Body(Upto, i)
  <2>1. 0 \in 0..Len(s) /\ Body(Upto, 0) = <<>>
    OBVIOUS
  <2>2. \A i \in 1..Len(s) : i \in 0..Len(s)
    OBVIOUS
  <2> HIDE DEF Body
  <2> QED
    BY <1>8, <2>1, <2>2
<1>11. \A i \in 1..Len(s) :
          Upto[i] = IF s[i].type # "frame" THEN Upto[i - 1]
                    ELSE Append(Upto[i - 1], Framed(s[i]))
  <2>1. \A i \in 1..Len(s) : i # 0
    OBVIOUS
  <2>2. \A i \in 1..Len(s) : Frame(s[i]) = Framed(s[i])
    BY DEF Frame, Framed
  <2> QED
    BY <1>10, <2>1, <2>2
<1> QED
  BY <1>1, <1>9, <1>10, <1>11

(* Each frame of a stream comes from a message of it, one latency later,   *)
(* and their times rise as the stream's do.                                *)
LEMMA FramesOf ==
    ASSUME NEW s \in Seq(Msg)
    PROVE  /\ Frames(s) \in Seq(DueFrame)
           /\ \A p \in DOMAIN Frames(s) : \E j \in DOMAIN s :
                 s[j].type = "frame" /\ Frames(s)[p].due = s[j].promise + Quantum
           /\ Rising(s) => InTimeOrder(Frames(s))
<1>1. PICK f : /\ Frames(s) = f[Len(s)] /\ f[0] = <<>>
               /\ \A i \in 0..Len(s) : f[i] \in Seq(DueFrame)
               /\ \A i \in 1..Len(s) :
                     f[i] = IF s[i].type # "frame" THEN f[i - 1]
                            ELSE Append(f[i - 1], Framed(s[i]))
  BY FramesBuilt
<1> DEFINE From(i, p) == \E j \in 1..i :
                            s[j].type = "frame" /\ f[i][p].due = s[j].promise + Quantum
           Good(i) == /\ \A p \in DOMAIN f[i] : From(i, p)
                      /\ Rising(s) => InTimeOrder(f[i])
           T == {i \in 0..Len(s) : ~Good(i)}
<1>2. T = {}
  <2> SUFFICES ASSUME T # {} PROVE FALSE
    OBVIOUS
  <2>0. T \subseteq Nat
    OBVIOUS
  <2>1. PICK n \in T : \A m \in T : n <= m
    <3> HIDE DEF T
    <3> QED
      BY <2>0, LeastNumber
  <2>2. n \in 0..Len(s) /\ ~Good(n)
    BY <2>1
  <2>3. n # 0
    <3>1. Good(0)
      BY <1>1 DEF InTimeOrder
    <3> QED
      BY <2>2, <3>1
  <2>4. n \in 1..Len(s) /\ n - 1 \in 0..Len(s) /\ ~(n <= n - 1) /\ n - 1 \in Nat
    BY <2>2, <2>3
  <2>5. Good(n - 1)
    BY <2>1, <2>4
  <2>6. CASE s[n].type # "frame"
    <3>1. f[n] = f[n - 1]
      BY <1>1, <2>4, <2>6
    <3>2. \A p : From(n - 1, p) => From(n, p)
      BY <2>4, <3>1
    <3> QED
      BY <2>2, <2>5, <3>1, <3>2
  <2>7. CASE s[n].type = "frame"
    <3>1. f[n] = Append(f[n - 1], Framed(s[n])) /\ f[n - 1] \in Seq(DueFrame)
      BY <1>1, <2>4, <2>7
    <3>2. PICK l \in Nat : l = Len(f[n - 1])
      BY <3>1
    <3>3. /\ DOMAIN f[n] = 1..(l + 1) /\ DOMAIN f[n - 1] = 1..l
          /\ f[n][l + 1].due = s[n].promise + Quantum
          /\ \A p \in 1..l : f[n][p] = f[n - 1][p]
      BY <3>1, <3>2 DEF Framed
    <3>4. ASSUME NEW p \in DOMAIN f[n]
          PROVE  From(n, p)
      <4>1. CASE p = l + 1
        BY <2>4, <2>7, <3>3, <4>1
      <4>2. CASE p \in 1..l
        <5>1. PICK j \in 1..(n - 1) :
                 s[j].type = "frame" /\ f[n - 1][p].due = s[j].promise + Quantum
          BY <2>5, <3>3, <4>2
        <5>2. j \in 1..n
          BY <2>4
        <5> QED
          BY <3>3, <4>2, <5>1, <5>2
      <4> QED
        BY <3>2, <3>3, <4>1, <4>2
    <3>5. ASSUME Rising(s), NEW i \in DOMAIN f[n], NEW j \in DOMAIN f[n], i <= j
          PROVE  f[n][i].due <= f[n][j].due
      <4>1. CASE j \in 1..l
        <5>1. i \in 1..l
          BY <3>2, <3>3, <3>5, <4>1
        <5> QED
          BY <2>5, <3>3, <3>5, <4>1, <5>1 DEF InTimeOrder
      <4>2. CASE j = l + 1
        <5>1. PICK k \in 1..n : s[k].type = "frame" /\ f[n][i].due = s[k].promise + Quantum
          BY <3>4, <3>5
        <5>2. s[k].promise <= s[n].promise
          <6>1. k \in DOMAIN s /\ n \in DOMAIN s /\ k <= n
            BY <2>4, <5>1
          <6> QED
            BY <2>7, <3>5, <6>1 DEF Rising
        <5>3. s[k] \in Msg /\ s[n] \in Msg
          <6>1. k \in 1..Len(s) /\ n \in 1..Len(s)
            BY <2>4
          <6> QED
            BY <6>1
        <5>4. s[k].promise \in Int /\ s[n].promise \in Int /\ Quantum \in Int
          BY <5>3, CoSimAssumption, SMTT(20) DEF Msg, Quantum
        <5> QED
          BY <3>3, <4>2, <5>1, <5>2, <5>4, SMTT(20)
      <4> QED
        BY <3>2, <3>3, <3>5, <4>1, <4>2
    <3>6. Good(n)
      BY <3>4, <3>5 DEF InTimeOrder
    <3> QED
      BY <2>2, <3>6
  <2> QED
    BY <2>6, <2>7
<1>3. Len(s) \in 0..Len(s) /\ DOMAIN s = 1..Len(s)
  OBVIOUS
<1>4. Good(Len(s))
  BY <1>2, <1>3
<1> QED
  BY <1>1, <1>3, <1>4

-----------------------------------------------------------------------------
(* Steps of the guests: nothing but their own clock, stream and timer.     *)

(* A bound of Nat, and what Least and Most choose. *)
LEMMA Numbers ==
    /\ Half \in Nat \ {0} /\ Quantum \in Nat /\ Quantum = 2 * Half /\ Never \in Nat
    /\ MaxTime \in Nat /\ MaxNap \in Nat /\ MaxCycle \in Nat \ {0}
    /\ \A x, y \in Int : /\ Least(x, y) \in {x, y} /\ Least(x, y) <= x /\ Least(x, y) <= y
                         /\ Most(x, y) \in {x, y} /\ Most(x, y) >= x /\ Most(x, y) >= y
  BY CoSimAssumption DEF Quantum, Never, Least, Most

(* The time of the next step, among a stop, a horizon and a pace. *)
LEMMA Chosen ==
    ASSUME NEW t \in Nat, NEW x \in Nat, NEW y \in Nat, NEW z \in Nat, t + 1 <= x, t + 1 <= y
    PROVE  LET n == Most(t + 1, Least(x, Least(y, z)))
           IN  /\ n \in Nat /\ n > t /\ n <= y /\ n <= x /\ n <= Most(t + 1, z)
               /\ z <= x /\ z <= y => n >= z
  BY DEF Least, Most

(* A message joins the end of a stream, or is lost with its program. *)
LEMMA Sent ==
    ASSUME chan \in [Boards -> Seq(Msg)], NEW o \in Boards, NEW m \in Msg
    PROVE  /\ SendTo(o, m) \in [Boards -> Seq(Msg)]
           /\ \A b \in Boards \ {o} : SendTo(o, m)[b] = chan[b]
           /\ SendTo(o, m)[o] = chan[o] \/ SendTo(o, m)[o] = Append(chan[o], m)
  BY DEF SendTo

(* The beginning and the rest of a sequence. *)
LEMMA Cut ==
    ASSUME NEW S, NEW q \in Seq(S), NEW n \in 0..Len(q)
    PROVE  /\ SubSeq(q, 1, n) \in Seq(S) /\ Len(SubSeq(q, 1, n)) = n
           /\ \A i \in 1..n : SubSeq(q, 1, n)[i] = q[i]
           /\ SubSeq(q, n + 1, Len(q)) \in Seq(S)
           /\ Len(SubSeq(q, n + 1, Len(q))) = Len(q) - n
           /\ \A i \in 1..Len(q) - n : SubSeq(q, n + 1, Len(q))[i] = q[n + i]
<1>1. n \in Int /\ Len(q) \in Int /\ 1 \in Int /\ n + 1 \in Int /\ DOMAIN q = 1..Len(q)
  OBVIOUS
<1>2. \A i \in 1..Len(q) : q[i] \in S
  OBVIOUS
<1>3. (\A i \in 1..n : q[i] \in S) /\ \A i \in (n + 1)..Len(q) : q[i] \in S
  BY <1>1, <1>2
<1>4. /\ SubSeq(q, 1, n) \in Seq(S)
      /\ Len(SubSeq(q, 1, n)) = IF 1 <= n THEN n - 1 + 1 ELSE 0
      /\ \A i \in 1..n - 1 + 1 : SubSeq(q, 1, n)[i] = q[1 + i - 1]
  BY <1>1, <1>3, SubSeqProperties
<1>5. /\ SubSeq(q, n + 1, Len(q)) \in Seq(S)
      /\ Len(SubSeq(q, n + 1, Len(q))) = IF n + 1 <= Len(q) THEN Len(q) - (n + 1) + 1 ELSE 0
      /\ \A i \in 1..Len(q) - (n + 1) + 1 : SubSeq(q, n + 1, Len(q))[i] = q[n + 1 + i - 1]
  BY <1>1, <1>3, SubSeqProperties
<1>6. n - 1 + 1 = n /\ Len(q) - (n + 1) + 1 = Len(q) - n
      /\ \A i \in Int : 1 + i - 1 = i /\ n + 1 + i - 1 = n + i
  BY <1>1
<1>7. Len(SubSeq(q, 1, n)) = n /\ Len(SubSeq(q, n + 1, Len(q))) = Len(q) - n
  <2>1. PICK l \in Nat : l = Len(q)
    OBVIOUS
  <2>2. n \in 0..l
    BY <2>1
  <2>3. (IF 1 <= n THEN n - 1 + 1 ELSE 0) = n
    BY <2>2
  <2>4. (IF n + 1 <= l THEN l - (n + 1) + 1 ELSE 0) = l - n
    BY <2>2
  <2> QED
    BY <1>4, <1>5, <2>1, <2>3, <2>4
<1>8. \A i \in 1..n : i \in 1..n - 1 + 1 /\ q[1 + i - 1] = q[i]
  BY <1>1, <1>6
<1>9. \A i \in 1..Len(q) - n : i \in 1..Len(q) - (n + 1) + 1 /\ q[n + 1 + i - 1] = q[n + i]
  BY <1>1, <1>6
<1> QED
  BY <1>4, <1>5, <1>7, <1>8, <1>9

(* What is queued is in time order, and due before what the stream holds.  *)
QueueFirst(b) ==
    /\ InTimeOrder(due[b])
    /\ \A i \in DOMAIN due[b], j \in DOMAIN chan[b] :
          chan[b][j].type = "frame" => due[b][i].due <= chan[b][j].promise + Quantum

(* One queue in time order before another, and the end of one. *)
LEMMA Joined ==
    ASSUME NEW x \in Seq(DueFrame), NEW y \in Seq(DueFrame), InTimeOrder(x), InTimeOrder(y),
           \A i \in DOMAIN x, j \in DOMAIN y : x[i].due <= y[j].due
    PROVE  InTimeOrder(x \o y)
<1>1. PICK l \in Nat, m \in Nat : l = Len(x) /\ m = Len(y)
  <2>1. Len(x) \in Nat /\ Len(y) \in Nat
    OBVIOUS
  <2> QED
    BY <2>1
<1>2. PICK q : q = x \o y
  OBVIOUS
<1>3. /\ DOMAIN q = 1..(l + m) /\ DOMAIN x = 1..l /\ DOMAIN y = 1..m
      /\ \A i \in 1..l : q[i] = x[i]
      /\ \A i \in (l + 1)..(l + m) : i - l \in 1..m /\ q[i] = y[i - l]
  BY <1>1, <1>2
<1>4. ASSUME NEW i \in DOMAIN q, NEW j \in DOMAIN q, i <= j
      PROVE  q[i].due <= q[j].due
  <2>1. CASE j <= l
    <3>1. i \in 1..l /\ j \in 1..l
      BY <1>1, <1>3, <1>4, <2>1
    <3> QED
      BY <1>3, <1>4, <3>1 DEF InTimeOrder
  <2>2. CASE i > l
    <3>1. i \in (l + 1)..(l + m) /\ j \in (l + 1)..(l + m) /\ i - l <= j - l
      BY <1>1, <1>3, <1>4, <2>2
    <3> QED
      BY <1>3, <3>1, SMTT(20) DEF InTimeOrder
  <2>3. CASE i <= l /\ j > l
    <3>1. i \in 1..l /\ j \in (l + 1)..(l + m)
      BY <1>1, <1>3, <2>3
    <3> QED
      BY <1>3, <3>1
  <2> QED
    BY <1>1, <1>3, <2>1, <2>2, <2>3
<1> QED
  BY <1>2, <1>4 DEF InTimeOrder

(* The first pass or one turn of the waiting loop, in numbers: the promise *)
(* of the peer and the queue after it, ours, and where it leaves the       *)
(* board.  k messages have been read.                                      *)
PassDoes(b, k, promise, asleep) ==
    LET p == peerPromise'[b]
        d == due'[b]
        t == now[b]
    IN  /\ On(b) /\ UNCHANGED <<mode, attached, now, sent>>
        /\ pc[b] = "run" => t >= next[b]
        /\ k \in 0..Len(chan[b])
        (* what it reads *)
        /\ p >= peerPromise[b] /\ \A i \in 1..k : p >= chan[b][i].promise
        /\ p = peerPromise[b] \/ \E i \in 1..k : p = chan[b][i].promise
        /\ \A i \in DOMAIN d :
              \/ \E j \in DOMAIN due[b] : d[i].due = due[b][j].due
              \/ \E j \in 1..k : chan[b][j].type = "frame"
                                 /\ d[i].due = chan[b][j].promise + Quantum
        /\ Listening(b) /\ d # <<>> => d[1].due > t
        /\ Rising(chan[b]) /\ QueueFirst(b) => InTimeOrder(d)
        (* what it says *)
        /\ promise \in Nat /\ promise >= t
        /\ promise > t => /\ asleep /\ promise <= timer'[b] /\ promise <= p + Quantum
                          /\ Listening(b) /\ d # <<>> => promise <= d[1].due
        /\ asleep => ~awake'[b] \/ (b = "gui" /\ pc[b] = "wait" /\ parked)
        /\ promised'[b] \in {promise, promised[b]}
        /\ reported'[b] \in {now[b], reported[b]}
        /\ chan'[b] = SubSeq(chan[b], k + 1, Len(chan[b]))
        /\ \/ chan'[Other(b)] = chan[Other(b)]
           \/ promised'[b] = promise /\ chan'[Other(b)] = Append(chan[Other(b)], Time(promise))
        (* where it leaves the board *)
        /\ awake[b] => awake'[b]
        /\ b = "gui" => UNCHANGED guest /\ (parked' /\ pc'[b] = "wait" => asleep)
        /\ b = "main" => UNCHANGED parked
        /\ \/ t >= p + Quantum /\ pc'[b] = "wait"
           \/ /\ t < p + Quantum /\ pc'[b] = "run"
              /\ next'[b] > t /\ next'[b] >= promise
              /\ next'[b] <= p + Quantum
              /\ Listening(b) /\ d # <<>> => next'[b] <= d[1].due
              /\ \/ promise = t /\ next'[b] <= Most(t + 1, Most(reported[b], t) + Half)
                 \/ promise > t /\ next'[b] <= promise
        (* the other board *)
        /\ \A o \in Boards \ {b} :
              /\ UNCHANGED <<pc[o], next[o], reported[o], promised[o], peerPromise[o], due[o],
                             awake[o], timer[o]>>

(* The last part of Pass. *)
Rest(k, b, asleep, blocked, promise, report, told) ==
    LET rest == [chan EXCEPT ![b] = SubSeq(@, k + 1, Len(@))]
    IN  /\ chan' = IF report /\ mode[Other(b)] # "gone"
                   THEN [rest EXCEPT ![Other(b)] = Append(@, Time(promise))]
                   ELSE rest
        /\ reported' = [reported EXCEPT ![b] = told]
        /\ promised' = [promised EXCEPT ![b] = IF report THEN promise ELSE @]
        /\ pc' = [pc EXCEPT ![b] = IF blocked THEN "wait" ELSE "run"]
        /\ parked' = IF b = "gui" THEN blocked /\ asleep ELSE parked
        /\ next' = IF blocked THEN next
                   ELSE [next EXCEPT ![b] = NextStep(b, promise, told)]

(* A pass keeps the types and does what PassDoes says. *)
LEMMA PassTyped ==
    ASSUME TypeOK, NEW b \in Boards, Pass(b)
    PROVE  /\ TypeOK'
           /\ \E k \in Nat, promise \in Nat, asleep \in BOOLEAN : PassDoes(b, k, promise, asleep)
<1>1. PICK k \in 0..Len(chan[b]) :
          /\ IF pc[b] = "run" THEN now[b] >= next[b] ELSE k > 0
          /\ Drain(b, k)
          /\ \E asleep \in {Asleep(b)}, blocked \in {Blocked(b)'} :
             \E promise \in {Promise(b, asleep)} :
             \E report \in {MustReport(b, promise)} :
             \E told \in {IF report THEN Most(reported[b], now[b]) ELSE reported[b]} :
                Rest(k, b, asleep, blocked, promise, report, told)
  BY DEF Pass, Rest
<1>2. On(b) /\ UNCHANGED <<mode, attached, now, sent>>
  BY DEF Pass, life
<1>3. PICK asleep \in {Asleep(b)}, blocked \in {Blocked(b)'} :
         \E promise \in {Promise(b, asleep)} :
         \E report \in {MustReport(b, promise)} :
         \E told \in {IF report THEN Most(reported[b], now[b]) ELSE reported[b]} :
            Rest(k, b, asleep, blocked, promise, report, told)
  BY <1>1 DEF Rest
<1>31. PICK promise \in {Promise(b, asleep)} :
         \E report \in {MustReport(b, promise)} :
         \E told \in {IF report THEN Most(reported[b], now[b]) ELSE reported[b]} :
            Rest(k, b, asleep, blocked, promise, report, told)
  BY <1>3
<1>32. PICK report \in {MustReport(b, promise)} :
         \E told \in {IF report THEN Most(reported[b], now[b]) ELSE reported[b]} :
            Rest(k, b, asleep, blocked, promise, report, told)
  BY <1>31
<1>33. PICK told \in {IF report THEN Most(reported[b], now[b]) ELSE reported[b]} :
            Rest(k, b, asleep, blocked, promise, report, told)
  BY <1>32
<1>34. PICK rest : /\ rest = [chan EXCEPT ![b] = SubSeq(@, k + 1, Len(@))]
                   /\ chan' = IF report /\ mode[Other(b)] # "gone"
                             THEN [rest EXCEPT ![Other(b)] = Append(@, Time(promise))]
                             ELSE rest
  BY <1>33 DEF Rest
<1>4. PICK p : /\ p \in {peerPromise[b]} \cup {chan[b][i].promise : i \in 1..k}
               /\ \A r \in {peerPromise[b]} \cup {chan[b][i].promise : i \in 1..k} : r <= p
               /\ peerPromise' = [peerPromise EXCEPT ![b] = p]
  BY <1>1 DEF Drain
<1>5. PICK q : q = due[b] \o Frames(SubSeq(chan[b], 1, k)) /\ Handover(b, q)
  BY <1>1 DEF Drain
<1>6. PICK h \in 0..Len(q) :
        /\ h > 0 => Listening(b)
        /\ \A i \in 1..h : q[i].due <= now[b]
        /\ h < Len(q) /\ Listening(b) => q[h + 1].due > now[b]
        /\ due' = [due EXCEPT ![b] = SubSeq(q, h + 1, Len(q))]
        /\ IF b = "main" /\ (h > 0 \/ pc[b] = "run") THEN PumpRequests ELSE UNCHANGED guest
  BY <1>5 DEF Handover
(* The types of what it reads. *)
<1>7. /\ chan[b] \in Seq(Msg) /\ due[b] \in Seq(DueFrame) /\ now[b] \in Nat /\ next[b] \in Nat
      /\ reported[b] \in Nat /\ promised[b] \in Nat /\ peerPromise[b] \in Nat
      /\ timer[b] \in Nat /\ awake[b] \in BOOLEAN /\ parked \in BOOLEAN /\ attached \in BOOLEAN
  BY DEF TypeOK
<1>70. Other(b) \in Boards /\ Other(b) # b /\ \A o \in Boards \ {b} : o = Other(b)
  BY DEF Boards, Other
<1>8. ASSUME NEW i \in 1..k
      PROVE  i \in DOMAIN chan[b] /\ chan[b][i].promise \in Nat
  <2>1. i \in DOMAIN chan[b] /\ chan[b][i] \in Msg
    BY <1>7
  <2> QED
    BY <2>1 DEF Msg
<1>9. /\ p \in Nat /\ p >= peerPromise[b] /\ \A i \in 1..k : p >= chan[b][i].promise
      /\ p = peerPromise[b] \/ \E i \in 1..k : p = chan[b][i].promise
  BY <1>4, <1>7, <1>8
<1>10. PICK s \in Seq(Msg) : /\ s = SubSeq(chan[b], 1, k) /\ Len(s) = k
                /\ \A i \in 1..k : s[i] = chan[b][i]
  <2>1. /\ SubSeq(chan[b], 1, k) \in Seq(Msg) /\ Len(SubSeq(chan[b], 1, k)) = k
        /\ \A i \in 1..k : SubSeq(chan[b], 1, k)[i] = chan[b][i]
    BY <1>7, Cut
  <2> QED
    BY <2>1
<1>11. q = due[b] \o Frames(s) /\ Frames(s) \in Seq(DueFrame) /\ q \in Seq(DueFrame)
  <2>1. Frames(s) \in Seq(DueFrame)
    BY FramesOf
  <2>2. q = due[b] \o Frames(s)
    BY <1>5, <1>10
  <2> QED
    BY <1>7, <2>1, <2>2
<1>12. \A i \in DOMAIN q :
          \/ \E j \in DOMAIN due[b] : q[i].due = due[b][j].due
          \/ \E j \in 1..k : chan[b][j].type = "frame"
                             /\ q[i].due = chan[b][j].promise + Quantum
  <2>1. PICK l \in Nat, m \in Nat : l = Len(due[b]) /\ m = Len(Frames(s))
    <3>1. Len(due[b]) \in Nat /\ Len(Frames(s)) \in Nat
      BY <1>7, <1>11
    <3> QED
      BY <3>1
  <2>2. /\ DOMAIN q = 1..(l + m) /\ DOMAIN due[b] = 1..l /\ DOMAIN Frames(s) = 1..m
        /\ \A i \in 1..l : q[i] = due[b][i]
        /\ \A i \in (l + 1)..(l + m) : i - l \in 1..m /\ q[i] = Frames(s)[i - l]
    BY <1>7, <1>11, <2>1, SMTT(20)
  <2>3. \A r \in DOMAIN Frames(s) : \E j \in DOMAIN s :
           s[j].type = "frame" /\ Frames(s)[r].due = s[j].promise + Quantum
    BY <1>10, FramesOf
  <2>4. DOMAIN s = 1..k
    BY <1>10
  <2>5. ASSUME NEW i \in (l + 1)..(l + m)
        PROVE  \E j \in 1..k : chan[b][j].type = "frame"
                               /\ q[i].due = chan[b][j].promise + Quantum
    <3>1. PICK j \in DOMAIN s :
             s[j].type = "frame" /\ Frames(s)[i - l].due = s[j].promise + Quantum
      BY <2>2, <2>3
    <3> QED
      BY <1>10, <2>2, <2>4, <3>1
  <2>6. \A i \in DOMAIN q : i \in 1..l \/ i \in (l + 1)..(l + m)
    BY <2>1, <2>2
  <2> QED
    BY <2>2, <2>5, <2>6
<1>13. PICK d : d = SubSeq(q, h + 1, Len(q))
  OBVIOUS
<1>14. /\ d \in Seq(DueFrame)
       /\ d # <<>> => h < Len(q) /\ d[1] = q[h + 1]
       /\ \A i \in DOMAIN d : i + h \in DOMAIN q /\ d[i] = q[i + h]
       /\ d # <<>> => 1 \in DOMAIN d /\ d[1].due \in Nat
  <2>1. /\ d \in Seq(DueFrame) /\ Len(d) = Len(q) - h
        /\ \A i \in 1..Len(q) - h : d[i] = q[h + i]
    BY <1>11, <1>13, Cut
  <2>2. PICK l \in Nat : l = Len(q)
    BY <1>11
  <2>3. DOMAIN q = 1..l /\ DOMAIN d = 1..(l - h) /\ h \in 0..l
    BY <1>11, <2>1, <2>2
  <2>4. d # <<>> => l - h >= 1
    BY <2>1, <2>2
  <2>5. d # <<>> => h < l /\ d[1] = q[h + 1] /\ 1 \in DOMAIN d
    BY <2>1, <2>2, <2>3, <2>4
  <2>6. d # <<>> => d[1].due \in Nat
    <3>1. d # <<>> => d[1] \in DueFrame
      BY <2>1, <2>5
    <3> QED
      BY <3>1 DEF DueFrame
  <2>7. \A i \in DOMAIN d : i + h \in DOMAIN q /\ d[i] = q[i + h]
    BY <2>1, <2>2, <2>3
  <2> QED
    BY <2>1, <2>2, <2>5, <2>6, <2>7
<1>15. due'[b] = d /\ peerPromise'[b] = p
  BY <1>4, <1>6, <1>13 DEF TypeOK
<1>16. /\ awake' \in [Boards -> BOOLEAN] /\ timer' \in [Boards -> Nat]
       /\ awake[b] => awake'[b]
       /\ \A o \in Boards \ {b} : awake'[o] = awake[o] /\ timer'[o] = timer[o]
       /\ b = "gui" => UNCHANGED guest
  <2>1. CASE UNCHANGED guest
    BY <2>1 DEF guest, TypeOK
  <2>2. CASE b = "main" /\ PumpRequests
    <3>1. CASE WakeUp("main")
      BY <2>2, <3>1, Numbers DEF WakeUp, TypeOK, Boards
    <3>2. CASE UNCHANGED guest
      BY <2>1, <3>2
    <3>3. CASE /\ ~awake["main"]
               /\ \E e \in Naps("main") : timer' = [timer EXCEPT !["main"] = Least(@, e)]
               /\ UNCHANGED awake
      <4>1. PICK e \in Naps("main") : timer' = [timer EXCEPT !["main"] = Least(@, e)]
        BY <3>3
      <4>2. e \in Nat
        BY <1>7, <2>2, Numbers DEF Naps
      <4>3. Least(timer["main"], e) \in Nat
        BY <1>7, <2>2, <4>2 DEF Least
      <4> QED
        BY <2>2, <3>3, <4>1, <4>3 DEF TypeOK, Boards
    <3> QED
      BY <2>2, <3>1, <3>2, <3>3 DEF PumpRequests
  <2> QED
    BY <1>6, <2>1, <2>2
(* What it says. *)
<1>17. PICK e \in Nat : e = timer'[b]
  BY <1>16
<1>18. PICK x \in Nat : /\ x = HeadDue(b)'
                        /\ Listening(b) /\ d # <<>> => x = d[1].due
                        /\ x > now[b]
  <2>1. HeadDue(b)' = IF d # <<>> /\ Listening(b) THEN d[1].due ELSE Never
    BY <1>2, <1>14, <1>15 DEF HeadDue, Listening
  <2>2. Never > now[b]
    <3>1. now[b] <= MaxTime
      BY DEF TypeOK
    <3> QED
      BY <1>7, <3>1, Numbers DEF Never
  <2> QED
    BY <1>6, <1>14, <2>1, <2>2, Numbers
<1>19. /\ promise \in Nat /\ promise >= now[b]
       /\ promise > now[b] => asleep /\ promise <= e /\ promise <= x /\ promise <= p + Quantum
  <2>1. promise = IF ~asleep THEN now[b]
                  ELSE Most(now[b], Least(Deadline(b)', Least(x, p + Quantum)))
    BY <1>15, <1>18, <1>31 DEF Promise
  <2>2. Deadline(b)' \in {now[b], e}
    BY <1>2, <1>17 DEF Deadline
  <2> QED
    BY <1>7, <1>9, <2>1, <2>2, Numbers, SMTT(20) DEF Least, Most
<1>20. asleep => ~awake'[b] \/ (b = "gui" /\ pc[b] = "wait" /\ parked)
  BY <1>3, <1>7, <1>16 DEF Asleep, Boards, guest, TypeOK
<1>21. told \in {now[b], reported[b]} /\ told \in Nat /\ told <= Most(reported[b], now[b])
  BY <1>7, <1>33 DEF Most
<1>22. blocked = (now[b] >= p + Quantum)
  BY <1>2, <1>3, <1>15 DEF Blocked
(* Where it leaves the board. *)
<1>23. ~blocked => /\ next' = [next EXCEPT ![b] = NextStep(b, promise, told)]
                   /\ next'[b] \in Nat /\ next'[b] > now[b] /\ next'[b] >= promise
                   /\ next'[b] <= p + Quantum /\ next'[b] <= x
                   /\ \/ promise = now[b] /\ next'[b] <= Most(now[b] + 1, told + Half)
                      \/ promise > now[b] /\ next'[b] <= promise
  <2> SUFFICES ASSUME ~blocked
               PROVE  /\ next' = [next EXCEPT ![b] = NextStep(b, promise, told)]
                      /\ next'[b] \in Nat /\ next'[b] > now[b] /\ next'[b] >= promise
                      /\ next'[b] <= p + Quantum /\ next'[b] <= x
                      /\ \/ promise = now[b] /\ next'[b] <= Most(now[b] + 1, told + Half)
                         \/ promise > now[b] /\ next'[b] <= promise
    OBVIOUS
  <2>1. next' = [next EXCEPT ![b] = NextStep(b, promise, told)]
    BY <1>33 DEF Rest
  <2>2. PICK pace : pace = IF promise = now[b] THEN told + Half ELSE promise
    OBVIOUS
  <2>3. next'[b] = Most(now[b] + 1, Least(x, Least(p + Quantum, pace)))
    BY <1>15, <1>18, <2>1, <2>2 DEF NextStep, TypeOK
  <2>4. pace \in Nat
    BY <1>19, <1>21, <2>2, Numbers, SMTT(20)
  <2>5. now[b] + 1 <= p + Quantum /\ now[b] + 1 <= x
    <3>1. ~(now[b] >= p + Quantum)
      BY <1>22
    <3>2. Quantum \in Nat
      BY Numbers
    <3> QED
      BY <1>7, <1>9, <1>18, <3>1, <3>2
  <2>50. /\ next'[b] \in Nat /\ next'[b] > now[b]
         /\ next'[b] <= p + Quantum /\ next'[b] <= x
         /\ next'[b] <= Most(now[b] + 1, pace)
         /\ pace <= x /\ pace <= p + Quantum => next'[b] >= pace
    <3>1. PICK y \in Nat : y = p + Quantum
      BY <1>9, Numbers
    <3>2. PICK t \in Nat : t = now[b]
      BY <1>7
    <3>3. LET n == Most(t + 1, Least(x, Least(y, pace)))
          IN  /\ n \in Nat /\ n > t /\ n <= y /\ n <= x /\ n <= Most(t + 1, pace)
              /\ pace <= x /\ pace <= y => n >= pace
      BY <2>4, <2>5, <3>1, <3>2, Chosen
    <3> QED
      BY <2>3, <3>1, <3>2, <3>3
  <2>6. CASE promise = now[b]
    <3>1. pace = told + Half
      BY <2>2, <2>6
    <3>2. next'[b] >= promise
      BY <1>7, <2>6, <2>50
    <3> QED
      BY <2>1, <2>6, <2>50, <3>1, <3>2
  <2>7. CASE promise > now[b]
    <3>1. pace = promise
      BY <1>7, <1>19, <2>2, <2>7
    <3>2. next'[b] >= promise
      BY <1>19, <2>7, <2>50, <3>1
    <3>3. Most(now[b] + 1, pace) = pace
      BY <1>7, <1>19, <2>7, <3>1 DEF Most
    <3> QED
      BY <2>1, <2>7, <2>50, <3>1, <3>2, <3>3
  <2> QED
    BY <1>7, <1>19, <2>6, <2>7
<1>24. /\ chan' \in [Boards -> Seq(Msg)]
       /\ chan'[b] = SubSeq(chan[b], k + 1, Len(chan[b]))
       /\ \/ chan'[Other(b)] = chan[Other(b)]
          \/ report /\ chan'[Other(b)] = Append(chan[Other(b)], Time(promise))
  <2>1. SubSeq(chan[b], k + 1, Len(chan[b])) \in Seq(Msg)
    BY <1>7, Cut
  <2>2. rest \in [Boards -> Seq(Msg)] /\ rest[b] = SubSeq(chan[b], k + 1, Len(chan[b]))
        /\ rest[Other(b)] = chan[Other(b)]
    BY <1>34, <1>70, <2>1 DEF TypeOK
  <2>3. Time(promise) \in Msg
    BY <1>19 DEF Time, Msg
  <2>4. CASE report /\ mode[Other(b)] # "gone"
    <3>1. chan' = [rest EXCEPT ![Other(b)] = Append(@, Time(promise))]
      BY <1>34, <2>4
    <3> QED
      BY <1>70, <2>2, <2>3, <2>4, <3>1
  <2>5. CASE ~(report /\ mode[Other(b)] # "gone")
    BY <1>34, <2>2, <2>5
  <2> QED
    BY <2>4, <2>5
<1>25. /\ promised' = [promised EXCEPT ![b] = IF report THEN promise ELSE @]
       /\ reported' = [reported EXCEPT ![b] = told]
       /\ pc' = [pc EXCEPT ![b] = IF blocked THEN "wait" ELSE "run"]
       /\ parked' = IF b = "gui" THEN blocked /\ asleep ELSE parked
       /\ blocked => next' = next
  BY <1>33 DEF Rest
<1>26. asleep \in BOOLEAN /\ blocked \in BOOLEAN
  <2>1. /\ (~awake'["main"]) \in BOOLEAN /\ (~awake["gui"] /\ ~Ripe("gui")') \in BOOLEAN
        /\ parked \in BOOLEAN
    BY <1>7, Zenon
  <2>2. Asleep(b) \in BOOLEAN
    BY <2>1, Zenon DEF Asleep
  <2>3. asleep \in BOOLEAN
    BY <1>3, <2>2
  <2>4. (now[b] >= p + Quantum) \in BOOLEAN
    OBVIOUS
  <2> QED
    BY <1>22, <2>3, <2>4
<1>27. TypeOK'
  <2>1. mode' \in [Boards -> {"off", "on", "alone", "gone"}] /\ now' \in [Boards -> 0..MaxTime]
        /\ sent' \in [Boards -> Nat] /\ attached' \in BOOLEAN
    BY <1>2 DEF TypeOK
  <2>2. pc' \in [Boards -> {"run", "wait"}] /\ reported' \in [Boards -> Nat]
        /\ promised' \in [Boards -> Nat]
    BY <1>19, <1>21, <1>25 DEF TypeOK
  <2>3. parked' \in BOOLEAN
    BY <1>7, <1>25, <1>26
  <2>4. next' \in [Boards -> Nat]
    <3>1. CASE blocked
      BY <1>25, <3>1 DEF TypeOK
    <3>2. CASE ~blocked
      <4>1. next'[b] = NextStep(b, promise, told)
        BY <1>23, <3>2 DEF TypeOK
      <4>2. NextStep(b, promise, told) \in Nat
        BY <1>23, <3>2, <4>1
      <4> QED
        BY <1>23, <3>2, <4>2 DEF TypeOK
    <3> QED
      BY <1>26, <3>1, <3>2
  <2>5. peerPromise' \in [Boards -> Nat] /\ due' \in [Boards -> Seq(DueFrame)]
    <3>1. due' = [due EXCEPT ![b] = d]
      BY <1>6, <1>13
    <3>20. d \in Seq(DueFrame)
      BY <1>14
    <3>2. due' \in [Boards -> Seq(DueFrame)]
      BY <3>1, <3>20 DEF TypeOK
    <3>3. peerPromise' = [peerPromise EXCEPT ![b] = p] /\ p \in Nat
      BY <1>4, <1>9
    <3> QED
      BY <3>2, <3>3 DEF TypeOK
  <2> QED
    BY <1>16, <1>24, <2>1, <2>2, <2>3, <2>4, <2>5 DEF TypeOK
<1>28. PassDoes(b, k, promise, asleep)
  <2>1. /\ p >= peerPromise[b] /\ \A i \in 1..k : p >= chan[b][i].promise
        /\ p = peerPromise[b] \/ \E i \in 1..k : p = chan[b][i].promise
    BY <1>9
  <2>2. \A i \in DOMAIN d :
          \/ \E j \in DOMAIN due[b] : d[i].due = due[b][j].due
          \/ \E j \in 1..k : chan[b][j].type = "frame"
                             /\ d[i].due = chan[b][j].promise + Quantum
    BY <1>12, <1>14
  <2>3. Listening(b) /\ d # <<>> => d[1].due > now[b]
    BY <1>6, <1>14
  <2>4. promise > now[b] => /\ asleep /\ promise <= timer'[b] /\ promise <= p + Quantum
                            /\ Listening(b) /\ d # <<>> => promise <= d[1].due
    BY <1>17, <1>18, <1>19
  <2>5. promised'[b] \in {promise, promised[b]} /\ reported'[b] \in {now[b], reported[b]}
    BY <1>21, <1>25 DEF TypeOK
  <2>6. \/ chan'[Other(b)] = chan[Other(b)]
        \/ promised'[b] = promise /\ chan'[Other(b)] = Append(chan[Other(b)], Time(promise))
    BY <1>24, <1>25 DEF TypeOK
  <2>7. b = "gui" => UNCHANGED guest /\ (parked' /\ pc'[b] = "wait" => asleep)
    BY <1>16, <1>25
  <2>8. b = "main" => UNCHANGED parked
    BY <1>25
  <2>9. \/ now[b] >= p + Quantum /\ pc'[b] = "wait"
        \/ /\ now[b] < p + Quantum /\ pc'[b] = "run"
           /\ next'[b] > now[b] /\ next'[b] >= promise
           /\ next'[b] <= p + Quantum
           /\ Listening(b) /\ d # <<>> => next'[b] <= d[1].due
           /\ \/ promise = now[b] /\ next'[b] <= Most(now[b] + 1, Most(reported[b], now[b]) + Half)
              \/ promise > now[b] /\ next'[b] <= promise
    <3>1. CASE blocked
      BY <1>22, <1>25, <3>1 DEF TypeOK
    <3>2. CASE ~blocked
      <4>1. pc'[b] = "run" /\ now[b] < p + Quantum
        <5>1. pc'[b] = "run"
          BY <1>25, <3>2 DEF TypeOK
        <5>2. ~(now[b] >= p + Quantum)
          BY <1>22, <3>2
        <5>3. Quantum \in Nat
          BY Numbers
        <5> QED
          BY <1>7, <1>9, <5>1, <5>2, <5>3
      <4>2. PICK t \in Nat, u \in Nat, r \in Nat, hf \in Nat :
               t = now[b] /\ u = told /\ r = Most(reported[b], now[b]) /\ hf = Half
        <5>1. Half \in Nat /\ Most(reported[b], now[b]) \in Nat /\ now[b] \in Nat /\ told \in Nat
          BY <1>7, <1>21, Numbers DEF Most
        <5> QED
          BY <5>1
      <4>20. u <= r
        BY <1>21, <4>2
      <4>21. /\ Most(t + 1, u + hf) <= Most(t + 1, r + hf)
             /\ Most(t + 1, u + hf) \in Nat /\ Most(t + 1, r + hf) \in Nat
        BY <4>20 DEF Most
      <4>3. /\ Most(now[b] + 1, told + Half) <= Most(now[b] + 1, Most(reported[b], now[b]) + Half)
            /\ Most(now[b] + 1, told + Half) \in Nat
            /\ Most(now[b] + 1, Most(reported[b], now[b]) + Half) \in Nat
        BY <4>2, <4>21
      <4>4. Listening(b) /\ d # <<>> => next'[b] <= d[1].due
        BY <1>18, <1>23, <3>2
      <4>5. /\ next'[b] \in Nat /\ next'[b] > now[b] /\ next'[b] >= promise
            /\ next'[b] <= p + Quantum
            /\ \/ promise = now[b] /\ next'[b] <= Most(now[b] + 1, told + Half)
               \/ promise > now[b] /\ next'[b] <= promise
        BY <1>23, <3>2
      <4>6. next'[b] <= Most(now[b] + 1, told + Half)
            => next'[b] <= Most(now[b] + 1, Most(reported[b], now[b]) + Half)
        <5>1. PICK v \in Nat, w \in Nat :
                 /\ v = Most(now[b] + 1, told + Half)
                 /\ w = Most(now[b] + 1, Most(reported[b], now[b]) + Half)
          BY <4>3
        <5>2. v <= w
          BY <4>3, <5>1
        <5>3. next'[b] <= v => next'[b] <= w
          BY <4>5, <5>2
        <5> QED
          BY <5>1, <5>3
      <4> QED
        BY <4>1, <4>4, <4>5, <4>6
    <3> QED
      BY <1>26, <3>1, <3>2
  <2>10. \A o \in Boards \ {b} :
            UNCHANGED <<pc[o], next[o], reported[o], promised[o], peerPromise[o], due[o],
                        awake[o], timer[o]>>
    <3> SUFFICES ASSUME NEW o \in Boards \ {b}
                 PROVE  UNCHANGED <<pc[o], next[o], reported[o], promised[o], peerPromise[o],
                                    due[o], awake[o], timer[o]>>
      OBVIOUS
    <3>1. UNCHANGED <<pc[o], reported[o], promised[o], awake[o], timer[o]>>
      BY <1>16, <1>25 DEF TypeOK
    <3>2. UNCHANGED <<peerPromise[o], due[o]>>
      BY <1>4, <1>6 DEF TypeOK
    <3>3. UNCHANGED next[o]
      BY <1>23, <1>25, <1>26 DEF TypeOK
    <3> QED
      BY <3>1, <3>2, <3>3
  <2>11. pc[b] = "run" => now[b] >= next[b]
    BY <1>1
  <2>12. ASSUME Rising(chan[b]), QueueFirst(b)
         PROVE  InTimeOrder(d)
    <3>1. DOMAIN s = 1..k /\ \A i \in 1..k : i \in DOMAIN chan[b] /\ s[i] = chan[b][i]
      BY <1>8, <1>10
    <3>2. Rising(s)
      BY <2>12, <3>1 DEF Rising
    <3>3. InTimeOrder(Frames(s))
      BY <3>2, FramesOf
    <3>4. ASSUME NEW i \in DOMAIN due[b], NEW r \in DOMAIN Frames(s)
          PROVE  due[b][i].due <= Frames(s)[r].due
      <4>1. PICK j \in DOMAIN s :
               s[j].type = "frame" /\ Frames(s)[r].due = s[j].promise + Quantum
        BY FramesOf
      <4> QED
        BY <2>12, <3>1, <4>1 DEF QueueFirst
    <3>5. InTimeOrder(due[b] \o Frames(s))
      <4>1. InTimeOrder(due[b])
        BY <2>12 DEF QueueFirst
      <4>2. due[b] \in Seq(DueFrame) /\ Frames(s) \in Seq(DueFrame)
        BY <1>7, <1>11
      <4> QED
        BY <3>3, <3>4, <4>1, <4>2, Joined
    <3>6. InTimeOrder(q)
      BY <1>11, <3>5
    <3>7. ASSUME NEW i \in DOMAIN d, NEW j \in DOMAIN d, i <= j
          PROVE  d[i].due <= d[j].due
      <4>1. i \in Int /\ j \in Int /\ i + h <= j + h
        BY <1>14, <3>7, SMTT(20)
      <4> QED
        BY <1>14, <3>6, <4>1 DEF InTimeOrder
    <3> QED
      BY <3>7 DEF InTimeOrder
  <2> QED
    BY <1>2, <1>15, <1>16, <1>19, <1>20, <1>24, <2>1, <2>2, <2>3, <2>4, <2>5, <2>6, <2>7, <2>8,
       <2>9, <2>10, <2>11, <2>12 DEF PassDoes
<1> QED
  BY <1>19, <1>26, <1>27, <1>28

(* The guests' own steps and the ends of the programs keep the types. *)
LEMMA OthersTyped ==
    ASSUME TypeOK
    PROVE  /\ GuiConnect \/ MainAccept \/ AcceptTimeout \/ HostWake \/ AttachLink \/ RunsOn => TypeOK'
           /\ \A b \in Boards : Tick(b) \/ Doze(b) \/ TimerFires(b) \/ Lost(b) \/ Sleep(b)
                                 \/ Send(b) \/ Quit(b) => TypeOK'
<1>1. CASE GuiConnect
  BY <1>1, Sent DEF GuiConnect, TypeOK, Hello, Msg, Boards, clocks, words, guest
<1>2. CASE MainAccept
  BY <1>2, Sent DEF MainAccept, TypeOK, Hello, Msg, Boards, clocks, words, guest
<1>3. CASE AcceptTimeout
  BY <1>3 DEF AcceptTimeout, TypeOK, Boards, clocks, words, guest
<1>4. CASE HostWake
  BY <1>4, Numbers DEF HostWake, WakeUp, TypeOK, Boards, life, clocks, words, step
<1>5. CASE AttachLink
  <2>1. PICK k \in 0..Len(due["gui"]) : due' = [due EXCEPT !["gui"] = SubSeq(@, k + 1, Len(@))]
    BY <1>5 DEF AttachLink
  <2>2. "gui" \in Boards
    BY DEF Boards
  <2>3. due["gui"] \in Seq(DueFrame)
    BY <2>2 DEF TypeOK
  <2>4. SubSeq(due["gui"], k + 1, Len(due["gui"])) \in Seq(DueFrame)
    BY <2>3, Cut
  <2>5. due' \in [Boards -> Seq(DueFrame)]
    BY <2>1, <2>2, <2>4 DEF TypeOK
  <2> QED
    BY <1>5, <2>5 DEF AttachLink, TypeOK, clocks, words, guest, step
<1>6. CASE RunsOn
  <2>1. now' \in [Boards -> 0..MaxTime]
    <3>1. "main" \in Boards /\ MaxTime \in Nat /\ now["main"] < MaxTime
      BY <1>6, Numbers DEF Boards, RunsOn
    <3>2. now["main"] \in 0..MaxTime
      BY <3>1 DEF TypeOK
    <3>3. now["main"] + 1 \in 0..MaxTime
      BY <3>1, <3>2
    <3> QED
      BY <1>6, <3>1, <3>3 DEF RunsOn, TypeOK
  <2> QED
    BY <1>6, <2>1 DEF RunsOn, TypeOK, life, words, guest, step
<1>7. ASSUME NEW b \in Boards, Tick(b)
      PROVE  TypeOK'
  <2>1. PICK c \in Cycles(b) : now[b] + c <= MaxTime /\ now' = [now EXCEPT ![b] = @ + c]
    BY <1>7 DEF Tick
  <2>2. c \in Nat
    BY <2>1, Numbers DEF Cycles
  <2>3. now[b] + c \in 0..MaxTime
    BY <2>1, <2>2, Numbers DEF TypeOK
  <2>4. now' \in [Boards -> 0..MaxTime]
    BY <2>1, <2>3 DEF TypeOK
  <2> QED
    BY <1>7, <2>4 DEF Tick, TypeOK, life, words, guest, step
<1>8. ASSUME NEW b \in Boards, Doze(b)
      PROVE  TypeOK'
  <2>1. PICK target : /\ target = IF b = "gui" /\ timer[b] = Never THEN now[b] + 1 ELSE timer[b]
                      /\ now' = [now EXCEPT ![b] = Least(MaxTime, Least(next[b], target))]
    BY <1>8 DEF Doze
  <2>2. target \in Nat /\ next[b] \in Nat
    BY <2>1 DEF TypeOK
  <2>3. Least(MaxTime, Least(next[b], target)) \in 0..MaxTime
    BY <2>2, Numbers DEF Least
  <2>4. now' \in [Boards -> 0..MaxTime]
    BY <2>1, <2>3 DEF TypeOK
  <2> QED
    BY <1>8, <2>4 DEF Doze, TypeOK, life, words, guest, step
<1>9. ASSUME NEW b \in Boards, TimerFires(b)
      PROVE  TypeOK'
  BY <1>9, Numbers DEF TimerFires, WakeUp, TypeOK, life, clocks, words, step
<1>10. ASSUME NEW b \in Boards, Sleep(b)
       PROVE  TypeOK'
  <2>1. PICK d \in Naps(b) \cup {Never} : timer' = [timer EXCEPT ![b] = d]
    BY <1>10 DEF Sleep
  <2>2. d \in Nat
    BY <2>1, Numbers DEF Naps, TypeOK
  <2> QED
    BY <1>10, <2>1, <2>2 DEF Sleep, TypeOK, life, clocks, words, step
<1>11. ASSUME NEW b \in Boards, Send(b)
       PROVE  TypeOK'
  <2>1. now[b] \in Nat /\ sent[b] \in Nat /\ reported[b] \in Nat
    BY DEF TypeOK
  <2>2. FrameMsg(now[b], sent[b] + 1) \in Msg
    BY <2>1 DEF FrameMsg, Msg
  <2>3. Other(b) \in Boards
    BY DEF Other, Boards
  <2>4. chan' \in [Boards -> Seq(Msg)]
    BY <1>11, <2>2, <2>3, Sent DEF Send, TypeOK
  <2>5. sent' \in [Boards -> Nat] /\ reported' \in [Boards -> Nat]
    <3>1. sent[b] + 1 \in Nat /\ Most(reported[b], now[b]) \in Nat
      BY <2>1 DEF Most
    <3>2. sent' = [sent EXCEPT ![b] = @ + 1] /\ reported' = [reported EXCEPT ![b] = Most(@, now[b])]
      BY <1>11 DEF Send
    <3> QED
      BY <3>1, <3>2 DEF TypeOK
  <2> QED
    BY <1>11, <2>4, <2>5 DEF Send, TypeOK, life, clocks, guest, step
<1>12. ASSUME NEW b \in Boards, Quit(b) \/ Lost(b)
       PROVE  TypeOK'
  <2>1. Drop(b) /\ UNCHANGED <<clocks, words, peerPromise, guest, parked, attached>>
    BY <1>12 DEF Quit, Lost
  <2>2. mode' \in [Boards -> {"off", "on", "alone", "gone"}]
    BY <1>12 DEF Quit, Lost, TypeOK
  <2>3. /\ due' \in [Boards -> Seq(DueFrame)] /\ chan' \in [Boards -> Seq(Msg)]
        /\ pc' \in [Boards -> {"run", "wait"}]
    BY <2>1 DEF Drop, TypeOK
  <2> QED
    BY <2>1, <2>2, <2>3 DEF TypeOK, clocks, words, guest
<1> QED
  BY <1>1, <1>2, <1>3, <1>4, <1>5, <1>6, <1>7, <1>8, <1>9, <1>10, <1>11, <1>12

(* The types at the start. *)
LEMMA InitTyped == Init => TypeOK
<1>1. 0 \in 0..MaxTime /\ Half \in Nat /\ Never \in Nat
  BY Numbers
<1>2. <<>> \in Seq(DueFrame) /\ <<>> \in Seq(Msg)
  OBVIOUS
<1> SUFFICES ASSUME Init
             PROVE  TypeOK
  OBVIOUS
<1>3. /\ mode \in [Boards -> {"off", "on", "alone", "gone"}] /\ pc \in [Boards -> {"run", "wait"}]
      /\ now \in [Boards -> 0..MaxTime] /\ next \in [Boards -> Nat]
  BY <1>1 DEF Init
<1>4. /\ reported \in [Boards -> Nat] /\ promised \in [Boards -> Nat]
      /\ peerPromise \in [Boards -> Nat]
  BY <1>1 DEF Init
<1>5. due \in [Boards -> Seq(DueFrame)] /\ chan \in [Boards -> Seq(Msg)]
  BY <1>2 DEF Init
<1>6. /\ awake \in [Boards -> BOOLEAN] /\ timer \in [Boards -> Nat] /\ parked \in BOOLEAN
      /\ attached \in BOOLEAN /\ sent \in [Boards -> Nat]
  BY <1>1 DEF Init
<1> QED
  BY <1>3, <1>4, <1>5, <1>6 DEF TypeOK

(* Every step keeps the types. *)
LEMMA NextTyped == TypeOK /\ [Next]_vars => TypeOK'
<1>1. TypeOK /\ UNCHANGED vars => TypeOK'
  BY DEF TypeOK, vars
<1>2. TypeOK /\ Next => TypeOK'
  BY PassTyped, OthersTyped DEF Next, Progress
<1> QED
  BY <1>1, <1>2

(* Every variable keeps its type, in every run of the two boards. *)
THEOREM BoardsTyped == Spec => []TypeOK
  BY InitTyped, NextTyped, PTL DEF Spec

-----------------------------------------------------------------------------
Linked(b) == mode[b] \in {"off", "on"}

(* What a board's clock and its last promise say: nothing before this. *)
Says(a) == Most(now[a], promised[a])

(* A board does not outrun its own word, nor what it waits for. *)
Kept(b) ==
    /\ reported[b] <= now[b]
    /\ awake[b] \/ pc[b] = "wait" => promised[b] <= now[b]
    /\ promised[b] <= Most(now[b], next[b])
    /\ promised[b] <= Most(now[b], timer[b])

(* What a board has been told, or is about to read, is true of the other. *)
Believed(b) ==
    /\ peerPromise[b] <= Says(Other(b))
    /\ \A i \in DOMAIN chan[b] : /\ chan[b][i].promise <= Says(Other(b))
                                 /\ chan[b][i].type = "frame" => peerPromise[b] <= chan[b][i].promise
    /\ Rising(chan[b])

Queued(b) ==
    /\ \A i \in DOMAIN due[b] : due[b][i].due <= peerPromise[b] + Quantum
    /\ InTimeOrder(due[b])

Paced(b) ==
    /\ now[b] <= peerPromise[b] + Quantum + Slack(b)
    /\ pc[b] = "run" => next[b] <= peerPromise[b] + Quantum
    /\ Listening(b) => \A i \in DOMAIN due[b] :
          /\ now[b] <= due[b][i].due + Held(b) + Slack(b)
          /\ pc[b] = "run" => next[b] <= due[b][i].due + Held(b)

GuiSteps ==
    /\ pc["gui"] = "run" => \/ next["gui"] <= now["gui"] + Half
                            \/ ~awake["gui"] /\ next["gui"] <= timer["gui"]
    /\ parked /\ pc["gui"] = "wait" => ~awake["gui"]

(* What is true of one board, and of a board and what comes to it.          *)
Own(b) ==
    /\ Kept(b)
    /\ Queued(b)
    /\ Linked(b) => Paced(b)
    /\ b = "gui" /\ Linked(b) => GuiSteps

IInv == TypeOK /\ \A b \in Boards : Own(b) /\ Believed(b)

(* What a board's own part of the invariant is about. *)
ofBoard(b) == <<mode[b], pc[b], now[b], next[b], reported[b], promised[b], peerPromise[b],
                due[b], awake[b], timer[b]>>

(* The constants are numbers. *)
LEMMA Sizes ==
    /\ Half \in Nat /\ Half >= 1 /\ Quantum \in Nat /\ Quantum = 2 * Half /\ Never \in Nat
    /\ MaxTime \in Nat /\ \A b \in Boards : Slack(b) \in Nat /\ Held(b) \in Nat
  BY CoSimAssumption DEF Quantum, Never, Slack, Held

(* The types of one board's variables, and who the other board is. *)
LEMMA Typed ==
    ASSUME TypeOK, NEW b \in Boards
    PROVE  /\ now[b] \in Nat /\ now[b] <= MaxTime /\ next[b] \in Nat /\ reported[b] \in Nat
           /\ promised[b] \in Nat /\ peerPromise[b] \in Nat /\ timer[b] \in Nat
           /\ due[b] \in Seq(DueFrame) /\ \A i \in DOMAIN due[b] : due[b][i].due \in Nat
           /\ chan[b] \in Seq(Msg) /\ \A i \in DOMAIN chan[b] : chan[b][i].promise \in Nat
           /\ awake[b] \in BOOLEAN /\ Other(b) \in Boards /\ Other(b) # b
           /\ Other(Other(b)) = b /\ \A o \in Boards : o = b \/ o = Other(b)
           /\ DOMAIN due[b] = 1..Len(due[b]) /\ DOMAIN chan[b] = 1..Len(chan[b])
           /\ mode[b] \in {"off", "on", "alone", "gone"} /\ pc[b] \in {"run", "wait"}
<1>1. due[b] \in Seq(DueFrame) /\ chan[b] \in Seq(Msg)
  BY DEF TypeOK
<1>2. ASSUME NEW i \in DOMAIN due[b]
      PROVE  due[b][i].due \in Nat
  <2>1. due[b][i] \in DueFrame
    BY <1>1
  <2> QED
    BY <2>1 DEF DueFrame
<1>3. ASSUME NEW i \in DOMAIN chan[b]
      PROVE  chan[b][i].promise \in Nat
  <2>1. chan[b][i] \in Msg
    BY <1>1
  <2> QED
    BY <2>1 DEF Msg
<1>4. /\ now[b] \in Nat /\ now[b] <= MaxTime /\ next[b] \in Nat /\ reported[b] \in Nat
      /\ promised[b] \in Nat /\ peerPromise[b] \in Nat /\ timer[b] \in Nat
      /\ awake[b] \in BOOLEAN
      /\ mode[b] \in {"off", "on", "alone", "gone"} /\ pc[b] \in {"run", "wait"}
  BY Sizes DEF TypeOK
<1>5. /\ Other(b) \in Boards /\ Other(b) # b
      /\ Other(Other(b)) = b /\ \A o \in Boards : o = b \/ o = Other(b)
  BY DEF Other, Boards
<1>6. DOMAIN due[b] = 1..Len(due[b]) /\ DOMAIN chan[b] = 1..Len(chan[b])
  BY <1>1
<1> QED
  BY <1>1, <1>2, <1>3, <1>4, <1>5, <1>6

(* A step that leaves a board alone. *)
LEMMA OwnStable ==
    ASSUME NEW b \in Boards, Own(b), UNCHANGED ofBoard(b),
           b = "gui" => UNCHANGED <<parked, attached>>
    PROVE  Own(b)'
<1>1. UNCHANGED <<mode[b], pc[b], now[b], next[b], reported[b], promised[b], peerPromise[b],
                  due[b], awake[b], timer[b]>>
  BY DEF ofBoard
<1>2. Kept(b)' /\ Queued(b)'
  BY <1>1 DEF Own, Kept, Queued
<1>3. (Linked(b)' <=> Linked(b)) /\ (Listening(b)' <=> Listening(b))
  <2>1. Linked(b)' <=> Linked(b)
    BY <1>1 DEF Linked
  <2>2. b = "main" \/ b = "gui"
    BY DEF Boards
  <2>3. Listening(b)' <=> Listening(b)
    <3>1. CASE b = "main"
      BY <3>1 DEF Listening
    <3>2. CASE b = "gui"
      <4>1. attached' = attached
        BY <3>2
      <4> QED
        BY <4>1 DEF Listening
    <3> QED
      BY <2>2, <3>1, <3>2
  <2> QED
    BY <2>1, <2>3
<1>4. Paced(b) => Paced(b)'
  BY <1>1, <1>3 DEF Paced
<1>5. b = "gui" /\ GuiSteps => GuiSteps'
  BY <1>1 DEF GuiSteps
<1> QED
  BY <1>2, <1>3, <1>4, <1>5 DEF Own

(* A clock moves on, as far as the next step, or one instruction past it. *)
LEMMA OwnAhead ==
    ASSUME TypeOK, NEW b \in Boards, Own(b), NEW n \in Nat, now'[b] = n, n >= now[b],
           Linked(b) => pc[b] = "run" /\ n <= next[b] + Slack(b),
           UNCHANGED <<mode[b], pc[b], next[b], reported[b], promised[b], peerPromise[b],
                       due[b], awake[b], timer[b], parked, attached>>
    PROVE  Own(b)'
<1>1. (Linked(b)' <=> Linked(b)) /\ (Listening(b)' <=> Listening(b))
  BY DEF Linked, Listening
<1>2. Kept(b)'
  <2>1. Kept(b)
    BY DEF Own
  <2>2. reported[b] <= n /\ (awake[b] \/ pc[b] = "wait" => promised[b] <= n)
    BY <2>1, Typed DEF Kept
  <2>3. promised[b] <= Most(n, next[b]) /\ promised[b] <= Most(n, timer[b])
    BY <2>1, Typed DEF Kept, Most
  <2> QED
    BY <2>2, <2>3 DEF Kept
<1>3. Queued(b)'
  BY DEF Own, Queued
<1>4. (Paced(b)' /\ (b = "gui" => GuiSteps')) \/ ~Linked(b)
  <2> SUFFICES ASSUME Linked(b)
               PROVE  Paced(b)' /\ (b = "gui" => GuiSteps')
    OBVIOUS
  <2>1. Paced(b) /\ (b = "gui" => GuiSteps)
    BY DEF Own
  <2>2. n <= peerPromise[b] + Quantum + Slack(b)
    BY <2>1, Typed, Sizes, SMTT(20) DEF Paced
  <2>3. ASSUME Listening(b), NEW i \in DOMAIN due[b]
        PROVE  n <= due[b][i].due + Held(b) + Slack(b)
    <3>1. next[b] <= due[b][i].due + Held(b) /\ n <= next[b] + Slack(b)
      BY <2>1, <2>3 DEF Paced
    <3>2. due[b][i].due \in Nat /\ Held(b) \in Nat /\ Slack(b) \in Nat /\ next[b] \in Nat
      BY Typed, Sizes
    <3> QED
      BY <3>1, <3>2
  <2>4. Paced(b)'
    BY <1>1, <2>1, <2>2, <2>3 DEF Paced
  <2>5. b = "gui" => GuiSteps'
    <3>1. next[b] \in Nat /\ now[b] \in Nat /\ Half \in Nat
      BY Typed, Sizes
    <3>2. next[b] <= now[b] + Half => next[b] <= n + Half
      BY <3>1
    <3> QED
      BY <2>1, <3>2 DEF GuiSteps
  <2> QED
    BY <2>4, <2>5
<1> QED
  BY <1>1, <1>2, <1>3, <1>4 DEF Own

(* Of what comes to a board: nothing new, and the other says no less. *)
LEMMA BelievedStable ==
    ASSUME TypeOK, TypeOK', NEW b \in Boards, Believed(b), Says(Other(b))' >= Says(Other(b)),
           chan'[b] = chan[b] \/ chan'[b] = <<>>, peerPromise'[b] = peerPromise[b]
    PROVE  Believed(b)'
<1>1. Says(Other(b)) \in Nat /\ Says(Other(b))' \in Nat
  <2>1. Other(b) \in Boards
    BY Typed
  <2>2. /\ now[Other(b)] \in Nat /\ promised[Other(b)] \in Nat
        /\ now'[Other(b)] \in Nat /\ promised'[Other(b)] \in Nat
    BY <2>1 DEF TypeOK
  <2> QED
    BY <2>2 DEF Says, Most
<1>2. peerPromise'[b] <= Says(Other(b))'
  BY <1>1, Typed DEF Believed
<1>3. CASE chan'[b] = <<>>
  BY <1>2, <1>3 DEF Believed, Rising
<1>4. CASE chan'[b] = chan[b]
  <2>1. ASSUME NEW i \in DOMAIN chan[b]
        PROVE  chan[b][i].promise <= Says(Other(b))'
    <3>1. chan[b][i].promise \in Nat /\ chan[b][i].promise <= Says(Other(b))
      BY Typed DEF Believed
    <3> QED
      BY <1>1, <3>1
  <2>2. Rising(chan[b])' /\ \A i \in DOMAIN chan[b] :
           chan[b][i].type = "frame" => peerPromise'[b] <= chan[b][i].promise
    BY <1>4 DEF Believed, Rising
  <2> QED
    BY <1>2, <1>4, <2>1, <2>2 DEF Believed
<1> QED
  BY <1>3, <1>4

(* Of what comes to a board: one message more, that the other means. *)
LEMMA BelievedMore ==
    ASSUME TypeOK, TypeOK', NEW b \in Boards, Believed(b), Says(Other(b))' >= Says(Other(b)),
           NEW m \in Msg, chan'[b] = Append(chan[b], m), peerPromise'[b] = peerPromise[b],
           m.promise <= Says(Other(b))', m.type = "frame" => m.promise >= Says(Other(b))
    PROVE  Believed(b)'
<1>1. Says(Other(b)) \in Nat /\ Says(Other(b))' \in Nat /\ m.promise \in Nat
  <2>1. Other(b) \in Boards
    BY Typed
  <2>2. /\ now[Other(b)] \in Nat /\ promised[Other(b)] \in Nat
        /\ now'[Other(b)] \in Nat /\ promised'[Other(b)] \in Nat
    BY <2>1 DEF TypeOK
  <2>3. m.promise \in Nat
    BY DEF Msg
  <2> QED
    BY <2>2, <2>3 DEF Says, Most
<1>2. PICK l \in Nat : l = Len(chan[b])
  <2>1. Len(chan[b]) \in Nat
    BY Typed
  <2> QED
    BY <2>1
<1>3. /\ DOMAIN chan[b] = 1..l /\ DOMAIN chan'[b] = 1..(l + 1)
      /\ \A i \in 1..l : chan'[b][i] = chan[b][i]
      /\ chan'[b][l + 1] = m
  <2>1. chan[b] \in Seq(Msg)
    BY Typed
  <2> QED
    BY <1>2, <2>1
<1>4. \A i \in 1..(l + 1) : i \in 1..l \/ i = l + 1
  BY <1>2
<1>5. ASSUME NEW i \in 1..l
      PROVE  /\ chan[b][i].promise \in Nat /\ chan[b][i].promise <= Says(Other(b))
             /\ chan[b][i].type = "frame" => peerPromise[b] <= chan[b][i].promise
  <2>1. i \in DOMAIN chan[b]
    BY <1>3
  <2> QED
    BY <2>1, Typed DEF Believed
<1>6. peerPromise[b] \in Nat /\ peerPromise[b] <= Says(Other(b))
  BY Typed DEF Believed
<1>7. ASSUME NEW i \in 1..(l + 1)
      PROVE  /\ chan'[b][i].promise <= Says(Other(b))'
             /\ chan'[b][i].type = "frame" => peerPromise[b] <= chan'[b][i].promise
  <2>1. CASE i \in 1..l
    <3>1. chan'[b][i] = chan[b][i]
      BY <1>3, <2>1
    <3> QED
      BY <1>1, <1>5, <2>1, <3>1
  <2>2. CASE i = l + 1
    <3>1. chan'[b][i] = m
      BY <1>3, <2>2
    <3> QED
      BY <1>1, <1>6, <3>1
  <2> QED
    BY <1>4, <2>1, <2>2
<1>8. ASSUME NEW i \in 1..(l + 1), NEW j \in 1..(l + 1), i <= j, chan'[b][j].type = "frame"
      PROVE  chan'[b][i].promise <= chan'[b][j].promise
  <2>1. CASE j \in 1..l
    <3>1. i \in 1..l
      BY <1>2, <1>8, <2>1
    <3> QED
      BY <1>3, <1>8, <2>1, <3>1 DEF Believed, Rising
  <2>2. CASE j = l + 1
    <3>1. chan'[b][j] = m
      BY <1>3, <2>2
    <3>2. CASE i = l + 1
      BY <1>1, <1>3, <3>1, <3>2
    <3>3. CASE i \in 1..l
      <4>1. chan'[b][i].promise <= Says(Other(b)) /\ chan'[b][i].promise \in Nat
        BY <1>3, <1>5, <3>3
      <4>2. m.type = "frame"
        BY <1>8, <3>1
      <4>3. m.promise >= Says(Other(b)) /\ m.promise \in Nat /\ Says(Other(b)) \in Nat
        BY <1>1, <4>2
      <4>4. chan'[b][i].promise <= m.promise
        <5>1. PICK x \in Nat, y \in Nat, z \in Nat :
                 x = chan'[b][i].promise /\ y = Says(Other(b)) /\ z = m.promise
          BY <4>1, <4>3
        <5>2. x <= y /\ y <= z
          BY <4>1, <4>3, <5>1
        <5>3. x <= z
          BY <5>2
        <5> QED
          BY <5>1, <5>3
      <4> QED
        BY <3>1, <4>4
    <3> QED
      BY <1>4, <3>2, <3>3
  <2> QED
    BY <1>4, <2>1, <2>2
<1>9. Rising(chan[b])'
  BY <1>3, <1>8 DEF Rising
<1>10. peerPromise'[b] <= Says(Other(b))'
  BY <1>1, <1>6
<1> QED
  BY <1>3, <1>7, <1>9, <1>10 DEF Believed

(* A pass keeps the invariant, of the board that makes it and of the other. *)
LEMMA PassKeeps ==
    ASSUME IInv, NEW b \in Boards, Pass(b)
    PROVE  IInv'
<1>1. TypeOK /\ TypeOK'
  BY PassTyped DEF IInv
<1>2. PICK k \in Nat, promise \in Nat, asleep \in BOOLEAN : PassDoes(b, k, promise, asleep)
  BY <1>1, PassTyped
<1>3. Own(b) /\ Believed(b) /\ Own(Other(b)) /\ Believed(Other(b))
  BY <1>1, Typed DEF IInv
<1>4. PICK o \in Boards \ {b} : o = Other(b) /\ b = Other(o) /\ \A a \in Boards : a = b \/ a = o
  BY <1>1, Typed
<1>5. /\ now[b] \in Nat /\ next[b] \in Nat /\ reported[b] \in Nat /\ promised[b] \in Nat
      /\ peerPromise[b] \in Nat /\ timer[b] \in Nat
  BY <1>1, Typed
<1>6. /\ next'[b] \in Nat /\ reported'[b] \in Nat /\ promised'[b] \in Nat
      /\ peerPromise'[b] \in Nat /\ timer'[b] \in Nat
      /\ due'[b] \in Seq(DueFrame) /\ chan'[b] \in Seq(Msg)
  BY <1>1 DEF TypeOK
<1>7. On(b) /\ Linked(b) /\ UNCHANGED <<mode, attached, now, sent>>
  BY <1>2 DEF PassDoes, On, Linked
(* It had kept its word: it may give it anew. *)
<1>8. promised[b] <= now[b] /\ reported[b] <= now[b]
  <2>1. Kept(b)
    BY <1>3 DEF Own
  <2>2. pc[b] = "run" => now[b] >= next[b]
    BY <1>2 DEF PassDoes
  <2>3. pc[b] \in {"run", "wait"}
    BY <1>1, Typed
  <2> QED
    BY <1>5, <2>1, <2>2, <2>3 DEF Kept, Most
<1>9. promise >= now[b] /\ promised'[b] \in {promise, promised[b]}
      /\ reported'[b] \in {now[b], reported[b]}
  BY <1>2 DEF PassDoes
<1>10. promise > now[b] =>
         /\ asleep /\ promise <= timer'[b] /\ promise <= peerPromise'[b] + Quantum
  BY <1>2 DEF PassDoes
<1>11. asleep => ~awake'[b]
  <2>1. asleep => ~awake'[b] \/ (b = "gui" /\ pc[b] = "wait" /\ parked)
    BY <1>2 DEF PassDoes
  <2>2. CASE b = "gui" /\ pc[b] = "wait" /\ parked
    <3>1. ~awake["gui"]
      BY <1>3, <1>7, <2>2 DEF Own, GuiSteps
    <3>2. UNCHANGED guest
      BY <1>2, <2>2 DEF PassDoes
    <3> QED
      BY <2>2, <3>1, <3>2 DEF guest
  <2> QED
    BY <2>1, <2>2
<1>12. \/ now[b] >= peerPromise'[b] + Quantum /\ pc'[b] = "wait"
       \/ /\ pc'[b] = "run"
          /\ next'[b] > now[b] /\ next'[b] >= promise
          /\ next'[b] <= peerPromise'[b] + Quantum
          /\ Listening(b) /\ due'[b] # <<>> => next'[b] <= due'[b][1].due
          /\ \/ /\ promise = now[b]
                /\ next'[b] <= Most(now[b] + 1, Most(reported[b], now[b]) + Half)
             \/ promise > now[b] /\ next'[b] <= promise
  BY <1>2 DEF PassDoes
<1>13. /\ peerPromise'[b] >= peerPromise[b]
       /\ \A i \in 1..k : peerPromise'[b] >= chan[b][i].promise
       /\ peerPromise'[b] = peerPromise[b] \/ \E i \in 1..k : peerPromise'[b] = chan[b][i].promise
  BY <1>2 DEF PassDoes
<1>14. k \in 0..Len(chan[b]) /\ \A i \in 1..k : i \in DOMAIN chan[b] /\ chan[b][i].promise \in Nat
  <2>1. k \in 0..Len(chan[b])
    BY <1>2 DEF PassDoes
  <2>2. DOMAIN chan[b] = 1..Len(chan[b]) /\ Len(chan[b]) \in Nat
    BY <1>1, Typed
  <2>3. \A i \in 1..k : i \in DOMAIN chan[b]
    BY <2>1, <2>2
  <2> QED
    BY <1>1, <2>1, <2>3, Typed
(* Its word. *)
<1>15. Kept(b)'
  <2>1. promise > now[b] => ~awake'[b] /\ pc'[b] = "run"
    <3>1. Quantum \in Nat
      BY Sizes
    <3>2. promise > now[b] => ~(now[b] >= peerPromise'[b] + Quantum)
      BY <1>5, <1>6, <1>10, <3>1
    <3> QED
      BY <1>10, <1>11, <1>12, <3>2
  <2>2. awake'[b] \/ pc'[b] = "wait" => promised'[b] <= now[b]
    BY <1>5, <1>8, <1>9, <2>1
  <2>3. promised'[b] <= Most(now[b], next'[b])
    <3>1. promise > now[b] => next'[b] >= promise
      BY <1>12, <2>1
    <3> QED
      BY <1>5, <1>6, <1>8, <1>9, <3>1 DEF Most
  <2>4. promised'[b] <= Most(now[b], timer'[b])
    BY <1>5, <1>6, <1>8, <1>9, <1>10 DEF Most
  <2>5. reported'[b] <= now[b]
    BY <1>5, <1>8, <1>9
  <2> QED
    BY <1>7, <2>2, <2>3, <2>4, <2>5 DEF Kept
(* Its queue. *)
<1>16. Queued(b)'
  <2>1. ASSUME NEW i \in DOMAIN due'[b]
        PROVE  due'[b][i].due <= peerPromise'[b] + Quantum
    <3>1. \/ \E j \in DOMAIN due[b] : due'[b][i].due = due[b][j].due
          \/ \E j \in 1..k : due'[b][i].due = chan[b][j].promise + Quantum
      BY <1>2 DEF PassDoes
    <3>2. Quantum \in Nat
      BY Sizes
    <3>3. ASSUME NEW j \in DOMAIN due[b], due'[b][i].due = due[b][j].due
          PROVE  due'[b][i].due <= peerPromise'[b] + Quantum
      <4>1. due[b][j].due \in Nat
        BY <1>1, Typed
      <4>2. due[b][j].due <= peerPromise[b] + Quantum
        BY <1>3 DEF Own, Queued
      <4> QED
        BY <1>5, <1>6, <1>13, <3>2, <3>3, <4>1, <4>2
    <3>4. ASSUME NEW j \in 1..k, due'[b][i].due = chan[b][j].promise + Quantum
          PROVE  due'[b][i].due <= peerPromise'[b] + Quantum
      BY <1>6, <1>13, <1>14, <3>2, <3>4, SMTT(20)
    <3> QED
      BY <3>1, <3>3, <3>4
  <2>2. QueueFirst(b)
    <3>1. ASSUME NEW i \in DOMAIN due[b], NEW j \in DOMAIN chan[b], chan[b][j].type = "frame"
          PROVE  due[b][i].due <= chan[b][j].promise + Quantum
      <4>1. due[b][i].due \in Nat /\ chan[b][j].promise \in Nat /\ Quantum \in Nat
        BY <1>1, Typed, Sizes
      <4>2. due[b][i].due <= peerPromise[b] + Quantum
        BY <1>3 DEF Own, Queued
      <4>3. peerPromise[b] <= chan[b][j].promise
        BY <1>3, <3>1 DEF Believed
      <4> QED
        BY <1>5, <4>1, <4>2, <4>3
    <3> QED
      BY <1>3, <3>1 DEF QueueFirst, Own, Queued
  <2>3. InTimeOrder(due'[b])
    BY <1>2, <1>3, <2>2 DEF PassDoes, Believed
  <2> QED
    BY <2>1, <2>3 DEF Queued
(* Its pace. *)
<1>17. Paced(b)'
  <2>1. Slack(b) \in Nat /\ Held(b) \in Nat /\ Quantum \in Nat
    BY Sizes
  <2>2. now[b] <= peerPromise'[b] + Quantum + Slack(b)
    <3>1. now[b] <= peerPromise[b] + Quantum + Slack(b)
      BY <1>3, <1>7 DEF Own, Paced
    <3>2. PICK n \in Nat, x \in Nat, y \in Nat, s \in Nat, q \in Nat :
             n = now[b] /\ x = peerPromise[b] /\ y = peerPromise'[b] /\ s = Slack(b) /\ q = Quantum
      BY <1>5, <1>6, <2>1
    <3>3. n <= x + q + s /\ y >= x
      BY <1>13, <3>1, <3>2
    <3>4. n <= y + q + s
      BY <3>3
    <3> QED
      BY <3>2, <3>4
  <2>3. pc'[b] = "run" => next'[b] <= peerPromise'[b] + Quantum
    BY <1>12
  <2>4. ASSUME Listening(b), NEW i \in DOMAIN due'[b]
        PROVE  /\ now[b] <= due'[b][i].due + Held(b) + Slack(b)
               /\ pc'[b] = "run" => next'[b] <= due'[b][i].due + Held(b)
    <3>1. due'[b] # <<>> /\ 1 \in DOMAIN due'[b] /\ 1 <= i
      BY <1>6
    <3>2. due'[b][1].due <= due'[b][i].due
      BY <1>16, <3>1 DEF Queued, InTimeOrder
    <3>3. due'[b][1].due > now[b] /\ (pc'[b] = "run" => next'[b] <= due'[b][1].due)
      BY <1>2, <1>12, <2>4, <3>1 DEF PassDoes
    <3>4. due'[b][1].due \in Nat /\ due'[b][i].due \in Nat
      <4>1. due'[b][1] \in DueFrame /\ due'[b][i] \in DueFrame
        BY <1>6, <3>1
      <4> QED
        BY <4>1 DEF DueFrame
    <3>5. PICK x \in Nat, y \in Nat, h \in Nat, s \in Nat :
             x = due'[b][1].due /\ y = due'[b][i].due /\ h = Held(b) /\ s = Slack(b)
      BY <2>1, <3>4
    <3>6. x <= y /\ x > now[b] /\ (pc'[b] = "run" => next'[b] <= x)
      BY <3>2, <3>3, <3>5
    <3>7. now[b] <= y + h + s
      BY <1>5, <3>6
    <3>8. pc'[b] = "run" => next'[b] <= y + h
      BY <1>6, <3>6
    <3> QED
      BY <3>5, <3>7, <3>8
  <2>5. Listening(b)' <=> Listening(b)
    BY <1>7 DEF Listening
  <2> QED
    BY <1>7, <2>2, <2>3, <2>4, <2>5 DEF Paced
<1>18. b = "gui" => GuiSteps'
  <2> SUFFICES ASSUME b = "gui"
               PROVE  GuiSteps'
    OBVIOUS
  <2>1. pc'[b] = "run" => \/ next'[b] <= now[b] + Half
                          \/ ~awake'[b] /\ next'[b] <= timer'[b]
    <3> SUFFICES ASSUME pc'[b] = "run"
                 PROVE  \/ next'[b] <= now[b] + Half
                        \/ ~awake'[b] /\ next'[b] <= timer'[b]
      OBVIOUS
    <3>1. Half \in Nat /\ Half >= 1
      BY Sizes
    <3>2. CASE next'[b] <= Most(now[b] + 1, Most(reported[b], now[b]) + Half)
      <4>1. Most(reported[b], now[b]) = now[b]
        BY <1>5, <1>8 DEF Most
      <4>2. next'[b] <= Most(now[b] + 1, now[b] + Half)
        BY <3>2, <4>1
      <4> QED
        BY <1>5, <1>6, <3>1, <4>2 DEF Most
    <3>3. CASE promise > now[b] /\ next'[b] <= promise
      BY <1>5, <1>6, <1>10, <1>11, <3>3
    <3> QED
      BY <1>12, <3>2, <3>3
  <2>2. parked' /\ pc'[b] = "wait" => ~awake'[b]
    BY <1>2, <1>11 DEF PassDoes
  <2> QED
    BY <1>7, <2>1, <2>2 DEF GuiSteps
<1>19. Own(b)'
  BY <1>15, <1>16, <1>17, <1>18 DEF Own
(* What comes to it: the rest of its stream. *)
<1>20. Believed(b)'
  <2>1. PICK l \in Nat : l = Len(chan[b]) /\ k \in 0..l
    <3>1. Len(chan[b]) \in Nat
      BY <1>1, Typed
    <3> QED
      BY <1>14, <3>1
  <2>2. /\ DOMAIN chan'[b] = 1..l - k /\ DOMAIN chan[b] = 1..l
        /\ \A i \in 1..l - k : chan'[b][i] = chan[b][k + i]
    <3>1. chan'[b] = SubSeq(chan[b], k + 1, Len(chan[b]))
      BY <1>2 DEF PassDoes
    <3>2. chan[b] \in Seq(Msg)
      BY <1>1, Typed
    <3>3. Len(chan'[b]) = l - k /\ \A i \in 1..l - k : chan'[b][i] = chan[b][k + i]
      BY <2>1, <3>1, <3>2, Cut
    <3>4. DOMAIN chan'[b] = 1..Len(chan'[b])
      BY <1>6
    <3> QED
      BY <1>1, <2>1, <3>3, <3>4, Typed
  <2>3. Says(o)' = Says(o) /\ Says(o) \in Nat
    <3>1. promised'[o] = promised[o]
      BY <1>2, <1>4 DEF PassDoes
    <3>2. now[o] \in Nat /\ promised[o] \in Nat
      BY <1>1, Typed
    <3> QED
      BY <1>7, <3>1, <3>2 DEF Says, Most
  <2>4. \A i \in 1..l - k : k + i \in 1..l /\ k + i > k
    BY <2>1
  <2>5. peerPromise'[b] <= Says(o)
    <3>1. peerPromise[b] <= Says(o) /\ \A i \in DOMAIN chan[b] : chan[b][i].promise <= Says(o)
      BY <1>3, <1>4 DEF Believed
    <3> QED
      BY <1>13, <1>14, <3>1
  <2>6. ASSUME NEW i \in 1..l - k
        PROVE  /\ chan'[b][i].promise <= Says(o)
               /\ chan'[b][i].type = "frame" => peerPromise'[b] <= chan'[b][i].promise
    <3>1. chan'[b][i] = chan[b][k + i] /\ k + i \in DOMAIN chan[b]
      BY <2>2, <2>4
    <3>2. chan[b][k + i].promise <= Says(o)
      BY <1>3, <1>4, <3>1 DEF Believed
    <3>3. ASSUME chan[b][k + i].type = "frame"
          PROVE  peerPromise'[b] <= chan[b][k + i].promise
      <4>1. peerPromise[b] <= chan[b][k + i].promise
        BY <1>3, <3>1, <3>3 DEF Believed
      <4>2. ASSUME NEW j \in 1..k
            PROVE  chan[b][j].promise <= chan[b][k + i].promise
        <5>1. j \in DOMAIN chan[b] /\ j <= k + i
          BY <1>14, <2>1
        <5> QED
          BY <1>3, <3>1, <3>3, <5>1 DEF Believed, Rising
      <4> QED
        BY <1>13, <4>1, <4>2
    <3> QED
      BY <3>1, <3>2, <3>3
  <2>7. Rising(chan[b])'
    <3>1. ASSUME NEW i \in 1..l - k, NEW j \in 1..l - k, i <= j, chan'[b][j].type = "frame"
          PROVE  chan'[b][i].promise <= chan'[b][j].promise
      <4>1. /\ k + i \in DOMAIN chan[b] /\ k + j \in DOMAIN chan[b] /\ k + i <= k + j
            /\ chan'[b][i] = chan[b][k + i] /\ chan'[b][j] = chan[b][k + j]
        BY <2>1, <2>2, <2>4, <3>1
      <4> QED
        BY <1>3, <3>1, <4>1 DEF Believed, Rising
    <3> QED
      BY <2>2, <3>1 DEF Rising
  <2> QED
    BY <1>4, <2>2, <2>3, <2>5, <2>6, <2>7 DEF Believed
(* What it says to the other. *)
<1>21. Believed(o)'
  <2>1. Says(b) = now[b] /\ Says(b)' >= now[b] /\ promised'[b] <= Says(b)' /\ Says(b)' \in Nat
    BY <1>5, <1>6, <1>7, <1>8, <1>9 DEF Says, Most
  <2>2. peerPromise'[o] = peerPromise[o]
    BY <1>2 DEF PassDoes
  <2>3. CASE chan'[o] = chan[o]
    <3>1. Says(Other(o))' >= Says(Other(o))
      BY <1>4, <1>5, <2>1
    <3> QED
      BY <1>1, <1>3, <1>4, <2>2, <2>3, <3>1, BelievedStable
  <2>4. CASE promised'[b] = promise /\ chan'[o] = Append(chan[o], Time(promise))
    <3>1. Time(promise) \in Msg /\ Time(promise).promise = promise /\ Time(promise).type # "frame"
      BY DEF Time, Msg
    <3>2. Says(Other(o))' >= Says(Other(o)) /\ Time(promise).promise <= Says(Other(o))'
      BY <1>4, <1>5, <2>1, <2>4, <3>1
    <3> QED
      BY <1>1, <1>3, <1>4, <2>2, <2>4, <3>1, <3>2, BelievedMore
  <2>5. \/ chan'[o] = chan[o]
        \/ promised'[b] = promise /\ chan'[o] = Append(chan[o], Time(promise))
    BY <1>2, <1>4 DEF PassDoes
  <2> QED
    BY <2>3, <2>4, <2>5
<1>22. Own(o)'
  <2>1. UNCHANGED <<pc[o], next[o], reported[o], promised[o], peerPromise[o], due[o],
                    awake[o], timer[o]>>
    BY <1>2 DEF PassDoes
  <2>2. UNCHANGED ofBoard(o)
    BY <1>7, <2>1 DEF ofBoard
  <2>3. o = "gui" => UNCHANGED <<parked, attached>>
    <3>1. o = "gui" => b = "main"
      BY <1>4 DEF Boards
    <3>2. b = "main" => UNCHANGED parked
      BY <1>2 DEF PassDoes
    <3> QED
      BY <1>7, <3>1, <3>2
  <2> QED
    BY <1>3, <1>4, <2>2, <2>3, OwnStable
<1> QED
  BY <1>1, <1>4, <1>19, <1>20, <1>21, <1>22 DEF IInv

(* A step of one board that adds nothing to a stream. *)
LEMMA QuietKeeps ==
    ASSUME IInv, TypeOK', NEW b \in Boards, Own(b)', Says(b)' >= Says(b),
           UNCHANGED ofBoard(Other(b)), UNCHANGED peerPromise,
           Other(b) = "gui" => UNCHANGED <<parked, attached>>,
           \A o \in Boards : chan'[o] = chan[o] \/ chan'[o] = <<>>
    PROVE  IInv'
<1>1. PICK o \in Boards : o = Other(b) /\ b = Other(o) /\ \A a \in Boards : a = b \/ a = o
  BY Typed DEF IInv
<1>2. TypeOK /\ Own(b) /\ Believed(b) /\ Own(o) /\ Believed(o)
  BY DEF IInv
<1>3. Own(o)'
  BY <1>1, <1>2, OwnStable
<1>4. Says(o)' >= Says(o)
  <2>1. UNCHANGED <<now[o], promised[o]>>
    BY <1>1 DEF ofBoard
  <2>2. now[o] \in Nat /\ promised[o] \in Nat
    BY <1>2, Typed
  <2> QED
    BY <2>1, <2>2 DEF Says, Most
<1>5. Believed(b)'
  BY <1>1, <1>2, <1>4, BelievedStable
<1>6. Believed(o)'
  BY <1>1, <1>2, BelievedStable
<1> QED
  BY <1>1, <1>3, <1>5, <1>6 DEF IInv

(* A clock moves. *)
LEMMA ClockKeeps ==
    ASSUME IInv, TypeOK', NEW b \in Boards, NEW n \in Nat, now' = [now EXCEPT ![b] = n], n >= now[b],
           Linked(b) => pc[b] = "run" /\ n <= next[b] + Slack(b),
           UNCHANGED <<life, next, words, peerPromise, due, chan, guest, step>>
    PROVE  IInv'
<1>1. UNCHANGED <<mode, attached, next, reported, promised, sent, peerPromise, due, chan,
                  awake, timer, pc, parked>>
  BY DEF life, words, guest, step
<1>2. TypeOK /\ Own(b) /\ Other(b) \in Boards /\ Other(b) # b
  BY Typed DEF IInv
<1>3. now'[b] = n /\ now'[Other(b)] = now[Other(b)]
  BY <1>2 DEF TypeOK
<1>4. Own(b)'
  BY <1>1, <1>2, <1>3, OwnAhead
<1>5. Says(b)' >= Says(b)
  <2>1. now[b] \in Nat /\ promised[b] \in Nat
    BY <1>2, Typed
  <2> QED
    BY <1>1, <1>3, <2>1 DEF Says, Most
<1>6. UNCHANGED ofBoard(Other(b))
  BY <1>1, <1>3 DEF ofBoard
<1> QED
  BY <1>1, <1>4, <1>5, <1>6, QuietKeeps

(* An instruction is executed. *)
LEMMA TickKeeps ==
    ASSUME IInv, TypeOK', NEW b \in Boards, Tick(b)
    PROVE  IInv'
<1>1. PICK c \in Cycles(b) : now' = [now EXCEPT ![b] = @ + c]
  BY DEF Tick
<1>2. now[b] \in Nat /\ next[b] \in Nat /\ Slack(b) \in Nat
  BY Typed, Sizes DEF IInv
<1>3. c \in Nat /\ c <= Slack(b) + 1
  BY <1>1, CoSimAssumption DEF Cycles, Slack, Boards
<1>4. now[b] < next[b] /\ pc[b] = "run"
  BY DEF Tick, Guest, Runs
<1>5. PICK n \in Nat : n = now[b] + c
  BY <1>2, <1>3
<1>6. n >= now[b] /\ n <= next[b] + Slack(b)
  BY <1>2, <1>3, <1>4, <1>5
<1>7. now' = [now EXCEPT ![b] = n]
  BY <1>1, <1>5
<1> QED
  BY <1>4, <1>6, <1>7, ClockKeeps DEF Tick

(* The clock of a sleeping board jumps. *)
LEMMA DozeKeeps ==
    ASSUME IInv, TypeOK', NEW b \in Boards, Doze(b)
    PROVE  IInv'
<1>1. PICK target : /\ target = IF b = "gui" /\ timer[b] = Never THEN now[b] + 1 ELSE timer[b]
                    /\ now' = [now EXCEPT ![b] = Least(MaxTime, Least(next[b], target))]
  BY DEF Doze
<1>2. /\ now[b] \in Nat /\ next[b] \in Nat /\ timer[b] \in Nat /\ Slack(b) \in Nat
      /\ MaxTime \in Nat
  BY Typed, Sizes DEF IInv
<1>3. now[b] < next[b] /\ now[b] < timer[b] /\ now[b] < MaxTime /\ pc[b] = "run"
  BY DEF Doze, Guest, Runs
<1>4. target \in Nat /\ target > now[b]
  BY <1>1, <1>2, <1>3
<1>5. PICK n \in Nat : n = Least(MaxTime, Least(next[b], target))
  BY <1>2, <1>4 DEF Least
<1>6. n >= now[b] /\ n <= next[b]
  BY <1>2, <1>3, <1>4, <1>5 DEF Least
<1>7. n <= next[b] + Slack(b)
  BY <1>2, <1>6
<1>8. now' = [now EXCEPT ![b] = n]
  BY <1>1, <1>5
<1> QED
  BY <1>3, <1>6, <1>7, <1>8, ClockKeeps DEF Doze

(* MAIN runs on without its GUI. *)
LEMMA RunsOnKeeps ==
    ASSUME IInv, TypeOK', RunsOn
    PROVE  IInv'
<1>1. "main" \in Boards /\ ~Linked("main")
  BY DEF Boards, Linked, RunsOn
<1>2. now["main"] \in Nat
  BY <1>1, Typed DEF IInv
<1>3. PICK n \in Nat : n = now["main"] + 1
  BY <1>2
<1>4. n >= now["main"] /\ now' = [now EXCEPT !["main"] = n]
  BY <1>2, <1>3 DEF RunsOn
<1> QED
  BY <1>1, <1>4, ClockKeeps DEF RunsOn

(* A board falls asleep, or its timer fires. *)
LEMMA SleepKeeps ==
    ASSUME IInv, TypeOK', NEW b \in Boards, Sleep(b) \/ TimerFires(b)
    PROVE  IInv'
<1>1. UNCHANGED <<mode, attached, now, next, reported, promised, sent, peerPromise, due, chan,
                  pc, parked>>
  BY DEF Sleep, TimerFires, life, clocks, words, step
<1>2. TypeOK /\ Own(b) /\ Other(b) \in Boards /\ Other(b) # b
  BY Typed DEF IInv
<1>3. /\ now[b] \in Nat /\ promised[b] \in Nat /\ next[b] \in Nat /\ timer[b] \in Nat
      /\ timer'[b] \in Nat /\ Half \in Nat
  BY <1>2, Typed, Sizes DEF TypeOK
<1>4. pc[b] = "run" /\ Linked(b)
  BY DEF Sleep, TimerFires, Guest, Runs, On, Linked
<1>5. promised[b] <= now[b] /\ (Sleep(b) => awake[b]) /\ (TimerFires(b) => timer[b] <= now[b])
  <2>1. Kept(b)
    BY <1>2 DEF Own
  <2>2. (Sleep(b) => awake[b]) /\ (TimerFires(b) => timer[b] <= now[b])
    BY DEF Sleep, TimerFires
  <2> QED
    BY <1>3, <2>1, <2>2 DEF Kept, Most
<1>6. Kept(b)'
  <2>1. promised[b] <= Most(now[b], timer'[b]) /\ promised[b] <= Most(now[b], next[b])
    BY <1>3, <1>5 DEF Most
  <2>2. reported[b] <= now[b]
    BY <1>2 DEF Own, Kept
  <2> QED
    BY <1>1, <1>5, <2>1, <2>2 DEF Kept
<1>7. Queued(b)'
  BY <1>1, <1>2 DEF Own, Queued
<1>8. Paced(b)'
  <2>1. Listening(b)' <=> Listening(b)
    BY <1>1 DEF Listening
  <2> QED
    BY <1>1, <1>2, <1>4, <2>1 DEF Own, Paced
<1>9. b = "gui" => GuiSteps'
  <2> SUFFICES ASSUME b = "gui"
               PROVE  GuiSteps'
    OBVIOUS
  <2>1. GuiSteps
    BY <1>2, <1>4 DEF Own
  <2>2. next["gui"] <= now["gui"] + Half
    BY <1>3, <1>4, <1>5, <2>1 DEF GuiSteps
  <2> QED
    BY <1>1, <1>4, <2>2 DEF GuiSteps
<1>10. Own(b)'
  BY <1>6, <1>7, <1>8, <1>9 DEF Own
<1>11. Says(b)' >= Says(b)
  BY <1>1, <1>3 DEF Says, Most
<1>12. awake'[Other(b)] = awake[Other(b)] /\ timer'[Other(b)] = timer[Other(b)]
  BY <1>2 DEF Sleep, TimerFires, WakeUp, TypeOK
<1>13. UNCHANGED ofBoard(Other(b))
  BY <1>1, <1>12 DEF ofBoard
<1> QED
  BY <1>1, <1>10, <1>11, <1>13, QuietKeeps

(* A program ends, or loses the other: what was on its way to it is gone. *)
LEMMA EndKeeps ==
    ASSUME IInv, TypeOK', NEW b \in Boards, Quit(b) \/ Lost(b)
    PROVE  IInv'
<1>1. UNCHANGED <<attached, now, next, reported, promised, sent, peerPromise, awake, timer, parked>>
  BY DEF Quit, Lost, clocks, words, guest
<1>2. TypeOK /\ Own(b) /\ Other(b) \in Boards /\ Other(b) # b
  BY Typed DEF IInv
<1>3. /\ due' = [due EXCEPT ![b] = <<>>] /\ chan' = [chan EXCEPT ![b] = <<>>]
      /\ pc' = [pc EXCEPT ![b] = "run"]
  BY DEF Quit, Lost, Drop
<1>4. mode'[b] \in {"alone", "gone"} /\ mode'[Other(b)] = mode[Other(b)]
  BY <1>2 DEF Quit, Lost, TypeOK
<1>5. /\ due'[b] = <<>> /\ pc'[b] = "run"
      /\ due'[Other(b)] = due[Other(b)] /\ pc'[Other(b)] = pc[Other(b)]
      /\ \A o \in Boards : chan'[o] = chan[o] \/ chan'[o] = <<>>
  BY <1>2, <1>3 DEF TypeOK
<1>6. Own(b)'
  <2>1. ~Linked(b)'
    BY <1>4 DEF Linked
  <2>2. Kept(b)'
    BY <1>1, <1>2, <1>5 DEF Own, Kept
  <2>3. Queued(b)'
    BY <1>5 DEF Queued, InTimeOrder
  <2> QED
    BY <2>1, <2>2, <2>3 DEF Own
<1>7. Says(b)' >= Says(b)
  <2>1. now[b] \in Nat /\ promised[b] \in Nat
    BY <1>2, Typed
  <2> QED
    BY <1>1, <2>1 DEF Says, Most
<1>8. UNCHANGED ofBoard(Other(b))
  BY <1>1, <1>4, <1>5 DEF ofBoard
<1> QED
  BY <1>1, <1>5, <1>6, <1>7, <1>8, QuietKeeps

(* A step of one board with a message to the other. *)
LEMMA SpeakKeeps ==
    ASSUME IInv, TypeOK', NEW b \in Boards, NEW m \in Msg, Own(b)', chan' = SendTo(Other(b), m),
           UNCHANGED <<now, promised, peerPromise>>, UNCHANGED ofBoard(Other(b)),
           Other(b) = "gui" => UNCHANGED <<parked, attached>>,
           m.promise <= Says(b), m.type = "frame" => m.promise >= Says(b)
    PROVE  IInv'
<1>1. PICK o \in Boards : o = Other(b) /\ b = Other(o) /\ o # b /\ \A a \in Boards : a = b \/ a = o
  BY Typed DEF IInv
<1>2. TypeOK /\ Own(b) /\ Believed(b) /\ Own(o) /\ Believed(o)
  BY DEF IInv
<1>3. /\ now[b] \in Nat /\ promised[b] \in Nat /\ now[o] \in Nat /\ promised[o] \in Nat
      /\ Says(b) \in Nat /\ Says(o) \in Nat /\ Says(b)' = Says(b) /\ Says(o)' = Says(o)
  <2>1. now[b] \in Nat /\ promised[b] \in Nat /\ now[o] \in Nat /\ promised[o] \in Nat
    BY <1>2, Typed
  <2> QED
    BY <2>1 DEF Says, Most
<1>4. chan'[b] = chan[b] /\ (chan'[o] = chan[o] \/ chan'[o] = Append(chan[o], m))
  <2>1. chan \in [Boards -> Seq(Msg)]
    BY <1>2 DEF TypeOK
  <2> QED
    BY <1>1, <2>1, Sent
<1>5. Own(o)'
  BY <1>1, <1>2, OwnStable
<1>6. Believed(b)'
  BY <1>1, <1>2, <1>3, <1>4, BelievedStable
<1>7. Believed(o)'
  <2>1. CASE chan'[o] = chan[o]
    BY <1>1, <1>2, <1>3, <2>1, BelievedStable
  <2>2. CASE chan'[o] = Append(chan[o], m)
    <3>1. Says(Other(o))' >= Says(Other(o)) /\ m.promise <= Says(Other(o))'
          /\ (m.type = "frame" => m.promise >= Says(Other(o)))
      BY <1>1, <1>3
    <3> QED
      BY <1>2, <2>2, <3>1, BelievedMore
  <2> QED
    BY <1>4, <2>1, <2>2
<1> QED
  BY <1>1, <1>5, <1>6, <1>7 DEF IInv

(* A frame is sent, stamped with the time of its sender. *)
LEMMA SendKeeps ==
    ASSUME IInv, TypeOK', NEW b \in Boards, Send(b)
    PROVE  IInv'
<1>1. /\ UNCHANGED <<mode, attached, now, next, promised, peerPromise, due, awake, timer, pc, parked>>
      /\ chan' = SendTo(Other(b), FrameMsg(now[b], sent[b] + 1))
      /\ reported' = [reported EXCEPT ![b] = Most(@, now[b])]
      /\ awake[b]
  BY DEF Send, life, clocks, guest, step
<1>2. TypeOK /\ Own(b) /\ Other(b) \in Boards /\ Other(b) # b
  BY Typed DEF IInv
<1>3. now[b] \in Nat /\ promised[b] \in Nat /\ reported[b] \in Nat /\ sent[b] \in Nat
  BY <1>2 DEF TypeOK
<1>4. Kept(b)
  BY <1>2 DEF Own
<1>5. Says(b) = now[b]
  BY <1>1, <1>3, <1>4 DEF Kept, Says, Most
<1>6. PICK m \in Msg : m = FrameMsg(now[b], sent[b] + 1) /\ m.promise = now[b]
  <2>1. FrameMsg(now[b], sent[b] + 1) \in Msg
    BY <1>3 DEF FrameMsg, Msg
  <2> QED
    BY <2>1 DEF FrameMsg
<1>7. reported'[Other(b)] = reported[Other(b)] /\ reported'[b] = Most(reported[b], now[b])
  BY <1>1, <1>2 DEF TypeOK
<1>8. reported'[b] <= now[b]
  BY <1>3, <1>4, <1>7 DEF Kept, Most
<1>9. Own(b)'
  <2>1. Kept(b)'
    BY <1>1, <1>4, <1>8 DEF Kept
  <2>2. Queued(b)'
    BY <1>1, <1>2 DEF Own, Queued
  <2>3. Linked(b)' <=> Linked(b)
    BY <1>1 DEF Linked
  <2>4. Listening(b)' <=> Listening(b)
    BY <1>1 DEF Listening
  <2>5. Paced(b) => Paced(b)'
    BY <1>1, <2>4 DEF Paced
  <2>6. GuiSteps => GuiSteps'
    BY <1>1 DEF GuiSteps
  <2> QED
    BY <1>2, <2>1, <2>2, <2>3, <2>5, <2>6 DEF Own
<1>10. UNCHANGED ofBoard(Other(b))
  BY <1>1, <1>7 DEF ofBoard
<1>11. chan' = SendTo(Other(b), m) /\ m.promise <= Says(b) /\ m.promise >= Says(b)
  BY <1>1, <1>3, <1>5, <1>6
<1> QED
  BY <1>1, <1>9, <1>10, <1>11, SpeakKeeps

(* The connection, and MAIN that waits for it in vain. *)
LEMMA ConnectKeeps ==
    ASSUME IInv, TypeOK', GuiConnect \/ MainAccept \/ AcceptTimeout
    PROVE  IInv'
<1>1. UNCHANGED <<pc, now, next, reported, promised, sent, peerPromise, due, awake, timer,
                  parked, attached>>
  BY DEF GuiConnect, MainAccept, AcceptTimeout, clocks, words, guest
<1>2. PICK b \in Boards :
        /\ mode[b] = "off" /\ mode'[Other(b)] = mode[Other(b)]
        /\ \/ mode'[b] = "on" /\ chan' = SendTo(Other(b), Hello)
           \/ mode'[b] = "alone" /\ chan' = chan
  <2>1. "main" \in Boards /\ "gui" \in Boards /\ Other("main") = "gui" /\ Other("gui") = "main"
    BY DEF Boards, Other
  <2>2. mode \in [Boards -> {"off", "on", "alone", "gone"}]
    BY DEF IInv, TypeOK
  <2>3. CASE GuiConnect
    BY <2>1, <2>2, <2>3 DEF GuiConnect
  <2>4. CASE MainAccept
    BY <2>1, <2>2, <2>4 DEF MainAccept
  <2>5. CASE AcceptTimeout
    BY <2>1, <2>2, <2>5 DEF AcceptTimeout
  <2> QED
    BY <2>3, <2>4, <2>5
<1>3. TypeOK /\ Own(b) /\ now[b] \in Nat /\ promised[b] \in Nat
  BY Typed DEF IInv
<1>4. Own(b)'
  <2>1. Linked(b)
    BY <1>2 DEF Linked
  <2>2. Kept(b)' /\ Queued(b)'
    BY <1>1, <1>3 DEF Own, Kept, Queued
  <2>3. Paced(b)'
    BY <1>1, <1>3, <2>1 DEF Own, Paced, Listening
  <2>4. b = "gui" => GuiSteps'
    BY <1>1, <1>3, <2>1 DEF Own, GuiSteps
  <2> QED
    BY <2>2, <2>3, <2>4 DEF Own
<1>5. UNCHANGED ofBoard(Other(b))
  BY <1>1, <1>2 DEF ofBoard
<1>6. Hello \in Msg /\ Hello.promise = 0 /\ Hello.type # "frame"
  BY DEF Hello, Msg
<1>7. Says(b) \in Nat /\ Says(b)' = Says(b)
  BY <1>1, <1>3 DEF Says, Most
<1>8. Hello.promise <= Says(b)
  BY <1>6, <1>7
<1>9. CASE chan' = SendTo(Other(b), Hello)
  BY <1>1, <1>4, <1>5, <1>6, <1>8, <1>9, SpeakKeeps
<1>10. CASE chan' = chan
  BY <1>1, <1>4, <1>5, <1>7, <1>10, QuietKeeps
<1> QED
  BY <1>2, <1>9, <1>10

(* The GUI opens its link: what is due is taken, and no more than half a    *)
(* quantum of what is not can pass before the next step.                    *)
LEMMA AttachKeeps ==
    ASSUME IInv, TypeOK', AttachLink
    PROVE  IInv'
<1>1. /\ UNCHANGED <<mode, now, next, reported, promised, sent, peerPromise, chan, awake, timer,
                     pc, parked>>
      /\ awake["gui"] /\ pc["gui"] = "run" /\ On("gui")
  BY DEF AttachLink, Guest, Runs, clocks, words, guest, step
<1>2. /\ "gui" \in Boards /\ Other("gui") = "main" /\ "main" \in Boards /\ Linked("gui")
      /\ TypeOK /\ Own("gui")
  BY <1>1 DEF Boards, Other, IInv, On, Linked
<1>3. /\ now["gui"] \in Nat /\ next["gui"] \in Nat /\ peerPromise["gui"] \in Nat
      /\ promised["gui"] \in Nat /\ due["gui"] \in Seq(DueFrame)
      /\ Half \in Nat /\ Quantum \in Nat /\ Slack("gui") \in Nat /\ Held("gui") = Half - 1
  BY <1>2, Typed, Sizes DEF Held
<1>4. PICK k \in 0..Len(due["gui"]) :
          /\ k < Len(due["gui"]) => due["gui"][k + 1].due > now["gui"]
          /\ due' = [due EXCEPT !["gui"] = SubSeq(@, k + 1, Len(@))]
  BY DEF AttachLink
<1>5. PICK l \in Nat : l = Len(due["gui"]) /\ k \in 0..l
  <2>1. Len(due["gui"]) \in Nat
    BY <1>3
  <2> QED
    BY <1>4, <2>1
<1>6. PICK d : d = SubSeq(due["gui"], k + 1, Len(due["gui"]))
  OBVIOUS
<1>7. due'["gui"] = d /\ due'["main"] = due["main"]
  BY <1>2, <1>4, <1>6 DEF TypeOK
<1>8. /\ DOMAIN d = 1..l - k /\ DOMAIN due["gui"] = 1..l
      /\ \A i \in 1..l - k : d[i] = due["gui"][k + i] /\ k + i \in 1..l
  <2>1. d \in Seq(DueFrame) /\ Len(d) = l - k /\ \A i \in 1..l - k : d[i] = due["gui"][k + i]
    BY <1>3, <1>5, <1>6, Cut
  <2>2. DOMAIN d = 1..Len(d) /\ DOMAIN due["gui"] = 1..Len(due["gui"])
    BY <1>3, <2>1
  <2> QED
    BY <1>5, <2>1, <2>2
<1>9. Queued("gui") /\ Paced("gui") /\ GuiSteps /\ Kept("gui")
  BY <1>2 DEF Own
<1>10. next["gui"] <= now["gui"] + Half
  BY <1>1, <1>9 DEF GuiSteps
<1>11. ASSUME NEW i \in DOMAIN d
       PROVE  /\ d[i].due <= peerPromise["gui"] + Quantum
              /\ now["gui"] <= d[i].due + Held("gui") + Slack("gui")
              /\ next["gui"] <= d[i].due + Held("gui")
  <2>1. /\ k + i \in DOMAIN due["gui"] /\ k + 1 \in DOMAIN due["gui"] /\ k + 1 <= k + i
        /\ k < l /\ d[i] = due["gui"][k + i]
    BY <1>5, <1>8
  <2>2. due["gui"][k + 1].due > now["gui"]
    BY <1>4, <1>5, <2>1
  <2>3. due["gui"][k + 1].due <= due["gui"][k + i].due
    BY <1>9, <2>1 DEF Queued, InTimeOrder
  <2>4. due["gui"][k + 1].due \in Nat /\ due["gui"][k + i].due \in Nat
    BY <1>2, <2>1, Typed
  <2>5. d[i].due \in Nat /\ d[i].due > now["gui"]
    BY <1>3, <2>1, <2>2, <2>3, <2>4, SMTT(20)
  <2>6. d[i].due <= peerPromise["gui"] + Quantum
    BY <1>9, <2>1 DEF Queued
  <2>7. Half >= 1
    BY Sizes
  <2>8. next["gui"] <= d[i].due + (Half - 1)
    BY <1>3, <1>10, <2>5, <2>7
  <2>9. now["gui"] <= d[i].due + (Half - 1) + Slack("gui")
    BY <1>3, <2>5, <2>7
  <2> QED
    BY <1>3, <2>6, <2>8, <2>9
<1>12. Own("gui")'
  <2>1. Kept("gui")'
    BY <1>1, <1>9 DEF Kept
  <2>2. InTimeOrder(d)
    <3>1. ASSUME NEW i \in DOMAIN d, NEW j \in DOMAIN d, i <= j
          PROVE  d[i].due <= d[j].due
      <4>1. /\ k + i \in DOMAIN due["gui"] /\ k + j \in DOMAIN due["gui"] /\ k + i <= k + j
            /\ d[i] = due["gui"][k + i] /\ d[j] = due["gui"][k + j]
        BY <1>5, <1>8, <3>1, SMTT(20)
      <4> QED
        BY <1>9, <4>1 DEF Queued, InTimeOrder
    <3> QED
      BY <3>1 DEF InTimeOrder
  <2>3. Queued("gui")'
    BY <1>1, <1>7, <1>11, <2>2 DEF Queued
  <2>4. Paced("gui")'
    BY <1>1, <1>7, <1>9, <1>11 DEF Paced
  <2>5. GuiSteps'
    BY <1>1, <1>9 DEF GuiSteps
  <2> QED
    BY <2>1, <2>3, <2>4, <2>5 DEF Own
<1>13. Says("gui")' >= Says("gui")
  BY <1>1, <1>3 DEF Says, Most
<1>14. UNCHANGED ofBoard("main")
  BY <1>1, <1>7 DEF ofBoard
<1> QED
  BY <1>1, <1>2, <1>12, <1>13, <1>14, QuietKeeps

(* The invariant holds at the start. *)
LEMMA Starts == Init => IInv
<1> SUFFICES ASSUME Init
             PROVE  IInv
  OBVIOUS
<1>1. TypeOK
  BY InitTyped
<1>2. ASSUME NEW b \in Boards
      PROVE  Own(b) /\ Believed(b)
  <2>1. /\ now[b] = 0 /\ next[b] = Half /\ reported[b] = 0 /\ promised[b] = 0 /\ peerPromise[b] = 0
        /\ due[b] = <<>> /\ chan[b] = <<>> /\ awake[b] = TRUE /\ pc[b] = "run" /\ parked = FALSE
        /\ timer[b] = Never /\ pc["gui"] = "run" /\ next["gui"] = Half /\ now["gui"] = 0
    BY DEF Init, Boards
  <2>2. /\ Half \in Nat /\ Half >= 1 /\ Quantum \in Nat /\ Quantum = 2 * Half /\ Never \in Nat
        /\ Slack(b) \in Nat
    BY Sizes
  <2>3. Kept(b)
    BY <2>1, <2>2 DEF Kept, Most
  <2>4. Queued(b)
    BY <2>1 DEF Queued, InTimeOrder
  <2>5. Paced(b)
    BY <2>1, <2>2 DEF Paced
  <2>6. GuiSteps
    BY <2>1, <2>2 DEF GuiSteps
  <2>7. Says(Other(b)) = 0
    <3>1. Other(b) \in Boards
      BY DEF Other, Boards
    <3> QED
      BY <3>1 DEF Init, Says, Most
  <2>8. Believed(b)
    BY <2>1, <2>7 DEF Believed, Rising
  <2> QED
    BY <2>3, <2>4, <2>5, <2>6, <2>8 DEF Own
<1> QED
  BY <1>1, <1>2 DEF IInv

(* Unless the host wakes MAIN, every step keeps the invariant. *)
LEMMA Keeps ==
    ASSUME ~HostInput, IInv, [Next]_vars
    PROVE  IInv'
<1>1. TypeOK'
  BY NextTyped DEF IInv
<1>2. CASE UNCHANGED vars
  <2>1. UNCHANGED <<mode, pc, now, next, reported, promised, peerPromise, due, chan, awake, timer,
                    parked, attached>>
    BY <1>2 DEF vars
  <2>2. ASSUME NEW b \in Boards
        PROVE  Own(b)' /\ Believed(b)'
    <3>1. UNCHANGED ofBoard(b)
      BY <2>1 DEF ofBoard
    <3>2. Own(b)'
      BY <2>1, <3>1, OwnStable DEF IInv
    <3>3. UNCHANGED Says(Other(b))
      BY <2>1 DEF Says
    <3>4. Believed(b)'
      BY <2>1, <3>3 DEF IInv, Believed, Rising
    <3> QED
      BY <3>2, <3>4
  <2> QED
    BY <1>1, <2>2 DEF IInv
<1>3. CASE GuiConnect \/ MainAccept \/ AcceptTimeout
  BY <1>1, <1>3, ConnectKeeps
<1>4. CASE AttachLink
  BY <1>1, <1>4, AttachKeeps
<1>5. CASE RunsOn
  BY <1>1, <1>5, RunsOnKeeps
<1>6. ~HostWake
  BY DEF HostWake
<1>7. ASSUME NEW b \in Boards, Progress(b) \/ Sleep(b) \/ Send(b) \/ Quit(b)
      PROVE  IInv'
  BY <1>1, <1>7, PassKeeps, TickKeeps, DozeKeeps, SleepKeeps, SendKeeps, EndKeeps DEF Progress
<1> QED
  BY <1>2, <1>3, <1>4, <1>5, <1>6, <1>7 DEF Next

(* The invariant gives the two bounds. *)
LEMMA Enough == IInv => InStep
<1> SUFFICES ASSUME IInv
             PROVE  InStep
  OBVIOUS
<1>1. ASSUME NEW b \in Boards, On(b)
      PROVE  Paced(b) /\ Believed(b) /\ TypeOK
  BY <1>1 DEF IInv, Own, On, Linked
<1>2. WithinLookahead
  BY <1>1 DEF WithinLookahead, Paced
<1>3. ASSUME NEW b \in Boards, On(b), Listening(b), NEW i \in 1..Len(due[b])
      PROVE  due[b][i].due + Slack(b) + Held(b) >= now[b]
  <2>1. i \in DOMAIN due[b] /\ due[b][i].due \in Nat /\ now[b] \in Nat
    BY <1>1, <1>3, Typed
  <2>2. now[b] <= due[b][i].due + Held(b) + Slack(b)
    BY <1>1, <1>3, <2>1 DEF Paced
  <2>3. Slack(b) \in Nat /\ Held(b) \in Nat
    BY Sizes
  <2>4. PICK x \in Nat, s \in Nat, h \in Nat : x = due[b][i].due /\ s = Slack(b) /\ h = Held(b)
    BY <2>1, <2>3
  <2> QED
    BY <2>1, <2>2, <2>4
<1>4. ASSUME NEW b \in Boards, On(b), Listening(b), NEW i \in 1..Len(Frames(chan[b]))
      PROVE  Frames(chan[b])[i].due + Slack(b) >= now[b]
  <2>1. chan[b] \in Seq(Msg)
    BY <1>1, <1>4, Typed
  <2>2. i \in DOMAIN Frames(chan[b])
    <3>1. Frames(chan[b]) \in Seq(DueFrame)
      BY <2>1, FramesOf
    <3> QED
      BY <3>1
  <2>3. PICK j \in DOMAIN chan[b] :
           chan[b][j].type = "frame" /\ Frames(chan[b])[i].due = chan[b][j].promise + Quantum
    BY <2>1, <2>2, FramesOf
  <2>4. peerPromise[b] <= chan[b][j].promise
    BY <1>1, <1>4, <2>3 DEF Believed
  <2>5. now[b] <= peerPromise[b] + Quantum + Slack(b)
    BY <1>1, <1>4 DEF Paced
  <2>6. PICK n \in Nat, x \in Nat, y \in Nat, s \in Nat, q \in Nat :
           n = now[b] /\ x = chan[b][j].promise /\ y = peerPromise[b] /\ s = Slack(b) /\ q = Quantum
    BY <1>1, <1>4, Typed, Sizes
  <2>7. x >= y /\ n <= y + q + s
    BY <2>4, <2>5, <2>6
  <2>8. x + q + s >= n
    BY <2>7
  <2> QED
    BY <2>3, <2>6, <2>8
<1>5. NoPastArrival
  BY <1>3, <1>4 DEF NoPastArrival
<1> QED
  BY <1>2, <1>5 DEF InStep

(* cosim_step and bfin_cosim_step: however the two programs are scheduled   *)
(* and however their streams are cut, no board is further ahead than the    *)
(* other's promise and one quantum (and the rest of an instruction), and no *)
(* frame reaches a listening board late.  For every quantum, instruction    *)
(* length and number of frames, unless the host wakes a sleeping MAIN.      *)
THEOREM StaysInStep == ~HostInput => (Spec => []InStep)
<1> SUFFICES ASSUME ~HostInput
             PROVE  Spec => []InStep
  OBVIOUS
<1>1. Init => IInv
  BY Starts
<1>2. IInv /\ [Next]_vars => IInv'
  BY Keeps
<1>3. IInv => InStep
  BY Enough
<1> QED
  BY <1>1, <1>2, <1>3, PTL DEF Spec

(* cosim_promise and bfin_cosim_promise: a board sends nothing stamped       *)
(* before a promise it gave, and never gives a lower one.                   *)
THEOREM PromisesAreKept == ~HostInput => (Spec => PromiseKept)
<1> SUFFICES ASSUME ~HostInput
             PROVE  Spec => PromiseKept
  OBVIOUS
<1> DEFINE Kind == \A b \in Boards : /\ sent'[b] # sent[b] => now[b] >= promised[b]
                                     /\ promised'[b] >= promised[b]
<1>1. Init => IInv
  BY Starts
<1>2. IInv /\ [Next]_vars => IInv'
  BY Keeps
<1>3. IInv /\ [Next]_vars => [Kind]_vars
  <2> SUFFICES ASSUME IInv, Next
               PROVE  Kind
    BY DEF Kind
  <2>1. ASSUME NEW b \in Boards
        PROVE  promised[b] \in Nat /\ now[b] \in Nat /\ Kept(b) /\ sent \in [Boards -> Nat]
               /\ promised \in [Boards -> Nat]
    BY Typed DEF IInv, Own, TypeOK
  <2>2. CASE UNCHANGED words
    BY <2>1, <2>2 DEF words
  <2>3. ASSUME NEW a \in Boards, Send(a)
        PROVE  Kind
    <3>1. UNCHANGED promised /\ sent' = [sent EXCEPT ![a] = @ + 1] /\ awake[a]
      BY <2>3 DEF Send
    <3>2. promised[a] <= now[a]
      BY <2>1, <3>1 DEF Kept
    <3>3. \A b \in Boards \ {a} : sent'[b] = sent[b]
      BY <2>1, <3>1
    <3> QED
      BY <2>1, <3>1, <3>2, <3>3
  <2>4. ASSUME NEW a \in Boards, Pass(a)
        PROVE  Kind
    <3>1. PICK k \in Nat, promise \in Nat, asleep \in BOOLEAN : PassDoes(a, k, promise, asleep)
      BY <2>4, PassTyped DEF IInv
    <3>2. /\ UNCHANGED sent /\ promised'[a] \in {promise, promised[a]} /\ promise >= now[a]
          /\ (pc[a] = "run" => now[a] >= next[a])
          /\ \A o \in Boards \ {a} : promised'[o] = promised[o]
      BY <3>1 DEF PassDoes
    <3>3. promised[a] <= now[a]
      <4>1. next[a] \in Nat /\ pc[a] \in {"run", "wait"}
        BY Typed DEF IInv
      <4> QED
        BY <2>1, <3>2, <4>1 DEF Kept, Most
    <3>4. promised'[a] >= promised[a]
      BY <2>1, <3>2, <3>3
    <3> QED
      BY <2>1, <3>2, <3>4
  <2>5. UNCHANGED words \/ \E a \in Boards : Send(a) \/ Pass(a)
    BY DEF Next, Progress, GuiConnect, MainAccept, AcceptTimeout, Tick, Doze, TimerFires, Lost,
           Sleep, Quit, HostWake, AttachLink, RunsOn
  <2> QED
    BY <2>2, <2>3, <2>4, <2>5
<1>4. PromiseKept <=> [][Kind]_vars
  BY DEF PromiseKept
<1> QED
  BY <1>1, <1>2, <1>3, PTL DEF Spec, PromiseKept

-----------------------------------------------------------------------------
(* The wire of TimedLink is the queue and the stream: what a message does   *)
(* to the frames of its stream, and two parts of a stream put together.     *)

(* f counts the frames of s as far as each message. *)
Counts(f, s) ==
    /\ f[0] = <<>>
    /\ \A i \in 1..Len(s) : f[i] = IF s[i].type # "frame" THEN f[i - 1]
                                   ELSE Append(f[i - 1], Framed(s[i]))

LEMMA FramesCounted ==
    ASSUME NEW s \in Seq(Msg)
    PROVE  \E f : Frames(s) = f[Len(s)] /\ Counts(f, s)
<1>1. PICK f : /\ Frames(s) = f[Len(s)] /\ f[0] = <<>>
               /\ \A i \in 0..Len(s) : f[i] \in Seq(DueFrame)
               /\ \A i \in 1..Len(s) :
                     f[i] = IF s[i].type # "frame" THEN f[i - 1]
                            ELSE Append(f[i - 1], Framed(s[i]))
  BY FramesBuilt
<1>2. Counts(f, s)
  BY <1>1 DEF Counts
<1> QED
  BY <1>1, <1>2

(* What has been counted of a stream does not depend on what follows. *)
LEMMA SameCount ==
    ASSUME NEW s, NEW t, NEW f, NEW g, Counts(f, s), Counts(g, t),
           NEW n \in Nat, n <= Len(s), n <= Len(t), Len(s) \in Nat, Len(t) \in Nat,
           \A i \in 1..n : s[i] = t[i]
    PROVE  f[n] = g[n]
<1> DEFINE T == {i \in 0..n : f[i] # g[i]}
<1>1. T = {}
  <2> SUFFICES ASSUME T # {} PROVE FALSE
    OBVIOUS
  <2>0. T \subseteq Nat
    OBVIOUS
  <2>1. PICK i \in T : \A j \in T : i <= j
    <3> HIDE DEF T
    <3> QED
      BY <2>0, LeastNumber
  <2>2. i \in 0..n /\ f[i] # g[i]
    BY <2>1
  <2>3. i # 0
    BY <2>2 DEF Counts
  <2>4. i \in 1..n /\ i \in 1..Len(s) /\ i \in 1..Len(t) /\ i - 1 \in 0..n /\ ~(i <= i - 1)
    BY <2>2, <2>3
  <2>5. f[i - 1] = g[i - 1]
    BY <2>1, <2>4
  <2>6. s[i] = t[i]
    BY <2>4
  <2>7. f[i] = g[i]
    BY <2>4, <2>5, <2>6 DEF Counts
  <2> QED
    BY <2>2, <2>7
<1> QED
  BY <1>1

(* One more message: one more frame, if it is one. *)
LEMMA FramesAppend ==
    ASSUME NEW s \in Seq(Msg), NEW m \in Msg
    PROVE  Frames(Append(s, m)) = IF m.type # "frame" THEN Frames(s)
                                  ELSE Append(Frames(s), Framed(m))
<1>1. PICK t \in Seq(Msg) : t = Append(s, m)
  <2>1. Append(s, m) \in Seq(Msg)
    BY AppendProperties
  <2> QED
    BY <2>1
<1>2. PICK l \in Nat : l = Len(s)
  OBVIOUS
<1>3. Len(t) = l + 1 /\ t[l + 1] = m /\ \A i \in 1..l : s[i] = t[i]
  BY <1>1, <1>2
<1>4. PICK f : Frames(s) = f[l] /\ Counts(f, s)
  BY <1>2, FramesCounted
<1>5. PICK g : Frames(t) = g[l + 1] /\ Counts(g, t)
  BY <1>1, <1>3, FramesCounted
<1>6. f[l] = g[l]
  <2>1. l <= Len(s) /\ l <= Len(t) /\ Len(s) \in Nat /\ Len(t) \in Nat
    BY <1>2, <1>3
  <2> QED
    BY <1>3, <1>4, <1>5, <2>1, SameCount
<1>7. g[l + 1] = IF t[l + 1].type # "frame" THEN g[l] ELSE Append(g[l], Framed(t[l + 1]))
  <2>1. l + 1 \in 1..Len(t) /\ l + 1 - 1 = l
    BY <1>3
  <2> QED
    BY <1>5, <2>1 DEF Counts
<1> QED
  BY <1>1, <1>3, <1>4, <1>5, <1>6, <1>7

(* Sequences put together one by one, and one more element at the end.      *)
LEMMA JoinedThrice ==
    \A S : \A x, y, z \in Seq(S) : (x \o y) \o z = x \o (y \o z)
BY ConcatAssociative

LEMMA FramesTwo ==
    \A x, y \in Seq(DueFrame) :
        /\ x \o y \in Seq(DueFrame) /\ Len(x \o y) = Len(x) + Len(y)
        /\ \A j \in 1..Len(x) + Len(y) :
              (x \o y)[j] = IF j <= Len(x) THEN x[j] ELSE y[j - Len(x)]
BY ConcatProperties

LEMMA FramesThrice == \A x, y, z \in Seq(DueFrame) : (x \o y) \o z = x \o (y \o z)
BY JoinedThrice

LEMMA JoinedAppend ==
    \A S : \A x, y \in Seq(S) : \A e \in S :
        x \o y \in Seq(S) /\ x \o Append(y, e) = Append(x \o y, e)
<1> TAKE S
<1> TAKE x, y \in Seq(S)
<1> TAKE e \in S
<1>1. <<e>> \in Seq(S) /\ x \o y \in Seq(S)
  OBVIOUS
<1>2. (x \o y) \o <<e>> = x \o (y \o <<e>>)
  BY <1>1, JoinedThrice
<1>3. Append(y, e) = y \o <<e>>
  BY AppendIsConcat
<1>4. Append(x \o y, e) = (x \o y) \o <<e>>
  BY <1>1, AppendIsConcat
<1> QED
  BY <1>1, <1>2, <1>3, <1>4

(* What is true of two parts is true of one message more. *)
LEMMA JoinedMore ==
    ASSUME NEW s \in Seq(Msg), NEW u \in Seq(Msg), NEW m \in Msg,
           Frames(s \o u) = Frames(s) \o Frames(u)
    PROVE  Frames(s \o Append(u, m)) = Frames(s) \o Frames(Append(u, m))
<1>1. s \o u \in Seq(Msg) /\ s \o Append(u, m) = Append(s \o u, m)
  BY JoinedAppend
<1>2. Frames(s) \in Seq(DueFrame) /\ Frames(u) \in Seq(DueFrame)
  BY FramesOf
<1>3. CASE m.type # "frame"
  <2>1. Frames(Append(u, m)) = Frames(u) /\ Frames(Append(s \o u, m)) = Frames(s \o u)
    BY <1>1, <1>3, FramesAppend
  <2> QED
    BY <1>1, <2>1
<1>4. CASE m.type = "frame"
  <2>1. /\ Frames(Append(u, m)) = Append(Frames(u), Framed(m))
        /\ Frames(Append(s \o u, m)) = Append(Frames(s \o u), Framed(m))
    BY <1>1, <1>4, FramesAppend
  <2>2. Framed(m) \in DueFrame
    <3>1. m.promise \in Nat /\ m.n \in Nat /\ Quantum \in Nat
      BY Sizes DEF Msg
    <3> QED
      BY <3>1 DEF Framed, DueFrame
  <2>3. Append(Frames(s) \o Frames(u), Framed(m)) = Frames(s) \o Append(Frames(u), Framed(m))
    <3>1. \A x, y \in Seq(DueFrame) : \A e \in DueFrame : x \o Append(y, e) = Append(x \o y, e)
      BY JoinedAppend
    <3> QED
      BY <1>2, <2>2, <3>1, Zenon
  <2> QED
    BY <1>1, <2>1, <2>3
<1> QED
  BY <1>3, <1>4

LEMMA FramesNone == Frames(<<>>) = <<>>
<1>1. <<>> \in Seq(Msg) /\ Len(<<>>) = 0
  OBVIOUS
<1>2. PICK f : Frames(<<>>) = f[Len(<<>>)] /\ f[0] = <<>>
  BY <1>1, FramesBuilt
<1> QED
  BY <1>1, <1>2

(* The frames of one part of a stream and then those of the other. *)
LEMMA FramesJoined ==
    ASSUME NEW s \in Seq(Msg), NEW t \in Seq(Msg)
    PROVE  Frames(s \o t) = Frames(s) \o Frames(t)
<1> DEFINE Upto(n) == SubSeq(t, 1, n)
           Holds(n) == Frames(s \o Upto(n)) = Frames(s) \o Frames(Upto(n))
           T == {n \in 0..Len(t) : ~Holds(n)}
<1>1. ASSUME NEW n \in 0..Len(t)
      PROVE  Upto(n) \in Seq(Msg) /\ Len(Upto(n)) = n /\ \A i \in 1..n : Upto(n)[i] = t[i]
  BY Cut
<1>2. ASSUME NEW n \in 1..Len(t)
      PROVE  n - 1 \in 0..Len(t) /\ t[n] \in Msg /\ Upto(n) = Append(Upto(n - 1), t[n])
  <2>1. n - 1 \in 0..Len(t) /\ n \in 0..Len(t) /\ t[n] \in Msg /\ n \in Nat
    OBVIOUS
  <2>2. PICK x, y : x = Upto(n) /\ y = Upto(n - 1)
    OBVIOUS
  <2>3. /\ x \in Seq(Msg) /\ Len(x) = n /\ \A i \in 1..n : x[i] = t[i]
        /\ y \in Seq(Msg) /\ Len(y) = n - 1 /\ \A i \in 1..(n - 1) : y[i] = t[i]
    BY <1>1, <2>1, <2>2
  <2>4. Append(y, t[n]) \in Seq(Msg) /\ Len(Append(y, t[n])) = n
    BY <2>1, <2>3
  <2>5. \A i \in 1..n : x[i] = Append(y, t[n])[i]
    BY <2>1, <2>3
  <2>6. x = Append(y, t[n])
    BY <2>3, <2>4, <2>5, SeqEqual
  <2> QED
    BY <2>1, <2>2, <2>6
<1>3. Upto(0) = <<>>
  BY <1>1
<1>4. Upto(Len(t)) = t
  <2>1. Len(t) \in 0..Len(t)
    OBVIOUS
  <2>2. PICK x : x = Upto(Len(t))
    OBVIOUS
  <2>3. x \in Seq(Msg) /\ Len(x) = Len(t) /\ \A i \in 1..Len(x) : x[i] = t[i]
    BY <1>1, <2>1, <2>2
  <2>4. x = t
    BY <2>3, SeqEqual
  <2> QED
    BY <2>2, <2>4
<1> HIDE DEF Upto
<1>5. T = {}
  <2> SUFFICES ASSUME T # {} PROVE FALSE
    OBVIOUS
  <2>0. T \subseteq Nat
    OBVIOUS
  <2>1. PICK n \in T : \A j \in T : n <= j
    <3> HIDE DEF T
    <3> QED
      BY <2>0, LeastNumber
  <2>2. n \in 0..Len(t) /\ ~Holds(n)
    BY <2>1
  <2>3. n # 0
    <3>1. Frames(s) \in Seq(DueFrame)
      BY FramesOf
    <3>2. Frames(s) \o <<>> = Frames(s) /\ s \o <<>> = s
      BY <3>1
    <3>3. Holds(0)
      BY <1>3, <3>2, FramesNone
    <3> QED
      BY <2>2, <3>3
  <2>4. n \in 1..Len(t) /\ n - 1 \in 0..Len(t) /\ ~(n <= n - 1)
    BY <2>2, <2>3
  <2>5. Holds(n - 1)
    BY <2>1, <2>4
  <2>6. PICK u \in Seq(Msg), m \in Msg : u = Upto(n - 1) /\ m = t[n] /\ Upto(n) = Append(u, m)
    BY <1>1, <1>2, <2>4
  <2>7. Frames(s \o u) = Frames(s) \o Frames(u)
    BY <2>5, <2>6
  <2>8. Frames(s \o Append(u, m)) = Frames(s) \o Frames(Append(u, m))
    BY <2>6, <2>7, JoinedMore
  <2> QED
    BY <2>2, <2>6, <2>8
<1>6. Holds(Len(t))
  <2>1. Len(t) \in 0..Len(t)
    OBVIOUS
  <2> QED
    BY <1>5, <2>1
<1> QED
  BY <1>4, <1>6


-----------------------------------------------------------------------------
(* The states of the two boards as states of the wire between them.         *)

(* What is on its way to a board are frames, and it is there on the wire.   *)
LEMMA OnTheWire ==
    ASSUME TypeOK, NEW b \in Boards
    PROVE  /\ Frames(chan[b]) \in Seq(DueFrame) /\ InFlight(b) \in Seq(DueFrame)
           /\ Wire[b] = IF Linked(b) THEN InFlight(b) ELSE <<>>
           /\ (OnLink[b] <=> Linked(b)) /\ (Opened[b] <=> Listening(b))
           /\ Late[b] = Slack(b) + Held(b) /\ Late[b] \in Nat
<1>1. due[b] \in Seq(DueFrame) /\ Frames(chan[b]) \in Seq(DueFrame)
  <2>1. due[b] \in Seq(DueFrame) /\ chan[b] \in Seq(Msg)
    BY Typed
  <2> QED
    BY <2>1, FramesOf
<1>2. InFlight(b) \in Seq(DueFrame)
  BY <1>1 DEF InFlight
<1>3. Wire[b] = IF Linked(b) THEN InFlight(b) ELSE <<>>
  BY DEF Wire, Linked
<1>4. (OnLink[b] <=> Linked(b)) /\ (Opened[b] <=> Listening(b))
  BY DEF OnLink, Opened, Linked
<1>5. Late[b] = Slack(b) + Held(b) /\ Late[b] \in Nat
  BY Sizes DEF Late
<1> QED
  BY <1>1, <1>2, <1>3, <1>4, <1>5

(* No frame on its way to a board that listens is later than Late allows.   *)
Soon ==
    \A b \in Boards : On(b) /\ Listening(b) =>
        \A i \in 1..Len(InFlight(b)) : /\ InFlight(b)[i].due \in Nat
                                       /\ now[b] <= InFlight(b)[i].due + Late[b]

LEMMA NoneLate == IInv => Soon
<1> SUFFICES ASSUME IInv, NEW b \in Boards, On(b), Listening(b), NEW i \in 1..Len(InFlight(b))
             PROVE  /\ InFlight(b)[i].due \in Nat
                    /\ now[b] <= InFlight(b)[i].due + Late[b]
  BY DEF Soon
<1>1. TypeOK /\ NoPastArrival
  BY Enough DEF IInv, InStep
<1>2. PICK x \in Seq(DueFrame), y \in Seq(DueFrame) :
         x = due[b] /\ y = Frames(chan[b]) /\ InFlight(b) = x \o y
  <2>1. due[b] \in Seq(DueFrame) /\ Frames(chan[b]) \in Seq(DueFrame)
    BY <1>1, OnTheWire, Typed
  <2> QED
    BY <2>1 DEF InFlight
<1>3. PICK l \in Nat, m \in Nat : l = Len(x) /\ m = Len(y)
  <2>1. Len(x) \in Nat /\ Len(y) \in Nat
    BY <1>2
  <2> QED
    BY <2>1
<1>4. PICK q : q = x \o y /\ q = InFlight(b)
  BY <1>2
<1>5. /\ q \in Seq(DueFrame) /\ Len(q) = l + m
      /\ \A j \in 1..l : q[j] = x[j]
      /\ \A j \in (l + 1)..(l + m) : j - l \in 1..m /\ q[j] = y[j - l]
  <2>1. x \in Seq(DueFrame) /\ y \in Seq(DueFrame)
    BY <1>2
  <2>2. /\ q \in Seq(DueFrame) /\ Len(q) = Len(x) + Len(y)
        /\ \A j \in 1..Len(x) + Len(y) : q[j] = IF j <= Len(x) THEN x[j] ELSE y[j - Len(x)]
    <3>1. q = x \o y
      BY <1>4
    <3> QED
      BY <2>1, <3>1, FramesTwo
  <2> QED
    BY <1>3, <2>2
<1>6. q[i].due \in Nat
  <2>1. q[i] \in DueFrame
    BY <1>4, <1>5
  <2> QED
    BY <2>1 DEF DueFrame
<1>7. PICK s \in Nat, h \in Nat, t \in Nat :
         s = Slack(b) /\ h = Held(b) /\ t = now[b] /\ Late[b] = s + h
  <2>1. Slack(b) \in Nat /\ Held(b) \in Nat /\ now[b] \in Nat /\ Late[b] = Slack(b) + Held(b)
    BY <1>1, Sizes, Typed, OnTheWire
  <2> QED
    BY <2>1
<1>8. CASE i <= l
  <2>1. i \in 1..l /\ q[i] = x[i]
    BY <1>3, <1>5, <1>8
  <2>2. x[i].due + s + h >= t
    BY <1>1, <1>2, <1>3, <1>7, <2>1 DEF NoPastArrival
  <2>3. t <= q[i].due + (s + h)
    BY <1>6, <2>1, <2>2
  <2> QED
    BY <1>4, <1>6, <1>7, <2>3
<1>9. CASE i > l
  <2>1. i \in (l + 1)..(l + m)
    BY <1>3, <1>4, <1>5, <1>9
  <2>2. i - l \in 1..m /\ q[i] = y[i - l]
    BY <1>5, <2>1
  <2>3. y[i - l].due + s >= t
    BY <1>1, <1>2, <1>3, <1>7, <2>2 DEF NoPastArrival
  <2>4. t <= q[i].due + (s + h)
    BY <1>6, <2>2, <2>3
  <2> QED
    BY <1>4, <1>6, <1>7, <2>4
<1> QED
  BY <1>3, <1>8, <1>9

LEMMA NoneLateNext == IInv' => Soon'
  BY NoneLate, PTL

(* A step that leaves what is on its way to the linked boards as it is.     *)
LEMMA SameWire ==
    ASSUME \A b \in Boards : /\ Linked(b)' <=> Linked(b)
                             /\ Linked(b) => InFlight(b)' = InFlight(b)
    PROVE  Wire' = Wire /\ OnLink' = OnLink
<1>1. \A b \in Boards : Wire'[b] = Wire[b]
  BY DEF Wire, Linked
<1>2. \A b \in Boards : OnLink'[b] = OnLink[b]
  BY DEF OnLink, Linked
<1>3. /\ Wire = [b \in Boards |-> Wire[b]] /\ Wire' = [b \in Boards |-> Wire'[b]]
      /\ OnLink = [b \in Boards |-> OnLink[b]] /\ OnLink' = [b \in Boards |-> OnLink'[b]]
  BY DEF Wire, OnLink
<1> QED
  BY <1>1, <1>2, <1>3

LEMMA SameOpened == UNCHANGED attached => Opened' = Opened
  BY DEF Opened, Listening

(* A clock moves on: never over a frame it has yet to take. *)
LEMMA PassLink ==
    ASSUME TypeOK, IInv', NEW b \in Boards, now'[b] > now[b], now'[Other(b)] = now[Other(b)],
           UNCHANGED <<mode, due, chan, attached, sent>>, Linked(b) => On(b)
    PROVE  Link!Pass(b)
<1>1. Wire' = Wire /\ OnLink' = OnLink /\ Opened' = Opened
  <2>1. \A o \in Boards : (Linked(o)' <=> Linked(o)) /\ InFlight(o)' = InFlight(o)
    BY DEF Linked, InFlight
  <2> QED
    BY <2>1, SameWire, SameOpened
<1>2. ASSUME OnLink[b], Opened[b], NEW i \in 1..Len(Wire[b])
      PROVE  now'[b] <= Wire[b][i].due + Late[b]
  <2>1. Linked(b) /\ Listening(b) /\ On(b) /\ Wire[b] = InFlight(b)
    BY <1>2, OnTheWire
  <2>2. On(b)' /\ Listening(b)' /\ InFlight(b)' = InFlight(b) /\ Late' = Late
    BY <2>1 DEF On, Listening, InFlight, Late, Slack, Held
  <2>3. Soon'
    BY NoneLateNext
  <2>4. now'[b] <= InFlight(b)'[i].due + Late'[b]
    BY <1>2, <2>1, <2>2, <2>3 DEF Soon
  <2> QED
    BY <2>1, <2>2, <2>4
<1>3. now' \in [Boards -> Nat]
  <2>1. now' \in [Boards -> 0..MaxTime] /\ MaxTime \in Nat
    BY Sizes DEF IInv, TypeOK
  <2> QED
    BY <2>1
<1> QED
  BY <1>1, <1>2, <1>3 DEF Link!Pass, Link!Other, Link!Boards, Other, Boards


(* A message that is no frame, or none, leaves the frames of a stream.      *)
LEMMA SameFrames ==
    ASSUME NEW s \in Seq(Msg), NEW m, m.type # "frame",
           NEW t \in Seq(Msg), t = s \/ t = Append(s, m)
    PROVE  Frames(t) = Frames(s)
<1>1. CASE t = Append(s, m)
  <2>1. PICK l \in Nat : l = Len(s)
    OBVIOUS
  <2>2. Len(t) = l + 1 /\ t[l + 1] = m
    BY <1>1, <2>1
  <2>3. m \in Msg
    BY <2>1, <2>2
  <2> QED
    BY <1>1, <2>3, FramesAppend
<1> QED
  BY <1>1

(* cdj_cosim_send_record and bfin_cosim_send_request put one frame on the   *)
(* wire, due no earlier than the other board's clock allows.                *)
LEMMA SendLink ==
    ASSUME IInv, NEW b \in Boards, Send(b)
    PROVE  Link!Put(b)
<1> DEFINE o == Other(b)
           f == [due |-> now[b] + Quantum, n |-> sent[b] + 1]
<1>1. /\ On(b) /\ awake[b] /\ UNCHANGED <<mode, attached, now, due>>
      /\ chan' = SendTo(o, FrameMsg(now[b], sent[b] + 1))
      /\ sent' = [sent EXCEPT ![b] = @ + 1]
  BY DEF Send, Guest, Runs, life, clocks
<1>2. /\ TypeOK /\ o \in Boards /\ o # b /\ (\A x \in Boards : x = b \/ x = o)
      /\ now[b] \in Nat /\ now[o] \in Nat /\ peerPromise[o] \in Nat /\ promised[b] \in Nat
      /\ sent[b] \in Nat /\ Quantum \in Nat /\ Slack(o) \in Nat /\ Held(o) \in Nat
      /\ Other(o) = b
  <2>1. TypeOK
    BY DEF IInv
  <2>2. sent[b] \in Nat
    BY <2>1 DEF TypeOK
  <2>3. o \in Boards
    BY <2>1, Typed
  <2> QED
    BY <2>1, <2>2, <2>3, Typed, Sizes
<1>3. Linked(b) /\ Opened' = Opened /\ OnLink' = OnLink /\ Linked(o)' = Linked(o)
  BY <1>1, SameOpened DEF On, Linked, OnLink
<1>4. FrameMsg(now[b], sent[b] + 1) \in Msg /\ f \in DueFrame
  BY <1>2 DEF FrameMsg, Msg, DueFrame
<1>5. ASSUME Linked(o)
      PROVE  now[o] <= now[b] + Quantum + Late[o]
  <2>1. Paced(o) /\ Believed(o) /\ Kept(b)
    BY <1>2, <1>5 DEF IInv, Own
  <2>2. now[o] <= peerPromise[o] + Quantum + Slack(o)
    BY <2>1 DEF Paced
  <2>3. peerPromise[o] <= Most(now[b], promised[b])
    BY <1>2, <2>1 DEF Believed, Says
  <2>4. promised[b] <= now[b]
    BY <1>1, <2>1 DEF Kept
  <2>5. peerPromise[o] <= now[b]
    BY <1>2, <2>3, <2>4 DEF Most
  <2>6. Late[o] = Slack(o) + Held(o)
    BY <1>2, OnTheWire
  <2> HIDE DEF o
  <2> QED
    BY <1>2, <2>2, <2>5, <2>6
<1>6. Wire'[b] = Wire[b]
  <2>1. chan'[b] = chan[b]
    BY <1>1, <1>2 DEF SendTo, TypeOK
  <2> QED
    BY <1>1, <2>1 DEF Wire, InFlight
<1>7. ASSUME Linked(o)
      PROVE  Wire'[o] = Append(Wire[o], f)
  <2>1. chan'[o] = Append(chan[o], FrameMsg(now[b], sent[b] + 1))
    BY <1>1, <1>2, <1>7 DEF SendTo, Linked, TypeOK
  <2>2. Frames(chan'[o]) = Append(Frames(chan[o]), Framed(FrameMsg(now[b], sent[b] + 1)))
    <3>1. FrameMsg(now[b], sent[b] + 1).type = "frame" /\ chan[o] \in Seq(Msg)
      BY <1>2, Typed DEF FrameMsg
    <3> QED
      BY <1>4, <2>1, <3>1, FramesAppend
  <2>3. Framed(FrameMsg(now[b], sent[b] + 1)) = f
    BY DEF Framed, FrameMsg
  <2>4. due[o] \in Seq(DueFrame) /\ Frames(chan[o]) \in Seq(DueFrame)
    BY <1>2, OnTheWire, Typed
  <2>5. due[o] \o Append(Frames(chan[o]), f) = Append(due[o] \o Frames(chan[o]), f)
    <3>1. \A x, y \in Seq(DueFrame) : \A e \in DueFrame : x \o Append(y, e) = Append(x \o y, e)
      BY JoinedAppend
    <3> HIDE DEF f
    <3> QED
      BY <1>4, <2>4, <3>1, Zenon
  <2>6. Wire[o] = due[o] \o Frames(chan[o])
    BY <1>2, <1>7, OnTheWire DEF InFlight
  <2>7. Wire'[o] = due'[o] \o Frames(chan'[o])
    BY <1>1, <1>2, <1>7 DEF Wire, InFlight, Linked
  <2> HIDE DEF f
  <2> QED
    BY <1>1, <2>2, <2>3, <2>5, <2>6, <2>7
<1>8. ASSUME ~Linked(o)
      PROVE  Wire'[o] = Wire[o]
  BY <1>1, <1>2, <1>8 DEF Wire, Linked
<1>9. Wire' = IF OnLink[o] THEN [Wire EXCEPT ![o] = Append(@, f)] ELSE Wire
  <2>1. Wire = [x \in Boards |-> Wire[x]] /\ Wire' = [x \in Boards |-> Wire'[x]]
    BY DEF Wire
  <2>2. OnLink[o] <=> Linked(o)
    BY <1>2, OnTheWire
  <2> HIDE DEF f, o
  <2> QED
    BY <1>2, <1>6, <1>7, <1>8, <2>1, <2>2
<1>10. sent'[b] = sent[b] + 1
  BY <1>1, <1>2 DEF TypeOK
<1>11. (OnLink[b] <=> Linked(b)) /\ (OnLink[o] <=> Linked(o))
  BY <1>2, OnTheWire
<1>12. Link!Other(b) = o
  BY DEF Link!Other, Other
<1> QED
  BY <1>1, <1>3, <1>5, <1>9, <1>10, <1>11, <1>12 DEF Link!Put

(* The ends of a program, and of the link, cut the wire. *)
LEMMA CutLink ==
    ASSUME NEW b \in Boards, mode \in [Boards -> {"off", "on", "alone", "gone"}],
           NEW m \in {"alone", "gone"}, mode' = [mode EXCEPT ![b] = m],
           \A o \in Boards \ {b} : due'[o] = due[o] /\ chan'[o] = chan[o],
           UNCHANGED <<now, sent, attached>>
    PROVE  Link!Cut(b)
<1>1. Wire' = [Wire EXCEPT ![b] = <<>>]
  <2>1. Wire'[b] = <<>>
    BY DEF Wire
  <2>2. \A o \in Boards \ {b} : Wire'[o] = Wire[o]
    BY DEF Wire, InFlight
  <2>3. Wire = [x \in Boards |-> Wire[x]] /\ Wire' = [x \in Boards |-> Wire'[x]]
    BY DEF Wire
  <2> QED
    BY <2>1, <2>2, <2>3
<1>2. OnLink' = [OnLink EXCEPT ![b] = FALSE]
  <2>1. OnLink'[b] = FALSE /\ \A o \in Boards \ {b} : OnLink'[o] = OnLink[o]
    <3>1. ~OnLink'[b] /\ \A o \in Boards \ {b} : OnLink'[o] <=> OnLink[o]
      BY DEF OnLink
    <3>2. \A o \in Boards : OnLink[o] \in BOOLEAN /\ OnLink'[o] \in BOOLEAN
      BY DEF OnLink
    <3> QED
      BY <3>1, <3>2
  <2>2. /\ OnLink = [x \in Boards |-> OnLink[x]] /\ OnLink' = [x \in Boards |-> OnLink'[x]]
    BY DEF OnLink
  <2> QED
    BY <2>1, <2>2
<1> QED
  BY <1>1, <1>2, SameOpened DEF Link!Cut


(* A stream cut in two. *)
LEMMA FramesCut ==
    ASSUME NEW s \in Seq(Msg), NEW k \in 0..Len(s)
    PROVE  Frames(s) = Frames(SubSeq(s, 1, k)) \o Frames(SubSeq(s, k + 1, Len(s)))
<1>1. PICK x \in Seq(Msg), y \in Seq(Msg) :
         /\ x = SubSeq(s, 1, k) /\ y = SubSeq(s, k + 1, Len(s))
         /\ Len(x) = k /\ \A i \in 1..k : x[i] = s[i]
         /\ Len(y) = Len(s) - k /\ \A i \in 1..Len(s) - k : y[i] = s[k + i]
  <2>1. /\ SubSeq(s, 1, k) \in Seq(Msg) /\ Len(SubSeq(s, 1, k)) = k
        /\ \A i \in 1..k : SubSeq(s, 1, k)[i] = s[i]
        /\ SubSeq(s, k + 1, Len(s)) \in Seq(Msg)
        /\ Len(SubSeq(s, k + 1, Len(s))) = Len(s) - k
        /\ \A i \in 1..Len(s) - k : SubSeq(s, k + 1, Len(s))[i] = s[k + i]
    BY Cut
  <2> QED
    BY <2>1
<1>2. PICK l \in Nat : l = Len(s)
  OBVIOUS
<1>3. PICK z : z = x \o y
  OBVIOUS
<1>4. /\ z \in Seq(Msg) /\ Len(z) = Len(x) + Len(y)
      /\ \A i \in 1..Len(x) + Len(y) : z[i] = IF i <= Len(x) THEN x[i] ELSE y[i - Len(x)]
  <2>1. x \in Seq(Msg) /\ y \in Seq(Msg)
    BY <1>1
  <2> QED
    BY <1>3, <2>1, ConcatProperties
<1>5. Len(z) = l /\ \A i \in 1..l : z[i] = s[i]
  <2>1. Len(x) = k /\ Len(y) = l - k /\ k \in 0..l
    BY <1>1, <1>2
  <2>2. ASSUME NEW i \in 1..l
        PROVE  z[i] = s[i]
    <3>1. z[i] = IF i <= k THEN x[i] ELSE y[i - k]
      BY <1>4, <2>1
    <3>2. CASE i <= k
      BY <1>1, <2>1, <3>1, <3>2
    <3>3. CASE i > k
      <4>1. i - k \in 1..l - k /\ k + (i - k) = i
        BY <2>1, <3>3
      <4> QED
        BY <1>1, <1>2, <2>1, <3>1, <3>3, <4>1
    <3> QED
      BY <2>1, <3>2, <3>3
  <2> QED
    BY <1>4, <2>1, <2>2
<1>6. z = s
  BY <1>2, <1>4, <1>5, SeqEqual
<1>7. Frames(x \o y) = Frames(x) \o Frames(y)
  BY <1>1, FramesJoined
<1> QED
  BY <1>1, <1>3, <1>6, <1>7

(* What is taken from the front of two queues, when it is all of the first. *)
LEMMA Taken ==
    ASSUME NEW x \in Seq(DueFrame), NEW y \in Seq(DueFrame), NEW h \in 0..Len(x)
    PROVE  /\ h \in 0..Len(x \o y) /\ x \o y \in Seq(DueFrame)
           /\ \A i \in 1..h : (x \o y)[i] = x[i]
           /\ SubSeq(x \o y, h + 1, Len(x \o y)) = SubSeq(x, h + 1, Len(x)) \o y
<1>1. PICK l \in Nat, m \in Nat : l = Len(x) /\ m = Len(y) /\ h \in 0..l
  <2>1. Len(x) \in Nat /\ Len(y) \in Nat
    OBVIOUS
  <2> QED
    BY <2>1
<1>2. PICK z : z = x \o y
  OBVIOUS
<1>3. /\ z \in Seq(DueFrame) /\ Len(z) = l + m
      /\ \A i \in 1..l + m : z[i] = IF i <= l THEN x[i] ELSE y[i - l]
  BY <1>1, <1>2, ConcatProperties
<1>4. h \in 0..Len(z)
  BY <1>1, <1>3
<1>5. PICK u \in Seq(DueFrame) :
         /\ u = SubSeq(z, h + 1, Len(z)) /\ Len(u) = l + m - h
         /\ \A i \in 1..l + m - h : u[i] = z[h + i]
  <2>1. /\ SubSeq(z, h + 1, Len(z)) \in Seq(DueFrame)
        /\ Len(SubSeq(z, h + 1, Len(z))) = Len(z) - h
        /\ \A i \in 1..Len(z) - h : SubSeq(z, h + 1, Len(z))[i] = z[h + i]
    BY <1>3, <1>4, Cut
  <2>2. Len(z) - h = l + m - h
    BY <1>3
  <2> QED
    BY <2>1, <2>2
<1>6. PICK v \in Seq(DueFrame) :
         /\ v = SubSeq(x, h + 1, Len(x)) /\ Len(v) = l - h
         /\ \A i \in 1..l - h : v[i] = x[h + i]
  <2>1. /\ SubSeq(x, h + 1, Len(x)) \in Seq(DueFrame)
        /\ Len(SubSeq(x, h + 1, Len(x))) = Len(x) - h
        /\ \A i \in 1..Len(x) - h : SubSeq(x, h + 1, Len(x))[i] = x[h + i]
    BY Cut
  <2> QED
    BY <1>1, <2>1
<1>7. PICK w : w = v \o y
  OBVIOUS
<1>8. /\ w \in Seq(DueFrame) /\ Len(w) = l - h + m
      /\ \A i \in 1..l - h + m : w[i] = IF i <= l - h THEN v[i] ELSE y[i - (l - h)]
  <2>1. v \in Seq(DueFrame) /\ Len(v) = l - h
    BY <1>6
  <2>2. y \in Seq(DueFrame) /\ Len(y) = m
    BY <1>1
  <2>3. /\ w \in Seq(DueFrame) /\ Len(w) = Len(v) + Len(y)
        /\ \A i \in 1..Len(v) + Len(y) : w[i] = IF i <= Len(v) THEN v[i] ELSE y[i - Len(v)]
    BY <1>7, <2>1, <2>2, ConcatProperties
  <2> QED
    BY <2>1, <2>2, <2>3
<1>9. u = w
  <2>1. u \in Seq(DueFrame) /\ w \in Seq(DueFrame) /\ Len(u) = Len(w)
        /\ Len(u) = l + m - h
    BY <1>1, <1>5, <1>8
  <2>2. ASSUME NEW i \in 1..l + m - h
        PROVE  u[i] = w[i]
    <3>1. h + i \in 1..l + m /\ i \in 1..l - h + m /\ h + i - l = i - (l - h)
          /\ (h + i <= l <=> i <= l - h)
      BY <1>1
    <3>2. u[i] = IF i <= l - h THEN x[h + i] ELSE y[i - (l - h)]
      <4>1. u[i] = z[h + i] /\ z[h + i] = IF h + i <= l THEN x[h + i] ELSE y[h + i - l]
        BY <1>3, <1>5, <3>1
      <4> QED
        BY <3>1, <4>1
    <3>3. i <= l - h => v[i] = x[h + i]
      BY <1>1, <1>6
    <3> QED
      BY <1>8, <3>1, <3>2, <3>3
  <2> QED
    BY <2>1, <2>2, SeqEqual
<1>10. \A i \in 1..h : z[i] = x[i]
  BY <1>1, <1>3
<1> QED
  BY <1>2, <1>3, <1>4, <1>5, <1>6, <1>7, <1>9, <1>10


(* What a pass of cosim_step or bfin_cosim_step hands over it takes from    *)
(* the front of the wire, when it is due; its reports are no frames.        *)
LEMMA TakeLink ==
    ASSUME IInv, TypeOK', NEW b \in Boards, Pass(b)
    PROVE  Link!Take(b) \/ UNCHANGED <<now, Wire, sent, Opened, OnLink>>
<1>1. PICK k \in 0..Len(chan[b]) :
          /\ Drain(b, k)
          /\ \E asleep \in {Asleep(b)}, blocked \in {Blocked(b)'} :
             \E promise \in {Promise(b, asleep)} :
             \E report \in {MustReport(b, promise)} :
             \E told \in {IF report THEN Most(reported[b], now[b]) ELSE reported[b]} :
                Rest(k, b, asleep, blocked, promise, report, told)
  BY DEF Pass, Rest
<1>2. On(b) /\ UNCHANGED <<mode, attached, now, sent>>
  BY DEF Pass, life
<1>3. PICK asleep, blocked, promise, report, told :
         Rest(k, b, asleep, blocked, promise, report, told)
  BY <1>1
<1>4. PICK o \in Boards : o = Other(b) /\ o # b /\ \A x \in Boards : x = b \/ x = o
  BY DEF Boards, Other
<1>5. /\ TypeOK /\ chan \in [Boards -> Seq(Msg)] /\ due \in [Boards -> Seq(DueFrame)]
      /\ chan[b] \in Seq(Msg) /\ due[b] \in Seq(DueFrame) /\ chan[o] \in Seq(Msg)
      /\ chan'[o] \in Seq(Msg)
  BY <1>4 DEF IInv, TypeOK
<1>6. /\ chan'[b] = SubSeq(chan[b], k + 1, Len(chan[b]))
      /\ chan'[o] = chan[o] \/ chan'[o] = Append(chan[o], Time(promise))
  <2>1. PICK rest : /\ rest = [chan EXCEPT ![b] = SubSeq(@, k + 1, Len(@))]
                    /\ chan' = IF report /\ mode[o] # "gone"
                               THEN [rest EXCEPT ![o] = Append(@, Time(promise))]
                               ELSE rest
    BY <1>3, <1>4 DEF Rest
  <2>2. /\ rest[b] = SubSeq(chan[b], k + 1, Len(chan[b])) /\ rest[o] = chan[o]
        /\ DOMAIN rest = Boards
    BY <1>4, <1>5, <2>1
  <2> QED
    BY <1>4, <2>1, <2>2
<1>7. PICK q : q = due[b] \o Frames(SubSeq(chan[b], 1, k)) /\ Handover(b, q)
  BY <1>1 DEF Drain
<1>8. PICK h \in 0..Len(q) :
        /\ h > 0 => Listening(b)
        /\ \A i \in 1..h : q[i].due <= now[b]
        /\ due' = [due EXCEPT ![b] = SubSeq(q, h + 1, Len(q))]
  BY <1>7 DEF Handover
<1>9. PICK f \in Seq(DueFrame), r \in Seq(DueFrame) :
         /\ f = Frames(SubSeq(chan[b], 1, k)) /\ r = Frames(chan'[b])
         /\ Frames(chan[b]) = f \o r
  <2>1. SubSeq(chan[b], 1, k) \in Seq(Msg) /\ SubSeq(chan[b], k + 1, Len(chan[b])) \in Seq(Msg)
    BY <1>5, Cut
  <2>2. /\ Frames(SubSeq(chan[b], 1, k)) \in Seq(DueFrame)
        /\ Frames(SubSeq(chan[b], k + 1, Len(chan[b]))) \in Seq(DueFrame)
    BY <2>1, FramesOf
  <2>3. Frames(chan[b]) = Frames(SubSeq(chan[b], 1, k))
                          \o Frames(SubSeq(chan[b], k + 1, Len(chan[b])))
    BY <1>5, FramesCut
  <2> QED
    BY <1>6, <2>2, <2>3
<1>10. q \in Seq(DueFrame) /\ InFlight(b) = q \o r
  <2>2. f \in Seq(DueFrame) /\ r \in Seq(DueFrame) /\ q = due[b] \o f
    BY <1>7, <1>9
  <2>3. InFlight(b) = due[b] \o (f \o r)
    BY <1>9 DEF InFlight
  <2>4. (due[b] \o f) \o r = due[b] \o (f \o r)
    BY <1>5, <2>2, FramesThrice, Zenon
  <2>5. due[b] \o f \in Seq(DueFrame)
    BY <1>5, <2>2, ConcatProperties
  <2> QED
    BY <2>2, <2>3, <2>4, <2>5
<1>11. /\ h \in 0..Len(InFlight(b)) /\ InFlight(b) \in Seq(DueFrame)
       /\ \A i \in 1..h : InFlight(b)[i] = q[i]
       /\ SubSeq(InFlight(b), h + 1, Len(InFlight(b))) = SubSeq(q, h + 1, Len(q)) \o r
  <2>1. r \in Seq(DueFrame) /\ q \in Seq(DueFrame) /\ h \in 0..Len(q)
    BY <1>8, <1>9, <1>10
  <2>2. /\ h \in 0..Len(q \o r) /\ q \o r \in Seq(DueFrame)
        /\ \A i \in 1..h : (q \o r)[i] = q[i]
        /\ SubSeq(q \o r, h + 1, Len(q \o r)) = SubSeq(q, h + 1, Len(q)) \o r
    BY <2>1, Taken
  <2> QED
    BY <1>10, <2>2
<1>12. InFlight(b)' = SubSeq(InFlight(b), h + 1, Len(InFlight(b)))
  <2>1. due'[b] = SubSeq(q, h + 1, Len(q))
    BY <1>5, <1>8
  <2>2. InFlight(b)' = due'[b] \o Frames(chan'[b])
    BY DEF InFlight
  <2> QED
    BY <1>9, <1>11, <2>1, <2>2
<1>13. InFlight(o)' = InFlight(o)
  <2>1. due'[o] = due[o]
    BY <1>4, <1>5, <1>8
  <2>2. Frames(chan'[o]) = Frames(chan[o])
    <3>1. Time(promise).type # "frame"
      BY DEF Time
    <3> QED
      BY <1>5, <1>6, <3>1, SameFrames
  <2> QED
    BY <2>1, <2>2 DEF InFlight
<1>14. Linked(b) /\ \A x \in Boards : Linked(x)' <=> Linked(x)
  BY <1>2 DEF On, Linked
<1>15. OnLink' = OnLink /\ Opened' = Opened
  BY <1>2, SameOpened DEF OnLink
<1>16. Wire[b] = InFlight(b) /\ OnLink[b] /\ (Opened[b] <=> Listening(b))
  BY <1>5, <1>14, OnTheWire
<1>17. Wire' = [Wire EXCEPT ![b] = SubSeq(@, h + 1, Len(@))]
  <2>1. Wire'[b] = InFlight(b)'
    BY <1>14 DEF Wire, Linked
  <2>2. Wire'[o] = Wire[o]
    BY <1>13, <1>14 DEF Wire, Linked
  <2>3. Wire = [x \in Boards |-> Wire[x]] /\ Wire' = [x \in Boards |-> Wire'[x]]
    BY DEF Wire
  <2> QED
    BY <1>4, <1>12, <1>16, <2>1, <2>2, <2>3
<1>18. CASE h = 0
  <2>1. SubSeq(InFlight(b), 0 + 1, Len(InFlight(b))) = InFlight(b)
    BY <1>11, SubSeqFull
  <2>2. \A x \in Boards : Linked(x) => InFlight(x)' = InFlight(x)
    BY <1>4, <1>12, <1>13, <1>18, <2>1
  <2>3. Wire' = Wire
    BY <1>14, <2>2, SameWire
  <2> QED
    BY <1>2, <1>15, <2>3
<1>19. CASE h # 0
  <2>1. Listening(b) /\ h \in 1..Len(Wire[b])
    BY <1>8, <1>11, <1>16, <1>19
  <2>2. ASSUME NEW i \in 1..h
        PROVE  now[b] \in Wire[b][i].due..(Wire[b][i].due + Late[b])
    <3>1. i \in 1..Len(InFlight(b)) /\ InFlight(b)[i].due <= now[b]
      <4>1. PICK l \in Nat : l = Len(InFlight(b)) /\ h \in 0..l
        BY <1>11
      <4>2. i \in 1..l
        BY <4>1
      <4> QED
        BY <1>8, <1>11, <4>1, <4>2
    <3>2. /\ InFlight(b)[i].due \in Nat
          /\ now[b] <= InFlight(b)[i].due + Late[b]
      BY <1>2, <2>1, <3>1, NoneLate DEF Soon
    <3>3. now[b] \in Nat /\ Late[b] \in Nat
      BY <1>5, Typed, OnTheWire
    <3> QED
      BY <1>16, <3>1, <3>2, <3>3
  <2>3. Link!Take(b)
    BY <1>2, <1>15, <1>16, <1>17, <2>1, <2>2 DEF Link!Take
  <2> QED
    BY <2>3
<1> QED
  BY <1>18, <1>19

(* bfin_cosim_attach_link opens the GUI's end of the link: it takes from    *)
(* the queue all that is overdue.                                           *)
LEMMA ListenLink ==
    ASSUME IInv, IInv', AttachLink
    PROVE  Link!Listen("gui")
<1> DEFINE b == "gui"
<1>1. /\ On(b) /\ ~attached /\ attached' = TRUE
      /\ UNCHANGED <<mode, now, sent, chan>>
  BY DEF AttachLink, Guest, Runs, clocks, words
<1>2. PICK k \in 0..Len(due[b]) :
         /\ \A i \in 1..k : due[b][i].due <= now[b]
         /\ due' = [due EXCEPT ![b] = SubSeq(@, k + 1, Len(@))]
  BY DEF AttachLink
<1>3. /\ b \in Boards /\ "main" \in Boards /\ \A x \in Boards : x = b \/ x = "main"
      /\ TypeOK /\ due \in [Boards -> Seq(DueFrame)] /\ due[b] \in Seq(DueFrame)
      /\ Frames(chan[b]) \in Seq(DueFrame)
  <2>1. b \in Boards /\ TypeOK
    BY DEF Boards, IInv
  <2>2. Frames(chan[b]) \in Seq(DueFrame)
    BY <2>1, OnTheWire
  <2> QED
    BY <2>1, <2>2 DEF Boards, TypeOK
<1>4. PICK w : w = InFlight(b)
  OBVIOUS
<1>5. /\ w \in Seq(DueFrame) /\ k \in 0..Len(w)
      /\ \A i \in 1..k : w[i] = due[b][i]
      /\ InFlight(b)' = SubSeq(w, k + 1, Len(w))
  <2>1. PICK x \in Seq(DueFrame), y \in Seq(DueFrame) :
           x = due[b] /\ y = Frames(chan[b]) /\ w = x \o y /\ k \in 0..Len(x)
    BY <1>2, <1>3, <1>4 DEF InFlight
  <2>2. /\ k \in 0..Len(x \o y) /\ x \o y \in Seq(DueFrame)
        /\ \A i \in 1..k : (x \o y)[i] = x[i]
        /\ SubSeq(x \o y, k + 1, Len(x \o y)) = SubSeq(x, k + 1, Len(x)) \o y
    <3>1. x \in Seq(DueFrame) /\ y \in Seq(DueFrame) /\ k \in 0..Len(x)
      BY <2>1
    <3> QED
      BY <3>1, Taken
  <2>3. due'[b] = SubSeq(x, k + 1, Len(x))
    BY <1>2, <1>3, <2>1
  <2>4. InFlight(b)' = due'[b] \o y
    BY <1>1, <2>1 DEF InFlight
  <2> QED
    BY <2>1, <2>2, <2>3, <2>4
<1>6. Linked(b) /\ \A x \in Boards : Linked(x)' <=> Linked(x)
  BY <1>1 DEF On, Linked
<1>7. Wire[b] = w /\ OnLink[b] /\ ~Opened[b] /\ OnLink' = OnLink
  <2>1. ~Listening(b)
    BY <1>1 DEF Listening
  <2> QED
    BY <1>1, <1>3, <1>4, <1>6, <2>1, OnTheWire DEF OnLink
<1>8. Opened' = [Opened EXCEPT ![b] = TRUE]
  <2>1. Opened'[b] /\ Opened'["main"] /\ Opened["main"]
    BY <1>1, <1>3 DEF Opened, Listening
  <2>2. \A x \in Boards : Opened[x] \in BOOLEAN /\ Opened'[x] \in BOOLEAN
    BY <1>1 DEF Opened, Listening, TypeOK
  <2>3. Opened'[b] = TRUE /\ Opened'["main"] = Opened["main"]
    BY <1>3, <2>1, <2>2
  <2>4. Opened = [x \in Boards |-> Opened[x]] /\ Opened' = [x \in Boards |-> Opened'[x]]
    BY DEF Opened
  <2> QED
    BY <1>3, <2>3, <2>4
<1>9. Wire' = [Wire EXCEPT ![b] = SubSeq(@, k + 1, Len(@))]
  <2>1. Wire'[b] = InFlight(b)'
    BY <1>3, <1>6 DEF Wire, Linked
  <2>2. Wire'["main"] = Wire["main"]
    <3>1. due'["main"] = due["main"]
      BY <1>2, <1>3
    <3> QED
      BY <1>1, <1>3, <3>1 DEF Wire, InFlight
  <2>3. Wire = [x \in Boards |-> Wire[x]] /\ Wire' = [x \in Boards |-> Wire'[x]]
    BY DEF Wire
  <2> HIDE DEF b
  <2> QED
    BY <1>3, <1>5, <1>7, <2>1, <2>2, <2>3
<1>10. ASSUME NEW i \in (k + 1)..Len(w)
       PROVE  now[b] <= w[i].due + Late[b]
  <2>1. PICK l \in Nat : l = Len(w) /\ k \in 0..l
    BY <1>5
  <2>2. PICK v : v = InFlight(b)'
    OBVIOUS
  <2>3. /\ Len(v) = Len(w) - k /\ \A j \in 1..Len(w) - k : v[j] = w[k + j]
    BY <1>5, <2>2, Cut
  <2>4. i - k \in 1..Len(v) /\ v[i - k] = w[i]
    BY <2>1, <2>3
  <2>5. On(b)' /\ Listening(b)' /\ Late' = Late
    BY <1>1 DEF On, Listening, Late, Slack, Held
  <2>6. now'[b] <= InFlight(b)'[i - k].due + Late'[b]
    <3>1. Soon'
      BY NoneLateNext
    <3> QED
      BY <1>3, <2>2, <2>4, <2>5, <3>1 DEF Soon
  <2> QED
    BY <1>1, <2>2, <2>4, <2>5, <2>6
<1> QED
  BY <1>1, <1>2, <1>5, <1>7, <1>8, <1>9, <1>10 DEF Link!Listen


(* A message that is no frame, to a board: nothing for the wire. *)
LEMMA SpeakLink ==
    ASSUME TypeOK, TypeOK', NEW o \in Boards, NEW m, m.type # "frame", chan' = SendTo(o, m),
           UNCHANGED <<now, sent, due, attached>>,
           \A b \in Boards : Linked(b)' <=> Linked(b)
    PROVE  UNCHANGED <<now, Wire, sent, Opened, OnLink>>
<1>1. ASSUME NEW b \in Boards
      PROVE  InFlight(b)' = InFlight(b)
  <2>1. chan[b] \in Seq(Msg) /\ chan'[b] \in Seq(Msg)
    BY DEF TypeOK
  <2>2. chan'[b] = chan[b] \/ chan'[b] = Append(chan[b], m)
    BY DEF SendTo, TypeOK
  <2>3. Frames(chan'[b]) = Frames(chan[b])
    BY <2>1, <2>2, SameFrames
  <2> QED
    BY <2>3 DEF InFlight
<1> QED
  BY <1>1, SameWire, SameOpened

(* Every step of the two boards is a step of the wire, or none. *)
LEMMA StepLink ==
    ASSUME ~HostInput, IInv, [Next]_vars
    PROVE  [Link!Next]_(Link!vars)
<1> DEFINE Still == UNCHANGED <<now, Wire, sent, Opened, OnLink>>
<1>1. IInv'
  BY Keeps
<1>2. TypeOK /\ TypeOK'
  BY <1>1 DEF IInv
<1>3. Still => [Link!Next]_(Link!vars)
  BY DEF Link!vars
<1>4. ASSUME NEW b \in Boards,
             Link!Pass(b) \/ Link!Put(b) \/ Link!Take(b) \/ Link!Listen(b) \/ Link!Cut(b)
      PROVE  [Link!Next]_(Link!vars)
  <2>1. b \in Link!Boards
    BY DEF Boards, Link!Boards
  <2> QED
    BY <1>4, <2>1 DEF Link!Next
<1>5. CASE UNCHANGED <<mode, now, sent, due, chan, attached>>
  <2>1. \A b \in Boards : (Linked(b)' <=> Linked(b)) /\ InFlight(b)' = InFlight(b)
    BY <1>5 DEF Linked, InFlight
  <2> QED
    BY <1>3, <1>5, <2>1, SameWire, SameOpened
<1>6. CASE GuiConnect
  <2>1. /\ mode' = [mode EXCEPT !["gui"] = "on"] /\ mode["gui"] = "off"
        /\ chan' = SendTo("main", Hello)
        /\ UNCHANGED <<now, sent, due, attached>>
    BY <1>6 DEF GuiConnect, clocks, words
  <2>2. \A b \in Boards : Linked(b)' <=> Linked(b)
    BY <1>2, <2>1 DEF Linked, TypeOK
  <2>3. "main" \in Boards /\ Hello.type # "frame"
    BY DEF Boards, Hello
  <2>4. Still
    BY <1>2, <2>1, <2>2, <2>3, SpeakLink
  <2> QED
    BY <1>3, <2>4
<1>7. CASE MainAccept
  <2>1. /\ mode' = [mode EXCEPT !["main"] = "on"] /\ mode["main"] = "off"
        /\ chan' = SendTo("gui", Hello)
        /\ UNCHANGED <<now, sent, due, attached>>
    BY <1>7 DEF MainAccept, clocks, words
  <2>2. \A b \in Boards : Linked(b)' <=> Linked(b)
    BY <1>2, <2>1 DEF Linked, TypeOK
  <2>3. "gui" \in Boards /\ Hello.type # "frame"
    BY DEF Boards, Hello
  <2>4. Still
    BY <1>2, <2>1, <2>2, <2>3, SpeakLink
  <2> QED
    BY <1>3, <2>4
<1>8. CASE AcceptTimeout
  <2>1. /\ mode' = [mode EXCEPT !["main"] = "alone"]
        /\ UNCHANGED <<now, sent, due, chan, attached>>
    BY <1>8 DEF AcceptTimeout, clocks, words
  <2>2. "main" \in Boards
    BY DEF Boards
  <2>3. Link!Cut("main")
    BY <1>2, <2>1, <2>2, CutLink DEF TypeOK
  <2> QED
    BY <1>4, <2>2, <2>3
<1>9. CASE AttachLink
  <2>1. Link!Listen("gui") /\ "gui" \in Boards
    BY <1>1, <1>9, ListenLink DEF Boards
  <2> QED
    BY <1>4, <2>1
<1>10. CASE RunsOn
  <2>1. /\ mode["main"] = "alone" /\ now' = [now EXCEPT !["main"] = @ + 1]
        /\ UNCHANGED <<mode, due, chan, attached, sent>>
    BY <1>10 DEF RunsOn, life, words
  <2>2. /\ "main" \in Boards /\ Other("main") \in Boards /\ Other("main") # "main"
        /\ now["main"] \in Nat
    BY <1>2, Typed DEF Boards
  <2>3. now'["main"] > now["main"] /\ now'[Other("main")] = now[Other("main")]
    BY <1>2, <2>1, <2>2 DEF TypeOK
  <2>4. ~Linked("main")
    BY <2>1 DEF Linked
  <2>5. Link!Pass("main")
    BY <1>1, <1>2, <2>1, <2>2, <2>3, <2>4, PassLink
  <2> QED
    BY <1>4, <2>2, <2>5
<1>11. ASSUME NEW b \in Boards, Tick(b) \/ Doze(b)
       PROVE  Link!Pass(b)
  <2>1. /\ Other(b) \in Boards /\ Other(b) # b /\ now[b] \in Nat
        /\ next[b] \in Nat /\ timer[b] \in Nat
    BY <1>2, Typed
  <2>2. On(b) /\ UNCHANGED <<mode, due, chan, attached, sent>>
    BY <1>11 DEF Tick, Doze, Guest, Runs, life, words
  <2>3. now'[b] > now[b] /\ now'[Other(b)] = now[Other(b)]
    <3>1. CASE Tick(b)
      <4>1. PICK c \in Cycles(b) : now' = [now EXCEPT ![b] = @ + c]
        BY <3>1 DEF Tick
      <4>2. c \in Nat /\ c > 0
        BY Numbers DEF Cycles
      <4> QED
        BY <1>2, <2>1, <4>1, <4>2 DEF TypeOK
    <3>2. CASE Doze(b)
      <4>1. PICK target : target = IF b = "gui" /\ timer[b] = Never THEN now[b] + 1 ELSE timer[b]
        OBVIOUS
      <4>2. /\ now' = [now EXCEPT ![b] = Least(MaxTime, Least(next[b], target))]
            /\ now[b] < next[b] /\ now[b] < timer[b] /\ now[b] < MaxTime
        BY <3>2, <4>1 DEF Doze, Guest
      <4>3. target \in Nat /\ target > now[b] /\ MaxTime \in Nat
        BY <2>1, <4>1, <4>2, Numbers
      <4>4. Least(MaxTime, Least(next[b], target)) > now[b]
        BY <2>1, <4>2, <4>3 DEF Least
      <4> QED
        BY <1>2, <2>1, <4>2, <4>4 DEF TypeOK
    <3> QED
      BY <1>11, <3>1, <3>2
  <2> QED
    BY <1>1, <1>2, <2>2, <2>3, PassLink
<1>12. ASSUME NEW b \in Boards, Quit(b) \/ Lost(b)
       PROVE  Link!Cut(b)
  <2>1. PICK m \in {"alone", "gone"} :
           /\ mode' = [mode EXCEPT ![b] = m]
           /\ Drop(b) /\ UNCHANGED <<now, sent, attached>>
    BY <1>12 DEF Quit, Lost, clocks, words
  <2>2. \A o \in Boards \ {b} : due'[o] = due[o] /\ chan'[o] = chan[o]
    BY <1>2, <2>1 DEF Drop, TypeOK
  <2> QED
    BY <1>2, <2>1, <2>2, CutLink DEF TypeOK
<1>13. ASSUME NEW b \in Boards, TimerFires(b) \/ Sleep(b)
       PROVE  UNCHANGED <<mode, now, sent, due, chan, attached>>
  BY <1>13 DEF TimerFires, Sleep, life, clocks, words
<1>14. ASSUME NEW b \in Boards, Progress(b) \/ Sleep(b) \/ Send(b) \/ Quit(b)
       PROVE  [Link!Next]_(Link!vars)
  <2>1. CASE Pass(b)
    <3>1. Link!Take(b) \/ Still
      BY <1>2, <2>1, TakeLink
    <3> HIDE DEF Still
    <3> QED
      BY <1>3, <1>4, <3>1
  <2>2. CASE Send(b)
    BY <1>4, <2>2, SendLink
  <2>3. CASE Tick(b) \/ Doze(b)
    BY <1>4, <1>11, <2>3
  <2>4. CASE Quit(b) \/ Lost(b)
    BY <1>4, <1>12, <2>4
  <2>5. CASE TimerFires(b) \/ Sleep(b)
    BY <1>5, <1>13, <2>5
  <2> QED
    BY <1>14, <2>1, <2>2, <2>3, <2>4, <2>5 DEF Progress
<1>15. CASE UNCHANGED vars
  BY <1>5, <1>15 DEF vars
<1>16. ~HostWake
  BY DEF HostWake
<1> QED
  BY <1>6, <1>7, <1>8, <1>9, <1>10, <1>14, <1>15, <1>16 DEF Next

(* Before the first step there is nothing on the wire. *)
LEMMA StartsLink == Init => Link!Init
<1> SUFFICES ASSUME Init
             PROVE  Link!Init
  OBVIOUS
<1>1. Boards = Link!Boards
  BY DEF Boards, Link!Boards
<1>2. now = [b \in Boards |-> 0] /\ sent = [b \in Boards |-> 0]
  BY DEF Init
<1>3. Wire = [b \in Boards |-> <<>>]
  <2>1. ASSUME NEW b \in Boards
        PROVE  InFlight(b) = <<>>
    <3>1. due[b] = <<>> /\ chan[b] = <<>>
      BY DEF Init
    <3>2. <<>> \o <<>> = <<>>
      OBVIOUS
    <3> QED
      BY <3>1, <3>2, FramesNone DEF InFlight
  <2> QED
    BY <2>1 DEF Wire
<1>4. Opened \in [Boards -> BOOLEAN]
  BY DEF Init, Opened, Listening
<1>5. OnLink = [b \in Boards |-> TRUE]
  BY DEF Init, OnLink
<1> QED
  BY <1>1, <1>2, <1>3, <1>4, <1>5 DEF Link!Init

(* cosim_step, bfin_cosim_step and the two TCP streams between them are a   *)
(* wire of fixed latency: a frame sent at guest time t is taken when the    *)
(* other board's clock reads t and one quantum, no earlier, and later by no *)
(* more than an instruction (and for what the GUI's link finds when it is   *)
(* opened, half a quantum); in order, none twice and none missing until the *)
(* link is cut.  For every quantum, length of an instruction, number of     *)
(* frames and schedule, unless the host wakes a sleeping MAIN.              *)
THEOREM BoardsAreWired == ~HostInput => (Spec => LinkSpec)
<1> SUFFICES ASSUME ~HostInput
             PROVE  Spec => LinkSpec
  OBVIOUS
<1>1. Init => IInv /\ Link!Init
  BY Starts, StartsLink
<1>2. IInv /\ [Next]_vars => IInv'
  BY Keeps
<1>3. IInv /\ [Next]_vars => [Link!Next]_(Link!vars)
  BY StepLink
<1> QED
  BY <1>1, <1>2, <1>3, PTL DEF Spec, LinkSpec, Link!Spec
=============================================================================
