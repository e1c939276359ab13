--------------------------- MODULE NetSyncProofs ---------------------------
(***************************************************************************)
(* Theorems about the two-player network clock and its hub, for any set of *)
(* players, quantum, capture, and for any program ending at any time.      *)
(*                                                                         *)
(* First what the operators compute (a set of numbers has a least one; a   *)
(* player's queue after a run of messages; what of it is ripe; what the    *)
(* hub grants), then the invariant NetInv and one lemma for each kind of   *)
(* step that keeps it, then the theorems that follow from it.              *)
(***************************************************************************)
EXTENDS NetSync, FiniteSetTheorems, SequenceTheorems, WellFoundedInduction, TLAPS

DueRec == [due : Nat, src : Players \cup {"hub"}, n : Nat]

ClientRec == [conn : {"none", "open", "closed"}, joined : BOOLEAN,
              t : Nat, promise : Nat, granted : Int]

Framed(m) == [due |-> m.t + Quantum, src |-> m.src, n |-> m.n]

(* A queue in time order, and one of which nothing is due before t. *)
InOrder(q) == \A i, j \in 1..Len(q) : i <= j => q[i].due <= q[j].due
NotBefore(q, t) == \A i \in 1..Len(q) : t <= q[i].due

-----------------------------------------------------------------------------
(* The constants, and a set of numbers. *)

LEMMA Numbers ==
    /\ Half \in Nat \ {0} /\ Quantum \in Nat /\ Quantum = 2 * Half
    /\ MaxTime \in Nat /\ Ahead \in Nat
    /\ Never \in Nat /\ Never = MaxTime + 3 * Quantum + Ahead
<1>1. Half \in Nat \ {0} /\ MaxTime \in Nat /\ Ahead \in Nat
  BY NetSyncAssumption
<1> QED
  BY <1>1 DEF Quantum, Never

(* What the hub was started with. *)
LEMMA SetupOf ==
    ASSUME NEW s \in Setups
    PROVE  /\ s.decks \in 1..Cardinality(Players) /\ s.asks \in BOOLEAN
           /\ s.replay \in Seq(0..MaxTime)
           /\ \A i, j \in 1..Len(s.replay) : i <= j => s.replay[i] <= s.replay[j]
           /\ s.end \in 0..MaxTime
           /\ s.nap \in [Players -> 0..Quantum] /\ s.sends \in [Players -> Nat]
  BY NetSyncAssumption

LEMMA LeastNumber ==
    ASSUME NEW T, T \subseteq Nat, T # {}
    PROVE  \E n \in T : \A m \in T : n <= m
<1> DEFINE R == {s \in Nat \X Nat : s[1] < s[2]}
<1>1. OpToRel(<, Nat) = R
  BY DEF OpToRel
<1>2. IsWellFoundedOn(R, Nat)
  BY <1>1, NatLessThanWellFounded
<1>3. \E n \in T : \A m \in T : ~(<<m, n>> \in R)
  <2> HIDE DEF R
  <2> QED
    BY <1>2, WFMin
<1>4. \A m, n \in Nat : m < n => <<m, n>> \in R
  OBVIOUS
<1> HIDE DEF R
<1>5. PICK n \in T : \A m \in T : ~(<<m, n>> \in R)
  BY <1>3
<1>6. ASSUME NEW m \in T
      PROVE  n <= m
  <2>1. n \in Nat /\ m \in Nat
    BY <1>5
  <2>2. ~(m < n)
    BY <1>4, <1>5, <2>1
  <2> QED
    BY <2>1, <2>2
<1> QED
  BY <1>6

(* One that is bounded has a greatest one: the furthest from the bound is   *)
(* the least distance.                                                     *)
LEMMA GreatestNumber ==
    ASSUME NEW T, T \subseteq Nat, T # {}, NEW b \in Nat, \A m \in T : m <= b
    PROVE  \E n \in T : \A m \in T : m <= n
<1> DEFINE D == {d \in 0..b : b - d \in T}
<1>1. D \subseteq Nat
  OBVIOUS
<1>2. D # {}
  <2>1. PICK m \in T : TRUE
    OBVIOUS
  <2>2. b - m \in 0..b /\ b - (b - m) = m
    BY <2>1
  <2>3. b - m \in D
    BY <2>1, <2>2
  <2> QED
    BY <2>3
<1>3. PICK d \in D : \A e \in D : d <= e
  <2> HIDE DEF D
  <2> QED
    BY <1>1, <1>2, LeastNumber
<1>4. b - d \in T /\ d \in 0..b
  OBVIOUS
<1>5. ASSUME NEW m \in T
      PROVE  m <= b - d
  <2>1. m \in Nat /\ m <= b
    OBVIOUS
  <2>2. b - m \in 0..b /\ b - (b - m) = m
    BY <2>1
  <2>3. d <= b - m
    BY <1>3, <2>2
  <2> QED
    BY <1>4, <2>1, <2>3
<1> QED
  BY <1>4, <1>5

-----------------------------------------------------------------------------
(* A beginning of a sequence and what remains of it. *)

LEMMA Beginning ==
    ASSUME NEW S, NEW s \in Seq(S), NEW k \in 0..Len(s)
    PROVE  /\ SubSeq(s, 1, k) \in Seq(S) /\ Len(SubSeq(s, 1, k)) = k
           /\ \A i \in 1..k : SubSeq(s, 1, k)[i] = s[i]
<1>1. Len(s) \in Nat /\ \A i \in 1..Len(s) : s[i] \in S
  OBVIOUS
<1>2. \A i \in 1..k : s[i] \in S
  BY <1>1
<1> QED
  BY <1>1, <1>2, SubSeqProperties

LEMMA Remainder ==
    ASSUME NEW S, NEW s \in Seq(S), NEW k \in 0..Len(s)
    PROVE  /\ SubSeq(s, k + 1, Len(s)) \in Seq(S)
           /\ Len(SubSeq(s, k + 1, Len(s))) = Len(s) - k
           /\ \A i \in 1..(Len(s) - k) : SubSeq(s, k + 1, Len(s))[i] = s[k + i]
<1>1. Len(s) \in Nat /\ \A i \in 1..Len(s) : s[i] \in S
  OBVIOUS
<1> DEFINE r == SubSeq(s, k + 1, Len(s))
<1>2. \A i \in (k + 1)..Len(s) : s[i] \in S
  BY <1>1
<1>3. /\ r \in Seq(S)
      /\ Len(r) = IF k + 1 <= Len(s) THEN Len(s) - (k + 1) + 1 ELSE 0
      /\ \A i \in 1..(Len(s) - (k + 1) + 1) : r[i] = s[(k + 1) + i - 1]
  BY <1>1, <1>2, SubSeqProperties
<1> HIDE DEF r
<1>4. PICK l \in Nat : l = Len(s) /\ k \in 0..l
  BY <1>1
<1>5. ASSUME NEW i \in 1..(Len(s) - k)
      PROVE  r[i] = s[k + i]
  <2>1. (k + 1) + i - 1 = k + i /\ i \in 1..(Len(s) - (k + 1) + 1)
    BY <1>4
  <2> QED
    BY <1>3, <2>1
<1>6. Len(r) = Len(s) - k
  BY <1>3, <1>4
<1> QED
  BY <1>3, <1>5, <1>6 DEF r

-----------------------------------------------------------------------------
(* A player's queue. *)

(* The place the code looks for in the queue is there. *)
LEMMA PlaceExists ==
    ASSUME NEW q \in Seq(DueRec), InOrder(q), NEW t \in Nat
    PROVE  \E k \in 0..Len(q) : /\ \A i \in (k + 1)..Len(q) : q[i].due > t
                                /\ k > 0 => q[k].due <= t
<1>0. Len(q) \in Nat /\ \A i \in 1..Len(q) : q[i].due \in Nat
  <2>1. \A i \in 1..Len(q) : q[i] \in DueRec
    OBVIOUS
  <2> QED
    BY <2>1 DEF DueRec
<1> DEFINE T == {i \in 1..Len(q) : q[i].due > t}
<1>1. CASE T = {}
  <2>1. \A i \in 1..Len(q) : q[i].due <= t
    BY <1>0, <1>1
  <2>2. /\ Len(q) \in 0..Len(q) /\ (Len(q) + 1)..Len(q) = {}
        /\ Len(q) > 0 => Len(q) \in 1..Len(q)
    BY <1>0
  <2> QED
    BY <2>1, <2>2
<1>2. CASE T # {}
  <2>1. T \subseteq Nat
    OBVIOUS
  <2>2. PICK h \in T : \A m \in T : h <= m
    <3> HIDE DEF T
    <3> QED
      BY <1>2, <2>1, LeastNumber
  <2>3. h \in 1..Len(q) /\ q[h].due > t
    BY <2>2
  <2>4. \A i \in ((h - 1) + 1)..Len(q) : q[i].due > t
    <3> SUFFICES ASSUME NEW i \in ((h - 1) + 1)..Len(q)
                 PROVE  q[i].due > t
      OBVIOUS
    <3>1. i \in 1..Len(q) /\ h <= i
      BY <1>0, <2>3
    <3>2. q[h].due <= q[i].due
      BY <2>3, <3>1 DEF InOrder
    <3> QED
      BY <1>0, <2>3, <3>1, <3>2
  <2>5. (h - 1) > 0 => q[h - 1].due <= t
    <3> SUFFICES ASSUME (h - 1) > 0 PROVE q[h - 1].due <= t
      OBVIOUS
    <3>1. h - 1 \in 1..Len(q) /\ ~(h <= h - 1)
      BY <1>0, <2>3
    <3>2. h - 1 \notin T
      BY <2>2, <3>1
    <3> QED
      BY <1>0, <3>1, <3>2
  <2>6. h - 1 \in 0..Len(q)
    BY <1>0, <2>3
  <2> QED
    BY <2>4, <2>5, <2>6
<1> QED
  BY <1>1, <1>2

(* Queued adds the frame, loses nothing and keeps the order. *)
LEMMA QueuedKeepsOrder ==
    ASSUME NEW q \in Seq(DueRec), InOrder(q), NEW f \in DueRec
    PROVE  /\ Queued(q, f) \in Seq(DueRec)
           /\ InOrder(Queued(q, f))
           /\ \A x : x \in ToSet(Queued(q, f)) <=> x \in ToSet(q) \/ x = f
<1>0. /\ Len(q) \in Nat /\ f.due \in Nat
      /\ \A i \in 1..Len(q) : q[i] \in DueRec /\ q[i].due \in Nat
  <2>1. \A i \in 1..Len(q) : q[i] \in DueRec
    OBVIOUS
  <2> QED
    BY <2>1 DEF DueRec
<1> DEFINE Place(k) == /\ \A i \in (k + 1)..Len(q) : q[i].due > f.due
                       /\ k > 0 => q[k].due <= f.due
           k == CHOOSE k \in 0..Len(q) : Place(k)
           r == (SubSeq(q, 1, k) \o <<f>>) \o SubSeq(q, k + 1, Len(q))
<1>1. Queued(q, f) = r
  BY DEF Queued
<1>2. k \in 0..Len(q) /\ Place(k)
  <2>1. \E h \in 0..Len(q) : Place(h)
    BY <1>0, PlaceExists
  <2> QED
    BY <2>1
<1> HIDE DEF k
<1>3. /\ SubSeq(q, 1, k) \in Seq(DueRec) /\ Len(SubSeq(q, 1, k)) = k
      /\ \A i \in 1..k : SubSeq(q, 1, k)[i] = q[i]
  BY <1>2, Beginning
<1>4. /\ SubSeq(q, k + 1, Len(q)) \in Seq(DueRec) /\ Len(SubSeq(q, k + 1, Len(q))) = Len(q) - k
      /\ \A i \in 1..(Len(q) - k) : SubSeq(q, k + 1, Len(q))[i] = q[k + i]
  BY <1>2, Remainder
<1>5. <<f>> \in Seq(DueRec) /\ Len(<<f>>) = 1 /\ <<f>>[1] = f
  OBVIOUS
<1>6. /\ r \in Seq(DueRec) /\ Len(r) = Len(q) + 1
      /\ \A i \in 1..k : r[i] = q[i]
      /\ r[k + 1] = f
      /\ \A i \in (k + 1)..Len(q) : r[i + 1] = q[i]
  <2> DEFINE a == SubSeq(q, 1, k)  c == SubSeq(q, k + 1, Len(q))  b == a \o <<f>>
  <2>1. /\ b \in Seq(DueRec) /\ Len(b) = k + 1
        /\ \A i \in 1..k : b[i] = q[i]
        /\ b[k + 1] = f
    <3> HIDE DEF a
    <3>1. /\ b \in Seq(DueRec) /\ Len(b) = Len(a) + 1
          /\ \A i \in 1..(Len(a) + 1) : b[i] = IF i <= Len(a) THEN a[i] ELSE <<f>>[i - Len(a)]
      BY <1>3, <1>5, ConcatProperties DEF a
    <3>2. Len(a) = k /\ \A i \in 1..k : a[i] = q[i]
      BY <1>3 DEF a
    <3>3. b[k + 1] = <<f>>[1]
      <4>1. k + 1 \in 1..(Len(a) + 1) /\ ~(k + 1 <= Len(a)) /\ (k + 1) - Len(a) = 1
        BY <1>0, <1>2, <3>2
      <4> QED
        BY <3>1, <4>1
    <3>4. \A i \in 1..k : b[i] = q[i]
      <4>1. \A i \in 1..k : i \in 1..(Len(a) + 1) /\ i <= Len(a)
        BY <1>0, <1>2, <3>2
      <4> QED
        BY <3>1, <3>2, <4>1
    <3>5. Len(b) = k + 1
      BY <3>1, <3>2
    <3> HIDE DEF b
    <3> QED
      BY <1>5, <3>1, <3>3, <3>4, <3>5
  <2> HIDE DEF b
  <2>2. /\ b \o c \in Seq(DueRec) /\ Len(b \o c) = Len(b) + Len(c)
        /\ \A i \in 1..(Len(b) + Len(c)) :
              (b \o c)[i] = IF i <= Len(b) THEN b[i] ELSE c[i - Len(b)]
    BY <1>4, <2>1, ConcatProperties
  <2>3. Len(c) = Len(q) - k /\ \A i \in 1..(Len(q) - k) : c[i] = q[k + i]
    BY <1>4
  <2> HIDE DEF c
  <2>4. Len(b \o c) = Len(q) + 1
    BY <1>0, <1>2, <2>1, <2>2, <2>3
  <2>5. \A i \in 1..(k + 1) : (b \o c)[i] = b[i]
    BY <1>0, <1>2, <2>1, <2>2, <2>3
  <2>6. ASSUME NEW i \in (k + 1)..Len(q)
        PROVE  (b \o c)[i + 1] = q[i]
    <3>1. i + 1 \in 1..(Len(b) + Len(c)) /\ ~(i + 1 <= Len(b)) /\ (i + 1) - Len(b) = i - k
      BY <1>0, <1>2, <2>1, <2>3
    <3>2. i - k \in 1..(Len(q) - k) /\ k + (i - k) = i
      BY <1>0, <1>2
    <3>3. (b \o c)[i + 1] = c[i - k]
      BY <2>2, <3>1
    <3> QED
      BY <2>3, <3>2, <3>3
  <2>7. r = b \o c
    BY DEF b, c
  <2>8. \A i \in 1..k : i \in 1..(k + 1) /\ k + 1 \in 1..(k + 1)
    BY <1>2
  <2>9. k + 1 \in 1..(k + 1)
    BY <1>2
  <2> HIDE DEF r
  <2> QED
    BY <2>1, <2>2, <2>4, <2>5, <2>6, <2>7, <2>8, <2>9
<1> HIDE DEF r
<1>7. \A i \in 1..k : i \in 1..Len(q)
  BY <1>0, <1>2
<1>8. \A i \in (k + 1)..Len(q) : i \in 1..Len(q)
  BY <1>0, <1>2
<1>9. ASSUME NEW i \in 1..Len(r)
      PROVE  \/ i \in 1..k /\ r[i] = q[i]
             \/ i = k + 1 /\ r[i] = f
             \/ i - 1 \in (k + 1)..Len(q) /\ r[i] = q[i - 1]
  <2>1. i \in 1..(Len(q) + 1)
    BY <1>6
  <2>2. i \in 1..k \/ i = k + 1 \/ i - 1 \in (k + 1)..Len(q)
    BY <1>0, <1>2, <2>1
  <2>3. (i - 1) + 1 = i
    BY <2>1
  <2> QED
    BY <1>6, <2>2, <2>3
<1>10. InOrder(r)
  <2> SUFFICES ASSUME NEW i \in 1..Len(r), NEW j \in 1..Len(r), i <= j
               PROVE  r[i].due <= r[j].due
    BY DEF InOrder
  <2>0. i \in Int /\ j \in Int /\ k \in Int /\ f.due <= f.due
    BY <1>0, <1>2, <1>6
  <2>1. ASSUME NEW m \in 1..k
        PROVE  q[m].due <= f.due
    <3>1. k > 0 /\ m <= k /\ k \in 1..Len(q)
      BY <1>0, <1>2
    <3>2. q[m].due <= q[k].due
      BY <1>7, <3>1 DEF InOrder
    <3>3. q[k].due <= f.due
      BY <1>2, <3>1
    <3> QED
      BY <1>0, <1>7, <3>1, <3>2, <3>3
  <2>2. \A m \in (k + 1)..Len(q) : f.due <= q[m].due
    BY <1>0, <1>2, <1>8
  <2>3. \A m, o \in 1..Len(q) : m <= o => q[m].due <= q[o].due
    BY DEF InOrder
  <2>4. CASE i \in 1..k /\ r[i] = q[i]
    <3>1. CASE j \in 1..k /\ r[j] = q[j]
      BY <1>7, <2>3, <2>4, <3>1
    <3>2. CASE j = k + 1 /\ r[j] = f
      BY <2>1, <2>4, <3>2
    <3>3. CASE j - 1 \in (k + 1)..Len(q) /\ r[j] = q[j - 1]
      <4>1. i <= j - 1
        BY <2>0, <2>4, <3>3
      <4> QED
        BY <1>7, <1>8, <2>3, <2>4, <3>3, <4>1
    <3> QED
      BY <1>9, <3>1, <3>2, <3>3
  <2>5. CASE i = k + 1 /\ r[i] = f
    <3>1. CASE j \in 1..k /\ r[j] = q[j]
      BY <2>0, <2>5, <3>1
    <3>2. CASE j = k + 1 /\ r[j] = f
      BY <2>0, <2>5, <3>2
    <3>3. CASE j - 1 \in (k + 1)..Len(q) /\ r[j] = q[j - 1]
      BY <2>2, <2>5, <3>3
    <3> QED
      BY <1>9, <3>1, <3>2, <3>3
  <2>6. CASE i - 1 \in (k + 1)..Len(q) /\ r[i] = q[i - 1]
    <3>1. j - 1 \in (k + 1)..Len(q) /\ r[j] = q[j - 1]
      BY <1>9, <2>0, <2>6
    <3>2. i - 1 <= j - 1
      BY <2>0
    <3> QED
      BY <1>8, <2>3, <2>6, <3>1, <3>2
  <2> QED
    BY <1>9, <2>4, <2>5, <2>6
<1>11. DOMAIN r = 1..Len(r) /\ DOMAIN q = 1..Len(q)
  BY <1>6
<1>12. ASSUME NEW x
       PROVE  x \in ToSet(r) <=> x \in ToSet(q) \/ x = f
  <2>1. ASSUME x \in ToSet(r)
        PROVE  x \in ToSet(q) \/ x = f
    <3>1. PICK i \in 1..Len(r) : x = r[i]
      BY <1>11, <2>1 DEF ToSet
    <3> QED
      BY <1>7, <1>8, <1>9, <1>11, <3>1 DEF ToSet
  <2>2. ASSUME x = f
        PROVE  x \in ToSet(r)
    <3>1. k + 1 \in 1..Len(r)
      BY <1>0, <1>2, <1>6
    <3> QED
      BY <1>6, <1>11, <2>2, <3>1 DEF ToSet
  <2>3. ASSUME x \in ToSet(q)
        PROVE  x \in ToSet(r)
    <3>1. PICK i \in 1..Len(q) : x = q[i]
      BY <1>11, <2>3 DEF ToSet
    <3>2. CASE i \in 1..k
      <4>1. i \in 1..Len(r)
        BY <1>0, <1>6, <3>1
      <4> QED
        BY <1>6, <1>11, <3>1, <3>2, <4>1 DEF ToSet
    <3>3. CASE i \in (k + 1)..Len(q)
      <4>1. i + 1 \in 1..Len(r)
        BY <1>0, <1>6, <3>1
      <4> QED
        BY <1>6, <1>11, <3>1, <3>3, <4>1 DEF ToSet
    <3> QED
      BY <1>0, <1>2, <3>1, <3>2, <3>3
  <2> QED
    BY <2>1, <2>2, <2>3
<1> QED
  BY <1>1, <1>6, <1>10, <1>12

(* Reading one message keeps the queue in order, and adds it if it is a     *)
(* frame.                                                                   *)
Queues == {q \in Seq(DueRec) : InOrder(q)}

LEMMA TakeKeeps ==
    ASSUME NEW q \in Queues, NEW m \in DownMsg
    PROVE  /\ Take(q, m) \in Queues
           /\ \A x : x \in ToSet(Take(q, m)) <=>
                        x \in ToSet(q) \/ (m.type = "frame" /\ x = Framed(m))
<1>1. q \in Seq(DueRec) /\ InOrder(q)
  BY DEF Queues
<1>2. Framed(m) \in DueRec
  <2>1. m.t \in Nat /\ m.src \in Players \cup {"hub"} /\ m.n \in Nat
    BY DEF DownMsg
  <2>2. m.t + Quantum \in Nat
    BY <2>1, Numbers
  <2> QED
    BY <2>1, <2>2 DEF Framed, DueRec
<1>3. CASE m.type = "frame"
  <2>1. Take(q, m) = Queued(q, Framed(m))
    BY <1>3 DEF Take, Framed
  <2>2. /\ Queued(q, Framed(m)) \in Seq(DueRec)
        /\ InOrder(Queued(q, Framed(m)))
        /\ \A x : x \in ToSet(Queued(q, Framed(m))) <=> x \in ToSet(q) \/ x = Framed(m)
    BY <1>1, <1>2, QueuedKeepsOrder
  <2> QED
    BY <1>3, <2>1, <2>2 DEF Queues
<1>4. CASE m.type # "frame"
  BY <1>4 DEF Take
<1> QED
  BY <1>3, <1>4

(* QueueAfter reads one message after the other: there is such a function,  *)
(* since there is one for every beginning of the stream.                    *)
LEMMA QueueBuilt ==
    ASSUME NEW q \in Queues, NEW s \in Seq(DownMsg)
    PROVE  \E f : /\ QueueAfter(q, s) = f[Len(s)] /\ f[0] = q
                  /\ \A i \in 0..Len(s) : f[i] \in Queues
                  /\ \A i \in 1..Len(s) : f[i] = Take(f[i - 1], s[i])
<1> DEFINE Body(g, i) == IF i = 0 THEN q ELSE Take(g[i - 1], s[i])
           Upto == CHOOSE g : g = [i \in 0..Len(s) |-> Body(g, i)]
           Begun(n) == \E g \in [0..n -> Queues] : \A i \in 0..n : g[i] = Body(g, i)
<1>1. QueueAfter(q, s) = Upto[Len(s)]
  BY DEF QueueAfter
<1>2. Len(s) \in Nat /\ \A i \in 1..Len(s) : s[i] \in DownMsg
  OBVIOUS
<1>3. ASSUME NEW i \in 1..Len(s), NEW g, g[i - 1] \in Queues
      PROVE  Body(g, i) \in Queues
  <2>1. Body(g, i) = Take(g[i - 1], s[i])
    OBVIOUS
  <2> QED
    BY <1>2, <1>3, <2>1, TakeKeeps
<1>4. \A n \in 0..Len(s) : Begun(n)
  <2> DEFINE T == {n \in 0..Len(s) : ~Begun(n)}
  <2> SUFFICES ASSUME T # {} PROVE FALSE
    OBVIOUS
  <2> HIDE DEF Begun
  <2>0. T \subseteq Nat
    OBVIOUS
  <2>1. PICK n \in T : \A m \in T : n <= m
    <3> HIDE DEF T
    <3> QED
      BY <2>0, LeastNumber
  <2>2. n \in 0..Len(s) /\ ~Begun(n)
    BY <2>1
  <2>3. n # 0
    <3>1. Begun(0)
      <4> DEFINE g == [i \in 0..0 |-> q]
      <4>1. g \in [0..0 -> Queues] /\ \A i \in 0..0 : g[i] = Body(g, i)
        OBVIOUS
      <4> QED
        BY <4>1 DEF Begun
    <3> QED
      BY <2>2, <3>1
  <2>4. Begun(n - 1)
    <3>1. n - 1 \in 0..Len(s) /\ ~(n <= n - 1)
      BY <2>2, <2>3
    <3> QED
      BY <2>1, <3>1
  <2>5. PICK g \in [0..(n - 1) -> Queues] : \A i \in 0..(n - 1) : g[i] = Body(g, i)
    BY <2>4 DEF Begun
  <2> DEFINE h == [i \in 0..n |-> IF i = n THEN Body(g, n) ELSE g[i]]
  <2>6. n \in 1..Len(s) /\ n - 1 \in 0..(n - 1) /\ n \in Nat
    BY <2>2, <2>3
  <2>7. Body(g, n) \in Queues
    <3>1. g[n - 1] \in Queues
      BY <2>5, <2>6
    <3> QED
      BY <1>3, <2>6, <3>1
  <2>8. h \in [0..n -> Queues]
    <3>1. \A i \in 0..n : i # n => i \in 0..(n - 1)
      BY <2>6
    <3> HIDE DEF Body
    <3> QED
      BY <2>5, <2>7, <3>1
  <2>9. ASSUME NEW i \in 0..n
        PROVE  h[i] = Body(h, i)
    <3>1. CASE i = 0
      BY <2>3, <2>5, <2>6, <3>1
    <3>2. CASE i # 0
      <4>1. i - 1 \in 0..n /\ i - 1 # n
        BY <2>6, <3>2
      <4>2. h[i - 1] = g[i - 1]
        BY <4>1
      <4>3. Body(h, i) = Body(g, i)
        BY <3>2, <4>2
      <4>4. CASE i = n
        BY <4>3, <4>4
      <4>5. CASE i # n
        <5>1. i \in 0..(n - 1)
          BY <2>6, <4>5
        <5> QED
          BY <2>5, <4>3, <4>5, <5>1
      <4> QED
        BY <4>4, <4>5
    <3> QED
      BY <3>1, <3>2
  <2>10. Begun(n)
    <3> HIDE DEF h, Body
    <3> QED
      BY <2>8, <2>9 DEF Begun
  <2> QED
    BY <2>2, <2>10
<1>5. PICK g \in [0..Len(s) -> Queues] : \A i \in 0..Len(s) : g[i] = Body(g, i)
  <2>1. Len(s) \in 0..Len(s)
    BY <1>2
  <2>2. Begun(Len(s))
    <3> HIDE DEF Begun
    <3> QED
      BY <1>4, <2>1
  <2> QED
    BY <2>2
<1>6. g = [i \in 0..Len(s) |-> Body(g, i)]
  BY <1>5
<1>7. Upto = [i \in 0..Len(s) |-> Body(Upto, i)]
  BY <1>6
<1> HIDE DEF Upto
<1>8. \A i \in 0..Len(s) : Upto[i] = Body(Upto, i)
  BY <1>7
<1>9. \A i \in 0..Len(s) : Upto[i] \in Queues
  <2> DEFINE T == {n \in 0..Len(s) : Upto[n] \notin Queues}
  <2> SUFFICES ASSUME T # {} PROVE FALSE
    OBVIOUS
  <2>0. T \subseteq Nat
    OBVIOUS
  <2>1. PICK n \in T : \A m \in T : n <= m
    <3> HIDE DEF T
    <3> QED
      BY <2>0, LeastNumber
  <2>2. n \in 0..Len(s) /\ Upto[n] \notin Queues
    BY <2>1
  <2>3. n # 0
    <3>1. 0 \in 0..Len(s) /\ Body(Upto, 0) = q
      BY <1>2
    <3>2. Upto[0] = q
      BY <1>8, <3>1
    <3>3. Upto[0] \in Queues
      BY <3>2
    <3> HIDE DEF T, Body
    <3> QED
      BY <2>2, <3>3, Zenon
  <2>4. n \in 1..Len(s) /\ n - 1 \in 0..Len(s) /\ ~(n <= n - 1)
    BY <2>2, <2>3
  <2>5. Upto[n - 1] \in Queues
    BY <2>1, <2>4
  <2>6. Body(Upto, n) \in Queues
    BY <1>3, <2>4, <2>5
  <2> HIDE DEF Body
  <2> QED
    BY <1>8, <2>2, <2>6
<1>10. Upto[0] = q /\ \A i \in 1..Len(s) : Upto[i] = Take(Upto[i - 1], s[i])
  <2>1. 0 \in 0..Len(s) /\ Body(Upto, 0) = q
    BY <1>2
  <2>2. \A i \in 1..Len(s) : i \in 0..Len(s) /\ Body(Upto, i) = Take(Upto[i - 1], s[i])
    OBVIOUS
  <2> HIDE DEF Body
  <2> QED
    BY <1>8, <2>1, <2>2
<1> QED
  BY <1>1, <1>9, <1>10

(* The queue after the messages s holds what it held and the frames of s,   *)
(* in order.                                                                *)
LEMMA QueueAfterHolds ==
    ASSUME NEW q \in Seq(DueRec), InOrder(q), NEW s \in Seq(DownMsg)
    PROVE  /\ QueueAfter(q, s) \in Seq(DueRec) /\ InOrder(QueueAfter(q, s))
           /\ \A x : x \in ToSet(QueueAfter(q, s)) <=>
                 \/ x \in ToSet(q)
                 \/ \E j \in 1..Len(s) : s[j].type = "frame" /\ x = Framed(s[j])
<1>0. q \in Queues
  BY DEF Queues
<1>1. PICK f : /\ QueueAfter(q, s) = f[Len(s)] /\ f[0] = q
               /\ \A i \in 0..Len(s) : f[i] \in Queues
               /\ \A i \in 1..Len(s) : f[i] = Take(f[i - 1], s[i])
  BY <1>0, QueueBuilt
<1>2. Len(s) \in Nat /\ \A i \in 1..Len(s) : s[i] \in DownMsg
  OBVIOUS
<1> DEFINE Came(i, x) == \E j \in 1..i : s[j].type = "frame" /\ x = Framed(s[j])
           Good(i) == \A x : x \in ToSet(f[i]) <=> x \in ToSet(q) \/ Came(i, x)
           T == {i \in 0..Len(s) : ~Good(i)}
<1>3. T = {}
  <2> SUFFICES ASSUME T # {} PROVE FALSE
    OBVIOUS
  <2>0. T \subseteq Nat
    OBVIOUS
  <2>1. PICK n \in T : \A m \in T : n <= m
    <3> HIDE DEF T
    <3> QED
      BY <2>0, LeastNumber
  <2>2. n \in 0..Len(s) /\ ~Good(n)
    BY <2>1
  <2>3. n # 0
    <3>1. ~ \E j \in 1..0 : TRUE
      OBVIOUS
    <3>2. Good(0)
      BY <1>1, <3>1
    <3> QED
      BY <2>2, <3>2
  <2>4. n \in 1..Len(s) /\ n - 1 \in 0..Len(s) /\ ~(n <= n - 1) /\ n - 1 \in Nat
    BY <2>2, <2>3
  <2>5. Good(n - 1)
    BY <2>1, <2>4
  <2>6. f[n] = Take(f[n - 1], s[n]) /\ f[n - 1] \in Queues /\ s[n] \in DownMsg
    BY <1>1, <1>2, <2>4
  <2>7. \A x : x \in ToSet(f[n]) <=>
           x \in ToSet(f[n - 1]) \/ (s[n].type = "frame" /\ x = Framed(s[n]))
    BY <2>6, TakeKeeps
  <2>8. ASSUME NEW x
        PROVE  Came(n, x) <=> Came(n - 1, x) \/ (s[n].type = "frame" /\ x = Framed(s[n]))
    <3>1. \A j : j \in 1..n <=> j \in 1..(n - 1) \/ j = n
      BY <2>4
    <3> QED
      BY <3>1
  <2> HIDE DEF Came
  <2>9. Good(n)
    BY <2>5, <2>7, <2>8
  <2> QED
    BY <2>2, <2>9
<1>4. Len(s) \in 0..Len(s)
  BY <1>2
<1>5. Good(Len(s))
  BY <1>3, <1>4
<1>6. f[Len(s)] \in Queues
  BY <1>1, <1>4
<1>7. f[Len(s)] \in Seq(DueRec) /\ InOrder(f[Len(s)])
  BY <1>6 DEF Queues
<1> QED
  BY <1>1, <1>5, <1>7

(* So when nothing in the queue and no frame of the messages is due before  *)
(* t, nothing in the queue after them is.                                   *)
LEMMA QueueAfterNotBefore ==
    ASSUME NEW q \in Seq(DueRec), InOrder(q), NEW s \in Seq(DownMsg), NEW t \in Int,
           NotBefore(q, t), \A j \in 1..Len(s) : s[j].type = "frame" => t <= s[j].t + Quantum
    PROVE  NotBefore(QueueAfter(q, s), t)
<1> DEFINE r == QueueAfter(q, s)
<1>1. r \in Seq(DueRec)
      /\ \A x : x \in ToSet(r) <=>
             \/ x \in ToSet(q)
             \/ \E j \in 1..Len(s) : s[j].type = "frame" /\ x = Framed(s[j])
  BY QueueAfterHolds
<1> HIDE DEF r
<1>2. SUFFICES ASSUME NEW i \in 1..Len(r)
               PROVE  t <= r[i].due
  BY DEF NotBefore, r
<1>3. r[i] \in ToSet(r)
  BY <1>1 DEF ToSet
<1>4. CASE r[i] \in ToSet(q)
  <2>1. PICK k \in 1..Len(q) : r[i] = q[k]
    BY <1>4 DEF ToSet
  <2> QED
    BY <2>1 DEF NotBefore
<1>5. CASE \E j \in 1..Len(s) : s[j].type = "frame" /\ r[i] = Framed(s[j])
  <2>1. PICK j \in 1..Len(s) : s[j].type = "frame" /\ r[i] = Framed(s[j])
    BY <1>5
  <2>2. r[i].due = s[j].t + Quantum
    BY <2>1 DEF Framed
  <2> QED
    BY <2>1, <2>2
<1> QED
  BY <1>1, <1>3, <1>4, <1>5

(* What is ripe is a beginning of the queue: what stays is not ripe.        *)
LEMMA RipePrefix ==
    ASSUME NEW q \in Seq(DueRec), InOrder(q), NEW t \in Nat
    PROVE  LET m == Cardinality({i \in 1..Len(q) : \A j \in 1..i : q[j].due <= t})
           IN  /\ m \in 0..Len(q)
               /\ \A i \in 1..m : q[i].due <= t
               /\ \A i \in (m + 1)..Len(q) : t < q[i].due
<1>0. Len(q) \in Nat /\ \A i \in 1..Len(q) : q[i].due \in Nat
  <2>1. \A i \in 1..Len(q) : q[i] \in DueRec
    OBVIOUS
  <2> QED
    BY <2>1 DEF DueRec
<1>1. PICK k \in 0..Len(q) : /\ \A i \in (k + 1)..Len(q) : q[i].due > t
                             /\ k > 0 => q[k].due <= t
  BY PlaceExists
<1> DEFINE R == {i \in 1..Len(q) : \A j \in 1..i : q[j].due <= t}
<1>2. \A i \in 1..k : q[i].due <= t
  <2> SUFFICES ASSUME NEW i \in 1..k PROVE q[i].due <= t
    OBVIOUS
  <2>1. k > 0 /\ i \in 1..Len(q) /\ k \in 1..Len(q) /\ i <= k
    BY <1>0
  <2>2. q[i].due <= q[k].due
    BY <2>1 DEF InOrder
  <2> QED
    BY <1>0, <1>1, <2>1, <2>2
<1>3. R = 1..k
  <2>1. ASSUME NEW i \in 1..k
        PROVE  i \in R
    <3>1. i \in 1..Len(q) /\ \A j \in 1..i : j \in 1..k
      BY <1>0
    <3> QED
      BY <1>2, <3>1
  <2>2. ASSUME NEW i \in R
        PROVE  i \in 1..k
    <3>1. i \in 1..Len(q) /\ i \in 1..i
      OBVIOUS
    <3>2. q[i].due <= t
      BY <3>1
    <3>3. i \notin (k + 1)..Len(q)
      BY <1>0, <1>1, <3>1, <3>2
    <3> QED
      BY <1>0, <3>1, <3>3
  <2> QED
    BY <2>1, <2>2
<1>4. Cardinality(1..k) = k
  <2>1. k \in Nat /\ 1 \in Int /\ k \in Int
    BY <1>0
  <2>2. Cardinality(1..k) = IF 1 > k THEN 0 ELSE k - 1 + 1
    BY <2>1, FS_Interval
  <2> QED
    BY <2>1, <2>2
<1> QED
  BY <1>0, <1>1, <1>2, <1>3, <1>4

-----------------------------------------------------------------------------
(* What is granted. *)

(* The grant a player knows after the messages s is the greatest it has     *)
(* been given.                                                              *)
LEMMA GrantAfterIsGreatest ==
    ASSUME NEW g \in Nat, NEW s \in Seq(DownMsg), NEW b \in Nat, g <= b,
           \A i \in 1..Len(s) : s[i].type = "time" => s[i].t <= b
    PROVE  /\ GrantAfter(g, s) \in g..b
           /\ \/ GrantAfter(g, s) = g
              \/ \E i \in 1..Len(s) : s[i].type = "time" /\ GrantAfter(g, s) = s[i].t
           /\ \A i \in 1..Len(s) : s[i].type = "time" => s[i].t <= GrantAfter(g, s)
<1> DEFINE Times == {s[i].t : i \in {j \in 1..Len(s) : s[j].type = "time"}}
           grants == {g} \cup Times
           m == CHOOSE h \in grants : \A x \in grants : x <= h
<1>1. GrantAfter(g, s) = m
  BY DEF GrantAfter
<1>2. \A i \in 1..Len(s) : s[i].t \in Nat
  <2>1. \A i \in 1..Len(s) : s[i] \in DownMsg
    OBVIOUS
  <2> QED
    BY <2>1 DEF DownMsg
<1>3. \A x \in Times : \E i \in 1..Len(s) : s[i].type = "time" /\ x = s[i].t
  OBVIOUS
<1>4. \A i \in 1..Len(s) : s[i].type = "time" => s[i].t \in Times
  OBVIOUS
<1> HIDE DEF Times
<1>5. grants \subseteq Nat /\ grants # {} /\ \A x \in grants : x <= b
  BY <1>2, <1>3
<1>6. \E h \in grants : \A x \in grants : x <= h
  <2> HIDE DEF grants
  <2> QED
    BY <1>5, GreatestNumber
<1>7. m \in grants /\ \A x \in grants : x <= m
  <2> HIDE DEF grants
  <2> QED
    BY <1>6
<1> HIDE DEF m
<1>8. m \in Nat /\ g <= m /\ m <= b
  BY <1>5, <1>7
<1>9. m = g \/ \E i \in 1..Len(s) : s[i].type = "time" /\ m = s[i].t
  BY <1>3, <1>7
<1>10. \A i \in 1..Len(s) : s[i].type = "time" => s[i].t <= m
  BY <1>4, <1>7
<1> QED
  BY <1>1, <1>8, <1>9, <1>10

(* The replay's next frame is never due before one already pushed.          *)
LEMMA ReplayGoesOn ==
    ASSUME setup \in Setups,
           NEW r \in 0..Len(setup.replay), NEW x \in r..Len(setup.replay)
    PROVE  /\ ReplayDue(r) \in 0..Never
           /\ ReplayDue(r) <= ReplayDue(x)
           /\ \A i \in 1..(x - r) : /\ setup.replay[r + i] \in Nat
                                    /\ ReplayDue(r) <= setup.replay[r + i]
<1> DEFINE l == Len(setup.replay)
<1>1. /\ l \in Nat
      /\ \A i \in 1..l : setup.replay[i] \in 0..MaxTime
      /\ \A i, j \in 1..l : i <= j => setup.replay[i] <= setup.replay[j]
  <2>1. setup.replay \in Seq(0..MaxTime)
    BY SetupOf
  <2>2. \A i \in 1..l : setup.replay[i] \in 0..MaxTime
    BY <2>1, ElementOfSeq
  <2>3. \A i, j \in 1..l : i <= j => setup.replay[i] <= setup.replay[j]
    BY SetupOf
  <2> QED
    BY <2>1, <2>2, <2>3
<1>2. MaxTime \in Nat /\ Never \in Nat /\ MaxTime <= Never
  BY Numbers
<1>3. r \in Nat /\ x \in Nat /\ r <= x /\ x <= l
  BY <1>1
<1>4. ReplayDue(r) = IF r < l THEN setup.replay[r + 1] ELSE Never
  BY DEF ReplayDue
<1>5. ReplayDue(x) = IF x < l THEN setup.replay[x + 1] ELSE Never
  BY DEF ReplayDue
<1> HIDE DEF l
<1>6. r < l => r + 1 \in 1..l
  BY <1>1, <1>3
<1>7. x < l => x + 1 \in 1..l
  BY <1>1, <1>3
<1>8. ReplayDue(r) \in 0..Never
  BY <1>1, <1>2, <1>4, <1>6
<1>9. ReplayDue(r) <= ReplayDue(x)
  <2>1. CASE x < l
    <3>1. r < l /\ r + 1 <= x + 1
      BY <1>1, <1>3, <2>1
    <3> QED
      BY <1>1, <1>4, <1>5, <1>6, <1>7, <2>1, <3>1
  <2>2. CASE ~(x < l)
    BY <1>2, <1>5, <1>8, <2>2
  <2> QED
    BY <2>1, <2>2
<1>10. ASSUME NEW i \in 1..(x - r)
       PROVE  setup.replay[r + i] \in Nat /\ ReplayDue(r) <= setup.replay[r + i]
  <2>1. r < l /\ r + i \in 1..l /\ r + 1 <= r + i
    BY <1>1, <1>3
  <2> QED
    BY <1>1, <1>2, <1>4, <1>6, <2>1
<1> QED
  BY <1>8, <1>9, <1>10

LEMMA PushedGoesOn ==
    ASSUME setup \in Setups, replayed \in 0..Len(setup.replay), NEW c
    PROVE  Pushed(c) \in replayed..Len(setup.replay)
<1> DEFINE l == Len(setup.replay)
           ready == {r \in replayed..l :
                       \A i \in (replayed + 1)..r :
                          \E p \in Clients(c) : setup.replay[i] <= c[p].t + Ahead}
           m == CHOOSE r \in ready : \A x \in ready : x <= r
<1>1. Pushed(c) = m
  BY DEF Pushed
<1>2. l \in Nat
  <2>1. setup.replay \in Seq(0..MaxTime)
    BY SetupOf
  <2> QED
    BY <2>1
<1> HIDE DEF l
<1>3. replayed \in 0..l
  BY DEF l
<1>4. ready \subseteq Nat /\ \A x \in ready : x <= l
  BY <1>2, <1>3
<1>5. replayed \in ready
  <2>1. replayed \in replayed..l /\ (replayed + 1)..replayed = {}
    BY <1>2, <1>3
  <2> QED
    BY <2>1
<1> HIDE DEF ready
<1>6. \E r \in ready : \A x \in ready : x <= r
  <2>1. ready # {}
    BY <1>5
  <2> QED
    BY <1>2, <1>4, <2>1, GreatestNumber
<1>7. m \in ready
  BY <1>6
<1>8. m \in replayed..l
  <2> HIDE DEF m
  <2> QED
    BY <1>7 DEF ready
<1> QED
  BY <1>1, <1>8 DEF l

(* A grant is no later than any other player's promise and than the replay, *)
(* and is nothing while too few have joined.                                *)
LEMMA GrantBounded ==
    ASSUME setup \in Setups, NEW c \in [Players -> ClientRec],
           NEW r \in 0..Len(setup.replay), NEW p \in Players
    PROVE  /\ GrantOf(c, r, p) \in 0..Never
           /\ GrantOf(c, r, p) <= ReplayDue(r)
           /\ \A q \in Joined(c) \ {p} : GrantOf(c, r, p) <= c[q].promise
           /\ GrantOf(c, r, p) > 0 => Cardinality(Joined(c)) >= setup.decks
<1> DEFINE Promises == {c[q].promise : q \in Joined(c) \ {p}}
           bounds == Promises \cup {ReplayDue(r)}
           m == CHOOSE g \in bounds : \A h \in bounds : g <= h
           n == Cardinality(Joined(c))
<1>1. GrantOf(c, r, p) = IF n < setup.decks THEN 0 ELSE m
  BY DEF GrantOf
<1>2. \A q \in Players : c[q].promise \in Nat
  <2>1. \A q \in Players : c[q] \in ClientRec
    OBVIOUS
  <2> QED
    BY <2>1 DEF ClientRec
<1>3. \A q \in Joined(c) : q \in Players
  BY DEF Joined, Clients
<1>4. ReplayDue(r) \in 0..Never /\ Never \in Nat
  <2>1. r \in r..Len(setup.replay)
    OBVIOUS
  <2> QED
    BY <2>1, ReplayGoesOn, Numbers
<1>5. \A x \in Promises : \E q \in Joined(c) : x = c[q].promise
  OBVIOUS
<1>6. \A q \in Joined(c) \ {p} : c[q].promise \in Promises
  OBVIOUS
<1> HIDE DEF Promises
<1>7. bounds \subseteq Nat /\ bounds # {} /\ ReplayDue(r) \in bounds
  BY <1>2, <1>3, <1>4, <1>5
<1>8. \A q \in Joined(c) \ {p} : c[q].promise \in bounds
  BY <1>6
<1> HIDE DEF bounds
<1>9. m \in bounds /\ \A h \in bounds : m <= h
  BY <1>7, LeastNumber
<1> HIDE DEF m
<1>10. m \in Nat /\ m <= ReplayDue(r) /\ \A q \in Joined(c) \ {p} : m <= c[q].promise
  BY <1>7, <1>8, <1>9
<1>11. m \in 0..Never
  BY <1>4, <1>10
<1>12. setup.decks \in Nat /\ n \in Int
  <2>1. setup.decks \in 1..Cardinality(Players) /\ IsFiniteSet(Players)
    BY SetupOf, NetSyncAssumption
  <2>2. Cardinality(Players) \in Nat
    BY <2>1, FS_CardinalityType
  <2>3. Joined(c) \in SUBSET Players
    BY <1>3
  <2>4. IsFiniteSet(Joined(c))
    BY <2>1, <2>3, FS_Subset
  <2>5. n \in Nat
    BY <2>4, FS_CardinalityType
  <2> QED
    BY <2>1, <2>2, <2>5
<1> HIDE DEF n
<1>13. CASE n < setup.decks
  <2>1. GrantOf(c, r, p) = 0
    BY <1>1, <1>13
  <2>2. \A q \in Joined(c) \ {p} : 0 <= c[q].promise
    BY <1>2, <1>3
  <2> QED
    BY <1>4, <2>1, <2>2
<1>14. CASE ~(n < setup.decks)
  <2>1. GrantOf(c, r, p) = m
    BY <1>1, <1>14
  <2>2. n >= setup.decks
    BY <1>12, <1>14
  <2> QED
    BY <1>10, <1>11, <2>1, <2>2 DEF n
<1> QED
  BY <1>13, <1>14

-----------------------------------------------------------------------------
(* The invariant. *)

NetTypes ==
    /\ setup \in Setups
    /\ mode \in [Players -> {"off", "on", "alone", "gone"}]
    /\ pc \in [Players -> {"run", "wait"}]
    /\ now \in [Players -> 0..setup.end]
    /\ next \in [Players -> 0..Never]
    /\ reported \in [Players -> 0..Never]
    /\ promised \in [Players -> 0..Never]
    /\ peerPromise \in [Players -> 0..Never]
    /\ due \in [Players -> Seq(DueRec)]
    /\ awake \in [Players -> BOOLEAN]
    /\ timer \in [Players -> 0..Never]
    /\ sent \in [Players -> Nat]
    /\ up \in [Players -> Seq(UpMsg)]
    /\ down \in [Players -> Seq(DownMsg)]
    /\ hubUp \in BOOLEAN
    /\ client \in [Players -> ClientRec]
    /\ replayed \in 0..Len(setup.replay)
    /\ known \in BOOLEAN

(* A player's promise holds while it sleeps: it wakes no earlier, by its    *)
(* timer, by a frame it has or by one that may still come.                  *)
Kept(p) ==
    \/ promised[p] <= now[p]
    \/ /\ ~awake[p] /\ promised[p] <= timer[p]
       /\ promised[p] <= peerPromise[p] + Quantum
       /\ NotBefore(due[p], promised[p])

(* A player stops at its horizon and at the first frame it has.             *)
Paced(p) ==
    /\ now[p] <= peerPromise[p] + Quantum
    /\ NotBefore(due[p], now[p])
    /\ pc[p] = "run" => /\ now[p] <= next[p] /\ next[p] <= peerPromise[p] + Quantum
                        /\ NotBefore(due[p], next[p])

Own(p) ==
    /\ InOrder(due[p]) /\ reported[p] <= now[p]
    /\ mode[p] \in {"off", "on"} => Kept(p) /\ Paced(p)

(* What a player has promised, if only by its clock.                        *)
Says(p) == Most(now[p], promised[p])

(* The stream to the hub never takes a promise back, and holds what lies    *)
(* between what the hub has heard and what the player says.                 *)
Rising(s) ==
    /\ \A i, j \in 1..Len(s) : i <= j => s[i].promise <= s[j].promise
    /\ \A i \in 1..Len(s) : s[i].type = "frame" => s[i].t = s[i].promise

UpSound(c, u, p) ==
    /\ Rising(u[p]) /\ c[p].promise <= Says(p)
    /\ \A i \in 1..Len(u[p]) : c[p].promise <= u[p][i].promise /\ u[p][i].promise <= Says(p)
    /\ mode[p] = "off" => u[p] = <<>> /\ c[p] = NoClient
    /\ c[p].conn = "none" => c[p] = NoClient
    /\ c[p].conn = "closed" => u[p] = <<>> /\ mode[p] = "gone"

Started == {p \in Players : mode[p] # "off"}

AllIn(c) == \A p \in Players : ~ToStart(p) /\ (mode[p] # "off" => c[p].joined)

(* A grant is no later than the promises of all others, heard from all.     *)
Granted(c, r, p) ==
    /\ -1 <= c[p].granted /\ c[p].granted <= ReplayDue(r)
    /\ \A q \in Players \ {p} : q \in Joined(c) => c[p].granted <= c[q].promise
    /\ c[p].granted > 0 => AllIn(c)

(* The stream to the player: no grant beyond the hub's, and no frame before *)
(* a grant that precedes it.                                                *)
DownSound(c, d, p) ==
    /\ peerPromise[p] = 0 \/ peerPromise[p] <= c[p].granted
    /\ \A i \in 1..Len(d[p]) :
          /\ d[p][i].type = "frame" => peerPromise[p] <= d[p][i].t
          /\ d[p][i].type = "time" => d[p][i].t <= c[p].granted
    /\ \A i, j \in 1..Len(d[p]) : i <= j /\ d[p][i].type = "time" => d[p][i].t <= d[p][j].t

HubInv(c, d, u, r) ==
    \A p \in Players : UpSound(c, u, p) /\ Granted(c, r, p) /\ DownSound(c, d, p)

NetInv ==
    /\ NetTypes
    /\ Cardinality(Started) <= setup.decks
    /\ \A p \in Players : Own(p)
    /\ HubInv(client, down, up, replayed)

-----------------------------------------------------------------------------
(* A step of a player, as the hub sees it. *)

(* The mode of a player only goes on: it starts while the hub waits for it, *)
(* and leaves the segment for good.                                         *)
ModeGoesOn(p) ==
    \/ mode'[p] = mode[p]
    \/ mode[p] = "off" /\ ToStart(p) /\ mode'[p] = "on"
    \/ mode[p] = "on" /\ mode'[p] \in {"alone", "gone"}

(* It says nothing, or what is no less than it said and no more than it     *)
(* says now.                                                                *)
SpeaksUp(p) ==
    \/ up'[p] = up[p]
    \/ \E m \in UpMsg : /\ up'[p] = Append(up[p], m)
                        /\ mode[p] \in {"off", "on"} /\ mode'[p] = "on"
                        /\ Says(p) <= m.promise /\ m.promise <= Says(p)'
                        /\ m.type = "frame" => m.t = m.promise

OthersRest(p) ==
    \A q \in Players \ {p} : /\ mode'[q] = mode[q] /\ now'[q] = now[q]
                             /\ promised'[q] = promised[q]
                             /\ peerPromise'[q] = peerPromise[q]
                             /\ up'[q] = up[q] /\ down'[q] = down[q]
                             /\ pc'[q] = pc[q] /\ next'[q] = next[q]
                             /\ reported'[q] = reported[q] /\ due'[q] = due[q]
                             /\ awake'[q] = awake[q] /\ timer'[q] = timer[q]

LEMMA StreamSoundUp ==
    ASSUME NetTypes, NetTypes', NEW p \in Players, UpSound(client, up, p),
           client' = client, Says(p) <= Says(p)', ModeGoesOn(p), SpeaksUp(p)
    PROVE  UpSound(client, up, p)'
<1>1. /\ client[p] \in ClientRec /\ client[p].promise \in Nat
      /\ now[p] \in Nat /\ promised[p] \in Nat /\ now'[p] \in Nat /\ promised'[p] \in Nat
      /\ up[p] \in Seq(UpMsg)
  <2>1. client[p] \in ClientRec /\ up[p] \in Seq(UpMsg)
    BY DEF NetTypes
  <2>2. now[p] \in Nat /\ promised[p] \in Nat
    BY SetupOf, Numbers DEF NetTypes
  <2>3. now'[p] \in Nat /\ promised'[p] \in Nat
    BY SetupOf, Numbers DEF NetTypes
  <2> QED
    BY <2>1, <2>2, <2>3 DEF ClientRec
<1> DEFINE x == Says(p)  y == Says(p)'
<1>2. x \in Nat /\ y \in Nat /\ x <= y
  BY <1>1 DEF Says, Most
<1>3. /\ Rising(up[p]) /\ client[p].promise <= x
      /\ \A i \in 1..Len(up[p]) : client[p].promise <= up[p][i].promise /\ up[p][i].promise <= x
      /\ mode[p] = "off" => up[p] = <<>> /\ client[p] = NoClient
      /\ client[p].conn = "none" => client[p] = NoClient
      /\ client[p].conn = "closed" => up[p] = <<>> /\ mode[p] = "gone"
  BY DEF UpSound
<1>4. \A i \in 1..Len(up[p]) : up[p][i].promise \in Nat
  <2>1. \A i \in 1..Len(up[p]) : up[p][i] \in UpMsg
    BY <1>1
  <2> QED
    BY <2>1 DEF UpMsg
<1>5. client'[p] = client[p]
  OBVIOUS
<1>6. SUFFICES
        /\ Rising(up'[p]) /\ client[p].promise <= y
        /\ \A i \in 1..Len(up'[p]) :
              client[p].promise <= up'[p][i].promise /\ up'[p][i].promise <= y
        /\ mode'[p] = "off" => up'[p] = <<>> /\ client[p] = NoClient
        /\ client[p].conn = "none" => client[p] = NoClient
        /\ client[p].conn = "closed" => up'[p] = <<>> /\ mode'[p] = "gone"
  BY <1>5 DEF UpSound, Rising, NoClient
<1> HIDE DEF x, y
<1>7. mode'[p] = "off" => mode[p] = "off"
  BY DEF ModeGoesOn
<1>8. mode[p] = "gone" => mode'[p] = "gone"
  BY DEF ModeGoesOn
<1>9. client[p].promise <= y
  BY <1>1, <1>2, <1>3
<1>10. CASE up'[p] = up[p]
  <2>1. \A i \in 1..Len(up[p]) : up[p][i].promise <= y
    BY <1>2, <1>3, <1>4
  <2> QED
    BY <1>3, <1>7, <1>8, <1>9, <1>10, <2>1
<1>11. CASE \E m \in UpMsg : /\ up'[p] = Append(up[p], m)
                             /\ mode[p] \in {"off", "on"} /\ mode'[p] = "on"
                             /\ Says(p) <= m.promise /\ m.promise <= Says(p)'
                             /\ m.type = "frame" => m.t = m.promise
  <2>1. PICK m \in UpMsg : /\ up'[p] = Append(up[p], m)
                           /\ mode[p] \in {"off", "on"} /\ mode'[p] = "on"
                           /\ x <= m.promise /\ m.promise <= y
                           /\ m.type = "frame" => m.t = m.promise
    BY <1>11 DEF x, y
  <2>2. m.promise \in Nat
    BY DEF UpMsg
  <2> DEFINE l == Len(up[p])  v == up'[p]
  <2>3. /\ l \in Nat /\ Len(v) = l + 1 /\ v[l + 1] = m
        /\ \A i \in 1..l : v[i] = up[p][i]
    BY <1>1, <2>1
  <2> HIDE DEF l, v
  <2>4. \A i \in 1..l : up[p][i].promise \in Nat /\ up[p][i].promise <= x
                        /\ client[p].promise <= up[p][i].promise
    BY <1>3, <1>4 DEF l
  <2>5. \A i \in 1..(l + 1) : i \in 1..l \/ i = l + 1
    BY <2>3
  <2>6. ASSUME NEW i \in 1..Len(v)
        PROVE  client[p].promise <= v[i].promise /\ v[i].promise <= y
               /\ v[i].promise \in Nat
    <3>1. CASE i \in 1..l
      BY <1>2, <2>3, <2>4, <3>1
    <3>2. CASE i = l + 1
      BY <1>1, <1>2, <1>3, <2>1, <2>2, <2>3, <3>2
    <3> QED
      BY <2>3, <2>5, <3>1, <3>2
  <2>7. /\ \A i, j \in 1..l : i <= j => up[p][i].promise <= up[p][j].promise
        /\ \A i \in 1..l : up[p][i].type = "frame" => up[p][i].t = up[p][i].promise
    BY <1>3 DEF Rising, l
  <2>8. ASSUME NEW i \in 1..Len(v), NEW j \in 1..Len(v), i <= j
        PROVE  v[i].promise <= v[j].promise
    <3>1. CASE j \in 1..l
      <4>1. i \in 1..l
        BY <2>3, <2>8, <3>1
      <4> QED
        BY <2>3, <2>7, <2>8, <3>1, <4>1
    <3>2. CASE j = l + 1 /\ i \in 1..l
      <4>1. v[i].promise <= x /\ v[i].promise \in Nat
        BY <2>3, <2>4, <3>2
      <4> QED
        BY <1>2, <2>1, <2>2, <2>3, <3>2, <4>1
    <3>3. CASE j = l + 1 /\ i = l + 1
      BY <2>2, <2>3, <3>3
    <3> QED
      BY <2>3, <2>5, <3>1, <3>2, <3>3
  <2>9. ASSUME NEW i \in 1..Len(v), v[i].type = "frame"
        PROVE  v[i].t = v[i].promise
    BY <2>1, <2>3, <2>5, <2>7, <2>9
  <2>10. Rising(v)
    BY <2>8, <2>9 DEF Rising
  <2>11. client[p].conn # "closed"
    BY <1>3, <2>1
  <2> QED
    BY <1>3, <1>9, <2>1, <2>6, <2>10, <2>11 DEF v
<1> QED
  BY <1>10, <1>11 DEF SpeaksUp

(* Nobody new joins what was already complete.                              *)
LEMMA GrantsStand ==
    ASSUME NetTypes, NetTypes', NEW p \in Players, \A q \in Players : Granted(client, replayed, q),
           client' = client, replayed' = replayed, setup' = setup,
           ModeGoesOn(p), \A q \in Players \ {p} : mode'[q] = mode[q]
    PROVE  \A q \in Players : Granted(client, replayed, q)'
<1>1. ASSUME mode[p] = "off", ToStart(p), NEW q \in Players
      PROVE  ~(client[q].granted > 0)
  BY <1>1 DEF Granted, AllIn
<1>2. ASSUME mode'[p] # "off" <=> mode[p] # "off", AllIn(client)
      PROVE  AllIn(client)'
  <2>1. \A q \in Players : mode'[q] # "off" <=> mode[q] # "off"
    BY <1>2
  <2>2. {q \in Players : mode'[q] # "off"} = {q \in Players : mode[q] # "off"}
    BY <2>1
  <2>3. ASSUME NEW q \in Players
        PROVE  ~ToStart(q)' /\ (mode'[q] # "off" => client'[q].joined)
    <3>1. ~ToStart(q) /\ (mode[q] # "off" => client[q].joined)
      BY <1>2 DEF AllIn
    <3> QED
      BY <2>1, <2>2, <3>1 DEF ToStart
  <2> QED
    BY <2>3 DEF AllIn
<1>3. ASSUME NEW q \in Players
      PROVE  Granted(client, replayed, q)'
  <2>1. ReplayDue(replayed)' = ReplayDue(replayed) /\ Joined(client)' = Joined(client)
    BY DEF ReplayDue, Joined, Clients
  <2>2. Granted(client, replayed, q)
    OBVIOUS
  <2>3. client[q].granted > 0 => AllIn(client)'
    <3> SUFFICES ASSUME client[q].granted > 0 PROVE AllIn(client)'
      OBVIOUS
    <3>1. AllIn(client)
      BY <2>2 DEF Granted
    <3>2. ~(mode[p] = "off" /\ ToStart(p))
      BY <1>1
    <3>3. mode'[p] # "off" <=> mode[p] # "off"
      BY <3>2 DEF ModeGoesOn
    <3> QED
      BY <1>2, <3>1, <3>3
  <2> QED
    BY <2>1, <2>2, <2>3 DEF Granted
<1> QED
  BY <1>3

LEMMA PlayerStepKeepsHubInv ==
    ASSUME NetTypes, NetTypes', HubInv(client, down, up, replayed), NEW p \in Players,
           client' = client, replayed' = replayed, setup' = setup,
           OthersRest(p), ModeGoesOn(p), SpeaksUp(p), Says(p) <= Says(p)',
           DownSound(client, down, p)'
    PROVE  HubInv(client, down, up, replayed)'
<1>1. \A q \in Players : Granted(client, replayed, q)'
  <2>1. \A q \in Players \ {p} : mode'[q] = mode[q]
    BY DEF OthersRest
  <2> QED
    BY <2>1, GrantsStand DEF HubInv
<1>2. ASSUME NEW q \in Players
      PROVE  UpSound(client, up, q)'
  <2>1. UpSound(client, up, q)
    BY DEF HubInv
  <2>2. CASE q = p
    BY <2>1, <2>2, StreamSoundUp
  <2>3. CASE q # p
    BY <2>1, <2>3 DEF OthersRest, UpSound, Says, Most, Rising, NoClient
  <2> QED
    BY <2>2, <2>3
<1>3. ASSUME NEW q \in Players
      PROVE  DownSound(client, down, q)'
  <2>1. DownSound(client, down, q)
    BY DEF HubInv
  <2>2. CASE q = p
    BY <2>2
  <2>3. CASE q # p
    BY <2>1, <2>3 DEF OthersRest, DownSound
  <2> QED
    BY <2>2, <2>3
<1> QED
  BY <1>1, <1>2, <1>3 DEF HubInv

(* What types say of one player. *)
LEMMA OwnTypes ==
    ASSUME NetTypes, NEW p \in Players
    PROVE  /\ setup \in Setups /\ setup.end \in Nat /\ setup.end <= MaxTime
           /\ now[p] \in Nat /\ now[p] <= setup.end
           /\ next[p] \in Nat /\ next[p] <= Never
           /\ reported[p] \in Nat /\ promised[p] \in Nat /\ promised[p] <= Never
           /\ peerPromise[p] \in Nat /\ peerPromise[p] <= Never
           /\ timer[p] \in Nat /\ timer[p] <= Never /\ awake[p] \in BOOLEAN
           /\ sent[p] \in Nat /\ due[p] \in Seq(DueRec)
           /\ up[p] \in Seq(UpMsg) /\ down[p] \in Seq(DownMsg)
<1>1. setup \in Setups /\ setup.end \in 0..MaxTime
  BY SetupOf DEF NetTypes
<1>2. now[p] \in 0..setup.end /\ next[p] \in 0..Never
  BY DEF NetTypes
<1>3. reported[p] \in 0..Never /\ promised[p] \in 0..Never /\ peerPromise[p] \in 0..Never
  BY DEF NetTypes
<1>4. timer[p] \in 0..Never /\ awake[p] \in BOOLEAN /\ sent[p] \in Nat
  BY DEF NetTypes
<1>5. due[p] \in Seq(DueRec) /\ up[p] \in Seq(UpMsg) /\ down[p] \in Seq(DownMsg)
  BY DEF NetTypes
<1>6. Never \in Nat /\ MaxTime \in Nat
  BY Numbers
<1>7. setup.end \in Nat /\ setup.end <= MaxTime /\ now[p] \in Nat /\ now[p] <= setup.end
  BY <1>1, <1>2, <1>6
<1>8. next[p] \in Nat /\ next[p] <= Never /\ reported[p] \in Nat
  BY <1>2, <1>3, <1>6
<1>9. promised[p] \in Nat /\ promised[p] <= Never /\ peerPromise[p] \in Nat /\ peerPromise[p] <= Never
  BY <1>3, <1>6
<1>10. timer[p] \in Nat /\ timer[p] <= Never
  BY <1>4, <1>6
<1> QED
  BY <1>1, <1>4, <1>5, <1>7, <1>8, <1>9, <1>10

(* What is due in a queue that has a type, is a number. *)
LEMMA DueIsNat ==
    ASSUME NEW q \in Seq(DueRec)
    PROVE  Len(q) \in Nat /\ \A i \in 1..Len(q) : q[i].due \in Nat
<1>1. \A i \in 1..Len(q) : q[i] \in DueRec
  OBVIOUS
<1> QED
  BY <1>1 DEF DueRec

LEMMA EarlierBound ==
    ASSUME NEW q \in Seq(DueRec), NEW t \in Int, NEW s \in Int, s <= t, NotBefore(q, t)
    PROVE  NotBefore(q, s)
  BY DueIsNat DEF NotBefore

LEMMA PlayerStepKeeps ==
    ASSUME NetInv, NetTypes', NEW p \in Players,
           client' = client, replayed' = replayed, setup' = setup,
           OthersRest(p), mode'[p] = mode[p] \/ (mode[p] = "on" /\ mode'[p] \in {"alone", "gone"}),
           SpeaksUp(p), Says(p) <= Says(p)',
           DownSound(client, down, p)', Own(p)'
    PROVE  NetInv'
<1>1. ModeGoesOn(p)
  BY DEF ModeGoesOn
<1>2. HubInv(client, down, up, replayed)'
  BY <1>1, PlayerStepKeepsHubInv DEF NetInv
<1>3. ASSUME NEW q \in Players
      PROVE  Own(q)'
  <2>1. Own(q)
    BY DEF NetInv
  <2>2. CASE q = p
    BY <2>2
  <2>3. CASE q # p
    BY <2>1, <2>3 DEF OthersRest, Own, Kept, Paced, InOrder, NotBefore
  <2> QED
    BY <2>2, <2>3
<1>4. Cardinality(Started)' <= setup'.decks
  <2>1. \A q \in Players : mode'[q] # "off" <=> mode[q] # "off"
    BY DEF OthersRest
  <2>2. {q \in Players : mode'[q] # "off"} = {q \in Players : mode[q] # "off"}
    BY <2>1
  <2> QED
    BY <2>2 DEF NetInv, Started
<1> QED
  BY <1>2, <1>3, <1>4 DEF NetInv

(* A step that leaves the streams, the modes and the grants alone.          *)
LEMMA QuietStepKeeps ==
    ASSUME NetInv, NetTypes', NEW p \in Players,
           client' = client, replayed' = replayed, setup' = setup,
           OthersRest(p), mode'[p] = mode[p], up' = up, down' = down,
           promised' = promised, peerPromise' = peerPromise, now[p] <= now'[p],
           Own(p)'
    PROVE  NetInv'
<1>1. SpeaksUp(p)
  BY DEF SpeaksUp
<1>2. now[p] \in Nat /\ promised[p] \in Nat /\ now'[p] \in Nat
  <2>1. now[p] \in Nat /\ promised[p] \in Nat
    BY OwnTypes DEF NetInv
  <2>2. now'[p] \in 0..setup'.end /\ setup'.end \in Nat
    BY SetupOf, Numbers DEF NetTypes
  <2> QED
    BY <2>1, <2>2
<1>3. Says(p) <= Says(p)'
  BY <1>2 DEF Says, Most
<1>4. DownSound(client, down, p)'
  BY DEF NetInv, HubInv, DownSound
<1> QED
  BY <1>1, <1>3, <1>4, PlayerStepKeeps

LEMMA TickKeeps ==
    ASSUME NetInv, NEW p \in Players, Tick(p)
    PROVE  NetInv'
<1> USE DEF Tick, Guest, On
<1>1. /\ now[p] \in Nat /\ now[p] < setup.end /\ setup.end \in Nat /\ next[p] \in Nat
      /\ reported[p] \in Nat /\ promised[p] \in Nat /\ peerPromise[p] \in Nat
      /\ due[p] \in Seq(DueRec)
  BY OwnTypes DEF NetInv
<1>2. now' = [now EXCEPT ![p] = now[p] + 1] /\ now \in [Players -> 0..setup.end]
  BY DEF NetInv, NetTypes
<1>3. now'[p] = now[p] + 1 /\ \A q \in Players \ {p} : now'[q] = now[q]
  BY <1>2
<1>4. NetTypes'
  <2>1. now' \in [Players -> 0..setup.end]
    BY <1>1, <1>2
  <2> QED
    BY <2>1 DEF NetInv, NetTypes, hub
<1>5. Own(p)'
  <2>1. Own(p)
    BY DEF NetInv
  <2>2. Kept(p) /\ Paced(p) /\ InOrder(due[p]) /\ reported[p] <= now[p]
    BY <2>1 DEF Own
  <2>3. Kept(p)'
    BY <1>1, <1>3, <2>2 DEF Kept
  <2>4. NotBefore(due[p], now'[p])
    <3>1. NotBefore(due[p], next[p]) /\ now'[p] <= next[p]
      BY <1>1, <1>3, <2>2 DEF Paced
    <3> QED
      BY <1>1, <1>3, <3>1, EarlierBound
  <2>5. Paced(p)'
    BY <1>1, <1>3, <2>2, <2>4, Numbers DEF Paced, NotBefore
  <2>6. reported'[p] <= now'[p] /\ InOrder(due[p])'
    BY <1>1, <1>3, <2>2 DEF InOrder
  <2> QED
    BY <2>3, <2>5, <2>6 DEF Own
<1>6. OthersRest(p)
  BY <1>3 DEF OthersRest
<1> QED
  BY <1>1, <1>3, <1>4, <1>5, <1>6, QuietStepKeeps DEF hub

LEMMA DozeKeeps ==
    ASSUME NetInv, NEW p \in Players, Doze(p)
    PROVE  NetInv'
<1> USE DEF Doze, Guest, On
<1>1. /\ now[p] \in Nat /\ now[p] < setup.end /\ setup.end \in Nat /\ next[p] \in Nat
      /\ reported[p] \in Nat /\ promised[p] \in Nat /\ peerPromise[p] \in Nat
      /\ due[p] \in Seq(DueRec) /\ timer[p] \in Nat
  BY OwnTypes DEF NetInv
<1> DEFINE x == Least(setup.end, Least(next[p], timer[p]))
<1>2. now' = [now EXCEPT ![p] = x] /\ now \in [Players -> 0..setup.end]
  BY DEF NetInv, NetTypes
<1>2a. x \in Nat /\ x <= setup.end /\ x <= next[p] /\ now[p] <= x
  BY <1>1 DEF Least
<1> HIDE DEF x
<1>3. now'[p] = x /\ \A q \in Players \ {p} : now'[q] = now[q]
  BY <1>2
<1>4. NetTypes'
  <2>1. now' \in [Players -> 0..setup.end]
    BY <1>1, <1>2, <1>2a
  <2> QED
    BY <2>1 DEF NetInv, NetTypes, hub
<1>5. Own(p)'
  <2>1. Own(p)
    BY DEF NetInv
  <2>2. Kept(p) /\ Paced(p) /\ InOrder(due[p]) /\ reported[p] <= now[p]
    BY <2>1 DEF Own
  <2>3. Kept(p)'
    <3>1. CASE promised[p] <= now[p]
      BY <1>1, <1>2a, <1>3, <3>1 DEF Kept
    <3>2. CASE ~(promised[p] <= now[p])
      BY <2>2, <3>2 DEF Kept, NotBefore
    <3> QED
      BY <3>1, <3>2
  <2>4. NotBefore(due[p], now'[p])
    <3>1. NotBefore(due[p], next[p]) /\ now'[p] <= next[p]
      BY <1>1, <1>2a, <1>3, <2>2 DEF Paced
    <3> QED
      BY <1>1, <1>2a, <1>3, <3>1, EarlierBound
  <2>5. Paced(p)'
    BY <1>1, <1>2a, <1>3, <2>2, <2>4, Numbers DEF Paced, NotBefore
  <2>6. reported'[p] <= now'[p] /\ InOrder(due[p])'
    BY <1>1, <1>2a, <1>3, <2>2 DEF InOrder
  <2> QED
    BY <2>3, <2>5, <2>6 DEF Own
<1>6. OthersRest(p)
  BY <1>3 DEF OthersRest
<1> QED
  BY <1>1, <1>2a, <1>3, <1>4, <1>5, <1>6, QuietStepKeeps DEF hub

LEMMA TimerFiresKeeps ==
    ASSUME NetInv, NEW p \in Players, TimerFires(p)
    PROVE  NetInv'
<1> USE DEF TimerFires, Guest, On
<1>1. /\ now[p] \in Nat /\ promised[p] \in Nat /\ timer[p] \in Nat
  BY OwnTypes DEF NetInv
<1>2. /\ awake' = [awake EXCEPT ![p] = TRUE] /\ awake \in [Players -> BOOLEAN]
      /\ timer' = [timer EXCEPT ![p] = Never] /\ timer \in [Players -> 0..Never]
  BY DEF NetInv, NetTypes
<1>3. \A q \in Players \ {p} : awake'[q] = awake[q] /\ timer'[q] = timer[q]
  BY <1>2
<1>4. NetTypes'
  <2>1. awake' \in [Players -> BOOLEAN] /\ timer' \in [Players -> 0..Never]
    BY <1>2, Numbers
  <2> QED
    BY <2>1 DEF NetInv, NetTypes, hub
<1>5. Own(p)'
  <2>1. Own(p)
    BY DEF NetInv
  <2>2. Kept(p) /\ Paced(p) /\ InOrder(due[p]) /\ reported[p] <= now[p]
    BY <2>1 DEF Own
  <2>3. promised[p] <= now[p]
    BY <1>1, <2>2 DEF Kept
  <2>4. Kept(p)'
    BY <2>3 DEF Kept
  <2>5. Paced(p)'
    BY <2>2 DEF Paced, NotBefore
  <2> QED
    BY <2>2, <2>4, <2>5 DEF Own, InOrder
<1>6. OthersRest(p)
  BY <1>3 DEF OthersRest
<1> QED
  BY <1>1, <1>4, <1>5, <1>6, QuietStepKeeps DEF hub

LEMMA SleepKeeps ==
    ASSUME NetInv, NEW p \in Players, Sleep(p)
    PROVE  NetInv'
<1> USE DEF Sleep, Guest, On
<1>1. /\ now[p] \in Nat /\ promised[p] \in Nat /\ now[p] <= MaxTime
  BY OwnTypes, Numbers DEF NetInv
<1>2. PICK d \in ((now[p] + 1)..(now[p] + setup.nap[p])) \cup {Never} :
         timer' = [timer EXCEPT ![p] = d]
  OBVIOUS
<1>3. d \in 0..Never
  <2>1. setup.nap[p] \in 0..Quantum
    <3>1. setup.nap \in [Players -> 0..Quantum]
      BY SetupOf DEF NetInv, NetTypes
    <3> QED
      BY <3>1
  <2> QED
    BY <1>1, <2>1, Numbers
<1>4. /\ awake' = [awake EXCEPT ![p] = FALSE] /\ awake \in [Players -> BOOLEAN]
      /\ timer \in [Players -> 0..Never]
  BY DEF NetInv, NetTypes
<1>5. \A q \in Players \ {p} : awake'[q] = awake[q] /\ timer'[q] = timer[q]
  BY <1>2, <1>4
<1>6. NetTypes'
  <2>1. awake' \in [Players -> BOOLEAN] /\ timer' \in [Players -> 0..Never]
    BY <1>2, <1>3, <1>4
  <2> QED
    BY <2>1 DEF NetInv, NetTypes, hub
<1>7. Own(p)'
  <2>1. Own(p)
    BY DEF NetInv
  <2>2. Kept(p) /\ Paced(p) /\ InOrder(due[p]) /\ reported[p] <= now[p]
    BY <2>1 DEF Own
  <2>3. promised[p] <= now[p]
    BY <1>1, <2>2 DEF Kept
  <2>4. Kept(p)'
    BY <2>3 DEF Kept
  <2>5. Paced(p)'
    BY <2>2 DEF Paced, NotBefore
  <2> QED
    BY <2>2, <2>4, <2>5 DEF Own, InOrder
<1>8. OthersRest(p)
  BY <1>5 DEF OthersRest
<1> QED
  BY <1>1, <1>6, <1>7, <1>8, QuietStepKeeps DEF hub

LEMMA RunsOnKeeps ==
    ASSUME NetInv, NEW p \in Players, RunsOn(p)
    PROVE  NetInv'
<1> USE DEF RunsOn
<1>1. /\ now[p] \in Nat /\ now[p] < setup.end /\ setup.end \in Nat /\ reported[p] \in Nat
  BY OwnTypes DEF NetInv
<1>2. now' = [now EXCEPT ![p] = now[p] + 1] /\ now \in [Players -> 0..setup.end]
  BY DEF NetInv, NetTypes
<1>3. now'[p] = now[p] + 1 /\ \A q \in Players \ {p} : now'[q] = now[q]
  BY <1>2
<1>4. NetTypes'
  <2>1. now' \in [Players -> 0..setup.end]
    BY <1>1, <1>2
  <2> QED
    BY <2>1 DEF NetInv, NetTypes, hub
<1>5. Own(p)'
  <2>1. Own(p)
    BY DEF NetInv
  <2>2. InOrder(due[p]) /\ reported[p] <= now[p]
    BY <2>1 DEF Own
  <2> QED
    BY <1>1, <1>3, <2>2 DEF Own, InOrder
<1>6. OthersRest(p)
  BY <1>3 DEF OthersRest
<1> QED
  BY <1>1, <1>3, <1>4, <1>5, <1>6, QuietStepKeeps DEF hub

(* What a player sends goes to the end of its stream, if the hub is there.  *)
LEMMA SendUpAppends ==
    ASSUME NetTypes, NEW p \in Players, NEW m \in UpMsg, up' = SendUp(p, m)
    PROVE  /\ up' \in [Players -> Seq(UpMsg)]
           /\ \A q \in Players \ {p} : up'[q] = up[q]
           /\ up'[p] = up[p] \/ up'[p] = Append(up[p], m)
<1>1. up \in [Players -> Seq(UpMsg)] /\ up[p] \in Seq(UpMsg)
  BY DEF NetTypes
<1>2. Append(up[p], m) \in Seq(UpMsg)
  BY <1>1
<1>3. CASE hubUp
  <2>1. up' = [up EXCEPT ![p] = Append(up[p], m)]
    BY <1>3 DEF SendUp
  <2> QED
    BY <1>1, <1>2, <2>1
<1>4. CASE ~hubUp
  BY <1>1, <1>4 DEF SendUp
<1> QED
  BY <1>3, <1>4

LEMMA SendKeeps ==
    ASSUME NetInv, NEW p \in Players, Send(p)
    PROVE  NetInv'
<1> USE DEF Send, Guest, On
<1>1. /\ now[p] \in Nat /\ promised[p] \in Nat /\ sent[p] \in Nat /\ reported[p] \in Nat
      /\ now[p] <= MaxTime
  BY OwnTypes, Numbers DEF NetInv
<1> DEFINE m == FrameUp(now[p], sent[p] + 1)
<1>2. m \in UpMsg /\ m.promise = now[p] /\ m.t = now[p]
  <2>1. now[p] \in Nat /\ sent[p] + 1 \in Nat
    BY <1>1
  <2> QED
    BY <2>1 DEF FrameUp, UpMsg
<1> HIDE DEF m
<1>3. /\ up' \in [Players -> Seq(UpMsg)]
      /\ \A q \in Players \ {p} : up'[q] = up[q]
      /\ up'[p] = up[p] \/ up'[p] = Append(up[p], m)
  <2>1. up' = SendUp(p, m)
    BY DEF m
  <2> QED
    BY <1>2, <2>1, SendUpAppends DEF NetInv
<1>4. Own(p) /\ Kept(p) /\ Paced(p) /\ InOrder(due[p]) /\ reported[p] <= now[p]
  BY DEF NetInv, Own
<1>5. promised[p] <= now[p] /\ Says(p) = now[p] /\ Says(p)' = now[p]
  BY <1>1, <1>4 DEF Kept, Says, Most
<1>6. reported' = [reported EXCEPT ![p] = Most(reported[p], now[p])]
      /\ reported \in [Players -> 0..Never]
  BY DEF NetInv, NetTypes
<1>7. Most(reported[p], now[p]) = now[p] /\ now[p] \in 0..Never
  BY <1>1, <1>4, Numbers DEF Most
<1>8. reported'[p] = now[p] /\ \A q \in Players \ {p} : reported'[q] = reported[q]
  BY <1>6, <1>7
<1>9. NetTypes'
  <2>1. reported' \in [Players -> 0..Never]
    BY <1>6, <1>7
  <2>2. sent' \in [Players -> Nat]
    <3>1. sent' = [sent EXCEPT ![p] = sent[p] + 1] /\ sent \in [Players -> Nat]
      BY DEF NetInv, NetTypes
    <3>2. sent[p] + 1 \in Nat
      BY <1>1
    <3> QED
      BY <3>1, <3>2
  <2> QED
    BY <1>3, <2>1, <2>2 DEF NetInv, NetTypes, hub
<1>10. OthersRest(p)
  BY <1>3, <1>8 DEF OthersRest
<1>11. Own(p)'
  <2>1. Kept(p)'
    BY <1>5 DEF Kept
  <2>2. Paced(p)'
    BY <1>4 DEF Paced, NotBefore
  <2>3. InOrder(due[p])' /\ reported'[p] <= now'[p]
    BY <1>1, <1>4, <1>8 DEF InOrder
  <2> QED
    BY <2>1, <2>2, <2>3 DEF Own
<1>12. SpeaksUp(p)
  <2>1. now[p] <= now[p]
    BY <1>1
  <2> QED
    BY <1>2, <1>3, <1>5, <2>1 DEF SpeaksUp
<1>13. Says(p) <= Says(p)'
  BY <1>1, <1>5
<1>14. DownSound(client, down, p)'
  BY DEF NetInv, HubInv, DownSound, hub
<1> QED
  BY <1>9, <1>10, <1>11, <1>12, <1>13, <1>14, PlayerStepKeeps DEF hub

LEMMA LaunchKeeps ==
    ASSUME NetInv, NEW p \in Players, Launch(p)
    PROVE  NetInv'
<1> USE DEF Launch
<1>1. /\ now[p] \in Nat /\ promised[p] \in Nat /\ mode[p] = "off" /\ ToStart(p)
  BY OwnTypes DEF NetInv, ToStart
<1>2. Hello \in UpMsg /\ Hello.promise = 0 /\ Hello.type = "hello"
  BY DEF Hello, UpMsg
<1>3. /\ up' \in [Players -> Seq(UpMsg)]
      /\ \A q \in Players \ {p} : up'[q] = up[q]
      /\ up'[p] = up[p] \/ up'[p] = Append(up[p], Hello)
  BY <1>2, SendUpAppends DEF NetInv
<1>4. mode' = [mode EXCEPT ![p] = "on"] /\ mode \in [Players -> {"off", "on", "alone", "gone"}]
  BY DEF NetInv, NetTypes
<1>5. mode'[p] = "on" /\ \A q \in Players \ {p} : mode'[q] = mode[q]
  BY <1>4
<1>6. NetTypes'
  <2>1. mode' \in [Players -> {"off", "on", "alone", "gone"}]
    BY <1>4
  <2> QED
    BY <1>3, <2>1 DEF NetInv, NetTypes, hub
<1>7. OthersRest(p)
  BY <1>3, <1>5 DEF OthersRest
<1>8. ModeGoesOn(p)
  BY <1>1, <1>5 DEF ModeGoesOn
<1>10. client[p] = NoClient /\ up[p] = <<>>
  BY <1>1 DEF NetInv, HubInv, UpSound
<1>11. DownSound(client, down, p)'
  BY DEF NetInv, HubInv, DownSound, hub
<1>12. Says(p) <= Says(p)'
  BY <1>1 DEF Says, Most
<1>13. \A q \in Players : Granted(client, replayed, q)'
  <2>1. \A q \in Players : Granted(client, replayed, q)
    BY DEF NetInv, HubInv
  <2> QED
    BY <1>5, <1>6, <1>8, <2>1, GrantsStand DEF NetInv, hub
<1>14. UpSound(client, up, p)'
  <2>1. \A i \in 1..Len(up'[p]) : up'[p][i] = Hello
    <3>1. \A i \in 1..Len(<<>>) : FALSE
      OBVIOUS
    <3>2. CASE up'[p] = up[p]
      BY <1>10, <3>1, <3>2
    <3>3. CASE up'[p] = Append(up[p], Hello)
      <4>1. up'[p] = <<Hello>>
        BY <1>10, <3>3
      <4> QED
        BY <4>1
    <3> QED
      BY <1>3, <3>2, <3>3
  <2>2. Rising(up'[p])
    BY <1>2, <2>1 DEF Rising
  <2>3. client'[p] = NoClient /\ NoClient.promise = 0 /\ NoClient.conn = "none"
    BY <1>10 DEF hub, NoClient
  <2>4. 0 <= Says(p)'
    BY <1>1 DEF Says, Most
  <2>5. NoClient' = NoClient
    BY DEF NoClient
  <2> QED
    BY <1>2, <1>5, <2>1, <2>2, <2>3, <2>4, <2>5 DEF UpSound, Rising
<1>15. HubInv(client, down, up, replayed)'
  <2>1. ASSUME NEW q \in Players
        PROVE  (UpSound(client, up, q) /\ Granted(client, replayed, q)
                /\ DownSound(client, down, q))'
    <3>1. UpSound(client, up, q) /\ DownSound(client, down, q)
      BY DEF NetInv, HubInv
    <3>2. CASE q = p
      BY <1>11, <1>13, <1>14, <3>2
    <3>3. CASE q # p
      <4>1. UpSound(client, up, q)'
        BY <1>7, <3>1, <3>3 DEF OthersRest, UpSound, Says, Most, Rising, NoClient, hub
      <4>2. DownSound(client, down, q)'
        BY <3>1 DEF DownSound, hub
      <4> QED
        BY <1>13, <4>1, <4>2
    <3> QED
      BY <3>2, <3>3
  <2> QED
    BY <2>1 DEF HubInv
<1>16. ASSUME NEW q \in Players
       PROVE  Own(q)'
  <2>1. Own(q)
    BY DEF NetInv
  <2>2. mode'[q] \in {"off", "on"} => mode[q] \in {"off", "on"}
    BY <1>1, <1>5
  <2> QED
    BY <2>1, <2>2 DEF Own, Kept, Paced, InOrder, NotBefore
<1>17. Cardinality(Started)' <= setup'.decks
  <2>1. Started' = Started \cup {p}
    BY <1>5 DEF Started
  <2>2. IsFiniteSet(Started) /\ Cardinality(Started) \in Nat
    <3>1. Started \in SUBSET Players /\ IsFiniteSet(Players)
      BY NetSyncAssumption DEF Started
    <3>2. IsFiniteSet(Started)
      BY <3>1, FS_Subset
    <3> QED
      BY <3>2, FS_CardinalityType
  <2>3. Cardinality(Started \cup {p}) <= Cardinality(Started) + 1
    <3>1. Cardinality(Started \cup {p}) = IF p \in Started THEN Cardinality(Started)
                                          ELSE Cardinality(Started) + 1
      BY <2>2, FS_AddElement
    <3> QED
      BY <2>2, <3>1
  <2>4. Cardinality(Started) < setup.decks
    BY <1>1 DEF ToStart, Started
  <2>5. setup.decks \in Nat
    <3>1. setup.decks \in 1..Cardinality(Players) /\ IsFiniteSet(Players)
      BY SetupOf, NetSyncAssumption DEF NetInv, NetTypes
    <3> QED
      BY <3>1, FS_CardinalityType
  <2>6. Cardinality(Started \cup {p}) \in Nat
    BY <2>2, FS_AddElement, FS_CardinalityType
  <2>7. Cardinality(Started \cup {p}) <= setup.decks
    BY <2>2, <2>3, <2>4, <2>5, <2>6
  <2>8. Cardinality(Started)' = Cardinality(Started') /\ setup' = setup
    BY DEF hub
  <2> QED
    BY <2>1, <2>7, <2>8
<1> QED
  BY <1>6, <1>15, <1>16, <1>17 DEF NetInv

(* A player that leaves the segment forgets its queue and its stream.       *)
LEMMA DropKeeps ==
    ASSUME NetInv, NEW p \in Players, On(p), NEW gone \in {"alone", "gone"},
           mode' = [mode EXCEPT ![p] = gone], Drop(p),
           UNCHANGED <<now, next, reported, promised, peerPromise, awake,
                       timer, sent, up, hub>>
    PROVE  NetInv'
<1> USE DEF Drop, hub
<1>1. now[p] \in Nat /\ promised[p] \in Nat
  BY OwnTypes DEF NetInv
<1>2. /\ mode \in [Players -> {"off", "on", "alone", "gone"}] /\ pc \in [Players -> {"run", "wait"}]
      /\ due \in [Players -> Seq(DueRec)] /\ down \in [Players -> Seq(DownMsg)]
  BY DEF NetInv, NetTypes
<1>3. /\ mode'[p] = gone /\ due'[p] = <<>> /\ down'[p] = <<>>
      /\ \A q \in Players \ {p} : /\ mode'[q] = mode[q] /\ due'[q] = due[q]
                                  /\ down'[q] = down[q] /\ pc'[q] = pc[q]
  BY <1>2
<1>4. NetTypes'
  <2>1. mode' \in [Players -> {"off", "on", "alone", "gone"}] /\ pc' \in [Players -> {"run", "wait"}]
    BY <1>2
  <2>2. due' \in [Players -> Seq(DueRec)]
    <3>1. <<>> \in Seq(DueRec)
      OBVIOUS
    <3> QED
      BY <1>2, <3>1
  <2>3. down' \in [Players -> Seq(DownMsg)]
    <3>1. <<>> \in Seq(DownMsg)
      OBVIOUS
    <3> QED
      BY <1>2, <3>1
  <2> QED
    BY <2>1, <2>2, <2>3 DEF NetInv, NetTypes
<1>5. OthersRest(p)
  BY <1>3 DEF OthersRest
<1>6. SpeaksUp(p)
  BY DEF SpeaksUp
<1>7. Says(p) <= Says(p)'
  BY <1>1 DEF Says, Most
<1>8. \A i \in 1..Len(<<>>) : FALSE
  OBVIOUS
<1>9. DownSound(client, down, p)'
  <2>1. peerPromise[p] = 0 \/ peerPromise[p] <= client[p].granted
    BY DEF NetInv, HubInv, DownSound
  <2> QED
    BY <1>3, <1>8, <2>1 DEF DownSound
<1>10. Own(p)'
  <2>1. reported[p] <= now[p]
    BY DEF NetInv, Own
  <2> QED
    BY <1>3, <1>8, <2>1 DEF Own, InOrder
<1>11. mode[p] = "on" /\ mode'[p] \in {"alone", "gone"}
  BY <1>3 DEF On
<1> QED
  BY <1>4, <1>5, <1>6, <1>7, <1>9, <1>10, <1>11, PlayerStepKeeps

LEMMA LostKeeps ==
    ASSUME NetInv, NEW p \in Players, Lost(p)
    PROVE  NetInv'
  BY DropKeeps DEF Lost

LEMMA QuitKeeps ==
    ASSUME NetInv, NEW p \in Players, Quit(p)
    PROVE  NetInv'
  BY DropKeeps DEF Quit

-----------------------------------------------------------------------------
(* One pass of netsim_step. *)

(* What netsim_drain reads: the first k messages of the stream; what is     *)
(* ripe then leaves the queue.                                              *)
Drained(p, k, q, ripe) ==
    /\ InOrder(q)
    /\ \A x : x \in ToSet(q) <=>
          \/ x \in ToSet(due[p])
          \/ \E j \in 1..k : down[p][j].type = "frame" /\ x = Framed(down[p][j])
    /\ \A i \in 1..ripe : q[i].due <= now[p]
    /\ \A i \in (ripe + 1)..Len(q) : now[p] < q[i].due
    /\ due'[p] = SubSeq(q, ripe + 1, Len(q))
    /\ down'[p] = SubSeq(down[p], k + 1, Len(down[p]))
    /\ peerPromise'[p] = GrantAfter(peerPromise[p], SubSeq(down[p], 1, k))
    /\ \/ awake'[p] = awake[p] /\ timer'[p] = timer[p]
       \/ ripe > 0 /\ awake'[p] = TRUE /\ timer'[p] = Never

LEMMA DrainReads ==
    ASSUME NetTypes, NEW p \in Players, InOrder(due[p]), Drain(p)
    PROVE  /\ \E k \in 0..Len(down[p]), q \in Seq(DueRec) :
                 \E ripe \in 0..Len(q) : Drained(p, k, q, ripe)
           /\ \A o \in Players \ {p} :
                 /\ due'[o] = due[o] /\ down'[o] = down[o] /\ peerPromise'[o] = peerPromise[o]
                 /\ awake'[o] = awake[o] /\ timer'[o] = timer[o]
           /\ due' = [due EXCEPT ![p] = due'[p]] /\ down' = [down EXCEPT ![p] = down'[p]]
           /\ peerPromise' = [peerPromise EXCEPT ![p] = peerPromise'[p]]
           /\ awake' = [awake EXCEPT ![p] = awake'[p]] /\ timer' = [timer EXCEPT ![p] = timer'[p]]
<1>0. /\ due \in [Players -> Seq(DueRec)] /\ down \in [Players -> Seq(DownMsg)]
      /\ peerPromise \in [Players -> 0..Never] /\ awake \in [Players -> BOOLEAN]
      /\ timer \in [Players -> 0..Never]
  BY DEF NetTypes
<1>1. PICK k \in 0..Len(down[p]) :
        /\ down' = [down EXCEPT ![p] = SubSeq(@, k + 1, Len(@))]
        /\ peerPromise' =
              [peerPromise EXCEPT ![p] = GrantAfter(@, SubSeq(down[p], 1, k))]
        /\ \E q \in {QueueAfter(due[p], SubSeq(down[p], 1, k))} :
           \E ripe \in {Cardinality({i \in 1..Len(q) : \A j \in 1..i : q[j].due <= now[p]})} :
               /\ due' = [due EXCEPT ![p] = SubSeq(q, ripe + 1, Len(q))]
               /\ \/ UNCHANGED <<awake, timer>>
                  \/ /\ ripe > 0
                     /\ awake' = [awake EXCEPT ![p] = TRUE]
                     /\ timer' = [timer EXCEPT ![p] = Never]
  BY DEF Drain
<1> DEFINE s == SubSeq(down[p], 1, k)
           q == QueueAfter(due[p], s)
           ripe == Cardinality({i \in 1..Len(q) : \A j \in 1..i : q[j].due <= now[p]})
<1>2. /\ s \in Seq(DownMsg) /\ Len(s) = k
      /\ \A i \in 1..k : s[i] = down[p][i]
  <2>1. down[p] \in Seq(DownMsg)
    BY <1>0
  <2> QED
    BY <2>1, Beginning
<1>3. /\ q \in Seq(DueRec) /\ InOrder(q)
      /\ \A x : x \in ToSet(q) <=>
            \/ x \in ToSet(due[p])
            \/ \E j \in 1..Len(s) : s[j].type = "frame" /\ x = Framed(s[j])
  <2>1. due[p] \in Seq(DueRec)
    BY <1>0
  <2> HIDE DEF s
  <2> QED
    BY <1>2, <2>1, QueueAfterHolds
<1>4. /\ due' = [due EXCEPT ![p] = SubSeq(q, ripe + 1, Len(q))]
      /\ \/ UNCHANGED <<awake, timer>>
         \/ /\ ripe > 0
            /\ awake' = [awake EXCEPT ![p] = TRUE]
            /\ timer' = [timer EXCEPT ![p] = Never]
  BY <1>1
<1>5. peerPromise' = [peerPromise EXCEPT ![p] = GrantAfter(peerPromise[p], s)]
  BY <1>1
<1> HIDE DEF s
<1>6. \A x : (\E j \in 1..Len(s) : s[j].type = "frame" /\ x = Framed(s[j])) <=>
             (\E j \in 1..k : down[p][j].type = "frame" /\ x = Framed(down[p][j]))
  BY <1>2
<1> HIDE DEF q
<1>7. /\ ripe \in 0..Len(q)
      /\ \A i \in 1..ripe : q[i].due <= now[p]
      /\ \A i \in (ripe + 1)..Len(q) : now[p] < q[i].due
  BY <1>3, RipePrefix, OwnTypes
<1> HIDE DEF ripe
<1>8. due'[p] = SubSeq(q, ripe + 1, Len(q)) /\ \A o \in Players \ {p} : due'[o] = due[o]
  BY <1>0, <1>4
<1>9. /\ down'[p] = SubSeq(down[p], k + 1, Len(down[p]))
      /\ \A o \in Players \ {p} : down'[o] = down[o]
  BY <1>0, <1>1
<1>10. /\ peerPromise'[p] = GrantAfter(peerPromise[p], s)
       /\ \A o \in Players \ {p} : peerPromise'[o] = peerPromise[o]
  BY <1>0, <1>5
<1>11. /\ \/ awake'[p] = awake[p] /\ timer'[p] = timer[p]
          \/ ripe > 0 /\ awake'[p] = TRUE /\ timer'[p] = Never
       /\ \A o \in Players \ {p} : awake'[o] = awake[o] /\ timer'[o] = timer[o]
  BY <1>0, <1>4
<1>12. /\ due' = [due EXCEPT ![p] = due'[p]] /\ down' = [down EXCEPT ![p] = down'[p]]
       /\ peerPromise' = [peerPromise EXCEPT ![p] = peerPromise'[p]]
  BY <1>0, <1>1, <1>4, <1>5, <1>8, <1>9, <1>10
<1>13. awake' = [awake EXCEPT ![p] = awake'[p]] /\ timer' = [timer EXCEPT ![p] = timer'[p]]
  <2>1. CASE UNCHANGED <<awake, timer>>
    BY <1>0, <2>1
  <2>2. CASE /\ awake' = [awake EXCEPT ![p] = TRUE]
             /\ timer' = [timer EXCEPT ![p] = Never]
    BY <1>0, <2>2
  <2> QED
    BY <1>4, <2>1, <2>2
<1>14. Drained(p, k, q, ripe)
  <2>1. \A x : x \in ToSet(q) <=>
           \/ x \in ToSet(due[p])
           \/ \E j \in 1..k : down[p][j].type = "frame" /\ x = Framed(down[p][j])
    BY <1>3, <1>6, Zenon
  <2>2. peerPromise'[p] = GrantAfter(peerPromise[p], SubSeq(down[p], 1, k))
    BY <1>10 DEF s
  <2>3. InOrder(q)
    BY <1>3
  <2> QED
    BY <2>1, <2>2, <2>3, <1>7, <1>8, <1>9, <1>11, Zenon DEF Drained
<1> QED
  BY <1>3, <1>7, <1>8, <1>9, <1>10, <1>11, <1>12, <1>13, <1>14

(* The grant after the drain. *)
LEMMA DrainedGrant ==
    ASSUME NetInv, NEW p \in Players, NEW k \in 0..Len(down[p]), NEW q, NEW ripe,
           Drained(p, k, q, ripe)
    PROVE  /\ peerPromise'[p] \in peerPromise[p]..Never
           /\ \/ peerPromise'[p] = peerPromise[p]
              \/ \E j \in 1..k : down[p][j].type = "time" /\ peerPromise'[p] = down[p][j].t
<1> DEFINE s == SubSeq(down[p], 1, k)
<1>1. peerPromise[p] \in Nat /\ peerPromise[p] <= Never /\ down[p] \in Seq(DownMsg)
  BY OwnTypes DEF NetInv
<1>2. s \in Seq(DownMsg) /\ Len(s) = k /\ \A i \in 1..k : s[i] = down[p][i]
  BY <1>1, Beginning
<1>3. DownSound(client, down, p) /\ Granted(client, replayed, p)
  BY DEF NetInv, HubInv
<1>4. client[p].granted \in Int /\ client[p].granted <= Never
  <2>1. client[p] \in ClientRec
    BY DEF NetInv, NetTypes
  <2>2. ReplayDue(replayed) \in 0..Never
    <3>1. replayed \in 0..Len(setup.replay) /\ setup \in Setups
      BY DEF NetInv, NetTypes
    <3>2. replayed \in replayed..Len(setup.replay)
      BY <3>1
    <3> QED
      BY <3>1, <3>2, ReplayGoesOn
  <2>3. client[p].granted <= ReplayDue(replayed)
    BY <1>3 DEF Granted
  <2>4. client[p].granted \in Int
    BY <2>1 DEF ClientRec
  <2> QED
    BY <2>2, <2>3, <2>4, Numbers
<1>5. ASSUME NEW i \in 1..Len(s), s[i].type = "time"
      PROVE  s[i].t <= Never
  <2>1. i \in 1..k /\ i \in 1..Len(down[p]) /\ s[i] = down[p][i] /\ down[p][i] \in DownMsg
    BY <1>1, <1>2
  <2>2. down[p][i].t <= client[p].granted
    BY <1>3, <1>5, <2>1 DEF DownSound
  <2>3. down[p][i].t \in Nat
    BY <2>1 DEF DownMsg
  <2> QED
    BY <1>4, <2>1, <2>2, <2>3, Numbers
<1>6. peerPromise'[p] = GrantAfter(peerPromise[p], s)
  BY DEF Drained
<1> HIDE DEF s
<1>7. /\ GrantAfter(peerPromise[p], s) \in peerPromise[p]..Never
      /\ \/ GrantAfter(peerPromise[p], s) = peerPromise[p]
         \/ \E i \in 1..Len(s) : s[i].type = "time" /\ GrantAfter(peerPromise[p], s) = s[i].t
  BY <1>1, <1>2, <1>5, GrantAfterIsGreatest, Numbers
<1> QED
  BY <1>2, <1>6, <1>7

(* What is on its way stays sound. *)
LEMMA DrainedStream ==
    ASSUME NetInv, NEW p \in Players, NEW k \in 0..Len(down[p]), NEW q, NEW ripe,
           Drained(p, k, q, ripe), client' = client
    PROVE  down'[p] \in Seq(DownMsg) /\ DownSound(client, down, p)'
<1>1. down[p] \in Seq(DownMsg) /\ peerPromise[p] \in Nat
  BY OwnTypes DEF NetInv
<1> DEFINE s == down[p]  d == down'[p]  l == Len(down[p])
           pp == peerPromise[p]  pp2 == peerPromise'[p]  g == client[p].granted
<1>2. d = SubSeq(s, k + 1, Len(s))
  BY DEF Drained
<1>3. l \in Nat /\ k \in 0..l /\ \A i \in 1..l : s[i].t \in Nat
  <2>1. \A i \in 1..Len(down[p]) : down[p][i] \in DownMsg
    BY <1>1
  <2> QED
    BY <1>1, <2>1 DEF DownMsg
<1>4. d \in Seq(DownMsg) /\ Len(d) = l - k /\ \A i \in 1..(l - k) : d[i] = s[k + i]
  BY <1>1, <1>2, Remainder
<1>5. DownSound(client, down, p)
  BY DEF NetInv, HubInv
<1>6. /\ pp = 0 \/ pp <= g
      /\ \A i \in 1..l : /\ s[i].type = "frame" => pp <= s[i].t
                         /\ s[i].type = "time" => s[i].t <= g
      /\ \A i, j \in 1..l : i <= j /\ s[i].type = "time" => s[i].t <= s[j].t
  BY <1>5 DEF DownSound
<1>7. pp2 \in Nat /\ (pp2 = pp \/ \E j \in 1..k : s[j].type = "time" /\ pp2 = s[j].t)
  BY <1>1, DrainedGrant
<1>8. client'[p].granted = g
  OBVIOUS
<1> HIDE DEF s, d, l, pp, pp2, g
<1>9. \A i \in 1..Len(d) : k + i \in 1..l /\ d[i] = s[k + i]
  BY <1>3, <1>4
<1>10. pp2 = 0 \/ pp2 <= g
  <2>1. \A j \in 1..k : j \in 1..l
    BY <1>3
  <2> QED
    BY <1>6, <1>7, <2>1
<1>11. ASSUME NEW i \in 1..Len(d)
       PROVE  /\ d[i].type = "frame" => pp2 <= d[i].t
              /\ d[i].type = "time" => d[i].t <= g
  <2>1. \A j \in 1..k : j \in 1..l /\ j <= k + i
    BY <1>3, <1>4
  <2> QED
    BY <1>6, <1>7, <1>9, <2>1
<1>12. ASSUME NEW i \in 1..Len(d), NEW j \in 1..Len(d), i <= j, d[i].type = "time"
       PROVE  d[i].t <= d[j].t
  <2>1. k + i <= k + j
    BY <1>3, <1>4, <1>12
  <2> QED
    BY <1>6, <1>9, <1>12, <2>1
<1>13. DownSound(client, down, p)'
  BY <1>8, <1>10, <1>11, <1>12 DEF DownSound, d, pp2, g
<1> QED
  BY <1>4, <1>13 DEF d

(* The queue after the drain: nothing of it is due now, and nothing in it   *)
(* is due before what the queue and the horizon said.                       *)
LEMMA DrainedQueue ==
    ASSUME NetInv, NEW p \in Players, NEW k \in 0..Len(down[p]), NEW q \in Seq(DueRec),
           NEW ripe \in 0..Len(q), Drained(p, k, q, ripe)
    PROVE  /\ due'[p] \in Seq(DueRec) /\ InOrder(due'[p])
           /\ NotBefore(due'[p], now[p] + 1)
           /\ \A t \in Int : t <= peerPromise[p] + Quantum /\ NotBefore(due[p], t) =>
                 NotBefore(due'[p], t) /\ NotBefore(q, t) /\ (ripe > 0 => t <= now[p])
<1>1. /\ due[p] \in Seq(DueRec) /\ peerPromise[p] \in Nat /\ now[p] \in Nat
      /\ down[p] \in Seq(DownMsg)
  BY OwnTypes DEF NetInv
<1> DEFINE d == due'[p]  l == Len(q)
<1>2. d = SubSeq(q, ripe + 1, Len(q))
  BY DEF Drained
<1>3. l \in Nat /\ \A i \in 1..l : q[i].due \in Nat
  BY DueIsNat
<1>4. d \in Seq(DueRec) /\ Len(d) = l - ripe /\ \A i \in 1..(l - ripe) : d[i] = q[ripe + i]
  BY <1>2, Remainder
<1>5. /\ InOrder(q)
      /\ \A i \in 1..ripe : q[i].due <= now[p]
      /\ \A i \in (ripe + 1)..l : now[p] < q[i].due
  BY DEF Drained
<1> HIDE DEF d
<1>6. \A i \in 1..Len(d) : ripe + i \in 1..l /\ ripe + i \in (ripe + 1)..l /\ d[i] = q[ripe + i]
  BY <1>3, <1>4
<1>7. InOrder(d)
  <2> SUFFICES ASSUME NEW i \in 1..Len(d), NEW j \in 1..Len(d), i <= j
               PROVE  d[i].due <= d[j].due
    BY DEF InOrder
  <2>1. ripe + i <= ripe + j
    BY <1>3, <1>4
  <2> QED
    BY <1>5, <1>6, <2>1 DEF InOrder
<1>8. NotBefore(d, now[p] + 1)
  <2> SUFFICES ASSUME NEW i \in 1..Len(d)
               PROVE  now[p] + 1 <= d[i].due
    BY DEF NotBefore
  <2>1. now[p] < q[ripe + i].due /\ q[ripe + i].due \in Nat
    BY <1>3, <1>5, <1>6
  <2>2. d[i] = q[ripe + i]
    BY <1>6
  <2>3. d[i].due = q[ripe + i].due
    BY <2>2
  <2> HIDE DEF d
  <2>4. now[p] + 1 <= q[ripe + i].due
    BY <1>1, <2>1, SMTT(40)
  <2> QED
    BY <2>3, <2>4
<1>9. ASSUME NEW t \in Int, t <= peerPromise[p] + Quantum, NotBefore(due[p], t)
      PROVE  NotBefore(d, t) /\ NotBefore(q, t) /\ (ripe > 0 => t <= now[p])
  <2>1. ASSUME NEW i \in 1..l
        PROVE  t <= q[i].due
    <3>1. q[i] \in ToSet(q)
      BY DEF ToSet
    <3>2. \/ q[i] \in ToSet(due[p])
          \/ \E j \in 1..k : down[p][j].type = "frame" /\ q[i] = Framed(down[p][j])
      BY <3>1 DEF Drained
    <3>3. CASE q[i] \in ToSet(due[p])
      <4>0. DOMAIN due[p] = 1..Len(due[p])
        BY <1>1, LenProperties
      <4>1. PICK h \in 1..Len(due[p]) : q[i] = due[p][h]
        BY <3>3, <4>0 DEF ToSet
      <4> QED
        BY <1>9, <4>1 DEF NotBefore
    <3>4. CASE \E j \in 1..k : down[p][j].type = "frame" /\ q[i] = Framed(down[p][j])
      <4>1. PICK j \in 1..k : down[p][j].type = "frame" /\ q[i] = Framed(down[p][j])
        BY <3>4
      <4>2. j \in 1..Len(down[p])
        BY <1>1
      <4>3. down[p][j] \in DownMsg
        BY <1>1, <4>2
      <4>4. peerPromise[p] <= down[p][j].t
        BY <4>1, <4>2 DEF NetInv, HubInv, DownSound
      <4>5. q[i].due = down[p][j].t + Quantum /\ down[p][j].t \in Nat
        BY <4>1, <4>3 DEF Framed, DownMsg
      <4>6. t \in Int /\ t <= peerPromise[p] + Quantum /\ peerPromise[p] \in Nat
        BY <1>1, <1>9
      <4> DEFINE a == peerPromise[p]  b == down[p][j].t  c == q[i].due
      <4>7. t <= a + Quantum /\ a <= b /\ c = b + Quantum /\ a \in Nat /\ b \in Nat
        BY <4>4, <4>5, <4>6
      <4> HIDE DEF a, b, c
      <4>8. t <= c
        BY <4>6, <4>7, Numbers
      <4> QED
        BY <4>8 DEF c
    <3> QED
      BY <3>2, <3>3, <3>4
  <2>2. NotBefore(q, t)
    BY <2>1 DEF NotBefore
  <2>3. NotBefore(d, t)
    BY <1>6, <2>1 DEF NotBefore
  <2>4. ASSUME ripe > 0
        PROVE  t <= now[p]
    <3>1. 1 \in 1..ripe /\ 1 \in 1..l
      BY <1>3, <2>4
    <3>2. q[1].due <= now[p] /\ t <= q[1].due /\ q[1].due \in Nat
      BY <1>3, <1>5, <2>1, <3>1
    <3> QED
      BY <1>1, <3>2
  <2> QED
    BY <2>2, <2>3, <2>4
<1> QED
  BY <1>4, <1>7, <1>8, <1>9 DEF d

(* When the first frame of a queue is due. *)
LEMMA FirstDue ==
    ASSUME NEW d \in Seq(DueRec), InOrder(d),
           NEW h, h = IF d = <<>> THEN Never ELSE Head(d).due
    PROVE  /\ h \in Nat /\ NotBefore(d, h)
           /\ \A t \in Int : t <= Never /\ NotBefore(d, t) => t <= h
<1>1. CASE d = <<>>
  <2>1. \A i \in 1..Len(d) : FALSE
    BY <1>1
  <2> QED
    BY <1>1, <2>1, Numbers DEF NotBefore
<1>2. CASE d # <<>>
  <2>1. Len(d) \in Nat /\ 1 \in 1..Len(d) /\ h = d[1].due
    BY <1>2
  <2>2. d[1].due \in Nat
    BY <2>1, DueIsNat
  <2>3. \A i \in 1..Len(d) : 1 <= i
    BY <2>1
  <2> QED
    BY <2>1, <2>2, <2>3 DEF InOrder, NotBefore
<1> QED
  BY <1>1, <1>2

(* A pass in numbers: what it promises, x, and where its next step is, z,   *)
(* from the clock n, the promise r made before, the drained queue d and     *)
(* the first time h in it, the timer tm and the horizon hz.                 *)
PassFrom(n, r, told, h, tm, hz, aw, d) ==
    /\ n \in Nat /\ r \in Nat /\ told \in Nat /\ h \in Nat /\ tm \in Nat /\ hz \in Nat
    /\ aw \in BOOLEAN /\ d \in Seq(DueRec)
    /\ InOrder(d) /\ NotBefore(d, n + 1) /\ h = IF d = <<>> THEN Never ELSE Head(d).due
    /\ n <= MaxTime /\ told <= n /\ tm <= Never /\ r <= Never
    /\ r <= n \/ (~aw /\ r <= tm /\ r <= hz /\ NotBefore(d, r))

PassPromise(n, h, tm, hz, aw) == IF aw THEN n ELSE Most(n, Least(tm, Least(h, hz)))

PassNext(n, told, h, hz, x) == Most(n + 1, Least(h, Least(hz, IF x = n THEN told + Half ELSE x)))

LEMMA PassNumbers ==
    ASSUME NEW n, NEW r, NEW told, NEW h, NEW tm, NEW hz, NEW aw, NEW d,
           PassFrom(n, r, told, h, tm, hz, aw, d)
    PROVE  LET x == PassPromise(n, h, tm, hz, aw)
               z == PassNext(n, told, h, hz, x)
           IN  /\ x \in Nat /\ n <= x /\ r <= x /\ x <= Never
               /\ x = n \/ (~aw /\ x <= tm /\ x <= hz /\ NotBefore(d, x))
               /\ z \in Nat /\ n < z /\ z <= Never /\ NotBefore(d, z)
               /\ n < hz => z <= hz
<1> DEFINE x == PassPromise(n, h, tm, hz, aw)
           z == PassNext(n, told, h, hz, x)
<1>a. x = (IF aw THEN n ELSE Most(n, Least(tm, Least(h, hz))))
  BY DEF PassPromise
<1>b. z = Most(n + 1, Least(h, Least(hz, IF x = n THEN told + Half ELSE x)))
  BY DEF PassNext
<1> HIDE DEF x, z
<1>c. /\ n \in Nat /\ r \in Nat /\ told \in Nat /\ h \in Nat /\ tm \in Nat /\ hz \in Nat
      /\ aw \in BOOLEAN /\ d \in Seq(DueRec)
      /\ InOrder(d) /\ NotBefore(d, n + 1) /\ h = (IF d = <<>> THEN Never ELSE Head(d).due)
      /\ n <= MaxTime /\ told <= n /\ tm <= Never /\ r <= Never
      /\ r <= n \/ (~aw /\ r <= tm /\ r <= hz /\ NotBefore(d, r))
  BY DEF PassFrom
<1>0. /\ Half \in Nat \ {0} /\ Quantum = 2 * Half /\ MaxTime \in Nat /\ Ahead \in Nat
      /\ Never = MaxTime + 3 * Quantum + Ahead
  BY Numbers
<1>1. /\ NotBefore(d, h)
      /\ \A t \in Int : t <= Never /\ NotBefore(d, t) => t <= h
  BY <1>c, FirstDue
<1>2. n + 1 <= Never /\ n + Half <= Never /\ Never \in Nat
  BY <1>0, <1>c
<1>3. n + 1 <= h
  BY <1>1, <1>2, <1>c
<1>4. (~aw /\ r <= tm /\ r <= hz /\ NotBefore(d, r)) => r <= h
  BY <1>1, <1>c
<1>5. x \in Nat /\ n <= x /\ r <= x
  <2>1. CASE aw
    BY <1>a, <1>c, <2>1
  <2>2. CASE ~aw
    <3>1. x = Most(n, Least(tm, Least(h, hz)))
      BY <1>a, <2>2
    <3> QED
      BY <1>4, <1>c, <2>2, <3>1 DEF Most, Least
  <2> QED
    BY <2>1, <2>2
<1>6. x = n \/ (~aw /\ x <= tm /\ x <= hz /\ x <= h)
  <2>1. CASE aw
    BY <1>a, <2>1
  <2>2. CASE ~aw
    <3>1. x = Most(n, Least(tm, Least(h, hz)))
      BY <1>a, <2>2
    <3> QED
      BY <1>c, <2>2, <3>1 DEF Most, Least
  <2> QED
    BY <2>1, <2>2
<1>7. x <= Never
  BY <1>2, <1>5, <1>6, <1>c
<1>8. x = n \/ (~aw /\ x <= tm /\ x <= hz /\ NotBefore(d, x))
  <2>1. x <= h => NotBefore(d, x)
    BY <1>1, <1>5, <1>c, EarlierBound
  <2> QED
    BY <1>6, <2>1
<1> DEFINE pace == IF x = n THEN told + Half ELSE x
<1>9. pace \in Nat /\ pace <= Never
  BY <1>0, <1>2, <1>5, <1>7, <1>c
<1>10. z = Most(n + 1, Least(h, Least(hz, pace)))
  BY <1>b
<1> HIDE DEF pace
<1>11. /\ z \in Nat /\ n < z /\ z <= Never /\ z <= h
       /\ n < hz => z <= hz
  <2> DEFINE u == Least(hz, pace)  v == Least(h, u)
  <2>1. u \in Nat /\ u <= hz /\ u <= pace
    BY <1>9, <1>c DEF Least
  <2> HIDE DEF u
  <2>2. v \in Nat /\ v <= h /\ v <= u
    BY <2>1, <1>c DEF Least
  <2> HIDE DEF v
  <2>3. z = Most(n + 1, v)
    BY <1>10 DEF u, v
  <2>4. /\ z \in Nat /\ n < z
        /\ z = n + 1 \/ (z <= h /\ z <= hz /\ z <= pace)
    BY <1>9, <1>c, <2>1, <2>2, <2>3 DEF Most
  <2> QED
    BY <1>2, <1>3, <1>9, <1>c, <2>4
<1>12. NotBefore(d, z)
  BY <1>1, <1>11, <1>c, EarlierBound
<1> QED
  BY <1>5, <1>7, <1>8, <1>11, <1>12 DEF x, z

LEMMA PassKeeps ==
    ASSUME NetInv, NEW p \in Players, Pass(p)
    PROVE  NetInv' /\ OthersRest(p) /\ promised[p] <= promised'[p]
<1>0. /\ On(p) /\ UNCHANGED <<mode, now, sent, hub>> /\ Drain(p)
      /\ NetTypes /\ Own(p) /\ Kept(p) /\ Paced(p) /\ InOrder(due[p]) /\ reported[p] <= now[p]
  <2>1. Own(p) /\ NetTypes
    BY DEF NetInv
  <2>2. mode[p] = "on"
    BY DEF Pass, On
  <2> QED
    BY <2>1, <2>2 DEF Pass, Own
<1>1. /\ now[p] \in Nat /\ now[p] <= MaxTime /\ next[p] \in Nat /\ reported[p] \in Nat
      /\ promised[p] \in Nat /\ promised[p] <= Never /\ peerPromise[p] \in Nat
      /\ timer[p] \in Nat /\ timer[p] <= Never /\ awake[p] \in BOOLEAN
      /\ due[p] \in Seq(DueRec)
  <2>1. now[p] \in Nat /\ setup.end \in Nat /\ now[p] <= setup.end /\ setup.end <= MaxTime
    BY <1>0, OwnTypes
  <2>2. now[p] <= MaxTime
    BY <2>1, Numbers
  <2> QED
    BY <1>0, <2>1, <2>2, OwnTypes
<1>2. PICK k \in 0..Len(down[p]), q \in Seq(DueRec) :
         \E ripe \in 0..Len(q) : Drained(p, k, q, ripe)
  BY <1>0, DrainReads
<1>3. PICK ripe \in 0..Len(q) : Drained(p, k, q, ripe)
  BY <1>2
<1>4. /\ \A o \in Players \ {p} :
            /\ due'[o] = due[o] /\ down'[o] = down[o] /\ peerPromise'[o] = peerPromise[o]
            /\ awake'[o] = awake[o] /\ timer'[o] = timer[o]
      /\ due' = [due EXCEPT ![p] = due'[p]] /\ down' = [down EXCEPT ![p] = down'[p]]
      /\ peerPromise' = [peerPromise EXCEPT ![p] = peerPromise'[p]]
      /\ awake' = [awake EXCEPT ![p] = awake'[p]] /\ timer' = [timer EXCEPT ![p] = timer'[p]]
  BY <1>0, DrainReads
<1> DEFINE n == now[p]  r == promised[p]  d == due'[p]  tm == timer'[p]  aw == awake'[p]
           hz == peerPromise'[p] + Quantum
           h == IF d = <<>> THEN Never ELSE Head(d).due
           x == IF aw THEN n ELSE Most(n, Least(tm, Least(h, hz)))
<1>5. now'[p] = n /\ client' = client /\ replayed' = replayed /\ setup' = setup /\ mode' = mode
      /\ now' = now /\ hubUp' = hubUp /\ known' = known /\ sent' = sent
  BY <1>0 DEF hub
<1>6. HeadDue(p)' = h /\ Promise(p)' = x /\ Blocked(p)' = (n >= hz)
  <2>1. HeadDue(p)' = h
    BY DEF HeadDue, Never, Quantum
  <2>2. Promise(p)' = IF awake'[p] THEN now'[p]
                      ELSE Most(now'[p], Least(timer'[p],
                                  Least(HeadDue(p)', peerPromise'[p] + Quantum)))
    BY DEF Promise, Most, Least, Quantum
  <2>3. Blocked(p)' = (now'[p] >= peerPromise'[p] + Quantum)
    BY DEF Blocked, Quantum
  <2> QED
    BY <1>5, <2>1, <2>2, <2>3
<1>7. PICK report \in BOOLEAN, blocked \in BOOLEAN, told \in Nat :
         /\ told = IF report THEN Most(reported[p], n) ELSE reported[p]
         /\ blocked <=> (n >= hz)
         /\ up' = IF report THEN SendUp(p, Time(n, x)) ELSE up
         /\ reported' = [reported EXCEPT ![p] = told]
         /\ promised' = [promised EXCEPT ![p] = IF report THEN x ELSE promised[p]]
         /\ pc' = [pc EXCEPT ![p] = IF blocked THEN "wait" ELSE "run"]
         /\ next' = IF blocked THEN next
                    ELSE [next EXCEPT ![p] =
                       Most(n + 1, Least(h, Least(hz, IF x = n THEN told + Half ELSE x)))]
  <2>1. PICK promise \in {Promise(p)'}, blocked \in {Blocked(p)'} :
           \E report \in {MustReport(p, promise)} :
           \E told \in {IF report THEN Most(reported[p], now[p]) ELSE reported[p]} :
               /\ up' = IF report THEN SendUp(p, Time(now[p], promise)) ELSE up
               /\ reported' = [reported EXCEPT ![p] = told]
               /\ promised' = [promised EXCEPT ![p] = IF report THEN promise ELSE @]
               /\ pc' = [pc EXCEPT ![p] = IF blocked THEN "wait" ELSE "run"]
               /\ next' = IF blocked THEN next
                          ELSE [next EXCEPT ![p] = NextStep(p, promise, told)]
    BY DEF Pass
  <2>2. PICK report \in {MustReport(p, promise)} :
           \E told \in {IF report THEN Most(reported[p], now[p]) ELSE reported[p]} :
               /\ up' = IF report THEN SendUp(p, Time(now[p], promise)) ELSE up
               /\ reported' = [reported EXCEPT ![p] = told]
               /\ promised' = [promised EXCEPT ![p] = IF report THEN promise ELSE @]
               /\ pc' = [pc EXCEPT ![p] = IF blocked THEN "wait" ELSE "run"]
               /\ next' = IF blocked THEN next
                          ELSE [next EXCEPT ![p] = NextStep(p, promise, told)]
    BY <2>1
  <2>3. promise = x /\ blocked = (n >= hz)
    BY <1>6
  <2>4. blocked \in BOOLEAN
    BY <2>3
  <2>5. report \in BOOLEAN
    BY DEF MustReport
  <2>6. \A told : NextStep(p, promise, told)
           = Most(n + 1, Least(h, Least(hz, IF x = n THEN told + Half ELSE x)))
    BY <1>6, <2>3 DEF NextStep
  <2> HIDE DEF x, h, hz
  <2>7. PICK told \in {IF report THEN Most(reported[p], now[p]) ELSE reported[p]} :
               /\ up' = IF report THEN SendUp(p, Time(now[p], promise)) ELSE up
               /\ reported' = [reported EXCEPT ![p] = told]
               /\ promised' = [promised EXCEPT ![p] = IF report THEN promise ELSE @]
               /\ pc' = [pc EXCEPT ![p] = IF blocked THEN "wait" ELSE "run"]
               /\ next' = IF blocked THEN next
                          ELSE [next EXCEPT ![p] = NextStep(p, promise, told)]
    BY <2>2
  <2>8. /\ told = IF report THEN Most(reported[p], n) ELSE reported[p]
        /\ up' = IF report THEN SendUp(p, Time(n, x)) ELSE up
        /\ reported' = [reported EXCEPT ![p] = told]
        /\ promised' = [promised EXCEPT ![p] = IF report THEN x ELSE promised[p]]
        /\ pc' = [pc EXCEPT ![p] = IF blocked THEN "wait" ELSE "run"]
    BY <2>3, <2>7
  <2>9. next' = IF blocked THEN next
                ELSE [next EXCEPT ![p] =
                   Most(n + 1, Least(h, Least(hz, IF x = n THEN told + Half ELSE x)))]
    BY <2>6, <2>7
  <2> QED
    <3>1. told \in Nat
      BY <1>1, <2>5, <2>8 DEF Most
    <3>2. blocked <=> (n >= hz)
      BY <2>3
    <3> QED
      BY <2>4, <2>5, <2>8, <2>9, <3>1, <3>2, Zenon
<1> DEFINE z == Most(n + 1, Least(h, Least(hz, IF x = n THEN told + Half ELSE x)))
<1>8. /\ peerPromise'[p] \in Nat /\ peerPromise[p] <= peerPromise'[p] /\ peerPromise'[p] <= Never
  <2>1. peerPromise'[p] \in peerPromise[p]..Never
    BY <1>3, DrainedGrant
  <2>2. peerPromise[p] \in Nat /\ Never \in Nat
    BY <1>1, Numbers
  <2> QED
    BY <2>1, <2>2
<1>9. /\ d \in Seq(DueRec) /\ InOrder(d) /\ NotBefore(d, n + 1)
      /\ \A t \in Int : t <= peerPromise[p] + Quantum /\ NotBefore(due[p], t) =>
            NotBefore(d, t) /\ (ripe > 0 => t <= n)
  BY <1>3, DrainedQueue
<1>10. /\ \/ aw = awake[p] /\ tm = timer[p]
          \/ ripe > 0 /\ aw = TRUE /\ tm = Never
       /\ aw \in BOOLEAN /\ tm \in Nat /\ tm <= Never
  <2>1. \/ aw = awake[p] /\ tm = timer[p]
        \/ ripe > 0 /\ aw = TRUE /\ tm = Never
    BY <1>3, Zenon DEF Drained
  <2>2. aw \in BOOLEAN
    BY <1>1, <2>1, Zenon
  <2> HIDE DEF aw, tm
  <2>3. tm \in Nat /\ tm <= Never
    BY <1>1, <2>1, Numbers
  <2> QED
    BY <2>1, <2>2, <2>3
<1>11. hz \in Nat /\ peerPromise[p] + Quantum <= hz /\ n <= hz
  <2>1. now[p] <= peerPromise[p] + Quantum
    BY <1>0 DEF Paced
  <2>2. now[p] \in Nat /\ peerPromise[p] \in Nat /\ Quantum \in Nat
    BY <1>1, Numbers
  <2> QED
    BY <1>8, <2>1, <2>2
<1>12. told \in Nat /\ told <= n
  BY <1>0, <1>1, <1>7 DEF Most
<1>13. h \in Nat
  <2> HIDE DEF d
  <2> QED
    BY <1>9, FirstDue
<1>14. r <= n \/ (~aw /\ r <= tm /\ r <= hz /\ NotBefore(d, r))
  <2>1. CASE r <= n
    BY <2>1
  <2>2. CASE ~(r <= n)
    <3>1. /\ ~awake[p] /\ r <= timer[p] /\ r <= peerPromise[p] + Quantum
          /\ NotBefore(due[p], r)
      BY <1>0, <2>2 DEF Kept
    <3>2. NotBefore(d, r) /\ ~(ripe > 0)
      BY <1>1, <1>9, <2>2, <3>1
    <3>3. aw = awake[p] /\ tm = timer[p]
      BY <1>10, <3>2
    <3> QED
      BY <1>1, <1>11, <3>1, <3>2, <3>3, Numbers
  <2> QED
    BY <2>1, <2>2
<1>15. /\ x \in Nat /\ n <= x /\ r <= x /\ x <= Never
       /\ x = n \/ (~aw /\ x <= tm /\ x <= hz /\ NotBefore(d, x))
       /\ z \in Nat /\ n < z /\ z <= Never /\ NotBefore(d, z)
       /\ n < hz => z <= hz
  <2>1. n \in Nat /\ r \in Nat /\ n <= MaxTime /\ r <= Never
    BY <1>1
  <2>2. x = PassPromise(n, h, tm, hz, aw) /\ z = PassNext(n, told, h, hz, x)
    BY DEF PassPromise, PassNext
  <2>3. h = IF d = <<>> THEN Never ELSE Head(d).due
    OBVIOUS
  <2> HIDE DEF n, r, d, tm, aw, hz, h, x, z
  <2>4. PassFrom(n, r, told, h, tm, hz, aw, d)
    BY <1>9, <1>10, <1>11, <1>12, <1>13, <1>14, <2>1, <2>3 DEF PassFrom
  <2> QED
    BY <2>2, <2>4, PassNumbers
<1>16. next' = IF blocked THEN next ELSE [next EXCEPT ![p] = z]
  BY <1>7
<1>17. promised' = [promised EXCEPT ![p] = IF report THEN x ELSE r]
  BY <1>7
<1>18. blocked <=> ~(n < hz)
  <2>1. n \in Nat /\ (blocked <=> (n >= hz))
    BY <1>1, <1>7
  <2> HIDE DEF n, hz
  <2> QED
    BY <1>11, <2>1
<1>19. up' = IF report THEN SendUp(p, Time(n, x)) ELSE up
  BY <1>7
<1> HIDE DEF x, z, h
<1>20. /\ promised \in [Players -> 0..Never] /\ next \in [Players -> 0..Never]
       /\ reported \in [Players -> 0..Never] /\ pc \in [Players -> {"run", "wait"}]
       /\ due \in [Players -> Seq(DueRec)] /\ down \in [Players -> Seq(DownMsg)]
       /\ peerPromise \in [Players -> 0..Never] /\ awake \in [Players -> BOOLEAN]
       /\ timer \in [Players -> 0..Never] /\ up \in [Players -> Seq(UpMsg)]
  BY <1>0 DEF NetTypes
<1>21. /\ promised'[p] = (IF report THEN x ELSE r) /\ reported'[p] = told
       /\ pc'[p] = (IF blocked THEN "wait" ELSE "run")
       /\ ~blocked => next'[p] = z
  BY <1>7, <1>16, <1>17, <1>20
<1>22. Time(n, x) \in UpMsg /\ Time(n, x).promise = x /\ Time(n, x).type = "time"
  <2>1. Stamp(n) \in Nat
    BY <1>1 DEF Stamp
  <2> QED
    BY <1>15, <2>1 DEF Time, UpMsg
<1>23. /\ up' \in [Players -> Seq(UpMsg)]
       /\ \A o \in Players \ {p} : up'[o] = up[o]
       /\ up'[p] = up[p] \/ (report /\ up'[p] = Append(up[p], Time(n, x)))
  <2>1. CASE report
    <3>1. up' = SendUp(p, Time(n, x))
      BY <1>19, <2>1
    <3> QED
      BY <1>0, <1>22, <2>1, <3>1, SendUpAppends
  <2>2. CASE ~report
    BY <1>19, <1>20, <2>2
  <2> QED
    BY <2>1, <2>2
<1>24. OthersRest(p)
  <2>1. \A o \in Players \ {p} : /\ pc'[o] = pc[o] /\ next'[o] = next[o]
                                 /\ reported'[o] = reported[o] /\ promised'[o] = promised[o]
    BY <1>7, <1>16, <1>17, <1>20
  <2> QED
    BY <1>4, <1>5, <1>23, <2>1 DEF OthersRest
<1>25. DownSound(client, down, p)' /\ down'[p] \in Seq(DownMsg)
  BY <1>3, <1>5, DrainedStream
<1>26. NetTypes'
  <2>1. promised' \in [Players -> 0..Never]
    <3>1. (IF report THEN x ELSE r) \in 0..Never
      BY <1>1, <1>15, Numbers
    <3> QED
      BY <1>17, <1>20, <3>1
  <2>2. next' \in [Players -> 0..Never]
    <3>1. z \in 0..Never
      BY <1>15, Numbers
    <3> QED
      BY <1>16, <1>20, <3>1
  <2>3. reported' \in [Players -> 0..Never]
    <3>1. told \in 0..Never
      <4>1. MaxTime <= Never /\ Never \in Nat /\ MaxTime \in Nat
        BY Numbers
      <4>2. told <= MaxTime
        BY <1>1, <1>12, <4>1
      <4> QED
        BY <1>12, <4>1, <4>2
    <3> QED
      BY <1>7, <1>20, <3>1
  <2>4. pc' \in [Players -> {"run", "wait"}]
    BY <1>7, <1>20
  <2>5. due' \in [Players -> Seq(DueRec)] /\ down' \in [Players -> Seq(DownMsg)]
    BY <1>4, <1>9, <1>20, <1>25
  <2>6. peerPromise' \in [Players -> 0..Never]
    <3>1. peerPromise'[p] \in 0..Never
      BY <1>8, Numbers
    <3> QED
      BY <1>4, <1>20, <3>1
  <2>7. awake' \in [Players -> BOOLEAN] /\ timer' \in [Players -> 0..Never]
    <3>1. tm \in 0..Never
      BY <1>10, Numbers
    <3> QED
      BY <1>4, <1>10, <1>20, <3>1
  <2> QED
    BY <1>0, <1>5, <1>23, <2>1, <2>2, <2>3, <2>4, <2>5, <2>6, <2>7 DEF NetTypes
<1>27. Own(p)'
  <2>1. Kept(p)'
    <3>1. CASE report
      BY <1>1, <1>5, <1>15, <1>21, <3>1 DEF Kept, NotBefore
    <3>2. CASE ~report
      BY <1>5, <1>14, <1>21, <3>2 DEF Kept, NotBefore
    <3> QED
      BY <3>1, <3>2
  <2>2. NotBefore(d, n)
    BY <1>1, <1>9, EarlierBound
  <2>3. pc'[p] = "run" => n <= next'[p] /\ next'[p] <= hz /\ NotBefore(d, next'[p])
    BY <1>1, <1>15, <1>18, <1>21
  <2>4. Paced(p)'
    BY <1>5, <1>11, <2>2, <2>3 DEF Paced, NotBefore
  <2>5. InOrder(due[p])' /\ reported'[p] <= now'[p]
    BY <1>5, <1>9, <1>12, <1>21 DEF InOrder
  <2> QED
    BY <2>1, <2>4, <2>5 DEF Own
<1>28. Says(p) <= x /\ promised[p] <= promised'[p] /\ Says(p) <= Says(p)' /\ (report => Says(p)' = x)
  <2>1. now'[p] = now[p] /\ promised'[p] = (IF report THEN x ELSE promised[p])
    BY <1>5, <1>21
  <2>2. x \in Nat /\ now[p] <= x /\ promised[p] <= x
    BY <1>15
  <2> QED
    BY <1>1, <2>1, <2>2 DEF Says, Most
<1>29. SpeaksUp(p)
  <2>1. mode[p] = "on" /\ mode'[p] = "on" /\ x <= x
    BY <1>0, <1>5, <1>15 DEF On
  <2> QED
    BY <1>22, <1>23, <1>28, <2>1 DEF SpeaksUp
<1>30. NetInv'
  BY <1>5, <1>24, <1>25, <1>26, <1>27, <1>28, <1>29, PlayerStepKeeps
<1> QED
  BY <1>24, <1>28, <1>30

-----------------------------------------------------------------------------
(* A turn of the hub. *)

(* The stream s to a player that knows the grant pp, when the hub's is g:   *)
(* the shape of DownSound.                                                  *)
StreamOk(pp, g, s) ==
    /\ pp = 0 \/ pp <= g
    /\ \A i \in 1..Len(s) : /\ s[i].type = "frame" => pp <= s[i].t
                            /\ s[i].type = "time" => s[i].t <= g
    /\ \A i, j \in 1..Len(s) : i <= j /\ s[i].type = "time" => s[i].t <= s[j].t

LEMMA DownSoundIs ==
    ASSUME NEW c, NEW d, NEW p
    PROVE  DownSound(c, d, p) <=> StreamOk(peerPromise[p], c[p].granted, d[p])
  BY DEF DownSound, StreamOk

(* Frames no earlier than the grant, and then a higher grant, leave a       *)
(* stream sound.                                                            *)
LEMMA StreamExtended ==
    ASSUME NEW pp \in Nat, NEW g \in Int, NEW h \in Int, g <= h,
           NEW s \in Seq(DownMsg), NEW e \in Seq(DownMsg), StreamOk(pp, g, s),
           \A i \in 1..Len(e) : /\ g <= e[i].t
                                /\ e[i].type = "time" => e[i].t <= h /\ i = Len(e)
    PROVE  s \o e \in Seq(DownMsg) /\ StreamOk(pp, h, s \o e)
<1> DEFINE v == s \o e  l == Len(s)
<1>1. /\ v \in Seq(DownMsg) /\ Len(v) = l + Len(e) /\ l \in Nat /\ Len(e) \in Nat
      /\ \A i \in 1..(l + Len(e)) : v[i] = IF i <= l THEN s[i] ELSE e[i - l]
  <2>1. Len(s) \in Nat /\ Len(e) \in Nat
    OBVIOUS
  <2> QED
    BY <2>1, ConcatProperties
<1>2. /\ \A i \in 1..l : s[i].t \in Nat
      /\ \A i \in 1..Len(e) : e[i].t \in Nat
  <2>1. \A i \in 1..l : s[i] \in DownMsg
    OBVIOUS
  <2>2. \A i \in 1..Len(e) : e[i] \in DownMsg
    OBVIOUS
  <2> QED
    BY <2>1, <2>2 DEF DownMsg
<1>3. /\ pp = 0 \/ pp <= g
      /\ \A i \in 1..l : /\ s[i].type = "frame" => pp <= s[i].t
                         /\ s[i].type = "time" => s[i].t <= g
      /\ \A i, j \in 1..l : i <= j /\ s[i].type = "time" => s[i].t <= s[j].t
  BY DEF StreamOk
<1> HIDE DEF v, l
<1>4. ASSUME NEW i \in 1..Len(v)
      PROVE  \/ i \in 1..l /\ v[i] = s[i]
             \/ i > l /\ i - l \in 1..Len(e) /\ v[i] = e[i - l]
  BY <1>1
<1>5. ASSUME NEW i \in 1..Len(v)
      PROVE  /\ v[i].type = "frame" => pp <= v[i].t
             /\ v[i].type = "time" => v[i].t <= h
  <2>1. CASE i \in 1..l /\ v[i] = s[i]
    BY <1>2, <1>3, <2>1
  <2>2. CASE i > l /\ i - l \in 1..Len(e) /\ v[i] = e[i - l]
    BY <1>2, <1>3, <2>2
  <2> QED
    BY <1>4, <2>1, <2>2
<1>6. ASSUME NEW i \in 1..Len(v), NEW j \in 1..Len(v), i <= j, v[i].type = "time"
      PROVE  v[i].t <= v[j].t
  <2>1. CASE i \in 1..l /\ v[i] = s[i]
    <3>1. v[i].t <= g /\ v[i].t \in Nat
      BY <1>2, <1>3, <1>6, <2>1
    <3>2. CASE j \in 1..l /\ v[j] = s[j]
      BY <1>3, <1>6, <2>1, <3>2
    <3>3. CASE j > l /\ j - l \in 1..Len(e) /\ v[j] = e[j - l]
      BY <1>2, <3>1, <3>3
    <3> QED
      BY <1>4, <3>2, <3>3
  <2>2. CASE i > l /\ i - l \in 1..Len(e) /\ v[i] = e[i - l]
    <3>1. i - l = Len(e)
      BY <1>6, <2>2
    <3>2. j = i
      BY <1>1, <1>6, <3>1
    <3> QED
      BY <1>2, <2>2, <3>2
  <2> QED
    BY <1>4, <2>1, <2>2
<1>7. pp = 0 \/ pp <= h
  BY <1>3
<1>8. StreamOk(pp, h, v)
  BY <1>5, <1>6, <1>7 DEF StreamOk
<1> QED
  BY <1>1, <1>8 DEF v

(* All have joined when as many have as the hub waits for.                  *)
LEMMA EnoughIsAll ==
    ASSUME setup \in Setups, Cardinality(Started) <= setup.decks, NEW c,
           \A q \in Joined(c) : mode[q] # "off",
           Cardinality(Joined(c)) >= setup.decks
    PROVE  AllIn(c)
<1>1. Started \in SUBSET Players /\ IsFiniteSet(Players)
  BY NetSyncAssumption DEF Started
<1>2. IsFiniteSet(Started)
  BY <1>1, FS_Subset
<1>3. Joined(c) \in SUBSET Started
  BY DEF Joined, Clients, Started
<1>4. /\ Cardinality(Joined(c)) <= Cardinality(Started)
      /\ Cardinality(Started) = Cardinality(Joined(c)) => Started = Joined(c)
      /\ IsFiniteSet(Joined(c))
  BY <1>2, <1>3, FS_Subset
<1>5. Cardinality(Joined(c)) \in Nat /\ Cardinality(Started) \in Nat /\ setup.decks \in Nat
  <2>1. Cardinality(Players) \in Nat
    BY <1>1, FS_CardinalityType
  <2>2. setup.decks \in 1..Cardinality(Players)
    BY SetupOf
  <2> QED
    BY <1>2, <1>4, <2>1, <2>2, FS_CardinalityType
<1>6. Started = Joined(c) /\ Cardinality(Started) = setup.decks
  BY <1>4, <1>5
<1>7. ASSUME NEW q \in Players
      PROVE  ~ToStart(q) /\ (mode[q] # "off" => c[q].joined)
  <2>1. ~(Cardinality({o \in Players : mode[o] # "off"}) < setup.decks)
    BY <1>5, <1>6 DEF Started
  <2>2. mode[q] # "off" => q \in Joined(c)
    BY <1>6 DEF Started
  <2> QED
    BY <2>1, <2>2 DEF ToStart, Joined
<1> QED
  BY <1>7 DEF AllIn

(* The rest of a turn: whatever clients c and streams d the service left,   *)
(* if they are sound then so are those at the end of the turn; and what was *)
(* on its way to a player still is.                                         *)
LEMMA PushAndGrantKeeps ==
    ASSUME NetTypes, Cardinality(Started) <= setup.decks,
           NEW c \in [Players -> ClientRec], NEW d \in [Players -> Seq(DownMsg)],
           NEW u \in [Players -> Seq(UpMsg)], HubInv(c, d, u, replayed),
           PushAndGrant(c, d)
    PROVE  /\ client' \in [Players -> ClientRec] /\ down' \in [Players -> Seq(DownMsg)]
           /\ replayed' \in 0..Len(setup.replay) /\ known' \in BOOLEAN
           /\ HubInv(client', down', u, replayed')
           /\ \A p \in Players : \E e \in Seq(DownMsg) : down'[p] = d[p] \o e
<1> DEFINE r == Pushed(c)
           grant == [p \in Players |-> GrantOf(c, r, p)]
           raised == {p \in Clients(c) : grant[p] > c[p].granted}
           n == r - replayed
           frames == [i \in 1..n |-> FrameDown(setup.replay[replayed + i], "hub", 0)]
<1>1. setup \in Setups /\ replayed \in 0..Len(setup.replay) /\ known \in BOOLEAN
  BY DEF NetTypes
<1>2. PICK flows \in BOOLEAN :
        /\ replayed' = r
        /\ client' = [p \in Players |->
              IF p \in raised THEN [c[p] EXCEPT !.granted = grant[p]] ELSE c[p]]
        /\ known' = (known \/ flows)
        /\ down' = [p \in Players |->
              SendDown(p, d[p], (IF flows /\ p \in Clients(c) THEN frames ELSE <<>>)
                                \o (IF p \in raised THEN <<Grant(grant[p])>> ELSE <<>>))]
  <2> DEFINE RaisedOf(g) == {p \in Clients(c) : g[p] > c[p].granted}
             FramesOf(x) == [i \in 1..(x - replayed) |->
                               FrameDown(setup.replay[replayed + i], "hub", 0)]
             Flow(x, g) ==
                \E flows \in IF FramesOf(x) = <<>> THEN {FALSE} ELSE BOOLEAN :
                   /\ known' = (known \/ flows)
                   /\ down' = [p \in Players |->
                         SendDown(p, d[p],
                            (IF flows /\ p \in Clients(c) THEN FramesOf(x) ELSE <<>>)
                            \o (IF p \in RaisedOf(g) THEN <<Grant(g[p])>> ELSE <<>>))]
             Turn(x, g) ==
                /\ replayed' = x
                /\ client' = [p \in Players |->
                      IF p \in RaisedOf(g) THEN [c[p] EXCEPT !.granted = g[p]] ELSE c[p]]
                /\ Flow(x, g)
  <2>a. \E x \in {Pushed(c)} : \E g \in {[p \in Players |-> GrantOf(c, x, p)]} : Turn(x, g)
    BY DEF PushAndGrant
  <2>b. Turn(r, grant)
    <3> HIDE DEF Turn
    <3> QED
      BY <2>a
  <2>1. /\ replayed' = r
        /\ client' = [p \in Players |->
              IF p \in raised THEN [c[p] EXCEPT !.granted = grant[p]] ELSE c[p]]
    BY <2>b
  <2>2. \E flows \in IF frames = <<>> THEN {FALSE} ELSE BOOLEAN :
           /\ known' = (known \/ flows)
           /\ down' = [p \in Players |->
                 SendDown(p, d[p], (IF flows /\ p \in Clients(c) THEN frames ELSE <<>>)
                                   \o (IF p \in raised THEN <<Grant(grant[p])>> ELSE <<>>))]
    <3>1. Flow(r, grant)
      BY <2>b
    <3>2. FramesOf(r) = frames /\ RaisedOf(grant) = raised
      OBVIOUS
    <3> HIDE DEF r, grant, raised, frames, n, FramesOf, RaisedOf
    <3> QED
      BY <3>1, <3>2
  <2> HIDE DEF r, grant, raised, n, frames
  <2>3. \A f \in (IF frames = <<>> THEN {FALSE} ELSE BOOLEAN) : f \in BOOLEAN
    OBVIOUS
  <2> QED
    BY <2>1, <2>2, <2>3
<1>3. r \in replayed..Len(setup.replay) /\ r \in 0..Len(setup.replay) /\ n \in Nat
  <2>1. r \in replayed..Len(setup.replay)
    BY <1>1, PushedGoesOn
  <2> HIDE DEF r
  <2> QED
    BY <1>1, <2>1
<1> HIDE DEF r
<1>4. /\ ReplayDue(replayed) \in Int /\ ReplayDue(r) \in 0..Never
      /\ ReplayDue(replayed) <= ReplayDue(r)
      /\ \A i \in 1..n : /\ setup.replay[replayed + i] \in Nat
                         /\ ReplayDue(replayed) <= setup.replay[replayed + i]
  <2>1. /\ ReplayDue(replayed) \in 0..Never
        /\ ReplayDue(replayed) <= ReplayDue(r)
        /\ \A i \in 1..(r - replayed) : /\ setup.replay[replayed + i] \in Nat
                                        /\ ReplayDue(replayed) <= setup.replay[replayed + i]
    BY <1>1, <1>3, ReplayGoesOn
  <2>2. ReplayDue(r) \in 0..Never
    <3>1. r \in r..Len(setup.replay)
      BY <1>3
    <3> QED
      BY <1>1, <1>3, <3>1, ReplayGoesOn
  <2> QED
    BY <2>1, <2>2
<1>5. \A p \in Players : /\ grant[p] \in Nat /\ grant[p] <= ReplayDue(r)
                         /\ \A q \in Joined(c) \ {p} : grant[p] <= c[q].promise
                         /\ grant[p] > 0 => Cardinality(Joined(c)) >= setup.decks
  BY <1>1, <1>3, GrantBounded
<1>6. \A p \in Players : /\ c[p] \in ClientRec /\ c[p].granted \in Int
                         /\ UpSound(c, u, p) /\ Granted(c, replayed, p) /\ DownSound(c, d, p)
  <2>1. \A p \in Players : c[p] \in ClientRec
    OBVIOUS
  <2> QED
    BY <2>1 DEF ClientRec, HubInv
<1> HIDE DEF grant
<1>7. \A p \in Clients(c) : p \in Players /\ c[p].conn = "open"
  BY DEF Clients
<1>8. ASSUME NEW p \in Players
      PROVE  /\ client'[p] \in ClientRec
             /\ client'[p].conn = c[p].conn /\ client'[p].joined = c[p].joined
             /\ client'[p].promise = c[p].promise
             /\ c[p].granted <= client'[p].granted
             /\ p \in raised => client'[p].granted = grant[p] /\ c[p].granted < grant[p]
             /\ p \notin raised => client'[p] = c[p]
  <2>1. CASE p \in raised
    <3>1. client'[p] = [c[p] EXCEPT !.granted = grant[p]]
      BY <1>2, <2>1
    <3>2. c[p] \in ClientRec /\ grant[p] \in Int /\ c[p].granted \in Int /\ grant[p] > c[p].granted
      BY <1>5, <1>6, <2>1
    <3> HIDE DEF raised
    <3>3. client'[p] \in ClientRec /\ client'[p].granted = grant[p]
      BY <3>1, <3>2 DEF ClientRec
    <3>4. /\ client'[p].conn = c[p].conn /\ client'[p].joined = c[p].joined
          /\ client'[p].promise = c[p].promise
      BY <3>1, <3>2 DEF ClientRec
    <3> QED
      BY <2>1, <3>2, <3>3, <3>4
  <2>2. CASE p \notin raised
    <3>1. client'[p] = c[p]
      BY <1>2, <2>2
    <3> QED
      BY <1>6, <2>2, <3>1
  <2> QED
    BY <2>1, <2>2
<1>9. Joined(client') = Joined(c)
  BY <1>8 DEF Joined, Clients
<1>10. client' \in [Players -> ClientRec]
  <2>1. client' = [p \in Players |-> client'[p]]
    BY <1>2
  <2> QED
    BY <1>8, <2>1
<1>11. AllIn(c) => AllIn(client')
  BY <1>8 DEF AllIn
<1>12. \A q \in Joined(c) : mode[q] # "off"
  <2> SUFFICES ASSUME NEW q \in Joined(c), mode[q] = "off" PROVE FALSE
    OBVIOUS
  <2>1. q \in Players /\ c[q].joined /\ c[q].conn = "open"
    BY DEF Joined, Clients
  <2>2. c[q] = NoClient
    BY <1>6, <2>1 DEF UpSound
  <2> QED
    BY <2>1, <2>2 DEF NoClient
<1>13. Cardinality(Joined(c)) >= setup.decks => AllIn(c)
  BY <1>1, <1>12, EnoughIsAll
<1>14. ASSUME NEW p \in Players
       PROVE  Granted(client', r, p)
  <2>0. Granted(c, replayed, p) /\ c[p].granted \in Int
    BY <1>6
  <2>1. CASE p \in raised
    <3>1. client'[p].granted = grant[p]
      BY <1>8, <2>1
    <3>2. \A q \in Players \ {p} : q \in Joined(client') => grant[p] <= client'[q].promise
      BY <1>5, <1>8, <1>9
    <3>3. grant[p] > 0 => AllIn(client')
      BY <1>5, <1>11, <1>13
    <3>4. -1 <= grant[p] /\ grant[p] <= ReplayDue(r)
      BY <1>5
    <3> QED
      BY <3>1, <3>2, <3>3, <3>4 DEF Granted
  <2>2. CASE p \notin raised
    <3>1. client'[p] = c[p]
      BY <1>8, <2>2
    <3>2. \A q \in Players \ {p} : q \in Joined(client') => c[p].granted <= client'[q].promise
      BY <1>8, <1>9, <2>0 DEF Granted
    <3>3. c[p].granted > 0 => AllIn(client')
      BY <1>11, <2>0 DEF Granted
    <3>4. -1 <= c[p].granted /\ c[p].granted <= ReplayDue(r)
      BY <1>4, <2>0 DEF Granted
    <3> QED
      BY <3>1, <3>2, <3>3, <3>4 DEF Granted
  <2> QED
    BY <2>1, <2>2
<1>15. ASSUME NEW p \in Players
       PROVE  UpSound(client', u, p)
  <2>1. UpSound(c, u, p)
    BY <1>6
  <2>2. c[p] = NoClient => client'[p] = c[p]
    <3>1. c[p] = NoClient => p \notin raised
      BY <1>7 DEF NoClient
    <3> QED
      BY <1>8, <3>1
  <2> QED
    BY <1>8, <2>1, <2>2 DEF UpSound
<1>16. /\ frames \in Seq(DownMsg) /\ Len(frames) = n
       /\ \A i \in 1..n : /\ frames[i].type = "frame"
                          /\ ReplayDue(replayed) <= frames[i].t
  <2>1. ASSUME NEW i \in 1..n
        PROVE  /\ FrameDown(setup.replay[replayed + i], "hub", 0) \in DownMsg
               /\ frames[i].type = "frame" /\ ReplayDue(replayed) <= frames[i].t
    BY <1>4 DEF FrameDown, DownMsg
  <2>2. frames \in [1..n -> DownMsg]
    BY <2>1
  <2>3. frames \in Seq(DownMsg) /\ Len(frames) = n
    <3> HIDE DEF frames, n
    <3>1. frames \in Seq(DownMsg)
      BY <1>3, <2>2
    <3>2. DOMAIN frames = 1..n
      BY <2>2
    <3> QED
      BY <1>3, <3>1, <3>2, LenProperties
  <2> QED
    BY <2>1, <2>3
<1> HIDE DEF frames, n, raised
<1>17. ASSUME NEW p \in Players
       PROVE  /\ \E e \in Seq(DownMsg) : down'[p] = d[p] \o e
              /\ down'[p] \in Seq(DownMsg)
              /\ StreamOk(peerPromise[p], client'[p].granted, down'[p])
  <2> DEFINE a == IF flows /\ p \in Clients(c) THEN frames ELSE <<>>
             b == IF p \in raised THEN <<Grant(grant[p])>> ELSE <<>>
             g == c[p].granted  h == client'[p].granted
  <2>0. \A i \in 1..Len(<<>>) : FALSE
    OBVIOUS
  <2>1. g \in Int /\ h \in Int /\ g <= h /\ d[p] \in Seq(DownMsg) /\ peerPromise[p] \in Nat
    <3>1. client'[p] \in ClientRec
      BY <1>8
    <3>2. h \in Int
      BY <3>1 DEF ClientRec
    <3> QED
      BY <1>6, <1>8, <3>2, OwnTypes
  <2>2. StreamOk(peerPromise[p], g, d[p]) /\ g <= ReplayDue(replayed)
    BY <1>6, DownSoundIs DEF Granted
  <2>3. a \in Seq(DownMsg) /\ \A i \in 1..Len(a) : a[i].type = "frame" /\ g <= a[i].t
    <3>1. CASE flows /\ p \in Clients(c)
      <4>1. a = frames
        BY <3>1
      <4>2. \A i \in 1..n : frames[i].t \in Nat
        <5>1. \A i \in 1..n : frames[i] \in DownMsg
          BY <1>16
        <5> QED
          BY <5>1 DEF DownMsg
      <4> HIDE DEF a, g
      <4> QED
        BY <1>4, <1>16, <2>1, <2>2, <4>1, <4>2
    <3>2. CASE ~(flows /\ p \in Clients(c))
      <4>1. a = <<>> /\ <<>> \in Seq(DownMsg)
        BY <3>2
      <4> QED
        BY <2>0, <4>1
    <3> QED
      BY <3>1, <3>2
  <2>4. b \in Seq(DownMsg) /\ \A i \in 1..Len(b) : g <= b[i].t /\ b[i].t <= h /\ i = Len(b)
    <3>1. CASE p \in raised
      <4>1. b = <<Grant(grant[p])>>
        BY <3>1
      <4>2. Grant(grant[p]) \in DownMsg /\ Grant(grant[p]).t = grant[p]
        BY <1>5 DEF Grant, DownMsg
      <4>3. h = grant[p] /\ g <= grant[p]
        BY <1>5, <1>8, <2>1, <3>1
      <4>4. grant[p] <= h
        BY <1>5, <4>3
      <4> HIDE DEF g, h, b
      <4>5. b \in Seq(DownMsg) /\ Len(b) = 1 /\ b[1] = Grant(grant[p])
        BY <4>1, <4>2
      <4> QED
        BY <4>2, <4>3, <4>4, <4>5
    <3>2. CASE p \notin raised
      <4>1. b = <<>> /\ <<>> \in Seq(DownMsg)
        BY <3>2
      <4> QED
        BY <2>0, <4>1
    <3> QED
      BY <3>1, <3>2
  <2>5. down'[p] = IF Reachable(p) THEN d[p] \o (a \o b) ELSE d[p]
    BY <1>2 DEF SendDown
  <2> HIDE DEF a, b, g, h
  <2>6. d[p] \o a \in Seq(DownMsg) /\ StreamOk(peerPromise[p], g, d[p] \o a)
    <3>1. g <= g
      BY <2>1
    <3>2. \A i \in 1..Len(a) : /\ g <= a[i].t
                               /\ a[i].type = "time" => a[i].t <= g /\ i = Len(a)
      BY <2>3
    <3> QED
      BY <2>1, <2>2, <2>3, <3>1, <3>2, StreamExtended
  <2>7. (d[p] \o a) \o b \in Seq(DownMsg) /\ StreamOk(peerPromise[p], h, (d[p] \o a) \o b)
    <3> DEFINE s == d[p] \o a
    <3>1. s \in Seq(DownMsg) /\ StreamOk(peerPromise[p], g, s)
      BY <2>6
    <3> HIDE DEF s
    <3>2. s \o b \in Seq(DownMsg) /\ StreamOk(peerPromise[p], h, s \o b)
      BY <2>1, <2>4, <3>1, StreamExtended
    <3> QED
      BY <3>2 DEF s
  <2>8. (d[p] \o a) \o b = d[p] \o (a \o b) /\ a \o b \in Seq(DownMsg)
    <3>1. a \o b \in Seq(DownMsg)
      BY <2>3, <2>4, ConcatProperties
    <3>2. \A x, y, z \in Seq(DownMsg) : (x \o y) \o z = x \o (y \o z)
      BY ConcatAssociative
    <3> QED
      BY <2>1, <2>3, <2>4, <3>1, <3>2
  <2>9. CASE Reachable(p)
    BY <2>5, <2>7, <2>8, <2>9 DEF h
  <2>10. CASE ~Reachable(p)
    <3>1. down'[p] = d[p]
      BY <2>5, <2>10
    <3>2. d[p] \o <<>> = d[p] /\ <<>> \in Seq(DownMsg)
      <4>1. <<>> \in Seq(DownMsg)
        OBVIOUS
      <4> QED
        BY <2>1, <4>1, ConcatEmptySeq
    <3>3. \A i \in 1..Len(<<>>) : /\ g <= (<<>>[i]).t
                                  /\ (<<>>[i]).type = "time" => (<<>>[i]).t <= h /\ i = Len(<<>>)
      BY <2>0
    <3>4. StreamOk(peerPromise[p], h, d[p] \o <<>>)
      BY <2>1, <2>2, <3>2, <3>3, StreamExtended
    <3>5. StreamOk(peerPromise[p], h, d[p])
      BY <3>2, <3>4
    <3> QED
      BY <2>1, <3>1, <3>2, <3>5 DEF h
  <2> QED
    BY <2>9, <2>10
<1>18. down' \in [Players -> Seq(DownMsg)]
  <2>1. down' = [p \in Players |-> down'[p]]
    BY <1>2
  <2>2. \A p \in Players : down'[p] \in Seq(DownMsg)
    BY <1>17
  <2> QED
    BY <2>1, <2>2
<1>19. HubInv(client', down', u, replayed')
  <2>1. replayed' = r
    BY <1>2
  <2>2. ASSUME NEW p \in Players
        PROVE  UpSound(client', u, p) /\ Granted(client', replayed', p)
               /\ DownSound(client', down', p)
    <3>1. DownSound(client', down', p)
      BY <1>17, DownSoundIs
    <3> QED
      BY <1>14, <1>15, <2>1, <3>1
  <2> QED
    BY <2>2 DEF HubInv
<1>20. replayed' \in 0..Len(setup.replay) /\ known' \in BOOLEAN
  BY <1>1, <1>2, <1>3
<1> QED
  BY <1>10, <1>17, <1>18, <1>19, <1>20

(* So a turn keeps the invariant when the service of its socket does.       *)
LEMMA HubTurnKeeps ==
    ASSUME NetInv, up' \in [Players -> Seq(UpMsg)],
           NEW c \in [Players -> ClientRec], NEW d \in [Players -> Seq(DownMsg)],
           HubInv(c, d, up', replayed), PushAndGrant(c, d), UNCHANGED <<own, setup, hubUp>>
    PROVE  /\ NetInv'
           /\ \A p \in Players : \E e \in Seq(DownMsg) : down'[p] = d[p] \o e
<1>1. /\ mode' = mode /\ pc' = pc /\ now' = now /\ next' = next /\ reported' = reported
      /\ promised' = promised /\ peerPromise' = peerPromise /\ due' = due /\ awake' = awake
      /\ timer' = timer /\ sent' = sent /\ setup' = setup /\ hubUp' = hubUp
  BY DEF own
<1>2. NetTypes /\ Cardinality(Started) <= setup.decks /\ \A p \in Players : Own(p)
  BY DEF NetInv
<1>3. /\ client' \in [Players -> ClientRec] /\ down' \in [Players -> Seq(DownMsg)]
      /\ replayed' \in 0..Len(setup.replay) /\ known' \in BOOLEAN
      /\ HubInv(client', down', up', replayed')
      /\ \A p \in Players : \E e \in Seq(DownMsg) : down'[p] = d[p] \o e
  BY <1>2, PushAndGrantKeeps
<1>4. NetTypes'
  BY <1>1, <1>2, <1>3 DEF NetTypes
<1>5. HubInv(client, down, up, replayed)'
  <2>1. ASSUME NEW p \in Players
        PROVE  (UpSound(client, up, p) /\ Granted(client, replayed, p)
                /\ DownSound(client, down, p))'
    <3>1. /\ UpSound(client', up', p) /\ Granted(client', replayed', p)
          /\ DownSound(client', down', p)
      BY <1>3 DEF HubInv
    <3>2. UpSound(client, up, p)'
      BY <1>1, <3>1 DEF UpSound, Says, Most, Rising, NoClient
    <3>3. DownSound(client, down, p)'
      BY <1>1, <3>1 DEF DownSound
    <3>4. Granted(client, replayed, p)'
      <4>1. AllIn(client') => AllIn(client)'
        BY <1>1 DEF AllIn, ToStart
      <4>2. ReplayDue(replayed)' = ReplayDue(replayed')
        BY <1>1 DEF ReplayDue, Never, Quantum
      <4>3. Joined(client)' = Joined(client')
        BY DEF Joined, Clients
      <4> QED
        BY <1>1, <3>1, <4>1, <4>2, <4>3 DEF Granted
    <3> QED
      BY <3>2, <3>3, <3>4
  <2> QED
    BY <2>1 DEF HubInv
<1>6. \A p \in Players : Own(p)'
  BY <1>1, <1>2 DEF Own, Kept, Paced, InOrder, NotBefore
<1>7. Cardinality(Started)' <= setup'.decks
  BY <1>1, <1>2 DEF Started
<1> QED
  BY <1>3, <1>4, <1>5, <1>6, <1>7 DEF NetInv

LEMMA HubAcceptKeeps ==
    ASSUME NetInv, NEW p \in Players, HubAccept(p)
    PROVE  /\ NetInv'
           /\ \A q \in Players : \E e \in Seq(DownMsg) : down'[q] = down[q] \o e
<1> DEFINE c == [client EXCEPT ![p] = [@ EXCEPT !.conn = "open"]]
<1>1. /\ mode[p] # "off" /\ client[p].conn = "none" /\ PushAndGrant(c, down)
      /\ UNCHANGED <<own, setup, hubUp>> /\ up' = up
  BY DEF HubAccept
<1>2. /\ client \in [Players -> ClientRec] /\ down \in [Players -> Seq(DownMsg)]
      /\ up \in [Players -> Seq(UpMsg)]
      /\ \A q \in Players : /\ UpSound(client, up, q) /\ Granted(client, replayed, q)
                            /\ DownSound(client, down, q)
  BY DEF NetInv, NetTypes, HubInv
<1>3. client[p] = NoClient
  BY <1>1, <1>2 DEF UpSound
<1>4. /\ c \in [Players -> ClientRec]
      /\ c[p] = [NoClient EXCEPT !.conn = "open"]
      /\ \A q \in Players \ {p} : c[q] = client[q]
  <2>1. [client[p] EXCEPT !.conn = "open"] \in ClientRec
    BY <1>2, <1>3 DEF NoClient, ClientRec
  <2> QED
    BY <1>2, <1>3, <2>1
<1>5. /\ c[p].conn = "open" /\ c[p].joined = FALSE /\ c[p].promise = 0 /\ c[p].granted = -1
      /\ client[p].promise = 0 /\ client[p].granted = -1 /\ client[p].joined = FALSE
  BY <1>3, <1>4 DEF NoClient
<1> HIDE DEF c
<1>6. Joined(c) = Joined(client)
  <2>1. p \notin Joined(c) /\ p \notin Joined(client)
    BY <1>5 DEF Joined
  <2>2. \A q \in Players \ {p} : q \in Joined(c) <=> q \in Joined(client)
    BY <1>4 DEF Joined, Clients
  <2>3. Joined(c) \subseteq Players /\ Joined(client) \subseteq Players
    BY DEF Joined, Clients
  <2> QED
    BY <2>1, <2>2, <2>3
<1>7. AllIn(client) => AllIn(c)
  BY <1>3, <1>4, <1>5 DEF AllIn
<1>8. ASSUME NEW q \in Players
      PROVE  UpSound(c, up, q) /\ Granted(c, replayed, q) /\ DownSound(c, down, q)
  <2>1. c[q].granted = client[q].granted /\ c[q].promise = client[q].promise
    BY <1>4, <1>5
  <2>2. DownSound(c, down, q)
    BY <1>2, <2>1 DEF DownSound
  <2>3. Granted(c, replayed, q)
    <3>1. \A o \in Players : c[o].promise = client[o].promise
      BY <1>4, <1>5
    <3> QED
      BY <1>2, <1>6, <1>7, <2>1, <3>1 DEF Granted
  <2>4. UpSound(c, up, q)
    <3>1. CASE q = p
      BY <1>1, <1>2, <1>5, <2>1, <3>1 DEF UpSound
    <3>2. CASE q # p
      BY <1>2, <1>4, <3>2 DEF UpSound
    <3> QED
      BY <3>1, <3>2
  <2> QED
    BY <2>2, <2>3, <2>4
<1>9. HubInv(c, down, up', replayed)
  BY <1>1, <1>8 DEF HubInv
<1> QED
  BY <1>1, <1>2, <1>4, <1>9, HubTurnKeeps

LEMMA HubDropKeeps ==
    ASSUME NetInv, NEW p \in Players, HubDrop(p)
    PROVE  /\ NetInv'
           /\ \A q \in Players : \E e \in Seq(DownMsg) : down'[q] = down[q] \o e
<1> DEFINE c == [client EXCEPT ![p] = [@ EXCEPT !.conn = "closed"]]
<1>1. /\ mode[p] = "gone" /\ up[p] = <<>> /\ p \in Clients(client) /\ PushAndGrant(c, down)
      /\ UNCHANGED <<own, setup, hubUp>> /\ up' = up
  BY DEF HubDrop
<1>2. /\ client \in [Players -> ClientRec] /\ down \in [Players -> Seq(DownMsg)]
      /\ up \in [Players -> Seq(UpMsg)]
      /\ \A q \in Players : /\ UpSound(client, up, q) /\ Granted(client, replayed, q)
                            /\ DownSound(client, down, q)
  BY DEF NetInv, NetTypes, HubInv
<1>3. client[p] \in ClientRec
  BY <1>2
<1>4. /\ c \in [Players -> ClientRec]
      /\ c[p] = [client[p] EXCEPT !.conn = "closed"]
      /\ \A q \in Players \ {p} : c[q] = client[q]
  <2>1. [client[p] EXCEPT !.conn = "closed"] \in ClientRec
    BY <1>3 DEF ClientRec
  <2> QED
    BY <1>2, <2>1
<1>5. /\ c[p].conn = "closed" /\ c[p].joined = client[p].joined
      /\ c[p].promise = client[p].promise /\ c[p].granted = client[p].granted
  BY <1>3, <1>4 DEF ClientRec
<1> HIDE DEF c
<1>6. Joined(c) \subseteq Joined(client)
  BY <1>4, <1>5 DEF Joined, Clients
<1>7. AllIn(client) => AllIn(c)
  BY <1>4, <1>5 DEF AllIn
<1>8. ASSUME NEW q \in Players
      PROVE  UpSound(c, up, q) /\ Granted(c, replayed, q) /\ DownSound(c, down, q)
  <2>1. c[q].granted = client[q].granted /\ c[q].promise = client[q].promise
    BY <1>4, <1>5
  <2>2. DownSound(c, down, q)
    BY <1>2, <2>1 DEF DownSound
  <2>3. Granted(c, replayed, q)
    <3>1. \A o \in Players : c[o].promise = client[o].promise
      BY <1>4, <1>5
    <3> QED
      BY <1>2, <1>6, <1>7, <2>1, <3>1 DEF Granted
  <2>4. UpSound(c, up, q)
    <3>1. CASE q = p
      BY <1>1, <1>2, <1>5, <2>1, <3>1 DEF UpSound
    <3>2. CASE q # p
      BY <1>2, <1>4, <3>2 DEF UpSound
    <3> QED
      BY <3>1, <3>2
  <2> QED
    BY <2>2, <2>3, <2>4
<1>9. HubInv(c, down, up', replayed)
  BY <1>1, <1>8 DEF HubInv
<1> QED
  BY <1>1, <1>2, <1>4, <1>9, HubTurnKeeps

(* A hub that ends leaves what it has granted and sent as it was.           *)
LEMMA HubQuitKeeps ==
    ASSUME NetInv, HubQuit
    PROVE  NetInv'
<1>1. /\ mode' = mode /\ pc' = pc /\ now' = now /\ next' = next /\ reported' = reported
      /\ promised' = promised /\ peerPromise' = peerPromise /\ due' = due /\ awake' = awake
      /\ timer' = timer /\ sent' = sent /\ setup' = setup /\ hubUp' = FALSE
      /\ up' = [p \in Players |-> <<>>] /\ down' = down /\ client' = client
      /\ replayed' = replayed /\ known' = known
  BY DEF HubQuit, own
<1>2. NetTypes /\ Cardinality(Started) <= setup.decks /\ \A p \in Players : Own(p)
  BY DEF NetInv
<1>3. NetTypes'
  <2>1. up' \in [Players -> Seq(UpMsg)]
    <3>1. <<>> \in Seq(UpMsg)
      OBVIOUS
    <3> QED
      BY <1>1, <3>1
  <2> QED
    BY <1>1, <1>2, <2>1 DEF NetTypes
<1>4. HubInv(client, down, up, replayed)'
  <2>0. \A i \in 1..Len(<<>>) : FALSE
    OBVIOUS
  <2>1. ASSUME NEW p \in Players
        PROVE  (UpSound(client, up, p) /\ Granted(client, replayed, p)
                /\ DownSound(client, down, p))'
    <3>1. /\ UpSound(client, up, p) /\ Granted(client, replayed, p)
          /\ DownSound(client, down, p)
      BY DEF NetInv, HubInv
    <3>2. UpSound(client, up, p)'
      <4>1. up'[p] = <<>> /\ Rising(<<>>)
        BY <1>1, <2>0 DEF Rising
      <4> QED
        BY <1>1, <2>0, <3>1, <4>1 DEF UpSound, Says, Most, Rising, NoClient
    <3>3. DownSound(client, down, p)'
      BY <1>1, <3>1 DEF DownSound
    <3>4. Granted(client, replayed, p)'
      <4>1. AllIn(client) => AllIn(client)'
        BY <1>1 DEF AllIn, ToStart
      <4>2. ReplayDue(replayed)' = ReplayDue(replayed)
        BY <1>1 DEF ReplayDue, Never, Quantum
      <4>3. Joined(client)' = Joined(client)
        BY <1>1 DEF Joined, Clients
      <4> QED
        BY <1>1, <3>1, <4>1, <4>2, <4>3 DEF Granted
    <3> QED
      BY <3>2, <3>3, <3>4
  <2> QED
    BY <2>1 DEF HubInv
<1>5. \A p \in Players : Own(p)'
  BY <1>1, <1>2 DEF Own, Kept, Paced, InOrder, NotBefore
<1>6. Cardinality(Started)' <= setup'.decks
  BY <1>1, <1>2 DEF Started
<1> QED
  BY <1>3, <1>4, <1>5, <1>6 DEF NetInv

(* The first message of a player's stream is what the hub hears next; the   *)
(* rest is what it will hear after it.                                      *)
LEMMA HeardUp ==
    ASSUME NEW s \in Seq(UpMsg), s # <<>>, Rising(s), NEW b \in Int,
           \A i \in 1..Len(s) : s[i].promise <= b
    PROVE  /\ Head(s) \in UpMsg /\ Head(s).promise <= b /\ Head(s) = s[1] /\ 1 \in 1..Len(s)
           /\ Head(s).type = "frame" => Head(s).t = Head(s).promise
           /\ Tail(s) \in Seq(UpMsg) /\ Rising(Tail(s))
           /\ \A i \in 1..Len(Tail(s)) : Head(s).promise <= Tail(s)[i].promise
                                         /\ Tail(s)[i].promise <= b
<1>1. /\ Len(s) \in Nat /\ 1 \in 1..Len(s) /\ Head(s) = s[1] /\ s[1] \in UpMsg
  BY EmptySeq, HeadTailProperties, ElementOfSeq
<1>2. /\ Tail(s) \in Seq(UpMsg) /\ Len(Tail(s)) = Len(s) - 1
      /\ \A i \in 1..Len(Tail(s)) : Tail(s)[i] = s[i + 1]
  BY HeadTailProperties
<1>3. \A i \in 1..Len(Tail(s)) : i + 1 \in 1..Len(s) /\ Tail(s)[i] = s[i + 1]
  BY <1>1, <1>2
<1>4. /\ \A i, j \in 1..Len(s) : i <= j => s[i].promise <= s[j].promise
      /\ \A i \in 1..Len(s) : s[i].type = "frame" => s[i].t = s[i].promise
  BY DEF Rising
<1>5. \A i, j \in 1..Len(Tail(s)) : i <= j => Tail(s)[i].promise <= Tail(s)[j].promise
  <2> SUFFICES ASSUME NEW i \in 1..Len(Tail(s)), NEW j \in 1..Len(Tail(s)), i <= j
               PROVE  Tail(s)[i].promise <= Tail(s)[j].promise
    OBVIOUS
  <2>1. i + 1 <= j + 1
    BY <1>1, <1>2
  <2> QED
    BY <1>3, <1>4, <2>1
<1>6. \A i \in 1..Len(Tail(s)) : Tail(s)[i].type = "frame" => Tail(s)[i].t = Tail(s)[i].promise
  BY <1>3, <1>4
<1>7. Rising(Tail(s))
  BY <1>5, <1>6 DEF Rising
<1>8. \A i \in 1..Len(Tail(s)) : Head(s).promise <= Tail(s)[i].promise
                                 /\ Tail(s)[i].promise <= b
  <2>1. \A i \in 1..Len(Tail(s)) : 1 <= i + 1
    BY <1>1, <1>2
  <2> QED
    BY <1>1, <1>3, <1>4, <2>1
<1> QED
  BY <1>1, <1>2, <1>4, <1>7, <1>8

LEMMA HubMessageKeeps ==
    ASSUME NetInv, NEW p \in Players, HubMessage(p)
    PROVE  /\ NetInv'
           /\ \A q \in Players : \E e \in Seq(DownMsg) : down'[q] = down[q] \o e
<1> DEFINE m == Head(up[p])
           answer == FrameDown(Most(m.t, client[p].granted), "hub", m.n)
           cp == Heard(client[p], m)
           c == [client EXCEPT ![p] = cp]
           d == [q \in Players |->
                   IF m.type # "frame" \/ q \notin Clients(client) THEN down[q]
                   ELSE IF q # p THEN SendDown(q, down[q], <<FrameDown(m.t, p, m.n)>>)
                   ELSE IF setup.asks /\ known THEN SendDown(q, down[q], <<answer>>)
                   ELSE down[q]]
<1>1. /\ p \in Clients(client) /\ up[p] # <<>> /\ up' = [up EXCEPT ![p] = Tail(up[p])]
      /\ PushAndGrant(c, d) /\ UNCHANGED <<own, setup, hubUp>>
  BY DEF HubMessage
<1>2. /\ client \in [Players -> ClientRec] /\ down \in [Players -> Seq(DownMsg)]
      /\ up \in [Players -> Seq(UpMsg)]
      /\ \A q \in Players : /\ UpSound(client, up, q) /\ Granted(client, replayed, q)
                            /\ DownSound(client, down, q)
  BY DEF NetInv, NetTypes, HubInv
<1>3. Says(p) \in Nat /\ \A q \in Players : peerPromise[q] \in Nat
  BY OwnTypes DEF NetInv, Says, Most
<1>4. /\ client[p] \in ClientRec /\ client[p].conn = "open" /\ client[p].promise \in Nat
      /\ client[p].granted \in Int /\ client[p].t \in Nat /\ client[p].joined \in BOOLEAN
      /\ \A q \in Players : client[q].granted \in Int
  <2>1. \A q \in Players : client[q] \in ClientRec
    BY <1>2
  <2> QED
    BY <1>1, <2>1 DEF ClientRec, Clients
<1>5. /\ m \in UpMsg /\ m.promise <= Says(p) /\ client[p].promise <= m.promise
      /\ m.type = "frame" => m.t = m.promise
      /\ Tail(up[p]) \in Seq(UpMsg) /\ Rising(Tail(up[p]))
      /\ \A i \in 1..Len(Tail(up[p])) : m.promise <= Tail(up[p])[i].promise
                                        /\ Tail(up[p])[i].promise <= Says(p)
  <2>1. /\ up[p] \in Seq(UpMsg) /\ up[p] # <<>> /\ Rising(up[p])
        /\ \A i \in 1..Len(up[p]) : client[p].promise <= up[p][i].promise
                                    /\ up[p][i].promise <= Says(p)
    BY <1>1, <1>2 DEF UpSound
  <2> DEFINE s == up[p]
             b == Says(p)
  <2>2. /\ Head(s) \in UpMsg /\ Head(s).promise <= b
        /\ Head(s) = s[1] /\ 1 \in 1..Len(s)
        /\ Head(s).type = "frame" => Head(s).t = Head(s).promise
        /\ Tail(s) \in Seq(UpMsg) /\ Rising(Tail(s))
        /\ \A i \in 1..Len(Tail(s)) : Head(s).promise <= Tail(s)[i].promise
                                       /\ Tail(s)[i].promise <= b
    <3>1. s \in Seq(UpMsg) /\ s # <<>> /\ Rising(s) /\ b \in Int
          /\ \A i \in 1..Len(s) : s[i].promise <= b
      BY <1>3, <2>1
    <3> HIDE DEF s, b
    <3> QED
      BY <3>1, HeardUp
  <2>3. client[p].promise <= m.promise
    BY <2>1, <2>2
  <2> QED
    BY <2>2, <2>3
<1>6. m.t \in Nat /\ m.promise \in Nat /\ m.n \in Nat
  BY <1>5 DEF UpMsg
<1>7. mode[p] # "off"
  BY <1>1, <1>2 DEF UpSound
<1>8. c = [client EXCEPT ![p] = cp]
  OBVIOUS
<1>9. /\ cp \in ClientRec /\ cp.conn = "open" /\ cp.promise = m.promise
      /\ cp.granted = client[p].granted
      /\ cp.joined = (client[p].joined \/ m.type = "hello")
  <2> DEFINE y == Most(client[p].t, Stamp(m.t))
             j == client[p].joined \/ m.type = "hello"
             w == Most(client[p].promise, m.promise)
  <2>1. y \in Nat
    BY <1>4, <1>6 DEF Most, Stamp
  <2>2. j \in BOOLEAN
    OBVIOUS
  <2>3. w = m.promise
    BY <1>4, <1>5, <1>6 DEF Most
  <2>4. cp = [client[p] EXCEPT !.t = y, !.joined = j, !.promise = w]
    BY DEF Heard
  <2> HIDE DEF y, j, w, cp, m
  <2>5. cp \in ClientRec
    BY <1>4, <1>6, <2>1, <2>2, <2>3, <2>4 DEF ClientRec
  <2>6. cp.conn = "open" /\ cp.promise = w /\ cp.granted = client[p].granted /\ cp.joined = j
    BY <1>4, <2>4 DEF ClientRec
  <2> QED
    BY <2>3, <2>5, <2>6 DEF j
<1> HIDE DEF m, cp, c
<1>10. /\ c \in [Players -> ClientRec] /\ c[p] = cp
       /\ \A q \in Players \ {p} : c[q] = client[q]
  BY <1>2, <1>8, <1>9
<1>11. client[p].joined => cp.joined
  BY <1>9
<1>12. AllIn(client) => AllIn(c)
  BY <1>10, <1>11 DEF AllIn
(* What p says now is not before any other's grant: either p had been heard *)
(* from, or nothing has been granted.                                       *)
<1>13. \A q \in Players \ {p} : client[q].granted <= m.promise
  <2> SUFFICES ASSUME NEW q \in Players \ {p}
               PROVE  client[q].granted <= m.promise
    OBVIOUS
  <2>1. Granted(client, replayed, q) /\ client[q].granted \in Int
    BY <1>2, <1>4
  <2>2. CASE client[p].joined
    <3>1. p \in Joined(client)
      BY <1>1, <2>2 DEF Joined
    <3>2. client[q].granted <= client[p].promise
      BY <2>1, <3>1 DEF Granted
    <3> QED
      BY <1>4, <1>5, <1>6, <2>1, <3>2
  <2>3. CASE ~client[p].joined
    <3>1. ~AllIn(client)
      BY <1>7, <2>3 DEF AllIn
    <3>2. ~(client[q].granted > 0)
      BY <2>1, <3>1 DEF Granted
    <3> QED
      BY <1>6, <2>1, <3>2
  <2> QED
    BY <2>2, <2>3
<1>14. ASSUME NEW q \in Players
       PROVE  Granted(c, replayed, q)
  <2>1. Granted(client, replayed, q) /\ client[q].granted \in Int /\ c[q].granted = client[q].granted
    BY <1>2, <1>4, <1>9, <1>10
  <2>2. ASSUME NEW o \in Players \ {q}, o \in Joined(c)
        PROVE  client[q].granted <= c[o].promise
    <3>1. CASE o = p
      BY <1>9, <1>10, <1>13, <3>1
    <3>2. CASE o # p
      <4>1. o \in Joined(client) /\ c[o] = client[o]
        BY <1>10, <2>2, <3>2 DEF Joined, Clients
      <4> QED
        BY <2>1, <4>1 DEF Granted
    <3> QED
      BY <3>1, <3>2
  <2> QED
    BY <1>12, <2>1, <2>2 DEF Granted
<1>15. ASSUME NEW q \in Players
       PROVE  UpSound(c, up', q)
  <2>1. CASE q = p
    <3>1. up'[p] = Tail(up[p])
      BY <1>1, <1>2
    <3>2. m.promise <= Says(p)
      BY <1>5
    <3> QED
      BY <1>5, <1>7, <1>9, <1>10, <2>1, <3>1, <3>2 DEF UpSound
  <2>2. CASE q # p
    <3>1. up'[q] = up[q] /\ c[q] = client[q]
      BY <1>1, <1>2, <1>10, <2>2
    <3> QED
      BY <1>2, <3>1 DEF UpSound
  <2> QED
    BY <2>1, <2>2
<1>16. up' \in [Players -> Seq(UpMsg)]
  BY <1>1, <1>2, <1>5
<1>17. ASSUME NEW q \in Players
       PROVE  /\ d[q] \in Seq(DownMsg) /\ DownSound(c, d, q)
              /\ \E e \in Seq(DownMsg) : d[q] = down[q] \o e
  <2> DEFINE g == client[q].granted
  <2>1. /\ g \in Int /\ peerPromise[q] \in Nat /\ down[q] \in Seq(DownMsg)
        /\ c[q].granted = g
    BY <1>2, <1>3, <1>4, <1>9, <1>10
  <2>2. StreamOk(peerPromise[q], g, down[q])
    BY <1>2, DownSoundIs
  <2> HIDE DEF g
  <2>3. ASSUME NEW f \in DownMsg, f.type = "frame", g <= f.t
        PROVE  down[q] \o <<f>> \in Seq(DownMsg) /\ StreamOk(peerPromise[q], g, down[q] \o <<f>>)
    <3> DEFINE e == <<f>>
    <3>1. e \in Seq(DownMsg) /\ Len(e) = 1 /\ e[1] = f
      OBVIOUS
    <3> HIDE DEF e
    <3>2. g <= g
      BY <2>1
    <3>3. \A i \in 1..Len(e) : g <= e[i].t /\ (e[i].type = "time" => e[i].t <= g /\ i = Len(e))
      BY <2>3, <3>1
    <3>4. down[q] \o e \in Seq(DownMsg) /\ StreamOk(peerPromise[q], g, down[q] \o e)
      BY <2>1, <2>2, <3>1, <3>2, <3>3, StreamExtended
    <3> QED
      BY <3>4 DEF e
  <2>4. \/ d[q] = down[q]
        \/ \E f \in DownMsg : f.type = "frame" /\ g <= f.t /\ d[q] = down[q] \o <<f>>
    <3>1. d[q] = IF m.type # "frame" \/ q \notin Clients(client) THEN down[q]
                 ELSE IF q # p THEN SendDown(q, down[q], <<FrameDown(m.t, p, m.n)>>)
                 ELSE IF setup.asks /\ known THEN SendDown(q, down[q], <<answer>>)
                 ELSE down[q]
      OBVIOUS
    <3> HIDE DEF d
    <3>2. CASE m.type = "frame" /\ q # p
      <4> DEFINE f == FrameDown(m.t, p, m.n)
      <4>1. f \in DownMsg /\ f.type = "frame" /\ f.t = m.t
        BY <1>6 DEF FrameDown, DownMsg
      <4>2. g <= m.t
        BY <1>5, <1>13, <3>2 DEF g
      <4>3. d[q] = down[q] \/ d[q] = down[q] \o <<f>>
        BY <3>1, <3>2 DEF SendDown
      <4> HIDE DEF f
      <4> QED
        BY <4>1, <4>2, <4>3
    <3>3. CASE m.type = "frame" /\ q = p
      <4>1. answer \in DownMsg /\ answer.type = "frame" /\ g <= answer.t
        <5>1. Most(m.t, client[p].granted) \in Nat /\ g <= Most(m.t, client[p].granted)
          BY <1>4, <1>6, <3>3 DEF Most, g
        <5> QED
          BY <1>6, <5>1 DEF FrameDown, DownMsg
      <4>2. d[q] = down[q] \/ d[q] = down[q] \o <<answer>>
        BY <3>1, <3>3 DEF SendDown
      <4> HIDE DEF answer
      <4> QED
        BY <4>1, <4>2
    <3>4. CASE m.type # "frame"
      BY <3>1, <3>4
    <3> QED
      BY <3>2, <3>3, <3>4
  <2> HIDE DEF d
  <2>5. CASE d[q] = down[q]
    <3>1. down[q] \o <<>> = down[q] /\ <<>> \in Seq(DownMsg)
      <4>1. <<>> \in Seq(DownMsg)
        OBVIOUS
      <4> QED
        BY <2>1, <4>1, ConcatEmptySeq
    <3>2. DownSound(c, d, q)
      BY <2>1, <2>2, <2>5, DownSoundIs
    <3> QED
      BY <2>1, <2>5, <3>1, <3>2
  <2>6. CASE \E f \in DownMsg : f.type = "frame" /\ g <= f.t /\ d[q] = down[q] \o <<f>>
    <3>1. PICK f \in DownMsg : f.type = "frame" /\ g <= f.t /\ d[q] = down[q] \o <<f>>
      BY <2>6
    <3>2. d[q] \in Seq(DownMsg) /\ StreamOk(peerPromise[q], g, d[q])
      BY <2>3, <3>1
    <3>3. DownSound(c, d, q)
      BY <2>1, <3>2, DownSoundIs
    <3>4. <<f>> \in Seq(DownMsg)
      OBVIOUS
    <3> QED
      BY <3>1, <3>2, <3>3, <3>4
  <2> QED
    BY <2>4, <2>5, <2>6
<1>18. d \in [Players -> Seq(DownMsg)]
  <2>1. d = [q \in Players |-> d[q]]
    OBVIOUS
  <2>2. \A q \in Players : d[q] \in Seq(DownMsg)
    BY <1>17
  <2> HIDE DEF d
  <2> QED
    BY <2>1, <2>2
<1>19. PushAndGrant(c, d)
  BY <1>1
<1> HIDE DEF d
<1>20. HubInv(c, d, up', replayed)
  BY <1>14, <1>15, <1>17 DEF HubInv
<1>21. NetInv' /\ \A q \in Players : \E e \in Seq(DownMsg) : down'[q] = d[q] \o e
  BY <1>1, <1>10, <1>16, <1>18, <1>19, <1>20, HubTurnKeeps
<1>22. ASSUME NEW q \in Players
       PROVE  \E e \in Seq(DownMsg) : down'[q] = down[q] \o e
  <2>1. PICK e \in Seq(DownMsg) : d[q] = down[q] \o e
    BY <1>17
  <2>2. PICK f \in Seq(DownMsg) : down'[q] = d[q] \o f
    BY <1>21
  <2>3. down[q] \in Seq(DownMsg)
    BY <1>2
  <2>4. e \o f \in Seq(DownMsg)
    BY ConcatProperties
  <2>5. (down[q] \o e) \o f = down[q] \o (e \o f)
    <3>1. \A x, y, z \in Seq(DownMsg) : (x \o y) \o z = x \o (y \o z)
      BY ConcatAssociative
    <3> QED
      BY <2>3, <3>1
  <2> QED
    BY <2>1, <2>2, <2>4, <2>5
<1> QED
  BY <1>21, <1>22

-----------------------------------------------------------------------------
(* The invariant holds at the start and is kept by every step. *)

LEMMA InitNetInv ==
    ASSUME Init
    PROVE  NetInv
<1> DEFINE s == <<>>
<1>0. /\ Half \in Nat /\ Quantum \in Nat /\ Half <= Quantum /\ Quantum <= Never /\ Never \in Nat
  BY Numbers
<1>1. /\ setup \in Setups /\ setup.decks \in 1..Cardinality(Players) /\ setup.end \in 0..MaxTime
      /\ setup.replay \in Seq(0..MaxTime) /\ Len(setup.replay) \in Nat /\ MaxTime \in Nat
  <2>1. setup \in Setups
    BY DEF Init
  <2>2. setup.replay \in Seq(0..MaxTime)
    BY <2>1, SetupOf
  <2> QED
    BY <2>1, <2>2, SetupOf, Numbers, LenProperties
<1>2. /\ s \in Seq(UpMsg) /\ s \in Seq(DownMsg) /\ s \in Seq(DueRec)
      /\ \A i \in 1..Len(s) : FALSE
  OBVIOUS
<1>3. NoClient \in ClientRec /\ NoClient.promise = 0 /\ NoClient.granted = -1
      /\ NoClient.conn = "none" /\ NoClient.joined = FALSE
  BY DEF NoClient, ClientRec
<1>4. /\ mode = [p \in Players |-> "off"] /\ pc = [p \in Players |-> "run"]
      /\ now = [p \in Players |-> 0] /\ next = [p \in Players |-> Half]
      /\ reported = [p \in Players |-> 0] /\ promised = [p \in Players |-> 0]
      /\ peerPromise = [p \in Players |-> 0] /\ due = [p \in Players |-> s]
      /\ awake = [p \in Players |-> TRUE] /\ timer = [p \in Players |-> Never]
      /\ sent = [p \in Players |-> 0] /\ up = [p \in Players |-> s]
      /\ down = [p \in Players |-> s] /\ hubUp = TRUE
      /\ client = [p \in Players |-> NoClient] /\ replayed = 0 /\ known = FALSE
  BY DEF Init
<1> HIDE DEF s
<1>5. NetTypes
  <2>1. /\ now \in [Players -> 0..setup.end] /\ replayed \in 0..Len(setup.replay)
    BY <1>1, <1>4
  <2>2. /\ next \in [Players -> 0..Never] /\ reported \in [Players -> 0..Never]
        /\ promised \in [Players -> 0..Never] /\ peerPromise \in [Players -> 0..Never]
        /\ timer \in [Players -> 0..Never]
    BY <1>0, <1>4
  <2>3. /\ due \in [Players -> Seq(DueRec)] /\ up \in [Players -> Seq(UpMsg)]
        /\ down \in [Players -> Seq(DownMsg)]
    BY <1>2, <1>4
  <2>4. client \in [Players -> ClientRec]
    BY <1>3, <1>4
  <2>5. /\ mode \in [Players -> {"off", "on", "alone", "gone"}]
        /\ pc \in [Players -> {"run", "wait"}] /\ awake \in [Players -> BOOLEAN]
        /\ sent \in [Players -> Nat] /\ hubUp \in BOOLEAN /\ known \in BOOLEAN
    BY <1>4
  <2> QED
    BY <1>1, <2>1, <2>2, <2>3, <2>4, <2>5 DEF NetTypes
<1>6. Cardinality(Started) <= setup.decks
  <2>1. Started = {}
    BY <1>4 DEF Started
  <2> QED
    BY <1>1, <2>1, FS_EmptySet
<1>7. ASSUME NEW p \in Players
      PROVE  Own(p)
  <2>1. /\ now[p] = 0 /\ next[p] = Half /\ reported[p] = 0 /\ promised[p] = 0
        /\ peerPromise[p] = 0 /\ due[p] = s
    BY <1>4
  <2>2. InOrder(s) /\ \A t : NotBefore(s, t)
    BY <1>2 DEF InOrder, NotBefore
  <2>3. Kept(p)
    BY <2>1 DEF Kept
  <2>4. Paced(p)
    BY <1>0, <2>1, <2>2 DEF Paced
  <2> QED
    BY <2>1, <2>2, <2>3, <2>4 DEF Own
<1>8. ASSUME NEW p \in Players
      PROVE  UpSound(client, up, p) /\ Granted(client, replayed, p) /\ DownSound(client, down, p)
  <2>1. /\ client[p] = NoClient /\ up[p] = s /\ down[p] = s /\ peerPromise[p] = 0
        /\ now[p] = 0 /\ promised[p] = 0 /\ mode[p] = "off"
    BY <1>4
  <2>2. UpSound(client, up, p)
    <3>1. Rising(s)
      BY <1>2 DEF Rising
    <3>2. Says(p) = 0
      BY <2>1 DEF Says, Most
    <3> QED
      BY <1>2, <1>3, <2>1, <3>1, <3>2 DEF UpSound
  <2>3. DownSound(client, down, p)
    BY <1>2, <2>1 DEF DownSound
  <2>4. Granted(client, replayed, p)
    <3>1. Joined(client) = {}
      BY <1>3, <1>4 DEF Joined, Clients
    <3>2. ReplayDue(replayed) \in Nat
      <4>1. CASE replayed < Len(setup.replay)
        <5>1. replayed + 1 \in 1..Len(setup.replay)
          BY <1>1, <1>4, <4>1
        <5>2. setup.replay[replayed + 1] \in 0..MaxTime
          BY <1>1, <5>1, ElementOfSeq
        <5> QED
          BY <1>1, <4>1, <5>2 DEF ReplayDue
      <4>2. CASE ~(replayed < Len(setup.replay))
        BY <1>0, <4>2 DEF ReplayDue
      <4> QED
        BY <4>1, <4>2
    <3>3. client[p].granted = -1
      BY <1>3, <2>1
    <3> QED
      BY <3>1, <3>2, <3>3 DEF Granted
  <2> QED
    BY <2>2, <2>3, <2>4
<1> QED
  BY <1>5, <1>6, <1>7, <1>8 DEF NetInv, HubInv

LEMMA StutterKeeps ==
    ASSUME NetInv, UNCHANGED vars
    PROVE  NetInv'
<1>1. /\ mode' = mode /\ pc' = pc /\ now' = now /\ next' = next /\ reported' = reported
      /\ promised' = promised /\ peerPromise' = peerPromise /\ due' = due /\ awake' = awake
      /\ timer' = timer /\ sent' = sent /\ setup' = setup /\ hubUp' = hubUp
      /\ up' = up /\ down' = down /\ client' = client
      /\ replayed' = replayed /\ known' = known
  BY DEF vars, own, hub
<1>2. NetTypes'
  BY <1>1 DEF NetInv, NetTypes
<1>3. (Cardinality(Started) <= setup.decks)'
  BY <1>1 DEF NetInv, Started
<1>4. ASSUME NEW p \in Players
      PROVE  Own(p)'
  BY <1>1 DEF NetInv, Own, Kept, Paced, InOrder, NotBefore
<1>5. HubInv(client, down, up, replayed)'
  <2>1. ASSUME NEW p \in Players
        PROVE  (UpSound(client, up, p) /\ Granted(client, replayed, p)
                /\ DownSound(client, down, p))'
    <3>1. /\ UpSound(client, up, p) /\ Granted(client, replayed, p)
          /\ DownSound(client, down, p)
      BY DEF NetInv, HubInv
    <3>2. UpSound(client, up, p)'
      BY <1>1, <3>1 DEF UpSound, Says, Most, Rising, NoClient
    <3>3. DownSound(client, down, p)'
      BY <1>1, <3>1 DEF DownSound
    <3>4. Granted(client, replayed, p)'
      <4>1. AllIn(client) => AllIn(client)'
        BY <1>1 DEF AllIn, ToStart
      <4>2. ReplayDue(replayed)' = ReplayDue(replayed)
        BY <1>1 DEF ReplayDue, Never, Quantum
      <4>3. Joined(client)' = Joined(client)
        BY <1>1 DEF Joined, Clients
      <4> QED
        BY <1>1, <3>1, <4>1, <4>2, <4>3 DEF Granted
    <3> QED
      BY <3>2, <3>3, <3>4
  <2> QED
    BY <2>1 DEF HubInv
<1> QED
  BY <1>2, <1>3, <1>4, <1>5 DEF NetInv

LEMMA NextKeepsNetInv ==
    ASSUME NetInv, [Next]_vars
    PROVE  NetInv'
<1>1. ASSUME NEW p \in Players, Progress(p)
      PROVE  NetInv'
  <2>1. CASE Tick(p)
    BY <2>1, TickKeeps
  <2>2. CASE Doze(p)
    BY <2>2, DozeKeeps
  <2>3. CASE TimerFires(p)
    BY <2>3, TimerFiresKeeps
  <2>4. CASE RunsOn(p)
    BY <2>4, RunsOnKeeps
  <2>5. CASE Lost(p)
    BY <2>5, LostKeeps
  <2>6. CASE Pass(p)
    BY <2>6, PassKeeps
  <2> QED
    BY <1>1, <2>1, <2>2, <2>3, <2>4, <2>5, <2>6 DEF Progress
<1>2. ASSUME NEW p \in Players, HubServes(p)
      PROVE  NetInv'
  <2>1. CASE HubAccept(p)
    BY <2>1, HubAcceptKeeps
  <2>2. CASE HubMessage(p)
    BY <2>2, HubMessageKeeps
  <2>3. CASE HubDrop(p)
    BY <2>3, HubDropKeeps
  <2> QED
    BY <1>2, <2>1, <2>2, <2>3 DEF HubServes
<1>3. ASSUME NEW p \in Players, Launch(p)
      PROVE  NetInv'
  BY <1>3, LaunchKeeps
<1>4. ASSUME NEW p \in Players, Sleep(p)
      PROVE  NetInv'
  BY <1>4, SleepKeeps
<1>5. ASSUME NEW p \in Players, Send(p)
      PROVE  NetInv'
  BY <1>5, SendKeeps
<1>6. ASSUME NEW p \in Players, Quit(p)
      PROVE  NetInv'
  BY <1>6, QuitKeeps
<1>7. CASE HubQuit
  BY <1>7, HubQuitKeeps
<1>8. CASE UNCHANGED vars
  BY <1>8, StutterKeeps
<1> QED
  BY <1>1, <1>2, <1>3, <1>4, <1>5, <1>6, <1>7, <1>8 DEF Next

(* The invariant holds in every reachable state.                            *)
THEOREM NetInvHolds == Spec => []NetInv
<1>1. Init => NetInv
  BY InitNetInv
<1>2. NetInv /\ [Next]_vars => NetInv'
  BY NextKeepsNetInv
<1> QED
  BY <1>1, <1>2, PTL DEF Spec

(* Every variable keeps to its kind, and a player's queue stays in the order*)
(* of the times its frames are due, in whatever order the streams of the    *)
(* other players bring them (netsim_parse).                                 *)
THEOREM NetTypesHold == Spec => []TypeOK
<1>1. NetInv => TypeOK
  <2> SUFFICES ASSUME NetInv
               PROVE  TypeOK
    OBVIOUS
  <2>1. NetTypes
    BY DEF NetInv
  <2>2. \A p \in Players : \A i, j \in 1..Len(due[p]) : i < j => due[p][i].due <= due[p][j].due
    <3> SUFFICES ASSUME NEW p \in Players, NEW i \in 1..Len(due[p]), NEW j \in 1..Len(due[p]), i < j
                 PROVE  due[p][i].due <= due[p][j].due
      OBVIOUS
    <3>1. InOrder(due[p])
      BY DEF NetInv, Own
    <3>2. i <= j
      OBVIOUS
    <3> QED
      BY <3>1, <3>2 DEF InOrder
  <2>3. client \in [Players -> [conn : {"none", "open", "closed"}, joined : BOOLEAN,
                                t : Nat, promise : Nat, granted : Nat \cup {-1}]]
    <3>1. ASSUME NEW p \in Players
          PROVE  client[p] \in [conn : {"none", "open", "closed"}, joined : BOOLEAN,
                                t : Nat, promise : Nat, granted : Nat \cup {-1}]
      <4>1. client[p] \in ClientRec
        BY <2>1 DEF NetTypes
      <4>2. -1 <= client[p].granted /\ client[p].granted \in Int
        BY <4>1 DEF NetInv, HubInv, Granted, ClientRec
      <4>3. client[p].granted \in Nat \cup {-1}
        BY <4>2
      <4> QED
        BY <4>1, <4>3 DEF ClientRec
    <3>2. client = [p \in Players |-> client[p]]
      BY <2>1 DEF NetTypes
    <3> QED
      BY <3>1, <3>2
  <2>4. due \in [Players -> Seq([due : Nat, src : Players \cup {"hub"}, n : Nat])]
    BY <2>1 DEF NetTypes, DueRec
  <2> QED
    BY <2>1, <2>2, <2>3, <2>4 DEF NetTypes, TypeOK
<1> QED
  BY <1>1, NetInvHolds, PTL

(* What a grant says of another player: it has been heard from, and has     *)
(* promised no less.                                                        *)
LEMMA GrantOfOther ==
    ASSUME NetInv, NEW p \in Players, NEW q \in Players, p # q, peerPromise[p] # 0
    PROVE  /\ ~ToStart(q)
           /\ mode[q] = "on" \/ up[q] # <<>> => peerPromise[p] <= client[q].promise
<1>1. /\ client[p].granted \in Int /\ client[q].promise \in Nat /\ client[q] \in ClientRec
      /\ peerPromise[p] \in Nat
  <2>1. client[p] \in ClientRec /\ client[q] \in ClientRec
    BY DEF NetInv, NetTypes
  <2> QED
    BY <2>1, OwnTypes DEF NetInv, ClientRec
<1>2. /\ DownSound(client, down, p) /\ Granted(client, replayed, p) /\ UpSound(client, up, q)
  BY DEF NetInv, HubInv
<1>3. peerPromise[p] <= client[p].granted /\ client[p].granted > 0
  BY <1>1, <1>2 DEF DownSound
<1>4. AllIn(client)
  BY <1>2, <1>3 DEF Granted
<1>5. ~ToStart(q)
  BY <1>4 DEF AllIn
<1>6. ASSUME mode[q] = "on" \/ up[q] # <<>>
      PROVE  peerPromise[p] <= client[q].promise
  <2>1. mode[q] # "off"
    BY <1>2, <1>6 DEF UpSound
  <2>2. client[q].joined
    BY <1>4, <2>1 DEF AllIn
  <2>3. client[q].conn # "none"
    BY <1>2, <2>2 DEF UpSound, NoClient
  <2>4. client[q].conn # "closed"
    BY <1>2, <1>6 DEF UpSound
  <2>5. client[q].conn = "open"
    BY <1>1, <2>3, <2>4 DEF ClientRec
  <2>6. q \in Joined(client)
    BY <2>2, <2>5 DEF Joined, Clients
  <2>7. client[p].granted <= client[q].promise
    BY <1>2, <2>6 DEF Granted
  <2> QED
    BY <1>1, <1>3, <2>7
<1> QED
  BY <1>5, <1>6

LEMMA NothingComesLate ==
    ASSUME NetInv
    PROVE  NoPastArrival
<1> SUFFICES ASSUME NEW p \in Players, On(p)
             PROVE  /\ \A t \in StillToCome(p) : t + Quantum >= now[p]
                    /\ \A i \in 1..Len(due[p]) : due[p][i].due >= now[p]
  BY DEF NoPastArrival
<1>1. /\ now[p] \in Nat /\ peerPromise[p] \in Nat /\ Quantum \in Nat
      /\ due[p] \in Seq(DueRec) /\ down[p] \in Seq(DownMsg)
  BY OwnTypes, Numbers DEF NetInv
<1>2. now[p] <= peerPromise[p] + Quantum /\ NotBefore(due[p], now[p])
  BY DEF NetInv, Own, On, Paced
<1>3. ASSUME NEW i \in 1..Len(due[p])
      PROVE  due[p][i].due >= now[p]
  <2>1. now[p] <= due[p][i].due
    BY <1>2 DEF NotBefore
  <2> QED
    BY <1>1, <2>1, DueIsNat
<1>4. ASSUME NEW t \in Stamps(down[p])
      PROVE  t + Quantum >= now[p]
  <2>1. PICK i \in 1..Len(down[p]) : down[p][i].type = "frame" /\ t = down[p][i].t
    BY DEF Stamps
  <2>2. t \in Nat
    <3>1. down[p][i] \in DownMsg
      BY <1>1, ElementOfSeq
    <3> QED
      BY <2>1, <3>1 DEF DownMsg
  <2>3. peerPromise[p] <= t
    BY <2>1 DEF NetInv, HubInv, DownSound
  <2> QED
    BY <1>1, <1>2, <2>2, <2>3
<1>5. ASSUME NEW q \in Players \ {p}, NEW t \in Stamps(up[q])
      PROVE  t + Quantum >= now[p]
  <2>1. PICK i \in 1..Len(up[q]) : up[q][i].type = "frame" /\ t = up[q][i].t
    BY DEF Stamps
  <2>2. up[q] \in Seq(UpMsg) /\ up[q] # <<>>
    <3>1. up[q] \in Seq(UpMsg)
      BY OwnTypes DEF NetInv
    <3>2. \A k \in 1..Len(<<>>) : FALSE
      OBVIOUS
    <3> QED
      BY <2>1, <3>1, <3>2
  <2>3. UpSound(client, up, q)
    BY DEF NetInv, HubInv
  <2>4. t = up[q][i].promise
    BY <2>1, <2>3 DEF UpSound, Rising
  <2>5. t \in Nat
    <3>1. up[q][i] \in UpMsg
      BY <2>2, ElementOfSeq
    <3> QED
      BY <2>1, <3>1 DEF UpMsg
  <2>6. CASE peerPromise[p] = 0
    BY <1>1, <1>2, <2>5, <2>6
  <2>7. CASE peerPromise[p] # 0
    <3>1. peerPromise[p] <= client[q].promise
      BY <2>2, <2>7, GrantOfOther
    <3>2. client[q].promise <= t
      BY <2>3, <2>4 DEF UpSound
    <3>3. client[q].promise \in Nat
      <4>1. client[q] \in ClientRec
        BY DEF NetInv, NetTypes
      <4> QED
        BY <4>1 DEF ClientRec
    <3> QED
      BY <1>1, <1>2, <2>5, <3>1, <3>2, <3>3
  <2> QED
    BY <2>6, <2>7
<1>6. ASSUME NEW t \in StillToCome(p)
      PROVE  t + Quantum >= now[p]
  <2>1. \/ t \in Stamps(down[p])
        \/ \E q \in Players \ {p} : t \in Stamps(up[q])
    BY <1>6 DEF StillToCome
  <2> QED
    BY <1>4, <1>5, <2>1
<1> QED
  BY <1>3, <1>6

LEMMA PaceIsKept ==
    ASSUME NetInv
    PROVE  KeepsPace
<1> SUFFICES ASSUME NEW p \in Players, NEW q \in Players, On(p), On(q) \/ ToStart(q)
             PROVE  now[p] <= Most(now[q], promised[q]) + Quantum
  BY DEF KeepsPace
<1>1. /\ now[p] \in Nat /\ peerPromise[p] \in Nat /\ Quantum \in Nat
      /\ now[q] \in Nat /\ promised[q] \in Nat
  BY OwnTypes, Numbers DEF NetInv
<1>2. now[p] <= peerPromise[p] + Quantum
  BY DEF NetInv, Own, On, Paced
<1>3. Most(now[q], promised[q]) \in Nat /\ now[q] <= Most(now[q], promised[q])
  BY <1>1 DEF Most
<1>4. CASE p = q
  BY <1>1, <1>3, <1>4
<1>5. CASE p # q /\ peerPromise[p] = 0
  BY <1>1, <1>2, <1>3, <1>5
<1>6. CASE p # q /\ peerPromise[p] # 0
  <2>1. ~ToStart(q)
    BY <1>6, GrantOfOther
  <2>2. mode[q] = "on"
    BY <2>1 DEF On
  <2>3. peerPromise[p] <= client[q].promise
    BY <1>6, <2>2, GrantOfOther
  <2>4. client[q].promise <= Most(now[q], promised[q])
    BY DEF NetInv, HubInv, UpSound, Says
  <2>5. client[q].promise \in Nat
    <3>1. client[q] \in ClientRec
      BY DEF NetInv, NetTypes
    <3> QED
      BY <3>1 DEF ClientRec
  <2> QED
    BY <1>1, <1>2, <1>3, <2>3, <2>4, <2>5
<1> QED
  BY <1>4, <1>5, <1>6

(* "so nothing can arrive in a player's past" (head of cdj2000_netsim.c):   *)
(* whatever the hub, another player or the replay has on the way to a       *)
(* player of the segment is due when its clock is not past it.              *)
THEOREM NothingArrivesInThePast == Spec => []NoPastArrival
  BY NothingComesLate, NetInvHolds, PTL

(* No player runs more than one latency past what another has promised or   *)
(* reached, however the hub's grants and the promises cross on their way;   *)
(* nor past its first quantum before every deck has joined.                 *)
THEOREM PlayersKeepPace == Spec => []KeepsPace
  BY PaceIsKept, NetInvHolds, PTL

-----------------------------------------------------------------------------
(* What a step may never do. *)

PromiseGoesOn(p) ==
    /\ sent'[p] # sent[p] => now[p] >= promised[p]
    /\ promised'[p] >= promised[p]

LEMMA StepsKeepPromise ==
    ASSUME NetInv, Next, NEW p \in Players
    PROVE  PromiseGoesOn(p)
<1>0. /\ promised[p] \in Nat /\ now[p] \in Nat /\ sent \in [Players -> Nat]
  BY OwnTypes DEF NetInv, NetTypes
<1>1. ASSUME sent' = sent, promised' = promised
      PROVE  PromiseGoesOn(p)
  BY <1>0, <1>1 DEF PromiseGoesOn
<1>2. ASSUME NEW r \in Players, Tick(r) \/ Doze(r) \/ TimerFires(r) \/ RunsOn(r) \/ Lost(r)
                                \/ Launch(r) \/ Sleep(r) \/ Quit(r) \/ HubServes(r)
      PROVE  PromiseGoesOn(p)
  <2>1. sent' = sent /\ promised' = promised
    BY <1>2 DEF Tick, Doze, TimerFires, RunsOn, Lost, Launch, Sleep, Quit, HubServes, HubAccept,
                HubMessage, HubDrop, own
  <2> QED
    BY <1>1, <2>1
<1>3. CASE HubQuit
  BY <1>1, <1>3 DEF HubQuit, own
<1>4. ASSUME NEW r \in Players, Send(r)
      PROVE  PromiseGoesOn(p)
  <2>1. /\ promised' = promised /\ sent' = [sent EXCEPT ![r] = @ + 1]
        /\ awake[r] /\ mode[r] = "on"
    BY <1>4 DEF Send, Guest, On
  <2>2. promised[r] <= now[r]
    BY <2>1 DEF NetInv, Own, Kept
  <2>3. CASE r = p
    BY <1>0, <2>1, <2>2, <2>3 DEF PromiseGoesOn
  <2>4. CASE r # p
    BY <1>0, <2>1, <2>4 DEF PromiseGoesOn
  <2> QED
    BY <2>3, <2>4
<1>5. ASSUME NEW r \in Players, Pass(r)
      PROVE  PromiseGoesOn(p)
  <2>1. sent' = sent
    BY <1>5 DEF Pass
  <2>2. OthersRest(r) /\ promised[r] <= promised'[r] /\ NetInv'
    BY <1>5, PassKeeps
  <2>3. promised'[p] \in Nat
    BY <2>2 DEF NetInv, NetTypes, Never, Quantum
  <2>4. promised[p] <= promised'[p]
    BY <1>0, <2>2 DEF OthersRest
  <2> QED
    BY <1>0, <2>1, <2>3, <2>4 DEF PromiseGoesOn
<1> QED
  BY <1>2, <1>3, <1>4, <1>5 DEF Next, Progress

(* A player sends nothing before what it promised the hub, and takes no     *)
(* promise back, although the frames of several senders reach its queue out *)
(* of order and each may bring its waking forward (netsim_promise).         *)
THEOREM PromisesAreKept == Spec => PromiseKept
<1> DEFINE A == \A p \in Players : PromiseGoesOn(p)
<1>1. NetInv /\ [Next]_vars => [A]_vars
  BY StepsKeepPromise
<1>2. PromiseKept <=> [][A]_vars
  BY DEF PromiseKept, PromiseGoesOn
<1> HIDE DEF A
<1> QED
  BY <1>1, <1>2, NetInvHolds, PTL DEF Spec

LEMMA UndeliveredGrows ==
    ASSUME NetTypes, NEW p \in Players, NEW e \in Seq(DownMsg),
           due'[p] = due[p], down'[p] = down[p] \o e
    PROVE  Undelivered(p) \subseteq Undelivered(p)'
<1>1. down[p] \in Seq(DownMsg)
  BY OwnTypes
<1> DEFINE s == down[p]
           t == down'[p]
<1>2. Len(s) \in Nat /\ Len(t) \in Nat /\ \A i \in 1..Len(s) : i \in 1..Len(t) /\ t[i] = s[i]
  <2>1. t = s \o e /\ s \in Seq(DownMsg)
    BY <1>1
  <2> HIDE DEF s, t
  <2>2. /\ Len(s) \in Nat /\ Len(e) \in Nat /\ Len(t) = Len(s) + Len(e)
        /\ \A i \in 1..Len(s) + Len(e) : t[i] = IF i <= Len(s) THEN s[i] ELSE e[i - Len(s)]
    BY <2>1, ConcatProperties, LenProperties
  <2> QED
    BY <2>2
<1> SUFFICES ASSUME NEW x \in Undelivered(p)
             PROVE  x \in Undelivered(p)'
  OBVIOUS
<1>3. CASE x \in ToSet(due[p])
  BY <1>3 DEF Undelivered
<1>4. CASE x \notin ToSet(due[p])
  <2>1. PICK i \in 1..Len(s) : /\ s[i].type = "frame"
                               /\ x = [due |-> s[i].t + Quantum, src |-> s[i].src, n |-> s[i].n]
    BY <1>4 DEF Undelivered
  <2>2. /\ i \in 1..Len(t) /\ t[i].type = "frame"
        /\ x = [due |-> t[i].t + Quantum, src |-> t[i].src, n |-> t[i].n]
    BY <1>2, <2>1
  <2> QED
    BY <2>2 DEF Undelivered
<1> QED
  BY <1>3, <1>4

LEMMA PassTakesOnTime ==
    ASSUME NetInv, NEW p \in Players, Pass(p), NEW x \in Undelivered(p), x \notin Undelivered(p)'
    PROVE  x.due = now[p]
<1>1. /\ NetTypes /\ InOrder(due[p]) /\ Drain(p) /\ mode[p] = "on" /\ Paced(p)
  BY DEF NetInv, Own, Pass, On
<1>2. PICK k \in 0..Len(down[p]) : \E q \in Seq(DueRec) :
                 \E ripe \in 0..Len(q) : Drained(p, k, q, ripe)
  BY <1>1, DrainReads
<1>3. PICK q \in Seq(DueRec) : \E ripe \in 0..Len(q) : Drained(p, k, q, ripe)
  BY <1>2
<1>4. PICK ripe \in 0..Len(q) : Drained(p, k, q, ripe)
  BY <1>3
<1>5. /\ now[p] \in Nat /\ peerPromise[p] \in Nat /\ Quantum \in Nat
      /\ down[p] \in Seq(DownMsg)
  BY <1>1, OwnTypes, Numbers
<1>6. NotBefore(q, now[p])
  <2>1. now[p] <= peerPromise[p] + Quantum /\ NotBefore(due[p], now[p]) /\ now[p] \in Int
    BY <1>1, <1>5 DEF Paced
  <2> QED
    BY <1>4, <2>1, DrainedQueue
<1>7. ASSUME NEW j \in 1..Len(q), x = q[j]
      PROVE  x.due = now[p]
  <2>1. Len(q) \in Nat /\ q[j].due \in Nat
    BY DueIsNat
  <2>2. j <= ripe
    <3> SUFFICES ASSUME ~(j <= ripe)
                 PROVE  FALSE
      OBVIOUS
    <3> DEFINE d == due'[p]
    <3>1. d = SubSeq(q, ripe + 1, Len(q))
      BY <1>4 DEF Drained
    <3>2. /\ d \in Seq(DueRec) /\ Len(d) = Len(q) - ripe
          /\ \A i \in 1..(Len(q) - ripe) : d[i] = q[ripe + i]
      <4> HIDE DEF d
      <4> QED
        BY <3>1, Remainder
    <3>3. j - ripe \in 1..(Len(q) - ripe) /\ ripe + (j - ripe) = j
      BY <2>1
    <3>4. d[j - ripe] = x /\ j - ripe \in 1..Len(d)
      BY <1>7, <3>2, <3>3
    <3>5. x \in ToSet(d)
      BY <3>2, <3>4 DEF ToSet
    <3> QED
      BY <3>5 DEF Undelivered
  <2>3. q[j].due <= now[p]
    BY <1>4, <2>1, <2>2 DEF Drained
  <2>4. now[p] <= q[j].due
    BY <1>6 DEF NotBefore
  <2> QED
    BY <1>5, <1>7, <2>1, <2>3, <2>4
<1>8. x \in ToSet(q)
  <2>1. CASE x \in ToSet(due[p])
    BY <1>4, <2>1 DEF Drained
  <2>2. CASE x \notin ToSet(due[p])
    <3> DEFINE s == down[p]
               t == down'[p]
    <3>1. PICK i \in 1..Len(s) : s[i].type = "frame" /\ x = Framed(s[i])
      BY <2>2 DEF Undelivered, Framed
    <3>2. i \in 1..k
      <4> SUFFICES ASSUME i \notin 1..k
                   PROVE  FALSE
        OBVIOUS
      <4>1. t = SubSeq(s, k + 1, Len(s)) /\ s \in Seq(DownMsg) /\ k \in 0..Len(s)
        BY <1>4, <1>5 DEF Drained
      <4> HIDE DEF s, t
      <4>2. /\ Len(s) \in Nat /\ Len(t) = Len(s) - k
            /\ \A l \in 1..(Len(s) - k) : t[l] = s[k + l]
        BY <4>1, Remainder, LenProperties
      <4>3. i - k \in 1..Len(t) /\ t[i - k] = s[i]
        <5>1. i - k \in 1..(Len(s) - k) /\ k + (i - k) = i
          BY <4>1, <4>2
        <5> QED
          BY <4>2, <5>1
      <4>4. /\ t[i - k].type = "frame"
            /\ x = [due |-> t[i - k].t + Quantum, src |-> t[i - k].src, n |-> t[i - k].n]
        BY <3>1, <4>3 DEF Framed
      <4> USE DEF s, t
      <4> QED
        BY <4>3, <4>4 DEF Undelivered
    <3> QED
      BY <1>4, <3>1, <3>2 DEF Drained
  <2> QED
    BY <2>1, <2>2
<1>9. PICK j \in 1..Len(q) : x = q[j]
  BY <1>8 DEF ToSet
<1> QED
  BY <1>7, <1>9

OnTime(p) ==
    On(p) /\ mode'[p] = "on" =>
       \A f \in Undelivered(p) \ Undelivered(p)' : f.due = now[p]

LEMMA StepsTakeOnTime ==
    ASSUME NetInv, Next, NEW p \in Players
    PROVE  OnTime(p)
<1>1. ASSUME due'[p] = due[p], down'[p] = down[p]
      PROVE  OnTime(p)
  <2>1. Undelivered(p)' = Undelivered(p)
    BY <1>1 DEF Undelivered
  <2> QED
    BY <2>1 DEF OnTime
<1>2. ASSUME NEW r \in Players, Tick(r) \/ Doze(r) \/ TimerFires(r) \/ RunsOn(r)
                                \/ Launch(r) \/ Sleep(r) \/ Send(r)
      PROVE  OnTime(p)
  <2>1. due' = due /\ down' = down
    BY <1>2 DEF Tick, Doze, TimerFires, RunsOn, Launch, Sleep, Send
  <2> QED
    BY <1>1, <2>1
<1>3. CASE HubQuit
  BY <1>1, <1>3 DEF HubQuit, own
<1>4. ASSUME NEW r \in Players, Lost(r) \/ Quit(r)
      PROVE  OnTime(p)
  <2>1. /\ mode' = [mode EXCEPT ![r] = "alone"] \/ mode' = [mode EXCEPT ![r] = "gone"]
        /\ due' = [due EXCEPT ![r] = <<>>] /\ down' = [down EXCEPT ![r] = <<>>]
    BY <1>4 DEF Lost, Quit, Drop
  <2>2. /\ mode \in [Players -> {"off", "on", "alone", "gone"}]
        /\ due \in [Players -> Seq(DueRec)] /\ down \in [Players -> Seq(DownMsg)]
    BY DEF NetInv, NetTypes
  <2>3. CASE r = p
    BY <2>1, <2>2, <2>3 DEF OnTime
  <2>4. CASE r # p
    BY <1>1, <2>1, <2>2, <2>4
  <2> QED
    BY <2>3, <2>4
<1>5. ASSUME NEW r \in Players, Pass(r)
      PROVE  OnTime(p)
  <2>1. CASE r = p
    BY <1>5, <2>1, PassTakesOnTime DEF OnTime
  <2>2. CASE r # p
    <3>1. OthersRest(r)
      BY <1>5, PassKeeps
    <3> QED
      BY <1>1, <2>2, <3>1 DEF OthersRest
  <2> QED
    BY <2>1, <2>2
<1>6. ASSUME NEW r \in Players, HubServes(r)
      PROVE  OnTime(p)
  <2>1. \E e \in Seq(DownMsg) : down'[p] = down[p] \o e
    BY <1>6, HubAcceptKeeps, HubMessageKeeps, HubDropKeeps DEF HubServes
  <2>2. due' = due
    BY <1>6 DEF HubServes, HubAccept, HubMessage, HubDrop, own
  <2>3. PICK e \in Seq(DownMsg) : down'[p] = down[p] \o e
    BY <2>1
  <2>4. Undelivered(p) \subseteq Undelivered(p)'
    BY <2>2, <2>3, UndeliveredGrows DEF NetInv
  <2> QED
    BY <2>4 DEF OnTime
<1> QED
  BY <1>2, <1>3, <1>4, <1>5, <1>6 DEF Next, Progress

(* "a frame sent at guest time t reaches the other players at t + quantum,  *)
(* never earlier": a frame that leaves the stream and the queue of a player *)
(* on the segment, leaves them when its clock is exactly at the time it is  *)
(* due, however many are read at once (netsim_drain, netsim_deliver).       *)
THEOREM FramesAreTakenOnTime == Spec => TakenOnTime
<1> DEFINE A == \A p \in Players : OnTime(p)
<1>1. NetInv /\ [Next]_vars => [A]_vars
  BY StepsTakeOnTime
<1>2. TakenOnTime <=> [][A]_vars
  BY DEF TakenOnTime, OnTime
<1> HIDE DEF A
<1> QED
  BY <1>1, <1>2, NetInvHolds, PTL DEF Spec

=============================================================================
