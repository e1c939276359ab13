--------------------------- MODULE MainLinkProofs ---------------------------
(***************************************************************************)
(* What holds of MainLink for every gap, watchdog, queue, backlog and      *)
(* start-up, and for every time the firmware takes: of the transmit half   *)
(* (TxInv), whatever happens to the receive half; of the receive half      *)
(* (RxInv), whatever happens to the transmit half.                         *)
(***************************************************************************)
EXTENDS MainLink, SequenceTheorems, WellFoundedInduction, TLAPS

TxHalf == [start : BOOLEAN, inFlight : Int, irq : BOOLEAN, gate : BOOLEAN,
           mode : BOOLEAN, wire : Nat]

(* A transmit channel that is started has a record in flight: nothing else *)
(* leaves START set.                                                       *)
Started(t) == t \in TxHalf /\ t.start = (t.inFlight # Off)

TxInv ==
    /\ setup.txTime \in Nat
    /\ Started(tx)
    /\ records \in [{"record", "nothing"} -> Nat]
    /\ tx.wire = records.record

(* Completion leaves the channel free and what has been sent as it was.    *)
LEMMA Completed ==
    ASSUME NEW t \in TxHalf
    PROVE  Started(Complete(t)) /\ Complete(t).wire = t.wire /\ ~Complete(t).start
<1> DEFINE c == Complete(t)
<1>0. Off \in Int
  BY DEF Off
<1>1. c \in TxHalf
  BY <1>0 DEF Complete, TxHalf
<1>2. c.start = FALSE /\ c.inFlight = Off /\ c.wire = t.wire
  BY DEF Complete, TxHalf
<1> HIDE DEF c
<1> QED
  BY <1>1, <1>2 DEF Started, c

(* An arm finds the channel free, since what was in flight is finished     *)
(* first; it sends a record and nothing else.                              *)
LEMMA Armed ==
    ASSUME setup.txTime \in Nat, NEW t, Started(t), NEW kind \in {"record", "nothing"}
    PROVE  LET a == ArmTransmit(t, kind)
           IN  Started(a) /\ a.wire = t.wire + (IF kind = "record" THEN 1 ELSE 0)
<1> DEFINE f == Flush(t)
           g == [f EXCEPT !.start = TRUE]
           w == [g EXCEPT !.wire = @ + 1]
<1>1. f \in TxHalf /\ ~f.start /\ f.wire = t.wire
  BY Completed DEF Flush, Started
<1> HIDE DEF f
<1>2. g \in TxHalf /\ g.start /\ g.wire = t.wire
  BY <1>1 DEF TxHalf
<1>3. ArmTransmit(t, kind) = Transmit(g, kind)
  BY <1>1 DEF ArmTransmit, f
<1> HIDE DEF g
<1>4. w \in TxHalf /\ w.start /\ w.wire = t.wire + 1
  BY <1>2 DEF TxHalf
<1>5. CASE kind = "record" /\ setup.txTime > 0
  <2>1. Transmit(g, kind) = [w EXCEPT !.inFlight = setup.txTime]
    BY <1>2, <1>5 DEF Transmit, TxHalf
  <2> HIDE DEF w
  <2> QED
    BY <1>3, <1>4, <1>5, <2>1 DEF Started, TxHalf, Off
<1>6. CASE ~(kind = "record" /\ setup.txTime > 0)
  <2>1. Transmit(g, kind) = Complete(IF kind = "record" THEN w ELSE g)
    BY <1>6 DEF Transmit
  <2> HIDE DEF w
  <2> QED
    BY <1>2, <1>3, <1>4, <2>1, Completed DEF TxHalf
<1> QED
  BY <1>5, <1>6

(* Guest writes and the completion timer preserve the transmit half's       *)
(* invariant; the receive half's steps do not touch it.                     *)
LEMMA TxStep ==
    ASSUME TxInv, [Next]_vars
    PROVE  TxInv'
<1>1. CASE \/ RequestArrives \/ CosimPoll \/ GapTimer \/ WatchdogTimer
           \/ SetBuffer \/ OpenLink \/ Handler \/ Examine
  BY <1>1 DEF RequestArrives, CosimPoll, GapTimer, WatchdogTimer, SetBuffer, OpenLink,
              Handler, IsrAcknowledge, IsrDisarm, IsrArm, Examine, TxInv, sender
<1>2. CASE TxTimer
  <2>1. tx \in TxHalf
    BY DEF TxInv, Started
  <2> QED
    BY <1>2, <2>1, Completed DEF TxTimer, TxInv, sender
<1>3. CASE Tick
  <2>1. tx' = [tx EXCEPT !.inFlight = Down(tx.inFlight)] /\ tx.inFlight # 0
        /\ UNCHANGED <<setup, records>>
    BY <1>3 DEF Tick, sender
  <2>2. tx \in TxHalf /\ tx.start = (tx.inFlight # Off)
    BY DEF TxInv, Started
  <2>3. Started(tx') /\ tx'.wire = tx.wire
    BY <2>1, <2>2 DEF Started, TxHalf, Down, Off
  <2> QED
    BY <2>1, <2>3 DEF TxInv
<1>4. CASE SendRecord
  <2> DEFINE t == [tx EXCEPT !.mode = FALSE]
  <2>1. PICK kind \in {"record", "nothing"} :
          /\ records' = [records EXCEPT ![kind] = @ + 1]
          /\ tx' = ArmTransmit(t, kind)
    BY <1>4 DEF SendRecord
  <2>2. Started(t) /\ t.wire = tx.wire
    BY DEF TxInv, Started, TxHalf
  <2> HIDE DEF t
  <2>3. setup' = setup
    BY <1>4 DEF SendRecord
  <2>4. Started(tx') /\ tx'.wire = tx.wire + (IF kind = "record" THEN 1 ELSE 0)
    BY <2>1, <2>2, Armed DEF TxInv
  <2> QED
    BY <2>1, <2>3, <2>4 DEF TxInv
<1>5. CASE TxIsr \/ DoneIsr
  <2>1. tx' \in {[tx EXCEPT !.irq = FALSE], [tx EXCEPT !.gate = FALSE]}
        /\ UNCHANGED <<setup, records>>
    BY <1>5 DEF TxIsr, DoneIsr, sender
  <2> QED
    BY <2>1 DEF TxInv, Started, TxHalf
<1>6. CASE UNCHANGED vars
  BY <1>6 DEF vars, sender, TxInv
<1> QED
  BY <1>1, <1>2, <1>3, <1>4, <1>5, <1>6 DEF Next, Timers

(* Every record the firmware armed the channel with has gone out, in       *)
(* flight or not when the next arm came, whatever time a record takes.     *)
THEOREM EveryRecordIsSent == Spec => []AllSent
<1>1. Init => TxInv
  <2> SUFFICES ASSUME Init PROVE TxInv
    OBVIOUS
  <2>1. setup.txTime \in Nat
    BY MainLinkAssumption DEF Init
  <2>2. tx \in TxHalf /\ tx.start = FALSE /\ tx.inFlight = Off /\ tx.wire = 0
    BY DEF Init, TxHalf, Off
  <2>3. records \in [{"record", "nothing"} -> Nat] /\ records.record = 0
    <3>1. records = [record |-> 0, nothing |-> 0]
      BY DEF Init
    <3> QED
      BY <3>1
  <2> QED
    BY <2>1, <2>2, <2>3 DEF TxInv, Started
<1>2. TxInv /\ [Next]_vars => TxInv'
  BY TxStep
<1>3. TxInv => AllSent
  BY DEF TxInv, AllSent
<1> QED
  BY <1>1, <1>2, <1>3, PTL DEF Spec
-----------------------------------------------------------------------------
(* The receive half.  A request is somewhere on a line: examined or in the  *)
(* buffer (handed), in the FIFO, in the backlog.                            *)

Rising(s) == \A i, j \in DOMAIN s : i < j => s[i] < s[j]
Before(s, t) == \A i \in DOMAIN s, j \in DOMAIN t : s[i] < t[j]

Line(h, q, b) ==
    /\ Rising(h) /\ Rising(q) /\ Rising(b)
    /\ Before(h, q) /\ Before(h, b) /\ Before(q, b)

(* A request may stand between the FIFO and the backlog. *)
Fits(f, h, q, b) == Before(h, <<f>>) /\ Before(q, <<f>>) /\ Before(<<f>>, b)

(* The ways a request moves along the line. *)
LEMMA HandOver ==
    ASSUME NEW n \in Nat, NEW h \in Seq(1..n), NEW q \in Seq(1..n), NEW b \in Seq(1..n),
           Line(h, q, b), q # <<>>
    PROVE  /\ Line(Append(h, Head(q)), Tail(q), b) /\ Line(h, Tail(q), b)
           /\ Head(q) \in 1..n /\ Tail(q) \in Seq(1..n) /\ Len(Tail(q)) = Len(q) - 1
<1>1. /\ Head(q) = q[1] /\ Head(q) \in 1..n /\ Len(q) > 0
      /\ Tail(q) \in Seq(1..n) /\ Len(Tail(q)) = Len(q) - 1
      /\ \A i \in DOMAIN Tail(q) : i \in Nat /\ i > 0 /\ i + 1 \in DOMAIN q /\ Tail(q)[i] = q[i + 1]
  OBVIOUS
<1>2. \A i \in DOMAIN Tail(q) : q[1] < Tail(q)[i]
  <2> TAKE i \in DOMAIN Tail(q)
  <2>1. i + 1 \in DOMAIN q /\ Tail(q)[i] = q[i + 1] /\ 1 \in DOMAIN q /\ 1 < i + 1
    BY <1>1
  <2> QED
    BY <2>1 DEF Line, Rising
<1>3. Rising(Tail(q)) /\ Before(h, Tail(q)) /\ Before(Tail(q), b)
  BY <1>1 DEF Line, Rising, Before
<1>4. \A i \in DOMAIN Append(h, Head(q)) :
        Append(h, Head(q))[i] = IF i = Len(h) + 1 THEN q[1] ELSE h[i]
  BY <1>1
<1>5. DOMAIN Append(h, Head(q)) = 1..Len(h) + 1 /\ DOMAIN h = 1..Len(h) /\ 1 \in DOMAIN q
  BY <1>1
<1>60. \A i \in DOMAIN h : h[i] < q[1] /\ h[i] \in Nat
  BY <1>5 DEF Line, Before
<1>6. Rising(Append(h, Head(q)))
  <2> SUFFICES ASSUME NEW i \in 1..Len(h) + 1, NEW j \in 1..Len(h) + 1, i < j
               PROVE  Append(h, Head(q))[i] < Append(h, Head(q))[j]
    BY <1>5 DEF Rising
  <2>1. i \in DOMAIN h /\ Append(h, Head(q))[i] = h[i]
    BY <1>4, <1>5
  <2>2. CASE j = Len(h) + 1
    BY <1>4, <1>5, <1>60, <2>1, <2>2
  <2>3. CASE j # Len(h) + 1
    <3>0. j \in DOMAIN h
      BY <1>5, <2>3
    <3>1. Append(h, Head(q))[j] = h[j]
      BY <1>4, <1>5, <2>3
    <3> QED
      BY <2>1, <3>0, <3>1 DEF Line, Rising
  <2> QED
    BY <2>2, <2>3
<1>7. Before(Append(h, Head(q)), Tail(q)) /\ Before(Append(h, Head(q)), b)
  <2>1. ASSUME NEW i \in 1..Len(h) + 1, NEW j \in DOMAIN Tail(q)
        PROVE  Append(h, Head(q))[i] < Tail(q)[j]
    <3>1. CASE i = Len(h) + 1
      BY <1>2, <1>4, <1>5, <3>1
    <3>2. CASE i # Len(h) + 1
      <4>1. i \in DOMAIN h /\ Append(h, Head(q))[i] = h[i]
        BY <1>4, <1>5, <3>2
      <4> QED
        BY <1>3, <4>1 DEF Before
    <3> QED
      BY <3>1, <3>2
  <2>2. ASSUME NEW i \in 1..Len(h) + 1, NEW j \in DOMAIN b
        PROVE  Append(h, Head(q))[i] < b[j]
    <3>1. CASE i = Len(h) + 1
      BY <1>4, <1>5, <3>1 DEF Line, Before
    <3>2. CASE i # Len(h) + 1
      <4>1. i \in DOMAIN h /\ Append(h, Head(q))[i] = h[i]
        BY <1>4, <1>5, <3>2
      <4> QED
        BY <4>1 DEF Line, Before
    <3> QED
      BY <3>1, <3>2
  <2> QED
    BY <1>5, <2>1, <2>2 DEF Before
<1> QED
  BY <1>1, <1>3, <1>6, <1>7 DEF Line

(* The head of the backlog is taken off it, and may stand before the rest. *)
LEMMA TakeUp ==
    ASSUME NEW n \in Nat, NEW h \in Seq(1..n), NEW q \in Seq(1..n), NEW b \in Seq(1..n),
           Line(h, q, b), b # <<>>
    PROVE  /\ Line(h, q, Tail(b)) /\ Fits(Head(b), h, q, Tail(b))
           /\ Head(b) \in 1..n /\ Tail(b) \in Seq(1..n) /\ Len(Tail(b)) = Len(b) - 1
<1>1. /\ Head(b) = b[1] /\ Head(b) \in 1..n /\ Len(b) > 0 /\ 1 \in DOMAIN b
      /\ Tail(b) \in Seq(1..n) /\ Len(Tail(b)) = Len(b) - 1
      /\ \A i \in DOMAIN Tail(b) : i \in Nat /\ i > 0 /\ i + 1 \in DOMAIN b /\ Tail(b)[i] = b[i + 1]
  OBVIOUS
<1>2. DOMAIN <<Head(b)>> = {1} /\ <<Head(b)>>[1] = b[1]
  BY <1>1
<1>3. Rising(Tail(b)) /\ Before(h, Tail(b)) /\ Before(q, Tail(b))
  BY <1>1 DEF Line, Rising, Before
<1>4. \A i \in DOMAIN Tail(b) : b[1] < Tail(b)[i]
  <2> TAKE i \in DOMAIN Tail(b)
  <2>1. i + 1 \in DOMAIN b /\ Tail(b)[i] = b[i + 1] /\ 1 < i + 1
    BY <1>1
  <2> QED
    BY <1>1, <2>1 DEF Line, Rising
<1>5. Fits(Head(b), h, q, Tail(b))
  BY <1>1, <1>2, <1>4 DEF Line, Before, Fits
<1> QED
  BY <1>1, <1>3, <1>5 DEF Line

(* What may stand after the FIFO joins it, or is handed over if it is empty.*)
LEMMA LineUp ==
    ASSUME NEW n \in Nat, NEW h \in Seq(1..n), NEW q \in Seq(1..n), NEW b \in Seq(1..n),
           Line(h, q, b), NEW f \in 1..n, Fits(f, h, q, b)
    PROVE  /\ Line(h, Append(q, f), b)
           /\ q = <<>> => Line(Append(h, f), q, b)
<1>1. DOMAIN <<f>> = {1} /\ <<f>>[1] = f
  OBVIOUS
<1>2. /\ \A i \in DOMAIN h : h[i] < f
      /\ \A i \in DOMAIN q : q[i] < f
      /\ \A i \in DOMAIN b : f < b[i]
  BY <1>1 DEF Fits, Before
<1>3. /\ DOMAIN Append(q, f) = 1..Len(q) + 1 /\ DOMAIN q = 1..Len(q)
      /\ \A i \in DOMAIN Append(q, f) : Append(q, f)[i] = IF i = Len(q) + 1 THEN f ELSE q[i]
  OBVIOUS
<1>4. /\ DOMAIN Append(h, f) = 1..Len(h) + 1 /\ DOMAIN h = 1..Len(h)
      /\ \A i \in DOMAIN Append(h, f) : Append(h, f)[i] = IF i = Len(h) + 1 THEN f ELSE h[i]
  OBVIOUS
<1>5. Rising(Append(q, f)) /\ Before(h, Append(q, f)) /\ Before(Append(q, f), b)
  <2>1. Rising(Append(q, f))
    BY <1>2, <1>3 DEF Line, Rising
  <2>2. Before(h, Append(q, f))
    BY <1>2, <1>3 DEF Line, Before
  <2>3. Before(Append(q, f), b)
    BY <1>2, <1>3 DEF Line, Before
  <2> QED
    BY <2>1, <2>2, <2>3
<1>6. ASSUME q = <<>>
      PROVE  Line(Append(h, f), q, b)
  <2>1. Rising(Append(h, f)) /\ Before(Append(h, f), b)
    BY <1>2, <1>4 DEF Line, Rising, Before
  <2>2. Before(Append(h, f), q)
    BY <1>6 DEF Before
  <2> QED
    BY <2>1, <2>2 DEF Line
<1> QED
  BY <1>5, <1>6 DEF Line

(* A new request is the last. *)
LEMMA JoinLine ==
    ASSUME NEW n \in Nat, NEW h \in Seq(1..n), NEW q \in Seq(1..n), NEW b \in Seq(1..n),
           Line(h, q, b)
    PROVE  /\ Line(h, q, Append(b, n + 1)) /\ Line(h, q, <<n + 1>>)
<1>1. /\ \A i \in DOMAIN h : h[i] < n + 1
      /\ \A i \in DOMAIN q : q[i] < n + 1
      /\ \A i \in DOMAIN b : b[i] < n + 1
  OBVIOUS
<1>2. /\ DOMAIN Append(b, n + 1) = 1..Len(b) + 1 /\ DOMAIN b = 1..Len(b)
      /\ \A i \in DOMAIN Append(b, n + 1) :
            Append(b, n + 1)[i] = IF i = Len(b) + 1 THEN n + 1 ELSE b[i]
  OBVIOUS
<1>3. DOMAIN <<n + 1>> = {1} /\ <<n + 1>>[1] = n + 1
  OBVIOUS
<1>4. Rising(Append(b, n + 1)) /\ Before(h, Append(b, n + 1)) /\ Before(q, Append(b, n + 1))
  BY <1>1, <1>2 DEF Line, Rising, Before
<1>5. Rising(<<n + 1>>) /\ Before(h, <<n + 1>>) /\ Before(q, <<n + 1>>)
  BY <1>1, <1>3 DEF Rising, Before
<1> QED
  BY <1>4, <1>5 DEF Line
-----------------------------------------------------------------------------
(* A set of numbers that is not empty has a least one. *)
LEMMA LeastNumber ==
    ASSUME NEW T, T \subseteq Nat, T # {}
    PROVE  \E n \in T : \A m \in T : n <= m
<1> DEFINE R == {s \in Nat \X Nat : s[1] < s[2]}
<1>1. OpToRel(<, Nat) = R
  BY DEF OpToRel
<1>2. IsWellFoundedOn(R, Nat)
  BY <1>1, NatLessThanWellFounded
<1>3. \E n \in T : \A m \in T : ~(<<m, n>> \in R)
  <2> HIDE DEF R
  <2> QED
    BY <1>2, WFMin
<1>4. \A m, n \in Nat : m < n => <<m, n>> \in R
  OBVIOUS
<1> HIDE DEF R
<1>5. PICK n \in T : \A m \in T : ~(<<m, n>> \in R)
  BY <1>3
<1>6. ASSUME NEW m \in T
      PROVE  n <= m
  <2>1. n \in Nat /\ m \in Nat
    BY <1>5
  <2>2. ~(m < n)
    BY <1>4, <1>5, <2>1
  <2> QED
    BY <2>1, <2>2
<1> QED
  BY <1>6

(* The receive half's record when n requests have come. *)
RxHalf(n) == [armed : BOOLEAN, ready : BOOLEAN, buffer : 0..n, status : BOOLEAN,
              irq : BOOLEAN, pending : BOOLEAN, queue : Seq(1..n), backlog : Seq(1..n),
              since : Nat, gapIn : Off..Gap, dogIn : Off..Watchdog,
              handed : Seq(1..n), lost : Nat]

(* The buffer holds what was handed over last. *)
Filled(r) ==
    /\ r.handed # <<>> => r.buffer = r.handed[Len(r.handed)]
    /\ r.irq => r.handed # <<>>

(* Nothing is in two places and only what was given up is in none. *)
Accounted(r, n) ==
    /\ Line(r.handed, r.queue, r.backlog)
    /\ Len(r.handed) + Len(r.queue) + Len(r.backlog) + r.lost = n

RxBase(r, n) ==
    /\ r \in RxHalf(n) /\ Accounted(r, n) /\ Filled(r)
    /\ Len(r.queue) <= QueueMax /\ Len(r.backlog) <= BacklogMax
    /\ ~setup.fifo => r.queue = <<>> /\ ~r.pending
    /\ r.pending => r.dogIn # Off

Moving(r) == r.queue # <<>> => r.pending \/ r.gapIn # Off

RxSound(r, n) == RxBase(r, n) /\ Moving(r)

(* One frame at most goes into the buffer, and only when the gap is up. *)
SameBuffer(r, s) ==
    s.handed = r.handed /\ s.buffer = r.buffer /\ s.irq = r.irq /\ s.since = r.since
NextFrame(r, s) ==
    /\ r.since >= Gap /\ s.since = 0 /\ s.irq
    /\ s.handed = Append(r.handed, s.buffer)
Hands(r, s) == SameBuffer(r, s) \/ (setup.fifo /\ NextFrame(r, s))

(* Who is armed stays so, unless a frame disarms. *)
KeepsArmed(r, s) ==
    /\ s.ready = r.ready
    /\ s.armed => r.armed
    /\ ~setup.oneShot => s.armed = r.armed

(* The constants as the proofs use them.                                   *)
LEMMA Limits ==
    /\ Gap \in Nat /\ Gap >= 1 /\ Watchdog \in Nat /\ Watchdog > Gap
    /\ QueueMax \in Nat /\ QueueMax >= 1 /\ BacklogMax \in Nat /\ BacklogMax >= 1
    /\ Off \in Int /\ Off < 0 /\ Off = -1
  BY MainLinkAssumption DEF Off

(* A sequence with one more at its end. *)
LEMMA Appended ==
    ASSUME NEW n \in Nat, NEW s \in Seq(1..n), NEW f \in 1..n
    PROVE  /\ Append(s, f) \in Seq(1..n) /\ Append(s, f) # <<>>
           /\ Len(Append(s, f)) = Len(s) + 1 /\ Append(s, f)[Len(s) + 1] = f
<1>1. Append(s, f) \in Seq(1..n) /\ Len(Append(s, f)) = Len(s) + 1
  OBVIOUS
<1>2. Len(s) + 1 \in 1..Len(s) + 1 /\ Len(<<>>) = 0 /\ Len(s) \in Nat /\ Len(s) + 1 # 0
  OBVIOUS
<1>3. Append(s, f)[Len(s) + 1] = f
  OBVIOUS
<1>4. Append(s, f) # <<>>
  BY <1>1, <1>2, Zenon
<1> QED
  BY <1>1, <1>3, <1>4

(* cdj_link_deliver, to a buffer whose turn it is. *)
LEMMA Delivered ==
    ASSUME NEW n \in Nat, NEW r \in RxHalf(n), setup.fifo, setup.oneShot \in BOOLEAN,
           r.since >= Gap, Len(r.backlog) <= BacklogMax,
           NEW q \in Seq(1..n), Len(q) <= QueueMax, NEW f \in 1..n,
           Line(Append(r.handed, f), q, r.backlog),
           Len(r.handed) + 1 + Len(q) + Len(r.backlog) + r.lost = n
    PROVE  LET s == Deliver([r EXCEPT !.queue = q], f)
           IN  /\ RxSound(s, n) /\ NextFrame(r, s) /\ KeepsArmed(r, s)
               /\ s.backlog = r.backlog
<1> DEFINE s == Deliver([r EXCEPT !.queue = q], f)
<1>1. r \in RxHalf(n)
  OBVIOUS
<1>2. Watchdog \in Off..Watchdog /\ Watchdog # Off /\ Watchdog \in Nat /\ Gap \in Nat
  BY Limits
<1>3. Append(r.handed, f) \in Seq(1..n) /\ Append(r.handed, f) # <<>>
      /\ Len(Append(r.handed, f)) = Len(r.handed) + 1
      /\ Append(r.handed, f)[Len(r.handed) + 1] = f
  <2>1. r.handed \in Seq(1..n)
    BY <1>1 DEF RxHalf
  <2> HIDE DEF s
  <2> QED
    BY <2>1, Appended
<1>4. /\ s.ready = r.ready /\ s.armed = (r.armed /\ ~setup.oneShot) /\ s.buffer = f
      /\ s.status = TRUE /\ s.irq = TRUE /\ s.pending = TRUE /\ s.queue = q
      /\ s.backlog = r.backlog /\ s.since = 0 /\ s.gapIn = r.gapIn /\ s.dogIn = Watchdog
      /\ s.handed = Append(r.handed, f) /\ s.lost = r.lost
  BY <1>1 DEF Deliver, RxHalf
<1>5. s \in RxHalf(n)
  <2>1. f \in 0..n /\ 0 \in Nat /\ (r.armed /\ ~setup.oneShot) \in BOOLEAN
    BY <1>1 DEF RxHalf
  <2>2. s = [r EXCEPT !.queue = q, !.buffer = f, !.handed = Append(r.handed, f),
                      !.armed = (r.armed /\ ~setup.oneShot), !.status = TRUE, !.irq = TRUE,
                      !.pending = TRUE, !.since = 0, !.dogIn = Watchdog]
    BY <1>1 DEF Deliver, RxHalf
  <2> HIDE DEF s
  <2> DEFINE h == Append(r.handed, f)
             a == r.armed /\ ~setup.oneShot
  <2>3. h \in Seq(1..n) /\ a \in BOOLEAN
    BY <1>3, <2>1
  <2>4. s = [r EXCEPT !.queue = q, !.buffer = f, !.handed = h,
                      !.armed = a, !.status = TRUE, !.irq = TRUE,
                      !.pending = TRUE, !.since = 0, !.dogIn = Watchdog]
    BY <2>2
  <2> HIDE DEF h, a
  <2> QED
    BY <1>1, <1>2, <2>1, <2>3, <2>4 DEF RxHalf
<1> HIDE DEF s
<1>6. Accounted(s, n)
  <2>1. Len(r.handed) \in Nat /\ Len(q) \in Nat /\ Len(r.backlog) \in Nat /\ r.lost \in Nat
    BY <1>1 DEF RxHalf
  <2> QED
    BY <1>3, <1>4, <2>1 DEF Accounted
<1>7. Filled(s)
  BY <1>3, <1>4 DEF Filled
<1>8. RxSound(s, n)
  BY <1>2, <1>4, <1>5, <1>6, <1>7 DEF RxSound, RxBase, Moving
<1>9. NextFrame(r, s) /\ KeepsArmed(r, s)
  <2>1. r.armed \in BOOLEAN
    BY <1>1 DEF RxHalf
  <2> QED
    BY <1>4, <2>1 DEF NextFrame, KeepsArmed
<1> QED
  BY <1>4, <1>8, <1>9 DEF s

(* cdj_link_rx_release hands over the oldest frame, or sees to it that it   *)
(* will be.                                                                 *)
LEMMA Released ==
    ASSUME NEW n \in Nat, NEW r, RxBase(r, n), setup.oneShot \in BOOLEAN
    PROVE  LET s == Release(r)
           IN  /\ RxSound(s, n) /\ Hands(r, s) /\ KeepsArmed(r, s) /\ s.backlog = r.backlog
               /\ r.queue = <<>> => s.queue = <<>> /\ SameBuffer(r, s)
<1> DEFINE s == Release(r)
<1>1. r \in RxHalf(n)
  BY DEF RxBase
<1>2. CASE r.pending \/ r.queue = <<>>
  <2>1. s = r
    BY <1>2 DEF Release
  <2> QED
    BY <1>2, <2>1 DEF RxSound, Moving, Hands, SameBuffer, KeepsArmed
<1>3. CASE ~(r.pending \/ r.queue = <<>>) /\ r.since < Gap
  <2> DEFINE g == IF r.gapIn = Off THEN Gap - r.since ELSE r.gapIn
  <2>1. s = [r EXCEPT !.gapIn = g]
    BY <1>1, <1>3 DEF Release, RxHalf
  <2>2. g \in Off..Gap /\ g # Off
    BY <1>1, <1>3, Limits DEF RxHalf
  <2> HIDE DEF g
  <2>3. s \in RxHalf(n) /\ s.gapIn = g
    BY <1>1, <2>1, <2>2 DEF RxHalf
  <2>4. /\ s.ready = r.ready /\ s.armed = r.armed /\ s.buffer = r.buffer
        /\ s.irq = r.irq /\ s.pending = r.pending /\ s.queue = r.queue
        /\ s.backlog = r.backlog /\ s.since = r.since /\ s.dogIn = r.dogIn
        /\ s.handed = r.handed /\ s.lost = r.lost
    BY <1>1, <2>1 DEF RxHalf
  <2> HIDE DEF s
  <2>5. RxBase(s, n)
    BY <2>3, <2>4 DEF RxBase, Accounted, Filled
  <2>6. RxSound(s, n) /\ Hands(r, s) /\ KeepsArmed(r, s)
    BY <2>2, <2>3, <2>4, <2>5 DEF RxSound, Moving, Hands, SameBuffer, KeepsArmed
  <2> QED
    BY <1>3, <2>4, <2>6 DEF s
<1>4. CASE ~(r.pending \/ r.queue = <<>>) /\ ~(r.since < Gap)
  <2>1. s = Deliver([r EXCEPT !.queue = Tail(r.queue)], Head(r.queue))
    BY <1>1, <1>4 DEF Release, RxHalf
  <2>2. setup.fifo /\ r.since >= Gap
    BY <1>1, <1>4, Limits DEF RxBase, RxHalf
  <2>3. /\ r.handed \in Seq(1..n) /\ r.queue \in Seq(1..n) /\ r.backlog \in Seq(1..n)
        /\ r.lost \in Nat
    BY <1>1 DEF RxHalf
  <2>4. Line(r.handed, r.queue, r.backlog) /\ Len(r.queue) <= QueueMax
        /\ Len(r.handed) + Len(r.queue) + Len(r.backlog) + r.lost = n
    BY DEF RxBase, Accounted
  <2>5. /\ Line(Append(r.handed, Head(r.queue)), Tail(r.queue), r.backlog)
        /\ Head(r.queue) \in 1..n /\ Tail(r.queue) \in Seq(1..n)
        /\ Len(Tail(r.queue)) = Len(r.queue) - 1
    BY <1>4, <2>3, <2>4, HandOver
  <2>6. Len(Tail(r.queue)) <= QueueMax
        /\ Len(r.handed) + 1 + Len(Tail(r.queue)) + Len(r.backlog) + r.lost = n
    <3> DEFINE k == Len(r.queue)
               l == Len(Tail(r.queue))
               h == Len(r.handed)
               b == Len(r.backlog)
    <3>1. k \in Nat /\ l \in Nat /\ h \in Nat /\ b \in Nat
      BY <2>3, <2>5
    <3>2. l = k - 1 /\ k <= QueueMax /\ h + k + b + r.lost = n
      BY <2>4, <2>5
    <3> HIDE DEF k, l, h, b
    <3>3. l <= QueueMax /\ h + 1 + l + b + r.lost = n
      BY <2>3, <3>1, <3>2, Limits
    <3> QED
      BY <3>3 DEF k, l, h, b
  <2> DEFINE q == Tail(r.queue)
             f == Head(r.queue)
  <2>7. q \in Seq(1..n) /\ Len(q) <= QueueMax /\ f \in 1..n
        /\ Line(Append(r.handed, f), q, r.backlog)
        /\ Len(r.handed) + 1 + Len(q) + Len(r.backlog) + r.lost = n
    BY <2>5, <2>6
  <2>8. s = Deliver([r EXCEPT !.queue = q], f)
    BY <2>1
  <2> HIDE DEF s, q, f
  <2>9. RxSound(s, n) /\ NextFrame(r, s) /\ KeepsArmed(r, s) /\ s.backlog = r.backlog
    BY <1>1, <2>2, <2>7, <2>8, Delivered DEF RxBase
  <2> QED
    BY <1>4, <2>2, <2>9 DEF s, Hands
<1> QED
  BY <1>2, <1>3, <1>4

(* cdj_link_rx_next and what calls it, whatever the watchdog is then.       *)
LEMMA HandedOver ==
    ASSUME NEW n \in Nat, NEW r, RxBase([r EXCEPT !.pending = FALSE, !.dogIn = Off], n),
           r \in RxHalf(n), setup.oneShot \in BOOLEAN, ~r.pending => Moving(r)
    PROVE  LET s == Handover(r)
           IN  /\ RxSound(s, n) /\ Hands(r, s) /\ KeepsArmed(r, s) /\ s.backlog = r.backlog
               /\ r.queue = <<>> => s.queue = <<>> /\ SameBuffer(r, s)
<1> DEFINE s == Handover(r)
           t == [r EXCEPT !.pending = FALSE, !.dogIn = Off]
<1>1. /\ t.ready = r.ready /\ t.armed = r.armed /\ t.buffer = r.buffer /\ t.irq = r.irq
      /\ t.pending = FALSE /\ t.queue = r.queue /\ t.backlog = r.backlog /\ t.since = r.since
      /\ t.gapIn = r.gapIn /\ t.dogIn = Off /\ t.handed = r.handed /\ t.lost = r.lost
  BY DEF RxHalf
<1>2. RxBase(t, n)
  OBVIOUS
<1> HIDE DEF t
<1>3. CASE r.pending
  <2>1. s = Release(t)
    BY <1>3 DEF Handover, RxNext, t
  <2> HIDE DEF s
  <2>2. /\ RxSound(s, n) /\ Hands(t, s) /\ KeepsArmed(t, s) /\ s.backlog = t.backlog
        /\ t.queue = <<>> => s.queue = <<>> /\ SameBuffer(t, s)
    BY <1>2, <2>1, Released
  <2> QED
    BY <1>1, <2>2 DEF Hands, SameBuffer, NextFrame, KeepsArmed, s
<1>4. CASE ~r.pending
  <2>1. s = r
    BY <1>4 DEF Handover
  <2>2. RxBase(r, n)
    BY <1>1, <1>2, <1>4 DEF RxBase, Accounted, Filled
  <2> QED
    BY <1>4, <2>1, <2>2 DEF RxSound, Hands, SameBuffer, KeepsArmed
<1> QED
  BY <1>3, <1>4
(* One way for all that cdj_link_receive does to the buffer: with the FIFO  *)
(* a frame at most, without it any number while armed.                      *)
Receives(r, s) ==
    \/ SameBuffer(r, s)
    \/ setup.fifo /\ NextFrame(r, s)
    \/ ~setup.fifo /\ CanReceive(r) /\ s.irq /\ s.handed # <<>> /\ s.since = r.since

(* A turn of cdj_link_cosim_pump's loop: cdj_link_receive of the backlog's  *)
(* first request.                                                           *)
LEMMA PassedOn ==
    ASSUME NEW n \in Nat, NEW r, RxSound(r, n), setup.fifo \in BOOLEAN,
           setup.oneShot \in BOOLEAN, CanReceive(r), r.backlog # <<>>
    PROVE  LET s == Passed(r)
           IN  /\ RxSound(s, n) /\ Receives(r, s) /\ KeepsArmed(r, s)
               /\ Len(s.backlog) = Len(r.backlog) - 1
<1> DEFINE f == Head(r.backlog)
           b == Tail(r.backlog)
           t == [r EXCEPT !.backlog = b]
           h == r.handed
           q == r.queue
           s == Passed(r)
<1>1. r \in RxHalf(n) /\ RxBase(r, n) /\ Moving(r)
  BY DEF RxSound, RxBase
<1>2. /\ h \in Seq(1..n) /\ q \in Seq(1..n) /\ r.backlog \in Seq(1..n) /\ r.lost \in Nat
      /\ r.since \in Nat /\ r.armed \in BOOLEAN
  BY <1>1 DEF RxHalf
<1>3. Line(h, q, r.backlog) /\ Len(h) + Len(q) + Len(r.backlog) + r.lost = n
  BY <1>1 DEF RxBase, Accounted
<1>4. /\ Line(h, q, b) /\ Fits(f, h, q, b)
      /\ f \in 1..n /\ b \in Seq(1..n) /\ Len(b) = Len(r.backlog) - 1
  BY <1>2, <1>3, TakeUp, ZenonT(60)
<1>5. s = Receive(t, f)
  BY DEF Passed
<1>6. /\ Len(q) <= QueueMax /\ Len(r.backlog) <= BacklogMax
      /\ ~setup.fifo => q = <<>> /\ ~r.pending
      /\ r.pending => r.dogIn # Off
  BY <1>1 DEF RxBase
<1>7. /\ Len(h) \in Nat /\ Len(q) \in Nat /\ Len(b) \in Nat /\ Len(r.backlog) \in Nat
      /\ Len(b) <= BacklogMax
  BY <1>2, <1>4, <1>6, Limits, SMTT(40)
<1> DEFINE lh == Len(h)
           lq == Len(q)
           lb == Len(b)
           lr == Len(r.backlog)
<1>12. /\ lh \in Nat /\ lq \in Nat /\ lb \in Nat /\ lr \in Nat /\ lb = lr - 1
       /\ lq <= QueueMax /\ lh + lq + lr + r.lost = n
  BY <1>3, <1>4, <1>6, <1>7
<1> HIDE DEF f, b, s, lh, lq, lb, lr
<1>8. /\ t \in RxHalf(n) /\ t.backlog = b
      /\ t.ready = r.ready /\ t.armed = r.armed /\ t.buffer = r.buffer
      /\ t.irq = r.irq /\ t.pending = r.pending /\ t.queue = q
      /\ t.since = r.since /\ t.dogIn = r.dogIn /\ t.gapIn = r.gapIn
      /\ t.handed = h /\ t.lost = r.lost
  BY <1>1, <1>4 DEF RxHalf
<1>9. CASE ~setup.fifo
  <2>1. s = [t EXCEPT !.buffer = f, !.handed = Append(h, f),
                      !.armed = (r.armed /\ ~setup.oneShot), !.status = TRUE, !.irq = TRUE]
    BY <1>5, <1>8, <1>9 DEF Receive
  <2> HIDE DEF t
  <2> DEFINE k == Append(h, f)
             a == r.armed /\ ~setup.oneShot
  <2>2. /\ k \in Seq(1..n) /\ k # <<>> /\ Len(k) = Len(h) + 1 /\ k[Len(h) + 1] = f
        /\ a \in BOOLEAN
    BY <1>2, <1>4, Appended
  <2>3. s = [t EXCEPT !.buffer = f, !.handed = k, !.armed = a, !.status = TRUE, !.irq = TRUE]
    BY <2>1
  <2>4. Line(k, q, b)
    BY <1>2, <1>4, <1>6, <1>9, LineUp
  <2> DEFINE lk == Len(k)
  <2>5. lk + Len(q) + Len(b) + r.lost = n /\ lk = Len(h) + 1
    <3>1. lk = lh + 1
      BY <2>2 DEF lh
    <3> HIDE DEF lk
    <3>2. lk + lq + lb + r.lost = n
      BY <1>2, <1>12, <3>1
    <3> QED
      BY <3>1, <3>2 DEF lh, lq, lb
  <2> HIDE DEF k, a, lk
  <2>6. /\ s \in RxHalf(n)
        /\ s.ready = r.ready /\ s.armed = a /\ s.buffer = f /\ s.irq = TRUE
        /\ s.pending = r.pending /\ s.queue = q /\ s.backlog = b
        /\ s.since = r.since /\ s.dogIn = r.dogIn /\ s.gapIn = r.gapIn
        /\ s.handed = k /\ s.lost = r.lost
    <3>1. f \in 0..n
      BY <1>4
    <3> QED
      BY <1>8, <2>2, <2>3, <3>1 DEF RxHalf
  <2>7. RxSound(s, n)
    <3>1. Filled(s)
      BY <2>2, <2>5, <2>6 DEF Filled, lk
    <3>2. Accounted(s, n)
      BY <2>4, <2>5, <2>6 DEF Accounted, lk
    <3> QED
      BY <1>6, <1>7, <1>9, <2>6, <3>1, <3>2 DEF RxSound, RxBase, Moving
  <2>8. s.handed # <<>>
    BY <2>2, <2>6
  <2>9. KeepsArmed(r, s)
    BY <1>2, <2>6 DEF KeepsArmed, a
  <2>10. Receives(r, s)
    BY <1>9, <2>6, <2>8 DEF Receives
  <2>11. Len(s.backlog) = Len(r.backlog) - 1
    BY <1>4, <2>6
  <2> QED
    BY <2>7, <2>9, <2>10, <2>11 DEF s
<1>10. CASE setup.fifo /\ (r.pending \/ q # <<>> \/ r.since < Gap)
  <2> DEFINE u == Enqueue(t, f)
  <2>1. s = Release(u)
    BY <1>5, <1>8, <1>10 DEF Receive
  <2>2. RxBase(u, n) /\ u.backlog = b /\ SameBuffer(r, u) /\ KeepsArmed(r, u)
    <3>1. CASE Len(q) = QueueMax
      <4> DEFINE p == Append(Tail(q), f)
      <4>1. q # <<>>
        BY <1>2, <3>1, Limits
      <4>2. /\ Line(h, Tail(q), r.backlog) /\ Tail(q) \in Seq(1..n)
            /\ Len(Tail(q)) = Len(q) - 1
        BY <1>2, <1>3, <4>1, HandOver
      <4>3. Line(h, Tail(q), b) /\ Fits(f, h, Tail(q), b)
        BY <1>2, <4>2, TakeUp DEF f, b
      <4>4. Line(h, p, b)
        BY <1>2, <1>4, <4>2, <4>3, LineUp
      <4>5. p \in Seq(1..n) /\ Len(p) = Len(Tail(q)) + 1
        BY <1>4, <4>2, Appended
      <4>6. u = [t EXCEPT !.queue = p, !.lost = r.lost + 1]
        BY <1>8, <3>1 DEF Enqueue
      <4> DEFINE lp == Len(p)
      <4>7. lp = Len(q) /\ Len(h) + lp + Len(b) + (r.lost + 1) = n
        <5> DEFINE lt == Len(Tail(q))
        <5>1. lp = lt + 1 /\ lt = lq - 1
          BY <4>2, <4>5 DEF lq
        <5> HIDE DEF lp, lt
        <5>2. lp = lq /\ lh + lp + lb + (r.lost + 1) = n
          BY <1>2, <1>12, <5>1
        <5> QED
          BY <5>2 DEF lh, lq, lb
      <4> HIDE DEF p, lp, t, u
      <4>8. /\ u \in RxHalf(n) /\ u.backlog = b
            /\ u.ready = r.ready /\ u.armed = r.armed /\ u.buffer = r.buffer
            /\ u.irq = r.irq /\ u.pending = r.pending /\ u.queue = p
            /\ u.since = r.since /\ u.dogIn = r.dogIn /\ u.gapIn = r.gapIn
            /\ u.handed = h /\ u.lost = r.lost + 1
        <5> DEFINE x == r.lost + 1
        <5>1. x \in Nat
          BY <1>2
        <5>2. u = [t EXCEPT !.queue = p, !.lost = x]
          BY <4>6
        <5> HIDE DEF x
        <5>3. /\ u \in RxHalf(n) /\ u.backlog = b
              /\ u.ready = r.ready /\ u.armed = r.armed /\ u.buffer = r.buffer
              /\ u.irq = r.irq /\ u.pending = r.pending /\ u.queue = p
              /\ u.since = r.since /\ u.dogIn = r.dogIn /\ u.gapIn = r.gapIn
              /\ u.handed = h /\ u.lost = x
          BY <1>8, <4>5, <5>1, <5>2 DEF RxHalf
        <5> QED
          BY <5>3 DEF x
      <4>9. Accounted(u, n) /\ Len(u.queue) <= QueueMax
        BY <1>6, <4>4, <4>7, <4>8 DEF Accounted, lp
      <4>10. Filled(u)
        BY <1>1, <4>8 DEF RxBase, Filled
      <4> QED
        BY <1>6, <1>7, <1>10, <4>8, <4>9, <4>10 DEF RxBase, SameBuffer, KeepsArmed
    <3>2. CASE Len(q) # QueueMax
      <4> DEFINE p == Append(q, f)
      <4>4. Line(h, p, b)
        BY <1>2, <1>4, LineUp
      <4>5. p \in Seq(1..n) /\ Len(p) = Len(q) + 1
        BY <1>2, <1>4, Appended
      <4>6. u = [t EXCEPT !.queue = p]
        BY <1>8, <3>2 DEF Enqueue
      <4> DEFINE lp == Len(p)
      <4>7. lp <= QueueMax /\ Len(h) + lp + Len(b) + r.lost = n
        <5>1. lp = lq + 1 /\ lq # QueueMax
          BY <3>2, <4>5 DEF lq
        <5> HIDE DEF lp
        <5>2. lp <= QueueMax /\ lh + lp + lb + r.lost = n
          BY <1>2, <1>12, <5>1, Limits
        <5> QED
          BY <5>2 DEF lh, lb
      <4> HIDE DEF p, lp, t, u
      <4>8. /\ u \in RxHalf(n) /\ u.backlog = b
            /\ u.ready = r.ready /\ u.armed = r.armed /\ u.buffer = r.buffer
            /\ u.irq = r.irq /\ u.pending = r.pending /\ u.queue = p
            /\ u.since = r.since /\ u.dogIn = r.dogIn /\ u.gapIn = r.gapIn
            /\ u.handed = h /\ u.lost = r.lost
        BY <1>2, <1>8, <4>5, <4>6 DEF RxHalf
      <4>9. Accounted(u, n) /\ Len(u.queue) <= QueueMax
        BY <4>4, <4>7, <4>8 DEF Accounted, lp
      <4>10. Filled(u)
        BY <1>1, <4>8 DEF RxBase, Filled
      <4> QED
        BY <1>6, <1>7, <1>10, <4>8, <4>9, <4>10 DEF RxBase, SameBuffer, KeepsArmed
    <3> QED
      BY <3>1, <3>2
  <2> HIDE DEF u
  <2>3. RxSound(s, n) /\ Hands(u, s) /\ KeepsArmed(u, s) /\ s.backlog = u.backlog
    BY <2>1, <2>2, Released
  <2>4. Hands(r, s) /\ KeepsArmed(r, s)
    BY <2>2, <2>3 DEF Hands, SameBuffer, NextFrame, KeepsArmed
  <2> QED
    BY <1>4, <1>10, <2>2, <2>3, <2>4 DEF Receives, Hands, s
<1>11. CASE setup.fifo /\ ~(r.pending \/ q # <<>> \/ r.since < Gap)
  <2>1. s = Deliver(t, f)
    BY <1>5, <1>8, <1>11 DEF Receive
  <2>2. t = [t EXCEPT !.queue = q]
    BY <1>8 DEF RxHalf
  <2>3. Line(Append(h, f), q, b)
    BY <1>2, <1>4, <1>11, LineUp
  <2>4. Len(h) + 1 + Len(q) + Len(b) + r.lost = n
    <3>1. lh + 1 + lq + lb + r.lost = n
      BY <1>2, <1>12
    <3> QED
      BY <3>1 DEF lh, lq, lb
  <2>5. t.since >= Gap
    BY <1>2, <1>8, <1>11, Limits
  <2> HIDE DEF t
  <2>6. RxSound(s, n) /\ NextFrame(t, s) /\ KeepsArmed(t, s) /\ s.backlog = t.backlog
    <3>1. /\ Line(Append(t.handed, f), q, t.backlog)
          /\ Len(t.handed) + 1 + Len(q) + Len(t.backlog) + t.lost = n
          /\ Len(t.backlog) <= BacklogMax
      BY <1>7, <1>8, <2>3, <2>4
    <3>2. s = Deliver([t EXCEPT !.queue = q], f)
      BY <2>1, <2>2
    <3>3. t \in RxHalf(n) /\ q \in Seq(1..n) /\ Len(q) <= QueueMax /\ f \in 1..n
      BY <1>2, <1>4, <1>6, <1>8
    <3>4. setup.fifo
      BY <1>11
    <3> DEFINE w == Deliver([t EXCEPT !.queue = q], f)
    <3>5. RxSound(w, n) /\ NextFrame(t, w) /\ KeepsArmed(t, w) /\ w.backlog = t.backlog
      <4> HIDE DEF q, h
      <4> QED
        BY <2>5, <3>1, <3>3, <3>4, Delivered, ZenonT(90)
    <3> QED
      BY <3>2, <3>5
  <2> QED
    BY <1>4, <1>8, <1>11, <2>6 DEF Receives, NextFrame, KeepsArmed, s
<1> QED
  BY <1>9, <1>10, <1>11

(* cdj_link_cosim_pump's loop, turn by turn: there is such a function,      *)
(* since there is one for every number of turns.                            *)
LEMMA PumpTurns ==
    ASSUME NEW r, Len(r.backlog) \in Nat
    PROVE  \E f : /\ Pump(r) = f[Len(r.backlog)] /\ f[0] = r
                  /\ \A i \in 1..Len(r.backlog) : f[i] = Passed(f[i - 1])
<1> DEFINE L == Len(r.backlog)
           Body(g, i) == IF i = 0 THEN r ELSE Passed(g[i - 1])
           Turn == CHOOSE g : g = [i \in 0..L |-> Body(g, i)]
           Begun(n) == \E g : \A i \in 0..n : g[i] = Body(g, i)
<1>1. Pump(r) = Turn[L]
  BY DEF Pump
<1>2. L \in Nat
  OBVIOUS
<1> HIDE DEF L
<1>3. \A n \in 0..L : Begun(n)
  <2> DEFINE T == {n \in 0..L : ~Begun(n)}
  <2> SUFFICES ASSUME T # {} PROVE FALSE
    OBVIOUS
  <2> HIDE DEF Begun
  <2>1. T \subseteq Nat
    BY <1>2
  <2>2. PICK n \in T : \A m \in T : n <= m
    <3> HIDE DEF T
    <3> QED
      BY <2>1, LeastNumber
  <2>3. n \in 0..L /\ ~Begun(n) /\ n \in Nat
    BY <1>2, <2>2
  <2>4. n # 0
    <3>1. Begun(0)
      <4> DEFINE g == [i \in 0..0 |-> r]
      <4>1. \A i \in 0..0 : g[i] = Body(g, i)
        OBVIOUS
      <4> QED
        BY <4>1 DEF Begun
    <3> QED
      BY <2>3, <3>1
  <2>5. Begun(n - 1)
    <3>1. n - 1 \in 0..L /\ ~(n <= n - 1)
      BY <1>2, <2>3, <2>4
    <3> QED
      BY <2>2, <3>1
  <2>6. PICK g : \A i \in 0..(n - 1) : g[i] = Body(g, i)
    BY <2>5 DEF Begun
  <2> DEFINE h == [i \in 0..n |-> IF i = n THEN Passed(g[n - 1]) ELSE g[i]]
  <2>7. ASSUME NEW i \in 0..n
        PROVE  h[i] = Body(h, i)
    <3>1. CASE i = 0
      <4>1. 0 \in 0..(n - 1) /\ 0 # n
        BY <2>3, <2>4
      <4>2. h[0] = g[0] /\ g[0] = r
        BY <2>6, <3>1, <4>1
      <4> QED
        BY <3>1, <4>2
    <3>2. CASE i # 0
      <4>1. i - 1 \in 0..n /\ i - 1 # n
        BY <2>3, <3>2
      <4>2. h[i - 1] = g[i - 1]
        BY <4>1
      <4>3. Body(h, i) = Passed(g[i - 1])
        BY <3>2, <4>2
      <4>4. CASE i = n
        BY <4>3, <4>4
      <4>5. CASE i # n
        <5>1. i \in 0..(n - 1)
          BY <2>3, <4>5
        <5>2. h[i] = g[i]
          BY <4>5
        <5>3. g[i] = Passed(g[i - 1])
          BY <2>6, <3>2, <5>1
        <5> HIDE DEF h, Body
        <5> QED
          BY <4>3, <5>2, <5>3
      <4> QED
        BY <4>4, <4>5
    <3> QED
      BY <3>1, <3>2
  <2>8. Begun(n)
    <3> HIDE DEF h
    <3> QED
      BY <2>7 DEF Begun
  <2> QED
    BY <2>3, <2>8
<1>4. PICK g : \A i \in 0..L : g[i] = Body(g, i)
  <2>1. L \in 0..L
    BY <1>2
  <2>2. Begun(L)
    <3> HIDE DEF Begun
    <3> QED
      BY <1>3, <2>1
  <2> QED
    BY <2>2
<1> DEFINE k == [i \in 0..L |-> g[i]]
<1>5. ASSUME NEW i \in 0..L
      PROVE  k[i] = Body(k, i)
  <2>1. CASE i = 0
    BY <1>4, <2>1
  <2>2. CASE i # 0
    <3>1. i - 1 \in 0..L
      BY <1>2, <2>2
    <3>2. k[i - 1] = g[i - 1]
      BY <3>1
    <3> QED
      BY <1>4, <2>2, <3>2
  <2> QED
    BY <2>1, <2>2
<1>6. k = [i \in 0..L |-> Body(k, i)]
  <2>1. \A i \in 0..L : g[i] = Body(k, i)
    BY <1>5
  <2> QED
    BY <2>1
<1>7. Turn = [i \in 0..L |-> Body(Turn, i)]
  <2> HIDE DEF k
  <2> QED
    BY <1>6
<1> HIDE DEF Turn, k
<1>8. \A i \in 0..L : Turn[i] = Body(Turn, i)
  BY <1>7
<1>9. Turn[0] = r
  <2>1. 0 \in 0..L
    BY <1>2
  <2> QED
    BY <1>8, <2>1
<1>10. \A i \in 1..L : Turn[i] = Passed(Turn[i - 1])
  <2> TAKE i \in 1..L
  <2>1. i \in 0..L /\ i # 0
    BY <1>2
  <2> QED
    BY <1>8, <2>1
<1> QED
  BY <1>1, <1>9, <1>10 DEF L

(* cdj_link_cosim_pump takes all there is while it may. *)
LEMMA Pumped ==
    ASSUME NEW n \in Nat, NEW r, RxSound(r, n), setup.fifo \in BOOLEAN,
           setup.oneShot \in BOOLEAN
    PROVE  LET s == Pump(r)
           IN  /\ RxSound(s, n) /\ Receives(r, s) /\ KeepsArmed(r, s)
               /\ s.backlog # <<>> => ~CanReceive(s)
               /\ ~CanReceive(r) => s = r
<1> DEFINE L == Len(r.backlog)
           T(s) == RxSound(s, n) /\ Receives(r, s) /\ KeepsArmed(r, s)
           P(i, s) == /\ T(s) /\ Len(s.backlog) \in Nat
                      /\ CanReceive(s) => Len(s.backlog) = L - i
                      /\ ~CanReceive(r) => s = r
<1>1. \A s : RxSound(s, n) => s.backlog \in Seq(1..n) /\ Len(s.backlog) \in Nat
                              /\ (s.backlog # <<>> <=> Len(s.backlog) > 0)
  <2> TAKE s
  <2> SUFFICES ASSUME RxSound(s, n)
               PROVE  s.backlog \in Seq(1..n) /\ Len(s.backlog) \in Nat
                      /\ (s.backlog # <<>> <=> Len(s.backlog) > 0)
    OBVIOUS
  <2>1. s.backlog \in Seq(1..n)
    BY DEF RxSound, RxBase, RxHalf
  <2>2. \A b \in Seq(1..n) : Len(b) \in Nat /\ (b # <<>> <=> Len(b) > 0)
    OBVIOUS
  <2> QED
    BY <2>1, <2>2
<1>2. PICK f : /\ Pump(r) = f[L] /\ f[0] = r
               /\ \A i \in 1..L : f[i] = Passed(f[i - 1])
  BY <1>1, PumpTurns
<1>3. L \in Nat
  BY <1>1
<1> HIDE DEF L
<1>4. P(0, f[0])
  <2>1. T(r)
    BY DEF Receives, SameBuffer, KeepsArmed
  <2> QED
    BY <1>1, <1>2, <1>3, <2>1 DEF L
<1>5. ASSUME NEW i \in 1..L, NEW s, P(i - 1, s)
      PROVE  P(i, Passed(s))
  <2>1. CASE ~CanReceive(s)
    BY <1>5, <2>1 DEF Passed
  <2>2. CASE CanReceive(s)
    <3>1. Len(s.backlog) = L - (i - 1) /\ RxSound(s, n)
      BY <1>5, <2>2
    <3>2. s.backlog # <<>>
      BY <1>1, <1>3, <3>1
    <3> DEFINE u == Passed(s)
    <3>3. /\ RxSound(u, n) /\ Receives(s, u) /\ KeepsArmed(s, u)
          /\ Len(u.backlog) = Len(s.backlog) - 1
      BY <2>2, <3>1, <3>2, PassedOn
    <3> HIDE DEF u
    <3>4. KeepsArmed(r, u) /\ CanReceive(r)
      BY <1>5, <2>2, <3>3 DEF KeepsArmed, CanReceive
    <3>5. Receives(r, u)
      <4>1. r.since \in Nat /\ s.since \in Nat /\ (Receives(r, s) /\ Receives(s, u))
        BY <1>5, <3>1, <3>3 DEF RxSound, RxBase, RxHalf
      <4> QED
        BY <3>4, <4>1, Limits DEF Receives, SameBuffer, NextFrame
    <3>6. Len(u.backlog) = L - i /\ Len(u.backlog) \in Nat
      BY <1>1, <1>3, <3>1, <3>3
    <3> QED
      BY <3>3, <3>4, <3>5, <3>6 DEF u
  <2> QED
    BY <2>1, <2>2
<1> HIDE DEF P
<1>6. \A i \in 0..L : P(i, f[i])
  <2> DEFINE Z == {i \in 0..L : ~P(i, f[i])}
  <2> SUFFICES ASSUME Z # {} PROVE FALSE
    OBVIOUS
  <2>1. Z \subseteq Nat
    BY <1>3
  <2>2. PICK i \in Z : \A m \in Z : i <= m
    <3> HIDE DEF Z
    <3> QED
      BY <2>1, LeastNumber
  <2>3. i \in 0..L /\ ~P(i, f[i]) /\ i \in Nat
    BY <1>3, <2>2
  <2>4. i # 0
    BY <1>4, <2>3
  <2>5. i \in 1..L /\ i - 1 \in 0..L /\ ~(i <= i - 1)
    BY <1>3, <2>3, <2>4
  <2>6. P(i - 1, f[i - 1])
    BY <2>2, <2>5
  <2>7. P(i, Passed(f[i - 1]))
    BY <1>5, <2>5, <2>6
  <2> QED
    BY <1>2, <2>3, <2>5, <2>7
<1>7. P(L, Pump(r))
  <2>1. L \in 0..L
    BY <1>3
  <2> QED
    BY <1>2, <1>6, <2>1
<1> DEFINE s == Pump(r)
<1> HIDE DEF s
<1>8. /\ RxSound(s, n) /\ Receives(r, s) /\ KeepsArmed(r, s)
      /\ CanReceive(s) => Len(s.backlog) = L - L
      /\ ~CanReceive(r) => s = r
  BY <1>7 DEF P, s
<1>9. s.backlog # <<>> => ~CanReceive(s)
  BY <1>1, <1>3, <1>8
<1> QED
  BY <1>8, <1>9 DEF s
-----------------------------------------------------------------------------
(* What a step of either side does to the receive half: a frame goes into   *)
(* the buffer in its time, and while the FIFO has any, a receive is armed.  *)
Delivers(r, s) ==
    \/ Hands(r, s)
    \/ /\ ~setup.fifo /\ s.irq /\ s.handed # <<>> /\ s.since = r.since
       /\ ~setup.oneShot => s.armed

StillArmed(r, s) ==
    \/ s.armed
    \/ s.armed = r.armed /\ (r.queue = <<>> => s.queue = <<>> /\ s.handed = r.handed)

Moves(r, s, n) ==
    /\ RxSound(s, n) /\ Delivers(r, s)
    /\ ~setup.oneShot => StillArmed(r, s)
    /\ s.backlog # <<>> => ~CanReceive(s)

(* A pump, after the write that makes it possible: a buffer, a request.     *)
LEMMA Pumping ==
    ASSUME NEW n \in Nat, NEW t, RxSound(t, n), setup.fifo \in BOOLEAN,
           setup.oneShot \in BOOLEAN,
           NEW r, SameBuffer(r, t), t.armed = r.armed, t.queue = r.queue
    PROVE  Moves(r, Pump(t), n)
<1> DEFINE s == Pump(t)
<1>1. /\ RxSound(s, n) /\ Receives(t, s) /\ KeepsArmed(t, s)
      /\ s.backlog # <<>> => ~CanReceive(s)
      /\ ~CanReceive(t) => s = t
  BY Pumped
<1> HIDE DEF s
<1>2. t.armed \in BOOLEAN /\ t.ready \in BOOLEAN /\ s.armed \in BOOLEAN
  BY <1>1 DEF RxSound, RxBase, RxHalf
<1>3. Delivers(r, s)
  <2>1. CASE SameBuffer(t, s) \/ (setup.fifo /\ NextFrame(t, s))
    BY <2>1 DEF Delivers, Hands, SameBuffer, NextFrame
  <2>2. CASE ~setup.fifo /\ CanReceive(t) /\ s.irq /\ s.handed # <<>> /\ s.since = t.since
    <3>1. ~setup.oneShot => s.armed
      BY <1>1, <2>2 DEF KeepsArmed, CanReceive
    <3> QED
      BY <2>2, <3>1 DEF Delivers, SameBuffer
  <2> QED
    BY <1>1, <2>1, <2>2 DEF Receives
<1>4. ASSUME ~setup.oneShot
      PROVE  StillArmed(r, s)
  <2>1. CASE CanReceive(t)
    BY <1>1, <1>4, <2>1 DEF KeepsArmed, CanReceive, StillArmed
  <2>2. CASE ~CanReceive(t)
    <3>1. s = t
      BY <1>1, <2>2
    <3> QED
      BY <3>1 DEF StillArmed, SameBuffer
  <2> QED
    BY <2>1, <2>2
<1> QED
  BY <1>1, <1>3, <1>4 DEF Moves, s

(* What is a sequence of the first requests is one of more of them.         *)
LEMMA Wider ==
    ASSUME NEW n \in Nat, NEW m \in Nat, n <= m, NEW s \in Seq(1..n)
    PROVE  s \in Seq(1..m)
<1>1. \A i \in 1..Len(s) : s[i] \in 1..m
  OBVIOUS
<1>2. s = [i \in 1..Len(s) |-> s[i]] /\ Len(s) \in Nat
  OBVIOUS
<1> QED
  BY <1>1, <1>2

(* cdj_link_cosim_request *)
LEMMA Requested ==
    ASSUME NEW n \in Nat, NEW r, RxSound(r, n), setup.fifo \in BOOLEAN,
           setup.oneShot \in BOOLEAN
    PROVE  Moves(r, Request(r, n + 1), n + 1)
<1> DEFINE m == n + 1
           b == IF Len(r.backlog) = BacklogMax THEN <<m>> ELSE Append(r.backlog, m)
           x == IF Len(r.backlog) = BacklogMax THEN r.lost + BacklogMax ELSE r.lost
           t == [r EXCEPT !.backlog = b, !.lost = x]
<1>1. r \in RxHalf(n) /\ RxBase(r, n) /\ Moving(r)
  BY DEF RxSound, RxBase
<1>2. /\ r.handed \in Seq(1..n) /\ r.queue \in Seq(1..n) /\ r.backlog \in Seq(1..n)
      /\ r.lost \in Nat /\ r.buffer \in 0..n
  BY <1>1 DEF RxHalf
<1>3. m \in Nat /\ n <= m /\ m \in 1..m
  OBVIOUS
<1>4. /\ r.handed \in Seq(1..m) /\ r.queue \in Seq(1..m) /\ r.backlog \in Seq(1..m)
      /\ r.buffer \in 0..m
  BY <1>2, <1>3, Wider
<1>5. Line(r.handed, r.queue, b)
  BY <1>1, <1>2, JoinLine DEF RxBase, Accounted
<1>6. /\ b \in Seq(1..m)
      /\ Len(b) = IF Len(r.backlog) = BacklogMax THEN 1 ELSE Len(r.backlog) + 1
  <2> HIDE DEF m
  <2>1. <<m>> \in Seq(1..m) /\ Len(<<m>>) = 1
    BY <1>3
  <2>2. Append(r.backlog, m) \in Seq(1..m) /\ Len(Append(r.backlog, m)) = Len(r.backlog) + 1
    BY <1>3, <1>4, Appended
  <2> QED
    BY <2>1, <2>2
<1> DEFINE lh == Len(r.handed)
           lq == Len(r.queue)
           lr == Len(r.backlog)
           lb == Len(b)
<1>7. /\ lh \in Nat /\ lq \in Nat /\ lr \in Nat /\ lr <= BacklogMax
      /\ lh + lq + lr + r.lost = n /\ r.lost \in Nat
  <2>1. lh \in Nat /\ lq \in Nat /\ lr \in Nat /\ r.lost \in Nat
    BY <1>2
  <2>2. lr <= BacklogMax /\ lh + lq + lr + r.lost = n
    BY <1>1 DEF RxBase, Accounted
  <2> QED
    BY <2>1, <2>2
<1>8. lb = (IF lr = BacklogMax THEN 1 ELSE lr + 1)
      /\ x = (IF lr = BacklogMax THEN r.lost + BacklogMax ELSE r.lost)
  BY <1>6
<1> HIDE DEF b, x, lh, lq, lr, lb
<1>9. x \in Nat /\ lb <= BacklogMax /\ lh + lq + lb + x = m
  <2>1. CASE lr = BacklogMax
    BY <1>7, <1>8, <2>1, Limits
  <2>2. CASE lr # BacklogMax
    BY <1>7, <1>8, <2>2, Limits
  <2> QED
    BY <2>1, <2>2
<1>10. Request(r, m) = Pump(t)
  <2>1. CASE Len(r.backlog) = BacklogMax
    BY <1>1, <2>1 DEF Request, b, x, RxHalf
  <2>2. CASE Len(r.backlog) # BacklogMax
    <3>1. [r EXCEPT !.backlog = Append(@, m)] = t
      BY <1>1, <2>2 DEF b, x, RxHalf
    <3> QED
      BY <2>2, <3>1 DEF Request
  <2> QED
    BY <2>1, <2>2
<1> HIDE DEF m
<1>11. /\ t \in RxHalf(m) /\ t.backlog = b /\ t.lost = x
       /\ t.ready = r.ready /\ t.armed = r.armed /\ t.buffer = r.buffer
       /\ t.irq = r.irq /\ t.pending = r.pending /\ t.queue = r.queue
       /\ t.since = r.since /\ t.dogIn = r.dogIn /\ t.gapIn = r.gapIn
       /\ t.handed = r.handed
  BY <1>1, <1>4, <1>6, <1>9 DEF RxHalf
<1> HIDE DEF t
<1>12. Accounted(t, m) /\ Len(t.backlog) <= BacklogMax
  BY <1>5, <1>9, <1>11 DEF Accounted, lh, lq, lb
<1>13. RxSound(t, m)
  BY <1>1, <1>11, <1>12 DEF RxSound, RxBase, Moving, Filled
<1>14. SameBuffer(r, t)
  BY <1>11 DEF SameBuffer
<1> QED
  BY <1>3, <1>10, <1>11, <1>13, <1>14, Pumping DEF m

(* What the buffer's release starts from: no acknowledge outstanding.       *)
LEMMA Freed ==
    ASSUME NEW n \in Nat, NEW r, RxSound(r, n)
    PROVE  /\ RxBase([r EXCEPT !.pending = FALSE, !.dogIn = Off], n)
           /\ RxBase([r EXCEPT !.gapIn = Off], n)
<1> DEFINE t == [r EXCEPT !.pending = FALSE, !.dogIn = Off]
           g == [r EXCEPT !.gapIn = Off]
<1>1. r \in RxHalf(n) /\ RxBase(r, n)
  BY DEF RxSound, RxBase
<1>2. Off \in Off..Watchdog /\ Off \in Off..Gap
  BY Limits
<1>3. /\ t \in RxHalf(n) /\ ~t.pending
      /\ t.backlog = r.backlog /\ t.lost = r.lost /\ t.buffer = r.buffer
      /\ t.irq = r.irq /\ t.queue = r.queue /\ t.handed = r.handed
  BY <1>1, <1>2 DEF RxHalf
<1>4. /\ g \in RxHalf(n) /\ g.pending = r.pending /\ g.dogIn = r.dogIn
      /\ g.backlog = r.backlog /\ g.lost = r.lost /\ g.buffer = r.buffer
      /\ g.irq = r.irq /\ g.queue = r.queue /\ g.handed = r.handed
  BY <1>1, <1>2 DEF RxHalf
<1> HIDE DEF t, g
<1>5. RxBase(t, n)
  BY <1>1, <1>3 DEF RxBase, Accounted, Filled
<1>6. RxBase(g, n)
  BY <1>1, <1>4 DEF RxBase, Accounted, Filled
<1> QED
  BY <1>5, <1>6 DEF t, g

(* The release and the handover in a step of their own: the gap timer, the  *)
(* watchdog, a record sent.  t is r, with a timer that has fired off.       *)
LEMMA Releasing ==
    ASSUME NEW n \in Nat, NEW r, RxSound(r, n), setup.oneShot \in BOOLEAN,
           r.backlog # <<>> => ~CanReceive(r)
    PROVE  /\ Moves(r, Release([r EXCEPT !.gapIn = Off]), n)
           /\ Moves(r, Handover(r), n)
           /\ Moves(r, Handover([r EXCEPT !.dogIn = Off]), n)
<1>1. r \in RxHalf(n) /\ Moving(r)
  BY DEF RxSound, RxBase
<1>2. ASSUME NEW t, NEW s, RxSound(s, n), Hands(t, s), KeepsArmed(t, s), s.backlog = t.backlog,
             t.queue = <<>> => s.queue = <<>> /\ SameBuffer(t, s),
             SameBuffer(r, t), t.armed = r.armed, t.queue = r.queue, t.backlog = r.backlog,
             t.ready = r.ready
      PROVE  Moves(r, s, n)
  <2>1. Hands(r, s) /\ (r.queue = <<>> => s.queue = <<>> /\ SameBuffer(r, s))
    BY <1>2 DEF Hands, SameBuffer, NextFrame
  <2>2. ~setup.oneShot => StillArmed(r, s)
    BY <1>2, <2>1 DEF KeepsArmed, StillArmed, SameBuffer
  <2>3. s.backlog # <<>> => ~CanReceive(s)
    BY <1>2 DEF KeepsArmed, CanReceive
  <2> QED
    BY <1>2, <2>1, <2>2, <2>3 DEF Moves, Delivers
<1>3. Moves(r, Release([r EXCEPT !.gapIn = Off]), n)
  <2> DEFINE t == [r EXCEPT !.gapIn = Off]
             s == Release(t)
  <2>1. SameBuffer(r, t) /\ t.armed = r.armed /\ t.queue = r.queue /\ t.backlog = r.backlog
        /\ t.ready = r.ready
    BY <1>1 DEF SameBuffer, RxHalf
  <2>2. RxBase(t, n)
    BY Freed
  <2> HIDE DEF t
  <2>3. /\ RxSound(s, n) /\ Hands(t, s) /\ KeepsArmed(t, s) /\ s.backlog = t.backlog
        /\ t.queue = <<>> => s.queue = <<>> /\ SameBuffer(t, s)
    BY <2>2, Released
  <2> HIDE DEF s
  <2>4. Moves(r, s, n)
    BY <1>2, <2>1, <2>3
  <2> QED
    BY <2>4 DEF s, t
<1>4. ASSUME NEW t \in {r, [r EXCEPT !.dogIn = Off]}
      PROVE  Moves(r, Handover(t), n)
  <2> DEFINE s == Handover(t)
  <2>1. /\ SameBuffer(r, t) /\ t.armed = r.armed /\ t.queue = r.queue /\ t.backlog = r.backlog
        /\ t.ready = r.ready /\ t \in RxHalf(n)
        /\ t.gapIn = r.gapIn /\ t.pending = r.pending
        /\ [t EXCEPT !.pending = FALSE, !.dogIn = Off] = [r EXCEPT !.pending = FALSE, !.dogIn = Off]
    <3>1. Off \in Off..Watchdog
      BY Limits
    <3> QED
      BY <1>1, <3>1 DEF SameBuffer, RxHalf
  <2>2. RxBase([t EXCEPT !.pending = FALSE, !.dogIn = Off], n)
    BY <2>1, Freed
  <2>3. ~t.pending => Moving(t)
    BY <1>1, <2>1 DEF Moving
  <2>4. /\ RxSound(s, n) /\ Hands(t, s) /\ KeepsArmed(t, s) /\ s.backlog = t.backlog
        /\ t.queue = <<>> => s.queue = <<>> /\ SameBuffer(t, s)
    BY <2>1, <2>2, <2>3, HandedOver
  <2> HIDE DEF s
  <2>5. Moves(r, s, n)
    BY <1>2, <2>1, <2>4
  <2> QED
    BY <2>5 DEF s
<1> QED
  BY <1>3, <1>4

(* cdj_link_write of the control register with START: also a re-arm that    *)
(* stands for the acknowledge.                                              *)
LEMMA Arming ==
    ASSUME NEW n \in Nat, NEW r, RxSound(r, n), setup.fifo \in BOOLEAN,
           setup.oneShot \in BOOLEAN
    PROVE  Moves(r, Arm(r), n) /\ (~setup.oneShot => Arm(r).armed)
<1> DEFINE t == [r EXCEPT !.armed = TRUE]
           u == IF setup.onAnswer THEN t ELSE Handover(t)
           s == Pump(u)
<1>1. r \in RxHalf(n) /\ RxBase(r, n) /\ Moving(r)
  BY DEF RxSound, RxBase
<1>2. /\ t \in RxHalf(n) /\ t.armed /\ t.ready = r.ready /\ t.buffer = r.buffer
      /\ t.irq = r.irq /\ t.pending = r.pending /\ t.queue = r.queue /\ t.backlog = r.backlog
      /\ t.since = r.since /\ t.dogIn = r.dogIn /\ t.gapIn = r.gapIn
      /\ t.handed = r.handed /\ t.lost = r.lost
  BY <1>1 DEF RxHalf
<1>3. Arm(r) = s
  BY DEF Arm
<1> HIDE DEF t
<1>4. RxSound(t, n)
  BY <1>1, <1>2 DEF RxSound, RxBase, Moving, Accounted, Filled
<1>5. RxSound(u, n) /\ Hands(t, u) /\ KeepsArmed(t, u)
  <2>1. CASE setup.onAnswer
    BY <1>4, <2>1 DEF Hands, SameBuffer, KeepsArmed
  <2>2. CASE ~setup.onAnswer
    <3>1. RxBase([t EXCEPT !.pending = FALSE, !.dogIn = Off], n) /\ Moving(t)
      BY <1>4, Freed DEF RxSound
    <3> DEFINE v == Handover(t)
    <3>2. RxSound(v, n) /\ Hands(t, v) /\ KeepsArmed(t, v)
      BY <1>2, <3>1, HandedOver
    <3> QED
      BY <2>2, <3>2
  <2> QED
    BY <2>1, <2>2
<1> HIDE DEF u
<1>6. /\ RxSound(s, n) /\ Receives(u, s) /\ KeepsArmed(u, s)
      /\ s.backlog # <<>> => ~CanReceive(s)
  BY <1>5, Pumped
<1> HIDE DEF s
<1>7. ~setup.oneShot => s.armed
  BY <1>2, <1>5, <1>6 DEF KeepsArmed
<1>8. Delivers(t, s)
  <2>1. CASE setup.fifo
    <3>1. ~(0 >= Gap)
      BY Limits
    <3> QED
      BY <1>5, <1>6, <2>1, <3>1 DEF Delivers, Hands, Receives, SameBuffer, NextFrame
  <2>2. CASE ~setup.fifo
    BY <1>5, <1>6, <1>7, <2>2 DEF Delivers, Hands, Receives, SameBuffer
  <2> QED
    BY <2>1, <2>2
<1>9. Delivers(r, s)
  BY <1>2, <1>8 DEF Delivers, Hands, SameBuffer, NextFrame
<1> QED
  BY <1>3, <1>6, <1>7, <1>9 DEF Moves, StillArmed

(* cdj_link_write of the status register: the interrupt is down before the  *)
(* next frame may raise it.                                                 *)
Acked(r) == [r EXCEPT !.status = FALSE, !.irq = FALSE]

(* The handler's acknowledge takes the level down; with on_answer off it    *)
(* hands over what waits, and either way the line moves only forward.       *)
LEMMA Acknowledging ==
    ASSUME NEW n \in Nat, NEW r, RxSound(r, n), setup.oneShot \in BOOLEAN,
           r.backlog # <<>> => ~CanReceive(r)
    PROVE  /\ Moves(Acked(r), Acknowledge(r), n) /\ ~Acked(r).irq
           /\ Acked(r).handed = r.handed /\ Acked(r).buffer = r.buffer
           /\ Acked(r).since = r.since /\ Acked(r).armed = r.armed /\ Acked(r).queue = r.queue
<1> DEFINE t == Acked(r)
<1>1. r \in RxHalf(n) /\ RxBase(r, n) /\ Moving(r)
  BY DEF RxSound, RxBase
<1>2. /\ t \in RxHalf(n) /\ t.irq = FALSE /\ t.armed = r.armed /\ t.ready = r.ready
      /\ t.buffer = r.buffer /\ t.pending = r.pending /\ t.queue = r.queue
      /\ t.backlog = r.backlog /\ t.since = r.since /\ t.dogIn = r.dogIn /\ t.gapIn = r.gapIn
      /\ t.handed = r.handed /\ t.lost = r.lost
  BY <1>1 DEF RxHalf, Acked
<1>3. Acknowledge(r) = IF setup.onAnswer THEN t ELSE Handover(t)
  BY DEF Acknowledge, Acked
<1> HIDE DEF t
<1>4. RxSound(t, n) /\ (t.backlog # <<>> => ~CanReceive(t))
  BY <1>1, <1>2 DEF RxSound, RxBase, Moving, Accounted, Filled, CanReceive
<1>5. Moves(t, t, n)
  BY <1>4 DEF Moves, Delivers, Hands, SameBuffer, StillArmed
<1>6. Moves(t, Handover(t), n)
  BY <1>4, Releasing
<1>7. Moves(t, Acknowledge(r), n)
  BY <1>3, <1>5, <1>6
<1> QED
  BY <1>2, <1>7 DEF t
-----------------------------------------------------------------------------
(* The firmware's handler and task. *)
One(p) == IF p THEN 1 ELSE 0

(* Frames handed over that the task has yet to examine. *)
Unread == woken + One(isr # "idle") + One(rx.irq)

(* The firmware is done with a frame in its time. *)
Slow == setup.fifo => GuestDone \/ rx.since <= setup.firmware

(* The handler's disarm is followed by its arm. *)
StaysArmed == ~setup.oneShot => rx.armed \/ isr = "disarmed" \/ rx.queue = <<>>

(* It has been woken by a frame. *)
Woken == rx.irq \/ isr # "idle" \/ woken > 0 => rx.handed # <<>>

(* A prompt firmware has examined all but the last frame. *)
Reading ==
    Prompt /\ setup.fifo =>
        /\ Unread <= 1 /\ Len(rx.handed) = Len(read) + Unread
        /\ \A i \in 1..Len(read) : read[i] = rx.handed[i]

GuestTypes ==
    /\ setup \in Setups /\ requests \in 0..setup.requests
    /\ isr \in {"idle", "acked", "disarmed"} /\ woken \in Nat /\ read \in Seq(1..requests)

GuestInv ==
    /\ GuestTypes /\ rx.since <= Gap + setup.firmware
    /\ Slow /\ StaysArmed /\ Woken /\ Reading

RxInv == RxSound(rx, requests) /\ BacklogOnlyWhileUnarmed /\ GuestInv

(* How it was started. *)
LEMMA Configured ==
    ASSUME setup \in Setups
    PROVE  /\ setup.fifo \in BOOLEAN /\ setup.oneShot \in BOOLEAN /\ setup.onAnswer \in BOOLEAN
           /\ setup.firmware \in Nat /\ setup.requests \in Nat /\ setup.records \in Nat
           /\ setup.txTime \in Nat
<1>1. setup \in [fifo : BOOLEAN, oneShot : BOOLEAN, onAnswer : BOOLEAN, txTime : Nat,
                 firmware : Nat, polls : BOOLEAN, requests : Nat, records : Nat]
  BY MainLinkAssumption
<1> QED
  BY <1>1

(* The link starts with nothing on the line.                                *)
LEMMA RxInit == Init => RxInv
<1> SUFFICES ASSUME Init PROVE RxInv
  OBVIOUS
<1>1. setup \in Setups /\ requests = 0 /\ isr = "idle" /\ woken = 0 /\ read = <<>>
  BY DEF Init
<1>2. rx = [armed |-> FALSE, ready |-> FALSE, buffer |-> 0, status |-> FALSE,
            irq |-> FALSE, pending |-> FALSE, queue |-> <<>>, backlog |-> <<>>,
            since |-> 0, gapIn |-> Off, dogIn |-> Off, handed |-> <<>>, lost |-> 0]
  BY DEF Init
<1>3. <<>> \in Seq(1..0) /\ Len(<<>>) = 0 /\ 0 \in 0..0 /\ 0 \in Nat
      /\ Off \in Off..Gap /\ Off \in Off..Watchdog
  BY Limits
<1>4. /\ rx \in RxHalf(0) /\ rx.handed = <<>> /\ rx.queue = <<>> /\ rx.backlog = <<>>
      /\ rx.lost = 0 /\ rx.since = 0 /\ rx.irq = FALSE /\ rx.pending = FALSE
  BY <1>2, <1>3 DEF RxHalf
<1>5. Line(<<>>, <<>>, <<>>)
  BY DEF Line, Rising, Before
<1>6. Accounted(rx, 0) /\ Filled(rx)
  BY <1>3, <1>4, <1>5 DEF Accounted, Filled
<1>7. RxSound(rx, 0)
  BY <1>3, <1>4, <1>6, Limits DEF RxSound, RxBase, Moving
<1>8. GuestTypes /\ rx.since <= Gap + setup.firmware
  BY <1>1, <1>3, <1>4, Configured, Limits DEF GuestTypes
<1>9. Slow /\ StaysArmed /\ Woken /\ Reading
  BY <1>1, <1>3, <1>4 DEF Slow, GuestDone, StaysArmed, Woken, Reading, Unread, One
<1> QED
  BY <1>1, <1>4, <1>7, <1>8, <1>9 DEF RxInv, GuestInv, BacklogOnlyWhileUnarmed

(* While a prompt firmware is at a frame, no other comes.                   *)
LEMMA NoneYet ==
    ASSUME RxInv, setup.fifo, Prompt, ~GuestDone,
           NEW t, t.since = rx.since, NEW s, Delivers(t, s)
    PROVE  SameBuffer(t, s)
<1>1. rx.since <= setup.firmware /\ setup.firmware \in Nat /\ rx.since \in Nat
  BY Configured DEF RxInv, GuestInv, GuestTypes, Slow, RxSound, RxBase, RxHalf
<1>2. ~(t.since >= Gap)
  BY <1>1, Limits DEF Prompt
<1> QED
  BY <1>2 DEF Delivers, Hands, NextFrame

(* What has been handed over stays, and more is at its end.                 *)
LEMMA Longer ==
    ASSUME RxInv, NEW n \in Nat, NEW t, t.handed = rx.handed, t.since = rx.since,
           NEW s, s \in RxHalf(n), Delivers(t, s)
    PROVE  /\ rx.handed # <<>> => s.handed # <<>>
           /\ s.irq /\ ~t.irq => s.handed # <<>>
           /\ s.since \in {0, rx.since}
           /\ setup.fifo => \/ s.handed = rx.handed /\ s.irq = t.irq /\ s.since = rx.since
                            \/ /\ rx.since >= Gap /\ s.since = 0 /\ s.irq
                               /\ s.handed = Append(rx.handed, s.buffer)
                               /\ Len(s.handed) = Len(rx.handed) + 1
                               /\ \A i \in 1..Len(rx.handed) : s.handed[i] = rx.handed[i]
<1>1. CASE Hands(t, s) /\ SameBuffer(t, s)
  BY <1>1 DEF SameBuffer
<1>2. CASE setup.fifo /\ NextFrame(t, s)
  <2>1. s.handed = Append(rx.handed, s.buffer) /\ s.since = 0 /\ rx.since >= Gap /\ s.irq
    BY <1>2 DEF NextFrame
  <2>2. rx.handed \in Seq(1..requests)
    BY DEF RxInv, RxSound, RxBase, RxHalf
  <2> DEFINE h == rx.handed
             b == s.buffer
  <2>3. h \in Seq(1..requests)
    BY <2>2
  <2> HIDE DEF h, b
  <2>4. /\ Len(Append(h, b)) = Len(h) + 1
        /\ \A i \in 1..Len(h) : Append(h, b)[i] = h[i]
        /\ Len(h) \in Nat /\ Len(h) + 1 # 0
    BY <2>3
  <2>5. Append(h, b) # <<>>
    <3>1. Len(<<>>) = 0
      OBVIOUS
    <3> QED
      BY <2>4, <3>1, Zenon
  <2> QED
    BY <2>1, <2>4, <2>5 DEF h, b
<1>3. CASE ~setup.fifo /\ s.irq /\ s.handed # <<>> /\ s.since = t.since
  BY <1>3
<1> QED
  BY <1>1, <1>2, <1>3 DEF Delivers, Hands

(* A step of the wire, a timer or a write that is none of the handler's.    *)
LEMMA Waiting ==
    ASSUME RxInv, setup' = setup, requests' \in 0..setup.requests, requests <= requests',
           Moves(rx, rx', requests'), UNCHANGED guest
    PROVE  RxInv'
<1>1. /\ setup \in Setups /\ setup.firmware \in Nat /\ setup.requests \in Nat
      /\ requests \in Nat /\ requests' \in Nat /\ setup.fifo \in BOOLEAN
      /\ setup.oneShot \in BOOLEAN
  BY Configured DEF RxInv, GuestInv, GuestTypes
<1>2. /\ RxSound(rx', requests') /\ Delivers(rx, rx')
      /\ ~setup.oneShot => StillArmed(rx, rx')
      /\ rx'.backlog # <<>> => ~CanReceive(rx')
  BY DEF Moves
<1>3. isr' = isr /\ woken' = woken /\ read' = read
  BY DEF guest
<1>4. rx' \in RxHalf(requests') /\ rx \in RxHalf(requests)
  BY <1>2 DEF RxInv, RxSound, RxBase
<1>5. /\ rx.handed # <<>> => rx'.handed # <<>>
      /\ rx'.irq /\ ~rx.irq => rx'.handed # <<>>
      /\ rx'.since \in {0, rx.since}
      /\ setup.fifo => \/ rx'.handed = rx.handed /\ rx'.irq = rx.irq /\ rx'.since = rx.since
                       \/ /\ rx.since >= Gap /\ rx'.since = 0 /\ rx'.irq
                          /\ rx'.handed = Append(rx.handed, rx'.buffer)
                          /\ Len(rx'.handed) = Len(rx.handed) + 1
                          /\ \A i \in 1..Len(rx.handed) : rx'.handed[i] = rx.handed[i]
  BY <1>1, <1>2, <1>4, Longer
<1>6. BacklogOnlyWhileUnarmed'
  BY <1>2 DEF BacklogOnlyWhileUnarmed, CanReceive
<1>7. GuestTypes'
  <2>1. read' \in Seq(1..requests')
    BY <1>1, <1>3, Wider DEF RxInv, GuestInv, GuestTypes
  <2> QED
    BY <1>3, <2>1 DEF RxInv, GuestInv, GuestTypes
<1>8. rx'.since <= Gap + setup'.firmware
  BY <1>1, <1>5, Limits DEF RxInv, GuestInv
<1>9. Slow'
  <2> SUFFICES ASSUME setup.fifo PROVE GuestDone' \/ rx'.since <= setup.firmware
    BY DEF Slow
  <2>1. CASE rx'.irq = rx.irq /\ rx'.since = rx.since
    BY <1>3, <2>1 DEF RxInv, GuestInv, Slow, GuestDone
  <2>2. CASE rx'.since = 0
    BY <1>1, <2>2
  <2> QED
    BY <1>5, <2>1, <2>2
<1>10. StaysArmed'
  <2> SUFFICES ASSUME ~setup.oneShot
               PROVE  rx'.armed \/ isr = "disarmed" \/ rx'.queue = <<>>
    BY <1>3 DEF StaysArmed
  <2> QED
    BY <1>2 DEF StillArmed, RxInv, GuestInv, StaysArmed
<1>11. Woken'
  <2>1. rx.irq \/ isr # "idle" \/ woken > 0 => rx.handed # <<>>
    BY DEF RxInv, GuestInv, Woken
  <2> QED
    BY <1>3, <1>5, <2>1 DEF Woken
<1>12. Reading'
  <2> SUFFICES ASSUME Prompt, setup.fifo
               PROVE  /\ Unread' <= 1 /\ Len(rx'.handed) = Len(read) + Unread'
                      /\ \A i \in 1..Len(read) : read[i] = rx'.handed[i]
    BY <1>3 DEF Reading, Prompt
  <2>1. /\ Unread <= 1 /\ Len(rx.handed) = Len(read) + Unread
        /\ \A i \in 1..Len(read) : read[i] = rx.handed[i]
    BY DEF RxInv, GuestInv, Reading
  <2>2. CASE rx'.handed = rx.handed /\ rx'.irq = rx.irq
    BY <1>3, <2>1, <2>2 DEF Unread
  <2>3. CASE rx.since >= Gap
    <3>1. GuestDone
      <4>1. rx.since \in Nat
        BY <1>4 DEF RxHalf
      <4> QED
        BY <1>1, <2>3, <4>1, Limits DEF RxInv, GuestInv, Slow, Prompt
    <3>2. Unread = 0
      BY <3>1 DEF GuestDone, Unread, One
    <3>3. CASE rx'.handed = rx.handed /\ rx'.irq = rx.irq
      BY <2>2, <3>3
    <3>4. CASE /\ rx'.irq /\ Len(rx'.handed) = Len(rx.handed) + 1
               /\ \A i \in 1..Len(rx.handed) : rx'.handed[i] = rx.handed[i]
      <4>1. Unread' = 1
        BY <1>3, <3>1, <3>4 DEF GuestDone, Unread, One
      <4>2. Len(read) \in Nat
        BY DEF RxInv, GuestInv, GuestTypes
      <4>3. Len(rx.handed) = Len(read)
        BY <2>1, <3>2, <4>2
      <4> QED
        BY <2>1, <3>4, <4>1, <4>2, <4>3
    <3> QED
      BY <1>5, <3>3, <3>4
  <2> QED
    BY <1>5, <2>2, <2>3
<1>13. RxSound(rx, requests)'
  BY <1>2 DEF RxSound, RxBase
<1> QED
  BY <1>6, <1>7, <1>8, <1>9, <1>10, <1>11, <1>12, <1>13 DEF RxInv, GuestInv

(* The receive handler: acknowledge, disarm, arm again and wake the task.   *)
LEMMA Handling ==
    ASSUME RxInv, Handler
    PROVE  RxInv'
<1>1. setup' = setup /\ requests' = requests /\ read' = read /\ (isr # "idle" \/ rx.irq)
  BY DEF Handler, IsrAcknowledge, IsrDisarm, IsrArm
<1>2. /\ setup \in Setups /\ setup.firmware \in Nat /\ requests \in Nat
      /\ setup.fifo \in BOOLEAN /\ setup.oneShot \in BOOLEAN
      /\ woken \in Nat /\ Len(read) \in Nat
  BY Configured DEF RxInv, GuestInv, GuestTypes
<1>3. /\ rx \in RxHalf(requests) /\ RxSound(rx, requests) /\ rx.since \in Nat
      /\ rx.backlog # <<>> => ~CanReceive(rx)
  BY DEF RxInv, RxSound, RxBase, RxHalf, BacklogOnlyWhileUnarmed
<1>4. ~GuestDone /\ rx.handed # <<>> /\ (setup.fifo => rx.since <= setup.firmware)
  BY <1>1 DEF GuestDone, RxInv, GuestInv, Woken, Slow
<1>5. ~setup.oneShot => rx.armed \/ isr = "disarmed" \/ rx.queue = <<>>
  BY DEF RxInv, GuestInv, StaysArmed
<1>6. Prompt /\ setup.fifo => /\ Unread <= 1 /\ Len(rx.handed) = Len(read) + Unread
                              /\ \A i \in 1..Len(read) : read[i] = rx.handed[i]
  BY DEF RxInv, GuestInv, Reading
(* What is left to show, once the frames are where they were. *)
<1>7. ASSUME /\ RxSound(rx', requests) /\ (rx'.backlog # <<>> => ~CanReceive(rx'))
             /\ rx'.handed # <<>> /\ rx'.since \in {0, rx.since}
             /\ isr' \in {"idle", "acked", "disarmed"} /\ woken' \in Nat
             /\ ~setup.oneShot => rx'.armed \/ isr' = "disarmed" \/ rx'.queue = <<>>
             /\ Prompt /\ setup.fifo => rx'.handed = rx.handed /\ Unread' = Unread
      PROVE  RxInv'
  <2>1. RxSound(rx, requests)' /\ BacklogOnlyWhileUnarmed'
    BY <1>1, <1>7 DEF RxSound, RxBase, BacklogOnlyWhileUnarmed, CanReceive
  <2>2. GuestTypes'
    BY <1>1, <1>7 DEF RxInv, GuestInv, GuestTypes
  <2>3. rx'.since <= Gap + setup'.firmware /\ (setup.fifo => rx'.since <= setup.firmware)
    BY <1>1, <1>2, <1>4, <1>7, Limits DEF RxInv, GuestInv
  <2>4. Slow' /\ StaysArmed' /\ Woken'
    BY <1>1, <1>7, <2>3 DEF Slow, StaysArmed, Woken
  <2>5. Reading'
    <3> SUFFICES ASSUME Prompt, setup.fifo
                 PROVE  /\ Unread' <= 1 /\ Len(rx'.handed) = Len(read) + Unread'
                        /\ \A i \in 1..Len(read) : read[i] = rx'.handed[i]
      BY <1>1 DEF Reading, Prompt
    <3> QED
      BY <1>6, <1>7
  <2> QED
    BY <2>1, <2>2, <2>3, <2>4, <2>5 DEF RxInv, GuestInv
<1>8. CASE IsrAcknowledge
  <2>1. isr = "idle" /\ rx.irq /\ rx' = Acknowledge(rx) /\ isr' = "acked" /\ woken' = woken
    BY <1>8 DEF IsrAcknowledge
  <2> DEFINE t == Acked(rx)
  <2>2. /\ Moves(t, rx', requests) /\ ~t.irq /\ t.handed = rx.handed
        /\ t.since = rx.since /\ t.armed = rx.armed /\ t.queue = rx.queue
    BY <1>2, <1>3, <2>1, Acknowledging
  <2> HIDE DEF t
  <2>3. /\ RxSound(rx', requests) /\ (rx'.backlog # <<>> => ~CanReceive(rx'))
        /\ Delivers(t, rx') /\ (~setup.oneShot => StillArmed(t, rx'))
        /\ rx' \in RxHalf(requests)
    BY <2>2 DEF Moves, RxSound, RxBase
  <2>4. rx'.handed # <<>> /\ rx'.since \in {0, rx.since}
    BY <1>2, <1>4, <2>2, <2>3, Longer
  <2>5. ~setup.oneShot => rx'.armed \/ rx'.queue = <<>>
    BY <1>5, <2>1, <2>2, <2>3 DEF StillArmed
  <2>6. ASSUME Prompt, setup.fifo
        PROVE  rx'.handed = rx.handed /\ Unread' = Unread
    <3>1. SameBuffer(t, rx')
      BY <1>4, <2>2, <2>3, <2>6, NoneYet
    <3>2. rx'.irq = t.irq /\ rx'.handed = rx.handed
      BY <2>2, <3>1 DEF SameBuffer
    <3>3. Unread = woken + 0 + 1 /\ Unread' = woken + 1 + 0
      BY <2>1, <2>2, <3>2 DEF Unread, One
    <3> QED
      BY <1>2, <3>2, <3>3
  <2> QED
    BY <1>2, <1>7, <2>1, <2>3, <2>4, <2>5, <2>6
<1>9. CASE IsrDisarm
  <2>1. isr = "acked" /\ rx' = [rx EXCEPT !.armed = FALSE] /\ isr' = "disarmed" /\ woken' = woken
    BY <1>9 DEF IsrDisarm, Disarm
  <2>2. /\ rx' \in RxHalf(requests) /\ rx'.armed = FALSE /\ rx'.ready = rx.ready
        /\ rx'.buffer = rx.buffer /\ rx'.irq = rx.irq /\ rx'.pending = rx.pending
        /\ rx'.queue = rx.queue /\ rx'.backlog = rx.backlog /\ rx'.since = rx.since
        /\ rx'.dogIn = rx.dogIn /\ rx'.gapIn = rx.gapIn
        /\ rx'.handed = rx.handed /\ rx'.lost = rx.lost
    BY <1>3, <2>1 DEF RxHalf
  <2>3. RxSound(rx', requests) /\ ~CanReceive(rx')
    BY <1>3, <2>2 DEF RxSound, RxBase, Moving, Accounted, Filled, CanReceive
  <2>4. Unread' = Unread
    BY <2>1, <2>2 DEF Unread, One
  <2> QED
    BY <1>2, <1>4, <1>7, <2>1, <2>2, <2>3, <2>4
<1>10. CASE IsrArm
  <2>1. isr = "disarmed" /\ rx' = Arm(rx) /\ isr' = "idle" /\ woken' = woken + 1
    BY <1>10 DEF IsrArm
  <2>2. Moves(rx, rx', requests) /\ (~setup.oneShot => rx'.armed)
    BY <1>2, <1>3, <2>1, Arming
  <2>3. /\ RxSound(rx', requests) /\ (rx'.backlog # <<>> => ~CanReceive(rx'))
        /\ Delivers(rx, rx') /\ rx' \in RxHalf(requests)
    BY <2>2 DEF Moves, RxSound, RxBase
  <2>4. rx'.handed # <<>> /\ rx'.since \in {0, rx.since}
    BY <1>2, <1>4, <2>3, Longer
  <2>5. ASSUME Prompt, setup.fifo
        PROVE  rx'.handed = rx.handed /\ Unread' = Unread
    <3>1. SameBuffer(rx, rx')
      BY <1>4, <2>3, <2>5, NoneYet
    <3>2. rx'.irq = rx.irq /\ rx'.handed = rx.handed
      BY <3>1 DEF SameBuffer
    <3>3. Unread = woken + 1 + One(rx.irq) /\ Unread' = (woken + 1) + 0 + One(rx.irq)
      BY <2>1, <3>2 DEF Unread, One
    <3>4. One(rx.irq) \in Nat
      BY DEF One
    <3> QED
      BY <1>2, <3>2, <3>3, <3>4
  <2> QED
    BY <1>2, <1>7, <2>1, <2>2, <2>3, <2>4, <2>5
<1> QED
  BY <1>8, <1>9, <1>10 DEF Handler

(* The task examines what is in the buffer: of a prompt one, the frame that *)
(* woke it.                                                                 *)
LEMMA Examining ==
    ASSUME RxInv, Examine
    PROVE  RxInv'
<1>1. /\ woken > 0 /\ woken' = woken - 1 /\ read' = Append(read, rx.buffer)
      /\ setup' = setup /\ rx' = rx /\ requests' = requests /\ isr' = isr
  BY DEF Examine
<1>2. woken \in Nat /\ read \in Seq(1..requests) /\ requests \in Nat
  BY Configured DEF RxInv, GuestInv, GuestTypes
<1>3. /\ rx.handed \in Seq(1..requests) /\ rx.handed # <<>>
      /\ rx.buffer = rx.handed[Len(rx.handed)]
  BY <1>1, <1>2 DEF RxInv, GuestInv, Woken, RxSound, RxBase, RxHalf, Filled
<1> DEFINE h == rx.handed
           f == rx.buffer
<1>4. f \in 1..requests
  <2>1. h \in Seq(1..requests) /\ h # <<>> /\ f = h[Len(h)]
    BY <1>3
  <2>2. \A s \in Seq(1..requests) : s # <<>> => s[Len(s)] \in 1..requests
    BY <1>2
  <2> HIDE DEF h, f
  <2> QED
    BY <2>1, <2>2
<1> HIDE DEF f
<1>5. /\ read' \in Seq(1..requests) /\ Len(read') = Len(read) + 1 /\ Len(read) \in Nat
      /\ \A i \in 1..Len(read) : read'[i] = read[i]
      /\ read'[Len(read) + 1] = f
  <2>1. read' = Append(read, f)
    BY <1>1 DEF f
  <2> QED
    BY <1>2, <1>4, <2>1, Appended
<1>6. RxSound(rx, requests)' /\ BacklogOnlyWhileUnarmed'
  BY <1>1 DEF RxInv, RxSound, RxBase, BacklogOnlyWhileUnarmed, CanReceive
<1>7. GuestTypes' /\ rx'.since <= Gap + setup'.firmware
  BY <1>1, <1>2, <1>5 DEF RxInv, GuestInv, GuestTypes
<1>8. Slow' /\ StaysArmed' /\ Woken'
  <2>1. ~GuestDone
    BY <1>1, <1>2 DEF GuestDone
  <2> QED
    BY <1>1, <1>3, <2>1 DEF RxInv, GuestInv, Slow, StaysArmed, Woken
<1>9. Reading'
  <2> SUFFICES ASSUME Prompt, setup.fifo
               PROVE  /\ Unread' <= 1 /\ Len(h) = Len(read') + Unread'
                      /\ \A i \in 1..Len(read') : read'[i] = h[i]
    BY <1>1 DEF Reading, Prompt
  <2>1. /\ Unread <= 1 /\ Len(h) = Len(read) + Unread
        /\ \A i \in 1..Len(read) : read[i] = h[i]
    BY DEF RxInv, GuestInv, Reading
  <2>2. /\ One(rx.irq) \in Nat /\ One(isr # "idle") \in Nat
    BY DEF One
  <2>3. Unread = 1 /\ Unread' = 0
    BY <1>1, <1>2, <2>1, <2>2 DEF Unread
  <2>4. Len(h) = Len(read) + 1 /\ f = h[Len(read) + 1]
    BY <1>3, <2>1, <2>3 DEF f
  <2>5. Len(h) = Len(read') + Unread'
    BY <1>5, <2>3, <2>4
  <2>6. ASSUME NEW i \in 1..Len(read')
        PROVE  read'[i] = h[i]
    <3>1. CASE i = Len(read) + 1
      <4>1. read'[i] = f
        BY <1>5, <3>1
      <4>2. h[i] = f
        BY <2>4, <3>1
      <4> QED
        BY <4>1, <4>2
    <3>2. CASE i # Len(read) + 1
      <4>1. i \in 1..Len(read)
        BY <1>5, <3>2
      <4> QED
        BY <1>5, <2>1, <4>1
    <3> QED
      BY <3>1, <3>2
  <2> QED
    BY <2>3, <2>5, <2>6
<1> QED
  BY <1>6, <1>7, <1>8, <1>9 DEF RxInv, GuestInv

(* Time passes: a frame the firmware is not done with gets no older than    *)
(* the firmware is slow.                                                    *)
LEMMA Passing ==
    ASSUME RxInv, Tick
    PROVE  RxInv'
<1> DEFINE x == Least(rx.since + 1, Gap + setup.firmware)
<1>1. /\ rx.gapIn # 0 /\ rx.dogIn # 0
      /\ rx.since < setup.firmware \/ GuestDone
      /\ rx' = [rx EXCEPT !.since = x, !.gapIn = Down(rx.gapIn), !.dogIn = Down(rx.dogIn)]
      /\ setup' = setup /\ requests' = requests
      /\ isr' = isr /\ woken' = woken /\ read' = read
  <2>1. rx \in RxHalf(requests)
    BY DEF RxInv, RxSound, RxBase
  <2> QED
    BY <2>1 DEF Tick, guest, RxHalf
<1>2. /\ rx.since \in Nat /\ setup.firmware \in Nat /\ requests \in Nat
      /\ rx.since <= Gap + setup.firmware
      /\ RxSound(rx, requests)
  BY Configured DEF RxInv, GuestInv, GuestTypes, RxSound, RxBase, RxHalf
<1>3. x \in Nat /\ x <= Gap + setup.firmware
      /\ (rx.since < setup.firmware => x <= setup.firmware)
  BY <1>2, Limits DEF Least
<1> HIDE DEF x
<1>4. /\ RxSound(rx', requests) /\ rx'.since = x /\ rx'.handed = rx.handed
      /\ rx'.irq = rx.irq /\ rx'.armed = rx.armed /\ rx'.ready = rx.ready
      /\ rx'.queue = rx.queue /\ rx'.backlog = rx.backlog
  <2> DEFINE g == Down(rx.gapIn)
             d == Down(rx.dogIn)
  <2>1. rx \in RxHalf(requests) /\ RxBase(rx, requests) /\ Moving(rx)
    BY <1>2 DEF RxSound, RxBase
  <2>2. rx.gapIn \in Off..Gap /\ rx.dogIn \in Off..Watchdog
    BY <2>1 DEF RxHalf
  (* a timer that is pending stays so *)
  <2>3. /\ g \in Off..Gap /\ (g = Off <=> rx.gapIn = Off)
        /\ d \in Off..Watchdog /\ (d = Off <=> rx.dogIn = Off)
    BY <1>1, <2>2, Limits DEF Down
  <2>4. rx' = [rx EXCEPT !.since = x, !.gapIn = g, !.dogIn = d]
    BY <1>1
  <2> HIDE DEF g, d
  <2>5. /\ rx' \in RxHalf(requests) /\ rx'.since = x /\ rx'.gapIn = g /\ rx'.dogIn = d
        /\ rx'.irq = rx.irq /\ rx'.armed = rx.armed /\ rx'.ready = rx.ready
        /\ rx'.buffer = rx.buffer /\ rx'.pending = rx.pending /\ rx'.queue = rx.queue
        /\ rx'.backlog = rx.backlog /\ rx'.handed = rx.handed /\ rx'.lost = rx.lost
    BY <1>3, <2>1, <2>3, <2>4 DEF RxHalf
  <2>6. RxSound(rx', requests)
    BY <2>1, <2>3, <2>5 DEF RxSound, RxBase, Moving, Accounted, Filled
  <2> QED
    BY <2>5, <2>6
<1>5. RxSound(rx, requests)' /\ BacklogOnlyWhileUnarmed'
  BY <1>1, <1>4 DEF RxInv, RxSound, RxBase, BacklogOnlyWhileUnarmed, CanReceive
<1>6. GuestTypes' /\ rx'.since <= Gap + setup'.firmware
  BY <1>1, <1>3, <1>4 DEF RxInv, GuestInv, GuestTypes
<1>7. Slow'
  BY <1>1, <1>3, <1>4 DEF Slow, GuestDone
<1>8. StaysArmed' /\ Woken'
  BY <1>1, <1>4 DEF RxInv, GuestInv, StaysArmed, Woken
<1>9. Reading'
  BY <1>1, <1>4 DEF RxInv, GuestInv, Reading, Unread, Prompt
<1> QED
  BY <1>5, <1>6, <1>7, <1>8, <1>9 DEF RxInv, GuestInv

(* Every step but the handler's, the task's and time's moves the receive    *)
(* half as above, or not at all.                                            *)
Elsewhere ==
    \/ RequestArrives \/ CosimPoll \/ Timers \/ SetBuffer \/ OpenLink
    \/ SendRecord \/ TxIsr \/ DoneIsr

(* What happens outside the firmware's handler moves the receive half only *)
(* forward, and leaves the firmware where it is.                           *)
LEMMA Moved ==
    ASSUME RxInv, Elsewhere
    PROVE  /\ setup' = setup /\ requests' \in 0..setup.requests /\ requests <= requests'
           /\ Moves(rx, rx', requests') /\ UNCHANGED guest
<1>1. /\ setup.fifo \in BOOLEAN /\ setup.oneShot \in BOOLEAN /\ setup.requests \in Nat
      /\ requests \in 0..setup.requests /\ requests \in Nat
  BY Configured DEF RxInv, GuestInv, GuestTypes
<1>2. RxSound(rx, requests) /\ (rx.backlog # <<>> => ~CanReceive(rx)) /\ rx \in RxHalf(requests)
  BY DEF RxInv, RxSound, RxBase, BacklogOnlyWhileUnarmed, CanReceive
<1>3. SameBuffer(rx, rx) /\ Moves(rx, rx, requests)
  BY <1>2 DEF Moves, Delivers, Hands, SameBuffer, StillArmed
<1>4. CASE RequestArrives
  <2>1. /\ setup' = setup /\ requests' = requests + 1 /\ requests < setup.requests
        /\ rx' = Request(rx, requests + 1) /\ UNCHANGED guest
    BY <1>4 DEF RequestArrives
  <2>2. Moves(rx, rx', requests + 1)
    BY <1>1, <1>2, <2>1, Requested
  <2> QED
    BY <1>1, <2>1, <2>2
<1>5. CASE CosimPoll
  <2>1. setup' = setup /\ requests' = requests /\ rx' = Pump(rx) /\ UNCHANGED guest
    BY <1>5 DEF CosimPoll
  <2>2. Moves(rx, rx', requests)
    BY <1>1, <1>2, <1>3, <2>1, Pumping
  <2> QED
    BY <1>1, <2>1, <2>2
<1>6. CASE Timers
  <2>1. /\ setup' = setup /\ requests' = requests /\ UNCHANGED guest
        /\ \/ rx' = Release([rx EXCEPT !.gapIn = Off])
           \/ rx' = Handover([rx EXCEPT !.dogIn = Off])
           \/ rx' = rx
    BY <1>6 DEF Timers, GapTimer, WatchdogTimer, TxTimer
  <2>2. Moves(rx, rx', requests)
    BY <1>1, <1>2, <1>3, <2>1, Releasing
  <2> QED
    BY <1>1, <2>1, <2>2
<1>7. CASE SetBuffer
  <2> DEFINE t == [rx EXCEPT !.ready = TRUE]
  <2>1. setup' = setup /\ requests' = requests /\ rx' = Pump(t) /\ UNCHANGED guest
    BY <1>7 DEF SetBuffer
  <2>2. /\ t \in RxHalf(requests) /\ t.armed = rx.armed /\ t.buffer = rx.buffer
        /\ t.irq = rx.irq /\ t.pending = rx.pending /\ t.queue = rx.queue
        /\ t.backlog = rx.backlog /\ t.since = rx.since /\ t.dogIn = rx.dogIn
        /\ t.gapIn = rx.gapIn /\ t.handed = rx.handed /\ t.lost = rx.lost
    BY <1>2 DEF RxHalf
  <2> HIDE DEF t
  <2>3. RxSound(t, requests) /\ SameBuffer(rx, t)
    BY <1>2, <2>2 DEF RxSound, RxBase, Moving, Accounted, Filled, SameBuffer
  <2>4. Moves(rx, rx', requests)
    BY <1>1, <2>1, <2>2, <2>3, Pumping
  <2> QED
    BY <1>1, <2>1, <2>4
<1>8. CASE OpenLink
  <2>1. setup' = setup /\ requests' = requests /\ rx' = Arm(rx) /\ UNCHANGED guest
    BY <1>8 DEF OpenLink
  <2>2. Moves(rx, rx', requests)
    BY <1>1, <1>2, <2>1, Arming
  <2> QED
    BY <1>1, <2>1, <2>2
<1>9. CASE SendRecord
  <2>1. setup' = setup /\ requests' = requests /\ (rx' = Handover(rx) \/ rx' = rx) /\ UNCHANGED guest
    BY <1>9 DEF SendRecord
  <2>2. Moves(rx, rx', requests)
    BY <1>1, <1>2, <1>3, <2>1, Releasing
  <2> QED
    BY <1>1, <2>1, <2>2
<1>10. CASE TxIsr \/ DoneIsr
  <2>1. setup' = setup /\ requests' = requests /\ rx' = rx /\ UNCHANGED guest
    BY <1>10 DEF TxIsr, DoneIsr
  <2> QED
    BY <1>1, <1>3, <2>1
<1> QED
  BY <1>4, <1>5, <1>6, <1>7, <1>8, <1>9, <1>10 DEF Elsewhere

(* Every step preserves the invariant of the receive half.                 *)
LEMMA RxStep ==
    ASSUME RxInv, [Next]_vars
    PROVE  RxInv'
<1>1. CASE Elsewhere
  BY <1>1, Moved, Waiting
<1>2. CASE Handler
  BY <1>2, Handling
<1>3. CASE Examine
  BY <1>3, Examining
<1>4. CASE Tick
  BY <1>4, Passing
<1>5. CASE UNCHANGED vars
  <2>1. setup' = setup /\ rx' = rx /\ requests' = requests /\ UNCHANGED guest
    BY <1>5 DEF vars
  <2>2. requests \in 0..setup.requests /\ requests \in Nat
    BY Configured DEF RxInv, GuestInv, GuestTypes
  <2>3. RxSound(rx, requests) /\ (rx.backlog # <<>> => ~CanReceive(rx))
    BY DEF RxInv, BacklogOnlyWhileUnarmed, CanReceive
  <2>4. Moves(rx, rx', requests')
    BY <2>1, <2>3 DEF Moves, Delivers, Hands, SameBuffer, StillArmed
  <2> QED
    BY <2>1, <2>2, <2>4, Waiting
<1> QED
  BY <1>1, <1>2, <1>3, <1>4, <1>5 DEF Next, Elsewhere

(* It holds in every state.                                                *)
LEMMA RxAlways == Spec => []RxInv
  BY RxInit, RxStep, PTL DEF Spec

(* No request lies where nothing will fetch it: a frame in the FIFO has an  *)
(* acknowledge outstanding or a timer, an unacknowledged frame has the      *)
(* watchdog, and the backlog waits only for a receive to be armed.          *)
THEOREM RequestsKeepMoving == Spec => []NothingStuck
<1>1. RxInv => NothingStuck
  BY DEF RxInv, RxSound, RxBase, Moving, NothingStuck, QueueMoves
<1> QED
  BY <1>1, RxAlways, PTL

(* Three sequences one after the other, place by place.                     *)
LEMMA Joined ==
    ASSUME NEW n \in Nat, NEW h \in Seq(1..n), NEW q \in Seq(1..n), NEW b \in Seq(1..n)
    PROVE  LET all == h \o q \o b
           IN  /\ Len(all) = Len(h) + Len(q) + Len(b)
               /\ \A i \in 1..Len(all) :
                     all[i] = IF i <= Len(h) THEN h[i]
                              ELSE IF i <= Len(h) + Len(q) THEN q[i - Len(h)]
                              ELSE b[i - Len(h) - Len(q)]
<1> DEFINE c == h \o q
           all == c \o b
<1>1. /\ c \in Seq(1..n) /\ Len(c) = Len(h) + Len(q)
      /\ \A i \in 1..Len(c) : c[i] = IF i <= Len(h) THEN h[i] ELSE q[i - Len(h)]
  BY ConcatProperties
<1> HIDE DEF c
<1>2. /\ Len(all) = Len(c) + Len(b)
      /\ \A i \in 1..Len(all) : all[i] = IF i <= Len(c) THEN c[i] ELSE b[i - Len(c)]
  <2>1. c \in Seq(1..n)
    BY <1>1
  <2> QED
    BY <2>1, ConcatProperties
<1> HIDE DEF all
<1>3. Len(h) \in Nat /\ Len(q) \in Nat /\ Len(b) \in Nat
  OBVIOUS
<1>4. Len(all) = Len(h) + Len(q) + Len(b)
  BY <1>1, <1>2, <1>3
<1>5. ASSUME NEW i \in 1..Len(all)
      PROVE  all[i] = IF i <= Len(h) THEN h[i]
                      ELSE IF i <= Len(h) + Len(q) THEN q[i - Len(h)]
                      ELSE b[i - Len(h) - Len(q)]
  <2>1. CASE i <= Len(c)
    <3>1. i \in 1..Len(c) /\ i <= Len(h) + Len(q)
      BY <1>1, <1>3, <1>4, <2>1
    <3>2. all[i] = c[i] /\ c[i] = IF i <= Len(h) THEN h[i] ELSE q[i - Len(h)]
      BY <1>1, <1>2, <2>1, <3>1
    <3> QED
      BY <3>1, <3>2
  <2>2. CASE ~(i <= Len(c))
    <3>1. all[i] = b[i - Len(c)] /\ ~(i <= Len(h)) /\ ~(i <= Len(h) + Len(q))
          /\ i - Len(c) = i - Len(h) - Len(q)
      BY <1>1, <1>2, <1>3, <1>4, <2>2
    <3> QED
      BY <3>1
  <2> QED
    BY <2>1, <2>2
<1> QED
  BY <1>4, <1>5 DEF all, c

(* A line is in order from end to end. *)
LEMMA LineInOrder ==
    ASSUME NEW n \in Nat, NEW h \in Seq(1..n), NEW q \in Seq(1..n), NEW b \in Seq(1..n),
           Line(h, q, b)
    PROVE  LET all == h \o q \o b
           IN  \A i \in 1..(Len(all) - 1) : all[i] < all[i + 1]
<1> DEFINE all == h \o q \o b
           lh == Len(h)
           lq == Len(q)
           lb == Len(b)
           At(i) == IF i <= lh THEN h[i] ELSE IF i <= lh + lq THEN q[i - lh]
                    ELSE b[i - lh - lq]
<1>1. Len(all) = lh + lq + lb /\ \A i \in 1..Len(all) : all[i] = At(i)
  BY Joined
<1>2. lh \in Nat /\ lq \in Nat /\ lb \in Nat
      /\ DOMAIN h = 1..lh /\ DOMAIN q = 1..lq /\ DOMAIN b = 1..lb
  OBVIOUS
<1> HIDE DEF all, lh, lq, lb
<1>3. ASSUME NEW i \in 1..(lh + lq + lb - 1)
      PROVE  At(i) < At(i + 1)
  <2>1. CASE i + 1 <= lh
    <3>1. i \in DOMAIN h /\ i + 1 \in DOMAIN h /\ i < i + 1
      BY <1>2, <2>1
    <3>2. At(i) = h[i] /\ At(i + 1) = h[i + 1]
      BY <1>2, <2>1
    <3> HIDE DEF At
    <3> QED
      BY <3>1, <3>2 DEF Line, Rising
  <2>2. CASE i = lh /\ lq > 0
    <3>1. i \in DOMAIN h /\ 1 \in DOMAIN q
      BY <1>2, <2>2
    <3>2. At(i) = h[i] /\ At(i + 1) = q[1]
      BY <1>2, <2>2
    <3> HIDE DEF At
    <3> QED
      BY <3>1, <3>2 DEF Line, Before
  <2>3. CASE i = lh /\ lq = 0
    <3>1. i \in DOMAIN h /\ 1 \in DOMAIN b
      BY <1>2, <2>3
    <3>2. At(i) = h[i] /\ At(i + 1) = b[1]
      BY <1>2, <2>3
    <3> HIDE DEF At
    <3> QED
      BY <3>1, <3>2 DEF Line, Before
  <2>4. CASE i > lh /\ i + 1 <= lh + lq
    <3>1. i - lh \in DOMAIN q /\ i + 1 - lh \in DOMAIN q /\ i - lh < i + 1 - lh
      BY <1>2, <2>4
    <3>2. At(i) = q[i - lh] /\ At(i + 1) = q[i + 1 - lh]
      BY <1>2, <2>4
    <3> HIDE DEF At
    <3> QED
      BY <3>1, <3>2 DEF Line, Rising
  <2>5. CASE i > lh /\ i = lh + lq
    <3>1. i - lh \in DOMAIN q /\ 1 \in DOMAIN b
      BY <1>2, <2>5
    <3>2. At(i) = q[i - lh] /\ At(i + 1) = b[1]
      BY <1>2, <2>5
    <3> HIDE DEF At
    <3> QED
      BY <3>1, <3>2 DEF Line, Before
  <2>6. CASE i > lh + lq
    <3>1. i - lh - lq \in DOMAIN b /\ i + 1 - lh - lq \in DOMAIN b
          /\ i - lh - lq < i + 1 - lh - lq
      BY <1>2, <2>6
    <3>2. At(i) = b[i - lh - lq] /\ At(i + 1) = b[i + 1 - lh - lq]
      BY <1>2, <2>6, SMTT(40)
    <3> HIDE DEF At
    <3> QED
      BY <3>1, <3>2 DEF Line, Rising
  <2> QED
    BY <1>2, <2>1, <2>2, <2>3, <2>4, <2>5, <2>6
<1>4. ASSUME NEW i \in 1..(Len(all) - 1)
      PROVE  all[i] < all[i + 1]
  <2>1. i \in 1..Len(all) /\ i + 1 \in 1..Len(all) /\ i \in 1..(lh + lq + lb - 1)
    BY <1>1, <1>2
  <2> HIDE DEF At
  <2> QED
    BY <1>1, <1>3, <2>1
<1> QED
  BY <1>4 DEF all

(* What MAIN is asked its task examines in the order asked, nothing twice   *)
(* and nothing lost but by a full FIFO or a full backlog, if the firmware   *)
(* is done with a frame before the gap is up.                               *)
THEOREM RequestsAreReadInOrder == Spec => []ReadInOrder
<1>1. RxInv => ReadInOrder
  <2> SUFFICES ASSUME RxInv PROVE InOrder /\ EachReadOnce
    BY DEF ReadInOrder
  <2>1. requests \in Nat /\ read \in Seq(1..requests) /\ woken \in Nat
    BY Configured DEF RxInv, GuestInv, GuestTypes
  <2> DEFINE h == rx.handed
             q == rx.queue
             b == rx.backlog
  <2>2. /\ h \in Seq(1..requests) /\ q \in Seq(1..requests) /\ b \in Seq(1..requests)
        /\ Line(h, q, b) /\ Len(h) + Len(q) + Len(b) + rx.lost = requests
    BY DEF RxInv, RxSound, RxBase, RxHalf, Accounted
  <2>3. InOrder
    <3> HIDE DEF h, q, b
    <3>1. \A i \in 1..(Len(h \o q \o b) - 1) : (h \o q \o b)[i] < (h \o q \o b)[i + 1]
      BY <2>1, <2>2, LineInOrder
    <3>2. Len(h \o q \o b) + rx.lost = requests
      <4>1. Len(h \o q \o b) = Len(h) + Len(q) + Len(b)
        BY <2>1, <2>2, Joined
      <4> QED
        BY <2>2, <4>1
    <3> QED
      BY <3>1, <3>2 DEF InOrder, h, q, b
  <2>4. ASSUME Prompt, setup.fifo
        PROVE  Len(read) <= Len(h) /\ \A i \in 1..Len(read) : read[i] = h[i]
    <3>1. Len(h) = Len(read) + Unread /\ \A i \in 1..Len(read) : read[i] = h[i]
      BY <2>4 DEF RxInv, GuestInv, Reading
    <3>2. Unread \in Nat /\ Len(read) \in Nat
      BY <2>1 DEF Unread, One
    <3> QED
      BY <3>1, <3>2
  <2> QED
    BY <2>3, <2>4 DEF EachReadOnce
<1> QED
  BY <1>1, RxAlways, PTL

(* What HandedInTime says of a step.                                        *)
InTime ==
    rx'.handed # rx.handed =>
        /\ setup.fifo => rx.since >= Gap /\ Len(rx'.handed) = Len(rx.handed) + 1
        /\ Prompt /\ ~setup.oneShot => rx.armed \/ rx'.armed

(* A step that only moves the line hands over a frame no sooner than the    *)
(* gap after the last, and one at a time.                                   *)
LEMMA HandsInTime ==
    ASSUME RxInv, NEW n \in Nat, NEW t, t.handed = rx.handed, t.since = rx.since,
           t.armed = rx.armed, t.queue = rx.queue, Moves(t, rx', n)
    PROVE  InTime
<1>1. /\ setup.fifo \in BOOLEAN /\ setup.oneShot \in BOOLEAN /\ setup.firmware \in Nat
      /\ rx.since \in Nat
  BY Configured DEF RxInv, GuestInv, GuestTypes, RxSound, RxBase, RxHalf
<1>2. /\ Delivers(t, rx') /\ rx' \in RxHalf(n)
      /\ ~setup.oneShot => StillArmed(t, rx')
  BY DEF Moves, RxSound, RxBase
<1>3. setup.fifo => \/ rx'.handed = rx.handed
                    \/ rx.since >= Gap /\ Len(rx'.handed) = Len(rx.handed) + 1
  BY <1>2, Longer
<1>4. ASSUME Prompt, ~setup.oneShot, rx'.handed # rx.handed
      PROVE  rx.armed \/ rx'.armed
  <2>1. CASE rx'.armed
    BY <2>1
  <2>2. CASE ~rx'.armed
    <3>1. rx'.armed = rx.armed /\ rx.queue # <<>>
      BY <1>2, <1>4, <2>2 DEF StillArmed
    <3>2. setup.fifo
      BY <3>1 DEF RxInv, RxSound, RxBase
    <3>3. rx.since >= Gap
      BY <1>3, <1>4, <3>2
    <3>4. GuestDone
      BY <1>1, <1>4, <3>2, <3>3, Limits DEF RxInv, GuestInv, Slow, Prompt
    <3> QED
      BY <1>4, <3>1, <3>4 DEF GuestDone, RxInv, GuestInv, StaysArmed
  <2> QED
    BY <2>1, <2>2
<1> QED
  BY <1>3, <1>4 DEF InTime

(* Two frames never go into the buffer closer than the gap, and a prompt    *)
(* firmware is never handed one while its receive is disarmed: nothing but  *)
(* the gap keeps the FIFO from handing one over inside the re-arm.          *)
THEOREM FramesAreHandedInTime == Spec => HandedInTime
<1>1. RxInv /\ [Next]_vars => InTime
  <2> SUFFICES ASSUME RxInv, [Next]_vars PROVE InTime
    OBVIOUS
  <2>1. /\ setup \in Setups /\ setup.oneShot \in BOOLEAN /\ setup.fifo \in BOOLEAN
        /\ requests \in Nat /\ setup.requests \in Nat
        /\ RxSound(rx, requests) /\ (rx.backlog # <<>> => ~CanReceive(rx))
    BY Configured DEF RxInv, GuestInv, GuestTypes, BacklogOnlyWhileUnarmed, CanReceive
  <2>2. CASE Elsewhere
    <3>1. Moves(rx, rx', requests') /\ requests' \in Nat
      BY <2>1, <2>2, Moved
    <3> QED
      BY <3>1, HandsInTime
  <2>3. CASE IsrAcknowledge
    <3> DEFINE t == Acked(rx)
    <3>1. /\ Moves(t, rx', requests) /\ t.handed = rx.handed
          /\ t.since = rx.since /\ t.armed = rx.armed /\ t.queue = rx.queue
      BY <2>1, <2>3, Acknowledging DEF IsrAcknowledge
    <3> HIDE DEF t
    <3> QED
      BY <2>1, <3>1, HandsInTime
  <2>4. CASE IsrArm
    <3>1. Moves(rx, rx', requests)
      BY <2>1, <2>4, Arming DEF IsrArm
    <3> QED
      BY <2>1, <3>1, HandsInTime
  <2>5. CASE IsrDisarm \/ Tick \/ Examine \/ UNCHANGED vars
    <3>1. rx \in RxHalf(requests)
      BY <2>1 DEF RxSound, RxBase
    <3>2. rx'.handed = rx.handed
      BY <2>5, <3>1 DEF IsrDisarm, Disarm, Tick, Examine, vars, RxHalf
    <3> QED
      BY <3>2 DEF InTime
  <2> QED
    BY <2>2, <2>3, <2>4, <2>5 DEF Next, Elsewhere, Handler
<1>2. RxInv /\ [Next]_vars => [rx'.handed # rx.handed =>
          /\ setup.fifo => rx.since >= Gap /\ Len(rx'.handed) = Len(rx.handed) + 1
          /\ Prompt /\ ~setup.oneShot => rx.armed \/ rx'.armed]_vars
  BY <1>1 DEF InTime
<1> QED
  BY <1>2, RxAlways, PTL DEF Spec, HandedInTime
-----------------------------------------------------------------------------
(* How far the transmit half's numbers go. *)
TxBounds ==
    /\ tx.inFlight \in Off..setup.txTime
    /\ busy \in BOOLEAN
    /\ records.record + records.nothing <= setup.records

TxTyped == setup \in Setups /\ TxInv /\ TxBounds

(* The transmit half starts typed and in its bounds.                       *)
LEMMA TxTypedInit == Init => TxTyped
<1> SUFFICES ASSUME Init PROVE TxTyped
  OBVIOUS
<1>1. setup \in Setups /\ busy = FALSE
      /\ tx = [start |-> FALSE, inFlight |-> Off, irq |-> FALSE, gate |-> FALSE,
               mode |-> FALSE, wire |-> 0]
      /\ records = [record |-> 0, nothing |-> 0]
  BY DEF Init
<1>2. setup.txTime \in Nat /\ setup.records \in Nat
  BY <1>1, Configured
<1>3. TxBounds
  <2>1. tx.inFlight = Off /\ records.record = 0 /\ records.nothing = 0
    BY <1>1
  <2>2. busy \in BOOLEAN
    BY <1>1
  <2>3. tx.inFlight \in Off..setup.txTime /\ records.record + records.nothing <= setup.records
    BY <1>2, <2>1, Limits
  <2> QED
    BY <2>2, <2>3 DEF TxBounds
<1>4. tx \in TxHalf /\ tx.start = FALSE /\ tx.inFlight = Off /\ tx.wire = 0
  BY <1>1, Limits DEF TxHalf
<1>5. records \in [{"record", "nothing"} -> Nat] /\ records.record = 0
  BY <1>1
<1> QED
  BY <1>1, <1>2, <1>3, <1>4, <1>5 DEF TxTyped, TxInv, Started

(* Every step keeps it typed, and its timer and counters in their bounds.  *)
LEMMA TxTypedStep ==
    ASSUME TxTyped, [Next]_vars
    PROVE  TxTyped'
<1>1. TxInv'
  BY TxStep DEF TxTyped
<1>2. /\ setup \in Setups /\ setup' = setup /\ setup.txTime \in Nat /\ setup.records \in Nat
  BY Configured DEF TxTyped, Next, vars, RequestArrives, CosimPoll, Timers, GapTimer,
     WatchdogTimer, TxTimer, Tick, SetBuffer, OpenLink, Handler, IsrAcknowledge, IsrDisarm,
     IsrArm, Examine, SendRecord, TxIsr, DoneIsr
<1>3. /\ tx \in TxHalf /\ records \in [{"record", "nothing"} -> Nat]
      /\ tx.inFlight \in Off..setup.txTime /\ busy \in BOOLEAN
      /\ records.record + records.nothing <= setup.records
  BY DEF TxTyped, TxInv, Started, TxBounds
<1>4. CASE \/ RequestArrives \/ CosimPoll \/ GapTimer \/ WatchdogTimer
           \/ SetBuffer \/ OpenLink \/ Handler \/ Examine \/ UNCHANGED vars
  <2>1. tx' = tx /\ busy' = busy /\ records' = records
    BY <1>4 DEF RequestArrives, CosimPoll, GapTimer, WatchdogTimer, SetBuffer, OpenLink,
                Handler, IsrAcknowledge, IsrDisarm, IsrArm, Examine, sender, vars
  <2> QED
    BY <1>1, <1>2, <1>3, <2>1 DEF TxTyped, TxBounds
<1>5. CASE TxTimer
  <2>1. tx'.inFlight = Off /\ busy' = busy /\ records' = records
    BY <1>3, <1>5 DEF TxTimer, Complete, sender, TxHalf
  <2> QED
    BY <1>1, <1>2, <1>3, <2>1, Limits DEF TxTyped, TxBounds
<1>6. CASE Tick
  <2>1. tx' = [tx EXCEPT !.inFlight = Down(tx.inFlight)] /\ tx.inFlight # 0
        /\ busy' = busy /\ records' = records
    BY <1>6 DEF Tick, sender
  <2>2. tx'.inFlight = Down(tx.inFlight)
    BY <1>3, <2>1 DEF TxHalf
  <2> QED
    BY <1>1, <1>2, <1>3, <2>1, <2>2, Limits DEF TxTyped, TxBounds, Down
<1>7. CASE SendRecord
  <2>1. PICK kind \in {"record", "nothing"} :
          /\ records' = [records EXCEPT ![kind] = @ + 1]
          /\ tx' = ArmTransmit([tx EXCEPT !.mode = FALSE], kind)
    BY <1>7 DEF SendRecord
  <2>2. busy' = TRUE /\ records.record + records.nothing < setup.records
    BY <1>7 DEF SendRecord
  <2>3. records'.record + records'.nothing <= setup.records
    <3>1. records.record \in Nat /\ records.nothing \in Nat
      BY <1>3
    <3>2. CASE kind = "record"
      <4>1. records'.record = records.record + 1 /\ records'.nothing = records.nothing
        BY <1>3, <2>1, <3>2
      <4> QED
        BY <1>2, <2>2, <3>1, <4>1
    <3>3. CASE kind = "nothing"
      <4>1. records'.record = records.record /\ records'.nothing = records.nothing + 1
        BY <1>3, <2>1, <3>3
      <4> QED
        BY <1>2, <2>2, <3>1, <4>1
    <3> QED
      BY <3>2, <3>3
  <2>4. tx'.inFlight \in Off..setup.txTime
    <3>1. \A t \in TxHalf : Complete(t).inFlight = Off /\ Complete(t) \in TxHalf
      BY Completed DEF Complete, TxHalf, Started
    <3> DEFINE t == [tx EXCEPT !.mode = FALSE]
               f == Flush(t)
               g == [f EXCEPT !.start = TRUE]
               w == [g EXCEPT !.wire = @ + 1]
    <3>2. t \in TxHalf /\ t.inFlight = tx.inFlight
      BY <1>3 DEF TxHalf
    <3> HIDE DEF t
    <3>3. f \in TxHalf /\ f.inFlight \in Off..setup.txTime
      BY <1>2, <1>3, <3>1, <3>2, Limits DEF Flush
    <3> HIDE DEF f
    <3>4. g \in TxHalf /\ w \in TxHalf
      <4>1. g \in TxHalf
        BY <3>3 DEF TxHalf
      <4> HIDE DEF g
      <4>2. g.wire + 1 \in Nat
        BY <4>1 DEF TxHalf
      <4> QED
        BY <4>1, <4>2 DEF TxHalf
    <3>5. tx' = IF f.start THEN f ELSE Transmit(g, kind)
      BY <2>1 DEF ArmTransmit, f, t
    <3> HIDE DEF g
    <3>6. CASE f.start
      BY <3>3, <3>5, <3>6
    <3>7. CASE ~f.start /\ kind = "record" /\ setup.txTime > 0
      <4>1. tx' = [g EXCEPT !.inFlight = setup.txTime, !.wire = @ + 1]
        BY <3>5, <3>7 DEF Transmit
      <4>2. tx'.inFlight = setup.txTime
        BY <3>4, <4>1 DEF TxHalf
      <4> QED
        BY <1>2, <4>2, Limits
    <3>8. CASE ~f.start /\ ~(kind = "record" /\ setup.txTime > 0)
      <4>1. tx' = Complete(IF kind = "record" THEN w ELSE g)
        BY <3>5, <3>8 DEF Transmit
      <4> HIDE DEF w
      <4>2. tx'.inFlight = Off
        BY <3>1, <3>4, <4>1
      <4> QED
        BY <1>2, <4>2, Limits
    <3> QED
      BY <3>6, <3>7, <3>8
  <2> QED
    BY <1>1, <1>2, <2>2, <2>3, <2>4 DEF TxTyped, TxBounds
<1>8. CASE TxIsr \/ DoneIsr
  <2>1. tx'.inFlight = tx.inFlight /\ busy' \in BOOLEAN /\ records' = records
    BY <1>3, <1>8 DEF TxIsr, DoneIsr, sender, TxHalf
  <2> QED
    BY <1>1, <1>2, <1>3, <2>1 DEF TxTyped, TxBounds
<1> QED
  BY <1>4, <1>5, <1>6, <1>7, <1>8 DEF Next, Timers

(* A sequence over a set is one over a larger set. *)
LEMMA SeqWithin ==
    ASSUME NEW S, NEW T, S \subseteq T, NEW s \in Seq(S)
    PROVE  s \in Seq(T)
<1>1. \A i \in 1..Len(s) : s[i] \in T
  OBVIOUS
<1>2. s = [i \in 1..Len(s) |-> s[i]] /\ Len(s) \in Nat
  OBVIOUS
<1> QED
  BY <1>1, <1>2

(* Both halves, the firmware and what is on the way have their types and    *)
(* keep to their limits: the FIFO, the backlog, the timers.                 *)
THEOREM LinkTypes == Spec => []TypeOK
<1>1. RxInv /\ TxTyped => TypeOK
  <2> SUFFICES ASSUME RxInv, TxTyped PROVE TypeOK
    OBVIOUS
  <2>1. /\ setup \in Setups /\ requests \in 0..setup.requests /\ requests \in Nat
        /\ setup.requests \in Nat /\ setup.records \in Nat /\ setup.firmware \in Nat
        /\ setup.txTime \in Nat
        /\ isr \in {"idle", "acked", "disarmed"} /\ woken \in Nat /\ read \in Seq(1..requests)
    BY Configured DEF RxInv, GuestInv, GuestTypes
  <2>2. 1..requests \subseteq Requests
    BY <2>1 DEF Requests
  <2>3. /\ rx \in RxHalf(requests) /\ rx.since <= Gap + setup.firmware
        /\ Len(rx.queue) <= QueueMax /\ Len(rx.backlog) <= BacklogMax
        /\ Len(rx.handed) + Len(rx.queue) + Len(rx.backlog) + rx.lost = requests
    BY DEF RxInv, GuestInv, RxSound, RxBase, Accounted
  <2>4. /\ rx.buffer \in 0..requests /\ rx.queue \in Seq(1..requests)
        /\ rx.backlog \in Seq(1..requests) /\ rx.handed \in Seq(1..requests)
        /\ rx.since \in Nat /\ rx.lost \in Nat
    BY <2>3 DEF RxHalf
  <2>5. /\ rx.queue \in Seq(Requests) /\ rx.backlog \in Seq(Requests)
        /\ rx.handed \in Seq(Requests) /\ read \in Seq(Requests)
    BY <2>1, <2>2, <2>4, SeqWithin
  <2>6. rx.buffer \in Requests \cup {0}
    <3>1. rx.buffer = 0 \/ rx.buffer \in 1..requests
      BY <2>1, <2>4
    <3> QED
      BY <2>2, <3>1
  <2>7. rx.lost \in 0..setup.requests
    <3>1. Len(rx.handed) \in Nat /\ Len(rx.queue) \in Nat /\ Len(rx.backlog) \in Nat
      BY <2>4
    <3> DEFINE h == Len(rx.handed)
               q == Len(rx.queue)
               b == Len(rx.backlog)
    <3>2. h \in Nat /\ q \in Nat /\ b \in Nat /\ h + q + b + rx.lost = requests
      BY <2>3, <3>1
    <3> HIDE DEF h, q, b
    <3> QED
      BY <2>1, <2>4, <3>2
  <2>8. rx.since \in 0..(Gap + setup.firmware)
    BY <2>1, <2>3, <2>4, Limits
  <2>9. rx \in [armed : BOOLEAN, ready : BOOLEAN, buffer : Requests \cup {0},
                status : BOOLEAN, irq : BOOLEAN, pending : BOOLEAN,
                queue : Seq(Requests), backlog : Seq(Requests),
                since : 0..(Gap + setup.firmware),
                gapIn : Off..Gap, dogIn : Off..Watchdog,
                handed : Seq(Requests), lost : 0..setup.requests]
    BY <2>3, <2>5, <2>6, <2>7, <2>8 DEF RxHalf
  <2>10. /\ tx \in TxHalf /\ records \in [{"record", "nothing"} -> Nat]
         /\ tx.inFlight \in Off..setup.txTime /\ busy \in BOOLEAN
         /\ records.record + records.nothing <= setup.records /\ tx.wire = records.record
    BY DEF TxTyped, TxInv, Started, TxBounds
  <2>11. \A kind \in {"record", "nothing"} : records[kind] \in 0..setup.records
    <3>1. records["record"] \in Nat /\ records["nothing"] \in Nat
      BY <2>10
    <3> QED
      BY <2>1, <2>10, <3>1
  <2>12. records \in [{"record", "nothing"} -> 0..setup.records]
    BY <2>10, <2>11
  <2>13. tx.wire \in 0..setup.records
    BY <2>10, <2>11
  <2>14. tx \in [start : BOOLEAN, inFlight : Off..setup.txTime, irq : BOOLEAN,
                 gate : BOOLEAN, mode : BOOLEAN, wire : 0..setup.records]
    BY <2>10, <2>13 DEF TxHalf
  <2> QED
    BY <2>1, <2>3, <2>5, <2>9, <2>10, <2>12, <2>14 DEF TypeOK
<1>2. Spec => []TxTyped
  BY TxTypedInit, TxTypedStep, PTL DEF Spec
<1> QED
  BY <1>1, <1>2, RxAlways, PTL
=============================================================================
