-------------------------- MODULE QmpClientProofs --------------------------
(***************************************************************************)
(* AnswersOwn for any number of commands and events.  What makes it hold   *)
(* is the order of the stream: the answers not yet read, then the commands *)
(* not yet carried out, are rising numbers without a gap up to the last    *)
(* command, and from the first command that was lost on there is always    *)
(* one answer more unread than there should be.                            *)
(***************************************************************************)
EXTENDS QmpClient, TLAPS

Kinds == {"return", "error", "timeout", "foreign", "closed"}

Message == {"event", "return", "error"} \X Nat
IsReply(m) == m[1] # "event"

Replies(s) == {s[p][2] : p \in {q \in DOMAIN s : IsReply(s[q])}}
Numbers(s) == {s[i] : i \in DOMAIN s}

Unread == Replies(pending)
Owed == Unread \cup Numbers(asked)

Lost(i) == i \in DOMAIN outcome /\ outcome[i] \in {"timeout", "foreign"}
AnyLost == \E i \in DOMAIN outcome : Lost(i)

Typed ==
    /\ sequence \in Nat /\ awaiting \in BOOLEAN /\ qmpOpen \in BOOLEAN
    /\ asked \in Seq(Nat)
    /\ pending \in Seq(Message)
    /\ outcome \in Seq(Kinds) /\ given \in Seq(Nat)
    /\ Len(given) = Len(outcome)
    /\ sequence = Len(outcome) + (IF awaiting THEN 1 ELSE 0)

(* The stream is in order: what is unread comes before what is unasked.    *)
Ordered ==
    /\ \A i, j \in DOMAIN asked : i < j => asked[i] < asked[j]
    /\ \A p, q \in DOMAIN pending :
          p < q /\ IsReply(pending[p]) /\ IsReply(pending[q]) =>
              pending[p][2] < pending[q][2]
    /\ \A p \in DOMAIN pending, i \in DOMAIN asked :
          IsReply(pending[p]) => pending[p][2] < asked[i]

(* What is owed was asked, and what is unread was carried out.             *)
Sound ==
    /\ Owed \subseteq 1..sequence
    /\ Unread \subseteq carried
    /\ ~qmpOpen => asked = <<>>

(* While the connection stands, nothing after something owed is missing.   *)
Complete ==
    qmpOpen =>
        /\ \A n \in Owed, m \in 1..sequence : n < m => m \in Owed
        /\ awaiting => sequence \in Owed
        /\ AnyLost /\ ~awaiting => sequence \in Owed
        /\ AnyLost /\ awaiting => sequence - 1 \in Owed

(* Once a command has been lost, the answer to the one that waits is       *)
(* behind another; before, there is no other.                              *)
Behind ==
    /\ AnyLost /\ awaiting /\ sequence \in Unread => sequence - 1 \in Unread
    /\ ~AnyLost => \A n \in Owed : n = sequence /\ awaiting
    /\ \A i \in DOMAIN outcome :
          outcome[i] = "foreign" =>
              \E j \in DOMAIN outcome : j < i /\ outcome[j] = "timeout"

Returned ==
    \A i \in DOMAIN outcome :
        outcome[i] \in {"return", "error"} =>
            given[i] = i /\ i \in carried /\ \A j \in DOMAIN outcome : Lost(j) => j > i

Inv == Typed /\ Ordered /\ Sound /\ Complete /\ Behind /\ Returned

-----------------------------------------------------------------------------
(* The set of the numbers on answers, pointwise.                            *)
LEMMA ReplyIn ==
    ASSUME NEW s, NEW n
    PROVE  n \in Replies(s) <=> \E p \in DOMAIN s : IsReply(s[p]) /\ n = s[p][2]
  BY DEF Replies

(* The set of a sequence's elements, pointwise.                             *)
LEMMA NumberIn ==
    ASSUME NEW s, NEW n
    PROVE  n \in Numbers(s) <=> \E p \in DOMAIN s : n = s[p]
  BY DEF Numbers

(* The numbers on a stream that grows, and on one that is read. *)
LEMMA RepliesAppend ==
    ASSUME NEW s \in Seq(Message), NEW m \in Message, NEW n
    PROVE  n \in Replies(Append(s, m)) <=>
              n \in Replies(s) \/ (IsReply(m) /\ n = m[2])
<1> DEFINE t == Append(s, m)
<1>1. /\ DOMAIN t = DOMAIN s \cup {Len(s) + 1} /\ t[Len(s) + 1] = m
      /\ \A p \in DOMAIN s : t[p] = s[p]
  OBVIOUS
<1> HIDE DEF t
<1>2. n \in Replies(t) <=> n \in Replies(s) \/ (IsReply(m) /\ n = m[2])
  BY <1>1, ReplyIn
<1> QED
  BY <1>2 DEF t

(* What is in a tail was one place further on in the sequence.              *)
LEMMA TailPositions ==
    ASSUME NEW S, NEW s \in Seq(S), s # <<>>
    PROVE  /\ \A p \in DOMAIN Tail(s) : p + 1 \in DOMAIN s /\ s[p + 1] = Tail(s)[p]
           /\ \A p \in DOMAIN s :
                 p = 1 \/ (p - 1 \in DOMAIN Tail(s) /\ Tail(s)[p - 1] = s[p])
           /\ 1 \in DOMAIN s /\ s[1] = Head(s)
  OBVIOUS

(* Reading a line takes its answer, if it is one, out of the stream.        *)
LEMMA RepliesTail ==
    ASSUME NEW s \in Seq(Message), s # <<>>, NEW n
    PROVE  n \in Replies(s) <=>
              n \in Replies(Tail(s)) \/ (IsReply(Head(s)) /\ n = Head(s)[2])
<1> DEFINE t == Tail(s)
           h == Head(s)
<1>1. /\ \A p \in DOMAIN t : p + 1 \in DOMAIN s /\ s[p + 1] = t[p]
      /\ \A p \in DOMAIN s : p = 1 \/ (p - 1 \in DOMAIN t /\ t[p - 1] = s[p])
      /\ 1 \in DOMAIN s /\ s[1] = h
  BY TailPositions
<1> HIDE DEF t, h
<1>2. n \in Replies(s) <=> n \in Replies(t) \/ (IsReply(h) /\ n = h[2])
  <2>1. n \in Replies(s) => n \in Replies(t) \/ (IsReply(h) /\ n = h[2])
    BY <1>1, ReplyIn
  <2>2. n \in Replies(t) \/ (IsReply(h) /\ n = h[2]) => n \in Replies(s)
    BY <1>1, ReplyIn
  <2> QED
    BY <2>1, <2>2
<1> QED
  BY <1>2 DEF t, h

(* A request joins those the monitor has yet to carry out.                  *)
LEMMA NumbersAppend ==
    ASSUME NEW s \in Seq(Nat), NEW k \in Nat, NEW n
    PROVE  n \in Numbers(Append(s, k)) <=> n \in Numbers(s) \/ n = k
<1> DEFINE t == Append(s, k)
<1>1. /\ DOMAIN t = DOMAIN s \cup {Len(s) + 1} /\ t[Len(s) + 1] = k
      /\ \A p \in DOMAIN s : t[p] = s[p]
  OBVIOUS
<1> HIDE DEF t
<1>2. n \in Numbers(t) <=> n \in Numbers(s) \/ n = k
  BY <1>1, NumberIn
<1> QED
  BY <1>2 DEF t

(* The monitor takes the first request.                                     *)
LEMMA NumbersTail ==
    ASSUME NEW s \in Seq(Nat), s # <<>>, NEW n
    PROVE  n \in Numbers(s) <=> n \in Numbers(Tail(s)) \/ n = Head(s)
<1> DEFINE t == Tail(s)
           h == Head(s)
<1>1. /\ \A p \in DOMAIN t : p + 1 \in DOMAIN s /\ s[p + 1] = t[p]
      /\ \A p \in DOMAIN s : p = 1 \/ (p - 1 \in DOMAIN t /\ t[p - 1] = s[p])
      /\ 1 \in DOMAIN s /\ s[1] = h
  BY TailPositions
<1> HIDE DEF t, h
<1>2. n \in Numbers(s) <=> n \in Numbers(t) \/ n = h
  <2>1. n \in Numbers(s) => n \in Numbers(t) \/ n = h
    BY <1>1, NumberIn
  <2>2. n \in Numbers(t) \/ n = h => n \in Numbers(s)
    BY <1>1, NumberIn
  <2> QED
    BY <2>1, <2>2
<1> QED
  BY <1>2 DEF t, h
-----------------------------------------------------------------------------
(* Nothing has been asked on a new connection.                              *)
LEMMA InitInv == QmpInit => Inv
<1> SUFFICES ASSUME QmpInit PROVE Inv
  OBVIOUS
<1>1. Replies(<<>>) = {} /\ Numbers(<<>>) = {}
  BY ReplyIn, NumberIn
<1>2. Owed = {} /\ Unread = {}
  BY <1>1 DEF QmpInit, Owed, Unread
<1>3. Typed
  <2>1. /\ asked = <<>> /\ pending = <<>> /\ outcome = <<>> /\ given = <<>>
        /\ sequence = 0 /\ awaiting = FALSE /\ qmpOpen = TRUE
    BY DEF QmpInit
  <2>2. \A S : <<>> \in Seq(S)
    OBVIOUS
  <2>3. Len(given) = Len(outcome) /\ sequence = Len(outcome) + (IF awaiting THEN 1 ELSE 0)
    BY <2>1
  <2>4. sequence \in Nat /\ awaiting \in BOOLEAN /\ qmpOpen \in BOOLEAN
    BY <2>1
  <2> QED
    BY <2>1, <2>2, <2>3, <2>4, Zenon DEF Typed
<1>4. Ordered /\ Sound
  BY <1>2 DEF QmpInit, Ordered, Sound
<1>5. ~AnyLost
  BY DEF QmpInit, AnyLost
<1>6. Complete /\ Behind /\ Returned
  BY <1>2, <1>5 DEF QmpInit, Complete, Behind, Returned
<1> QED
  BY <1>3, <1>4, <1>6 DEF Inv

(* A command takes the next number, which nothing in the stream carries.    *)
LEMMA AskInv ==
    ASSUME Inv, AskMonitor
    PROVE  Inv'
<1>1. /\ sequence' = sequence + 1 /\ awaiting' = TRUE /\ qmpOpen /\ ~awaiting
      /\ asked' = Append(asked, sequence + 1)
      /\ UNCHANGED <<pending, carried, outcome, given, qmpOpen>>
  BY DEF AskMonitor
<1>2. Typed'
  BY <1>1 DEF Inv, Typed
<1>3. \A n : n \in Owed' <=> n \in Owed \/ n = sequence + 1
  BY <1>1, NumbersAppend DEF Inv, Typed, Owed, Unread
<1>4. Unread' = Unread /\ (AnyLost' <=> AnyLost)
  BY <1>1 DEF Unread, AnyLost, Lost
<1>5. \A p \in DOMAIN pending : IsReply(pending[p]) => pending[p][2] <= sequence
  BY ReplyIn DEF Inv, Sound, Owed, Unread
<1>6. \A i \in DOMAIN asked : asked[i] <= sequence
  BY NumberIn DEF Inv, Sound, Owed
<1>7. /\ DOMAIN asked' = 1..(Len(asked) + 1) /\ DOMAIN asked = 1..Len(asked)
      /\ asked'[Len(asked) + 1] = sequence + 1 /\ Len(asked) \in Nat
      /\ \A i \in DOMAIN asked : asked'[i] = asked[i]
      /\ asked \in Seq(Nat) /\ sequence \in Nat
  BY <1>1 DEF Inv, Typed
<1>8. Ordered'
  <2>1. \A i, j \in DOMAIN asked' : i < j => asked'[i] < asked'[j]
    BY <1>6, <1>7, SMTT(40) DEF Inv, Ordered
  <2>2. \A p \in DOMAIN pending, i \in DOMAIN asked' :
          IsReply(pending[p]) => pending[p][2] < asked'[i]
    <3> SUFFICES ASSUME NEW p \in DOMAIN pending, NEW i \in DOMAIN asked',
                        IsReply(pending[p])
                 PROVE  pending[p][2] < asked'[i]
      OBVIOUS
    <3>1. pending[p][2] \in Nat
      BY DEF Inv, Typed, Message
    <3> QED
      BY <1>5, <1>7, <3>1 DEF Inv, Ordered
  <2> QED
    BY <1>1, <2>1, <2>2 DEF Inv, Ordered
<1>9. Sound'
  <2>1. Owed' \subseteq 1..sequence'
    <3>1. Owed \subseteq 1..sequence /\ sequence \in Nat
      BY <1>7 DEF Inv, Sound
    <3>2. ASSUME NEW n \in Owed'
          PROVE  n \in 1..(sequence + 1)
      <4>1. CASE n = sequence + 1
        BY <3>1, <4>1
      <4>2. CASE n \in Owed
        BY <3>1, <4>2
      <4> QED
        BY <1>3, <4>1, <4>2
    <3> QED
      BY <1>1, <3>2
  <2> QED
    BY <1>1, <1>4, <2>1 DEF Inv, Sound
<1>10. Complete'
  <2>1. \A n \in Owed', m \in 1..sequence' : n < m => m \in Owed'
    <3> SUFFICES ASSUME NEW n \in Owed', NEW m \in 1..sequence', n < m, m # sequence + 1
                 PROVE  m \in Owed
      BY <1>3
    <3>1. n \in Owed /\ m \in 1..sequence
      BY <1>1, <1>3, <1>7
    <3> QED
      BY <1>1, <3>1 DEF Inv, Complete
  <2> QED
    BY <1>1, <1>3, <1>4, <1>7, <2>1 DEF Inv, Complete
<1>11. Behind'
  <2>1. sequence' \notin Unread
    BY <1>1 DEF Inv, Sound, Typed, Owed
  <2>2. ~AnyLost => \A n : n \notin Owed
    BY <1>1 DEF Inv, Behind
  <2> QED
    BY <1>1, <1>3, <1>4, <2>1, <2>2 DEF Inv, Behind
<1>12. Returned'
  BY <1>1 DEF Inv, Returned, Lost
<1> QED
  BY <1>2, <1>8, <1>9, <1>10, <1>11, <1>12 DEF Inv

(* The monitor's answer goes behind all unread ones and is the first owed.  *)
LEMMA CarryOutInv ==
    ASSUME Inv, CarryOut
    PROVE  Inv'
<1> DEFINE h == Head(asked)
<1>1. /\ asked # <<>> /\ asked' = Tail(asked) /\ carried' = carried \cup {h}
      /\ qmpOpen
      /\ UNCHANGED <<sequence, awaiting, outcome, given, qmpOpen>>
  BY DEF CarryOut
<1>2. PICK kind \in {"return", "error"} : pending' = Append(pending, <<kind, h>>)
  BY DEF CarryOut
<1>3. h \in Nat /\ <<kind, h>> \in Message /\ IsReply(<<kind, h>>)
  BY <1>1 DEF Inv, Typed, Message, IsReply
<1>4. Typed'
  BY <1>1, <1>2, <1>3 DEF Inv, Typed
<1>5. \A n : n \in Unread' <=> n \in Unread \/ n = h
  BY <1>2, <1>3, RepliesAppend DEF Inv, Typed, Unread
<1>6. \A n : n \in Owed' <=> n \in Owed
  BY <1>1, <1>5, NumbersTail DEF Inv, Typed, Owed
<1>7. /\ \A p \in DOMAIN asked' : p + 1 \in DOMAIN asked /\ asked[p + 1] = asked'[p]
      /\ 1 \in DOMAIN asked /\ asked[1] = h
      /\ \A p \in DOMAIN asked' : p \in Nat /\ 1 < p + 1
  BY <1>1, TailPositions DEF Inv, Typed
<1>8. /\ DOMAIN pending' = DOMAIN pending \cup {Len(pending) + 1}
      /\ pending'[Len(pending) + 1] = <<kind, h>>
      /\ \A p \in DOMAIN pending : pending'[p] = pending[p] /\ p < Len(pending) + 1
      /\ \A p \in DOMAIN pending : p \in Nat
      /\ Len(pending) \in Nat
  <2> DEFINE m == <<kind, h>>
  <2>1. pending \in Seq(Message) /\ pending' = Append(pending, m)
    BY <1>2 DEF Inv, Typed
  <2> HIDE DEF m
  <2>2. /\ DOMAIN pending' = DOMAIN pending \cup {Len(pending) + 1}
        /\ pending'[Len(pending) + 1] = m
        /\ \A p \in DOMAIN pending : pending'[p] = pending[p] /\ p < Len(pending) + 1
        /\ \A p \in DOMAIN pending : p \in Nat
        /\ Len(pending) \in Nat
    BY <2>1
  <2> QED
    BY <2>2 DEF m
<1>9. AnyLost' <=> AnyLost
  BY <1>1 DEF AnyLost, Lost
<1> HIDE DEF h
<1>10. Ordered'
  <2>1. \A i, j \in DOMAIN asked' : i < j => asked'[i] < asked'[j]
    BY <1>7 DEF Inv, Ordered
  <2>2. \A p, q \in DOMAIN pending' :
          p < q /\ IsReply(pending'[p]) /\ IsReply(pending'[q]) =>
              pending'[p][2] < pending'[q][2]
    <3> SUFFICES ASSUME NEW p \in DOMAIN pending', NEW q \in DOMAIN pending', p < q,
                        IsReply(pending'[p]), IsReply(pending'[q])
                 PROVE  pending'[p][2] < pending'[q][2]
      OBVIOUS
    <3>1. p \in DOMAIN pending
      BY <1>8
    <3>2. CASE q \in DOMAIN pending
      BY <1>8, <3>1, <3>2 DEF Inv, Ordered
    <3>3. CASE q = Len(pending) + 1
      <4>1. pending[p][2] < asked[1]
        BY <1>7, <1>8, <3>1 DEF Inv, Ordered
      <4> QED
        BY <1>7, <1>8, <3>1, <3>3, <4>1
    <3> QED
      BY <1>8, <3>2, <3>3
  <2>3. \A p \in DOMAIN pending', i \in DOMAIN asked' :
          IsReply(pending'[p]) => pending'[p][2] < asked'[i]
    <3> SUFFICES ASSUME NEW p \in DOMAIN pending', NEW i \in DOMAIN asked',
                        IsReply(pending'[p])
                 PROVE  pending'[p][2] < asked'[i]
      OBVIOUS
    <3>1. CASE p \in DOMAIN pending
      BY <1>7, <1>8, <3>1 DEF Inv, Ordered
    <3>2. CASE p = Len(pending) + 1
      <4>1. asked[1] < asked[i + 1]
        BY <1>7 DEF Inv, Ordered
      <4> QED
        BY <1>7, <1>8, <3>2, <4>1
    <3> QED
      BY <1>8, <3>1, <3>2
  <2> QED
    BY <2>1, <2>2, <2>3 DEF Ordered
<1>11. Sound'
  BY <1>1, <1>5, <1>6 DEF Inv, Sound
<1>12. Complete'
  BY <1>1, <1>6, <1>9 DEF Inv, Complete
<1>13. Behind'
  <2>1. ASSUME AnyLost, awaiting, sequence = h
        PROVE  sequence - 1 \in Unread
    <3>1. sequence - 1 \in Owed /\ sequence \in Nat
      BY <1>1, <2>1 DEF Inv, Complete, Typed
    <3>2. sequence - 1 \notin Numbers(asked)
      <4>1. \A i \in DOMAIN asked : i = 1 \/ asked[1] < asked[i]
        <5>1. \A i \in DOMAIN asked : i \in Nat /\ i >= 1
          BY DEF Inv, Typed
        <5> QED
          BY <1>7, <5>1 DEF Inv, Ordered
      <4>2. \A i \in DOMAIN asked : asked[i] \in Nat
        BY DEF Inv, Typed
      <4> QED
        BY <1>7, <2>1, <3>1, <4>1, <4>2, NumberIn
    <3> QED
      BY <3>1, <3>2 DEF Owed
  <2>2. (AnyLost /\ awaiting /\ sequence \in Unread => sequence - 1 \in Unread)'
    BY <1>1, <1>5, <1>9, <2>1 DEF Inv, Behind
  <2> QED
    BY <1>1, <1>6, <1>9, <2>2 DEF Inv, Behind
<1>14. Returned'
  BY <1>1 DEF Inv, Returned, Lost
<1> QED
  BY <1>4, <1>10, <1>11, <1>12, <1>13, <1>14 DEF Inv

(* An event is no answer.                                                   *)
LEMMA ReportInv ==
    ASSUME Inv, ReportEvent
    PROVE  Inv'
<1> DEFINE m == <<"event", 0>>
<1>1. /\ pending' = Append(pending, m)
      /\ UNCHANGED <<sequence, awaiting, asked, carried, outcome, given, qmpOpen>>
  BY DEF ReportEvent
<1>2. m \in Message /\ ~IsReply(m)
  BY DEF Message, IsReply
<1> HIDE DEF m
<1>3. Typed'
  BY <1>1, <1>2 DEF Inv, Typed
<1>4. \A n : n \in Unread' <=> n \in Unread
  BY <1>1, <1>2, RepliesAppend DEF Inv, Typed, Unread
<1>5. Unread' = Unread /\ Owed' = Owed /\ (AnyLost' <=> AnyLost)
  BY <1>1, <1>4 DEF Owed, AnyLost, Lost
<1>6. /\ DOMAIN pending' = DOMAIN pending \cup {Len(pending) + 1}
      /\ pending'[Len(pending) + 1] = m
      /\ \A p \in DOMAIN pending : pending'[p] = pending[p]
  BY <1>1, <1>2 DEF Inv, Typed
<1>7. Ordered'
  BY <1>1, <1>2, <1>6 DEF Inv, Ordered
<1>8. Sound' /\ Complete'
  BY <1>1, <1>5 DEF Inv, Sound, Complete
<1>9. Behind' /\ Returned'
  BY <1>1, <1>5 DEF Inv, Behind, Returned, Lost
<1> QED
  BY <1>3, <1>7, <1>8, <1>9 DEF Inv

(* What the end of a wait appends to the two records of outcomes. *)
LEMMA Finished ==
    ASSUME Inv, awaiting, NEW how \in Kinds, NEW id \in Nat, Finish(how, id),
           sequence' = sequence
    PROVE  /\ outcome' \in Seq(Kinds) /\ given' \in Seq(Nat) /\ ~awaiting'
           /\ Len(given') = Len(outcome') /\ sequence = Len(outcome')
           /\ DOMAIN outcome' = DOMAIN outcome \cup {sequence}
           /\ outcome'[sequence] = how /\ given'[sequence] = id
           /\ \A i \in DOMAIN outcome :
                 /\ outcome'[i] = outcome[i] /\ given'[i] = given[i]
                 /\ i \in Nat /\ i < sequence /\ (Lost(i)' <=> Lost(i))
           /\ AnyLost' <=> AnyLost \/ how \in {"timeout", "foreign"}
           /\ awaiting' = FALSE
<1>1. awaiting' = FALSE /\ outcome' = Append(outcome, how) /\ given' = Append(given, id)
  BY DEF Finish
<1>2. /\ sequence = Len(outcome) + 1 /\ outcome \in Seq(Kinds) /\ given \in Seq(Nat)
      /\ Len(given) = Len(outcome)
  BY DEF Inv, Typed
<1>3. /\ outcome' \in Seq(Kinds) /\ given' \in Seq(Nat)
      /\ Len(given') = Len(outcome') /\ sequence = Len(outcome')
      /\ DOMAIN outcome' = DOMAIN outcome \cup {sequence}
      /\ outcome'[sequence] = how /\ given'[sequence] = id
      /\ \A i \in DOMAIN outcome :
            outcome'[i] = outcome[i] /\ given'[i] = given[i] /\ i \in Nat /\ i < sequence
  BY <1>1, <1>2
<1>4. /\ \A i \in DOMAIN outcome : Lost(i)' <=> Lost(i)
      /\ AnyLost' <=> AnyLost \/ how \in {"timeout", "foreign"}
  BY <1>3, Zenon DEF Lost, AnyLost
<1> QED
  BY <1>1, <1>3, <1>4

(* A command given up leaves its answer owed: the surplus begins.           *)
LEMMA TimeOutInv ==
    ASSUME Inv, TimeOut
    PROVE  Inv'
<1>1. /\ awaiting /\ Finish("timeout", 0)
      /\ UNCHANGED <<sequence, asked, pending, carried, qmpOpen>>
  BY DEF TimeOut
<1>2. "timeout" \in Kinds /\ 0 \in Nat
  BY DEF Kinds
<1> DEFINE k == sequence
<1>3. /\ outcome' \in Seq(Kinds) /\ given' \in Seq(Nat) /\ awaiting' = FALSE
      /\ Len(given') = Len(outcome') /\ k = Len(outcome')
      /\ DOMAIN outcome' = DOMAIN outcome \cup {k}
      /\ outcome'[k] = "timeout"
      /\ \A i \in DOMAIN outcome :
            /\ outcome'[i] = outcome[i] /\ given'[i] = given[i]
            /\ i \in Nat /\ i < k /\ (Lost(i)' <=> Lost(i))
      /\ AnyLost'
  BY <1>1, <1>2, Finished
<1>4. Unread' = Unread /\ Owed' = Owed
  BY <1>1 DEF Unread, Owed
<1>5. Typed'
  <2>1. sequence' = Len(outcome') + (IF awaiting' THEN 1 ELSE 0)
    BY <1>1, <1>3 DEF Inv, Typed
  <2> QED
    BY <1>1, <1>3, <2>1, Zenon DEF Inv, Typed
<1>6. Ordered' /\ Sound' /\ Complete'
  <2>1. Ordered'
    BY <1>1 DEF Inv, Ordered
  <2>2. Sound'
    BY <1>1, <1>4 DEF Inv, Sound
  <2>3. Complete'
    BY <1>1, <1>3, <1>4 DEF Inv, Complete
  <2> QED
    BY <2>1, <2>2, <2>3
<1>7. Behind'
  BY <1>1, <1>3, <1>4 DEF Inv, Behind
<1>8. Returned'
  <2>1. \A i \in DOMAIN outcome' : outcome'[i] \in {"return", "error"} => i \in DOMAIN outcome
    BY <1>3
  <2>2. \A j \in DOMAIN outcome', i \in DOMAIN outcome :
          outcome[i] \in {"return", "error"} /\ Lost(j)' => j > i
    BY <1>3 DEF Inv, Returned
  <2> QED
    BY <1>1, <1>3, <2>1, <2>2 DEF Inv, Returned
<1> QED
  BY <1>5, <1>6, <1>7, <1>8 DEF Inv

(* A closed connection has no more answers than it had.                     *)
LEMMA ClosedInv ==
    ASSUME Inv, ConnectionClosed
    PROVE  Inv'
<1>1. /\ awaiting /\ ~qmpOpen /\ pending = <<>> /\ Finish("closed", 0)
      /\ UNCHANGED <<sequence, asked, pending, carried, qmpOpen>>
  BY DEF ConnectionClosed
<1>2. "closed" \in Kinds /\ 0 \in Nat
  BY DEF Kinds
<1> DEFINE k == sequence
<1>3. /\ outcome' \in Seq(Kinds) /\ given' \in Seq(Nat) /\ awaiting' = FALSE
      /\ Len(given') = Len(outcome') /\ k = Len(outcome')
      /\ DOMAIN outcome' = DOMAIN outcome \cup {k}
      /\ outcome'[k] = "closed"
      /\ \A i \in DOMAIN outcome :
            /\ outcome'[i] = outcome[i] /\ given'[i] = given[i]
            /\ i \in Nat /\ i < k /\ (Lost(i)' <=> Lost(i))
      /\ AnyLost' <=> AnyLost
  BY <1>1, <1>2, Finished
<1>4. Unread' = Unread /\ Owed' = Owed
  BY <1>1 DEF Unread, Owed
<1>5. \A n : n \notin Owed
  BY <1>1, ReplyIn, NumberIn DEF Inv, Sound, Owed, Unread
<1>6. Typed'
  <2>1. sequence' = Len(outcome') + (IF awaiting' THEN 1 ELSE 0)
    BY <1>1, <1>3 DEF Inv, Typed
  <2> QED
    BY <1>1, <1>3, <2>1, Zenon DEF Inv, Typed
<1>7. Ordered' /\ Sound' /\ Complete'
  <2>1. Ordered'
    BY <1>1 DEF Inv, Ordered
  <2>2. Sound'
    BY <1>1, <1>4 DEF Inv, Sound
  <2>3. Complete'
    BY <1>1 DEF Complete
  <2> QED
    BY <2>1, <2>2, <2>3
<1>8. Behind'
  BY <1>1, <1>3, <1>4, <1>5 DEF Inv, Behind
<1>9. Returned'
  <2>1. \A i \in DOMAIN outcome' : outcome'[i] \in {"return", "error"} => i \in DOMAIN outcome
    BY <1>3
  <2>2. \A j \in DOMAIN outcome' : Lost(j)' => j \in DOMAIN outcome
    BY <1>3 DEF Lost
  <2> QED
    BY <1>1, <1>3, <2>1, <2>2 DEF Inv, Returned
<1> QED
  BY <1>6, <1>7, <1>8, <1>9 DEF Inv

(* When the monitor ends, requests not carried out are gone.                *)
LEMMA EndsInv ==
    ASSUME Inv, MonitorEnds
    PROVE  Inv'
<1>1. /\ asked' = <<>> /\ ~qmpOpen'
      /\ UNCHANGED <<sequence, awaiting, pending, carried, outcome, given>>
  BY DEF MonitorEnds
<1>2. qmpOpen' \in BOOLEAN
  BY DEF MonitorEnds
<1>3. Unread' = Unread /\ (AnyLost' <=> AnyLost) /\ \A n : n \in Owed' => n \in Owed
  BY <1>1, NumberIn DEF Unread, Owed, AnyLost, Lost
<1>4. Typed'
  BY <1>1, <1>2 DEF Inv, Typed
<1>5. Ordered' /\ Sound' /\ Complete'
  <2>1. DOMAIN asked' = {}
    BY <1>1
  <2>2. Ordered'
    BY <1>1, <2>1 DEF Inv, Ordered
  <2>3. Sound'
    BY <1>1, <1>3 DEF Inv, Sound
  <2>4. Complete'
    BY <1>1 DEF Complete
  <2> QED
    BY <2>2, <2>3, <2>4
<1>6. Behind' /\ Returned'
  BY <1>1, <1>3 DEF Inv, Behind, Returned, Lost
<1> QED
  BY <1>4, <1>5, <1>6 DEF Inv

(* The first answer unread is the command's own if none was lost before it, *)
(* and an earlier one's otherwise.                                          *)
LEMMA ReceiveInv ==
    ASSUME Inv, ReceiveReply
    PROVE  Inv'
<1> DEFINE r == Head(pending)
           h == r[2]
           k == sequence
<1>1. /\ awaiting /\ pending # <<>> /\ pending' = Tail(pending)
      /\ UNCHANGED <<sequence, asked, carried, qmpOpen>>
      /\ \/ ~IsReply(r) /\ UNCHANGED <<awaiting, outcome, given>>
         \/ IsReply(r) /\ h # k /\ Finish("foreign", 0)
         \/ IsReply(r) /\ h = k /\ Finish(r[1], h)
  BY DEF ReceiveReply, IsReply
<1>2. r \in Message /\ pending' \in Seq(Message) /\ h \in Nat /\ k \in Nat
  BY <1>1 DEF Inv, Typed, Message
<1>3. /\ \A p \in DOMAIN pending' :
            p + 1 \in DOMAIN pending /\ pending[p + 1] = pending'[p] /\ p \in Nat /\ 1 < p + 1
      /\ 1 \in DOMAIN pending /\ pending[1] = r
  BY <1>1, TailPositions DEF Inv, Typed
<1>4. \A n : n \in Unread <=> n \in Unread' \/ (IsReply(r) /\ n = h)
  BY <1>1, RepliesTail DEF Inv, Typed, Unread
<1>5. \A n : n \in Owed <=> n \in Owed' \/ (IsReply(r) /\ n = h)
  BY <1>1, <1>4 DEF Owed
<1> HIDE DEF r
<1>6. Ordered'
  <2>1. \A p, q \in DOMAIN pending' :
          p < q /\ IsReply(pending'[p]) /\ IsReply(pending'[q]) =>
              pending'[p][2] < pending'[q][2]
    BY <1>3 DEF Inv, Ordered
  <2>2. \A p \in DOMAIN pending', i \in DOMAIN asked :
          IsReply(pending'[p]) => pending'[p][2] < asked[i]
    BY <1>3 DEF Inv, Ordered
  <2> QED
    BY <1>1, <2>1, <2>2 DEF Inv, Ordered
<1>7. ASSUME IsReply(r)
      PROVE  \A n \in Owed' : h < n
  <2>1. ASSUME NEW n \in Unread'
        PROVE  h < n
    BY <1>3, <1>7, <2>1, ReplyIn DEF Inv, Ordered, Unread
  <2>2. ASSUME NEW n \in Numbers(asked)
        PROVE  h < n
    BY <1>3, <1>7, <2>2, NumberIn DEF Inv, Ordered
  <2> QED
    BY <1>1, <2>1, <2>2 DEF Owed
<1>8. Sound'
  BY <1>1, <1>4, <1>5 DEF Inv, Sound
<1>9. CASE ~IsReply(r)
  <2>1. UNCHANGED <<awaiting, outcome, given>>
    BY <1>1, <1>9
  <2>2. Unread' = Unread /\ Owed' = Owed /\ (AnyLost' <=> AnyLost)
    BY <1>4, <1>5, <1>9, <2>1 DEF AnyLost, Lost
  <2>3. Typed' /\ Complete'
    BY <1>1, <1>2, <2>1, <2>2 DEF Inv, Typed, Complete
  <2>4. Behind' /\ Returned'
    BY <1>1, <2>1, <2>2 DEF Inv, Behind, Returned, Lost
  <2> QED
    BY <1>6, <1>8, <2>3, <2>4 DEF Inv
<1>10. CASE IsReply(r) /\ h # k
  <2>1. Finish("foreign", 0) /\ "foreign" \in Kinds /\ 0 \in Nat
    BY <1>1, <1>10 DEF Kinds
  <2>2. /\ outcome' \in Seq(Kinds) /\ given' \in Seq(Nat) /\ awaiting' = FALSE
        /\ Len(given') = Len(outcome') /\ k = Len(outcome')
        /\ DOMAIN outcome' = DOMAIN outcome \cup {k}
        /\ outcome'[k] = "foreign"
        /\ \A i \in DOMAIN outcome :
              /\ outcome'[i] = outcome[i] /\ given'[i] = given[i]
              /\ i \in Nat /\ i < k /\ (Lost(i)' <=> Lost(i))
        /\ AnyLost'
    BY <1>1, <2>1, Finished
  <2>3. AnyLost
    BY <1>5, <1>10 DEF Inv, Behind
  <2>4. Typed'
    <3>1. sequence' = Len(outcome') + (IF awaiting' THEN 1 ELSE 0)
      BY <1>1, <2>2
    <3> QED
      BY <1>1, <1>2, <2>2, <3>1, Zenon DEF Inv, Typed
  <2>5. Complete'
    <3> SUFFICES ASSUME qmpOpen
                 PROVE  /\ \A n \in Owed', m \in 1..k : n < m => m \in Owed'
                        /\ k \in Owed'
      BY <1>1, <2>2 DEF Complete
    <3>1. k \in Owed'
      BY <1>1, <1>5, <1>10 DEF Inv, Complete
    <3>2. ASSUME NEW n \in Owed', NEW m \in 1..k, n < m
          PROVE  m \in Owed'
      <4>1. m \in Owed
        BY <1>5, <3>2 DEF Inv, Complete
      <4>2. h < n /\ n \in Nat
        <5>1. n \in 1..sequence
          BY <1>5 DEF Inv, Sound
        <5> QED
          BY <1>2, <1>7, <1>10, <5>1
      <4> QED
        BY <1>2, <1>5, <3>2, <4>1, <4>2
    <3> QED
      BY <3>1, <3>2
  <2>6. Behind'
    <3>1. \E j \in DOMAIN outcome : outcome[j] = "timeout"
      BY <2>3 DEF Inv, Behind, AnyLost, Lost
    <3>2. ASSUME NEW i \in DOMAIN outcome', outcome'[i] = "foreign"
          PROVE  \E j \in DOMAIN outcome' : j < i /\ outcome'[j] = "timeout"
      <4>1. \E j \in DOMAIN outcome : j < i /\ outcome[j] = "timeout"
        <5>1. CASE i = k
          BY <2>2, <3>1, <5>1
        <5>2. CASE i \in DOMAIN outcome
          BY <2>2, <3>2, <5>2 DEF Inv, Behind
        <5> QED
          BY <2>2, <5>1, <5>2
      <4>2. \A j \in DOMAIN outcome : j \in DOMAIN outcome' /\ outcome'[j] = outcome[j]
        BY <2>2
      <4> QED
        BY <4>1, <4>2
    <3> QED
      BY <2>2, <3>2 DEF Behind
  <2>7. Returned'
    <3>1. \A i \in DOMAIN outcome' : outcome'[i] \in {"return", "error"} => i \in DOMAIN outcome
      BY <2>2
    <3>2. \A j \in DOMAIN outcome', i \in DOMAIN outcome :
            outcome[i] \in {"return", "error"} /\ Lost(j)' => j > i
      BY <2>2 DEF Inv, Returned
    <3> QED
      BY <1>1, <2>2, <3>1, <3>2 DEF Inv, Returned
  <2> QED
    BY <1>6, <1>8, <2>4, <2>5, <2>6, <2>7 DEF Inv
<1>11. CASE IsReply(r) /\ h = k
  <2>1. Finish(r[1], k) /\ r[1] \in {"return", "error"} /\ r[1] \in Kinds
    BY <1>1, <1>2, <1>11 DEF Kinds, Message, IsReply
  <2>2. /\ outcome' \in Seq(Kinds) /\ given' \in Seq(Nat) /\ awaiting' = FALSE
        /\ Len(given') = Len(outcome') /\ k = Len(outcome')
        /\ DOMAIN outcome' = DOMAIN outcome \cup {k}
        /\ outcome'[k] = r[1] /\ given'[k] = k
        /\ \A i \in DOMAIN outcome :
              /\ outcome'[i] = outcome[i] /\ given'[i] = given[i]
              /\ i \in Nat /\ i < k /\ (Lost(i)' <=> Lost(i))
        /\ AnyLost' <=> AnyLost
    BY <1>1, <1>2, <2>1, Finished
  <2>3. ~AnyLost
    <3> SUFFICES ASSUME AnyLost PROVE FALSE
      OBVIOUS
    <3>1. k - 1 \in Unread
      BY <1>1, <1>4, <1>11 DEF Inv, Behind
    <3>2. k - 1 \in Owed'
      BY <1>2, <1>4, <1>11, <3>1 DEF Owed
    <3> QED
      BY <1>2, <1>7, <1>11, <3>2
  <2>4. \A n : n \notin Owed'
    BY <1>2, <1>5, <1>7, <1>11, <2>3 DEF Inv, Behind
  <2>5. Typed'
    <3>1. sequence' = Len(outcome') + (IF awaiting' THEN 1 ELSE 0)
      BY <1>1, <2>2
    <3> QED
      BY <1>1, <1>2, <2>2, <3>1, Zenon DEF Inv, Typed
  <2>6. Complete'
    BY <2>2, <2>3, <2>4 DEF Complete
  <2>7. Behind'
    <3>1. \A i \in DOMAIN outcome' : outcome'[i] # "foreign"
      BY <2>1, <2>2, <2>3 DEF AnyLost, Lost
    <3> QED
      BY <2>2, <2>4, <3>1 DEF Behind
  <2>8. Returned'
    <3>1. \A j \in DOMAIN outcome' : ~Lost(j)'
      BY <2>2, <2>3 DEF AnyLost
    <3>2. k \in carried
      BY <1>4, <1>11 DEF Inv, Sound
    <3> QED
      BY <1>1, <2>2, <3>1, <3>2 DEF Inv, Returned
  <2> QED
    BY <1>6, <1>8, <2>5, <2>6, <2>7, <2>8 DEF Inv
<1> QED
  BY <1>1, <1>9, <1>10, <1>11

-----------------------------------------------------------------------------
QmpSpec == QmpInit /\ [][QmpNext]_qmpVars

(* Every step of client and monitor preserves the invariant.                *)
LEMMA NextInv == Inv /\ [QmpNext]_qmpVars => Inv'
<1> SUFFICES ASSUME Inv, [QmpNext]_qmpVars PROVE Inv'
  OBVIOUS
<1>1. CASE UNCHANGED qmpVars
  BY <1>1 DEF qmpVars, Inv, Typed, Ordered, Sound, Complete, Behind, Returned, Owed, Unread,
              AnyLost, Lost
<1> QED
  BY <1>1, AskInv, CarryOutInv, ReportInv, ReceiveInv, TimeOutInv, EndsInv, ClosedInv
     DEF QmpNext

(* A caller of the monitor is never given another command's answer, and an *)
(* answer under another number is met only after a timeout, however many   *)
(* commands a connection sees and whenever its deadlines pass.             *)
THEOREM AnswersAreOwn == QmpSpec => []AnswersOwn
<1>1. Inv => AnswersOwn
  <2> SUFFICES ASSUME Inv PROVE AnswersOwn
    OBVIOUS
  <2> QED
    BY DEF Inv, Returned, Behind, Lost, AnswersOwn
<1> QED
  BY <1>1, InitInv, NextInv, PTL DEF QmpSpec
====
