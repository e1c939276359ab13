---------------------------- MODULE ControlLine ----------------------------
(***************************************************************************)
(* How the input channel of cdj2000_input.c reads its commands: a TCP      *)
(* stream, taken in whatever pieces it arrives, cut into lines in a buffer *)
(* of LineSize bytes; a line that does not fit is refused whole.  A new    *)
(* connection replaces the old one, and what the old one left in the       *)
(* buffer goes with it.                                                    *)
(*                                                                         *)
(* A byte of the stream is <<line, k>>, the k-th byte of the client's      *)
(* line-th line, and <<line, 0>> is the newline that ends it.              *)
(*                                                                         *)
(* An operator headed "A slip" is the definition below it with a mistake   *)
(* in it, for trying the properties; no specification uses one.            *)
(***************************************************************************)
EXTENDS Integers, Sequences, FiniteSets

CONSTANTS
    LineSize,       \* CDJ_INPUT_LINE
    LineLengths,    \* the lengths of the lines clients send
    MaxLines,       \* bound: lines of one client
    MaxClients      \* bound: connections

ASSUME ControlLineAssumption ==
    /\ LineSize \in Nat /\ LineSize > 2 /\ LineLengths \subseteq Nat
    /\ MaxLines \in Nat /\ MaxClients \in Nat \ {0}

VARIABLES
    client,     \* the connection being served, 0 for none
    typed,      \* the lengths of the lines its peer has sent
    stream,     \* sent and not yet received
    buffer,     \* cdj_input_line
    overlong,   \* the rest of the present line is to be skipped
    executed,   \* the commands carried out of this connection
    clients     \* connections so far

lineVars == <<client, typed, stream, buffer, overlong, executed, clients>>

Newline(b) == b[2] = 0
Bytes(line, n) == [k \in 1..n + 1 |-> <<line, IF k > n THEN 0 ELSE k>>]

LineInit ==
    /\ client = 0 /\ typed = <<>> /\ stream = <<>> /\ buffer = <<>>
    /\ overlong = FALSE /\ executed = <<>> /\ clients = 0

(* A slip: the buffer stays. *)
AcceptKeepsBuffer ==
    /\ clients < MaxClients
    /\ clients' = clients + 1 /\ client' = clients + 1
    /\ typed' = <<>> /\ stream' = <<>> /\ executed' = <<>>
    /\ UNCHANGED <<buffer, overlong>>

(* Whoever knocks is taken, even when a client is attached. *)
Accept ==
    /\ clients < MaxClients
    /\ clients' = clients + 1 /\ client' = clients + 1
    /\ typed' = <<>> /\ stream' = <<>> /\ executed' = <<>>
    /\ buffer' = <<>> /\ overlong' = FALSE

(* The peer closes, or the socket fails. *)
DropClient ==
    /\ client # 0 /\ client' = 0
    /\ buffer' = <<>> /\ overlong' = FALSE
    /\ typed' = <<>> /\ stream' = <<>> /\ executed' = <<>> /\ UNCHANGED clients

Type(n) ==
    /\ client # 0 /\ Len(typed) < MaxLines
    /\ typed' = Append(typed, n)
    /\ stream' = stream \o Bytes(Len(typed) + 1, n)
    /\ UNCHANGED <<client, buffer, overlong, executed, clients>>

-----------------------------------------------------------------------------

Ends(text) == {i \in DOMAIN text : Newline(text[i])}
(* The i-th byte ends a line of this text: what stands before it.  *)
Before(text, i) ==
    LET start == {j \in Ends(text) : j < i}
        from == IF start = {} THEN 1 ELSE 1 + CHOOSE j \in start : \A k \in start : k <= j
    IN  SubSeq(text, from, i - 1)
(* The lines a text completes, in order; empty ones are passed over, and   *)
(* the first is the tail of a refused line when skip is set.               *)
Lines(text, skip) ==
    LET n == Cardinality(Ends(text))
        end(k) == CHOOSE i \in Ends(text) : Cardinality({j \in Ends(text) : j <= i}) = k
        line == [k \in 1..n |-> Before(text, end(k))]
    IN  SelectSeq(IF skip /\ n > 0 THEN Tail(line) ELSE line, LAMBDA l : l # <<>>)
Rest(text) ==
    IF Ends(text) = {} THEN text
    ELSE SubSeq(text, 1 + CHOOSE i \in Ends(text) : \A j \in Ends(text) : j <= i, Len(text))

(* One recv() of n bytes and what it completes.  A buffer full of an       *)
(* unfinished line is emptied, and the line's rest will be skipped.        *)
Consume(n) ==
    LET text == buffer \o SubSeq(stream, 1, n)
        still == overlong /\ Ends(text) = {}
        full == Len(Rest(text)) + 1 >= LineSize
    IN  /\ executed' = executed \o Lines(text, overlong)
        /\ buffer' = IF full THEN <<>> ELSE Rest(text)
        /\ overlong' = (full \/ still)

Receive(n) ==
    /\ client # 0 /\ n <= Len(stream) /\ n <= LineSize - Len(buffer) - 1
    /\ Consume(n)
    /\ stream' = SubSeq(stream, n + 1, Len(stream))
    /\ UNCHANGED <<client, typed, clients>>

LineNext ==
    \/ Accept \/ DropClient
    \/ \E n \in LineLengths : Type(n)
    \/ \E n \in 1..LineSize - 1 : Receive(n)

LineSpec == LineInit /\ [][LineNext]_lineVars

-----------------------------------------------------------------------------
(* Properties. *)

LineTypeOK ==
    /\ client \in 0..MaxClients /\ clients \in 0..MaxClients /\ overlong \in BOOLEAN
    /\ typed \in Seq(LineLengths) /\ Len(typed) <= MaxLines
    /\ Len(buffer) < LineSize - 1 /\ Ends(buffer) = {}

(* However the stream was cut up: what has been executed is, in order, the *)
(* lines received whole that are neither empty nor too long, and nothing   *)
(* of any other line.                                                      *)
LinesWhole ==
    LET received == [i \in DOMAIN typed |-> \A k \in DOMAIN stream :
                                              stream[k] # <<i, 0>>]
        done == SelectSeq([i \in DOMAIN typed |-> i], LAMBDA i :
                          received[i] /\ typed[i] \in 1..LineSize - 2)
    IN  executed = [k \in DOMAIN done |-> SubSeq(Bytes(done[k], typed[done[k]]),
                                                  1, typed[done[k]])]
=============================================================================
