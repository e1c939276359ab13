----------------------------- MODULE QmpClient -----------------------------
(***************************************************************************)
(* The tools' connection to QEMU's monitor (class Qmp of                   *)
(* tools/cdj_main/qmp.py): a command is sent under a number, and the       *)
(* answer is awaited up to a deadline while the monitor's events pass by.  *)
(* A command that runs out of time leaves its answer behind in the stream, *)
(* where a caller that goes on with the connection meets it.               *)
(*                                                                         *)
(* Time is not counted: a deadline expires at any moment of a wait.        *)
(***************************************************************************)
EXTENDS Integers, Sequences, FiniteSets

CONSTANTS
    MaxCommands,    \* bound: commands of one connection
    MaxReports       \* bound: events the monitor reports

ASSUME QmpAssumption == MaxCommands \in Nat \ {0} /\ MaxReports \in Nat

VARIABLES
    sequence,   \* the number of the last command
    awaiting,   \* a command waits for its answer
    asked,      \* requests the monitor has not carried out
    pending,    \* lines sent and not yet read: <<"event", 0>>, or
                \* <<"return" or "error", id>>
    carried,    \* the numbers of the commands carried out
    outcome,    \* of each command: "return", "error", "timeout", "foreign"
                \* (an answer under another number) or "closed"
    given,      \* the number on the answer handed to each command's caller
    eventCount, \* events so far
    qmpOpen     \* the connection stands

qmpVars == <<sequence, awaiting, asked, pending, carried, outcome, given, eventCount, qmpOpen>>

(* After the greeting and qmp_capabilities.  *)
QmpInit ==
    /\ sequence = 0 /\ awaiting = FALSE /\ asked = <<>> /\ pending = <<>>
    /\ carried = {} /\ outcome = <<>> /\ given = <<>> /\ eventCount = 0
    /\ qmpOpen = TRUE

AskMonitor ==
    /\ qmpOpen /\ ~awaiting /\ sequence < MaxCommands
    /\ sequence' = sequence + 1 /\ awaiting' = TRUE
    /\ asked' = Append(asked, sequence + 1)
    /\ UNCHANGED <<pending, carried, outcome, given, eventCount, qmpOpen>>

(* The monitor carries commands out in order, in its own time.  *)
CarryOut ==
    /\ qmpOpen /\ asked # <<>> /\ asked' = Tail(asked)
    /\ carried' = carried \cup {Head(asked)}
    /\ \E kind \in {"return", "error"} :
          pending' = Append(pending, <<kind, Head(asked)>>)
    /\ UNCHANGED <<sequence, awaiting, outcome, given, eventCount, qmpOpen>>

ReportEvent ==
    /\ qmpOpen /\ eventCount < MaxReports /\ eventCount' = eventCount + 1
    /\ pending' = Append(pending, <<"event", 0>>)
    /\ UNCHANGED <<sequence, awaiting, asked, carried, outcome, given, qmpOpen>>

Finish(how, id) ==
    /\ awaiting' = FALSE
    /\ outcome' = Append(outcome, how) /\ given' = Append(given, id)

(* A slip: the number on the answer is not looked at.  *)
ReceiveAny ==
    /\ awaiting /\ pending # <<>> /\ pending' = Tail(pending)
    /\ LET reply == Head(pending)
       IN  IF reply[1] = "event" THEN UNCHANGED <<awaiting, outcome, given>>
           ELSE Finish(reply[1], reply[2])
    /\ UNCHANGED <<sequence, asked, carried, eventCount, qmpOpen>>

(* One turn of command's loop: an event is passed over, an answer under    *)
(* another number is an error of this command, and is used up.             *)
ReceiveReply ==
    /\ awaiting /\ pending # <<>> /\ pending' = Tail(pending)
    /\ LET reply == Head(pending)
       IN  CASE reply[1] = "event"       -> UNCHANGED <<awaiting, outcome, given>>
             [] reply[1] # "event" /\ reply[2] # sequence -> Finish("foreign", 0)
             [] OTHER                    -> Finish(reply[1], reply[2])
    /\ UNCHANGED <<sequence, asked, carried, eventCount, qmpOpen>>

(* The deadline passes before the answer is read.  *)
TimeOut ==
    /\ awaiting /\ Finish("timeout", 0)
    /\ UNCHANGED <<sequence, asked, pending, carried, eventCount, qmpOpen>>

(* The emulator ends; a wait meets the end of the stream once it has read  *)
(* what is there.                                                          *)
MonitorEnds ==
    /\ qmpOpen /\ qmpOpen' = FALSE /\ asked' = <<>>
    /\ UNCHANGED <<sequence, awaiting, pending, carried, outcome, given, eventCount>>

ConnectionClosed ==
    /\ awaiting /\ ~qmpOpen /\ pending = <<>> /\ Finish("closed", 0)
    /\ UNCHANGED <<sequence, asked, pending, carried, eventCount, qmpOpen>>

QmpNext ==
    \/ AskMonitor \/ CarryOut \/ ReportEvent \/ ReceiveReply \/ TimeOut
    \/ MonitorEnds \/ ConnectionClosed

-----------------------------------------------------------------------------

QmpTypeOK ==
    /\ sequence \in 0..MaxCommands /\ awaiting \in BOOLEAN /\ qmpOpen \in BOOLEAN
    /\ asked \in Seq(1..MaxCommands) /\ carried \subseteq 1..MaxCommands
    /\ \A i \in DOMAIN pending :
          pending[i] \in {<<"event", 0>>} \cup ({"return", "error"} \X (1..MaxCommands))
    /\ eventCount \in 0..MaxReports
    /\ DOMAIN outcome = DOMAIN given
    /\ sequence = Len(outcome) + (IF awaiting THEN 1 ELSE 0)
    /\ \A i \in DOMAIN outcome :
          outcome[i] \in {"return", "error", "timeout", "foreign", "closed"}

(* A caller is never given another command's answer: what a command        *)
(* returns carries its own number and was carried out, even when answers   *)
(* of commands that ran out of time still come.  An answer under another   *)
(* number is met only after a timeout; and it is used up in place of the   *)
(* command's own, so the stream stays behind and no later command of the   *)
(* connection succeeds.                                                    *)
AnswersOwn ==
    LET Lost == {i \in DOMAIN outcome : outcome[i] \in {"timeout", "foreign"}}
    IN  \A i \in DOMAIN outcome :
            /\ outcome[i] \in {"return", "error"} =>
                  given[i] = i /\ i \in carried /\ \A j \in Lost : j > i
            /\ outcome[i] = "foreign" => \E j \in Lost : j < i /\ outcome[j] = "timeout"
=============================================================================
