------------------------------- MODULE CoSim -------------------------------
(***************************************************************************)
(* The conservative co-simulation that keeps the MAIN board (QEMU,         *)
(* emulator/qemu/cdj2000_cosim.c) and the GUI board (the Blackfin          *)
(* simulator, patches/14-gdb-17.2-cosim-virtual-time.patch) in one guest   *)
(* time.                                                                   *)
(*                                                                         *)
(* Each board has a clock of its own.  A board reports its time and a      *)
(* promise, before which it sends nothing, and stops when it is a whole    *)
(* quantum past the other's promise.  Frames travel on two TCP streams and *)
(* wait in a queue until the receiver's clock reaches sending time plus    *)
(* quantum.  Both programs run the same step; where they differ the        *)
(* operator says so.  A step is one call of cosim_step (MAIN) or           *)
(* bfin_cosim_step (GUI); it is cut where it waits for the stream, because *)
(* the other program runs meanwhile, and each piece is one action.  One    *)
(* unit of guest time stands for the smallest step of either clock.        *)
(*                                                                         *)
(* \E x \in {e} : ... names the value of e in a step.                      *)
(*                                                                         *)
(* An operator headed "A slip" is the definition below it with a mistake   *)
(* in it, for trying the properties; no specification uses one.            *)
(***************************************************************************)
EXTENDS Integers, Sequences

CONSTANTS
    Half,       \* half a quantum, in units of guest time
    MaxTime,    \* bound: no clock runs past this
    MaxNap,     \* bound: a sleeping board sets a timer at most this far off (0: none)
    MaxSent,    \* bound: MaxSent[b] frames sent by board b
    MaxFrames,  \* bound: frames sent by both together
    MaxCycle,   \* units one instruction of the GUI may take (CYCLE_DELAY)
    HostInput,  \* may the host wake MAIN: a byte typed on its console
    MayQuit     \* the boards whose program may end

ASSUME CoSimAssumption ==
    /\ Half \in Nat \ {0} /\ MaxTime \in Nat /\ MaxNap \in Nat
    /\ MaxSent \in [{"main", "gui"} -> Nat] /\ MaxFrames \in Nat /\ MaxCycle \in Nat \ {0}
    /\ HostInput \in BOOLEAN /\ MayQuit \subseteq {"main", "gui"}

Boards == {"main", "gui"}

Other(b) == IF b = "main" THEN "gui" ELSE "main"

Quantum == 2 * Half             \* CDJ_COSIM_QUANTUM_US: latency and lookahead

Never == MaxTime + 2 * Quantum + MaxNap     \* INT64_MAX: later than all there is

VARIABLES
    mode,       \* off, on, alone (MAIN without its GUI), gone (its program ended)
    pc,         \* run (the guest runs) or wait (in the step's loop)
    now,        \* guest time
    next,       \* when the step's timer fires (next_ticks of the GUI)
    reported,   \* our time, as far as the peer knows
    promised,   \* the promise last sent
    peerPromise,\* the peer sends nothing before this
    due,        \* frames received, waiting for their time
    chan,       \* chan[b]: the TCP stream towards b
    awake,      \* the CPU has work (MAIN: not halted; GUI: not parked)
    timer,      \* the next guest timer or event of a sleeping board
    parked,     \* bfin_cosim_step's argument, while it waits
    attached,   \* the firmware has opened its link (GUI: inject is set)
    sent        \* frames sent so far

life  == <<mode, attached>>
clocks == <<now, next>>
words == <<reported, promised, sent>>
guest == <<awake, timer>>
step  == <<pc, parked>>
vars  == <<mode, pc, now, next, reported, promised, peerPromise, due,
           chan, awake, timer, parked, attached, sent>>

Least(x, y) == IF x <= y THEN x ELSE y
Most(x, y)  == IF x >= y THEN x ELSE y

(* The messages: HELLO, TIME and RECORD or REQUEST (frame).  Each is a       *)
(* promise: a TIME carries it, a frame promises nothing before its stamp.   *)
Time(p)     == [type |-> "time", promise |-> p, n |-> 0]
Hello       == [type |-> "hello", promise |-> 0, n |-> 0]
FrameMsg(t, n) == [type |-> "frame", promise |-> t, n |-> n]

On(b) == mode[b] = "on"

(* A delivered frame needs someone to take it. *)
Listening(b) == b = "main" \/ attached

Ripe(b) == due[b] # <<>> /\ Head(due[b]).due <= now[b]

-----------------------------------------------------------------------------
(* MAIN without a timer sleeps for ever; the GUI's event queue without one  *)
(* reads as "now" (time_from_event <= 0).                                   *)
Deadline(b) == IF b = "gui" /\ timer[b] = Never THEN now[b] ELSE timer[b]

HeadDue(b) == IF due[b] # <<>> /\ Listening(b) THEN Head(due[b]).due ELSE Never

(* A slip: the frames waiting for their time are forgotten. *)
PromiseForgetsQueue(b, asleep) ==
    IF ~asleep THEN now[b]
    ELSE Most(now[b], Least(Deadline(b)', peerPromise'[b] + Quantum))

(* cosim_promise and bfin_cosim_promise, of what this pass has received.    *)
Promise(b, asleep) ==
    IF ~asleep THEN now[b]
    ELSE Most(now[b], Least(Deadline(b)',
                            Least(HeadDue(b)', peerPromise'[b] + Quantum)))

(* A slip: off by one. *)
BlockedTooLate(b) == now[b] > peerPromise[b] + Quantum

(* A slip: no lookahead. *)
BlockedAtOnce(b) == now[b] >= peerPromise[b]

(* A whole latency ahead of what the peer has promised. *)
Blocked(b) == now[b] >= peerPromise[b] + Quantum

-----------------------------------------------------------------------------
(* Sending: appended to the peer's stream; lost if its program has ended.   *)
SendTo(o, m) == IF mode[o] = "gone" THEN chan ELSE [chan EXCEPT ![o] = Append(@, m)]

Init ==
    /\ mode = [b \in Boards |-> "off"]
    /\ pc = [b \in Boards |-> "run"]
    /\ now = [b \in Boards |-> 0]
    /\ next = [b \in Boards |-> Half]
    /\ reported = [b \in Boards |-> 0]
    /\ promised = [b \in Boards |-> 0]
    /\ peerPromise = [b \in Boards |-> 0]
    /\ due = [b \in Boards |-> <<>>]
    /\ chan = [b \in Boards |-> <<>>]
    /\ awake = [b \in Boards |-> TRUE]
    /\ timer = [b \in Boards |-> Never]
    /\ parked = FALSE
    /\ attached = FALSE
    /\ sent = [b \in Boards |-> 0]

(* bfin_cosim_connect: MAIN listens from the moment its machine is built. *)
GuiConnect ==
    /\ mode["main"] = "off" /\ mode["gui"] = "off"
    /\ mode' = [mode EXCEPT !["gui"] = "on"]
    /\ chan' = SendTo("main", Hello)
    /\ UNCHANGED <<pc, clocks, words, peerPromise, due, guest, parked,
                   attached>>

(* cosim_accept_ready or cosim_accept_blocking: guest time 0 is now. *)
MainAccept ==
    /\ mode["main"] = "off" /\ mode["gui"] # "off"
    /\ mode' = [mode EXCEPT !["main"] = "on"]
    /\ chan' = SendTo("gui", Hello)
    /\ UNCHANGED <<pc, clocks, words, peerPromise, due, guest, parked,
                   attached>>

(* cosim_accept_blocking gives up after 120 s: MAIN runs on alone. *)
AcceptTimeout ==
    /\ mode["main"] = "off" /\ mode["gui"] = "off"
    /\ mode' = [mode EXCEPT !["main"] = "alone"]
    /\ UNCHANGED <<pc, clocks, words, peerPromise, due, chan, guest,
                   parked, attached>>

-----------------------------------------------------------------------------
(* The guests. *)

Cycles(b) == IF b = "gui" THEN 1..MaxCycle ELSE {1}

Runs(b) == On(b) /\ pc[b] = "run"

(* What a guest does, it does before the end of the bounded time.           *)
Guest(b) == Runs(b) /\ now[b] < MaxTime

(* An instruction: under -icount MAIN stops at exactly the step's time; the *)
(* GUI looks at next_ticks between instructions only.                       *)
Tick(b) ==
    /\ Guest(b) /\ awake[b] /\ now[b] < next[b]
    /\ \E c \in Cycles(b) :
          /\ now[b] + c <= MaxTime
          /\ now' = [now EXCEPT ![b] = @ + c]
    /\ UNCHANGED <<life, next, words, peerPromise, due, chan, guest, step>>

(* A sleeping board's clock jumps to its next timer or step; a parked GUI   *)
(* without an event creeps.                                                 *)
Doze(b) ==
    LET target == IF b = "gui" /\ timer[b] = Never THEN now[b] + 1 ELSE timer[b]
    IN  /\ Guest(b) /\ ~awake[b]
        /\ now[b] < next[b] /\ now[b] < timer[b]
        /\ now' = [now EXCEPT ![b] = Least(MaxTime, Least(next[b], target))]
        /\ UNCHANGED <<life, next, words, peerPromise, due, chan, guest, step>>

WakeUp(b) ==
    /\ awake' = [awake EXCEPT ![b] = TRUE]
    /\ timer' = [timer EXCEPT ![b] = Never]

TimerFires(b) ==
    /\ Guest(b) /\ ~awake[b] /\ timer[b] <= now[b]
    /\ WakeUp(b)
    /\ UNCHANGED <<life, clocks, words, peerPromise, due, chan, step>>

Naps(b) == (now[b] + 1)..(now[b] + MaxNap)

Sleep(b) ==
    /\ Guest(b) /\ awake[b]
    /\ \E d \in Naps(b) \cup {Never} : timer' = [timer EXCEPT ![b] = d]
    /\ awake' = [awake EXCEPT ![b] = FALSE]
    /\ UNCHANGED <<life, clocks, words, peerPromise, due, chan, step>>

(* cdj_console_receive: the host raises an interrupt on a sleeping MAIN. *)
HostWake ==
    /\ HostInput /\ Guest("main") /\ ~awake["main"]
    /\ WakeUp("main")
    /\ UNCHANGED <<life, clocks, words, peerPromise, due, chan, step>>

(* cdj_cosim_send_record and bfin_cosim_send_request. *)
Send(b) ==
    /\ Guest(b) /\ awake[b] /\ sent[b] < MaxSent[b]
    /\ sent["main"] + sent["gui"] < MaxFrames
    /\ chan' = SendTo(Other(b), FrameMsg(now[b], sent[b] + 1))
    /\ sent' = [sent EXCEPT ![b] = @ + 1]
    /\ reported' = [reported EXCEPT ![b] = Most(@, now[b])]
    /\ UNCHANGED <<life, clocks, promised, peerPromise, due, guest, step>>

(* A slip: everything held is handed over, due or not. *)
AttachLinkAtOnce ==
    /\ Guest("gui") /\ awake["gui"] /\ ~attached
    /\ attached' = TRUE
    /\ due' = [due EXCEPT !["gui"] = <<>>]
    /\ UNCHANGED <<mode, clocks, words, peerPromise, chan, guest, step>>

(* bfin_cosim_attach_link: everything already due is handed over. *)
AttachLink ==
    /\ Guest("gui") /\ awake["gui"] /\ ~attached
    /\ attached' = TRUE
    /\ \E k \in 0..Len(due["gui"]) :
          /\ \A i \in 1..k : due["gui"][i].due <= now["gui"]
          /\ k < Len(due["gui"]) => due["gui"][k + 1].due > now["gui"]
          /\ due' = [due EXCEPT !["gui"] = SubSeq(@, k + 1, Len(@))]
    /\ UNCHANGED <<mode, clocks, words, peerPromise, chan, guest, step>>

-----------------------------------------------------------------------------
(* The step: cosim_step and bfin_cosim_step.                                *)

(* A slip: the latency is taken off the stamp. *)
FramesBackwards(s) ==
    LET f == SelectSeq(s, LAMBDA m : m.type = "frame")
    IN  [i \in 1..Len(f) |-> [due |-> f[i].promise - Quantum, n |-> f[i].n]]

(* The frames of a stream, each with the time at which it is to be taken.   *)
Frames(s) ==
    LET Upto[i \in 0..Len(s)] ==
            IF i = 0 THEN <<>>
            ELSE IF s[i].type # "frame" THEN Upto[i - 1]
            ELSE Append(Upto[i - 1], [due |-> s[i].promise + Quantum, n |-> s[i].n])
    IN  Upto[Len(s)]

(* cs.poll, on the first pass, offers MAIN's link again what it had no room *)
(* for.  A request wakes MAIN, is held, or is queued behind the link's      *)
(* inter-frame gap (a timer).                                               *)
PumpRequests ==
    \/ WakeUp("main")
    \/ UNCHANGED guest
    \/ /\ ~awake["main"]
       /\ \E d \in Naps("main") : timer' = [timer EXCEPT !["main"] = Least(@, d)]
       /\ UNCHANGED awake

(* A slip: what is due at this very time waits for the next step. *)
HandoverTooLate(b, q) ==
    \E k \in 0..Len(q) :
        /\ k > 0 => Listening(b)
        /\ \A i \in 1..k : q[i].due < now[b]
        /\ k < Len(q) /\ Listening(b) => q[k + 1].due >= now[b]
        /\ due' = [due EXCEPT ![b] = SubSeq(q, k + 1, Len(q))]
        /\ IF b = "main" /\ (k > 0 \/ pc[b] = "run")
           THEN PumpRequests ELSE UNCHANGED guest

(* cosim_deliver: of the queue q, everything due now is handed over.  The   *)
(* GUI's inject only stages a record.                                       *)
Handover(b, q) ==
    \E k \in 0..Len(q) :
        /\ k > 0 => Listening(b)
        /\ \A i \in 1..k : q[i].due <= now[b]
        /\ k < Len(q) /\ Listening(b) => q[k + 1].due > now[b]
        /\ due' = [due EXCEPT ![b] = SubSeq(q, k + 1, Len(q))]
        /\ IF b = "main" /\ (k > 0 \/ pc[b] = "run")
           THEN PumpRequests ELSE UNCHANGED guest

(* cosim_drain, cosim_parse: the first k messages have arrived; the rest of *)
(* the stream is still on its way.  Every message raises the promise.       *)
Drain(b, k) ==
    LET promises == {peerPromise[b]} \cup {chan[b][i].promise : i \in 1..k}
    IN  /\ \E p \in promises :
              /\ \A r \in promises : r <= p
              /\ peerPromise' = [peerPromise EXCEPT ![b] = p]
        /\ \E q \in {due[b] \o Frames(SubSeq(chan[b], 1, k))} : Handover(b, q)

(* Whether the CPU has nothing to do, as this pass sees it: of the GUI, what *)
(* the run loop said as it called, unless a record is waiting to be taken.  *)
Asleep(b) ==
    IF b = "main" THEN ~awake'["main"]
    ELSE IF pc[b] = "run" THEN ~awake["gui"] /\ ~Ripe("gui")'
    ELSE parked

(* Whether this pass tells the peer where we are. *)
MustReport(b, promise) ==
    \/ promise > promised[b]
    \/ pc[b] = "run" /\ now[b] - reported[b] >= Half
    \/ Blocked(b)' /\ (reported[b] # now[b] \/ promise # promised[b])

(* When the step's timer fires again. *)
NextStep(b, promise, told) ==
    LET horizon == peerPromise'[b] + Quantum
        pace == IF promise = now[b] THEN told + Half ELSE promise
    IN  Most(now[b] + 1, Least(HeadDue(b)', Least(horizon, pace)))

(* One pass over the step: its beginning when the timer fires, or one turn  *)
(* of its waiting loop when there is something to read.  Then it waits for  *)
(* the peer, or sets the timer and returns.                                 *)
Pass(b) ==
    /\ On(b)
    /\ UNCHANGED <<life, now, sent>>
    /\ \E k \in 0..Len(chan[b]) :
          /\ IF pc[b] = "run" THEN now[b] >= next[b] ELSE k > 0
          /\ Drain(b, k)
          /\ \E asleep \in {Asleep(b)}, blocked \in {Blocked(b)'} :
             \E promise \in {Promise(b, asleep)} :
             \E report \in {MustReport(b, promise)} :
             \E told \in {IF report THEN Most(reported[b], now[b]) ELSE reported[b]} :
             LET rest == [chan EXCEPT ![b] = SubSeq(@, k + 1, Len(@))]
             IN  /\ chan' = IF report /\ mode[Other(b)] # "gone"
                            THEN [rest EXCEPT ![Other(b)] = Append(@, Time(promise))]
                            ELSE rest
                 /\ reported' = [reported EXCEPT ![b] = told]
                 /\ promised' = [promised EXCEPT ![b] = IF report THEN promise ELSE @]
                 /\ pc' = [pc EXCEPT ![b] = IF blocked THEN "wait" ELSE "run"]
                 /\ parked' = IF b = "gui" THEN blocked /\ asleep ELSE parked
                 /\ next' = IF blocked THEN next
                            ELSE [next EXCEPT ![b] = NextStep(b, promise, told)]

-----------------------------------------------------------------------------
(* The end of a program, and what the other makes of it. *)

(* A slip: a step that loses its peer in its loop stays there. *)
DropStaysInLoop(b) ==
    /\ due' = [due EXCEPT ![b] = <<>>]
    /\ chan' = [chan EXCEPT ![b] = <<>>]
    /\ pc' = pc

Drop(b) ==
    /\ due' = [due EXCEPT ![b] = <<>>]
    /\ chan' = [chan EXCEPT ![b] = <<>>]
    /\ pc' = [pc EXCEPT ![b] = "run"]

Quit(b) ==
    /\ b \in MayQuit /\ On(b)
    /\ mode' = [mode EXCEPT ![b] = "gone"]
    /\ Drop(b)
    /\ UNCHANGED <<clocks, words, peerPromise, guest, parked, attached>>

(* cosim_lost and bfin_cosim_lost: recv or send on a closed connection.     *)
(* MAIN runs on alone, the GUI exits.                                       *)
Lost(b) ==
    /\ On(b) /\ mode[Other(b)] = "gone"
    /\ pc[b] # "run" \/ awake[b]
    /\ mode' = [mode EXCEPT ![b] = IF b = "main" THEN "alone" ELSE "gone"]
    /\ Drop(b)
    /\ UNCHANGED <<clocks, words, peerPromise, guest, parked, attached>>

RunsOn ==
    /\ mode["main"] = "alone" /\ now["main"] < MaxTime
    /\ now' = [now EXCEPT !["main"] = @ + 1]
    /\ UNCHANGED <<life, next, words, peerPromise, due, chan, guest, step>>

Progress(b) == Pass(b) \/ Tick(b) \/ Doze(b) \/ TimerFires(b) \/ Lost(b)

Next ==
    \/ GuiConnect \/ MainAccept \/ AcceptTimeout
    \/ \E b \in Boards : Progress(b) \/ Sleep(b) \/ Send(b) \/ Quit(b)
    \/ HostWake \/ AttachLink \/ RunsOn

(* Both programs are scheduled by their hosts, and MAIN's main loop accepts. *)
Fairness ==
    /\ WF_vars(MainAccept \/ AcceptTimeout)
    /\ \A b \in Boards : WF_vars(Progress(b))
    /\ WF_vars(RunsOn)

Spec == Init /\ [][Next]_vars /\ Fairness
-----------------------------------------------------------------------------
Msg == [type : {"hello", "time", "frame"}, promise : Nat, n : Nat]

DueFrame == [due : Nat, n : Nat]

TypeOK ==
    /\ mode \in [Boards -> {"off", "on", "alone", "gone"}]
    /\ pc \in [Boards -> {"run", "wait"}]
    /\ now \in [Boards -> 0..MaxTime]
    /\ next \in [Boards -> Nat]
    /\ reported \in [Boards -> Nat]
    /\ promised \in [Boards -> Nat]
    /\ peerPromise \in [Boards -> Nat]
    /\ due \in [Boards -> Seq(DueFrame)]
    /\ chan \in [Boards -> Seq(Msg)]
    /\ awake \in [Boards -> BOOLEAN]
    /\ timer \in [Boards -> Nat]
    /\ parked \in BOOLEAN
    /\ attached \in BOOLEAN
    /\ sent \in [Boards -> Nat]

-----------------------------------------------------------------------------
(* How far past the step an instruction may carry a clock. *)
Slack(b) == IF b = "gui" THEN MaxCycle - 1 ELSE 0

(* The frames on their way to b: queued for their time, or in the stream. *)
InFlight(b) == due[b] \o Frames(chan[b])

(* "neither board runs past the other's reported time + quantum" (the head  *)
(* of cdj2000_cosim.c): a clock is never further than what the peer has     *)
(* promised plus the latency, but for the rest of one instruction.          *)
WithinLookahead ==
    \A b \in Boards : On(b) => now[b] <= peerPromise[b] + Quantum + Slack(b)

(* bfin_cosim_attach_link does not set the step's timer anew for what it    *)
(* finds in the queue: less than half a quantum.                            *)
Held(b) == IF b = "gui" THEN Half - 1 ELSE 0

(* "so nothing can arrive in its past": a frame on its way to a board that  *)
(* listens is never overdue by more than the rest of one instruction, and   *)
(* one in the GUI's queue by no more than the link's opening explains.      *)
NoPastArrival ==
    \A b \in Boards : On(b) /\ Listening(b) =>
        /\ \A i \in 1..Len(due[b]) : due[b][i].due + Slack(b) + Held(b) >= now[b]
        /\ \A i \in 1..Len(Frames(chan[b])) :
              Frames(chan[b])[i].due + Slack(b) >= now[b]

(* The boards stay in step: no clock is too far ahead and no frame is late. *)
InStep == WithinLookahead /\ NoPastArrival

(* No frame late, with no allowance: what the comments of both files say.   *)
NeverLate ==
    \A b \in Boards : On(b) /\ Listening(b) =>
        \A i \in 1..Len(InFlight(b)) : InFlight(b)[i].due >= now[b]

(* A board keeps its promise: what it sends is stamped no earlier, and no   *)
(* later report takes the promise back (the peer has already used it).      *)
PromiseKept ==
    [][\A b \in Boards :
          /\ sent'[b] # sent[b] => now[b] >= promised[b]
          /\ promised'[b] >= promised[b]]_vars

(* The frames a board takes are taken at sending time plus quantum, in      *)
(* order, none twice, none missing: the pair of boards is a wire with a     *)
(* fixed latency.                                                           *)
Wire   == [b \in Boards |-> IF mode[b] \in {"off", "on"} THEN InFlight(b) ELSE <<>>]
Opened == [b \in Boards |-> Listening(b)]
OnLink == [b \in Boards |-> mode[b] \in {"off", "on"}]
Late   == [b \in Boards |-> Slack(b) + Held(b)]

Link == INSTANCE TimedLink WITH
    Latency <- Quantum,
    Jitter <- Late,
    clock <- now,
    line <- Wire,
    put <- sent,
    listens <- Opened,
    linked <- OnLink

LinkSpec == Link!Spec

(* The two boards never hold each other up: once both are on, both clocks   *)
(* reach the end, or one of the programs ends.                              *)
BothAdvance ==
    (\A b \in Boards : On(b)) ~>
        \/ \A b \in Boards : now[b] = MaxTime
        \/ \E b \in Boards : ~On(b)

(* A GUI that goes away does not take MAIN with it, wherever MAIN's step    *)
(* was: MAIN runs on alone; and a GUI without MAIN exits.                   *)
SurvivesLoss ==
    /\ (mode["gui"] = "gone") ~>
          \/ mode["main"] = "gone"
          \/ now["main"] = MaxTime /\ pc["main"] = "run"
    /\ (mode["main"] = "gone") ~>
          \/ mode["gui"] = "gone"
          \/ now["gui"] = MaxTime /\ pc["gui"] = "run"
=============================================================================
