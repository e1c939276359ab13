------------------------------ MODULE NetSync ------------------------------
(***************************************************************************)
(* Several players on one Pro DJ Link segment in one guest time: each      *)
(* player's end is emulator/qemu/cdj2000_netsim.c, the segment is the      *)
(* SyncHub of tools/cdj_main/link_hub.py (--sync), and the wire between    *)
(* them is one TCP stream each way.                                        *)
(*                                                                         *)
(* A player reports its guest time and a promise to the hub; the hub       *)
(* grants a player the least promise of the others and of its own replay,  *)
(* and a player stops a whole quantum past its grant.  A frame is stamped  *)
(* with its guest time of sending, goes through the hub to every other     *)
(* player and is taken one quantum after the stamp.                        *)
(*                                                                         *)
(* \E x \in {e} : ... names the value of e in a step.                      *)
(*                                                                         *)
(* An operator headed "A slip" is the definition below it with a mistake   *)
(* in it, for trying the properties; no specification uses one.            *)
(***************************************************************************)
EXTENDS Integers, Sequences, FiniteSets, SequencesExt

CONSTANTS
    Players,    \* the decks
    Half,       \* half a quantum (CDJ_NETSIM_QUANTUM_US), units of guest time
    Ahead,      \* how far ahead replayed frames are pushed (1 s)
    MayQuit,    \* the players whose program may end
    HubMayQuit, \* may the hub's
    MaxTime,    \* bound: no clock runs past this
    Setups      \* the command lines of the hub, each with the bounds it is
                \* explored to:
                \*   decks   --decks: hold everyone until so many have joined
                \*   replay  the guest times of the replayed capture's frames
                \*   asks    the decks' frames are ARP requests for a replayed sender
                \*   end     bound: clocks run to this
                \*   nap     bound: a timer of p asleep is at most nap[p] off
                \*   sends   bound: frames sent by each player

Quantum == 2 * Half

ASSUME NetSyncAssumption ==
    /\ IsFiniteSet(Players)
    /\ Half \in Nat \ {0} /\ MaxTime \in Nat /\ Ahead \in Nat
    /\ MayQuit \subseteq Players /\ HubMayQuit \in BOOLEAN
    /\ \A s \in Setups :
          /\ s.decks \in 1..Cardinality(Players) /\ s.asks \in BOOLEAN
          (* A capture's frames are in the order of their times: the hub *)
          (* takes them as they stand in the file. *)
          /\ s.replay \in Seq(0..MaxTime)
          /\ \A i, j \in 1..Len(s.replay) : i <= j => s.replay[i] <= s.replay[j]
          /\ s.end \in 0..MaxTime
          /\ s.nap \in [Players -> 0..Quantum] /\ s.sends \in [Players -> Nat]

(* INT64_MAX of a player and NEVER of the hub: later than all there is. *)
Never == MaxTime + 3 * Quantum + Ahead

VARIABLES
    setup,      \* how the hub was started
    mode,       \* off, on, alone (off the segment), gone (its program ended)
    pc,         \* run (the guest runs) or wait (in netsim_step's loop)
    now,        \* guest time of each player
    next,       \* when the step's timer fires
    reported,   \* ns.reported
    promised,   \* ns.promised
    peerPromise,\* ns.peer_promise: the hub's grant as the player knows it
    due,        \* frames received, in time order
    awake,      \* MAIN has work
    timer,      \* MAIN's next virtual timer while it sleeps
    sent,       \* frames sent so far
    up,         \* up[p]: the stream from p to the hub
    down,       \* down[p]: the stream from the hub to p
    hubUp,      \* the hub's program runs
    client,     \* the hub's record of each connection
    replayed,   \* how many of the replay's frames have been pushed
    known       \* the hub has sent a replayed frame: it knows its sender

own   == <<mode, pc, now, next, reported, promised, peerPromise, due,
           awake, timer, sent>>
hub   == <<setup, hubUp, client, replayed, known>>
vars  == <<own, up, down, hub>>

Least(x, y) == IF x <= y THEN x ELSE y
Most(x, y)  == IF x >= y THEN x ELSE y

(* The hub looks at a player's own time only to see how much of its replay  *)
(* to push.                                                                 *)
Stamp(t) == IF setup.replay = <<>> THEN 0 ELSE t

Hello == [type |-> "hello", t |-> 0, promise |-> 0, n |-> 0]
Time(t, p) == [type |-> "time", t |-> Stamp(t), promise |-> p, n |-> 0]
FrameUp(t, n) == [type |-> "frame", t |-> t, promise |-> t, n |-> n]

Grant(g) == [type |-> "time", t |-> g, src |-> "hub", n |-> 0]
FrameDown(t, s, n) == [type |-> "frame", t |-> t, src |-> s, n |-> n]

On(p) == mode[p] = "on"

(* What a guest does, it does before the end of the bounded time. *)
Guest(p) == On(p) /\ pc[p] = "run" /\ now[p] < setup.end

-----------------------------------------------------------------------------
(* The hub's view of a connection.                                          *)
NoClient == [conn |-> "none", joined |-> FALSE, t |-> 0, promise |-> 0, granted |-> -1]

Clients(c) == {p \in Players : c[p].conn = "open"}
Joined(c)  == {p \in Clients(c) : c[p].joined}

(* What is sent to a player whose program has ended is lost. *)
Reachable(p) == mode[p] \in {"on", "alone"}

SendDown(p, s, ms) == IF Reachable(p) THEN s \o ms ELSE s

SendUp(p, m) == IF hubUp THEN [up EXCEPT ![p] = Append(@, m)] ELSE up

Init ==
    /\ setup \in Setups
    /\ mode = [p \in Players |-> "off"]
    /\ pc = [p \in Players |-> "run"]
    /\ now = [p \in Players |-> 0]
    /\ next = [p \in Players |-> Half]
    /\ reported = [p \in Players |-> 0]
    /\ promised = [p \in Players |-> 0]
    /\ peerPromise = [p \in Players |-> 0]
    /\ due = [p \in Players |-> <<>>]
    /\ awake = [p \in Players |-> TRUE]
    /\ timer = [p \in Players |-> Never]
    /\ sent = [p \in Players |-> 0]
    /\ up = [p \in Players |-> <<>>]
    /\ down = [p \in Players |-> <<>>]
    /\ hubUp = TRUE
    /\ client = [p \in Players |-> NoClient]
    /\ replayed = 0
    /\ known = FALSE

-----------------------------------------------------------------------------
(* A player: the guest. *)

(* cdj_netsim_init: the hub is there or the program exits; guest time 0.   *)
(* As many are started as the hub was told of.                              *)
ToStart(p) ==
    mode[p] = "off" /\ Cardinality({q \in Players : mode[q] # "off"}) < setup.decks

Launch(p) ==
    /\ ToStart(p) /\ hubUp
    /\ mode' = [mode EXCEPT ![p] = "on"]
    /\ up' = SendUp(p, Hello)
    /\ UNCHANGED <<pc, now, next, reported, promised, peerPromise, due,
                   awake, timer, sent, down, hub>>

Tick(p) ==
    /\ Guest(p) /\ awake[p] /\ now[p] < next[p]
    /\ now' = [now EXCEPT ![p] = @ + 1]
    /\ UNCHANGED <<mode, pc, next, reported, promised, peerPromise, due,
                   awake, timer, sent, up, down, hub>>

Doze(p) ==
    /\ Guest(p) /\ ~awake[p]
    /\ now[p] < next[p] /\ now[p] < timer[p]
    /\ now' = [now EXCEPT ![p] = Least(setup.end, Least(next[p], timer[p]))]
    /\ UNCHANGED <<mode, pc, next, reported, promised, peerPromise, due,
                   awake, timer, sent, up, down, hub>>

TimerFires(p) ==
    /\ Guest(p) /\ ~awake[p] /\ timer[p] <= now[p]
    /\ awake' = [awake EXCEPT ![p] = TRUE]
    /\ timer' = [timer EXCEPT ![p] = Never]
    /\ UNCHANGED <<mode, pc, now, next, reported, promised, peerPromise,
                   due, sent, up, down, hub>>

Sleep(p) ==
    /\ Guest(p) /\ awake[p]
    /\ awake' = [awake EXCEPT ![p] = FALSE]
    /\ \E d \in ((now[p] + 1)..(now[p] + setup.nap[p])) \cup {Never} :
          timer' = [timer EXCEPT ![p] = d]
    /\ UNCHANGED <<mode, pc, now, next, reported, promised, peerPromise,
                   due, sent, up, down, hub>>

(* cdj_netsim_send: the Ethernet controller transmits a frame. *)
Send(p) ==
    /\ Guest(p) /\ awake[p] /\ sent[p] < setup.sends[p]
    /\ up' = SendUp(p, FrameUp(now[p], sent[p] + 1))
    /\ sent' = [sent EXCEPT ![p] = @ + 1]
    /\ reported' = [reported EXCEPT ![p] = Most(@, now[p])]
    /\ UNCHANGED <<mode, pc, now, next, promised, peerPromise, due,
                   awake, timer, down, hub>>

-----------------------------------------------------------------------------
(* A player: netsim_step. *)

HeadDue(p) == IF due[p] = <<>> THEN Never ELSE Head(due[p]).due

(* A slip: a sleeping player's queue is forgotten. *)
PromiseForgetsQueue(p) ==
    IF awake[p] THEN now[p]
    ELSE Most(now[p], Least(timer[p], peerPromise[p] + Quantum))

Promise(p) ==
    IF awake[p] THEN now[p]
    ELSE Most(now[p], Least(timer[p],
                            Least(HeadDue(p), peerPromise[p] + Quantum)))

Blocked(p) == now[p] >= peerPromise[p] + Quantum

(* A slip: a frame goes to the end of the queue, as on a wire with one      *)
(* sender.                                                                  *)
QueuedLast(q, f) == Append(q, f)

(* The queue stays in time order, ties in arrival order. *)
Queued(q, f) ==
    LET k == CHOOSE k \in 0..Len(q) :
                /\ \A i \in (k + 1)..Len(q) : q[i].due > f.due
                /\ k > 0 => q[k].due <= f.due
    IN  SubSeq(q, 1, k) \o <<f>> \o SubSeq(q, k + 1, Len(q))

(* A slip: the latency is forgotten. *)
TakeAtOnce(q, m) == IF m.type = "frame"
              THEN Queued(q, [due |-> m.t, src |-> m.src, n |-> m.n])
              ELSE q

(* netsim_parse: only a TIME lets the player run on. *)
Take(q, m) == IF m.type = "frame"
              THEN Queued(q, [due |-> m.t + Quantum, src |-> m.src, n |-> m.n])
              ELSE q

(* The queue q and the grant g, when the messages s have been read. *)
QueueAfter(q, s) ==
    LET Upto[i \in 0..Len(s)] == IF i = 0 THEN q ELSE Take(Upto[i - 1], s[i])
    IN  Upto[Len(s)]

GrantAfter(g, s) ==
    LET grants == {g} \cup {s[i].t : i \in {j \in 1..Len(s) : s[j].type = "time"}}
    IN  CHOOSE h \in grants : \A x \in grants : x <= h

(* netsim_drain: what has arrived; the rest is still on its way. *)
Drain(p) ==
    \E k \in 0..Len(down[p]) :
        /\ pc[p] = "wait" => k > 0
        /\ down' = [down EXCEPT ![p] = SubSeq(@, k + 1, Len(@))]
        /\ peerPromise' =
              [peerPromise EXCEPT ![p] = GrantAfter(@, SubSeq(down[p], 1, k))]
        (* netsim_deliver: everything due now leaves the queue. *)
        /\ \E q \in {QueueAfter(due[p], SubSeq(down[p], 1, k))} :
           \E ripe \in {Cardinality({i \in 1..Len(q) : \A j \in 1..i : q[j].due <= now[p]})} :
               /\ due' = [due EXCEPT ![p] = SubSeq(q, ripe + 1, Len(q))]
               /\ \/ UNCHANGED <<awake, timer>>
                  \/ /\ ripe > 0           (* the frame wakes the CPU *)
                     /\ awake' = [awake EXCEPT ![p] = TRUE]
                     /\ timer' = [timer EXCEPT ![p] = Never]

MustReport(p, promise) ==
    \/ promise > promised[p]
    \/ pc[p] = "run" /\ now[p] - reported[p] >= Half
    \/ Blocked(p)' /\ (reported[p] # now[p] \/ promise # promised[p])

NextStep(p, promise, told) ==
    LET horizon == peerPromise'[p] + Quantum
        pace == IF promise = now[p] THEN told + Half ELSE promise
    IN  Most(now[p] + 1, Least(HeadDue(p)', Least(horizon, pace)))

(* netsim_step, one pass: its beginning when the timer fires, or one turn   *)
(* of its waiting loop when there is something to read.  Then it waits for  *)
(* the hub, or sets the timer and returns.                                  *)
Pass(p) ==
    /\ On(p)
    /\ pc[p] = "run" => now[p] >= next[p]
    /\ UNCHANGED <<mode, now, sent, hub>>
    /\ Drain(p)
    /\ \E promise \in {Promise(p)'}, blocked \in {Blocked(p)'} :
       \E report \in {MustReport(p, promise)} :
       \E told \in {IF report THEN Most(reported[p], now[p]) ELSE reported[p]} :
           /\ up' = IF report THEN SendUp(p, Time(now[p], promise)) ELSE up
           /\ reported' = [reported EXCEPT ![p] = told]
           /\ promised' = [promised EXCEPT ![p] = IF report THEN promise ELSE @]
           /\ pc' = [pc EXCEPT ![p] = IF blocked THEN "wait" ELSE "run"]
           /\ next' = IF blocked THEN next ELSE [next EXCEPT ![p] = NextStep(p, promise, told)]

(* A slip: a step that loses the hub in its loop stays there. *)
DropStaysInLoop(p) ==
    /\ due' = [due EXCEPT ![p] = <<>>]
    /\ down' = [down EXCEPT ![p] = <<>>]
    /\ pc' = pc

Drop(p) ==
    /\ due' = [due EXCEPT ![p] = <<>>]
    /\ down' = [down EXCEPT ![p] = <<>>]
    /\ pc' = [pc EXCEPT ![p] = "run"]

(* netsim_lost: the hub is gone; the player is off the segment and runs on. *)
Lost(p) ==
    /\ On(p) /\ ~hubUp
    /\ pc[p] # "run" \/ awake[p]
    /\ mode' = [mode EXCEPT ![p] = "alone"]
    /\ Drop(p)
    /\ UNCHANGED <<now, next, reported, promised, peerPromise, awake,
                   timer, sent, up, hub>>

RunsOn(p) ==
    /\ mode[p] = "alone" /\ now[p] < setup.end
    /\ now' = [now EXCEPT ![p] = @ + 1]
    /\ UNCHANGED <<mode, pc, next, reported, promised, peerPromise, due,
                   awake, timer, sent, up, down, hub>>

(* A player's program ends; its socket is closed. *)
Quit(p) ==
    /\ p \in MayQuit /\ On(p)
    /\ mode' = [mode EXCEPT ![p] = "gone"]
    /\ Drop(p)
    /\ UNCHANGED <<now, next, reported, promised, peerPromise, awake,
                   timer, sent, up, hub>>

-----------------------------------------------------------------------------
(* The hub: one turn of its loop serves a socket, pushes the replay and     *)
(* raises the grants.  A turn that reads several messages at once is to     *)
(* every player the same as several turns.                                  *)

(* A slip: the replay does not bound a grant. *)
ReplayDueNever(r) == Never

ReplayDue(r) == IF r < Len(setup.replay) THEN setup.replay[r + 1] ELSE Never

(* SyncHub.push_replay: how far the replay is due, a while ahead of the     *)
(* foremost client.                                                         *)
Pushed(c) ==
    LET ready == {r \in replayed..Len(setup.replay) :
                   \A i \in (replayed + 1)..r :
                      \E p \in Clients(c) : setup.replay[i] <= c[p].t + Ahead}
    IN  CHOOSE r \in ready : \A x \in ready : x <= r

(* A slip: the first deck is let go before the others have joined. *)
GrantOfAtOnce(c, r, p) ==
    LET bounds == {c[q].promise : q \in Joined(c) \ {p}} \cup {ReplayDue(r)}
    IN  IF p \notin Joined(c) THEN 0
        ELSE CHOOSE g \in bounds : \A h \in bounds : g <= h

(* A slip: off by one in the number of decks. *)
GrantOfNeverAll(c, r, p) ==
    LET bounds == {c[q].promise : q \in Joined(c) \ {p}} \cup {ReplayDue(r)}
    IN  IF Cardinality(Joined(c)) <= setup.decks THEN 0
        ELSE CHOOSE g \in bounds : \A h \in bounds : g <= h

(* SyncHub.grant: the least promise of the other players and of the replay; *)
(* nothing while too few have joined.                                       *)
GrantOf(c, r, p) ==
    LET bounds == {c[q].promise : q \in Joined(c) \ {p}} \cup {ReplayDue(r)}
    IN  IF Cardinality(Joined(c)) < setup.decks THEN 0
        ELSE CHOOSE g \in bounds : \A h \in bounds : g <= h

(* The rest of the turn, from the clients c and streams d the service left. *)
(* A replayed frame goes to everyone, or to nobody when it is not a         *)
(* broadcast and no deck has announced itself (update_grants comes last).   *)
PushAndGrant(c, d) ==
    \E r \in {Pushed(c)} :
    \E grant \in {[p \in Players |-> GrantOf(c, r, p)]} :
    LET raised == {p \in Clients(c) : grant[p] > c[p].granted}
        frames == [i \in 1..(r - replayed) |-> FrameDown(setup.replay[replayed + i], "hub", 0)]
    IN  /\ replayed' = r
        /\ client' = [p \in Players |->
              IF p \in raised THEN [c[p] EXCEPT !.granted = grant[p]] ELSE c[p]]
        /\ \E flows \in IF frames = <<>> THEN {FALSE} ELSE BOOLEAN :
              /\ known' = (known \/ flows)
              /\ down' = [p \in Players |->
                    SendDown(p, d[p], (IF flows /\ p \in Clients(c) THEN frames ELSE <<>>)
                                      \o (IF p \in raised THEN <<Grant(grant[p])>>
                                          ELSE <<>>))]

HubAccept(p) ==
    /\ hubUp
    /\ mode[p] # "off" /\ client[p].conn = "none"
    /\ PushAndGrant([client EXCEPT ![p] = [@ EXCEPT !.conn = "open"]], down)
    /\ UNCHANGED <<own, up, setup, hubUp>>

(* What the hub notes of a message from the connection k. *)
Heard(k, m) ==
    [k EXCEPT !.t = Most(@, Stamp(m.t)), !.joined = @ \/ m.type = "hello",
              !.promise = Most(@, m.promise)]

(* SyncHub.message: one message of p's.  A frame goes to every other client,*)
(* and an ARP request for a replayed sender is answered on its behalf,      *)
(* stamped no earlier than what p has been granted.                         *)
HubMessage(p) ==
    LET m == Head(up[p])
        answer == FrameDown(Most(m.t, client[p].granted), "hub", m.n)
        heard == [client EXCEPT ![p] = Heard(@, m)]
        flooded == [q \in Players |->
                      IF m.type # "frame" \/ q \notin Clients(client) THEN down[q]
                      ELSE IF q # p THEN SendDown(q, down[q], <<FrameDown(m.t, p, m.n)>>)
                      ELSE IF setup.asks /\ known THEN SendDown(q, down[q], <<answer>>)
                      ELSE down[q]]
    IN  /\ hubUp
        /\ p \in Clients(client) /\ up[p] # <<>>
        /\ up' = [up EXCEPT ![p] = Tail(@)]
        /\ PushAndGrant(heard, flooded)
        /\ UNCHANGED <<own, setup, hubUp>>

(* Hub.drop: the connection of a program that has ended, all of it read. *)
HubDrop(p) ==
    /\ hubUp
    /\ p \in Clients(client) /\ mode[p] = "gone" /\ up[p] = <<>>
    /\ PushAndGrant([client EXCEPT ![p] = [@ EXCEPT !.conn = "closed"]], down)
    /\ UNCHANGED <<own, up, setup, hubUp>>

HubQuit ==
    /\ HubMayQuit /\ hubUp
    /\ hubUp' = FALSE
    /\ up' = [p \in Players |-> <<>>]
    /\ UNCHANGED <<own, setup, down, client, replayed, known>>

-----------------------------------------------------------------------------
Progress(p) ==
    \/ Tick(p) \/ Doze(p) \/ TimerFires(p) \/ RunsOn(p) \/ Lost(p)
    \/ Pass(p)

HubServes(p) == HubAccept(p) \/ HubMessage(p) \/ HubDrop(p)

Next ==
    \/ \E p \in Players : \/ Progress(p) \/ HubServes(p)
                          \/ Launch(p) \/ Sleep(p) \/ Send(p) \/ Quit(p)
    \/ HubQuit

(* Every program is scheduled, the hub's loop serves every ready socket and *)
(* every deck is started.                                                   *)
Fairness ==
    /\ \A p \in Players : WF_vars(Progress(p)) /\ WF_vars(HubServes(p)) /\ WF_vars(Launch(p))

Spec == Init /\ [][Next]_vars /\ Fairness
-----------------------------------------------------------------------------
UpMsg == [type : {"hello", "time", "frame"}, t : Nat, promise : Nat, n : Nat]
DownMsg == [type : {"time", "frame"}, t : Nat, src : Players \cup {"hub"}, n : Nat]

TypeOK ==
    /\ setup \in Setups
    /\ mode \in [Players -> {"off", "on", "alone", "gone"}]
    /\ pc \in [Players -> {"run", "wait"}]
    /\ now \in [Players -> 0..setup.end]
    /\ next \in [Players -> 0..Never]
    /\ reported \in [Players -> 0..Never]
    /\ promised \in [Players -> 0..Never]
    /\ peerPromise \in [Players -> 0..Never]
    /\ due \in [Players -> Seq([due : Nat, src : Players \cup {"hub"}, n : Nat])]
    /\ \A p \in Players : \A i, j \in 1..Len(due[p]) : i < j => due[p][i].due <= due[p][j].due
    /\ awake \in [Players -> BOOLEAN]
    /\ timer \in [Players -> 0..Never]
    /\ sent \in [Players -> Nat]
    /\ up \in [Players -> Seq(UpMsg)]
    /\ down \in [Players -> Seq(DownMsg)]
    /\ hubUp \in BOOLEAN
    /\ client \in [Players -> [conn : {"none", "open", "closed"}, joined : BOOLEAN,
                               t : Nat, promise : Nat, granted : Nat \cup {-1}]]
    /\ replayed \in 0..Len(setup.replay)
    /\ known \in BOOLEAN

(* The stamps of the frames that may still reach p: queued, coming from the *)
(* hub, or on their way from another player to the hub.                     *)
Stamps(s) == {s[i].t : i \in {j \in 1..Len(s) : s[j].type = "frame"}}

StillToCome(p) ==
    Stamps(down[p]) \cup
    (IF p \in Clients(client) THEN UNION {Stamps(up[q]) : q \in Players \ {p}} ELSE {})

(* "so nothing can arrive in a player's past" (head of cdj2000_netsim.c):   *)
(* whatever the hub or another player has on the way to p, through however  *)
(* many streams, is due when p's clock is not past it, and what p has       *)
(* queued it takes in time.                                                 *)
NoPastArrival ==
    \A p \in Players : On(p) =>
        /\ \A t \in StillToCome(p) : t + Quantum >= now[p]
        /\ \A i \in 1..Len(due[p]) : due[p][i].due >= now[p]

(* End to end: no player runs more than one latency past what another has   *)
(* promised or reached; in particular one that was launched alone does not  *)
(* leave its first quantum before all have joined.                          *)
KeepsPace ==
    hubUp => \A p, q \in Players :
        On(p) /\ (On(q) \/ ToStart(q)) =>
            now[p] <= Most(now[q], promised[q]) + Quantum

(* A player sends nothing before what it promised, and takes no promise     *)
(* back, although frames of several senders reach it in any order.          *)
PromiseKept ==
    [][\A p \in Players :
          /\ sent'[p] # sent[p] => now[p] >= promised[p]
          /\ promised'[p] >= promised[p]]_vars

(* The frames the hub has sent to p and p has not taken, with the time each *)
(* is due; they differ in sender, number or stamp.                          *)
Undelivered(p) ==
    LET coming == {i \in 1..Len(down[p]) : down[p][i].type = "frame"}
    IN  ToSet(due[p]) \cup
        {[due |-> down[p][i].t + Quantum, src |-> down[p][i].src, n |-> down[p][i].n] :
            i \in coming}

(* "a frame sent at guest time t reaches the other players at t + quantum,  *)
(* never earlier": what leaves the streams and the queue for the guest,     *)
(* leaves them at the very time.                                            *)
TakenOnTime ==
    [][\A p \in Players :
          On(p) /\ mode'[p] = "on" =>
             \A f \in Undelivered(p) \ Undelivered(p)' : f.due = now[p]]_vars

(* The players and the hub never hold each other up: the clock of each that *)
(* is started reaches the end, unless a program ends.                       *)
AllAdvance ==
    \A p \in Players : On(p) ~> (now[p] = setup.end \/ ~hubUp \/ \E q \in Players : mode[q] = "gone")

(* A hub that goes away does not stop the players: each that was on the     *)
(* segment runs on, off it.                                                 *)
SurvivesHub ==
    \A p \in Players : (~hubUp /\ mode[p] # "off") ~>
        (now[p] = setup.end /\ pc[p] = "run") \/ mode[p] = "gone"

(* "the hub answers a deck's ARP for a replayed sender's address on its     *)
(* behalf": an answer waiting in a deck's queue has a time that a guest     *)
(* clock reaches; one that is due at NEVER stays in the queue.              *)
ArpAnswered ==
    \A p \in Players : \A i \in 1..Len(due[p]) :
        due[p][i].src = "hub" => due[p][i].due < Never
=============================================================================
