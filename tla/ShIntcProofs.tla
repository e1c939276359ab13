---------------------------- MODULE ShIntcProofs ----------------------------
(***************************************************************************)
(* IntrExact for every set of sources and levels.  Handlers nest upwards   *)
(* because SR's mask always shows how far the topmost handler has come,    *)
(* and nothing is forgotten because a task's mask is all or nothing: what  *)
(* it does not accept when it leaves the loop, it accepts only after a     *)
(* write of SR, or after the number of pending sources has left 0.         *)
(***************************************************************************)
EXTENDS ShIntc, TLAPS

IntrSpec == IntrInit /\ [][IntrNext]_intrVars

Sr == [imask : Int, bl : BOOLEAN]
Phases == {"entered", "window", "body", "cleared", "leaving"}
Handler == [source : Sources, level : Int, phase : Phases, entry : Int, saved : Sr]

Typed ==
    /\ lines \subseteq Sources /\ prio \in [Sources -> Int]
    /\ \A s \in Sources : prio[s] = 0 \/ prio[s] = IntrLevels[s]
    /\ requested \in BOOLEAN /\ kicked \in BOOLEAN /\ asleep \in BOOLEAN
    /\ sr \in Sr /\ ssr \in Sr /\ handlers \in Seq(Handler)

(* The mask that was in force below a handler. *)
Below(i) == IF i = 1 THEN 0 ELSE handlers[i - 1].level

Stacked ==
    /\ \A i \in DOMAIN handlers :
          /\ handlers[i].level = IntrLevels[handlers[i].source]
          /\ handlers[i].phase # "entered" => handlers[i].saved.imask = Below(i)
          /\ i < Len(handlers) => handlers[i].phase \in {"body", "cleared"}
    /\ \A i, j \in DOMAIN handlers : i < j => handlers[i].level < handlers[j].level

(* How far the topmost handler has come shows in SR and SSR. *)
InForce ==
    handlers # <<>> =>
        LET n == Len(handlers)
            top == handlers[n]
        IN  /\ ~asleep
            /\ top.phase = "entered" => sr.bl /\ sr.imask = top.level /\ ssr.imask = Below(n)
            /\ top.phase = "window" => sr.imask = IntrWindow /\ top.entry = top.level
            /\ top.phase \in {"body", "cleared"} => sr.imask = top.level
            /\ top.phase = "leaving" => sr.bl /\ ssr = top.saved

(* A task's mask is all or nothing. *)
TaskMask == handlers = <<>> => sr.imask \in {0, 15}

Offered ==
    /\ requested = (PendingSources # {})
    /\ handlers = <<>> /\ cpu = "chained" /\ ~asleep /\ Accepts => kicked

Inv == Typed /\ Stacked /\ InForce /\ TaskMask /\ Offered

-----------------------------------------------------------------------------
(* The firmware's levels are positive and below the prologue's mask.        *)
LEMMA Levels ==
    ASSUME NEW s \in Sources
    PROVE  IntrLevels[s] \in Int /\ 0 < IntrLevels[s] /\ IntrLevels[s] < 15
           /\ IntrLevels[s] < IntrWindow /\ IntrWindow \in Int
  BY IntrAssumption DEF Sources

(* At reset everything is masked and no handler runs.                       *)
LEMMA InitInv == IntrInit => Inv
<1> SUFFICES ASSUME IntrInit PROVE Inv
  OBVIOUS
<1>1. handlers = <<>> /\ lines = {} /\ sr = Masked /\ ssr = Masked /\ cpu = "loop"
      /\ requested = FALSE /\ kicked = FALSE /\ asleep = FALSE /\ prio = Reset0
  BY DEF IntrInit
<1>2. Reset0 \in [Sources -> Int] /\ \A s \in Sources : Reset0[s] = 0 \/ Reset0[s] = IntrLevels[s]
  BY Levels DEF Reset0
<1>3. Masked \in Sr /\ Masked.imask = 15
  BY DEF Masked, Sr
<1>4. Typed
  <2>1. handlers \in Seq(Handler)
    BY <1>1
  <2> QED
    BY <1>1, <1>2, <1>3, <2>1 DEF Typed
<1>5. Stacked /\ InForce /\ TaskMask
  BY <1>1, <1>3 DEF Stacked, InForce, TaskMask
<1>6. Offered
  BY <1>1 DEF Offered, PendingSources, PendingAt
<1> QED
  BY <1>4, <1>5, <1>6 DEF Inv

(* A line or a level changes: nothing becomes acceptable without a kick.   *)
LEMMA SettleInv ==
    ASSUME Inv, NEW up \in SUBSET Sources, NEW level \in [Sources -> Int],
           \A s \in Sources : level[s] = 0 \/ level[s] = IntrLevels[s],
           Settle(up, level), UNCHANGED <<cpu, asleep, sr, ssr, handlers>>
    PROVE  Inv'
<1>1. /\ lines' = up /\ prio' = level /\ requested' = (PendingSources' # {})
      /\ kicked' = (kicked \/ (PendingSources = {} /\ PendingSources' # {}))
  BY DEF Settle, PendingSources
<1>2. Typed'
  <2>1. requested' \in BOOLEAN /\ kicked' \in BOOLEAN
    BY <1>1
  <2> QED
    BY <1>1, <2>1 DEF Inv, Typed
<1>3. Stacked' /\ InForce' /\ TaskMask'
  BY DEF Inv, Stacked, InForce, TaskMask, Below
<1>4. ASSUME handlers = <<>>, cpu = "chained", ~asleep, Accepts'
      PROVE  kicked'
  <2>1. PICK s \in PendingSources' : prio'[s] > sr.imask /\ ~sr.bl
    BY <1>4 DEF Accepts
  <2>2. s \in Sources /\ prio'[s] < 15 /\ prio'[s] \in Int
    BY <1>1, <2>1, Levels DEF PendingSources, PendingAt
  <2>3. sr.imask = 0
    <3>1. sr.imask \in {0, 15}
      BY <1>4 DEF Inv, TaskMask
    <3>2. sr.imask # 15
      BY <2>1, <2>2
    <3> QED
      BY <3>1, <3>2
  <2>4. CASE PendingSources # {}
    BY <1>1, <1>4, <2>1, <2>3, <2>4 DEF Inv, Offered, Accepts, PendingSources, PendingAt
  <2> QED
    BY <1>1, <2>1, <2>4
<1> QED
  BY <1>1, <1>2, <1>3, <1>4 DEF Inv, Offered

-----------------------------------------------------------------------------
(* The controller and the CPU's loop. *)
LEMMA LinesInv ==
    ASSUME Inv, NEW s \in Sources, RaiseLine(s) \/ SetLevel(s) \/ PollDevice(s)
    PROVE  Inv'
<1>1. CASE RaiseLine(s)
  BY <1>1, SettleInv DEF RaiseLine, Inv, Typed
<1>2. CASE SetLevel(s)
  <2> DEFINE level == [prio EXCEPT ![s] = IF @ = 0 THEN IntrLevels[s] ELSE 0]
  <2>1. level \in [Sources -> Int] /\ \A t \in Sources : level[t] = 0 \/ level[t] = IntrLevels[t]
    BY Levels DEF Inv, Typed
  <2>2. lines \in SUBSET Sources
    BY DEF Inv, Typed
  <2> QED
    BY <1>2, <2>1, <2>2, SettleInv DEF SetLevel
<1>3. CASE PollDevice(s)
  BY <1>3, SettleInv DEF PollDevice, Inv, Typed
<1> QED
  BY <1>1, <1>2, <1>3

(* Leaving the loop with something acceptable needs the kick.               *)
LEMMA LoopInv ==
    ASSUME Inv, EnterBlocks \/ LeaveBlocks \/ RunSlot
    PROVE  Inv'
<1>1. /\ UNCHANGED <<lines, prio, requested, asleep, sr, ssr, handlers>>
      /\ kicked' = FALSE
      /\ cpu' = "chained" => ~(requested /\ Accepts)
  BY DEF EnterBlocks, LeaveBlocks, RunSlot
<1>2. Typed' /\ Stacked' /\ InForce' /\ TaskMask'
  BY <1>1 DEF Inv, Typed, Stacked, InForce, TaskMask, Below
<1>3. PendingSources' = PendingSources /\ (Accepts' <=> Accepts)
  BY <1>1 DEF PendingSources, Accepts
<1>4. Accepts => requested
  BY DEF Accepts, Inv, Offered
<1> QED
  BY <1>1, <1>2, <1>3, <1>4 DEF Inv, Offered

(* An interrupt taken is above the mask, so above every handler below it.   *)
LEMMA TakeInv ==
    ASSUME Inv, TakeInterrupt
    PROVE  Inv'
<1>0. PICK n \in Nat : n = Len(handlers)
  BY DEF Inv, Typed
<1> DEFINE m == n + 1
<1>1. PICK s \in PendingVector(sr.imask) :
          /\ ssr' = sr /\ sr' = [imask |-> prio[s], bl |-> TRUE]
          /\ handlers' = Append(handlers,
                [source |-> s, level |-> prio[s], phase |-> "entered",
                 entry |-> 0, saved |-> Masked])
  BY DEF TakeInterrupt
<1> DEFINE new == [source |-> s, level |-> prio[s], phase |-> "entered",
                   entry |-> 0, saved |-> Masked]
<1>2. /\ cpu' = "chained" /\ kicked' = FALSE /\ asleep' = FALSE
      /\ UNCHANGED <<lines, prio, requested>> /\ ~(sr.bl /\ ~asleep)
  BY DEF TakeInterrupt, Accepts
<1>3. s \in Sources /\ prio[s] > 0 /\ prio[s] > sr.imask /\ prio[s] = IntrLevels[s]
      /\ prio[s] \in Int
  BY Levels DEF PendingVector, PendingSources, PendingAt, Inv, Typed
<1>4. new \in Handler /\ new.level = prio[s] /\ new.phase = "entered" /\ new.source = s
  BY <1>3 DEF Handler, Masked, Sr, Phases
<1>5. handlers \in Seq(Handler) /\ handlers' = Append(handlers, new)
  BY <1>1 DEF Inv, Typed
<1> HIDE DEF new
<1>6. /\ DOMAIN handlers' = 1..m /\ Len(handlers') = m /\ handlers'[m] = new
      /\ handlers' # <<>> /\ handlers' \in Seq(Handler)
      /\ DOMAIN handlers = 1..n /\ n \in Nat /\ Len(handlers) = n
      /\ n = 0 => handlers = <<>>
      /\ m = n + 1 /\ m \in Nat
      /\ \A i \in 1..n : handlers'[i] = handlers[i] /\ handlers[i] \in Handler
  BY <1>0, <1>4, <1>5
<1> HIDE DEF m
<1>7. Typed'
  BY <1>1, <1>2, <1>3, <1>6 DEF Inv, Typed, Sr
<1>8. n # 0 => /\ handlers[n].phase \in {"body", "cleared"} /\ sr.imask = handlers[n].level
               /\ handlers[n].level < prio[s]
  <2> SUFFICES ASSUME n # 0 
               PROVE  handlers[n].phase \in {"body", "cleared"} /\ sr.imask = handlers[n].level
    BY <1>3
  <2>1. handlers # <<>> /\ handlers[n] \in Handler /\ n = Len(handlers)
    BY <1>6
  <2>2. ~asleep /\ ~sr.bl
    BY <1>2, <2>1 DEF Inv, InForce
  <2>3. handlers[n].phase \notin {"entered", "leaving"}
    BY <2>1, <2>2 DEF Inv, InForce
  <2>4. handlers[n].phase # "window"
    BY <1>3, <2>1, Levels DEF Inv, InForce
  <2>5. handlers[n].phase \in {"body", "cleared"}
    BY <2>1, <2>3, <2>4 DEF Handler, Phases
  <2> QED
    BY <2>1, <2>5 DEF Inv, InForce
<1>9. sr.imask = IF n = 0 THEN 0 ELSE handlers[n].level
  <2>1. CASE n = 0
    <3>1. handlers = <<>>
      BY <1>6, <2>1
    <3> QED
      BY <1>3, <2>1, <3>1, Levels DEF Inv, TaskMask
  <2> QED
    BY <1>8, <2>1
<1>10. Stacked'
  <2>1. ASSUME NEW i \in 1..m
        PROVE  /\ handlers'[i].level = IntrLevels[handlers'[i].source]
               /\ handlers'[i].phase # "entered" => handlers'[i].saved.imask = Below(i)'
               /\ i < m => handlers'[i].phase \in {"body", "cleared"}
    <3>1. CASE i = m
      BY <1>3, <1>4, <1>6, <3>1
    <3>2. CASE i \in 1..n
      <4>1. Below(i)' = Below(i)
        BY <1>6, <3>2 DEF Below
      <4> QED
        BY <1>6, <1>8, <3>2, <4>1 DEF Inv, Stacked
    <3> QED
      BY <1>6, <3>1, <3>2
  <2>2. ASSUME NEW i \in 1..m, NEW j \in 1..m, i < j
        PROVE  handlers'[i].level < handlers'[j].level
    <3>1. CASE j = m
      <4>1. i \in 1..n /\ n # 0 /\ n \in 1..n
        BY <1>6, <2>2, <3>1
      <4>2. handlers[i].level \in Int /\ handlers[n].level \in Int
        BY <1>6, <4>1 DEF Handler
      <4>3. i = n \/ (i < n /\ i \in DOMAIN handlers /\ n \in DOMAIN handlers)
        BY <1>6, <4>1
      <4>4. i = n \/ handlers[i].level < handlers[n].level
        BY <4>3 DEF Inv, Stacked
      <4>5. handlers[i].level < prio[s]
        BY <1>3, <1>8, <4>1, <4>2, <4>4
      <4>6. handlers'[i] = handlers[i] /\ handlers'[j].level = prio[s]
        BY <1>4, <1>6, <3>1, <4>1
      <4> QED
        BY <4>5, <4>6
    <3>2. CASE j \in 1..n
      <4>1. i \in 1..n
        BY <1>6, <2>2, <3>2
      <4> QED
        BY <1>6, <2>2, <3>2, <4>1 DEF Inv, Stacked
    <3> QED
      BY <1>6, <3>1, <3>2
  <2> QED
    BY <1>6, <2>1, <2>2 DEF Stacked
<1>11. InForce'
  <2>1. Below(m)' = IF n = 0 THEN 0 ELSE handlers[n].level
    <3>1. CASE n = 0
      BY <1>6, <3>1 DEF Below
    <3>2. CASE n # 0
      <4>1. m # 1 /\ m - 1 = n /\ n \in 1..n
        BY <1>6, <3>2
      <4> QED
        BY <1>6, <3>2, <4>1 DEF Below
    <3> QED
      BY <3>1, <3>2
  <2>2. /\ sr'.bl /\ sr'.imask = handlers'[m].level /\ ssr'.imask = Below(m)'
        /\ handlers'[m].phase = "entered" /\ ~asleep' /\ Len(handlers') = m
    BY <1>1, <1>2, <1>4, <1>6, <1>9, <2>1
  <2> QED
    BY <2>2 DEF InForce
<1>12. TaskMask' /\ Offered'
  BY <1>2, <1>6 DEF Inv, TaskMask, Offered, PendingSources
<1> QED
  BY <1>7, <1>10, <1>11, <1>12 DEF Inv

-----------------------------------------------------------------------------
(* The firmware.  Each of its steps changes SR, and with it the topmost    *)
(* handler at most.                                                        *)
LEMMA NothingOffered ==
    ASSUME Inv, UNCHANGED <<lines, prio, requested>>, cpu' # "chained" \/ handlers' # <<>>
    PROVE  Offered'
<1>1. PendingSources' = PendingSources
  BY DEF PendingSources
<1> QED
  BY <1>1 DEF Inv, Offered

(* The topmost handler's phase changes; those below it stay.                *)
LEMMA TopChanges ==
    ASSUME Inv, NEW n \in Nat, n = Len(handlers), handlers # <<>>, NEW top \in Handler,
           handlers' = [handlers EXCEPT ![n] = top],
           top.source = handlers[n].source, top.level = handlers[n].level,
           top.phase # "entered" => top.saved.imask = Below(n)
    PROVE  /\ handlers' \in Seq(Handler) /\ Len(handlers') = n /\ handlers' # <<>>
           /\ handlers'[n] = top /\ Below(n)' = Below(n)
           /\ Stacked'
<1>1. /\ handlers \in Seq(Handler) /\ n \in 1..n /\ n # 0 /\ DOMAIN handlers = 1..n
  BY DEF Inv, Typed
<1>2. /\ handlers' \in Seq(Handler) /\ Len(handlers') = n /\ handlers' # <<>>
      /\ DOMAIN handlers' = 1..n /\ handlers'[n] = top
      /\ \A i \in 1..n : i # n => handlers'[i] = handlers[i]
  BY <1>1
<1>3. \A i \in 1..n : handlers'[i].level = handlers[i].level /\ handlers'[i].source = handlers[i].source
  BY <1>2
<1>4. ASSUME NEW i \in 1..n
      PROVE  Below(i)' = Below(i)
  <2>1. i = 1 \/ i - 1 \in 1..n
    BY <1>1
  <2> QED
    BY <1>3, <2>1 DEF Below
<1>5. ASSUME NEW i \in 1..n
      PROVE  /\ handlers'[i].level = IntrLevels[handlers'[i].source]
             /\ handlers'[i].phase # "entered" => handlers'[i].saved.imask = Below(i)'
             /\ i < n => handlers'[i].phase \in {"body", "cleared"}
  <2>1. CASE i = n
    BY <1>1, <1>2, <1>3, <1>4, <2>1 DEF Inv, Stacked
  <2>2. CASE i # n
    BY <1>1, <1>2, <1>4, <2>2 DEF Inv, Stacked
  <2> QED
    BY <2>1, <2>2
<1>6. \A i, j \in 1..n : i < j => handlers'[i].level < handlers'[j].level
  BY <1>1, <1>3 DEF Inv, Stacked
<1>7. Stacked'
  BY <1>2, <1>5, <1>6 DEF Stacked
<1> QED
  BY <1>1, <1>2, <1>4, <1>7

(* A task masks everything or nothing, and sleeps with nothing masked.      *)
LEMMA TaskInv ==
    ASSUME Inv, TaskMasks \/ TaskSleeps
    PROVE  Inv'
<1>1. /\ handlers = <<>> /\ handlers' = handlers /\ cpu' = "loop"
      /\ UNCHANGED <<lines, prio, requested, kicked, ssr>>
      /\ asleep' \in BOOLEAN /\ sr'.imask \in {0, 15} /\ sr' \in Sr
  <2>1. CASE TaskMasks
    <3>1. PICK imask \in {0, 15} : sr' = [imask |-> imask, bl |-> FALSE]
      BY <2>1 DEF TaskMasks, WriteSr
    <3> QED
      BY <2>1, <3>1 DEF TaskMasks, WriteSr, Sr, Inv, Typed
  <2>2. CASE TaskSleeps
    BY <2>2 DEF TaskSleeps, Inv, Typed, TaskMask
  <2> QED
    BY <2>1, <2>2
<1>2. Typed' /\ TaskMask'
  BY <1>1 DEF Inv, Typed, TaskMask
<1>3. Stacked' /\ InForce'
  BY <1>1 DEF Inv, Stacked, InForce
<1>4. Offered'
  BY <1>1, NothingOffered
<1> QED
  BY <1>2, <1>3, <1>4 DEF Inv

(* The prologue's window masks every source, then admits those above its own. *)
LEMMA PrologueInv ==
    ASSUME Inv, OpenWindow \/ CloseWindow
    PROVE  Inv'
<1>1. PICK n \in Nat : n = Len(handlers)
  BY DEF Inv, Typed
<1>2. /\ handlers # <<>> /\ cpu' = "loop" /\ Top = handlers[n] /\ handlers[n] \in Handler
      /\ UNCHANGED <<lines, prio, requested, kicked, asleep, ssr>>
      /\ sr \in Sr /\ ssr \in Sr /\ handlers \in Seq(Handler) /\ ~asleep
      /\ handlers[n].level = IntrLevels[handlers[n].source]
  BY <1>1 DEF OpenWindow, CloseWindow, InPhase, WriteSr, Top, Inv, Typed, Stacked, InForce
<1>3. CASE OpenWindow
  <2> DEFINE top == [handlers[n] EXCEPT !.phase = "window", !.saved = ssr, !.entry = sr.imask]
  <2>1. handlers[n].phase = "entered" /\ handlers' = [handlers EXCEPT ![n] = top]
        /\ sr' = [imask |-> IntrWindow, bl |-> FALSE]
    BY <1>1, <1>2, <1>3 DEF OpenWindow, InPhase, WriteSr, Top
  <2>2. sr.imask = handlers[n].level /\ ssr.imask = Below(n)
    BY <1>1, <1>2, <2>1 DEF Inv, InForce
  <2>3. /\ top \in Handler /\ top.source = handlers[n].source /\ top.level = handlers[n].level
        /\ top.phase = "window" /\ top.saved = ssr /\ top.entry = top.level
    BY <1>2, <2>2 DEF Handler, Sr, Phases
  <2> HIDE DEF top
  <2>4. /\ handlers' \in Seq(Handler) /\ Len(handlers') = n /\ handlers' # <<>>
        /\ handlers'[n] = top /\ Stacked'
    BY <1>1, <1>2, <2>1, <2>2, <2>3, TopChanges
  <2>5. sr' \in Sr /\ sr'.imask = IntrWindow
    BY <2>1, IntrAssumption DEF Sr
  <2>6. Typed' /\ TaskMask'
    BY <1>2, <2>4, <2>5 DEF Inv, Typed, TaskMask
  <2>7. InForce'
    BY <1>2, <2>3, <2>4, <2>5 DEF InForce
  <2> QED
    BY <1>2, <2>4, <2>6, <2>7, NothingOffered DEF Inv
<1>4. CASE CloseWindow
  <2> DEFINE top == [handlers[n] EXCEPT !.phase = "body"]
  <2>1. handlers[n].phase = "window" /\ handlers' = [handlers EXCEPT ![n] = top]
        /\ sr' = [imask |-> handlers[n].entry, bl |-> FALSE]
    BY <1>1, <1>2, <1>4 DEF CloseWindow, InPhase, ToPhase, WriteSr
  <2>2. handlers[n].entry = handlers[n].level
    BY <1>1, <1>2, <2>1 DEF Inv, InForce
  <2>3. handlers[n].saved.imask = Below(n)
    BY <1>1, <1>2, <2>1 DEF Inv, Stacked
  <2>4. /\ top \in Handler /\ top.source = handlers[n].source /\ top.level = handlers[n].level
        /\ top.phase = "body" /\ top.saved = handlers[n].saved
    BY <1>2 DEF Handler, Phases
  <2> HIDE DEF top
  <2>5. /\ handlers' \in Seq(Handler) /\ Len(handlers') = n /\ handlers' # <<>>
        /\ handlers'[n] = top /\ Stacked'
    BY <1>1, <1>2, <2>1, <2>3, <2>4, TopChanges
  <2>6. sr' \in Sr /\ sr'.imask = top.level
    BY <1>2, <2>1, <2>2, <2>4 DEF Sr, Handler
  <2>7. Typed' /\ TaskMask'
    BY <1>2, <2>5, <2>6 DEF Inv, Typed, TaskMask
  <2>8. InForce'
    BY <1>2, <2>4, <2>5, <2>6 DEF InForce
  <2> QED
    BY <1>2, <2>5, <2>7, <2>8, NothingOffered DEF Inv
<1> QED
  BY <1>3, <1>4

(* A handler takes its own line down.                                       *)
LEMMA ClearInv ==
    ASSUME Inv, ClearDevice
    PROVE  Inv'
<1>1. PICK n \in Nat : n = Len(handlers)
  BY DEF Inv, Typed
<1> DEFINE top == [handlers[n] EXCEPT !.phase = "cleared"]
<1>2. /\ handlers # <<>> /\ handlers[n] \in Handler /\ handlers[n].phase = "body"
      /\ handlers' = [handlers EXCEPT ![n] = top]
      /\ Settle(lines \ {handlers[n].source}, prio) /\ UNCHANGED <<cpu, asleep, sr, ssr>>
  BY <1>1 DEF ClearDevice, InPhase, ToPhase, Top, Inv, Typed
<1>3. /\ top \in Handler /\ top.source = handlers[n].source /\ top.level = handlers[n].level
      /\ top.phase = "cleared" /\ top.saved = handlers[n].saved
  BY <1>2 DEF Handler, Phases
<1>4. handlers[n].saved.imask = Below(n) /\ sr.imask = handlers[n].level /\ ~asleep
  <2>1. n \in DOMAIN handlers
    BY <1>1, <1>2 DEF Inv, Typed
  <2> QED
    BY <1>1, <1>2, <2>1 DEF Inv, Stacked, InForce
<1> HIDE DEF top
<1>5. /\ handlers' \in Seq(Handler) /\ Len(handlers') = n /\ handlers' # <<>>
      /\ handlers'[n] = top /\ Stacked'
  BY <1>1, <1>2, <1>3, <1>4, TopChanges
<1>6. /\ lines' = lines \ {handlers[n].source} /\ prio' = prio
      /\ requested' = (PendingSources' # {}) /\ kicked' \in BOOLEAN
  BY <1>2 DEF Settle, PendingSources
<1>7. Typed' /\ TaskMask' /\ Offered'
  BY <1>2, <1>5, <1>6 DEF Inv, Typed, TaskMask, Offered
<1>8. InForce'
  BY <1>2, <1>3, <1>4, <1>5 DEF InForce
<1> QED
  BY <1>5, <1>7, <1>8 DEF Inv

(* The epilogue restores SSR under the block bit.                           *)
LEMMA RestoreInv ==
    ASSUME Inv, RestoreSsr
    PROVE  Inv'
<1>1. PICK n \in Nat : n = Len(handlers)
  BY DEF Inv, Typed
<1> DEFINE top == [handlers[n] EXCEPT !.phase = "leaving"]
<1>2. /\ handlers # <<>> /\ handlers[n] \in Handler /\ handlers[n].phase = "cleared"
      /\ handlers' = [handlers EXCEPT ![n] = top] /\ cpu' = "loop"
      /\ ssr' = handlers[n].saved /\ sr' = [sr EXCEPT !.bl = TRUE] /\ sr \in Sr
      /\ UNCHANGED <<lines, prio, requested, kicked, asleep>>
  BY <1>1 DEF RestoreSsr, InPhase, ToPhase, WriteSr, Top, Inv, Typed
<1>3. /\ top \in Handler /\ top.source = handlers[n].source /\ top.level = handlers[n].level
      /\ top.phase = "leaving" /\ top.saved = handlers[n].saved /\ handlers[n].saved \in Sr
  BY <1>2 DEF Handler, Phases
<1>4. handlers[n].saved.imask = Below(n) /\ ~asleep
  <2>1. n \in DOMAIN handlers
    BY <1>1, <1>2 DEF Inv, Typed
  <2> QED
    BY <1>1, <1>2, <2>1 DEF Inv, Stacked, InForce
<1> HIDE DEF top
<1>5. /\ handlers' \in Seq(Handler) /\ Len(handlers') = n /\ handlers' # <<>>
      /\ handlers'[n] = top /\ Stacked'
  BY <1>1, <1>2, <1>3, <1>4, TopChanges
<1>6. sr' \in Sr /\ sr'.bl = TRUE
  BY <1>2 DEF Sr
<1>7. Typed' /\ TaskMask'
  BY <1>2, <1>3, <1>5, <1>6 DEF Inv, Typed, TaskMask
<1>8. InForce'
  BY <1>2, <1>3, <1>4, <1>5, <1>6 DEF InForce
<1> QED
  BY <1>2, <1>5, <1>7, <1>8, NothingOffered DEF Inv

(* The rte brings back the mask below the handler, and ends in the loop.    *)
LEMMA ReturnInv ==
    ASSUME Inv, ReturnFromHandler
    PROVE  Inv'
<1>1. PICK n \in Nat : n = Len(handlers)
  BY DEF Inv, Typed
<1>2. /\ handlers # <<>> /\ n # 0 /\ n \in DOMAIN handlers /\ handlers[n] \in Handler
      /\ handlers[n].phase = "leaving"
      /\ handlers' = SubSeq(handlers, 1, n - 1) /\ cpu' = "slot" /\ sr' = ssr
      /\ UNCHANGED <<lines, prio, requested, kicked, asleep, ssr>>
      /\ handlers \in Seq(Handler) /\ DOMAIN handlers = 1..n
  BY <1>1 DEF ReturnFromHandler, InPhase, Top, Front, Inv, Typed
<1>3. sr'.imask = Below(n) /\ ~asleep'
  BY <1>1, <1>2 DEF Inv, InForce, Stacked
<1>4. /\ handlers' \in Seq(Handler) /\ Len(handlers') = n - 1 /\ DOMAIN handlers' = 1..(n - 1)
      /\ \A i \in 1..(n - 1) : handlers'[i] = handlers[i] /\ i \in 1..n /\ i < n
      /\ handlers' = <<>> <=> n = 1
  BY <1>2
<1>5. Typed'
  BY <1>2, <1>4 DEF Inv, Typed
<1>6. Stacked'
  <2>1. ASSUME NEW i \in 1..(n - 1)
        PROVE  Below(i)' = Below(i)
    <3>1. i = 1 \/ i - 1 \in 1..(n - 1)
      BY <1>1
    <3> QED
      BY <1>4, <3>1 DEF Below
  <2>2. ASSUME NEW i \in 1..(n - 1)
        PROVE  /\ handlers'[i].level = IntrLevels[handlers'[i].source]
               /\ handlers'[i].phase # "entered" => handlers'[i].saved.imask = Below(i)'
               /\ handlers'[i].phase \in {"body", "cleared"}
    BY <1>1, <1>2, <1>4, <2>1 DEF Inv, Stacked
  <2>3. \A i, j \in 1..(n - 1) : i < j => handlers'[i].level < handlers'[j].level
    BY <1>2, <1>4 DEF Inv, Stacked
  <2> QED
    BY <1>4, <2>2, <2>3 DEF Stacked
<1>7. InForce'
  <2> SUFFICES ASSUME n # 1
               PROVE  /\ ~asleep' /\ handlers'[n - 1].phase \in {"body", "cleared"}
                      /\ sr'.imask = handlers'[n - 1].level
    BY <1>4 DEF InForce
  <2>1. n - 1 \in 1..(n - 1) /\ n - 1 \in DOMAIN handlers /\ n - 1 < Len(handlers)
    BY <1>1, <1>2
  <2>2. handlers'[n - 1] = handlers[n - 1]
    BY <1>4, <2>1
  <2> QED
    BY <1>3, <2>1, <2>2 DEF Inv, Stacked, Below
<1>8. TaskMask'
  BY <1>3, <1>4 DEF TaskMask, Below
<1> QED
  BY <1>2, <1>5, <1>6, <1>7, <1>8, NothingOffered DEF Inv

(* A reset leaves no handler and masks everything.                          *)
LEMMA ResetInv ==
    ASSUME Inv, ResetBoard
    PROVE  Inv'
<1>1. /\ handlers' = <<>> /\ sr' = Masked /\ cpu' = "loop" /\ asleep' = FALSE
      /\ ssr' = ssr /\ lines' = lines \ IntrTimers /\ prio' = Reset0
      /\ requested' = (PendingSources' # {}) /\ kicked' \in BOOLEAN
  BY DEF ResetBoard, Settle, PendingSources
<1>2. Reset0 \in [Sources -> Int] /\ \A s \in Sources : Reset0[s] = 0 \/ Reset0[s] = IntrLevels[s]
  BY Levels DEF Reset0
<1>3. Masked \in Sr /\ Masked.imask = 15
  BY DEF Masked, Sr
<1>4. Typed'
  <2>1. handlers' \in Seq(Handler)
    BY <1>1
  <2>2. requested' \in BOOLEAN
    BY <1>1
  <2> QED
    BY <1>1, <1>2, <1>3, <2>1, <2>2 DEF Inv, Typed
<1>5. Stacked' /\ InForce' /\ TaskMask' /\ Offered'
  BY <1>1, <1>3 DEF Stacked, InForce, TaskMask, Offered
<1> QED
  BY <1>4, <1>5 DEF Inv

-----------------------------------------------------------------------------
(* Every step of devices, controller and CPU preserves the invariant.       *)
LEMMA NextInv == Inv /\ [IntrNext]_intrVars => Inv'
<1> SUFFICES ASSUME Inv, [IntrNext]_intrVars PROVE Inv'
  OBVIOUS
<1>1. CASE UNCHANGED intrVars
  BY <1>1 DEF intrVars, Inv, Typed, Stacked, InForce, TaskMask, Offered, Below, Accepts,
              PendingSources
<1> QED
  BY <1>1, LinesInv, LoopInv, TakeInv, TaskInv, PrologueInv, ClearInv, RestoreInv, ReturnInv,
     ResetInv DEF IntrNext

(* Handlers nest only upwards, each returns to the mask below it, and what *)
(* a task would accept is on its way to it: for every number of sources,   *)
(* every level below the window's and every order of events.               *)
THEOREM InterruptsAreExact == IntrSpec => []IntrExact
<1>1. Inv => IntrExact
  <2> SUFFICES ASSUME Inv PROVE IntrExact
    OBVIOUS
  <2>1. NestUpwards
    <3>1. \A i, j \in DOMAIN handlers :
            i < j => /\ handlers[i].level < handlers[j].level
                     /\ handlers[i].source # handlers[j].source
      <4> SUFFICES ASSUME NEW i \in DOMAIN handlers, NEW j \in DOMAIN handlers, i < j
                   PROVE  /\ handlers[i].level < handlers[j].level
                          /\ handlers[i].source # handlers[j].source
        OBVIOUS
      <4>1. handlers[i].level \in Int /\ handlers[j].level \in Int
        <5>1. handlers \in Seq(Handler)
          BY DEF Inv, Typed
        <5>2. handlers[i] \in Handler /\ handlers[j] \in Handler
          BY <5>1
        <5> QED
          BY <5>2 DEF Handler
      <4> QED
        BY <4>1 DEF Inv, Stacked
    <3>2. ASSUME NEW i \in DOMAIN handlers
          PROVE  LET held == IF i = Len(handlers) /\ Top.phase = "entered" THEN ssr
                             ELSE handlers[i].saved
                 IN  held.imask = IF i > 1 THEN handlers[i - 1].level ELSE 0
      <4>1. i \in Nat /\ i >= 1 /\ i <= Len(handlers) /\ handlers # <<>>
        BY DEF Inv, Typed
      <4>2. Below(i) = IF i > 1 THEN handlers[i - 1].level ELSE 0
        BY <4>1 DEF Below
      <4>3. CASE i = Len(handlers) /\ Top.phase = "entered"
        BY <4>1, <4>2, <4>3 DEF Inv, InForce, Top
      <4>4. CASE ~(i = Len(handlers) /\ Top.phase = "entered")
        <5>1. handlers[i].phase # "entered"
          <6>1. CASE i = Len(handlers)
            BY <4>4, <6>1 DEF Top
          <6>2. CASE i # Len(handlers)
            <7>1. i < Len(handlers)
              BY <4>1, <6>2 DEF Inv, Typed
            <7> QED
              BY <7>1 DEF Inv, Stacked
          <6> QED
            BY <6>1, <6>2
        <5> QED
          BY <4>2, <4>4, <5>1 DEF Inv, Stacked
      <4> QED
        BY <4>3, <4>4
    <3> QED
      BY <3>1, <3>2 DEF NestUpwards
  <2>2. OfferedAgain
    BY DEF Inv, Offered, OfferedAgain, Accepts
  <2> QED
    BY <2>1, <2>2 DEF IntrExact
<1> QED
  BY <1>1, InitInv, NextInv, PTL DEF IntrSpec
====
