----------------------------- MODULE PanelInput -----------------------------
(***************************************************************************)
(* The runtime panel input, emulator/qemu/cdj2000_input.c: commands of a   *)
(* control client decide which buttons the emulated panel reports.  The    *)
(* board asks once per panel exchange (cdj_input_apply); a press is kept   *)
(* down over several exchanges, since the firmware compares consecutive    *)
(* reports, and the client may ask which exchanges carried it.             *)
(*                                                                         *)
(* A payload bit is an element of PanelBits, a payload the set of its ones;*)
(* the board's own payload is all zeros.  One analogue field stands for    *)
(* the eight.  A driven field is stored over its payload bytes, after the  *)
(* held bits and the press are in them: FieldBits are the bits of those    *)
(* bytes that commands name too, FieldWeight what each is worth there.     *)
(* Times are in units of the shortest time between two exchanges.          *)
(*                                                                         *)
(* An operator headed "A slip" is the definition below it with a mistake   *)
(* in it, for trying the properties; no specification uses one.            *)
(***************************************************************************)
EXTENDS Integers, Sequences, FiniteSets

CONSTANTS
    PanelBits,          \* the payload bits that commands name
    LidBit,             \* payload byte 17 bit 2, the SD lid's contact
    FieldBits,          \* those that lie in the bytes of the analogue field
    FieldWeight,        \* the weight of each in the field's value: 1, 2, 4, ...
    PanelQueue,         \* CDJ_INPUT_QUEUE
    PanelAcks,          \* CDJ_INPUT_ACKS
    MinFrames,          \* CDJ_INPUT_MIN_FRAMES
    PanelHolds,         \* the hold times a press is given
    PanelGap,           \* cdj_input_gap_ns
    PanelTurns,         \* the targets a rotary is sent to
    MaxExchanges,       \* bound: panel exchanges
    MaxPanelCommands    \* bound: commands of the client

ASSUME PanelInputAssumption ==
    /\ LidBit \in PanelBits /\ FieldBits \subseteq PanelBits \ {LidBit}
    /\ FieldWeight \in [FieldBits -> Nat \ {0}]
    /\ PanelQueue \in Nat \ {0} /\ PanelAcks \in Nat \ {0}
    /\ PanelAcks >= PanelQueue /\ MinFrames \in Nat \ {0}
    /\ PanelHolds \subseteq Nat /\ PanelGap \in Nat /\ PanelTurns \subseteq Int
    /\ MaxExchanges \in Nat /\ MaxPanelCommands \in Nat

VARIABLES
    presses,    \* the queue of presses not yet begun
    active,     \* the press under way, its phase, and its time in that phase
    steady,     \* [held, mask, value]: buttons held down, levels overridden
    contact,    \* [lid, door]: the lid as set; whether `sd` holds the door open
    rotary,     \* [driven, value, target] of the analogue field
    acks,       \* the ring of acknowledgements
    nextPress,  \* the id of the next press
    wire,       \* history: what each exchange carried
    panelCommands

panelVars == <<presses, active, steady, contact, rotary, acks, nextPress, wire,
               panelCommands>>

NoPress == [bit |-> LidBit, hold |-> 0, id |-> 0]
NoAck == [id |-> 0, stage |-> "queued", first |-> 0, last |-> 0]
AtRest == [driven |-> FALSE, value |-> 0, target |-> 0]
Free == [held |-> {}, mask |-> {}, value |-> {}]

PanelInit ==
    /\ presses = <<>>
    /\ active = [press |-> NoPress, phase |-> "idle", frames |-> 0, elapsed |-> 0]
    /\ steady = Free /\ rotary = AtRest
    /\ contact \in [lid : {"raw", "open", "closed"}, door : {FALSE}]
    /\ acks = [s \in 0..PanelAcks - 1 |-> NoAck] /\ nextPress = 1
    /\ wire = <<>> /\ panelCommands = 0

-----------------------------------------------------------------------------
(* Commands.  They are read at the start of an exchange, any number of     *)
(* them, so each is a step of its own between two exchanges.               *)

Command ==
    /\ panelCommands < MaxPanelCommands
    /\ panelCommands' = panelCommands + 1 /\ UNCHANGED wire

Slot(id) == id % PanelAcks

(* A slip: one press too many is taken. *)
PressOneMore(b, h) ==
    /\ Command /\ Len(presses) <= PanelQueue
    /\ presses' = Append(presses, [bit |-> b, hold |-> h, id |-> nextPress])
    /\ acks' = [acks EXCEPT ![Slot(nextPress)] = [NoAck EXCEPT !.id = nextPress]]
    /\ nextPress' = nextPress + 1
    /\ UNCHANGED <<active, steady, contact, rotary>>

(* "press": refused when the queue is full. *)
Press(b, h) ==
    /\ Command /\ Len(presses) < PanelQueue
    /\ presses' = Append(presses, [bit |-> b, hold |-> h, id |-> nextPress])
    /\ acks' = [acks EXCEPT ![Slot(nextPress)] = [NoAck EXCEPT !.id = nextPress]]
    /\ nextPress' = nextPress + 1
    /\ UNCHANGED <<active, steady, contact, rotary>>

Hold(b, down) ==
    /\ Command
    /\ steady' = [steady EXCEPT !.held = IF down THEN @ \union {b} ELSE @ \ {b}]
    /\ UNCHANGED <<presses, active, contact, rotary, acks, nextPress>>

Level(b, one) ==
    /\ Command
    /\ steady' = [steady EXCEPT !.mask = @ \union {b},
                                !.value = IF one THEN @ \union {b} ELSE @ \ {b}]
    /\ UNCHANGED <<presses, active, contact, rotary, acks, nextPress>>

(* "clear" forgets what waits; the press under way runs on. *)
Clear ==
    /\ Command
    /\ steady' = Free /\ presses' = <<>> /\ rotary' = AtRest
    /\ UNCHANGED <<active, contact, acks, nextPress>>

SetLid(to) ==
    /\ Command
    /\ to = "toggle" => contact.lid # "raw"
    /\ contact' = [contact EXCEPT !.lid =
          IF to # "toggle" THEN to ELSE IF @ = "open" THEN "closed" ELSE "open"]
    /\ UNCHANGED <<presses, active, steady, rotary, acks, nextPress>>

(* "sd eject" and "sd insert", whether or not the slot then agrees. *)
SetDoor(open) ==
    /\ Command
    /\ contact' = [contact EXCEPT !.door = open]
    /\ UNCHANGED <<presses, active, steady, rotary, acks, nextPress>>

(* "analog" jumps to a value, "rotary" walks by an amount. *)
Turn(amount, walk) ==
    /\ Command
    /\ rotary' = [driven |-> TRUE,
                  target |-> IF walk THEN rotary.target + amount ELSE amount,
                  value  |-> IF walk THEN rotary.value ELSE amount]
    /\ UNCHANGED <<presses, active, steady, contact, acks, nextPress>>

-----------------------------------------------------------------------------
(* One exchange. *)

Frame == Len(wire) + 1

(* A slip: a press may begin as soon as the last has been let go. *)
BegunEarly ==
    IF active.phase # "down" /\ presses # <<>>
    THEN [press |-> Head(presses), phase |-> "down", frames |-> 0, elapsed |-> 0]
    ELSE active

(* An idle channel begins the oldest press. *)
Begun ==
    IF active.phase = "idle" /\ presses # <<>>
    THEN [press |-> Head(presses), phase |-> "down", frames |-> 0, elapsed |-> 0]
    ELSE active

(* A slip: the time alone. *)
LastsByClock(p, time) == p.elapsed < time

(* The phase lasts MinFrames exchanges and the given time, whichever is longer. *)
Lasts(p, time) == p.frames + 1 < MinFrames \/ p.elapsed < time

AfterFrame(p) ==
    LET on == [p EXCEPT !.frames = IF @ < MinFrames THEN @ + 1 ELSE @]
    IN  IF p.phase = "down" /\ ~Lasts(p, p.press.hold)
        THEN [p EXCEPT !.phase = "up", !.frames = 0, !.elapsed = 0]
        ELSE IF p.phase = "up" /\ ~Lasts(p, PanelGap)
        THEN [p EXCEPT !.phase = "idle", !.frames = 0, !.elapsed = 0]
        ELSE IF p.phase = "idle" THEN p ELSE on

(* Where the press landed, for a client that asks; its slot may by then    *)
(* belong to a later press.                                                *)
Acked(p) ==
    LET s == Slot(p.press.id)
        begin == p.phase = "down" /\ active.phase # "down"
        end == p.phase = "down" /\ AfterFrame(p).phase = "up"
        first == IF begin THEN Frame ELSE acks[s].first
    IN  IF p.phase = "down" /\ acks[s].id = p.press.id
        THEN [acks EXCEPT ![s] = [id |-> p.press.id, first |-> first,
                                  stage |-> IF end THEN "done" ELSE "down",
                                  last |-> IF end THEN Frame ELSE 0]]
        ELSE acks

Contacts(bits) ==
    IF contact.lid = "raw" THEN bits
    ELSE IF contact.lid = "closed" THEN bits \union {LidBit} ELSE bits \ {LidBit}

(* The field moves one step a frame towards its target. *)
Walked ==
    [rotary EXCEPT !.value = IF ~rotary.driven \/ @ = rotary.target THEN @
                             ELSE IF @ < rotary.target THEN @ + 1 ELSE @ - 1]

(* The ones of a value among the field's bits. *)
FieldOnes(value) == {b \in FieldBits : (value \div FieldWeight[b]) % 2 = 1}

(* A driven field's value, as it stands after its step, replaces whatever  *)
(* was put into its bytes.                                                 *)
Overwritten(bits) ==
    IF rotary.driven THEN (bits \ FieldBits) \union FieldOnes(Walked.value) ELSE bits

(* Held buttons, then the press, then the analogue field over them, then   *)
(* the levels, the door and the lid.                                       *)
Payload(p) ==
    LET pressed == steady.held \union (IF p.phase = "down" THEN {p.press.bit} ELSE {})
        levelled == (Overwritten(pressed) \ steady.mask) \union steady.value
    IN  Contacts(IF contact.door THEN levelled \ {LidBit} ELSE levelled)

(* The bits that something other than a button decides. *)
Forced == (IF rotary.driven THEN FieldBits ELSE {}) \union steady.mask \union
          (IF contact.door \/ contact.lid # "raw" THEN {LidBit} ELSE {})

Exchange(dt) ==
    LET waited == [active EXCEPT !.elapsed = @ + dt]
        p == IF Begun # active THEN Begun
             ELSE IF active.phase = "idle" THEN active ELSE waited
    IN  /\ Len(wire) < MaxExchanges
        /\ presses' = IF p.press.id # active.press.id THEN Tail(presses) ELSE presses
        /\ active' = AfterFrame(p)
        /\ acks' = Acked(p)
        /\ rotary' = Walked
        /\ wire' = Append(wire, [bits |-> Payload(p), forced |-> Forced,
                                 held |-> steady.held,
                                 press |-> IF p.phase = "down" THEN p.press ELSE NoPress])
        /\ UNCHANGED <<steady, contact, nextPress, panelCommands>>

PanelNext ==
    \/ \E b \in PanelBits, h \in PanelHolds : Press(b, h)
    \/ \E b \in PanelBits, d \in BOOLEAN : Hold(b, d) \/ Level(b, d)
    \/ Clear
    \/ \E to \in {"open", "closed", "toggle"} : SetLid(to)
    \/ \E open \in BOOLEAN : SetDoor(open)
    \/ \E amount \in PanelTurns, walk \in BOOLEAN : Turn(amount, walk)
    \/ \E dt \in {1, 2} : Exchange(dt)

PanelSpec == PanelInit /\ [][PanelNext]_panelVars

-----------------------------------------------------------------------------
(* Properties. *)

PanelTypeOK ==
    /\ \A i \in DOMAIN presses : presses[i] \in [bit : PanelBits, hold : PanelHolds,
                                                id : 1..nextPress - 1]
    /\ Len(presses) <= PanelQueue
    /\ active \in [press : [bit : PanelBits, hold : PanelHolds \union {0},
                            id : 0..nextPress - 1],
                   phase : {"idle", "down", "up"}, frames : 0..MinFrames, elapsed : Nat]
    /\ steady \in [held : SUBSET PanelBits, mask : SUBSET PanelBits,
                   value : SUBSET PanelBits]
    /\ steady.value \subseteq steady.mask
    /\ contact \in [lid : {"raw", "open", "closed"}, door : BOOLEAN]
    /\ rotary \in [driven : BOOLEAN, value : Int, target : Int]
    /\ acks \in [0..PanelAcks - 1 -> [id : 0..nextPress - 1,
                 stage : {"queued", "down", "done"},
                 first : 0..MaxExchanges, last : 0..MaxExchanges]]

(* "ok ack done frames=F-L" is the truth about the wire: exactly these     *)
(* exchanges were the press's, there are at least MinFrames, and each      *)
(* carried its bit, unless a level, the lid, the door or a driven analogue *)
(* field was set over it: the press is acknowledged then as well.          *)
AcksMatchTheWire ==
    \A s \in DOMAIN acks : acks[s].stage = "done" =>
        LET mine == {f \in DOMAIN wire : wire[f].press.id = acks[s].id}
        IN  /\ mine = acks[s].first..acks[s].last
            /\ Cardinality(mine) >= MinFrames
            /\ \A f \in mine : wire[f].press.bit \in wire[f].bits \union wire[f].forced

(* The firmware acts on a bit that is set now and was clear before: between *)
(* two presses the first one's bit is seen clear at least MinFrames times,  *)
(* unless the client itself holds it or has set something over it.          *)
PressesApart ==
    \A f, g \in DOMAIN wire :
        LET b == wire[f].press.bit
            clear == {k \in f + 1..g - 1 : wire[k].press = NoPress
                        /\ (b \in wire[k].bits => b \in wire[k].held \union wire[k].forced)}
        IN  f < g /\ 0 # wire[f].press.id /\ wire[f].press.id # wire[g].press.id
              /\ wire[g].press.id # 0 => Cardinality(clear) >= MinFrames

(* What the client is told of its presses and what the firmware makes of    *)
(* them agree.                                                              *)
PressesExact == AcksMatchTheWire /\ PressesApart
=============================================================================
