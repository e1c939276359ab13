--------------------------- MODULE DspCheckpoint ---------------------------
(***************************************************************************)
(* The DSP's checkpoints (cdj_dsp_checkpoint.c): a header with the sizes   *)
(* of everything and a checksum of the payload, the state of the core and  *)
(* its peripherals, the memories, and the pages of SDRAM that are not      *)
(* zero.  The format has grown by appending, and files of all twelve       *)
(* schemas are read: what a file has not is put into its state after a     *)
(* reset.                                                                  *)
(*                                                                         *)
(* A part's content is {n}, n the capture it is from, and {} for zeroes.    *)
(* A section is known by its name.  Sizes are numbers of sections, and the  *)
(* checksum is taken to be that of the payload or not: a collision is not  *)
(* modelled.  A file can be cut short by a crash of its writer, damaged or *)
(* lengthened.                                                             *)
(***************************************************************************)
EXTENDS Integers, Sequences, FiniteSets, Functions, TLC

CONSTANTS
    OldSchemas,     \* schemas of the files that are found
    MaxCaptures     \* bound: captures

CurrentSchema == 12
ASSUME CheckpointAssumption ==
    OldSchemas \subseteq 1..CurrentSchema /\ MaxCaptures \in Nat

VARIABLES
    disk,       \* the file: NoFile, or [header, sections]
    toWrite,    \* what the writer has yet to put on disk; <<>> when it is over
    captures,   \* captures so far
    dead,       \* the program with the writer has crashed
    damaged,    \* bound: a file is damaged once
    refusal,    \* the last read was refused
    restored    \* what the last accepted read gave, and from which file

checkpointVars == <<disk, toWrite, captures, dead, damaged, refusal, restored>>

NoFile == [is |-> "none"]
AfterReset == {0}

(* The state's parts, and the schema each came with.  The SPI's receive     *)
(* buffer lay in what had been padding.                                    *)
StateParts == {"base", "intc", "timers", "spis", "spiBuffer", "cache", "mcasp", "mcaspTail",
               "edma", "wm8740", "transfer", "scheduler"}
Since == [part \in StateParts |->
            CASE part = "base" -> 1        [] part = "intc" -> 3
              [] part = "timers" -> 4      [] part = "spis" -> 5
              [] part = "spiBuffer" -> 9   [] part = "cache" -> 6
              [] part = "mcasp" -> 7       [] part = "mcaspTail" -> 8
              [] part = "edma" -> 8        [] part = "wm8740" -> 9
              [] part = "transfer" -> 10   [] part = "scheduler" -> 11]
HasPart(schema, part) == Since[part] <= schema
Memories(schema) ==
    {"l2"} \cup (IF schema > 1 THEN {"shared"} ELSE {})
           \cup (IF schema = CurrentSchema THEN {"l1d"} ELSE {})
Sections(schema) ==
    {part \in StateParts : HasPart(schema, part)} \cup Memories(schema) \cup {"bitmap"}

PageNames == <<"page 1", "page 2">>
Pages == DOMAIN PageNames
PagesOf(used) == {PageNames[p] : p \in used}

(* Where they stand in a file.  *)
FileOrder == <<"base", "intc", "timers", "spis", "spiBuffer", "cache", "mcasp", "mcaspTail",
               "edma", "wm8740", "transfer", "scheduler", "l2", "shared", "l1d", "bitmap">>
             \o PageNames \o <<"more">>
Place(name) == CHOOSE k \in DOMAIN FileOrder : FileOrder[k] = name
FirstOf(names) == CHOOSE name \in names : \A other \in names : Place(name) <= Place(other)
LastOf(names) == CHOOSE name \in names : \A other \in names : Place(other) <= Place(name)

(* A capture n: the payload, all of it n but for L1D, which the writer     *)
(* without it leaves zero, and the pages that are zero.                    *)
Payload(n, schema, l1d, used) ==
    [name \in Sections(schema) \cup PagesOf(used) |->
        CASE name = "bitmap" -> used [] name = "l1d" -> l1d [] OTHER -> {n}]
HeaderOf(payload, schema) ==
    [schema |-> schema, layout |-> schema, length |-> Cardinality(DOMAIN payload), sum |-> payload,
     native |-> TRUE]
FileOf(payload, schema) == [is |-> "file", header |-> HeaderOf(payload, schema), sections |-> payload]
Nothing == <<>>     \* no sections

CheckpointInit ==
    /\ toWrite = Nothing /\ captures = 0 /\ dead = FALSE /\ damaged = FALSE /\ refusal = FALSE /\ restored = NoFile
    /\ \/ disk = NoFile
       \/ \E schema \in OldSchemas, used \in SUBSET Pages :
             disk = FileOf(Payload(1, schema, {1}, used), schema)

(* capture_checkpoint and the writer's checks, up to the header: opening   *)
(* empties the file.  An invalid state is refused before that.             *)
CaptureState(used, plain) ==
    /\ ~dead /\ toWrite = Nothing /\ captures < MaxCaptures /\ captures' = captures + 1
    /\ LET payload == Payload(captures + 2, CurrentSchema, IF plain THEN {} ELSE {captures + 2}, used)
       IN  /\ toWrite' = payload
           /\ disk' = [is |-> "file", header |-> HeaderOf(payload, CurrentSchema), sections |-> Nothing]
    /\ refusal' = FALSE /\ restored' = NoFile
    /\ UNCHANGED <<dead, damaged>>

WriteSection ==
    /\ ~dead /\ toWrite # Nothing
    /\ LET name == FirstOf(DOMAIN toWrite)
       IN  /\ toWrite' = Restrict(toWrite, DOMAIN toWrite \ {name})
           /\ disk' = [disk EXCEPT !.sections = @ @@ Restrict(toWrite, {name})]
    /\ UNCHANGED <<captures, dead, damaged, refusal, restored>>

(* A write falls short: the file is removed.  *)
WriteFails ==
    /\ ~dead /\ toWrite # Nothing /\ toWrite' = Nothing /\ disk' = NoFile
    /\ UNCHANGED <<captures, dead, damaged, refusal, restored>>
(* The program ends in the middle, and what it wrote stays.  *)
WriterCrashes ==
    /\ ~dead /\ dead' = TRUE /\ toWrite' = Nothing
    /\ UNCHANGED <<disk, captures, damaged, refusal, restored>>

(* What can happen to a file at rest.  *)
DamageFile ==
    /\ toWrite = Nothing /\ disk # NoFile /\ ~damaged /\ damaged' = TRUE
    /\ \/ \E name \in DOMAIN disk.sections : disk' = [disk EXCEPT !.sections[name] = {99}]
       \/ /\ disk.sections # Nothing
          /\ disk' = [disk EXCEPT !.sections = Restrict(@, DOMAIN @ \ {LastOf(DOMAIN @)})]
       \/ disk' = [disk EXCEPT !.sections = @ @@ ("more" :> {})]
       \/ \E step \in {-1, 1} : disk' = [disk EXCEPT !.header.schema = @ + step]
       \/ \E step \in {-1, 1} : disk' = [disk EXCEPT !.header.layout = @ + step]
       \/ disk' = [disk EXCEPT !.header.length = @ - 1]
       \/ disk' = [disk EXCEPT !.header.native = FALSE]
    /\ refusal' = FALSE /\ restored' = NoFile
    /\ UNCHANGED <<toWrite, captures, dead>>

-----------------------------------------------------------------------------
(* The reader.  What was read before is forgotten as a file changes.  *)

PagesRead(file) == file.sections["bitmap"]
(* The payload the header announces is there, to the byte, and is that of  *)
(* its checksum; as many pages as the bitmap says.                         *)
Intact(file) ==
    LET h == file.header   there == DOMAIN file.sections
    IN  /\ h.native /\ h.schema \in 1..CurrentSchema /\ h.layout = h.schema
        /\ h.length = Cardinality(there) /\ Sections(h.schema) \subseteq there
        /\ there = Sections(h.schema) \cup PagesOf(PagesRead(file) \cap Pages)
        /\ file.sections = h.sum

(* A slip: the SPIs of a schema-4 file are left as memset leaves them. *)
ResetsButSpis(schema) ==
    {part \in StateParts :
        CASE part = "intc" -> schema \in 1..2     [] part = "timers" -> schema \in 1..3
          [] part = "spis" -> schema \in 1..3     [] part = "spiBuffer" -> schema \in 1..3 \cup {8}
          [] part = "cache" -> schema \in 1..5    [] part = "mcasp" -> schema \in 1..6
          [] part \in {"mcaspTail", "edma"} -> schema \in 1..7
          [] part = "wm8740" -> schema \in 1..8   [] part = "transfer" -> schema \in 1..9
          [] OTHER -> FALSE}

(* Which parts the reader resets, schema by schema.  *)
Resets(schema) ==
    {part \in StateParts :
        CASE part = "intc" -> schema \in 1..2     [] part = "timers" -> schema \in 1..3
          [] part = "spis" -> schema \in 1..4     [] part = "spiBuffer" -> schema \in 1..4 \cup {8}
          [] part = "cache" -> schema \in 1..5    [] part = "mcasp" -> schema \in 1..6
          [] part \in {"mcaspTail", "edma"} -> schema \in 1..7
          [] part = "wm8740" -> schema \in 1..8   [] part = "transfer" -> schema \in 1..9
          [] OTHER -> FALSE}

(* The destination: the state cleared first, then what the file has, then  *)
(* the resets; a scheduler the file has not stays all zero, which is the   *)
(* synchronous mode.  SDRAM is cleared before the pages come.              *)
Restore(file) ==
    LET schema == file.header.schema
        content(name) == IF name \in DOMAIN file.sections THEN file.sections[name] ELSE {}
    IN  [is |-> "state", header |-> file.header,
         parts |-> [part \in StateParts |->
                      IF part \in Resets(schema) THEN AfterReset ELSE content(part)],
         memories |-> [name \in {"l2", "shared", "l1d"} |-> content(name)],
         pages |-> [p \in Pages |-> IF p \in PagesRead(file) THEN file.sections[PageNames[p]] ELSE {}]]

(* cdj_dsp_checkpoint_read_with_l1d, and the reader without L1D, which     *)
(* refuses a file that has some.                                           *)
ReadBack(plain) ==
    /\ toWrite = Nothing /\ disk # NoFile
    /\ LET good == Intact(disk) /\ (plain => Restore(disk).memories["l1d"] = {})
       IN  /\ refusal' = ~good
           /\ restored' = IF good THEN Restore(disk) ELSE NoFile
    /\ UNCHANGED <<disk, toWrite, captures, dead, damaged>>

CheckpointNext ==
    \/ \E used \in SUBSET Pages, plain \in BOOLEAN : CaptureState(used, plain)
    \/ WriteSection \/ WriteFails \/ WriterCrashes \/ DamageFile
    \/ \E plain \in BOOLEAN : ReadBack(plain)

CheckpointSpec == CheckpointInit /\ [][CheckpointNext]_checkpointVars

-----------------------------------------------------------------------------

CheckpointTypeOK ==
    /\ captures \in 0..MaxCaptures /\ dead \in BOOLEAN /\ damaged \in BOOLEAN /\ refusal \in BOOLEAN
    /\ disk.is \in {"none", "file"} /\ restored.is \in {"none", "state"}
    /\ disk # NoFile => disk.header.schema \in 0..CurrentSchema + 1

(* What is read back is one capture, whole: every part the file's schema   *)
(* has is from the same capture, every other one is in the state its       *)
(* device has after a reset (the scheduler synchronous, memories zero),    *)
(* and so are the pages of SDRAM that were zero; a file its writer did not *)
(* finish, or that was damaged, gives nothing.                             *)
CheckpointWhole ==
    restored # NoFile =>
        LET schema == restored.header.schema   of == restored.parts["base"]
        IN  /\ \E n \in 1..MaxCaptures + 1 : of = {n}
            /\ \A part \in StateParts :
                  CASE HasPart(schema, part) -> restored.parts[part] = of
                    [] part = "scheduler" /\ ~HasPart(schema, part) -> restored.parts[part] = {}
                    [] part = "spiBuffer" /\ schema \in 5..7 -> restored.parts[part] = {}
                    [] OTHER -> restored.parts[part] = AfterReset
            /\ restored.memories["l2"] = of
            /\ restored.memories["shared"] = IF schema = 1 THEN {} ELSE of
            /\ restored.memories["l1d"] \in IF schema < CurrentSchema THEN {{}} ELSE {{}, of}
            /\ \A p \in Pages : restored.pages[p] \in {{}, of}
=============================================================================
