------------------------------ MODULE DspProofs ------------------------------
(***************************************************************************)
(* What is proved of the DSP's devices: that no event of the combined      *)
(* group waits for a routine that will not come, that a checkpoint gives   *)
(* back one capture, whole, that the audio leaves by whole frames, in      *)
(* order, and that a timer's counters show the clocks they have counted.   *)
(***************************************************************************)
EXTENDS DspIntc, DspCheckpoint, DspAudio, DspTimer, NaturalsInduction, WellFoundedInduction,
        FiniteSetTheorems, TLAPS

-----------------------------------------------------------------------------
(* The interrupt controller, for every set of interrupts and any number of *)
(* events.                                                                 *)

Controllers == [flag : SUBSET Events, mask : SUBSET Events,
          mux : [Interrupts -> {Combined} \cup Events], request : SUBSET Interrupts]

(* What is used of the types, and the property itself: it is inductive     *)
(* with them.                                                              *)
IntcTyped ==
    /\ intc \in Controllers /\ ifr \subseteq Interrupts /\ events \in 0..MaxEvents
    /\ routine.at \in {"idle", "reads", "clears"}
IntcInv == IntcTyped /\ EventAnnounced

(* Combine asks for the combined event exactly when it becomes active, and *)
(* changes nothing else.                                                   *)
LEMMA CombineTyped ==
    ASSUME NEW b \in Controllers, NEW a \in Controllers
    PROVE  /\ Combine(b, a) \in Controllers
           /\ Combine(b, a).flag = a.flag /\ Combine(b, a).mask = a.mask
           /\ Combine(b, a).mux = a.mux
           /\ a.request \subseteq Combine(b, a).request
           /\ ~CombinedActive(b) /\ CombinedActive(a) =>
                 Selected(a, Combined) \subseteq Combine(b, a).request
  BY DEF Combine, Controllers, Selected, CombinedActive

(* So does an event, which sets flags and asks for itself besides.         *)
LEMMA RaisedTyped ==
    ASSUME NEW c \in Controllers, NEW es \in SUBSET Events
    PROVE  /\ Raised(c, es) \in Controllers
           /\ Raised(c, es).mux = c.mux
           /\ c.request \subseteq Raised(c, es).request
           /\ ~CombinedActive(c) /\ CombinedActive(Raised(c, es)) =>
                 Selected(c, Combined) \subseteq Raised(c, es).request
<1> DEFINE f == [c EXCEPT !.flag = @ \cup es,
                          !.request = @ \cup UNION {Selected(c, e) : e \in es}]
<1>1. UNION {Selected(c, e) : e \in es} \subseteq Interrupts
  BY DEF Selected
<1>2. /\ f \in Controllers /\ f.mask = c.mask /\ f.mux = c.mux /\ f.flag = c.flag \cup es
      /\ c.request \subseteq f.request
  BY <1>1 DEF Controllers
<1>3. Raised(c, es) = Combine(c, f)
  BY DEF Raised
<1>4. Selected(f, Combined) = Selected(c, Combined)
  BY <1>2 DEF Selected
<1> HIDE DEF f
<1>5. /\ Combine(c, f) \in Controllers
      /\ Combine(c, f).flag = f.flag /\ Combine(c, f).mask = f.mask
      /\ Combine(c, f).mux = f.mux
      /\ f.request \subseteq Combine(c, f).request
      /\ ~CombinedActive(c) /\ CombinedActive(f) =>
            Selected(f, Combined) \subseteq Combine(c, f).request
  BY <1>2, CombineTyped
<1>6. CombinedActive(Combine(c, f)) <=> CombinedActive(f)
  BY <1>5 DEF CombinedActive
<1> QED
  BY <1>2, <1>3, <1>4, <1>5, <1>6

(* No event is flagged at reset, so none waits.                             *)
LEMMA IntcStarts == IntcInit => IntcInv
  BY DspIntcAssumption DEF IntcInit, IntcInv, IntcTyped, Controllers, EventAnnounced, CombinedActive, Events

(* Events, register writes, the core and the routine preserve the invariant. *)
LEMMA IntcSteps == IntcInv /\ [IntcNext]_intcVars => IntcInv'
<1> SUFFICES ASSUME IntcInv, [IntcNext]_intcVars PROVE IntcInv'
  OBVIOUS
<1> USE DEF IntcInv, IntcTyped
<1> DEFINE Waiting == Selected(intc, Combined) \cap (intc.request \cup ifr) # {}
<1>1. CASE Event
  <2>1. PICK es \in SUBSET Events : /\ intc' = Raised(intc, es) /\ events < MaxEvents
                                    /\ events' = events + 1 /\ UNCHANGED <<ifr, routine>>
    BY <1>1 DEF Event
  <2>2. IntcTyped'
    BY <2>1, RaisedTyped, DspIntcAssumption
  <2>3. Selected(intc', Combined) = Selected(intc, Combined)
    BY <2>1, RaisedTyped DEF Selected
  <2>4. EventAnnounced'
    BY <2>1, <2>3, RaisedTyped DEF EventAnnounced
  <2> QED
    BY <2>2, <2>4
<1>2. CASE WriteMask
  <2>1. PICK mask \in SUBSET Events :
            /\ intc' = Combine(intc, [intc EXCEPT !.mask = mask]) /\ events < MaxEvents
            /\ events' = events + 1 /\ UNCHANGED <<ifr, routine>>
    BY <1>2 DEF WriteMask
  <2> DEFINE masked == [intc EXCEPT !.mask = mask]
  <2>2. masked \in Controllers /\ masked.mux = intc.mux /\ masked.request = intc.request
    BY DEF Controllers
  <2>3. intc' = Combine(intc, masked)
    BY <2>1
  <2> HIDE DEF masked
  <2>4. /\ intc' \in Controllers /\ intc'.mux = intc.mux /\ intc.request \subseteq intc'.request
        /\ intc'.flag = masked.flag /\ intc'.mask = masked.mask
        /\ ~CombinedActive(intc) /\ CombinedActive(masked) =>
              Selected(masked, Combined) \subseteq intc'.request
    BY <2>2, <2>3, CombineTyped
  <2>5. /\ Selected(intc', Combined) = Selected(intc, Combined)
        /\ Selected(masked, Combined) = Selected(intc, Combined)
        /\ CombinedActive(intc') <=> CombinedActive(masked)
    BY <2>2, <2>4 DEF Selected, CombinedActive
  <2>6. IntcTyped'
    BY <2>1, <2>4, DspIntcAssumption
  <2>7. EventAnnounced'
    BY <2>1, <2>4, <2>5 DEF EventAnnounced
  <2> QED
    BY <2>6, <2>7
<1>3. CASE WriteMux
  <2>1. /\ intc' \in Controllers /\ intc'.flag = intc.flag /\ intc'.mask = intc.mask
        /\ ~CombinedActive(intc) /\ UNCHANGED <<ifr, routine>> /\ events' \in 0..MaxEvents
    BY <1>3, DspIntcAssumption DEF WriteMux, Controllers
  <2>2. ~CombinedActive(intc')
    BY <2>1 DEF CombinedActive
  <2> QED
    BY <2>1, <2>2 DEF EventAnnounced
<1>4. CASE Take
  <2>1. /\ intc' \in Controllers /\ intc'.flag = intc.flag /\ intc'.mask = intc.mask
        /\ intc'.mux = intc.mux /\ intc'.request = {} /\ ifr' = ifr \cup intc.request
        /\ UNCHANGED <<routine, events>>
    BY <1>4 DEF Take, Controllers
  <2>2. /\ Selected(intc', Combined) = Selected(intc, Combined)
        /\ CombinedActive(intc') <=> CombinedActive(intc)
    BY <2>1 DEF Selected, CombinedActive
  <2>3. ifr' \subseteq Interrupts
    BY <2>1 DEF Controllers
  <2> QED
    BY <2>1, <2>2, <2>3 DEF EventAnnounced
<1>5. CASE Serve
  <2>1. PICK i \in ifr :
            /\ ifr' = ifr \ {i} /\ routine.at = "idle" /\ UNCHANGED <<intc, events>>
            /\ routine' = [at |-> IF intc.mux[i] = Combined THEN "reads" ELSE "idle", read |-> {}]
    BY <1>5 DEF Serve
  <2>2. CASE intc.mux[i] = Combined
    BY <2>1, <2>2 DEF EventAnnounced
  <2>3. CASE intc.mux[i] # Combined
    <3>1. i \notin Selected(intc, Combined)
      BY <2>3 DEF Selected
    <3> QED
      BY <2>1, <2>3, <3>1 DEF EventAnnounced
  <2> QED
    BY <2>2, <2>3
<1>6. CASE ReadFlags
  <2>1. /\ UNCHANGED <<intc, ifr, events>>
        /\ routine'.at = IF intc.flag \ intc.mask = {} THEN "idle" ELSE "clears"
    BY <1>6 DEF ReadFlags
  <2> QED
    BY <2>1 DEF EventAnnounced, CombinedActive
<1>7. CASE ClearFlags
  <2>1. /\ intc' \in Controllers /\ UNCHANGED <<ifr, events>> /\ routine'.at = "reads"
    BY <1>7 DEF ClearFlags, Controllers
  <2> QED
    BY <2>1 DEF EventAnnounced
<1>8. CASE UNCHANGED intcVars
  BY <1>8 DEF intcVars, EventAnnounced
<1> QED
  BY <1>1, <1>2, <1>3, <1>4, <1>5, <1>6, <1>7, <1>8 DEF IntcNext

(* An unmasked event of the group never waits for a routine that will not  *)
(* come (cdj_c6747_intc.c's edge of the combined event).                   *)
THEOREM EventsAreAnnounced == IntcSpec => []EventAnnounced
<1>1. IntcInv => EventAnnounced
  BY DEF IntcInv
<1> QED
  BY IntcStarts, IntcSteps, <1>1, PTL DEF IntcSpec

-----------------------------------------------------------------------------
(* The checkpoints, for any number of captures.  *)

(* A file on the disk is a header and sections, whatever they hold.  *)
IsFile(f) ==
    f = [is |-> "file",
         header |-> [schema |-> f.header.schema, layout |-> f.header.layout,
                     length |-> f.header.length, sum |-> f.header.sum,
                     native |-> f.header.native],
         sections |-> f.sections]

(* The payload a checksum is taken of is that of one capture.  *)
OfACapture(sum) ==
    \E n \in 1..MaxCaptures + 1, s \in 1..CurrentSchema, used \in SUBSET Pages :
        \E l1d \in {{}, {n}} : sum = Payload(n, s, l1d, used)

(* A file's sections may be anything that damage or a crash left of them,  *)
(* but the checksum in its header is always that of a capture: damage does *)
(* not forge one.                                                          *)
CheckpointInv ==
    /\ captures \in 0..MaxCaptures
    /\ disk # NoFile => IsFile(disk) /\ OfACapture(disk.header.sum)
    /\ CheckpointWhole

(* A file stays one when its sections or a field of its header change.  *)
LEMMA FileParts ==
    ASSUME NEW f, IsFile(f), NEW x
    PROVE  /\ f # NoFile
           /\ IsFile([f EXCEPT !.sections = x])
           /\ [f EXCEPT !.sections = x].header = f.header
           /\ \A g \in {[f EXCEPT !.header.schema = x], [f EXCEPT !.header.layout = x],
                        [f EXCEPT !.header.length = x], [f EXCEPT !.header.native = x]} :
                 IsFile(g) /\ g.header.sum = f.header.sum
  <1>1. f.is = "file"
    BY DEF IsFile
  <1>2. f # NoFile
    BY <1>1 DEF NoFile
  <1>3. PICK h, s : f = [is |-> "file", header |-> h, sections |-> s]
    BY DEF IsFile
  <1>4. PICK a, b, c, d, e : h = [schema |-> a, layout |-> b, length |-> c, sum |-> d, native |-> e]
    BY <1>3 DEF IsFile
  <1>5. /\ IsFile([f EXCEPT !.sections = x])
        /\ [f EXCEPT !.sections = x].header = f.header
    BY <1>3, <1>4 DEF IsFile
  <1>6. IsFile([f EXCEPT !.header.schema = x]) /\ [f EXCEPT !.header.schema = x].header.sum = f.header.sum
    BY <1>3, <1>4 DEF IsFile
  <1>7. IsFile([f EXCEPT !.header.layout = x]) /\ [f EXCEPT !.header.layout = x].header.sum = f.header.sum
    BY <1>3, <1>4 DEF IsFile
  <1>8. IsFile([f EXCEPT !.header.length = x]) /\ [f EXCEPT !.header.length = x].header.sum = f.header.sum
    BY <1>3, <1>4 DEF IsFile
  <1>9. IsFile([f EXCEPT !.header.native = x]) /\ [f EXCEPT !.header.native = x].header.sum = f.header.sum
    BY <1>3, <1>4 DEF IsFile
  <1> QED
    BY <1>2, <1>5, <1>6, <1>7, <1>8, <1>9

(* No page has the name of a section.  *)
LEMMA PagesNamed ==
    ASSUME NEW used, used \subseteq Pages
    PROVE  PagesOf(used) \subseteq {"page 1", "page 2"}
  <1>1. Pages = {1, 2}
    <2>1. Pages = 1..2
      BY DEF Pages, PageNames
    <2> QED
      BY <2>1
  <1>2. PageNames[1] = "page 1" /\ PageNames[2] = "page 2"
    BY DEF PageNames
  <1> QED
    BY <1>1, <1>2 DEF PagesOf

(* Payloads of two schemas never have the same sections: a payload cannot *)
(* be taken for one of another schema.                                     *)
LEMMA SchemaOfSections ==
    ASSUME NEW s \in 1..CurrentSchema, NEW t \in 1..CurrentSchema, NEW used, NEW u,
           used \subseteq Pages, u \subseteq Pages,
           Sections(s) \cup PagesOf(used) = Sections(t) \cup PagesOf(u)
    PROVE  s = t
  <1>1. PagesOf(used) \subseteq {"page 1", "page 2"} /\ PagesOf(u) \subseteq {"page 1", "page 2"}
    BY PagesNamed
  <1>2. \A name \in StateParts : name \in Sections(s) <=> name \in Sections(t)
    BY <1>1 DEF StateParts
  <1>3. \A part \in StateParts : part \in Sections(s) <=> Since[part] <= s
    BY DEF Sections, Memories, HasPart, StateParts
  <1>4. \A part \in StateParts : part \in Sections(t) <=> Since[part] <= t
    BY DEF Sections, Memories, HasPart, StateParts
  <1>5. /\ Since["intc"] = 3 /\ Since["timers"] = 4 /\ Since["spis"] = 5 /\ Since["cache"] = 6
        /\ Since["mcasp"] = 7 /\ Since["edma"] = 8 /\ Since["wm8740"] = 9
        /\ Since["transfer"] = 10 /\ Since["scheduler"] = 11
    BY DEF Since, StateParts
  <1>6. \A k \in 3..11 : k <= s <=> k <= t
    BY <1>2, <1>3, <1>4, <1>5 DEF StateParts
  <1>7. ("shared" \in Sections(s) <=> s > 1) /\ ("shared" \in Sections(t) <=> t > 1)
    BY DEF Sections, Memories, StateParts
  <1>8. ("l1d" \in Sections(s) <=> s = 12) /\ ("l1d" \in Sections(t) <=> t = 12)
    BY DEF Sections, Memories, StateParts, CurrentSchema
  <1>9. (s > 1 <=> t > 1) /\ (s = 12 <=> t = 12)
    <2>a. \A name : name \in Sections(s) \cup PagesOf(used) <=> name \in Sections(t) \cup PagesOf(u)
      OBVIOUS
    <2>b. \A name : name # "page 1" /\ name # "page 2" => (name \in Sections(s) <=> name \in Sections(t))
      BY <1>1, <2>a
    <2>1. "shared" \in Sections(s) <=> "shared" \in Sections(t)
      BY <2>b
    <2>2. "l1d" \in Sections(s) <=> "l1d" \in Sections(t)
      BY <2>b
    <2> QED
      BY <2>1, <2>2, <1>7, <1>8
  <1> QED
    BY <1>6, <1>9 DEF CurrentSchema

(* What an intact file is: the payload of a capture, under its own schema. *)
LEMMA IntactIsCapture ==
    ASSUME NEW f, IsFile(f), OfACapture(f.header.sum), Intact(f)
    PROVE  \E n \in 1..MaxCaptures + 1, used \in SUBSET Pages :
              \E l1d \in {{}, {n}} :
                 /\ f.header.schema \in 1..CurrentSchema
                 /\ f.sections = Payload(n, f.header.schema, l1d, used)
                 /\ PagesRead(f) = used
  <1>1. PICK n \in 1..MaxCaptures + 1, s \in 1..CurrentSchema, used \in SUBSET Pages :
           \E l1d \in {{}, {n}} : f.header.sum = Payload(n, s, l1d, used)
    BY DEF OfACapture
  <1>2. PICK l1d \in {{}, {n}} : f.header.sum = Payload(n, s, l1d, used)
    BY <1>1
  <1>3. f.sections = Payload(n, s, l1d, used) /\ f.header.schema \in 1..CurrentSchema
    BY <1>2 DEF Intact
  <1>4. "bitmap" \in Sections(s)
    BY DEF Sections
  <1>a. /\ DOMAIN f.sections = Sections(s) \cup PagesOf(used)
        /\ f.sections["bitmap"] = used
    BY <1>3, <1>4 DEF Payload
  <1>5. PagesRead(f) = used
    BY <1>a DEF PagesRead
  <1>6. Sections(s) \cup PagesOf(used) = Sections(f.header.schema) \cup PagesOf(used)
    <2>1. used \cap Pages = used
      OBVIOUS
    <2>2. DOMAIN f.sections = Sections(f.header.schema) \cup PagesOf(PagesRead(f) \cap Pages)
      BY DEF Intact
    <2> QED
      BY <2>1, <2>2, <1>a, <1>5
  <1>7. s = f.header.schema
    BY <1>3, <1>6, SchemaOfSections
  <1> QED
    BY <1>3, <1>5, <1>7

(* What the reader makes of an intact file is that capture, whole.  *)
LEMMA RestoredWhole ==
    ASSUME NEW f, IsFile(f), OfACapture(f.header.sum), Intact(f), MaxCaptures \in Nat,
           restored' = Restore(f)
    PROVE  CheckpointWhole'
  <1> DEFINE s == f.header.schema   r == Restore(f)
             content(name) == IF name \in DOMAIN f.sections THEN f.sections[name] ELSE {}
  <1>1. PICK n \in 1..MaxCaptures + 1, used \in SUBSET Pages :
              \E l1d \in {{}, {n}} :
                 /\ s \in 1..CurrentSchema
                 /\ f.sections = Payload(n, s, l1d, used)
                 /\ PagesRead(f) = used
    BY IntactIsCapture
  <1>2. PICK l1d \in {{}, {n}} : /\ s \in 1..CurrentSchema
                                 /\ f.sections = Payload(n, s, l1d, used)
                                 /\ PagesRead(f) = used
    BY <1>1
  <1>3. /\ r.header = f.header
        /\ r.parts = [part \in StateParts |-> IF part \in Resets(s) THEN AfterReset ELSE content(part)]
        /\ r.memories = [name \in {"l2", "shared", "l1d"} |-> content(name)]
        /\ r.pages = [p \in Pages |-> IF p \in used THEN f.sections[PageNames[p]] ELSE {}]
    BY <1>2 DEF Restore
  <1>4. PagesOf(used) \subseteq {"page 1", "page 2"}
    BY PagesNamed
  <1>a. /\ DOMAIN f.sections = Sections(s) \cup PagesOf(used)
        /\ \A name \in Sections(s) \cup PagesOf(used) :
              f.sections[name] = IF name = "bitmap" THEN used ELSE IF name = "l1d" THEN l1d ELSE {n}
    BY <1>2, Zenon DEF Payload
  <1>5. \A part \in StateParts : /\ part # "bitmap" /\ part # "l1d"
                                 /\ part \in DOMAIN f.sections <=> Since[part] <= s
    <2>1. \A part \in StateParts : part \in Sections(s) <=> Since[part] <= s
      BY DEF Sections, Memories, HasPart, StateParts
    <2>2. \A part \in StateParts : part \notin PagesOf(used) /\ part # "bitmap" /\ part # "l1d"
      BY <1>4 DEF StateParts
    <2> QED
      BY <1>a, <2>1, <2>2
  <1>6. \A part \in StateParts : content(part) = IF Since[part] <= s THEN {n} ELSE {}
    BY <1>a, <1>5
  <1>7. \A part \in StateParts :
           /\ HasPart(s, part) => part \notin Resets(s)
           /\ ~HasPart(s, part) =>
                 (part \in Resets(s) <=> ~(part = "scheduler" \/ (part = "spiBuffer" /\ s \in 5..7)))
    <2>1. SUFFICES ASSUME NEW part \in StateParts
                   PROVE  /\ Since[part] <= s => part \notin Resets(s)
                          /\ ~(Since[part] <= s) =>
                               (part \in Resets(s) <=> ~(part = "scheduler" \/ (part = "spiBuffer" /\ s \in 5..7)))
      BY DEF HasPart
    <2> QED
      BY <1>2 DEF Resets, StateParts, Since, CurrentSchema
  <1>8. \A part \in StateParts :
           /\ HasPart(s, part) => r.parts[part] = {n}
           /\ ~HasPart(s, part) =>
                 r.parts[part] = IF part = "scheduler" \/ (part = "spiBuffer" /\ s \in 5..7)
                                 THEN {} ELSE AfterReset
    <2>1. TAKE part \in StateParts
    <2>2. r.parts[part] = IF part \in Resets(s) THEN AfterReset ELSE content(part)
      BY <1>3
    <2>3. content(part) = IF HasPart(s, part) THEN {n} ELSE {}
      BY <1>6 DEF HasPart
    <2>4. part = "spiBuffer" => (HasPart(s, part) <=> s >= 9)
      BY <1>2 DEF HasPart, Since, StateParts
    <2> HIDE DEF content, r
    <2> QED
      BY <1>2, <1>7, <2>2, <2>3, <2>4
  <1>9. r.parts["base"] = {n}
    <2>1. "base" \in StateParts /\ HasPart(s, "base")
      BY <1>2 DEF StateParts, HasPart, Since
    <2> HIDE DEF r
    <2> QED
      BY <1>8, <2>1
  <1>10. /\ r.memories["l2"] = {n}
         /\ r.memories["shared"] = IF s = 1 THEN {} ELSE {n}
         /\ r.memories["l1d"] \in IF s < CurrentSchema THEN {{}} ELSE {{}, {n}}
    <2>1. /\ "l2" \in Sections(s)
          /\ "shared" \in Sections(s) <=> s > 1
          /\ "l1d" \in Sections(s) <=> s = CurrentSchema
      BY DEF Sections, Memories, StateParts, CurrentSchema
    <2>2. "l2" \notin PagesOf(used) /\ "shared" \notin PagesOf(used) /\ "l1d" \notin PagesOf(used)
      BY <1>4
    <2>3. /\ content("l2") = {n}
          /\ content("shared") = IF s > 1 THEN {n} ELSE {}
          /\ content("l1d") = IF s = CurrentSchema THEN l1d ELSE {}
      BY <1>a, <2>1, <2>2
    <2>4. r.memories["l2"] = content("l2") /\ r.memories["shared"] = content("shared")
          /\ r.memories["l1d"] = content("l1d")
      BY <1>3
    <2> HIDE DEF content, r
    <2> QED
      BY <1>2, <2>3, <2>4 DEF CurrentSchema
  <1>11. \A p \in Pages : r.pages[p] \in {{}, {n}}
    <2>1. \A p \in used : PageNames[p] \in PagesOf(used)
      BY DEF PagesOf
    <2>2. \A p \in used : f.sections[PageNames[p]] = {n}
      BY <1>a, <1>4, <2>1
    <2> QED
      BY <1>3, <2>2
  <1> HIDE DEF r
  <1> QED
    <2>1. restored' = r
      BY DEF r
    <2>2. r.header.schema = s
      BY <1>3
    <2> HIDE DEF s
    <2>3. \E m \in 1..MaxCaptures + 1 : r.parts["base"] = {m}
      BY <1>9
    <2>4. ASSUME NEW part \in StateParts
          PROVE  CASE HasPart(s, part) -> r.parts[part] = r.parts["base"]
                   [] part = "scheduler" /\ ~HasPart(s, part) -> r.parts[part] = {}
                   [] part = "spiBuffer" /\ s \in 5..7 -> r.parts[part] = {}
                   [] OTHER -> r.parts[part] = AfterReset
      <3>1. part = "spiBuffer" /\ s \in 5..7 => ~HasPart(s, part)
        BY <1>2 DEF HasPart, Since, StateParts
      <3>2. CASE HasPart(s, part)
        BY <3>1, <3>2, <1>8, <1>9
      <3>3. CASE ~HasPart(s, part) /\ part = "scheduler"
        BY <3>1, <3>3, <1>8, <1>9
      <3>4. CASE ~HasPart(s, part) /\ part # "scheduler" /\ part = "spiBuffer" /\ s \in 5..7
        BY <3>1, <3>4, <1>8, <1>9
      <3>5. CASE ~HasPart(s, part) /\ part # "scheduler" /\ ~(part = "spiBuffer" /\ s \in 5..7)
        BY <3>1, <3>5, <1>8, <1>9
      <3> QED
        BY <3>2, <3>3, <3>4, <3>5
    <2>5. /\ r.memories["l2"] = r.parts["base"]
          /\ r.memories["shared"] = IF s = 1 THEN {} ELSE r.parts["base"]
          /\ r.memories["l1d"] \in IF s < CurrentSchema THEN {{}} ELSE {{}, r.parts["base"]}
          /\ \A p \in Pages : r.pages[p] \in {{}, r.parts["base"]}
      BY <1>9, <1>10, <1>11
    <2> QED
      BY <2>1, <2>2, <2>3, <2>4, <2>5, Zenon DEF CheckpointWhole

(* A capture's header, and the file that has it.  *)
LEMMA CaptureIsFile ==
    ASSUME NEW n \in 1..MaxCaptures + 1, NEW s \in 1..CurrentSchema, NEW used \in SUBSET Pages,
           NEW l1d \in {{}, {n}}, NEW f, NEW x,
           f = [is |-> "file", header |-> HeaderOf(Payload(n, s, l1d, used), s), sections |-> x]
    PROVE  IsFile(f) /\ OfACapture(f.header.sum) /\ f # NoFile
  <1>1. f.header.sum = Payload(n, s, l1d, used) /\ f.is = "file"
    BY DEF HeaderOf
  <1>2. OfACapture(f.header.sum)
    BY <1>1 DEF OfACapture
  <1>3. IsFile(f)
    BY DEF IsFile, HeaderOf
  <1> QED
    BY <1>1, <1>2, <1>3 DEF NoFile

(* The files that are found are captures.  *)
LEMMA CheckpointStarts ==
    CheckpointInit => CheckpointInv
  <1> SUFFICES ASSUME CheckpointInit PROVE CheckpointInv
    OBVIOUS
  <1>1. MaxCaptures \in Nat /\ OldSchemas \subseteq 1..CurrentSchema
    BY CheckpointAssumption
  <1>2. captures \in 0..MaxCaptures /\ CheckpointWhole
    BY <1>1 DEF CheckpointInit, CheckpointWhole
  <1>3. ASSUME disk # NoFile PROVE IsFile(disk) /\ OfACapture(disk.header.sum)
    <2>1. PICK schema \in OldSchemas, used \in SUBSET Pages :
             disk = FileOf(Payload(1, schema, {1}, used), schema)
      BY <1>3 DEF CheckpointInit
    <2>2. 1 \in 1..MaxCaptures + 1 /\ schema \in 1..CurrentSchema
      BY <1>1
    <2> QED
      BY <2>1, <2>2, CaptureIsFile DEF FileOf
  <1> QED
    BY <1>2, <1>3 DEF CheckpointInv

(* Step by step: a capture writes its own header, the sections follow it,  *)
(* damage leaves the checksum, and a read that is accepted is whole.       *)
LEMMA CheckpointSteps ==
    CheckpointInv /\ [CheckpointNext]_checkpointVars => CheckpointInv'
  <1> SUFFICES ASSUME CheckpointInv, [CheckpointNext]_checkpointVars PROVE CheckpointInv'
    OBVIOUS
  <1>1. MaxCaptures \in Nat
    BY CheckpointAssumption
  <1>2. /\ captures \in 0..MaxCaptures /\ CheckpointWhole
        /\ disk # NoFile => IsFile(disk) /\ OfACapture(disk.header.sum)
    BY DEF CheckpointInv
  <1>3. ASSUME restored' \in {restored, NoFile} PROVE CheckpointWhole'
    BY <1>2, <1>3 DEF CheckpointWhole
  <1>4. ASSUME NEW used \in SUBSET Pages, NEW plain \in BOOLEAN, CaptureState(used, plain)
        PROVE  CheckpointInv'
    <2> DEFINE n == captures + 2
               l1d == IF plain THEN {} ELSE {n}
    <2>1. captures' \in 0..MaxCaptures /\ n \in 1..MaxCaptures + 1
      BY <1>1, <1>2, <1>4 DEF CaptureState
    <2>2. l1d \in {{}, {n}} /\ CurrentSchema \in 1..CurrentSchema
      BY DEF CurrentSchema
    <2>3. disk' = [is |-> "file", header |-> HeaderOf(Payload(n, CurrentSchema, l1d, used), CurrentSchema),
                   sections |-> Nothing]
      BY <1>4 DEF CaptureState
    <2> HIDE DEF n, l1d
    <2>4. IsFile(disk') /\ OfACapture(disk'.header.sum)
      BY <2>1, <2>2, <2>3, CaptureIsFile
    <2>5. CheckpointWhole'
      BY <1>3, <1>4 DEF CaptureState
    <2> QED
      BY <2>1, <2>4, <2>5 DEF CheckpointInv
  <1>5. ASSUME WriteSection PROVE CheckpointInv'
    <2>1. PICK x : disk' = [disk EXCEPT !.sections = x]
      BY <1>5 DEF WriteSection
    <2>2. CASE disk = NoFile
      <3>1. disk' = NoFile
        BY <2>1, <2>2 DEF NoFile
      <3> QED
        BY <3>1, <1>2, <1>3, <1>5 DEF WriteSection, CheckpointInv
    <2>3. CASE disk # NoFile
      <3>1. IsFile(disk') /\ disk'.header = disk.header
        BY <2>1, <2>3, <1>2, FileParts
      <3> QED
        BY <3>1, <2>3, <1>2, <1>3, <1>5 DEF WriteSection, CheckpointInv
    <2> QED
      BY <2>2, <2>3
  <1>6. CASE WriteFails
    BY <1>2, <1>3, <1>6 DEF WriteFails, CheckpointInv
  <1>7. CASE WriterCrashes
    BY <1>2, <1>3, <1>7 DEF WriterCrashes, CheckpointInv
  <1>8. ASSUME DamageFile PROVE CheckpointInv'
    <2>1. IsFile(disk) /\ OfACapture(disk.header.sum)
      BY <1>2, <1>8 DEF DamageFile
    <2>2. \/ \E x : disk' = [disk EXCEPT !.sections = x]
          \/ \E x : disk' \in {[disk EXCEPT !.header.schema = x], [disk EXCEPT !.header.layout = x],
                               [disk EXCEPT !.header.length = x], [disk EXCEPT !.header.native = x]}
      <3>1. ASSUME NEW name, disk' = [disk EXCEPT !.sections[name] = {99}]
            PROVE  disk' = [disk EXCEPT !.sections = [disk.sections EXCEPT ![name] = {99}]]
        <4>1. "sections" \in DOMAIN disk
          BY <2>1 DEF IsFile
        <4> QED
          BY <3>1, <4>1
      <3> QED
        BY <1>8, <3>1 DEF DamageFile
    <2>3. IsFile(disk') /\ disk'.header.sum = disk.header.sum
      <3>1. ASSUME NEW x, disk' = [disk EXCEPT !.sections = x]
            PROVE  IsFile(disk') /\ disk'.header.sum = disk.header.sum
        BY <2>1, <3>1, FileParts
      <3>2. ASSUME NEW x, disk' \in {[disk EXCEPT !.header.schema = x], [disk EXCEPT !.header.layout = x],
                               [disk EXCEPT !.header.length = x], [disk EXCEPT !.header.native = x]}
            PROVE  IsFile(disk') /\ disk'.header.sum = disk.header.sum
        <4>1. \A g \in {[disk EXCEPT !.header.schema = x], [disk EXCEPT !.header.layout = x],
                         [disk EXCEPT !.header.length = x], [disk EXCEPT !.header.native = x]} :
                 IsFile(g) /\ g.header.sum = disk.header.sum
          BY <2>1, FileParts, ZenonT(60)
        <4> QED
          BY <3>2, <4>1, Zenon
      <3> QED
        BY <2>2, <3>1, <3>2
    <2>4. captures' = captures /\ restored' = NoFile
      BY <1>8 DEF DamageFile
    <2> QED
      BY <1>2, <1>3, <2>1, <2>3, <2>4 DEF CheckpointInv
  <1>9. ASSUME NEW plain \in BOOLEAN, ReadBack(plain) PROVE CheckpointInv'
    <2>1. disk # NoFile /\ disk' = disk /\ captures' = captures
      BY <1>9 DEF ReadBack
    <2>2. \/ restored' = NoFile
          \/ Intact(disk) /\ restored' = Restore(disk)
      BY <1>9 DEF ReadBack
    <2>3. CheckpointWhole'
      BY <1>1, <1>2, <1>3, <2>1, <2>2, RestoredWhole
    <2> QED
      BY <1>2, <2>1, <2>3 DEF CheckpointInv
  <1>10. CASE UNCHANGED checkpointVars
    BY <1>2, <1>3, <1>10 DEF checkpointVars, CheckpointInv
  <1> QED
    BY <1>4, <1>5, <1>6, <1>7, <1>8, <1>9, <1>10 DEF CheckpointNext

(* What cdj_dsp_checkpoint_read accepts is one capture, whole, with every  *)
(* part its schema lacks reset, whatever captures, writes that fail,       *)
(* crashes of the writer, damage and reads went before.                    *)
THEOREM CheckpointsAreWhole ==
    CheckpointSpec => []CheckpointWhole
  <1>1. CheckpointInv => CheckpointWhole
    BY DEF CheckpointInv
  <1> QED
    BY <1>1, CheckpointStarts, CheckpointSteps, PTL DEF CheckpointSpec

-----------------------------------------------------------------------------
(* The audio, for any number of serializers, frames and slots.  Between    *)
(* transactions the feeder is at the first word of a frame, the port either*)
(* asks for all its words or for none, and what was sent ends with the     *)
(* frame before.                                                           *)

(* The frames of a half, the words of one, and the ways to move them. *)
Frames == 0..HalfFrames - 1
Rounds == 0..Serializers - 1
Shapes == {"row", "rows", "frame"}

(* The first word of a frame, and of the frame after the one with this word. *)
Base(half, j) == half * HalfWords + j * Serializers
Following(f) == (f + Serializers) % (2 * HalfWords)
NextHalf(half, j) == IF j = HalfFrames - 1 THEN 1 - half ELSE half
NextFrame(j) == IF j = HalfFrames - 1 THEN 0 ELSE j + 1

(* The feeder's parameters when word i of frame j of a half is to go next. *)
Parameters ==
    [src : Int, ab : BOOLEAN, static : BOOLEAN, bcnt : Int, ccnt : Int, brld : Int, bidx : Int,
     cidx : Int, link : Int, tcint : BOOLEAN, tcch : BOOLEAN, tcc : Int]

IsAt(p, shape, half, j, i) ==
    /\ p \in Parameters
    /\ p.src = Base(half, j) + i /\ (p.ab <=> shape = "frame") /\ ~p.static
    /\ p.bcnt = IF shape = "row" THEN HalfWords - (j * Serializers + i)
                ELSE IF shape = "rows" THEN Serializers - i ELSE Serializers
    /\ p.ccnt = IF shape = "row" THEN 1 ELSE HalfFrames - j
    /\ p.brld = Serializers /\ p.bidx = 1
    /\ p.cidx = IF shape = "frame" THEN Serializers ELSE 1
    /\ p.link = 1 - half /\ p.tcint /\ (p.tcch <=> half = Ping)
    /\ p.tcc = IF half = Ping THEN Copier ELSE Feeder

ParamsAt(param, shape, half, j, i) ==
    /\ param \in [{Ping, Pong, Feeder, Copier} -> Parameters]
    /\ \A h \in {0, 1} : param[h] = Half(shape, h)
    /\ param[Copier] = Block
    /\ IsAt(param[Feeder], shape, half, j, i)

(* The sizes, as the provers use them. *)
LEMMA Sizes ==
    /\ Serializers \in Nat /\ Serializers > 0 /\ HalfFrames \in Nat /\ HalfFrames > 0
    /\ HalfWords \in Nat /\ HalfWords >= Serializers
    /\ ServiceLimit \in Nat /\ ServiceLimit > 1
  <1>1. /\ Serializers \in Nat /\ Serializers > 0 /\ HalfFrames \in Nat /\ HalfFrames > 0
        /\ ServiceLimit \in Nat /\ ServiceLimit > 1
    BY DspAudioAssumption
  <1>2. HalfWords \in Nat /\ HalfWords >= Serializers
    <2>1. \A a, b \in Nat : b > 0 => b * a \in Nat /\ b * a >= a
      OBVIOUS
    <2> QED
      BY <1>1, <2>1 DEF HalfWords
  <1> QED
    BY <1>1, <1>2

(* A frame lies within its half of the buffer. *)
LEMMA FrameStarts ==
    ASSUME NEW j \in Frames
    PROVE  /\ j * Serializers \in Nat /\ j * Serializers + Serializers <= HalfWords
           /\ j < HalfFrames - 1 => /\ (j + 1) * Serializers = j * Serializers + Serializers
                                    /\ j * Serializers + 2 * Serializers <= HalfWords
           /\ j = HalfFrames - 1 => j * Serializers + Serializers = HalfWords
           /\ 0 * Serializers = 0
  <1>1. j \in Nat /\ j <= HalfFrames - 1
    BY Sizes DEF Frames
  <1>2. \A a, s \in Nat : a * s \in Nat /\ (a + 1) * s = a * s + s
    OBVIOUS
  <1>3. \A a, b, s \in Nat : a <= b => a * s <= b * s
    OBVIOUS
  <1>4. (j + 1) * Serializers <= HalfFrames * Serializers
    BY <1>1, <1>3, Sizes
  <1>5. j < HalfFrames - 1 => (j + 2) * Serializers <= HalfFrames * Serializers
    BY <1>1, <1>3, Sizes
  <1>6. (j + 2) * Serializers = (j + 1) * Serializers + Serializers
    <2>1. j + 1 \in Nat /\ (j + 1) + 1 = j + 2
      BY <1>1
    <2> QED
      BY <1>2, <2>1, Sizes
  <1>7. j * Serializers \in Nat /\ (j + 1) * Serializers = j * Serializers + Serializers
    BY <1>1, <1>2, Sizes
  <1>8. j = HalfFrames - 1 => j + 1 = HalfFrames
    BY <1>1, Sizes
  <1>9. 0 * Serializers = 0
    BY Sizes
  <1> QED
    BY <1>4, <1>5, <1>6, <1>7, <1>8, <1>9, Sizes DEF HalfWords

(* After the last frame of a half comes the first of the other. *)
LEMMA FramesFollow ==
    ASSUME NEW half \in {0, 1}, NEW j \in Frames
    PROVE  /\ NextHalf(half, j) \in {0, 1} /\ NextFrame(j) \in Frames
           /\ Base(half, j) \in Nat /\ Base(half, j) + Serializers <= 2 * HalfWords
           /\ j = HalfFrames - 1 => Base(half, j) + Serializers = (half + 1) * HalfWords
           /\ j < HalfFrames - 1 => Base(half, NextFrame(j)) = Base(half, j) + Serializers
           /\ Following(Base(half, j)) = Base(NextHalf(half, j), NextFrame(j))
  <1>1. half * HalfWords = IF half = 0 THEN 0 ELSE HalfWords
    BY Sizes
  <1>2. NextHalf(half, j) \in {0, 1} /\ NextFrame(j) \in Frames /\ j \in Nat
    BY Sizes DEF NextHalf, NextFrame, Frames
  <1>3. Base(half, j) \in Nat /\ Base(half, j) + Serializers <= 2 * HalfWords
    BY <1>1, Sizes, FrameStarts DEF Base
  <1>4. j = HalfFrames - 1 => Base(half, j) + Serializers = (half + 1) * HalfWords
    <2>1. (half + 1) * HalfWords = IF half = 0 THEN HalfWords ELSE 2 * HalfWords
      BY Sizes
    <2> QED
      BY <1>1, <2>1, Sizes, FrameStarts DEF Base
  <1>5. j < HalfFrames - 1 => Base(half, NextFrame(j)) = Base(half, j) + Serializers
    BY <1>1, Sizes, FrameStarts DEF Base, NextFrame
  <1>6. \A a, m \in Nat : a < m => a % m = a
    OBVIOUS
  <1>7. \A m \in Nat : m > 0 => m % m = 0
    OBVIOUS
  <1>8. 2 * HalfWords \in Nat /\ 2 * HalfWords > 0
    BY Sizes
  <1>9. CASE j < HalfFrames - 1
    <2>1. Base(half, j) + Serializers \in Nat /\ Base(half, j) + Serializers < 2 * HalfWords
      BY <1>1, <1>9, Sizes, FrameStarts DEF Base
    <2>2. Following(Base(half, j)) = Base(half, j) + Serializers
      BY <2>1, <1>6, <1>8 DEF Following
    <2>3. NextHalf(half, j) = half
      BY <1>9, <1>2, Sizes DEF NextHalf
    <2> QED
      BY <1>2, <1>3, <1>4, <1>5, <2>2, <2>3, <1>9
  <1>10. CASE j = HalfFrames - 1
    <2>1. 0 \in Frames /\ NextFrame(j) = 0 /\ NextHalf(half, j) = 1 - half
      BY <1>10, Sizes DEF NextFrame, NextHalf, Frames
    <2>2. Base(1 - half, 0) = IF half = 0 THEN HalfWords ELSE 0
      <3>1. (1 - half) * HalfWords = IF half = 0 THEN HalfWords ELSE 0
        BY Sizes
      <3>2. 0 * Serializers = 0
        BY Sizes
      <3> QED
        BY <3>1, <3>2, Sizes DEF Base
    <2>3. half = 0 => Following(Base(half, j)) = HalfWords
      <3>1. half = 0 => Base(half, j) + Serializers = HalfWords
        BY <1>1, <1>10, FrameStarts, Sizes DEF Base
      <3> QED
        BY <3>1, <1>6, <1>8, Sizes DEF Following
    <2>4. half = 1 => Following(Base(half, j)) = 0
      <3>1. half = 1 => Base(half, j) + Serializers = 2 * HalfWords
        BY <1>1, <1>10, FrameStarts, Sizes DEF Base
      <3> QED
        BY <3>1, <1>7, <1>8 DEF Following
    <2> QED
      BY <1>2, <1>3, <1>4, <1>5, <2>1, <2>2, <2>3, <2>4, Sizes
  <1> QED
    BY <1>2, <1>9, <1>10, Sizes DEF Frames

(* In every shape the feeder's next word is one further on. *)
LEMMA OneStride ==
    ASSUME NEW s \in Nat, s > 0, NEW k \in Nat
    PROVE  (k * s) % s = 0
  <1> DEFINE q == (k * s) \div s   r == (k * s) % s
  <1>1. k * s \in Nat
    OBVIOUS
  <1>2. q \in Int /\ r \in 0..s - 1 /\ k * s = s * q + r
    BY <1>1
  <1> HIDE DEF q, r
  <1>3. k * s = s * k
    OBVIOUS
  <1>4. s * (k - q) = r
    BY <1>2, <1>3
  <1>5. CASE k - q >= 1
    <2>1. \A d \in Int : d >= 1 => s * d >= s
      OBVIOUS
    <2> QED
      BY <1>2, <1>4, <1>5, <2>1
  <1>6. CASE k - q <= 0
    <2>1. \A d \in Int : d <= 0 => s * d <= 0
      OBVIOUS
    <2> QED
      BY <1>2, <1>4, <1>6, <2>1 DEF r
  <1> QED
    BY <1>2, <1>5, <1>6

(* A frame begins at a multiple of the serializers' number. *)
LEMMA FramesAligned ==
    ASSUME NEW half \in {0, 1}, NEW j \in Frames
    PROVE  Base(half, j) % Serializers = 0
  <1>1. j \in Nat
    BY Sizes DEF Frames
  <1>2. half = 0 => Base(half, j) = j * Serializers
    BY FrameStarts, Sizes DEF Base
  <1>3. half = 1 => Base(half, j) = (HalfFrames + j) * Serializers
    <2>1. \A a, b, s \in Nat : a * s + b * s = (a + b) * s
      OBVIOUS
    <2> QED
      BY <2>1, <1>1, Sizes DEF Base, HalfWords
  <1>4. HalfFrames + j \in Nat
    BY <1>1, Sizes
  <1> QED
    BY <1>1, <1>2, <1>3, <1>4, Sizes, OneStride

(* The sets the program writes are those of the halves' first words. *)
LEMMA SetsOfHalves ==
    ASSUME NEW shape \in Shapes, NEW half \in {0, 1}
    PROVE  /\ IsAt(Half(shape, half), shape, half, 0, 0)
           /\ 0 \in Frames /\ Half(shape, half) \in Parameters
  <1> DEFINE p == Half(shape, half)
  <1>1. 0 \in Frames /\ 0 * Serializers = 0
    BY Sizes DEF Frames
  <1>2. half * HalfWords + 0 + 0 = half * HalfWords /\ half * HalfWords \in Int
    BY Sizes
  <1>3. /\ p.src = half * HalfWords /\ p.ab = (shape = "frame") /\ p.static = FALSE
        /\ p.bcnt = IF shape = "row" THEN HalfWords ELSE Serializers
        /\ p.ccnt = IF shape = "row" THEN 1 ELSE HalfFrames
        /\ p.brld = Serializers /\ p.bidx = 1
        /\ p.cidx = IF shape = "frame" THEN Serializers ELSE 1
        /\ p.link = 1 - half /\ p.tcint = TRUE /\ p.tcch = (half = Ping)
        /\ p.tcc = IF half = Ping THEN Copier ELSE Feeder
    BY Zenon DEF Half
  <1>4. p \in Parameters
    <2>1. /\ half * HalfWords \in Int /\ 1 - half \in Int /\ 1 \in Int
          /\ (IF shape = "row" THEN HalfWords ELSE Serializers) \in Int
          /\ (IF shape = "row" THEN 1 ELSE HalfFrames) \in Int
          /\ Serializers \in Int
          /\ (IF shape = "frame" THEN Serializers ELSE 1) \in Int
          /\ (IF half = Ping THEN Copier ELSE Feeder) \in Int
      BY <1>2, Sizes DEF Copier, Feeder
    <2>2. (shape = "frame") \in BOOLEAN /\ (half = Ping) \in BOOLEAN /\ FALSE \in BOOLEAN /\ TRUE \in BOOLEAN
      OBVIOUS
    <2> QED
      BY <2>1, <2>2, Zenon DEF Half, Parameters
  <1>5. (p.ab <=> shape = "frame") /\ ~p.static /\ p.tcint /\ (p.tcch <=> half = Ping)
    BY <1>3, Zenon
  <1>6. /\ p.src = Base(half, 0) + 0
        /\ p.bcnt = IF shape = "row" THEN HalfWords - (0 * Serializers + 0)
                    ELSE IF shape = "rows" THEN Serializers - 0 ELSE Serializers
        /\ p.ccnt = IF shape = "row" THEN 1 ELSE HalfFrames - 0
    <2> HIDE DEF p
    <2> QED
      BY <1>1, <1>2, <1>3, Sizes DEF Base, Shapes
  <1> HIDE DEF p
  <1>7. 
IsAt(p, shape, half, 0, 0)
    BY <1>3, <1>4, <1>5, <1>6, Zenon DEF IsAt
  <1> QED
    BY <1>1, <1>4, <1>7 DEF p

(* All but what steps. *)
Same(q, p) ==
    /\ q.ab = p.ab /\ q.static = p.static /\ q.brld = p.brld /\ q.bidx = p.bidx /\ q.cidx = p.cidx
    /\ q.link = p.link /\ q.tcint = p.tcint /\ q.tcch = p.tcch /\ q.tcc = p.tcc

(* The three ways the parameters step. *)
NextWord(p)  == [p EXCEPT !.bcnt = p.bcnt - 1, !.src = p.src + p.bidx]
NextArray(p) == [p EXCEPT !.ccnt = p.ccnt - 1, !.src = p.src + p.cidx]
NextRow(p)   == [p EXCEPT !.bcnt = p.brld, !.ccnt = p.ccnt - 1, !.src = p.src + p.cidx]

(* What each way of stepping the parameters makes of them. *)
LEMMA SetsStep ==
    ASSUME NEW p \in Parameters
    PROVE  /\ NextWord(p) \in Parameters /\ Same(NextWord(p), p)
           /\ NextWord(p).src = p.src + p.bidx /\ NextWord(p).bcnt = p.bcnt - 1
           /\ NextWord(p).ccnt = p.ccnt
           /\ NextArray(p) \in Parameters /\ Same(NextArray(p), p)
           /\ NextArray(p).src = p.src + p.cidx /\ NextArray(p).ccnt = p.ccnt - 1
           /\ NextArray(p).bcnt = p.bcnt
           /\ NextRow(p) \in Parameters /\ Same(NextRow(p), p)
           /\ NextRow(p).src = p.src + p.cidx /\ NextRow(p).ccnt = p.ccnt - 1
           /\ NextRow(p).bcnt = p.brld
  <1>1. p.bcnt - 1 \in Int /\ p.ccnt - 1 \in Int /\ p.src + p.bidx \in Int /\ p.src + p.cidx \in Int
        /\ p.brld \in Int
    BY DEF Parameters
  <1>2. /\ NextWord(p) \in Parameters /\ Same(NextWord(p), p)
        /\ NextWord(p).src = p.src + p.bidx /\ NextWord(p).bcnt = p.bcnt - 1
        /\ NextWord(p).ccnt = p.ccnt
    <2>1. PICK x \in Int, z \in Int : x = p.bcnt - 1 /\ z = p.src + p.bidx
      BY <1>1
    <2>2. NextWord(p) = [p EXCEPT !.bcnt = x, !.src = z]
      BY <2>1 DEF NextWord
    <2>3. PICK q : q = NextWord(p)
      OBVIOUS
    <2>4. q = [p EXCEPT !.bcnt = x, !.src = z]
      BY <2>2, <2>3
    <2>5. q \in Parameters /\ q.src = z /\ q.bcnt = x /\ q.ccnt = p.ccnt /\ Same(q, p)
      BY <2>4 DEF Parameters, Same
    <2> QED
      BY <2>1, <2>3, <2>5
  <1>3. /\ NextArray(p) \in Parameters /\ Same(NextArray(p), p)
        /\ NextArray(p).src = p.src + p.cidx /\ NextArray(p).ccnt = p.ccnt - 1
        /\ NextArray(p).bcnt = p.bcnt
    <2>1. PICK x \in Int, z \in Int : x = p.ccnt - 1 /\ z = p.src + p.cidx
      BY <1>1
    <2>2. NextArray(p) = [p EXCEPT !.ccnt = x, !.src = z]
      BY <2>1 DEF NextArray
    <2>3. PICK q : q = NextArray(p)
      OBVIOUS
    <2>4. q = [p EXCEPT !.ccnt = x, !.src = z]
      BY <2>2, <2>3
    <2>5. q \in Parameters /\ q.src = z /\ q.bcnt = p.bcnt /\ q.ccnt = x /\ Same(q, p)
      BY <2>4 DEF Parameters, Same
    <2> QED
      BY <2>1, <2>3, <2>5
  <1>4. /\ NextRow(p) \in Parameters /\ Same(NextRow(p), p)
        /\ NextRow(p).src = p.src + p.cidx /\ NextRow(p).ccnt = p.ccnt - 1
        /\ NextRow(p).bcnt = p.brld
    <2>1. PICK x \in Int, y \in Int, z \in Int :
             x = p.brld /\ y = p.ccnt - 1 /\ z = p.src + p.cidx
      BY <1>1
    <2>2. NextRow(p) = [p EXCEPT !.bcnt = x, !.ccnt = y, !.src = z]
      BY <2>1 DEF NextRow
    <2>3. [p EXCEPT !.bcnt = x, !.ccnt = y, !.src = z] \in Parameters
      BY DEF Parameters
    <2>4. Same(NextRow(p), p)
      BY <2>2, Zenon DEF Parameters, Same
    <2>5. NextRow(p).src = z /\ NextRow(p).ccnt = y /\ NextRow(p).bcnt = x
      BY <2>2 DEF Parameters
    <2> QED
      BY <2>1, <2>2, <2>3, <2>4, <2>5
  <1> QED
    BY <1>2, <1>3, <1>4

(* What one event does to the parameters: it moves a word, or a frame.  *)
LEMMA FeederAdvances ==
    ASSUME NEW shape \in Shapes, NEW half \in {0, 1}, NEW j \in Frames, NEW i \in Rounds,
           shape = "frame" => i = 0,
           NEW param, ParamsAt(param, shape, half, j, i)
    PROVE  LET p == param[Feeder]
               whole == shape = "frame" \/ i = Serializers - 1
           IN  /\ IsAt(p, shape, half, j, i)
               /\ p.bcnt # 0 /\ p.ccnt # 0
               /\ Final(p) <=> whole /\ j = HalfFrames - 1
               /\ whole => IsAt(Advanced(param, Feeder), shape, NextHalf(half, j), NextFrame(j), 0)
               /\ ~whole => IsAt(Advanced(param, Feeder), shape, half, j, i + 1)
  <1> DEFINE p == param[Feeder]
             whole == shape = "frame" \/ i = Serializers - 1
  <1>1. /\ i \in Nat /\ i < Serializers /\ j \in Nat /\ j < HalfFrames
        /\ j * Serializers \in Nat /\ Base(half, j) \in Nat
    BY Sizes, FrameStarts, FramesFollow DEF Rounds, Frames
  <1>2. IsAt(p, shape, half, j, i)
    BY DEF ParamsAt
  <1>3. /\ p \in Parameters
        /\ p.src = Base(half, j) + i /\ (p.ab <=> shape = "frame") /\ ~p.static
        /\ p.bcnt = IF shape = "row" THEN HalfWords - (j * Serializers + i)
                    ELSE IF shape = "rows" THEN Serializers - i ELSE Serializers
        /\ p.ccnt = IF shape = "row" THEN 1 ELSE HalfFrames - j
        /\ p.brld = Serializers /\ p.bidx = 1
        /\ p.cidx = IF shape = "frame" THEN Serializers ELSE 1
        /\ p.link = 1 - half /\ p.tcint /\ (p.tcch <=> half = Ping)
        /\ p.tcc = IF half = Ping THEN Copier ELSE Feeder
    BY <1>2 DEF IsAt
  <1>a. p.bcnt \in Int /\ p.ccnt \in Int /\ p.src \in Int /\ p.bidx \in Int /\ p.cidx \in Int /\ p.brld \in Int
    BY <1>3 DEF Parameters
  <1>4. p.bcnt # 0 /\ p.ccnt # 0
    BY <1>1, <1>3, Sizes, FrameStarts DEF Shapes
  <1>5. Final(p) <=> whole /\ j = HalfFrames - 1
    <2>1. j # HalfFrames - 1 => j < HalfFrames - 1
      BY <1>1, Sizes
    <2>2. CASE shape = "row"
      <3>1. p.bcnt = 1 <=> j * Serializers + i + 1 = HalfWords
        BY <1>1, <1>3, <2>2, Sizes
      <3> QED
        BY <3>1, <1>1, <1>3, <2>1, <2>2, Sizes, FrameStarts DEF Final
    <2>3. CASE shape = "rows"
      BY <1>1, <1>3, <2>3, Sizes DEF Final
    <2>4. CASE shape = "frame"
      BY <1>1, <1>3, <2>4, Sizes DEF Final
    <2> QED
      BY <2>2, <2>3, <2>4 DEF Shapes
  <1>6. IsAt(param[1 - half], shape, 1 - half, 0, 0) /\ param[p.link] = param[1 - half]
    <2>1. param[1 - half] = Half(shape, 1 - half)
      BY DEF ParamsAt, Ping, Pong, Feeder, Copier
    <2> QED
      BY <2>1, <1>3, SetsOfHalves
  <1>7. CASE Final(p)
    <2>1. IsAt(Advanced(param, Feeder), shape, 1 - half, 0, 0)
      BY <1>3, <1>6, <1>7 DEF Advanced, NextWord, NextArray, NextRow
    <2>2. NextHalf(half, j) = 1 - half /\ NextFrame(j) = 0 /\ whole
      BY <1>5, <1>7 DEF NextHalf, NextFrame
    <2> QED
      BY <1>2, <1>4, <1>5, <2>1, <2>2
  <1>8. CASE ~Final(p)
    <2>1. CASE whole
      <3>1. /\ j < HalfFrames - 1 /\ NextHalf(half, j) = half /\ NextFrame(j) = j + 1
            /\ j + 1 \in Nat /\ (j + 1) * Serializers = j * Serializers + Serializers
            /\ Base(half, j + 1) = Base(half, j) + Serializers
        <4>1. j < HalfFrames - 1 /\ j # HalfFrames - 1
          BY <1>1, <1>5, <1>8, <2>1, Sizes
        <4> QED
          BY <4>1, <1>1, Sizes, FrameStarts, FramesFollow DEF NextHalf, NextFrame
      <3>2. CASE shape = "frame"
        <4>1. i = 0
          BY <3>2
        <4>2. Advanced(param, Feeder) = NextArray(p)
          BY <1>3, <1>8, <3>2 DEF Advanced, NextWord, NextArray, NextRow
        <4>3. /\ p.ccnt - 1 = HalfFrames - (j + 1)
              /\ p.src + p.cidx = Base(half, j + 1) + 0
          BY <1>1, <1>3, <3>1, <3>2, <4>1, Sizes
        <4>4. IsAt(Advanced(param, Feeder), shape, half, j + 1, 0)
          <5> DEFINE q == Advanced(param, Feeder)
          <5>1. q \in Parameters /\ Same(q, p) /\ q.src = p.src + p.cidx /\ q.bcnt = p.bcnt /\ q.ccnt = p.ccnt - 1
            BY <1>3, <1>a, <4>2, SetsStep
          <5> HIDE DEF q, p
          <5>2. IsAt(q, shape, half, j + 1, 0)
            BY <1>1, <1>3, <5>1, <4>3, <3>2, Sizes DEF IsAt, Same
          <5> QED
            BY <5>2 DEF q
        <4> QED
          BY <1>2, <1>4, <1>5, <2>1, <3>1, <4>4
      <3>3. CASE shape = "row"
        <4>1. p.bcnt > 1 /\ p.bcnt \in Int
          BY <1>1, <1>3, <2>1, <3>1, <3>3, Sizes, FrameStarts
        <4>2. Advanced(param, Feeder) = NextWord(p)
          BY <1>3, <1>8, <3>3, <4>1 DEF Advanced, NextWord, NextArray, NextRow
        <4>3. /\ p.bcnt - 1 = HalfWords - ((j + 1) * Serializers + 0)
              /\ p.src + p.bidx = Base(half, j + 1) + 0
          BY <1>1, <1>3, <2>1, <3>1, <3>3, Sizes
        <4>4. IsAt(Advanced(param, Feeder), shape, half, j + 1, 0)
          <5> DEFINE q == Advanced(param, Feeder)
          <5>1. q \in Parameters /\ Same(q, p) /\ q.src = p.src + p.bidx /\ q.bcnt = p.bcnt - 1 /\ q.ccnt = p.ccnt
            BY <1>3, <1>a, <4>2, SetsStep
          <5> HIDE DEF q, p
          <5>2. IsAt(q, shape, half, j + 1, 0)
            BY <1>1, <1>3, <5>1, <4>3, <3>3, Sizes DEF IsAt, Same
          <5> QED
            BY <5>2 DEF q
        <4> QED
          BY <1>2, <1>4, <1>5, <2>1, <3>1, <4>4
      <3>4. CASE shape = "rows"
        <4>1. p.bcnt = 1 /\ i = Serializers - 1
          BY <1>1, <1>3, <2>1, <3>4, Sizes
        <4>2. Advanced(param, Feeder) = NextRow(p)
          BY <1>3, <1>8, <3>4, <4>1 DEF Advanced, NextWord, NextArray, NextRow
        <4>3. /\ p.brld = Serializers - 0 /\ p.ccnt - 1 = HalfFrames - (j + 1)
              /\ p.src + p.cidx = Base(half, j + 1) + 0
          BY <1>1, <1>3, <4>1, <3>1, <3>4, Sizes
        <4>4. IsAt(Advanced(param, Feeder), shape, half, j + 1, 0)
          <5> DEFINE q == Advanced(param, Feeder)
          <5>1. q \in Parameters /\ Same(q, p) /\ q.src = p.src + p.cidx /\ q.bcnt = p.brld /\ q.ccnt = p.ccnt - 1
            BY <1>3, <1>a, <4>2, SetsStep
          <5> HIDE DEF q, p
          <5>2. IsAt(q, shape, half, j + 1, 0)
            BY <1>1, <1>3, <5>1, <4>3, <3>4, Sizes DEF IsAt, Same
          <5> QED
            BY <5>2 DEF q
        <4> QED
          BY <1>2, <1>4, <1>5, <2>1, <3>1, <4>4
      <3> QED
        BY <3>2, <3>3, <3>4 DEF Shapes
    <2>2. CASE ~whole
      <3>1. shape \in {"row", "rows"} /\ i < Serializers - 1
        BY <2>2, <1>1, Sizes DEF Shapes
      <3>2. p.bcnt > 1
        BY <1>1, <1>3, <3>1, Sizes, FrameStarts
      <3>3. Advanced(param, Feeder) = NextWord(p)
        BY <1>3, <1>8, <3>1, <3>2 DEF Advanced, NextWord, NextArray, NextRow
      <3>4. /\ p.src + p.bidx = Base(half, j) + (i + 1)
            /\ p.bcnt - 1 = IF shape = "row" THEN HalfWords - (j * Serializers + (i + 1))
                            ELSE IF shape = "rows" THEN Serializers - (i + 1) ELSE Serializers
        BY <1>1, <1>3, <3>1, Sizes
      <3>5. IsAt(Advanced(param, Feeder), shape, half, j, i + 1)
        <4> DEFINE q == Advanced(param, Feeder)
        <4>1. q \in Parameters /\ Same(q, p) /\ q.src = p.src + p.bidx /\ q.bcnt = p.bcnt - 1 /\ q.ccnt = p.ccnt
          BY <1>3, <1>a, <3>3, SetsStep
        <4> HIDE DEF q, p
        <4>2. IsAt(q, shape, half, j, i + 1)
          BY <1>1, <1>3, <4>1, <3>4, <3>1, Sizes DEF IsAt, Same
        <4> QED
          BY <4>2 DEF q
      <3> QED
        BY <1>2, <1>4, <1>5, <2>2, <3>5
    <2> QED
      BY <2>1, <2>2
  <1> QED
    BY <1>7, <1>8

(* A set of numbers that is not empty has a least one. *)
LEMMA LeastNumber ==
    ASSUME NEW T, T \subseteq Nat, T # {}
    PROVE  \E n \in T : \A m \in T : n <= m
  <1> DEFINE R == {s \in Nat \X Nat : s[1] < s[2]}
  <1>1. OpToRel(<, Nat) = R
    BY DEF OpToRel
  <1>2. IsWellFoundedOn(R, Nat)
    BY <1>1, NatLessThanWellFounded
  <1>3. \E n \in T : \A m \in T : ~(<<m, n>> \in R)
    <2> HIDE DEF R
    <2> QED
      BY <1>2, WFMin
  <1>4. \A m, n \in Nat : m < n => <<m, n>> \in R
    OBVIOUS
  <1> HIDE DEF R
  <1>5. PICK n \in T : \A m \in T : ~(<<m, n>> \in R)
    BY <1>3
  <1>6. ASSUME NEW m \in T
        PROVE  n <= m
    <2>1. n \in Nat /\ m \in Nat
      BY <1>5
    <2>2. ~(m < n)
      BY <1>4, <1>5, <2>1
    <2> QED
      BY <2>1, <2>2
  <1> QED
    BY <1>5, <1>6

(* What holds at 0, and at each number when it does at the one before. *)
LEMMA Climb ==
    ASSUME NEW n \in Nat, NEW T, 0 \in T,
           \A i \in 1..n : i - 1 \in T => i \in T
    PROVE  \A i \in 0..n : i \in T
  <1> DEFINE U == {i \in 0..n : i \notin T}
  <1> SUFFICES ASSUME U # {} PROVE FALSE
    OBVIOUS
  <1>1. U \subseteq Nat
    OBVIOUS
  <1>2. PICK m \in U : \A k \in U : m <= k
    <2> HIDE DEF U
    <2> QED
      BY <1>1, LeastNumber
  <1>3. m \in 0..n /\ m \notin T /\ m # 0
    BY <1>2
  <1>4. m \in 1..n /\ m - 1 \in 0..n /\ ~(m <= m - 1)
    BY <1>3
  <1>5. m - 1 \in T
    BY <1>2, <1>4
  <1> QED
    BY <1>3, <1>4, <1>5

(* A recursion over an interval, with values in a set, has a solution. *)
Solution(g, F, n, X, start) ==
    g \in [0..n -> X] /\ g[0] = start /\ \A i \in 1..n : g[i] = F[<<g[i - 1], i>>]
LEMMA Iterates ==
    ASSUME NEW n \in Nat, NEW X, NEW start \in X, NEW F \in [X \X (1..n) -> X]
    PROVE  \E g : Solution(g, F, n, X, start)
  <1> DEFINE Begun(m) == \E g \in [0..m -> X] :
                            g[0] = start /\ \A i \in 1..m : g[i] = F[<<g[i - 1], i>>]
             T == {m \in 0..n : Begun(m)}
  <1>1. 0 \in T
    <2> DEFINE g == [i \in 0..0 |-> start]
    <2>1. g \in [0..0 -> X] /\ g[0] = start /\ \A i \in 1..0 : g[i] = F[<<g[i - 1], i>>]
      OBVIOUS
    <2> HIDE DEF g
    <2>2. Begun(0)
      BY <2>1
    <2> QED
      BY <2>2
  <1>2. ASSUME NEW m \in 1..n, m - 1 \in T PROVE m \in T
    <2>1. PICK g \in [0..(m - 1) -> X] :
             g[0] = start /\ \A i \in 1..(m - 1) : g[i] = F[<<g[i - 1], i>>]
      BY <1>2
    <2>2. m \in Nat /\ m - 1 \in 0..(m - 1) /\ m \in 0..n
      OBVIOUS
    <2>3. F[<<g[m - 1], m>>] \in X
      BY <2>1, <2>2
    <2> DEFINE h == [i \in 0..m |-> IF i = m THEN F[<<g[m - 1], m>>] ELSE g[i]]
    <2>4. h \in [0..m -> X]
      <3>1. \A i \in 0..m : i # m => i \in 0..(m - 1)
        BY <2>2
      <3> QED
        BY <2>1, <2>3, <3>1
    <2>5. h[0] = start
      <3>1. 0 \in 0..m /\ 0 # m
        BY <2>2
      <3> QED
        BY <2>1, <3>1
    <2>6. ASSUME NEW i \in 1..m PROVE h[i] = F[<<h[i - 1], i>>]
      <3>1. i - 1 \in 0..m /\ i - 1 # m /\ i \in 0..m
        OBVIOUS
      <3>2. h[i - 1] = g[i - 1]
        BY <3>1
      <3>3. CASE i = m
        BY <3>1, <3>2, <3>3
      <3>4. CASE i # m
        <4>1. i \in 1..(m - 1)
          BY <3>4
        <4> QED
          BY <2>1, <3>1, <3>2, <3>4, <4>1
      <3> QED
        BY <3>3, <3>4
    <2> HIDE DEF h
    <2>7. Begun(m)
      BY <2>4, <2>5, <2>6
    <2> HIDE DEF Begun
    <2> QED
      BY <2>2, <2>7
  <1> HIDE DEF T
  <1>3. \A i \in 0..n : i \in T
    BY <1>1, <1>2, Climb
  <1>4. Begun(n)
    BY <1>3 DEF T
  <1> QED
    BY <1>4 DEF Solution
-----------------------------------------------------------------------------
(* The types of the port. *)
Ports ==
    [gblctl : SUBSET {"srclr", "smrst", "frst"}, xrdy : SUBSET All, next : 1..Ends, xdata : BOOLEAN,
     xundrn : BOOLEAN, xdmaerr : BOOLEAN, slot : -1..1, xtdm : SUBSET {0, 1},
     xbuf : [All -> Int], fresh : SUBSET All, writes : Nat]

(* The port has i words of the frame that begins with this one.  *)
Holds(x, base, i) ==
    /\ x \in Ports /\ x.next = i + 1 /\ x.xrdy = (i + 1)..Serializers /\ (x.xdata <=> i < Serializers)
    /\ 1..i \subseteq x.fresh
    /\ \A n \in 1..i : x.xbuf[n] = base + n - 1

(* What the words written do not touch.  *)
AsBefore(y, x) ==
    /\ y.gblctl = x.gblctl /\ y.slot = x.slot /\ y.xtdm = x.xtdm

(* A word written leaves the port's registers in their ranges. *)
LEMMA PortTypes ==
    ASSUME NEW x \in Ports, NEW word \in Int
    PROVE  PortWritten(x, word) \in Ports
  <1>1. Ends = Serializers + 1 /\ Serializers \in Nat /\ All = 1..Serializers
    BY Sizes DEF Ends, All
  <1>2. CASE x.next = Ends
    BY <1>2 DEF PortWritten, Ports
  <1>3. CASE x.next # Ends
    <2>1. x.next \in All /\ x.next + 1 \in 1..Ends
      BY <1>1, <1>3 DEF Ports
    <2>2. [x.xbuf EXCEPT ![x.next] = word] \in [All -> Int] /\ x.fresh \cup {x.next} \in SUBSET All
          /\ x.xrdy \ {x.next} \in SUBSET All /\ x.writes + 1 \in Nat
          /\ (x.xdata /\ x.xrdy # {x.next}) \in BOOLEAN
      BY <2>1 DEF Ports
    <2>3. PICK b \in [All -> Int], f \in SUBSET All, r \in SUBSET All, k \in 1..Ends, w \in Nat, d \in BOOLEAN :
             /\ b = [x.xbuf EXCEPT ![x.next] = word] /\ f = x.fresh \cup {x.next}
             /\ r = x.xrdy \ {x.next} /\ k = x.next + 1 /\ w = x.writes + 1
             /\ d = (x.xdata /\ x.xrdy # {x.next})
      BY <2>1, <2>2
    <2>4. PortWritten(x, word) = [x EXCEPT !.xbuf = b, !.fresh = f, !.xrdy = r, !.next = k, !.writes = w, !.xdata = d]
      BY <1>3, <2>3 DEF PortWritten, Ports
    <2>5. [x EXCEPT !.xbuf = b, !.fresh = f, !.xrdy = r, !.next = k, !.writes = w, !.xdata = d] \in Ports
      BY DEF Ports
    <2> QED
      BY <2>4, <2>5
  <1> QED
    BY <1>2, <1>3

(* A word of the frame is given to the serializer it is for.  *)
LEMMA PortTakes ==
    ASSUME NEW base \in Int, NEW i \in Rounds, NEW x, Holds(x, base, i)
    PROVE  LET y == PortWritten(x, base + i)
           IN  Holds(y, base, i + 1) /\ y.writes = x.writes + 1 /\ AsBefore(y, x)
  <1> DEFINE y == PortWritten(x, base + i)
  <1>1. /\ Serializers \in Nat /\ All = 1..Serializers /\ Ends = Serializers + 1
        /\ i \in Nat /\ i < Serializers /\ base + i \in Int
    BY Sizes DEF Ends, All, Rounds
  <1>2. /\ x \in Ports /\ x.next = i + 1 /\ x.xrdy = (i + 1)..Serializers /\ x.xdata
        /\ 1..i \subseteq x.fresh /\ \A n \in 1..i : x.xbuf[n] = base + n - 1
    BY <1>1 DEF Holds
  <1>3. y \in Ports
    BY <1>1, <1>2, PortTypes
  <1>4. y = [x EXCEPT !.xbuf[x.next] = base + i, !.fresh = @ \cup {x.next},
                   !.xrdy = @ \ {x.next}, !.next = @ + 1, !.writes = @ + 1,
                   !.xdata = @ /\ x.xrdy # {x.next}]
    BY <1>1, <1>2 DEF PortWritten
  <1>5. /\ y.xbuf = [x.xbuf EXCEPT ![x.next] = base + i] /\ y.fresh = x.fresh \cup {x.next}
        /\ y.xrdy = x.xrdy \ {x.next} /\ y.next = x.next + 1 /\ y.writes = x.writes + 1
        /\ AsBefore(y, x)
    BY <1>2, <1>4 DEF Ports, AsBefore
  <1>6. y.xdata <=> x.xrdy # {x.next}
    BY <1>2, <1>4 DEF Ports
  <1>7. x.xrdy # {x.next} <=> i + 1 < Serializers
    <2>1. ((i + 1)..Serializers) # {i + 1} <=> i + 1 < Serializers
      <3>1. i + 1 < Serializers => i + 2 \in (i + 1)..Serializers /\ i + 2 # i + 1
        BY <1>1
      <3>2. ~(i + 1 < Serializers) => (i + 1)..Serializers = {i + 1}
        BY <1>1
      <3> QED
        BY <3>1, <3>2
    <2> QED
      BY <2>1, <1>2
  <1>8. y.xrdy = ((i + 1) + 1)..Serializers /\ y.next = (i + 1) + 1
    <2>1. ((i + 1)..Serializers) \ {i + 1} = ((i + 1) + 1)..Serializers
      BY <1>1
    <2> HIDE DEF y
    <2> QED
      BY <1>1, <1>2, <1>5, <2>1
  <1>9. 1..(i + 1) \subseteq y.fresh
    BY <1>1, <1>2, <1>5, SMTT(40)
  <1>10. ASSUME NEW n \in 1..(i + 1) PROVE y.xbuf[n] = base + n - 1
    <2>1. x.xbuf \in [All -> Int] /\ n \in All /\ i + 1 \in All
      BY <1>1, <1>2 DEF Ports
    <2>2. y.xbuf = [x.xbuf EXCEPT ![i + 1] = base + i]
      BY <1>2, <1>5
    <2> HIDE DEF y
    <2>3. CASE n = i + 1
      BY <1>1, <2>1, <2>2, <2>3
    <2>4. CASE n # i + 1
      <3>1. n \in 1..i
        BY <1>1, <2>4
      <3> QED
        BY <1>2, <2>1, <2>2, <2>4, <3>1
    <2> QED
      BY <2>3, <2>4
  <1> HIDE DEF y
  <1> QED
    BY <1>3, <1>5, <1>6, <1>7, <1>8, <1>9, <1>10 DEF Holds, y

(* What one array, or the arrays of a frame, make of the port.  *)
LEMMA Moves ==
    ASSUME NEW base \in Int, NEW i \in Rounds, NEW n \in 1..Serializers, i + n <= Serializers,
           NEW t, NEW p \in Parameters, Holds(t.x, base, i),
           p.src = base + i, n = 1 \/ p.bidx = 1, n = IF p.ab THEN p.bcnt ELSE 1
    PROVE  LET y == Moved(t, Feeder, p)
           IN  Holds(y, base, i + n) /\ y.writes = t.x.writes + n /\ AsBefore(y, t.x)
  <1> DEFINE WordAt(k) == p.src + (k - 1) * p.bidx
             Solves(f) == f = [k \in 0..n |-> IF k = 0 THEN t.x ELSE PortWritten(f[k - 1], WordAt(k))]
             after == CHOOSE f : Solves(f)
             F == [q \in Ports \X (1..n) |-> PortWritten(q[1], WordAt(q[2]))]
  <1>1. /\ Serializers \in Nat /\ i \in Nat /\ n \in Nat /\ n >= 1
        /\ p.src \in Int /\ p.bidx \in Int /\ t.x \in Ports
    BY Sizes DEF Rounds, Parameters, Holds
  <1>2. \A k \in 1..n : WordAt(k) \in Int /\ WordAt(k) = base + (i + (k - 1))
    <2> TAKE k \in 1..n
    <2>1. k - 1 \in Int /\ (k - 1) * 1 = k - 1 /\ 0 * p.bidx = 0
      BY <1>1
    <2>2. (k - 1) * p.bidx = k - 1
      <3>1. CASE n = 1
        <4>1. k = 1 /\ k - 1 = 0
          BY <3>1
        <4> QED
          BY <2>1, <4>1
      <3>2. CASE p.bidx = 1
        BY <2>1, <3>2
      <3> QED
        BY <3>1, <3>2
    <2> QED
      BY <1>1, <2>1, <2>2
  <1>3. F \in [Ports \X (1..n) -> Ports]
    <2>1. \A q \in Ports \X (1..n) : q[1] \in Ports /\ WordAt(q[2]) \in Int
      BY <1>2
    <2> HIDE DEF WordAt
    <2>2. \A q \in Ports \X (1..n) : PortWritten(q[1], WordAt(q[2])) \in Ports
      BY <2>1, PortTypes
    <2> QED
      BY <2>2
  <1>4. \E g : Solves(g)
    <2>0. PICK g : Solution(g, F, n, Ports, t.x)
      <3> HIDE DEF F
      <3> QED
        BY <1>1, <1>3, Iterates
    <2>1. g \in [0..n -> Ports] /\ g[0] = t.x /\ \A k \in 1..n : g[k] = F[<<g[k - 1], k>>]
      BY <2>0 DEF Solution
    <2>2. ASSUME NEW k \in 1..n PROVE g[k] = PortWritten(g[k - 1], WordAt(k))
      <3>1. k - 1 \in 0..n
        BY <1>1
      <3>2. <<g[k - 1], k>> \in Ports \X (1..n)
        BY <2>1, <3>1
      <3> HIDE DEF WordAt
      <3> QED
        BY <2>1, <3>2 DEF F
    <2> HIDE DEF WordAt
    <2>3. \A k \in 0..n : g[k] = IF k = 0 THEN t.x ELSE PortWritten(g[k - 1], WordAt(k))
      BY <1>1, <2>1, <2>2
    <2>4. g = [k \in 0..n |-> g[k]]
      BY <2>1
    <2>5. Solves(g)
      BY <2>3, <2>4
    <2> HIDE DEF Solves
    <2> QED
      BY <2>5
  <1>5. Solves(after)
    <2> HIDE DEF Solves
    <2> QED
      BY <1>4
  <1> DEFINE at == after
  <1> HIDE DEF after
  <1>6. at[0] = t.x /\ \A k \in 1..n : at[k] = PortWritten(at[k - 1], WordAt(k))
    <2>1. 0 \in 0..n /\ \A k \in 1..n : k \in 0..n /\ k # 0
      BY <1>1
    <2> HIDE DEF WordAt
    <2> QED
      BY <1>5, <2>1
  <1> DEFINE T == {k \in 0..n : /\ Holds(at[k], base, i + k) /\ at[k].writes = t.x.writes + k
                                /\ AsBefore(at[k], t.x)}
  <1>7. 0 \in T
    BY <1>1, <1>6 DEF AsBefore, Ports
  <1>8. ASSUME NEW k \in 1..n, k - 1 \in T PROVE k \in T
    <2>1. i + (k - 1) \in Rounds /\ (i + (k - 1)) + 1 = i + k /\ k \in 0..n
      BY <1>1 DEF Rounds
    <2> DEFINE x == at[k - 1]
               m == i + (k - 1)
    <2>2. Holds(x, base, m) /\ x.writes = t.x.writes + (k - 1) /\ AsBefore(x, t.x)
      BY <1>8
    <2>3. at[k] = PortWritten(x, base + m)
      BY <1>2, <1>6
    <2> HIDE DEF x, m
    <2>4. Holds(at[k], base, m + 1) /\ at[k].writes = x.writes + 1 /\ AsBefore(at[k], x)
      BY <2>1, <2>2, <2>3, PortTakes DEF m
    <2>5. at[k].writes = t.x.writes + k /\ AsBefore(at[k], t.x)
      BY <2>2, <2>4, <1>1 DEF AsBefore, Ports
    <2> QED
      BY <2>1, <2>4, <2>5 DEF m
  <1>9. n \in T
    <2> HIDE DEF T
    <2>1. \A k \in 0..n : k \in T
      BY <1>1, <1>7, <1>8, Climb
    <2> QED
      BY <2>1, <1>1
  <1>10. Moved(t, Feeder, p) = at[n]
    BY DEF Moved, after
  <1> HIDE DEF at
  <1> QED
    BY <1>9, <1>10

(* The two channels, the EDMA and a transaction. *)
Channels == {Feeder, Copier}
Edmas ==
    [param : [{Ping, Pong, Feeder, Copier} -> Parameters], er : SUBSET Channels, eer : SUBSET Channels,
     cer : SUBSET Channels, emr : SUBSET Channels, ipr : SUBSET Channels, notify : BOOLEAN]
Works == [e : Edmas, x : Ports, queue : Seq(Channels), ok : BOOLEAN, done : Nat \X Nat]

(* A transaction with all of it renewed that a request may change. *)
Renewed(t, ch, x, er, p, ipr, notify, emr, cer, queue, done) ==
    [t EXCEPT !.x = x, !.e.er = er, !.e.param[ch] = p, !.e.ipr = ipr, !.e.notify = notify,
              !.e.emr = emr, !.e.cer = cer, !.queue = queue, !.done = done]

(* What a request does to the registers, the queue and the counts. *)
Change(c, t, ch, p) ==
    /\ c \in Works /\ c.ok = t.ok /\ c.x = Moved(t, ch, p) /\ c.e.eer = t.e.eer
    /\ c.e.er = t.e.er \ {ch}
    /\ c.e.param = [t.e.param EXCEPT ![ch] = Advanced(t.e.param, ch)]
    /\ c.e.ipr = IF Final(p) /\ p.tcint THEN t.e.ipr \cup {p.tcc} ELSE t.e.ipr
    /\ c.e.notify <=> (t.e.notify \/ (Final(p) /\ p.tcint /\ t.e.ipr = {}))
    /\ c.e.cer = (t.e.cer \ {ch}) \cup (IF Final(p) /\ p.tcch THEN {p.tcc} ELSE {})
    /\ c.queue = IF Final(p) /\ p.tcch THEN Append(t.queue, p.tcc) ELSE t.queue
    /\ c.done = IF ch = Copier THEN <<t.done[1], t.done[2] + 1>>
                ELSE IF Final(p) /\ p.tcch THEN <<t.done[1] + 1, t.done[2]>> ELSE t.done

(* complete_one does what Change says, part by part. *)
LEMMA CompletedFields ==
    ASSUME NEW t \in Works, NEW ch \in Channels, NEW p \in Parameters, p = t.e.param[ch],
           p.bcnt # 0, p.ccnt # 0, Advanced(t.e.param, ch) \in Parameters,
           Moved(t, ch, p) \in Ports, p.tcc \in Channels \/ (~p.tcint /\ ~p.tcch)
    PROVE  Change(Completed(t, ch), t, ch, p)
  <1> DEFINE final == Final(p)
             chains == final /\ p.tcch
             c == Completed(t, ch)
  <1>1. /\ t.e \in Edmas /\ t.x \in Ports /\ t.queue \in Seq(Channels) /\ t.done \in Nat \X Nat
        /\ t.e.er \in SUBSET Channels /\ t.e.ipr \in SUBSET Channels /\ t.e.emr \in SUBSET Channels
        /\ t.e.cer \in SUBSET Channels /\ t.e.notify \in BOOLEAN
    BY DEF Works, Edmas
  <1>2. p.tcint \/ p.tcch => p.tcc \in Channels
    OBVIOUS
  <1>3. PICK x \in Ports, er \in SUBSET Channels, s \in Parameters :
           x = Moved(t, ch, p) /\ er = t.e.er \ {ch} /\ s = Advanced(t.e.param, ch)
    BY <1>1
  <1>4. PICK ipr \in SUBSET Channels : ipr = IF final /\ p.tcint THEN t.e.ipr \cup {p.tcc} ELSE t.e.ipr
    BY <1>1, <1>2
  <1>5. PICK notify \in BOOLEAN : notify = (t.e.notify \/ (final /\ p.tcint /\ t.e.ipr = {}))
    <2>1. (t.e.notify \/ (final /\ p.tcint /\ t.e.ipr = {})) \in BOOLEAN
      OBVIOUS
    <2> QED
      BY <2>1, Zenon
  <1>6. PICK emr \in SUBSET Channels :
           emr = IF chains /\ p.tcc \in t.e.cer \ {ch} THEN t.e.emr \cup {p.tcc} ELSE t.e.emr
    BY <1>1, <1>2
  <1>7. PICK cer \in SUBSET Channels : cer = (t.e.cer \ {ch}) \cup (IF chains THEN {p.tcc} ELSE {})
    BY <1>1, <1>2
  <1>8. PICK queue \in Seq(Channels) : queue = IF chains THEN Append(t.queue, p.tcc) ELSE t.queue
    <2>1. chains => Append(t.queue, p.tcc) \in Seq(Channels)
      BY <1>1, <1>2
    <2> QED
      BY <1>1, <2>1
  <1>9. PICK done \in Nat \X Nat : done = IF ch = Copier THEN <<t.done[1], t.done[2] + 1>>
                           ELSE IF chains THEN <<t.done[1] + 1, t.done[2]>> ELSE t.done
    <2>1. t.done[1] \in Nat /\ t.done[2] \in Nat
      BY <1>1
    <2>2. <<t.done[1], t.done[2] + 1>> \in Nat \X Nat /\ <<t.done[1] + 1, t.done[2]>> \in Nat \X Nat
      BY <2>1, SMTT(40)
    <2> QED
      BY <1>1, <2>2
  <1>10. c = Renewed(t, ch, x, er, s, ipr, notify, emr, cer, queue, done)
    BY <1>3, <1>4, <1>5, <1>6, <1>7, <1>8, <1>9 DEF Completed, Renewed
  <1> HIDE DEF c
  <1>11. /\ c \in Works
         /\ c.x = x /\ c.e.er = er /\ c.e.param = [t.e.param EXCEPT ![ch] = s]
         /\ c.e.ipr = ipr /\ c.e.notify = notify /\ c.e.emr = emr /\ c.e.cer = cer
         /\ c.queue = queue /\ c.done = done /\ c.e.eer = t.e.eer /\ c.ok = t.ok
    <2> DEFINE f == [t.e.param EXCEPT ![ch] = s]
    <2>1. f \in [{Ping, Pong, Feeder, Copier} -> Parameters] /\ t.e \in Edmas
      BY DEF Works, Edmas, Channels
    <2>2. PICK g \in [{Ping, Pong, Feeder, Copier} -> Parameters] : g = f
      BY <2>1
    <2> DEFINE e == [t.e EXCEPT !.er = er, !.param = g, !.ipr = ipr, !.notify = notify,
                                !.emr = emr, !.cer = cer]
      <2>3. /\ e \in Edmas /\ e.er = er /\ e.param = g /\ e.ipr = ipr /\ e.notify = notify
          /\ e.emr = emr /\ e.cer = cer /\ e.eer = t.e.eer
      BY <2>1 DEF Edmas
    <2>4. c = [t EXCEPT !.x = x, !.e = e, !.queue = queue, !.done = done]
      BY <1>10, <2>1, <2>2, ZenonT(60) DEF Works, Edmas, Renewed
    <2> HIDE DEF e, f
    <2>5. /\ c \in Works /\ c.x = x /\ c.e = e /\ c.queue = queue /\ c.done = done /\ c.ok = t.ok
      BY <2>3, <2>4 DEF Works
    <2> QED
      BY <2>2, <2>3, <2>5 DEF f
  <1>12. c.e.notify <=> (t.e.notify \/ (final /\ p.tcint /\ t.e.ipr = {}))
    BY <1>5, <1>11, Zenon
  <1> QED
    BY <1>3, <1>4, <1>7, <1>8, <1>9, <1>11, <1>12 DEF c, Change

(* k words of a frame are in the port, and the next one, or the next       *)
(* frame's first, is what the feeder moves next.                           *)
Reached(t, shape, half, j, k) ==
    IF k = Serializers
    THEN /\ ParamsAt(t.e.param, shape, NextHalf(half, j), NextFrame(j), 0)
         /\ Holds(t.x, Base(half, j), Serializers)
    ELSE /\ ParamsAt(t.e.param, shape, half, j, k) /\ Holds(t.x, Base(half, j), k)
         /\ shape = "frame" => k = 0

(* What requests leave alone, and what they say to the core. *)
Later(u, t) ==
    /\ u \in Works /\ u.ok = t.ok /\ u.e.eer = t.e.eer /\ AsBefore(u.x, t.x)
    /\ t.e.notify => u.e.notify
    /\ u.e.ipr # {} => t.e.ipr # {} \/ u.e.notify

(* What is so of two requests in turn is so of both together. *)
LEMMA LaterStill ==
    ASSUME NEW t, NEW u, NEW v, Later(u, t), Later(v, u)
    PROVE  Later(v, t)
  BY DEF Later, AsBefore

(* The copier's set is STATIC, of one array, and links nothing. *)
LEMMA BlockStays ==
    /\ Block \in Parameters /\ Final(Block) /\ Block.static /\ ~Block.tcint /\ ~Block.tcch
    /\ Block.bcnt # 0 /\ Block.ccnt # 0
  <1>1. Block \in Parameters
    BY DEF Block, Parameters, Ping
  <1>2. /\ Block.ab = TRUE /\ Block.static = TRUE /\ Block.tcint = FALSE /\ Block.tcch = FALSE
        /\ Block.bcnt = 1 /\ Block.ccnt = 1
    BY Zenon DEF Block
  <1>3. Block.ab /\ Block.static /\ ~Block.tcint /\ ~Block.tcch
    BY <1>2, Zenon
  <1> QED
    BY <1>1, <1>2, <1>3 DEF Final

(* The copy is made: the port and the feeder see nothing of it.  *)
LEMMA CopierCompletes ==
    ASSUME NEW t \in Works, t.e.param[Copier] = Block
    PROVE  LET c == Completed(t, Copier)
           IN  /\ Later(c, t) /\ c.x = t.x /\ c.e.param = t.e.param
               /\ c.e.er = t.e.er \ {Copier} /\ c.e.cer = t.e.cer \ {Copier}
               /\ c.queue = t.queue /\ c.done = <<t.done[1], t.done[2] + 1>>
  <1> DEFINE c == Completed(t, Copier)
             p == t.e.param[Copier]
  <1>1. p \in Parameters /\ ~p.tcint /\ ~p.tcch /\ p.bcnt # 0 /\ p.ccnt # 0 /\ p.static
    BY BlockStays
  <1>2. Copier \in Channels /\ Copier # Feeder
    BY DEF Channels, Copier, Feeder
  <1>3. Advanced(t.e.param, Copier) = p
    BY <1>1 DEF Advanced
  <1>4. Moved(t, Copier, p) = t.x /\ t.x \in Ports
    BY <1>2 DEF Moved, Works
  <1>5. t.e.param \in [{Ping, Pong, Feeder, Copier} -> Parameters]
    BY DEF Works, Edmas
  <1>6. [t.e.param EXCEPT ![Copier] = p] = t.e.param
    BY <1>5
  <1> HIDE DEF p
  <1>7. /\ c \in Works /\ c.ok = t.ok /\ c.x = t.x /\ c.e.eer = t.e.eer
        /\ c.e.er = t.e.er \ {Copier}
        /\ c.e.param = [t.e.param EXCEPT ![Copier] = p]
        /\ c.e.ipr = t.e.ipr /\ (c.e.notify <=> t.e.notify)
        /\ c.e.cer = (t.e.cer \ {Copier}) \cup {}
        /\ c.queue = t.queue
        /\ c.done = <<t.done[1], t.done[2] + 1>>
    <2>1. p = t.e.param[Copier]
      BY DEF p
    <2> HIDE DEF c
    <2>2. Change(c, t, Copier, p)
      BY <2>1, <1>1, <1>2, <1>3, <1>4, CompletedFields DEF c
    <2> QED
      BY <2>2, <1>1, <1>3, <1>4 DEF Change
  <1> HIDE DEF c
  <1>8. Later(c, t)
    BY <1>7 DEF Later, AsBefore
  <1> QED
    BY <1>6, <1>7, <1>8 DEF c

(* The feeder moves a word, or a frame. *)
LEMMA FeederCompletes ==
    ASSUME NEW shape \in Shapes, NEW half \in {0, 1}, NEW j \in Frames, NEW k \in Rounds,
           NEW t \in Works, Reached(t, shape, half, j, k), t.e.cer = {}
    PROVE  LET c == Completed(t, Feeder)
           IN  /\ Later(c, t) /\ c.x.writes > t.x.writes /\ c.e.er = t.e.er \ {Feeder}
               /\ \E m \in (k + 1)..Serializers : Reached(c, shape, half, j, m)
               /\ \/ c.e.cer = {} /\ c.queue = t.queue /\ c.done = t.done
                  \/ /\ c.e.cer = {Copier} /\ c.queue = Append(t.queue, Copier)
                     /\ c.done = <<t.done[1] + 1, t.done[2]>>
  <1> DEFINE c == Completed(t, Feeder)
             p == t.e.param[Feeder]
             whole == shape = "frame" \/ k = Serializers - 1
             n == IF p.ab THEN p.bcnt ELSE 1
             base == Base(half, j)
  <1>1. /\ Serializers \in Nat /\ k \in Nat /\ k < Serializers /\ k # Serializers /\ base \in Int
        /\ Feeder # Copier /\ Feeder \in Channels /\ Copier \in Channels
    BY Sizes, FramesFollow DEF Rounds, Feeder, Copier, Channels
  <1>2. /\ ParamsAt(t.e.param, shape, half, j, k) /\ Holds(t.x, base, k)
        /\ shape = "frame" => k = 0
    BY <1>1 DEF Reached
  <1>3. /\ IsAt(p, shape, half, j, k)
        /\ p.bcnt # 0 /\ p.ccnt # 0
        /\ Final(p) <=> whole /\ j = HalfFrames - 1
        /\ whole => IsAt(Advanced(t.e.param, Feeder), shape, NextHalf(half, j), NextFrame(j), 0)
        /\ ~whole => IsAt(Advanced(t.e.param, Feeder), shape, half, j, k + 1)
    BY <1>2, FeederAdvances
  <1>4. /\ p \in Parameters /\ p.src = base + k /\ p.bidx = 1 /\ (p.ab <=> shape = "frame")
        /\ shape = "frame" => p.bcnt = Serializers
        /\ p.tcint /\ (p.tcch <=> half = Ping) /\ p.tcc = IF half = Ping THEN Copier ELSE Feeder
        /\ p.tcc \in Channels /\ Advanced(t.e.param, Feeder) \in Parameters
    BY <1>1, <1>3 DEF IsAt
  <1>5. n \in 1..Serializers /\ k + n <= Serializers /\ n = IF whole THEN Serializers - k ELSE 1
    BY <1>1, <1>2, <1>4, Sizes
  <1> HIDE DEF base, n, p, whole
  <1>6. LET y == Moved(t, Feeder, p)
        IN  Holds(y, base, k + n) /\ y.writes = t.x.writes + n /\ AsBefore(y, t.x)
    BY <1>1, <1>2, <1>4, <1>5, Moves DEF n
  <1>7. Moved(t, Feeder, p) \in Ports
    BY <1>6 DEF Holds
  <1>8. /\ c \in Works /\ c.ok = t.ok /\ c.x = Moved(t, Feeder, p) /\ c.e.eer = t.e.eer
        /\ c.e.er = t.e.er \ {Feeder}
        /\ c.e.param = [t.e.param EXCEPT ![Feeder] = Advanced(t.e.param, Feeder)]
        /\ c.e.ipr = IF Final(p) /\ p.tcint THEN t.e.ipr \cup {p.tcc} ELSE t.e.ipr
        /\ c.e.notify <=> (t.e.notify \/ (Final(p) /\ p.tcint /\ t.e.ipr = {}))
        /\ c.e.cer = (t.e.cer \ {Feeder}) \cup (IF Final(p) /\ p.tcch THEN {p.tcc} ELSE {})
        /\ c.queue = IF Final(p) /\ p.tcch THEN Append(t.queue, p.tcc) ELSE t.queue
        /\ c.done = IF Feeder = Copier THEN <<t.done[1], t.done[2] + 1>>
                    ELSE IF Final(p) /\ p.tcch THEN <<t.done[1] + 1, t.done[2]>> ELSE t.done
    <2>1. p = t.e.param[Feeder]
      BY DEF p
    <2> HIDE DEF c
    <2>2. Change(c, t, Feeder, p)
      BY <2>1, <1>1, <1>3, <1>4, <1>7, CompletedFields DEF c
    <2> QED
      BY <2>2 DEF Change
  <1> HIDE DEF c
  <1>9. Later(c, t)
    <2>1. c.e.ipr # {} => t.e.ipr # {} \/ c.e.notify
      BY <1>4, <1>8
    <2> QED
      BY <2>1, <1>6, <1>8 DEF Later
  <1>10. c.x.writes > t.x.writes
    <2>1. t.x.writes \in Nat
      BY DEF Works, Ports
    <2> QED
      BY <2>1, <1>5, <1>6, <1>8
  <1>11. \/ c.e.cer = {} /\ c.queue = t.queue /\ c.done = t.done
         \/ /\ c.e.cer = {Copier} /\ c.queue = Append(t.queue, Copier)
            /\ c.done = <<t.done[1] + 1, t.done[2]>>
    BY <1>1, <1>4, <1>8
  <1>12. \E m \in (k + 1)..Serializers : Reached(c, shape, half, j, m)
    <2>1. /\ c.e.param \in [{Ping, Pong, Feeder, Copier} -> Parameters]
          /\ \A h \in {0, 1} : c.e.param[h] = Half(shape, h)
          /\ c.e.param[Copier] = Block /\ c.e.param[Feeder] = Advanced(t.e.param, Feeder)
      BY <1>2, <1>4, <1>8 DEF ParamsAt, Ping, Pong, Feeder, Copier
    <2>2. CASE whole
      <3>1. k + n = Serializers
        BY <1>1, <1>5, <2>2
      <3>2. ParamsAt(c.e.param, shape, NextHalf(half, j), NextFrame(j), 0)
        BY <2>1, <2>2, <1>3 DEF ParamsAt
      <3>3. Reached(c, shape, half, j, Serializers)
        BY <3>1, <3>2, <1>6, <1>8 DEF Reached, base
      <3> QED
        BY <3>3, <1>1
    <2>3. CASE ~whole
      <3>1. n = 1 /\ k + 1 < Serializers /\ shape # "frame"
        BY <1>1, <1>5, <2>3 DEF whole
      <3>2. ParamsAt(c.e.param, shape, half, j, k + 1)
        BY <2>1, <2>3, <1>3 DEF ParamsAt
      <3>3. Reached(c, shape, half, j, k + 1)
        BY <3>1, <3>2, <1>1, <1>6, <1>8 DEF Reached, base
      <3> QED
        BY <3>1, <3>3, <1>1
    <2> QED
      BY <2>2, <2>3
  <1> QED
    BY <1>8, <1>9, <1>10, <1>11, <1>12 DEF c

(* Another queue changes nothing else of a transaction. *)
LEMMA Requeued ==
    ASSUME NEW t \in Works, NEW q \in Seq(Channels)
    PROVE  LET u == [t EXCEPT !.queue = q]
           IN  /\ u \in Works /\ u.e = t.e /\ u.x = t.x /\ u.ok = t.ok /\ u.done = t.done
               /\ u.queue = q
  BY DEF Works

(* One turn of the service loop. *)
Turn(u) == IF u.queue = <<>> \/ ~u.ok THEN u
           ELSE Completed([u EXCEPT !.queue = Tail(@)], Head(u.queue))

(* Two turns are enough when the second changes nothing more.  *)
LEMMA ServedByTurns ==
    ASSUME NEW t, NEW requests, NEW s1, NEW s2,
           Turn([t EXCEPT !.queue = requests]) = s1, Turn(s1) = s2, Turn(s2) = s2,
           s2.queue = <<>>
    PROVE  Served(t, requests) = s2
  <1> DEFINE n == ServiceLimit
             s0 == [t EXCEPT !.queue = requests]
             X == {s0, s1, s2}
             Solves(f) == f = [i \in 0..n |-> IF i = 0 THEN s0
                                              ELSE LET u == f[i - 1]
                                                   IN  IF u.queue = <<>> \/ ~u.ok THEN u
                                                       ELSE Completed([u EXCEPT !.queue = Tail(@)], Head(u.queue))]
             after == CHOOSE f : Solves(f)
             F == [q \in X \X (1..n) |-> Turn(q[1])]
  <1>1. n \in Nat /\ n > 1
    BY Sizes
  <1>2. F \in [X \X (1..n) -> X]
    <2>1. \A x \in X : Turn(x) \in X
      OBVIOUS
    <2> HIDE DEF X
    <2> QED
      BY <2>1
  <1> HIDE DEF s0
  <1>3. \E g : Solves(g)
    <2>1. s0 \in X
      OBVIOUS
    <2>2. PICK g : Solution(g, F, n, X, s0)
      <3> HIDE DEF F, X, n
      <3> QED
        BY <1>1, <1>2, <2>1, Iterates
    <2> HIDE DEF n, X
    <2>3. g \in [0..n -> X] /\ g[0] = s0 /\ \A i \in 1..n : g[i] = F[<<g[i - 1], i>>]
      BY <2>2 DEF Solution
    <2>4. ASSUME NEW i \in 1..n PROVE g[i] = Turn(g[i - 1])
      <3>1. i - 1 \in 0..n
        BY <1>1
      <3>2. <<g[i - 1], i>> \in X \X (1..n)
        BY <2>3, <3>1
      <3> QED
        BY <2>3, <3>2
    <2>a. \A i \in 0..n : g[i] = IF i = 0 THEN s0 ELSE Turn(g[i - 1])
      <3>1. \A i \in 0..n : i # 0 => i \in 1..n
        BY <1>1
      <3> QED
        BY <2>3, <2>4, <3>1
    <2>5. \A i \in 0..n : g[i] = IF i = 0 THEN s0
                                 ELSE LET u == g[i - 1]
                                      IN  IF u.queue = <<>> \/ ~u.ok THEN u
                                          ELSE Completed([u EXCEPT !.queue = Tail(@)], Head(u.queue))
      BY <2>a, Zenon DEF Turn
    <2>6. g = [i \in 0..n |-> g[i]]
      BY <2>3
    <2>7. Solves(g)
      BY <2>5, <2>6
    <2> HIDE DEF Solves
    <2> QED
      BY <2>7
  <1>4. Solves(after)
    <2> HIDE DEF Solves
    <2> QED
      BY <1>3
  <1> DEFINE at == after
  <1> HIDE DEF after
  <1>5. at[0] = s0 /\ \A i \in 1..n : at[i] = Turn(at[i - 1])
    <2>1. 0 \in 0..n /\ \A i \in 1..n : i \in 0..n /\ i # 0
      BY <1>1
    <2> QED
      BY <1>4, <2>1 DEF Turn
  <1> DEFINE T == {i \in 0..n : at[i] = IF i = 0 THEN s0 ELSE IF i = 1 THEN s1 ELSE s2}
  <1> HIDE DEF n
  <1>6. 0 \in T
    BY <1>1, <1>5
  <1>7. ASSUME NEW i \in 1..n, i - 1 \in T PROVE i \in T
    <2>1. at[i] = Turn(at[i - 1]) /\ i \in 0..n
      BY <1>1, <1>5
    <2>2. at[i - 1] = IF i - 1 = 0 THEN s0 ELSE IF i - 1 = 1 THEN s1 ELSE s2
      BY <1>7
    <2>3. Turn(s0) = s1
      BY DEF s0
    <2> QED
      BY <2>1, <2>2, <2>3
  <1>8. n \in T
    <2> HIDE DEF T
    <2>1. \A i \in 0..n : i \in T
      BY <1>1, <1>6, <1>7, Climb
    <2> QED
      BY <1>1, <2>1
  <1>9. at[n] = s2
    BY <1>1, <1>8
  <1>10. Served(t, requests) = IF at[n].queue # <<>> THEN Failed(at[n]) ELSE at[n]
    BY DEF Served, after, n, s0
  <1> HIDE DEF at
  <1> QED
    BY <1>9, <1>10

(* An event is served to the end, the copy it chains included. *)
LEMMA ServedWhole ==
    ASSUME NEW shape \in Shapes, NEW half \in {0, 1}, NEW j \in Frames, NEW k \in Rounds,
           NEW t \in Works, Reached(t, shape, half, j, k), t.ok, t.e.cer = {},
           t.done[1] = t.done[2]
    PROVE  LET r == Served(t, <<Feeder>>)
           IN  /\ Later(r, t) /\ r.x.writes > t.x.writes /\ r.e.er \subseteq t.e.er \ {Feeder}
               /\ \E m \in (k + 1)..Serializers : Reached(r, shape, half, j, m)
               /\ r.e.cer = {} /\ r.done[1] = r.done[2]
  <1> DEFINE s0 == [t EXCEPT !.queue = <<Feeder>>]
             a == [t EXCEPT !.queue = <<>>]
             s1 == Completed(a, Feeder)
             b == [s1 EXCEPT !.queue = <<>>]
             s2 == IF s1.queue = <<>> THEN s1 ELSE Completed(b, Copier)
  <1>1. /\ Feeder \in Channels /\ Copier \in Channels /\ <<>> \in Seq(Channels)
        /\ <<Feeder>> \in Seq(Channels)
    BY DEF Channels
  <1>2. /\ s0 \in Works /\ s0.e = t.e /\ s0.x = t.x /\ s0.ok = t.ok /\ s0.done = t.done
        /\ s0.queue = <<Feeder>>
    BY <1>1, Requeued
  <1>3. /\ a \in Works /\ a.e = t.e /\ a.x = t.x /\ a.ok = t.ok /\ a.done = t.done
        /\ a.queue = <<>> /\ [s0 EXCEPT !.queue = <<>>] = a
    BY <1>1, Requeued DEF Works
  <1>4. Later(a, t) /\ Reached(a, shape, half, j, k)
    BY <1>3 DEF Later, AsBefore, Reached
  <1> HIDE DEF a, s0
  <1>5. /\ Later(s1, a) /\ s1.x.writes > a.x.writes /\ s1.e.er = a.e.er \ {Feeder}
        /\ \E m \in (k + 1)..Serializers : Reached(s1, shape, half, j, m)
        /\ \/ s1.e.cer = {} /\ s1.queue = <<>> /\ s1.done = t.done
           \/ /\ s1.e.cer = {Copier} /\ s1.queue = Append(<<>>, Copier)
              /\ s1.done = <<t.done[1] + 1, t.done[2]>>
    BY <1>3, <1>4, FeederCompletes
  <1> HIDE DEF s1
  <1>6. s1 \in Works /\ s1.ok /\ Later(s1, t)
    BY <1>3, <1>4, <1>5, LaterStill DEF Later
  <1>7. Turn(s0) = s1
    <2>1. s0.queue # <<>> /\ s0.ok /\ Tail(s0.queue) = <<>> /\ Head(s0.queue) = Feeder
      BY <1>2
    <2> QED
      BY <2>1, <1>3 DEF Turn, s1
  <1>8. Append(<<>>, Copier) = <<Copier>>
    OBVIOUS
  <1>9. CASE s1.queue = <<>>
    <2>1. s1.e.cer = {} /\ s1.done = t.done
      <3>1. Append(<<>>, Copier) # <<>>
        BY <1>8
      <3> QED
        BY <3>1, <1>5, <1>9
    <2>2. Turn(s1) = s1
      BY <1>9 DEF Turn
    <2>3. Served(t, <<Feeder>>) = s1
      BY <1>7, <1>9, <2>2, ServedByTurns DEF s0
    <2> QED
      BY <1>3, <1>5, <1>6, <2>1, <2>3
  <1>10. CASE s1.queue # <<>>
    <2>1. /\ s1.e.cer = {Copier} /\ s1.queue = <<Copier>>
          /\ s1.done = <<t.done[1] + 1, t.done[2]>>
      BY <1>5, <1>8, <1>10
    <2>2. b \in Works /\ b.e = s1.e /\ b.x = s1.x /\ b.ok = s1.ok /\ b.done = s1.done /\ b.queue = <<>>
      BY <1>1, <1>6, Requeued
    <2>3. b.e.param[Copier] = Block
      BY <2>2, <1>5 DEF Reached, ParamsAt
    <2> HIDE DEF b
    <2>4. s2 = Completed(b, Copier)
      BY <1>10
    <2> HIDE DEF s2
    <2>5. /\ Later(s2, b) /\ s2.x = b.x /\ s2.e.param = b.e.param
          /\ s2.e.er = b.e.er \ {Copier} /\ s2.e.cer = b.e.cer \ {Copier}
          /\ s2.queue = b.queue /\ s2.done = <<b.done[1], b.done[2] + 1>>
      BY <2>2, <2>3, <2>4, CopierCompletes
    <2>6. Turn(s1) = s2
      <3>1. s1.queue # <<>> /\ s1.ok /\ Tail(s1.queue) = <<>> /\ Head(s1.queue) = Copier
        BY <2>1, <1>6
      <3> QED
        BY <3>1, <2>4 DEF Turn, b
    <2>7. Turn(s2) = s2 /\ s2.queue = <<>>
      BY <2>2, <2>5 DEF Turn
    <2>8. Served(t, <<Feeder>>) = s2
      BY <1>7, <2>6, <2>7, ServedByTurns DEF s0
    <2>9. Later(s2, t)
      <3>1. Later(b, s1)
        BY <2>2 DEF Later, AsBefore
      <3> QED
        BY <3>1, <1>6, <2>5, LaterStill
    <2>10. s2.done[1] = s2.done[2] /\ s2.e.cer = {}
      <3>1. t.done[1] \in Nat /\ t.done[2] \in Nat
        BY DEF Works
      <3> QED
        BY <3>1, <2>1, <2>2, <2>5
    <2>11. \E m \in (k + 1)..Serializers : Reached(s2, shape, half, j, m)
      BY <1>5, <2>2, <2>5 DEF Reached
    <2> QED
      BY <1>3, <1>5, <2>2, <2>5, <2>8, <2>9, <2>10, <2>11
  <1> QED
    BY <1>9, <1>10

(* An event of a channel that is not enabled is latched.  *)
LEMMA EventLatched ==
    ASSUME NEW t \in Works, Feeder \notin t.e.eer
    PROVE  LET v == EdmaEvent(t, Feeder)
           IN  /\ v = [t EXCEPT !.e = [t.e EXCEPT !.er = t.e.er \cup {Feeder}]]
               /\ v \in Works /\ v.x = t.x /\ v.ok = t.ok /\ v.done = t.done
               /\ v.e = [t.e EXCEPT !.er = t.e.er \cup {Feeder}]
               /\ v.e \in Edmas /\ v.e.er = t.e.er \cup {Feeder} /\ v.e.eer = t.e.eer
               /\ v.e.param = t.e.param /\ v.e.cer = t.e.cer /\ v.e.ipr = t.e.ipr
               /\ v.e.notify = t.e.notify
  <1> DEFINE v == EdmaEvent(t, Feeder)
  <1>1. t.e \in Edmas
    BY DEF Works
  <1>2. PICK er \in SUBSET Channels : er = t.e.er \cup {Feeder}
    <2>1. t.e.er \cup {Feeder} \in SUBSET Channels
      BY <1>1 DEF Edmas, Channels
    <2> QED
      BY <2>1
  <1> DEFINE e == [t.e EXCEPT !.er = er]
  <1>3. v = [t EXCEPT !.e = e]
    BY <1>1, <1>2 DEF EdmaEvent, Works, Edmas
  <1>4. /\ e \in Edmas /\ e.er = er /\ e.eer = t.e.eer /\ e.param = t.e.param /\ e.cer = t.e.cer
        /\ e.ipr = t.e.ipr /\ e.notify = t.e.notify
    BY <1>1 DEF Edmas
  <1> HIDE DEF e, v
  <1>5. v \in Works /\ v.x = t.x /\ v.ok = t.ok /\ v.done = t.done /\ v.e = e
    BY <1>3, <1>4 DEF Works
  <1> QED
    BY <1>2, <1>3, <1>4, <1>5 DEF v, e

(* One of a channel that is enabled is served at once. *)
LEMMA EventServed ==
    ASSUME NEW shape \in Shapes, NEW half \in {0, 1}, NEW j \in Frames, NEW k \in Rounds,
           NEW t \in Works, Reached(t, shape, half, j, k), t.ok, t.e.cer = {},
           t.done[1] = t.done[2], Feeder \in t.e.eer
    PROVE  LET r == EdmaEvent(t, Feeder)
           IN  /\ Later(r, t) /\ r.x.writes > t.x.writes /\ r.e.er \subseteq t.e.er \ {Feeder}
               /\ \E m \in (k + 1)..Serializers : Reached(r, shape, half, j, m)
               /\ r.e.cer = {} /\ r.done[1] = r.done[2]
  <1> DEFINE r == EdmaEvent(t, Feeder)
  <1>1. t.e \in Edmas
    BY DEF Works
  <1>2. PICK er \in SUBSET Channels, emr \in SUBSET Channels :
           er = t.e.er \cup {Feeder} /\ emr = IF Feeder \in t.e.er THEN t.e.emr \cup {Feeder} ELSE t.e.emr
    <2>1. t.e.er \cup {Feeder} \in SUBSET Channels /\ t.e.emr \cup {Feeder} \in SUBSET Channels
          /\ t.e.emr \in SUBSET Channels
      BY <1>1 DEF Edmas, Channels
    <2> QED
      BY <2>1
  <1> DEFINE e == [t.e EXCEPT !.er = er, !.emr = emr]
             w == [t EXCEPT !.e = e]
  <1>3. r = Served(w, <<Feeder>>)
    <2>1. w = [t EXCEPT !.e.emr = IF Feeder \in t.e.er THEN @ \cup {Feeder} ELSE @,
                          !.e.er = @ \cup {Feeder}]
      BY <1>1, <1>2 DEF Works, Edmas
    <2> HIDE DEF w
    <2> QED
      BY <2>1 DEF EdmaEvent
  <1>4. /\ e \in Edmas /\ e.er = er /\ e.eer = t.e.eer /\ e.param = t.e.param /\ e.cer = t.e.cer
        /\ e.ipr = t.e.ipr /\ e.notify = t.e.notify
    BY <1>1 DEF Edmas
  <1> HIDE DEF e, r
  <1>5. w \in Works /\ w.x = t.x /\ w.ok = t.ok /\ w.done = t.done /\ w.e = e
    BY <1>4 DEF Works
  <1> HIDE DEF w
  <1>6. Reached(w, shape, half, j, k) /\ Later(w, t)
    BY <1>4, <1>5 DEF Reached, Later, AsBefore
  <1>7. /\ Later(r, w) /\ r.x.writes > w.x.writes /\ r.e.er \subseteq w.e.er \ {Feeder}
        /\ \E m \in (k + 1)..Serializers : Reached(r, shape, half, j, m)
        /\ r.e.cer = {} /\ r.done[1] = r.done[2]
    <2> DEFINE q == Served(w, <<Feeder>>)
    <2>1. w \in Works /\ Reached(w, shape, half, j, k) /\ w.ok /\ w.e.cer = {} /\ w.done[1] = w.done[2]
      BY <1>4, <1>5, <1>6
    <2>2. /\ Later(q, w) /\ q.x.writes > w.x.writes /\ q.e.er \subseteq w.e.er \ {Feeder}
          /\ \E m \in (k + 1)..Serializers : Reached(q, shape, half, j, m)
          /\ q.e.cer = {} /\ q.done[1] = q.done[2]
      BY <2>1, ServedWhole
    <2> HIDE DEF q
    <2>3. r = q
      BY <1>3 DEF q
    <2> QED
      BY <2>2, <2>3
  <1>8. Later(r, t)
    BY <1>6, <1>7, LaterStill
  <1> QED
    BY <1>2, <1>4, <1>5, <1>7, <1>8 DEF r

(* One turn of the loop that answers the port.  *)
Answer(a) == IF ~a.more \/ ~a.t.ok \/ ~a.t.x.xdata THEN a
             ELSE LET v == EdmaEvent(a.t, Feeder)
                  IN  [t |-> v, more |-> v.x.writes # a.t.x.writes]

(* The loop, when its turns stay in a set. *)
LEMMA FedByAnswers ==
    ASSUME NEW t, NEW X, [t |-> t, more |-> TRUE] \in X, \A a \in X : Answer(a) \in X
    PROVE  \E g \in [0..Serializers -> X] :
              /\ g[0] = [t |-> t, more |-> TRUE]
              /\ \A i \in 1..Serializers : g[i] = Answer(g[i - 1])
              /\ Fed(t) = [g[Serializers].t EXCEPT !.x.writes = 0]
  <1> DEFINE n == Serializers
             s0 == [t |-> t, more |-> TRUE]
             Solves(f) == f = [i \in 0..n |->
                IF i = 0 THEN s0
                ELSE LET u == f[i - 1].t
                         v == EdmaEvent(u, Feeder)
                     IN  IF ~f[i - 1].more \/ ~u.ok \/ ~u.x.xdata THEN f[i - 1]
                         ELSE [t |-> v, more |-> v.x.writes # u.x.writes]]
             after == CHOOSE f : Solves(f)
             F == [q \in X \X (1..n) |-> Answer(q[1])]
  <1>1. n \in Nat
    BY Sizes
  <1>2. F \in [X \X (1..n) -> X]
    OBVIOUS
  <1> HIDE DEF s0
  <1>3. s0 \in X
    BY DEF s0
  <1>4. \E g : Solves(g)
    <2>2. PICK g : Solution(g, F, n, X, s0)
      <3> HIDE DEF F, n
      <3> QED
        BY <1>1, <1>2, <1>3, Iterates
    <2> HIDE DEF n
    <2>3. g \in [0..n -> X] /\ g[0] = s0 /\ \A i \in 1..n : g[i] = F[<<g[i - 1], i>>]
      BY <2>2 DEF Solution
    <2>4. ASSUME NEW i \in 1..n PROVE g[i] = Answer(g[i - 1])
      <3>1. i - 1 \in 0..n
        BY <1>1
      <3>2. <<g[i - 1], i>> \in X \X (1..n)
        BY <2>3, <3>1
      <3> QED
        BY <2>3, <3>2
    <2>a. \A i \in 0..n : g[i] = IF i = 0 THEN s0 ELSE Answer(g[i - 1])
      <3>1. \A i \in 0..n : i # 0 => i \in 1..n
        BY <1>1
      <3> QED
        BY <2>3, <2>4, <3>1
    <2>5. \A i \in 0..n : g[i] =
                IF i = 0 THEN s0
                ELSE LET u == g[i - 1].t
                         v == EdmaEvent(u, Feeder)
                     IN  IF ~g[i - 1].more \/ ~u.ok \/ ~u.x.xdata THEN g[i - 1]
                         ELSE [t |-> v, more |-> v.x.writes # u.x.writes]
      BY <2>a, Zenon DEF Answer
    <2>6. g = [i \in 0..n |-> g[i]]
      BY <2>3
    <2>7. Solves(g)
      BY <2>5, <2>6
    <2> HIDE DEF Solves
    <2> QED
      BY <2>7
  <1>5. Solves(after)
    <2> HIDE DEF Solves
    <2> QED
      BY <1>4
  <1> DEFINE at == after
  <1> HIDE DEF after
  <1>6. /\ at[0] = s0 /\ \A i \in 1..n : at[i] = Answer(at[i - 1])
        /\ at = [i \in 0..n |-> at[i]]
    <2>1. 0 \in 0..n /\ \A i \in 1..n : i \in 0..n /\ i # 0
      BY <1>1
    <2> QED
      BY <1>5, <2>1 DEF Answer
  <1> HIDE DEF at
  <1> DEFINE T == {i \in 0..n : at[i] \in X}
  <1>7. \A i \in 0..n : at[i] \in X
    <2>1. 0 \in T
      BY <1>1, <1>3, <1>6
    <2>2. ASSUME NEW i \in 1..n, i - 1 \in T PROVE i \in T
      <3>1. i \in 0..n
        BY <1>1
      <3>2. at[i - 1] \in X
        BY <2>2
      <3>3. at[i] = Answer(at[i - 1])
        BY <1>6
      <3> HIDE DEF n
      <3>4. at[i] \in X
        BY <3>2, <3>3
      <3> QED
        BY <3>1, <3>4
    <2> HIDE DEF T
    <2>3. \A i \in 0..n : i \in T
      BY <1>1, <2>1, <2>2, Climb
    <2> QED
      BY <2>3 DEF T
  <1>8. at \in [0..n -> X]
    BY <1>6, <1>7
  <1>9. Fed(t) = [at[n].t EXCEPT !.x.writes = 0]
    BY DEF Fed, after, n, s0, at
  <1> QED
    BY <1>6, <1>8, <1>9 DEF s0

(* The count of words written, begun anew, changes nothing else. *)
LEMMA WritesForgotten ==
    ASSUME NEW t \in Works
    PROVE  LET u == [t EXCEPT !.x.writes = 0]
           IN  /\ u \in Works /\ u.e = t.e /\ u.ok = t.ok /\ u.done = t.done
               /\ u.x = [t.x EXCEPT !.writes = 0] /\ u.x \in Ports /\ u.x.writes = 0
               /\ Later(u, t)
               /\ \A base, i : Holds(t.x, base, i) => Holds(u.x, base, i)
  <1> DEFINE u == [t EXCEPT !.x.writes = 0]
             y == [t.x EXCEPT !.writes = 0]
  <1>1. t.x \in Ports
    BY DEF Works
  <1>2. y \in Ports /\ y.writes = 0 /\ AsBefore(y, t.x)
    BY <1>1 DEF Ports, AsBefore
  <1>3. u = [t EXCEPT !.x = y]
    BY <1>1 DEF Works
  <1>4. \A base, i : Holds(t.x, base, i) => Holds(y, base, i)
    <2>1. y.next = t.x.next /\ y.xrdy = t.x.xrdy /\ y.xdata = t.x.xdata /\ y.fresh = t.x.fresh
          /\ y.xbuf = t.x.xbuf
      BY <1>1 DEF Ports
    <2> HIDE DEF y
    <2> QED
      BY <1>2, <2>1 DEF Holds
  <1> HIDE DEF u, y
  <1>5. u \in Works /\ u.e = t.e /\ u.ok = t.ok /\ u.done = t.done /\ u.x = y
    BY <1>2, <1>3 DEF Works
  <1>6. Later(u, t)
    BY <1>2, <1>5 DEF Later
  <1> QED
    BY <1>2, <1>4, <1>5, <1>6 DEF u, y

(* A port that asks for nothing is left alone.  *)
LEMMA FedIdle ==
    ASSUME NEW t, ~t.x.xdata
    PROVE  Fed(t) = [t EXCEPT !.x.writes = 0]
  <1> DEFINE s0 == [t |-> t, more |-> TRUE]
             X == {s0}
  <1>1. Answer(s0) = s0
    BY DEF Answer
  <1>2. PICK g \in [0..Serializers -> X] :
              /\ g[0] = s0
              /\ \A i \in 1..Serializers : g[i] = Answer(g[i - 1])
              /\ Fed(t) = [g[Serializers].t EXCEPT !.x.writes = 0]
    <2>1. s0 \in X /\ \A a \in X : Answer(a) \in X
      BY <1>1
    <2> HIDE DEF X
    <2> QED
      BY <2>1, FedByAnswers
  <1>3. Serializers \in 0..Serializers
    BY Sizes
  <1> QED
    BY <1>2, <1>3

(* What it asks for is latched while its channel is not enabled. *)
LEMMA FedLatched ==
    ASSUME NEW t \in Works, t.ok, t.x.xdata, Feeder \notin t.e.eer
    PROVE  Fed(t) = [EdmaEvent(t, Feeder) EXCEPT !.x.writes = 0]
  <1> DEFINE v == EdmaEvent(t, Feeder)
             s0 == [t |-> t, more |-> TRUE]
             s1 == [t |-> v, more |-> FALSE]
             X == {s0, s1}
             n == Serializers
  <1>1. v.x = t.x
    BY EventLatched
  <1>2. Answer(s0) = s1 /\ Answer(s1) = s1
    <2> HIDE DEF v
    <2>1. Answer(s0) = [t |-> v, more |-> v.x.writes # t.x.writes]
      BY DEF Answer, v
    <2>2. (v.x.writes # t.x.writes) = FALSE
      BY <1>1
    <2>3. Answer(s1) = s1
      BY DEF Answer
    <2> QED
      BY <2>1, <2>2, <2>3
  <1> HIDE DEF v
  <1>3. PICK g \in [0..n -> X] :
              /\ g[0] = s0
              /\ \A i \in 1..n : g[i] = Answer(g[i - 1])
              /\ Fed(t) = [g[n].t EXCEPT !.x.writes = 0]
    <2>1. s0 \in X /\ \A a \in X : Answer(a) \in X
      BY <1>2
    <2> HIDE DEF X
    <2> QED
      BY <2>1, FedByAnswers
  <1>4. n \in Nat /\ n >= 1
    BY Sizes
  <1> HIDE DEF s0, s1, n, X
  <1> DEFINE T == {i \in 0..n : g[i] = IF i = 0 THEN s0 ELSE s1}
  <1>5. 0 \in T
    BY <1>3, <1>4
  <1>6. ASSUME NEW i \in 1..n, i - 1 \in T PROVE i \in T
    <2>1. i \in 0..n /\ i # 0 /\ g[i] = Answer(g[i - 1])
      BY <1>3, <1>4
    <2>2. g[i - 1] \in {s0, s1}
      BY <1>6
    <2> QED
      BY <2>1, <2>2, <1>2
  <1>7. n \in T
    <2> HIDE DEF T
    <2>1. \A i \in 0..n : i \in T
      BY <1>4, <1>5, <1>6, Climb
    <2> QED
      BY <1>4, <2>1
  <1>8. g[n] = s1 /\ s1.t = v
    BY <1>4, <1>7 DEF s1
  <1> QED
    BY <1>3, <1>8 DEF v

(* While it is, the port is given a whole frame.  *)
LEMMA FedFrame ==
    ASSUME NEW shape \in Shapes, NEW half \in {0, 1}, NEW j \in Frames, NEW k \in 0..Serializers,
           NEW t \in Works, Reached(t, shape, half, j, k), t.ok, t.e.cer = {}, t.e.er = {},
           t.done[1] = t.done[2], Feeder \in t.e.eer
    PROVE  LET u == Fed(t)
           IN  /\ Later(u, t) /\ u.e.er = {} /\ u.e.cer = {} /\ u.done[1] = u.done[2]
               /\ Reached(u, shape, half, j, Serializers) /\ u.x.writes = 0
  <1> DEFINE n == Serializers
             Fit(u) == /\ Later(u, t) /\ u.e.er = {} /\ u.e.cer = {} /\ u.done[1] = u.done[2]
             G == {u \in Works : Fit(u) /\ \E m \in 0..n : Reached(u, shape, half, j, m)}
             X == {[t |-> u, more |-> TRUE] : u \in G}
  <1>1. n \in Nat /\ n >= 1 /\ \A m \in 0..n : m # n => m \in Rounds
    BY Sizes DEF Rounds
  <1>2. ASSUME NEW u \in G, NEW m \in 0..n, Reached(u, shape, half, j, m)
        PROVE  LET a == [t |-> u, more |-> TRUE]
               IN  /\ m = n => Answer(a) = a
                   /\ m < n => \E w \in G, l \in (m + 1)..n :
                         Answer(a) = [t |-> w, more |-> TRUE] /\ Reached(w, shape, half, j, l)
    <2>1. /\ u \in Works /\ Fit(u) /\ u.ok /\ Feeder \in u.e.eer
      BY DEF Later
    <2>2. u.x.xdata <=> m < n
      BY <1>1, <1>2 DEF Reached, Holds
    <2>3. CASE m = n
      BY <1>1, <2>2, <2>3 DEF Answer
    <2>4. CASE m < n
      <3> DEFINE w == EdmaEvent(u, Feeder)
      <3>1. m \in Rounds
        BY <1>1, <2>4
      <3>2. /\ Later(w, u) /\ w.x.writes > u.x.writes /\ w.e.er \subseteq u.e.er \ {Feeder}
            /\ \E l \in (m + 1)..Serializers : Reached(w, shape, half, j, l)
            /\ w.e.cer = {} /\ w.done[1] = w.done[2]
        BY <1>2, <2>1, <3>1, EventServed
      <3>3. Answer([t |-> u, more |-> TRUE]) = [t |-> w, more |-> w.x.writes # u.x.writes]
        BY <2>1, <2>2, <2>4 DEF Answer
      <3> HIDE DEF w
      <3>4. (w.x.writes # u.x.writes) = TRUE
        <4>1. w.x.writes \in Nat /\ u.x.writes \in Nat
          BY <2>1, <3>2 DEF Later, Works, Ports
        <4> QED
          BY <3>2, <4>1
      <3>5. w \in Works /\ Fit(w)
        <4>1. Later(w, t)
          BY <2>1, <3>2, LaterStill
        <4>2. w.e.er = {}
          BY <2>1, <3>2
        <4> QED
          BY <3>2, <4>1, <4>2 DEF Later
      <3>6. PICK l \in (m + 1)..n : Reached(w, shape, half, j, l)
        BY <3>2
      <3>7. l \in 0..n
        BY <1>1
      <3> HIDE DEF Fit
      <3>8. w \in G
        BY <3>5, <3>6, <3>7
      <3>9. Answer([t |-> u, more |-> TRUE]) = [t |-> w, more |-> TRUE]
        BY <3>3, <3>4
      <3> HIDE DEF G
      <3>10. \E v \in G, o \in (m + 1)..n :
                Answer([t |-> u, more |-> TRUE]) = [t |-> v, more |-> TRUE]
                /\ Reached(v, shape, half, j, o)
        BY <3>6, <3>8, <3>9, Zenon
      <3> HIDE DEF n
      <3>11. m # n
        BY <1>1, <2>4
      <3> QED
        BY <2>4, <3>10, <3>11
    <2> QED
      BY <1>1, <2>3, <2>4
  <1>3. t \in G
    BY DEF Later, AsBefore
  <1> HIDE DEF Fit
  <1>4. \A a \in X : Answer(a) \in X
    <2> TAKE a \in X
    <2>1. PICK u \in G : a = [t |-> u, more |-> TRUE]
      OBVIOUS
    <2>2. PICK m \in 0..n : Reached(u, shape, half, j, m)
      OBVIOUS
    <2> HIDE DEF G
    <2>3. CASE m = n
      BY <1>2, <2>1, <2>2, <2>3
    <2>4. CASE m < n
      BY <1>2, <2>1, <2>2, <2>4
    <2> QED
      BY <1>1, <2>3, <2>4
  <1>5. PICK g \in [0..n -> X] :
              /\ g[0] = [t |-> t, more |-> TRUE]
              /\ \A i \in 1..n : g[i] = Answer(g[i - 1])
              /\ Fed(t) = [g[n].t EXCEPT !.x.writes = 0]
    <2>1. [t |-> t, more |-> TRUE] \in X
      BY <1>3
    <2> HIDE DEF X
    <2> QED
      BY <1>4, <2>1, FedByAnswers
  <1> DEFINE At(i) == \E u \in G, m \in i..n :
                         g[i] = [t |-> u, more |-> TRUE] /\ Reached(u, shape, half, j, m)
             T == {i \in 0..n : At(i)}
  <1> HIDE DEF n, G
  <1>6. 0 \in T
    <2>1. k \in 0..n /\ 0 \in 0..n
      BY <1>1 DEF n
    <2> QED
      BY <1>3, <1>5, <2>1
  <1>7. ASSUME NEW i \in 1..n, i - 1 \in T PROVE i \in T
    <2>1. PICK u \in G, m \in (i - 1)..n :
             g[i - 1] = [t |-> u, more |-> TRUE] /\ Reached(u, shape, half, j, m)
      BY <1>7
    <2>2. i \in 0..n /\ g[i] = Answer(g[i - 1]) /\ m \in 0..n
      BY <1>1, <1>5
    <2>3. CASE m = n
      <3>1. g[i] = [t |-> u, more |-> TRUE]
        BY <1>2, <2>1, <2>2, <2>3
      <3>2. m \in i..n
        BY <1>1, <2>3
      <3>3. At(i)
        BY <2>1, <3>1, <3>2
      <3> HIDE DEF At
      <3> QED
        BY <2>2, <3>3
    <2>4. CASE m < n
      <3>1. PICK w \in G, l \in (m + 1)..n :
               g[i] = [t |-> w, more |-> TRUE] /\ Reached(w, shape, half, j, l)
        BY <1>2, <2>1, <2>2, <2>4
      <3>2. l \in i..n
        BY <1>1, <2>2
      <3>3. At(i)
        BY <3>1, <3>2
      <3> HIDE DEF At
      <3> QED
        BY <2>2, <3>3
    <2> QED
      BY <1>1, <2>2, <2>3, <2>4
  <1>8. At(n)
    <2> HIDE DEF At
    <2>1. \A i \in 0..n : i \in T
      <3> HIDE DEF T
      <3> QED
        BY <1>1, <1>6, <1>7, Climb
    <2> QED
      BY <1>1, <2>1
  <1>9. PICK u \in G : g[n] = [t |-> u, more |-> TRUE] /\ Reached(u, shape, half, j, n)
    <2>1. \A m \in n..n : m = n
      BY <1>1
    <2> QED
      BY <2>1, <1>8
  <1>10. u \in Works /\ Fit(u) /\ Fed(t) = [u EXCEPT !.x.writes = 0]
    BY <1>5, <1>9 DEF G
  <1> DEFINE v == [u EXCEPT !.x.writes = 0]
  <1>11. /\ v \in Works /\ v.e = u.e /\ v.ok = u.ok /\ v.done = u.done
         /\ v.x.writes = 0 /\ Later(v, u)
         /\ \A base, i : Holds(u.x, base, i) => Holds(v.x, base, i)
    BY <1>10, WritesForgotten
  <1> HIDE DEF v
  <1>12. Reached(v, shape, half, j, n)
    BY <1>9, <1>11 DEF Reached, n
  <1>13. Later(v, t)
    BY <1>10, <1>11, LaterStill DEF Fit
  <1>14. Fed(t) = v
    BY <1>10 DEF v
  <1> QED
    BY <1>10, <1>11, <1>12, <1>13, <1>14 DEF Fit, n

(* A port that wants nothing, and one that wants a whole frame. *)
PortIdle(x) == ~x.xdata /\ x.xrdy = {} /\ x.next = Ends
PortAsks(x) == x.xdata /\ x.xrdy = All /\ x.next = 1

(* What the port has to send is the frame before the feeder's next.  *)
Loaded(x, half, j) ==
    x.fresh = All =>
        \E h \in {0, 1}, k \in Frames :
            /\ \A n \in All : x.xbuf[n] = Base(h, k) + n - 1
            /\ Base(half, j) = Following(Base(h, k))

(* The registers and the port between transactions: what the port asks for *)
(* is latched, which it is only while its channel is not enabled.          *)
Steady(e, x) ==
    /\ e \in Edmas /\ x \in Ports /\ e.cer = {} /\ e.er \subseteq {Feeder}
    /\ Feeder \in e.er => Feeder \notin e.eer
    /\ x.xdata => x.gblctl # {}
    /\ x.gblctl # {} => "srclr" \in x.gblctl
Rests(e, x, shape, half, j) ==
    /\ Steady(e, x) /\ x.fresh \in {{}, All}
    /\ PortIdle(x) \/ PortAsks(x)
    /\ PortAsks(x) => Feeder \in e.er
    /\ Feeder \in e.er /\ x.gblctl # {} => PortAsks(x)
    /\ x.writes = 0
    /\ ParamsAt(e.param, shape, half, j, 0) /\ Loaded(x, half, j)

(* A transaction before the port is answered: at rest but for what the     *)
(* port now asks for, or in the middle of a frame.                         *)
Fresh(t) == t \in Works /\ t.ok /\ t.done[1] = t.done[2] /\ Steady(t.e, t.x)
Ready(t, shape, half, j) ==
    /\ Fresh(t) /\ t.x.fresh \in {{}, All}
    /\ PortIdle(t.x) \/ PortAsks(t.x)
    /\ Feeder \in t.e.er /\ t.x.gblctl # {} => PortAsks(t.x)
    /\ ParamsAt(t.e.param, shape, half, j, 0) /\ Loaded(t.x, half, j)
Underway(t, shape, half, j) ==
    Fresh(t) /\ Feeder \in t.e.eer /\ \E k \in 1..Serializers : Reached(t, shape, half, j, k)

(* What it is when the port is answered: the port is as before, which is   *)
(* possible if it was kept, or it has the whole of this frame, if it asked. *)
Answered(u, t, shape, half, j, kept, asked) ==
    /\ Later(u, t) /\ u.done[1] = u.done[2]
    /\ \E hh \in {0, 1}, jj \in Frames :
          /\ Rests(u.e, u.x, shape, hh, jj)
          /\ \/ /\ kept /\ hh = half /\ jj = j /\ u.x.fresh = t.x.fresh /\ u.x.xbuf = t.x.xbuf
                /\ PortAsks(u.x) => PortAsks(t.x)
             \/ asked /\ u.x.fresh = All /\ u.x.xbuf[1] = Base(half, j) /\ PortIdle(u.x)

(* A port that asks has none of a frame's words; with the last it is idle. *)
LEMMA AskedForAll ==
    ASSUME NEW x \in Ports, NEW base
    PROVE  /\ PortAsks(x) => Holds(x, base, 0)
           /\ Holds(x, base, Serializers) => PortIdle(x) /\ x.fresh = All
  <1>1. Serializers \in Nat /\ Serializers > 0 /\ All = 1..Serializers /\ Ends = Serializers + 1
    BY Sizes DEF All, Ends
  <1>2. PortAsks(x) => Holds(x, base, 0)
    BY <1>1 DEF PortAsks, Holds
  <1>3. Holds(x, base, Serializers) => PortIdle(x) /\ x.fresh = All
    <2>1. (Serializers + 1)..Serializers = {}
      BY <1>1
    <2>2. x.fresh \subseteq All
      BY DEF Ports
    <2> SUFFICES ASSUME Holds(x, base, Serializers) PROVE PortIdle(x) /\ x.fresh = All
      OBVIOUS
    <2>3. x.next = Serializers + 1 /\ x.xrdy = (Serializers + 1)..Serializers /\ ~x.xdata
          /\ 1..Serializers \subseteq x.fresh
      <3>1. ~(Serializers < Serializers)
        BY <1>1
      <3> QED
        BY <3>1 DEF Holds
    <2>4. PortIdle(x)
      BY <1>1, <2>1, <2>3 DEF PortIdle
    <2>5. x.fresh = All
      BY <1>1, <2>2, <2>3
    <2> QED
      BY <2>4, <2>5
  <1> QED
    BY <1>2, <1>3

(* A port that has begun to take a frame is given the whole of it. *)
LEMMA FedOn ==
    ASSUME NEW shape \in Shapes, NEW half \in {0, 1}, NEW j \in Frames, NEW k \in 0..Serializers,
           NEW t, Fresh(t), Feeder \in t.e.eer, Reached(t, shape, half, j, k)
    PROVE  Answered(Fed(t), t, shape, half, j, FALSE, TRUE)
  <1> DEFINE u == Fed(t)
  <1>1. t.e.cer = {} /\ t.e.er = {}
    BY DEF Fresh, Steady
  <1>2. /\ Later(u, t) /\ u.e.er = {} /\ u.e.cer = {} /\ u.done[1] = u.done[2]
        /\ Reached(u, shape, half, j, Serializers) /\ u.x.writes = 0
    BY <1>1, FedFrame DEF Fresh
  <1> HIDE DEF u
  <1>3. u \in Works /\ u.e \in Edmas /\ u.x \in Ports /\ u.x.gblctl = t.x.gblctl
    BY <1>2 DEF Later, Works, AsBefore
  <1> DEFINE hh == NextHalf(half, j)   jj == NextFrame(j)
  <1>4. /\ hh \in {0, 1} /\ jj \in Frames /\ Following(Base(half, j)) = Base(hh, jj)
        /\ Base(half, j) \in Nat
    BY FramesFollow
  <1>5. ParamsAt(u.e.param, shape, hh, jj, 0) /\ Holds(u.x, Base(half, j), Serializers)
    BY <1>2 DEF Reached
  <1>6. PortIdle(u.x) /\ u.x.fresh = All
    BY <1>3, <1>5, AskedForAll
  <1>7. \A n \in All : u.x.xbuf[n] = Base(half, j) + n - 1
    BY <1>5 DEF Holds, All
  <1> HIDE DEF hh, jj
  <1>8. Loaded(u.x, hh, jj)
    BY <1>4, <1>7 DEF Loaded
  <1>9. u.x.xbuf[1] = Base(half, j)
    <2>1. 1 \in All
      BY Sizes DEF All
    <2> QED
      BY <1>4, <1>7, <2>1
  <1>10. Rests(u.e, u.x, shape, hh, jj)
    BY <1>2, <1>3, <1>5, <1>6, <1>8 DEF Fresh, Rests, Steady, PortIdle, PortAsks
  <1> QED
    BY <1>2, <1>4, <1>6, <1>9, <1>10 DEF Answered, u

(* At rest, the port that asks nothing is left alone, the one whose channel *)
(* is not enabled has its event latched, and the other is given a frame.    *)
LEMMA FedReady ==
    ASSUME NEW shape \in Shapes, NEW half \in {0, 1}, NEW j \in Frames,
           NEW t, Ready(t, shape, half, j)
    PROVE  Answered(Fed(t), t, shape, half, j, TRUE, PortAsks(t.x))
  <1> DEFINE u == Fed(t)
  <1>1. /\ t \in Works /\ t.ok /\ t.done[1] = t.done[2] /\ Steady(t.e, t.x) /\ t.e \in Edmas /\ t.x \in Ports
        /\ t.x.fresh \in {{}, All}
    BY DEF Ready, Fresh, Steady
  <1>2. /\ PortIdle(t.x) => ~t.x.xdata
        /\ PortAsks(t.x) => t.x.xdata
    BY DEF PortIdle, PortAsks
  <1>3. ASSUME NEW y, y = [t.x EXCEPT !.writes = 0]
        PROVE  /\ y \in Ports /\ y.fresh = t.x.fresh /\ y.xbuf = t.x.xbuf /\ y.writes = 0
               /\ y.gblctl = t.x.gblctl /\ y.xdata = t.x.xdata
               /\ PortIdle(y) <=> PortIdle(t.x)
               /\ PortAsks(y) <=> PortAsks(t.x)
               /\ Loaded(t.x, half, j) => Loaded(y, half, j)
    <2>1. /\ y \in Ports /\ y.fresh = t.x.fresh /\ y.xbuf = t.x.xbuf /\ y.writes = 0
          /\ y.gblctl = t.x.gblctl /\ y.xdata = t.x.xdata /\ y.next = t.x.next /\ y.xrdy = t.x.xrdy
      BY <1>1, <1>3 DEF Ports
    <2> QED
      BY <2>1 DEF PortIdle, PortAsks, Loaded
  <1>4. CASE /\ PortIdle(t.x) /\ (Feeder \in t.e.er /\ t.x.gblctl # {} => PortAsks(t.x))
             /\ ParamsAt(t.e.param, shape, half, j, 0) /\ Loaded(t.x, half, j)
    <2>1. u = [t EXCEPT !.x.writes = 0]
      BY <1>2, <1>4, FedIdle
    <2>2. u.e = t.e /\ u.done = t.done /\ u.x = [t.x EXCEPT !.writes = 0] /\ Later(u, t)
      BY <1>1, <2>1, WritesForgotten
    <2> HIDE DEF u
    <2>3. /\ u.x \in Ports /\ u.x.fresh = t.x.fresh /\ u.x.xbuf = t.x.xbuf /\ u.x.writes = 0
          /\ u.x.gblctl = t.x.gblctl /\ u.x.xdata = t.x.xdata
          /\ PortIdle(u.x) /\ ~PortAsks(u.x) /\ ~PortAsks(t.x)
          /\ Loaded(u.x, half, j)
      BY <1>2, <1>3, <1>4, <2>2
    <2>4. Rests(u.e, u.x, shape, half, j)
      BY <1>1, <1>4, <2>2, <2>3 DEF Rests, Steady
    <2> QED
      BY <1>1, <2>2, <2>3, <2>4 DEF u, Answered
  <1>5. CASE /\ PortAsks(t.x) /\ Feeder \notin t.e.eer
             /\ ParamsAt(t.e.param, shape, half, j, 0) /\ Loaded(t.x, half, j)
    <2> DEFINE v == EdmaEvent(t, Feeder)
    <2>1. u = [v EXCEPT !.x.writes = 0]
      BY <1>1, <1>2, <1>5, FedLatched
    <2>2. /\ v \in Works /\ v.x = t.x /\ v.ok = t.ok /\ v.done = t.done
          /\ v.e \in Edmas /\ v.e.er = t.e.er \cup {Feeder} /\ v.e.eer = t.e.eer
          /\ v.e.param = t.e.param /\ v.e.cer = t.e.cer /\ v.e.ipr = t.e.ipr
          /\ v.e.notify = t.e.notify
      BY <1>1, <1>5, EventLatched
    <2> HIDE DEF v
    <2>3. u.e = v.e /\ u.done = v.done /\ u.x = [t.x EXCEPT !.writes = 0] /\ Later(u, v)
      BY <2>1, <2>2, WritesForgotten
    <2>4. Later(u, t)
      <3>1. Later(v, t)
        BY <2>2 DEF Later, AsBefore
      <3> QED
        BY <3>1, <2>3, LaterStill
    <2> HIDE DEF u
    <2>5. /\ u.x \in Ports /\ u.x.fresh = t.x.fresh /\ u.x.xbuf = t.x.xbuf /\ u.x.writes = 0
          /\ u.x.gblctl = t.x.gblctl /\ u.x.xdata = t.x.xdata
          /\ PortAsks(u.x)
          /\ Loaded(u.x, half, j)
      BY <1>3, <1>5, <2>3
    <2>6. Rests(u.e, u.x, shape, half, j)
      BY <1>1, <1>5, <2>2, <2>3, <2>5 DEF Rests, Steady
    <2> QED
      BY <1>1, <1>5, <2>2, <2>3, <2>4, <2>5, <2>6 DEF u, Answered
  <1>7. CASE PortAsks(t.x) /\ Feeder \in t.e.eer /\ ParamsAt(t.e.param, shape, half, j, 0)
    <2>1. Reached(t, shape, half, j, 0) /\ 0 \in 0..Serializers
      <3>1. Holds(t.x, Base(half, j), 0) /\ 0 # Serializers
        BY <1>1, <1>7, AskedForAll, Sizes
      <3> QED
        BY <1>7, <3>1, Sizes DEF Reached
    <2>2. Answered(u, t, shape, half, j, FALSE, TRUE)
      BY <1>7, <2>1, FedOn DEF Ready
    <2> QED
      BY <1>7, <2>2 DEF Answered
  <1> QED
    BY <1>4, <1>5, <1>7 DEF Ready

(* And a port that an enabled channel has begun to fill is filled. *)
LEMMA FedUnderway ==
    ASSUME NEW shape \in Shapes, NEW half \in {0, 1}, NEW j \in Frames,
           NEW t, Underway(t, shape, half, j)
    PROVE  Answered(Fed(t), t, shape, half, j, FALSE, TRUE)
  <1>1. PICK k \in 1..Serializers : Reached(t, shape, half, j, k)
    BY DEF Underway
  <1>2. k \in 0..Serializers
    BY Sizes
  <1> QED
    BY <1>1, <1>2, FedOn DEF Underway

(* What a slot sends. *)
Slots == [words : [All -> Int], fresh : SUBSET All]

(* The frame that the next active slot sends, if it is given one.  *)
ToSend(x, half, j) == IF x.fresh = All THEN x.xbuf[1] ELSE Base(half, j)

(* Nothing was sent since the serializers were last reset. *)
Restarted == wire = <<>> \/ Len(wire) \in restarts

(* It follows the last frame sent, unless the serializers were reset since. *)
SentBefore(next) ==
    \A k \in 1..Len(wire) :
        /\ wire[k].fresh = All /\ \A i \in k + 1..Len(wire) : wire[i].fresh # All
        /\ \A r \in restarts : r < k
        => Following(wire[k].words[1]) = next

(* What is recorded of the slots, if this is the word to send next. *)
History(next) ==
    /\ wire \in Seq(Slots) /\ restarts \subseteq 0..Len(wire) /\ SentBefore(next)
    /\ FramesWhole /\ FramesInOrder

(* The inductive invariant. *)
AudioInv ==
    /\ ~audioFault /\ halves \in Nat \X Nat /\ halves[1] = halves[2] /\ CompletionAnnounced
    /\ isr \in [at : {"idle", "reads", "clears", "evaluates"}, read : SUBSET Channels]
    /\ ~edma.notify
    /\ mcasp.gblctl = {} => Restarted
    /\ PortAsks(mcasp) /\ mcasp.fresh = All => Restarted
    /\ \E shape \in Shapes, half \in {0, 1}, j \in Frames :
          Rests(edma, mcasp, shape, half, j) /\ History(ToSend(mcasp, half, j))

(* A set of places in a sequence that is not empty has a last one. *)
LEMMA LastOne ==
    ASSUME NEW n \in Nat, NEW T, T \subseteq 1..n, T # {}
    PROVE  \E l \in T : \A i \in T : i <= l
  <1> DEFINE U == {n - i : i \in T}
  <1>1. U \subseteq Nat /\ U # {}
    <2>1. \A i \in 1..n : n - i \in Nat
      OBVIOUS
    <2> QED
      BY <2>1
  <1>2. PICK m \in U : \A k \in U : m <= k
    <2> HIDE DEF U
    <2> QED
      BY <1>1, LeastNumber
  <1>3. PICK l \in T : m = n - l
    BY <1>2
  <1>4. ASSUME NEW i \in T PROVE i <= l
    <2>1. n - i \in U
      OBVIOUS
    <2>2. m <= n - i /\ i \in Int /\ l \in Int
      BY <1>2, <2>1
    <2> QED
      BY <1>3, <2>2
  <1> QED
    BY <1>4

(* A step without a slot, the serializers reset in it or not. *)
LEMMA HistoryKept ==
    ASSUME NEW n1, NEW n2, History(n1), wire' = wire,
           restarts' = restarts \/ restarts' = restarts \cup {Len(wire)},
           n2 = n1 \/ Restarted'
    PROVE  History(n2)'
  <1>1. wire \in Seq(Slots) /\ Len(wire) \in Nat /\ restarts \subseteq 0..Len(wire)
    BY DEF History
  <1>2. wire' \in Seq(Slots) /\ restarts' \subseteq 0..Len(wire') /\ restarts \subseteq restarts'
    <2>1. Len(wire) \in 0..Len(wire)
      BY <1>1
    <2>2. restarts' \subseteq 0..Len(wire) /\ restarts \subseteq restarts'
      BY <1>1, <2>1
    <2> QED
      BY <1>1, <2>2
  <1>3. FramesWhole'
    BY DEF History, FramesWhole
  <1>4. FramesInOrder'
    <2>1. ASSUME NEW k \in 2..Len(wire)
          PROVE  LET before == {j \in 1..k - 1 : wire[j].fresh = All}
                     last == CHOOSE j \in before : \A i \in before : i <= j
                 IN  before # {} /\ wire[k].fresh = All /\ (\A r \in restarts' : r < last \/ r >= k) =>
                        wire[k].words[1] = (wire[last].words[1] + Serializers) % (2 * HalfWords)
      <3> DEFINE before == {j \in 1..k - 1 : wire[j].fresh = All}
                 last == CHOOSE j \in before : \A i \in before : i <= j
      <3>1. before # {} /\ wire[k].fresh = All /\ (\A r \in restarts : r < last \/ r >= k) =>
               wire[k].words[1] = (wire[last].words[1] + Serializers) % (2 * HalfWords)
        BY DEF History, FramesInOrder
      <3> HIDE DEF before, last
      <3>2. before # {} /\ wire[k].fresh = All /\ (\A r \in restarts' : r < last \/ r >= k) =>
               wire[k].words[1] = (wire[last].words[1] + Serializers) % (2 * HalfWords)
        BY <1>2, <3>1
      <3> QED
        BY <3>2 DEF before, last
    <2> DEFINE Order(w) ==
                 \A k \in 2..Len(w) :
                    LET before == {j \in 1..k - 1 : w[j].fresh = All}
                        last == CHOOSE j \in before : \A i \in before : i <= j
                    IN  before # {} /\ w[k].fresh = All /\ (\A r \in restarts' : r < last \/ r >= k) =>
                           w[k].words[1] = (w[last].words[1] + Serializers) % (2 * HalfWords)
    <2>2. Order(wire)
      BY <2>1
    <2>3. Order(wire')
      <3> HIDE DEF Order
      <3> QED
        BY <2>2
    <2> QED
      BY <2>3 DEF FramesInOrder
  <1>5. ASSUME NEW k \in 1..Len(wire), wire[k].fresh = All,
               \A i \in k + 1..Len(wire) : wire[i].fresh # All, \A r \in restarts' : r < k
        PROVE  Following(wire[k].words[1]) = n2
    <2>1. ~Restarted'
      <3>1. wire # <<>>
        BY <1>1
      <3>2. Len(wire) \notin restarts'
        BY <1>1, <1>5
      <3> QED
        BY <3>1, <3>2 DEF Restarted
    <2> QED
      BY <1>2, <1>5, <2>1 DEF History, SentBefore
  <1>6. SentBefore(n2)'
    BY <1>5 DEF SentBefore
  <1> QED
    BY <1>2, <1>3, <1>4, <1>6 DEF History

(* A slot that is sent: a whole frame, the one that was to be, or none.  *)
LEMMA HistoryGrows ==
    ASSUME NEW n1, NEW n2, History(n1), NEW slot \in Slots, wire' = Append(wire, slot),
           restarts' = restarts, slot.fresh \in {{}, All},
           slot.fresh = {} => n2 = n1,
           slot.fresh = All => /\ slot.words[1] = n1 /\ Following(n1) = n2
                               /\ slot.words[1] % Serializers = 0
                               /\ \A n \in All : slot.words[n] = slot.words[1] + n - 1
    PROVE  History(n2)'
  <1> DEFINE l == Len(wire)
  <1>1. wire \in Seq(Slots) /\ l \in Nat /\ restarts \subseteq 0..l /\ All # {}
    BY Sizes DEF History, All
  <1>2. /\ wire' \in Seq(Slots) /\ Len(wire') = l + 1 /\ wire'[l + 1] = slot
        /\ \A k \in 1..l : wire'[k] = wire[k]
    BY <1>1
  <1>3. restarts' \subseteq 0..Len(wire')
    BY <1>1, <1>2
  <1>4. \A k \in 1..Len(wire') : k \in 1..l \/ k = l + 1
    BY <1>1, <1>2
  <1>5. FramesWhole'
    BY <1>2, <1>4, SMTT(40) DEF History, FramesWhole
  <1>6. FramesInOrder'
    <2>1. ASSUME NEW k \in 2..Len(wire')
          PROVE  LET before == {j \in 1..k - 1 : wire'[j].fresh = All}
                     last == CHOOSE j \in before : \A i \in before : i <= j
                 IN  before # {} /\ wire'[k].fresh = All /\ (\A r \in restarts : r < last \/ r >= k) =>
                        wire'[k].words[1] = (wire'[last].words[1] + Serializers) % (2 * HalfWords)
      <3> DEFINE before == {j \in 1..k - 1 : wire'[j].fresh = All}
                 last == CHOOSE j \in before : \A i \in before : i <= j
      <3>1. k \in 2..l + 1 /\ \A i \in 1..k - 1 : i \in 1..l /\ wire'[i] = wire[i]
        BY <1>1, <1>2
      <3>2. before = {j \in 1..k - 1 : wire[j].fresh = All}
        BY <3>1
      <3>3. before # {} => last \in before /\ \A i \in before : i <= last
        <4>1. before \subseteq 1..k - 1 /\ k - 1 \in Nat
          BY <3>1
        <4> HIDE DEF before
        <4>2. before # {} => \E j \in before : \A i \in before : i <= j
          BY <4>1, LastOne
        <4> QED
          BY <4>2
      <3> DEFINE Goal == before # {} /\ wire'[k].fresh = All /\ (\A r \in restarts : r < last \/ r >= k) =>
                           wire'[k].words[1] = (wire'[last].words[1] + Serializers) % (2 * HalfWords)
      <3>4. ASSUME k \in 2..l PROVE Goal
        <4>1. wire'[k] = wire[k]
          BY <1>1, <1>2, <3>4
        <4>2. before # {} /\ wire[k].fresh = All /\ (\A r \in restarts : r < last \/ r >= k) =>
                        wire[k].words[1] = (wire[last].words[1] + Serializers) % (2 * HalfWords)
          BY <3>2, <3>4 DEF History, FramesInOrder
        <4>3. before # {} => wire'[last] = wire[last]
          <5>1. before \subseteq 1..k - 1
            OBVIOUS
          <5> HIDE DEF before, last
          <5> QED
            BY <3>1, <3>3, <5>1
        <4> HIDE DEF before, last
        <4> QED
          BY <4>1, <4>2, <4>3
      <3>5. ASSUME k = l + 1 PROVE Goal
        <4>1. SUFFICES ASSUME before # {}, wire'[k].fresh = All, \A r \in restarts : r < last \/ r >= k
                       PROVE  wire'[k].words[1] = (wire'[last].words[1] + Serializers) % (2 * HalfWords)
          OBVIOUS
        <4>2. last \in 1..l /\ wire'[last] = wire[last] /\ wire[last].fresh = All
              /\ \A i \in last + 1..l : wire[i].fresh # All
          <5>1. last \in before /\ \A i \in before : i <= last
            BY <3>3, <4>1
          <5>2. \A i \in 1..l : i \in before <=> wire[i].fresh = All
            BY <3>2, <3>5, <1>1
          <5>3. before \subseteq 1..l
            BY <3>5, <1>1
          <5> HIDE DEF before, last
          <5> QED
            BY <1>1, <1>2, <5>1, <5>2, <5>3
        <4> HIDE DEF before, last
        <4>3. \A r \in restarts : r < last
          BY <1>1, <3>5, <4>1, <4>2
        <4>4. Following(wire[last].words[1]) = n1
          BY <4>2, <4>3 DEF History, SentBefore
        <4>5. wire'[k].words[1] = n1
          BY <1>2, <3>5, <4>1
        <4> QED
          BY <4>2, <4>4, <4>5, SMTT(40) DEF Following
      <3>6. Goal
        <4> HIDE DEF Goal
        <4> QED
          BY <1>1, <3>1, <3>4, <3>5
      <3> QED
        BY <3>6
    <2> QED
      BY <2>1 DEF FramesInOrder
  <1>7. ASSUME NEW k \in 1..l + 1, wire'[k].fresh = All,
               \A i \in k + 1..l + 1 : wire'[i].fresh # All, \A r \in restarts : r < k
        PROVE  Following(wire'[k].words[1]) = n2
    <2>1. CASE k = l + 1
      BY <1>1, <1>2, <1>7, <2>1
    <2>2. CASE k \in 1..l
      <3>1. slot.fresh = {}
        BY <1>1, <1>2, <1>7, <2>2
      <3>2. wire[k].fresh = All /\ \A i \in k + 1..l : wire[i].fresh # All
        BY <1>1, <1>2, <1>7, <2>2
      <3>3. Following(wire[k].words[1]) = n1
        BY <1>7, <2>2, <3>2 DEF History, SentBefore
      <3> QED
        BY <1>2, <2>2, <3>1, <3>3
    <2> QED
      BY <1>1, <2>1, <2>2
  <1>8. SentBefore(n2)'
    BY <1>2, <1>7 DEF SentBefore
  <1> QED
    BY <1>2, <1>3, <1>5, <1>6, <1>8 DEF History

(* What a transaction commits. *)
LEMMA Committed ==
    ASSUME NEW shape \in Shapes, NEW half \in {0, 1}, NEW j \in Frames, NEW t, t.ok,
           NEW kept, NEW asked, Answered(Fed(t), t, shape, half, j, kept, asked), Commits(t),
           halves \in Nat \X Nat, halves[1] = halves[2]
    PROVE  /\ ~audioFault' /\ halves' \in Nat \X Nat /\ halves'[1] = halves'[2]
           /\ irq => irq'
           /\ t.e.notify => irq'
           /\ edma'.ipr # {} => t.e.ipr # {} \/ irq'
           /\ ~edma'.notify /\ mcasp'.gblctl = t.x.gblctl
           /\ \E hh \in {0, 1}, jj \in Frames :
                /\ Rests(edma', mcasp', shape, hh, jj)
                /\ \/ /\ kept /\ hh = half /\ jj = j
                      /\ mcasp'.fresh = t.x.fresh /\ mcasp'.xbuf = t.x.xbuf
                      /\ PortAsks(mcasp') => PortAsks(t.x)
                   \/ /\ asked /\ mcasp'.fresh = All /\ mcasp'.xbuf[1] = Base(half, j)
                      /\ PortIdle(mcasp')
  <1> DEFINE u == Fed(t)
  <1>1. /\ audioFault' = ~u.ok
        /\ edma' = IF u.ok THEN [u.e EXCEPT !.notify = FALSE] ELSE edma
        /\ mcasp' = IF u.ok THEN u.x ELSE mcasp
        /\ irq' = (irq \/ (u.ok /\ u.e.notify))
        /\ halves' = IF u.ok THEN <<halves[1] + u.done[1], halves[2] + u.done[2]>> ELSE halves
    BY DEF Commits
  <1>2. Answered(u, t, shape, half, j, kept, asked)
    OBVIOUS
  <1> HIDE DEF u
  <1>3. u \in Works /\ u.ok /\ Later(u, t) /\ u.done[1] = u.done[2]
    BY <1>2 DEF Answered, Later
  <1>4. PICK hh \in {0, 1}, jj \in Frames :
          /\ Rests(u.e, u.x, shape, hh, jj)
          /\ \/ /\ kept /\ hh = half /\ jj = j /\ u.x.fresh = t.x.fresh /\ u.x.xbuf = t.x.xbuf
                /\ PortAsks(u.x) => PortAsks(t.x)
             \/ asked /\ u.x.fresh = All /\ u.x.xbuf[1] = Base(half, j) /\ PortIdle(u.x)
    BY <1>2 DEF Answered
  <1>5. edma' = [u.e EXCEPT !.notify = FALSE] /\ mcasp' = u.x /\ u.e \in Edmas
    BY <1>1, <1>3 DEF Works
  <1>6. PICK e : e = [u.e EXCEPT !.notify = FALSE]
    OBVIOUS
  <1>7. /\ e \in Edmas /\ ~e.notify /\ e.ipr = u.e.ipr /\ e.param = u.e.param /\ e.er = u.e.er
        /\ e.eer = u.e.eer /\ e.cer = u.e.cer
    BY <1>5, <1>6 DEF Edmas
  <1>8. Rests(e, u.x, shape, hh, jj)
    BY <1>4, <1>7 DEF Rests, Steady
  <1>9. ~audioFault' /\ (irq => irq') /\ (u.e.notify => irq')
    BY <1>1, <1>3
  <1>10. halves' \in Nat \X Nat /\ halves'[1] = halves'[2]
    <2>1. u.done[1] \in Nat /\ u.done[2] \in Nat /\ halves[1] \in Nat /\ halves[2] \in Nat
      BY <1>3 DEF Works
    <2>2. halves' = <<halves[1] + u.done[1], halves[2] + u.done[2]>>
      BY <1>1, <1>3
    <2> QED
      BY <2>1, <2>2, <1>3
  <1>11. edma' = e /\ mcasp' = u.x
    BY <1>5, <1>6
  <1>12. mcasp'.gblctl = t.x.gblctl /\ (edma'.ipr # {} => t.e.ipr # {} \/ irq') /\ (t.e.notify => irq')
    BY <1>3, <1>7, <1>9, <1>11 DEF Later, AsBefore
  <1>13. /\ Rests(edma', mcasp', shape, hh, jj)
         /\ \/ /\ kept /\ hh = half /\ jj = j
               /\ mcasp'.fresh = t.x.fresh /\ mcasp'.xbuf = t.x.xbuf
               /\ PortAsks(mcasp') => PortAsks(t.x)
            \/ /\ asked /\ mcasp'.fresh = All /\ mcasp'.xbuf[1] = Base(half, j)
               /\ PortIdle(mcasp')
    BY <1>4, <1>8, <1>11
  <1>14. ~edma'.notify
    BY <1>7, <1>11
  <1>15. \E g \in {0, 1}, k \in Frames :
                /\ Rests(edma', mcasp', shape, g, k)
                /\ \/ /\ kept /\ g = half /\ k = j
                      /\ mcasp'.fresh = t.x.fresh /\ mcasp'.xbuf = t.x.xbuf
                      /\ PortAsks(mcasp') => PortAsks(t.x)
                   \/ /\ asked /\ mcasp'.fresh = All /\ mcasp'.xbuf[1] = Base(half, j)
                      /\ PortIdle(mcasp')
    BY <1>13, Zenon
  <1> QED
    BY <1>9, <1>10, <1>12, <1>14, <1>15, Zenon

(* What is left to say of an action: what it makes of the transaction, the *)
(* record of what was sent and the routine.                                *)
LEMMA StepKept ==
    ASSUME NEW shape \in Shapes, NEW half \in {0, 1}, NEW j \in Frames, NEW t, t.ok,
           NEW kept, NEW asked, Answered(Fed(t), t, shape, half, j, kept, asked), Commits(t),
           AudioInv, isr' \in [at : {"idle", "reads", "clears", "evaluates"}, read : SUBSET Channels],
           t.e.ipr # {} => irq \/ t.e.notify \/ isr'.at \in {"reads", "clears", "evaluates"},
           t.x.gblctl = {} => Restarted',
           kept => /\ History(ToSend(t.x, half, j))'
                   /\ PortAsks(t.x) /\ t.x.fresh = All => Restarted',
           asked => History(Base(half, j))'
    PROVE  AudioInv'
  <1>1. halves \in Nat \X Nat /\ halves[1] = halves[2]
    BY DEF AudioInv
  <1>2. /\ ~audioFault' /\ halves' \in Nat \X Nat /\ halves'[1] = halves'[2]
        /\ irq => irq'
        /\ t.e.notify => irq'
        /\ edma'.ipr # {} => t.e.ipr # {} \/ irq'
        /\ ~edma'.notify /\ mcasp'.gblctl = t.x.gblctl
        /\ \E hh \in {0, 1}, jj \in Frames :
             /\ Rests(edma', mcasp', shape, hh, jj)
             /\ \/ /\ kept /\ hh = half /\ jj = j
                   /\ mcasp'.fresh = t.x.fresh /\ mcasp'.xbuf = t.x.xbuf
                   /\ PortAsks(mcasp') => PortAsks(t.x)
                \/ /\ asked /\ mcasp'.fresh = All /\ mcasp'.xbuf[1] = Base(half, j)
                   /\ PortIdle(mcasp')
    BY <1>1, Committed
  <1>3. CompletionAnnounced'
    BY <1>2 DEF CompletionAnnounced
  <1>4. mcasp'.gblctl = {} => Restarted'
    BY <1>2
  <1>5. PICK hh \in {0, 1}, jj \in Frames :
             /\ Rests(edma', mcasp', shape, hh, jj)
             /\ \/ /\ kept /\ hh = half /\ jj = j
                   /\ mcasp'.fresh = t.x.fresh /\ mcasp'.xbuf = t.x.xbuf
                   /\ PortAsks(mcasp') => PortAsks(t.x)
                \/ /\ asked /\ mcasp'.fresh = All /\ mcasp'.xbuf[1] = Base(half, j)
                   /\ PortIdle(mcasp')
    BY <1>2
  <1>6. PortAsks(mcasp') /\ mcasp'.fresh = All => Restarted'
    BY <1>5 DEF PortAsks, PortIdle
  <1>7. PICK n : n = ToSend(mcasp', hh, jj)
    OBVIOUS
  <1>8. History(n)'
    <2>1. CASE kept /\ hh = half /\ jj = j /\ mcasp'.fresh = t.x.fresh /\ mcasp'.xbuf = t.x.xbuf
      <3>1. n = ToSend(t.x, half, j)
        BY <1>7, <2>1 DEF ToSend
      <3> QED
        BY <2>1, <3>1
    <2>2. CASE asked /\ mcasp'.fresh = All /\ mcasp'.xbuf[1] = Base(half, j)
      <3>1. n = Base(half, j)
        BY <1>7, <2>2 DEF ToSend
      <3> QED
        BY <2>2, <3>1
    <2> QED
      BY <1>5, <2>1, <2>2
  <1>9. (\E s \in Shapes, h \in {0, 1}, k \in Frames :
           Rests(edma, mcasp, s, h, k) /\ History(ToSend(mcasp, h, k)))'
    <2>1. History(ToSend(mcasp, hh, jj))'
      BY <1>7, <1>8
    <2>2. Rests(edma, mcasp, shape, hh, jj)'
      BY <1>5
    <2> QED
      BY <2>1, <2>2
  <1> QED
    BY <1>2, <1>3, <1>4, <1>6, <1>9 DEF AudioInv

(* An action's transaction: the registers and the port, one of them, or    *)
(* both, changed.                                                          *)
Begins(t, e, x) == t \in Works /\ t.ok /\ t.done[1] = t.done[2] /\ t.e = e /\ t.x = x

(* The transactions the actions begin with. *)
LEMMA Transactions ==
    ASSUME NEW e \in Edmas, NEW x \in Ports
    PROVE  /\ Begins(Transaction(e, x), e, x)
           /\ \A y \in Ports : Begins([Transaction(e, x) EXCEPT !.x = y], e, y)
           /\ \A f \in Edmas : Begins([Transaction(e, x) EXCEPT !.e = f], f, x)
  <1> DEFINE t == Transaction(e, x)
  <1>1. <<>> \in Seq(Channels) /\ <<0, 0>> \in Nat \X Nat /\ <<0, 0>>[1] = <<0, 0>>[2]
    OBVIOUS
  <1>2. t \in Works /\ t.ok /\ t.done = <<0, 0>> /\ t.e = e /\ t.x = x
    BY <1>1 DEF Works, Transaction
  <1> HIDE DEF t
  <1>3. \A y \in Ports : Begins([t EXCEPT !.x = y], e, y)
    BY <1>1, <1>2 DEF Begins, Works
  <1>4. \A f \in Edmas : Begins([t EXCEPT !.e = f], f, x)
    BY <1>1, <1>2 DEF Begins, Works
  <1> QED
    BY <1>1, <1>2, <1>3, <1>4 DEF t, Begins

(* A transaction between slots.  *)
LEMMA QuietStep ==
    ASSUME NEW shape \in Shapes, NEW half \in {0, 1}, NEW j \in Frames,
           AudioInv, History(ToSend(mcasp, half, j)),
           NEW t, Ready(t, shape, half, j), t.x.fresh = mcasp.fresh, t.x.xbuf = mcasp.xbuf,
           Commits(t), wire' = wire,
           restarts' = restarts \/ restarts' = restarts \cup {Len(wire)},
           isr' \in [at : {"idle", "reads", "clears", "evaluates"}, read : SUBSET Channels],
           t.e.ipr # {} => irq \/ t.e.notify \/ isr'.at \in {"reads", "clears", "evaluates"},
           t.x.gblctl = {} => Restarted',
           PortAsks(t.x) /\ t.x.fresh = All => Restarted'
    PROVE  AudioInv'
  <1>1. Answered(Fed(t), t, shape, half, j, TRUE, PortAsks(t.x)) /\ t.ok
    BY FedReady DEF Ready, Fresh
  <1>2. PICK n : n = ToSend(mcasp, half, j)
    OBVIOUS
  <1>3. ToSend(t.x, half, j) = n
    BY <1>2 DEF ToSend
  <1>4. History(n)
    BY <1>2
  <1>5. History(n)'
    BY <1>4, HistoryKept
  <1>6. History(ToSend(t.x, half, j))'
    BY <1>3, <1>5
  <1>7. ASSUME PortAsks(t.x) PROVE History(Base(half, j))'
    <2>1. CASE t.x.fresh = All
      BY <1>4, <1>7, <2>1, HistoryKept
    <2>2. CASE t.x.fresh # All
      BY <1>3, <1>5, <2>2 DEF ToSend
    <2> QED
      BY <2>1, <2>2
  <1> QED
    BY <1>1, <1>6, <1>7, StepKept

(* Where the parameters of an action's transaction come from.  *)
LEMMA RestsReady ==
    ASSUME NEW shape \in Shapes, NEW half \in {0, 1}, NEW j \in Frames, NEW e, NEW x,
           Rests(e, x, shape, half, j), NEW f, NEW y, NEW t, Begins(t, f, y),
           Steady(f, y), f.param = e.param, y.fresh = x.fresh, y.xbuf = x.xbuf,
           PortIdle(y) \/ PortAsks(y), Feeder \in f.er /\ y.gblctl # {} => PortAsks(y)
    PROVE  Ready(t, shape, half, j) /\ t.e = f /\ t.x = y
  <1>1. Fresh(t) /\ t.e = f /\ t.x = y
    BY DEF Begins, Fresh
  <1>2. Loaded(y, half, j) /\ ParamsAt(f.param, shape, half, j, 0) /\ y.fresh \in {{}, All}
    BY DEF Rests, Loaded
  <1> QED
    BY <1>1, <1>2 DEF Ready

(* It holds when the program has set the buffers up. *)
LEMMA AudioStarts ==
    AudioInit => AudioInv
  <1> SUFFICES ASSUME AudioInit PROVE AudioInv
    OBVIOUS
  <1>1. PICK shape \in Shapes :
           edma = [param |-> [set \in {Ping, Pong, Feeder, Copier} |->
                                 IF set = Copier THEN Block
                                 ELSE Half(shape, IF set = Pong THEN Pong ELSE Ping)],
                   er |-> {}, eer |-> {Copier}, cer |-> {}, emr |-> {}, ipr |-> {}, notify |-> FALSE]
    BY DEF AudioInit, Shapes
  <1>2. PICK active \in {{0, 1}, {1}} :
           mcasp = [gblctl |-> {}, xrdy |-> {}, next |-> Ends, xdata |-> FALSE,
                    xundrn |-> FALSE, xdmaerr |-> FALSE, slot |-> 0 - 1, xtdm |-> active,
                    xbuf |-> [n \in 1..Serializers |-> 0], fresh |-> {}, writes |-> 0]
    BY DEF AudioInit
  <1>3. /\ irq = FALSE /\ isr = [at |-> "idle", read |-> {}]
        /\ wire = <<>> /\ restarts = {} /\ halves = <<0, 0>> /\ audioFault = FALSE
    BY DEF AudioInit
  <1>4. ParamsAt(edma.param, shape, 0, 0, 0)
    <2>1. \A h \in {0, 1} : Half(shape, h) \in Parameters /\ IsAt(Half(shape, h), shape, h, 0, 0)
      BY SetsOfHalves
    <2>2. /\ edma.param \in [{Ping, Pong, Feeder, Copier} -> Parameters]
          /\ \A h \in {0, 1} : edma.param[h] = Half(shape, h)
          /\ edma.param[Copier] = Block /\ edma.param[Feeder] = Half(shape, 0)
      BY <1>1, <2>1, BlockStays DEF Ping, Pong, Feeder, Copier
    <2> QED
      BY <2>1, <2>2 DEF ParamsAt
  <1>5. edma \in Edmas /\ edma.er = {} /\ edma.cer = {} /\ ~edma.notify /\ edma.ipr = {}
    <2>1. PICK p \in [{Ping, Pong, Feeder, Copier} -> Parameters] : p = edma.param
      BY <1>4 DEF ParamsAt
    <2>2. edma = [param |-> p, er |-> {}, eer |-> {Copier}, cer |-> {}, emr |-> {}, ipr |-> {}, notify |-> FALSE]
      BY <1>1, <2>1
    <2> QED
      BY <2>2 DEF Edmas, Channels
  <1>6. /\ mcasp \in Ports /\ PortIdle(mcasp) /\ mcasp.gblctl = {} /\ mcasp.fresh = {}
        /\ mcasp.writes = 0 /\ ~mcasp.xdata
    <2>1. PICK b \in [All -> Int], n \in 1..Ends : b = [m \in 1..Serializers |-> 0] /\ n = Ends
      <3>1. [m \in 1..Serializers |-> 0] \in [All -> Int] /\ Ends \in 1..Ends
        BY Sizes DEF All, Ends
      <3> QED
        BY <3>1
    <2>2. mcasp = [gblctl |-> {}, xrdy |-> {}, next |-> n, xdata |-> FALSE,
                    xundrn |-> FALSE, xdmaerr |-> FALSE, slot |-> -1, xtdm |-> active,
                    xbuf |-> b, fresh |-> {}, writes |-> 0]
      BY <1>2, <2>1
    <2>3. mcasp \in Ports
      BY <2>2 DEF Ports
    <2> QED
      BY <2>1, <2>2, <2>3 DEF PortIdle
  <1>7. Rests(edma, mcasp, shape, 0, 0)
    <2>1. mcasp.fresh # All
      <3>1. 1 \in All
        BY Sizes DEF All
      <3> QED
        BY <1>6, <3>1
    <2> QED
      BY <1>4, <1>5, <1>6, <2>1 DEF Rests, Steady, Loaded, PortIdle, PortAsks
  <1>8. \A n : History(n)
    BY <1>3 DEF History, SentBefore, FramesWhole, FramesInOrder
  <1>9. Restarted /\ CompletionAnnounced
    BY <1>3, <1>5 DEF Restarted, CompletionAnnounced
  <1>10. isr \in [at : {"idle", "reads", "clears", "evaluates"}, read : SUBSET Channels]
    BY <1>3
  <1>11. halves \in Nat \X Nat /\ halves[1] = halves[2] /\ 0 \in Frames
    BY <1>3, Sizes DEF Frames
  <1> QED
    BY <1>3, <1>5, <1>7, <1>8, <1>9, <1>10, <1>11 DEF AudioInv

(* A write of the EDMA's registers that lets nothing more through.  *)
LEMMA EdmaStep ==
    ASSUME AudioInv, NEW f \in Edmas, NEW t, Begins(t, f, mcasp), Commits(t),
           wire' = wire, restarts' = restarts,
           f.param = edma.param, f.cer = edma.cer, f.er \subseteq edma.er,
           Feeder \in f.er => Feeder \notin f.eer,
           isr' \in [at : {"idle", "reads", "clears", "evaluates"}, read : SUBSET Channels],
           f.ipr # {} => irq \/ f.notify \/ isr'.at \in {"reads", "clears", "evaluates"}
    PROVE  AudioInv'
  <1>1. PICK shape \in Shapes, half \in {0, 1}, j \in Frames :
           Rests(edma, mcasp, shape, half, j) /\ History(ToSend(mcasp, half, j))
    BY DEF AudioInv
  <1>2. Steady(f, mcasp)
    BY <1>1 DEF Rests, Steady
  <1>3. /\ PortIdle(mcasp) \/ PortAsks(mcasp)
        /\ Feeder \in f.er /\ mcasp.gblctl # {} => PortAsks(mcasp)
    BY <1>1 DEF Rests
  <1>4. Ready(t, shape, half, j) /\ t.e = f /\ t.x = mcasp
    BY <1>1, <1>2, <1>3, RestsReady
  <1>5. /\ mcasp.gblctl = {} => Restarted'
        /\ PortAsks(mcasp) /\ mcasp.fresh = All => Restarted'
    BY DEF AudioInv, Restarted
  <1> QED
    BY <1>1, <1>4, <1>5, QuietStep

(* A change of the port's registers that leaves its words alone.  *)
LEMMA PortStep ==
    ASSUME AudioInv, NEW y \in Ports, NEW t, Begins(t, edma, y), Commits(t),
           wire' = wire, restarts' = restarts \/ restarts' = restarts \cup {Len(wire)}, isr' = isr,
           y.fresh = mcasp.fresh, y.xbuf = mcasp.xbuf, PortIdle(y) \/ PortAsks(y),
           y.xdata => y.gblctl # {}, y.gblctl # {} => "srclr" \in y.gblctl,
           Feeder \in edma.er /\ y.gblctl # {} => PortAsks(y),
           y.gblctl = {} => Restarted', PortAsks(y) /\ y.fresh = All => Restarted'
    PROVE  AudioInv'
  <1>1. PICK shape \in Shapes, half \in {0, 1}, j \in Frames :
           Rests(edma, mcasp, shape, half, j) /\ History(ToSend(mcasp, half, j))
    BY DEF AudioInv
  <1>2. Steady(edma, y)
    BY <1>1 DEF Rests, Steady
  <1>3. Ready(t, shape, half, j) /\ t.e = edma /\ t.x = y
    BY <1>1, <1>2, RestsReady
  <1>4. /\ isr' \in [at : {"idle", "reads", "clears", "evaluates"}, read : SUBSET Channels]
        /\ edma.ipr # {} => irq \/ edma.notify \/ isr'.at \in {"reads", "clears", "evaluates"}
    BY DEF AudioInv, CompletionAnnounced
  <1> QED
    BY <1>1, <1>3, <1>4, QuietStep

(* The registers are of their types. *)
LEMMA TypesNow ==
    AudioInv => edma \in Edmas /\ mcasp \in Ports
  BY DEF AudioInv, Rests, Steady

(* write_gblctl: a reset leaves the port idle, the release of the serializers *)
(* asks for a frame, and the other releases change nothing it asks.           *)
LEMMA GblctlKept ==
    ASSUME AudioInv, WriteGblctl
    PROVE  AudioInv'
  <1>1. PICK bits \in {{}, {"srclr"}, {"srclr", "smrst"}, Runs} :
           /\ bits # mcasp.gblctl /\ Write([Now EXCEPT !.x = Gblctl(mcasp, bits)])
           /\ restarts' = IF bits = {} THEN restarts \cup {Len(wire)} ELSE restarts
    BY DEF WriteGblctl
  <1>2. edma \in Edmas /\ mcasp \in Ports
    BY TypesNow
  <1>3. PICK y : y = Gblctl(mcasp, bits)
    OBVIOUS
  <1>4. /\ bits \subseteq {"srclr", "smrst", "frst"} /\ (bits # {} => "srclr" \in bits)
        /\ (bits = {} => "srclr" \notin bits)
    BY <1>1 DEF Runs
  <1>5. /\ y \in Ports /\ y.gblctl = bits /\ y.fresh = mcasp.fresh /\ y.xbuf = mcasp.xbuf
        /\ bits = {} => PortIdle(y)
        /\ bits # {} /\ "srclr" \notin mcasp.gblctl => PortAsks(y)
        /\ bits # {} /\ "srclr" \in mcasp.gblctl =>
              y.xdata = mcasp.xdata /\ y.xrdy = mcasp.xrdy /\ y.next = mcasp.next
    <2>1. Ends \in 1..Ends /\ 1 \in 1..Ends /\ All \in SUBSET All /\ -1 \in -1..1
      BY Sizes DEF Ends
    <2>2. CASE bits = {}
      BY <1>2, <1>3, <1>4, <2>1, <2>2 DEF Gblctl, Ports, PortIdle
    <2>3. CASE bits # {} /\ "srclr" \notin mcasp.gblctl
      BY <1>2, <1>3, <1>4, <2>1, <2>3 DEF Gblctl, Ports, PortAsks
    <2>4. CASE bits # {} /\ "srclr" \in mcasp.gblctl
      BY <1>2, <1>3, <1>4, <2>1, <2>4, ZenonT(60) DEF Gblctl, Ports
    <2> QED
      BY <2>2, <2>3, <2>4
  <1>6. PICK t : t = [Now EXCEPT !.x = y]
    OBVIOUS
  <1>7. Begins(t, edma, y) /\ Commits(t) /\ wire' = wire /\ isr' = isr
    BY <1>1, <1>2, <1>3, <1>5, <1>6, Transactions DEF Write, Now
  <1>8. /\ mcasp.xdata => mcasp.gblctl # {}
        /\ mcasp.gblctl # {} => "srclr" \in mcasp.gblctl
        /\ PortIdle(mcasp) \/ PortAsks(mcasp)
        /\ Feeder \in edma.er /\ mcasp.gblctl # {} => PortAsks(mcasp)
        /\ mcasp.gblctl = {} => Restarted
        /\ PortAsks(mcasp) /\ mcasp.fresh = All => Restarted
    BY DEF AudioInv, Rests, Steady
  <1>9. /\ bits = {} => Restarted'
        /\ bits # {} => (Restarted' <=> Restarted)
    BY <1>1, <1>7 DEF Restarted
  <1>10. CASE bits = {}
    <2>1. PortIdle(y) /\ ~y.xdata /\ ~PortAsks(y) /\ y.gblctl = {}
      BY <1>5, <1>10 DEF PortIdle, PortAsks
    <2> QED
      BY <1>1, <1>5, <1>7, <1>9, <1>10, <2>1, PortStep
  <1>11. CASE bits # {} /\ "srclr" \notin mcasp.gblctl
    <2>1. PortAsks(y) /\ y.gblctl # {} /\ "srclr" \in y.gblctl /\ Restarted'
      BY <1>4, <1>5, <1>8, <1>9, <1>11
    <2> QED
      BY <1>1, <1>5, <1>7, <1>11, <2>1, PortStep
  <1>12. CASE bits # {} /\ "srclr" \in mcasp.gblctl
    <2>1. /\ PortIdle(y) <=> PortIdle(mcasp)
          /\ PortAsks(y) <=> PortAsks(mcasp)
      BY <1>5, <1>12 DEF PortIdle, PortAsks
    <2>2. y.gblctl # {} /\ "srclr" \in y.gblctl /\ mcasp.gblctl # {}
      BY <1>4, <1>5, <1>12
    <2> QED
      BY <1>1, <1>5, <1>7, <1>8, <1>9, <1>12, <2>1, <2>2, PortStep
  <1> QED
    BY <1>10, <1>11, <1>12

(* Clearing XSTAT takes the request away only where there is none. *)
LEMMA XstatKept ==
    ASSUME AudioInv, ClearXstat
    PROVE  AudioInv'
  <1>1. PICK all \in BOOLEAN :
        /\ all => mcasp.gblctl = {}
        /\ Write([Now EXCEPT !.x.xundrn = FALSE, !.x.xdmaerr = FALSE, !.x.xdata = @ /\ ~all])
        /\ restarts' = restarts
    BY DEF ClearXstat
  <1>2. edma \in Edmas /\ mcasp \in Ports
    BY TypesNow
  <1>3. /\ mcasp.xdata => mcasp.gblctl # {}
        /\ mcasp.gblctl # {} => "srclr" \in mcasp.gblctl
        /\ PortIdle(mcasp) \/ PortAsks(mcasp)
        /\ Feeder \in edma.er /\ mcasp.gblctl # {} => PortAsks(mcasp)
        /\ mcasp.gblctl = {} => Restarted
        /\ PortAsks(mcasp) /\ mcasp.fresh = All => Restarted
    BY DEF AudioInv, Rests, Steady
  <1>4. PICK y : y = [mcasp EXCEPT !.xundrn = FALSE, !.xdmaerr = FALSE, !.xdata = @ /\ ~all]
    OBVIOUS
  <1>5. /\ y \in Ports /\ y.gblctl = mcasp.gblctl /\ y.fresh = mcasp.fresh /\ y.xbuf = mcasp.xbuf
        /\ y.xrdy = mcasp.xrdy /\ y.next = mcasp.next /\ (y.xdata <=> mcasp.xdata /\ ~all)
    BY <1>2, <1>4 DEF Ports
  <1>6. PICK t : t = [Now EXCEPT !.x = y]
    OBVIOUS
  <1>7. [Now EXCEPT !.x.xundrn = FALSE, !.x.xdmaerr = FALSE, !.x.xdata = @ /\ ~all] = t
    BY <1>4, <1>6 DEF Now, Transaction
  <1>8. Begins(t, edma, y) /\ Commits(t) /\ wire' = wire /\ isr' = isr
    BY <1>1, <1>2, <1>5, <1>6, <1>7, Transactions DEF Write, Now
  <1>9. y.xdata <=> mcasp.xdata
    BY <1>1, <1>3, <1>5
  <1>10. /\ PortIdle(y) <=> PortIdle(mcasp)
         /\ PortAsks(y) <=> PortAsks(mcasp)
    BY <1>5, <1>9 DEF PortIdle, PortAsks
  <1>11. Restarted' <=> Restarted
    BY <1>1, <1>8 DEF Restarted
  <1> QED
    BY <1>1, <1>3, <1>5, <1>8, <1>9, <1>10, <1>11, PortStep

(* EESR: an event latched before is served at once, and the port then takes *)
(* the rest of its frame.                                                   *)
LEMMA EventsKept ==
    ASSUME AudioInv, EnableEvents
    PROVE  AudioInv'
  <1>1. edma \in Edmas /\ mcasp \in Ports
    BY TypesNow
  <1>2. PICK f : f = [edma EXCEPT !.eer = @ \cup {Feeder}]
    OBVIOUS
  <1>3. /\ f \in Edmas /\ f.param = edma.param /\ f.cer = edma.cer /\ f.er = edma.er
        /\ f.eer = edma.eer \cup {Feeder} /\ f.ipr = edma.ipr /\ f.notify = edma.notify
    BY <1>1, <1>2 DEF Edmas, Channels
  <1>4. PICK t : t = [Now EXCEPT !.e = f]
    OBVIOUS
  <1>5. [Now EXCEPT !.e.eer = @ \cup {Feeder}] = t
    BY <1>2, <1>4 DEF Now, Transaction
  <1>6. Begins(t, f, mcasp)
    BY <1>1, <1>3, <1>4, Transactions DEF Now
  <1>7. /\ wire' = wire /\ isr' = isr /\ restarts' = restarts
        /\ Commits(IF Feeder \in edma.er THEN Served(t, <<Feeder>>) ELSE t)
        /\ mcasp.gblctl = {} => Feeder \notin edma.er
    BY <1>5 DEF EnableEvents, Write
  <1>8. /\ isr' \in [at : {"idle", "reads", "clears", "evaluates"}, read : SUBSET Channels]
        /\ edma.ipr # {} => irq \/ edma.notify \/ isr'.at \in {"reads", "clears", "evaluates"}
    BY <1>7 DEF AudioInv, CompletionAnnounced
  <1>9. CASE Feeder \notin edma.er
    BY <1>3, <1>6, <1>7, <1>8, <1>9, EdmaStep
  <1>10. CASE Feeder \in edma.er
    <2>1. PICK shape \in Shapes, half \in {0, 1}, j \in Frames :
             Rests(edma, mcasp, shape, half, j) /\ History(ToSend(mcasp, half, j))
      BY DEF AudioInv
    <2>2. /\ PortAsks(mcasp) /\ mcasp.gblctl # {} /\ "srclr" \in mcasp.gblctl /\ edma.cer = {}
          /\ edma.er \subseteq {Feeder} /\ ParamsAt(edma.param, shape, half, j, 0)
          /\ mcasp.fresh \in {{}, All}
      BY <1>7, <1>10, <2>1 DEF Rests, Steady
    <2>3. t \in Works /\ t.ok /\ t.done[1] = t.done[2] /\ t.e = f /\ t.x = mcasp
      BY <1>6 DEF Begins
    <2>4. Reached(t, shape, half, j, 0) /\ 0 \in Rounds
      <3>1. Holds(mcasp, Base(half, j), 0) /\ 0 # Serializers
        BY <1>1, <2>2, AskedForAll, Sizes
      <3> QED
        BY <1>3, <2>2, <2>3, <3>1, Sizes DEF Reached, Rounds
    <2>5. PICK r : r = Served(t, <<Feeder>>)
      OBVIOUS
    <2>6. /\ Later(r, t) /\ r.e.er \subseteq t.e.er \ {Feeder}
          /\ \E m \in 1..Serializers : Reached(r, shape, half, j, m)
          /\ r.e.cer = {} /\ r.done[1] = r.done[2]
      <3>1. t.e.cer = {} /\ 0 + 1 = 1
        BY <1>3, <2>2, <2>3
      <3> DEFINE q == Served(t, <<Feeder>>)
      <3>2. /\ Later(q, t) /\ q.e.er \subseteq t.e.er \ {Feeder}
            /\ \E m \in (0 + 1)..Serializers : Reached(q, shape, half, j, m)
            /\ q.e.cer = {} /\ q.done[1] = q.done[2]
        BY <2>3, <2>4, <3>1, ServedWhole
      <3>3. r = q
        BY <2>5
      <3> HIDE DEF q
      <3> QED
        BY <3>1, <3>2, <3>3
    <2>7. /\ r \in Works /\ r.ok /\ r.e \in Edmas /\ r.x \in Ports /\ r.x.gblctl = mcasp.gblctl
          /\ r.e.eer = f.eer /\ (r.e.ipr # {} => edma.ipr # {} \/ r.e.notify)
          /\ edma.notify => r.e.notify
      BY <1>3, <2>3, <2>6 DEF Later, AsBefore, Works
    <2>8. Underway(r, shape, half, j)
      <3>1. r.e.er = {}
        BY <1>3, <2>2, <2>3, <2>6
      <3>2. Steady(r.e, r.x)
        BY <2>2, <2>6, <2>7, <3>1 DEF Steady
      <3> QED
        BY <1>3, <2>6, <2>7, <3>2 DEF Underway, Fresh
    <2>9. Answered(Fed(r), r, shape, half, j, FALSE, TRUE)
      BY <2>8, FedUnderway
    <2>10. Commits(r)
      BY <1>7, <1>10, <2>5
    <2>11. History(Base(half, j))'
      <3>1. PICK n : n = ToSend(mcasp, half, j)
        OBVIOUS
      <3>2. PICK b : b = Base(half, j)
        OBVIOUS
      <3>3. b = n \/ Restarted'
        <4>1. mcasp.fresh # All => n = b
          BY <3>1, <3>2 DEF ToSend
        <4>2. mcasp.fresh = All => Restarted'
          BY <1>7, <2>2 DEF AudioInv, Restarted
        <4> QED
          BY <4>1, <4>2
      <3>4. History(n)
        BY <2>1, <3>1
      <3>5. History(b)'
        BY <1>7, <3>3, <3>4, HistoryKept
      <3> QED
        BY <3>2, <3>5
    <2>12. r.e.ipr # {} => irq \/ r.e.notify \/ isr'.at \in {"reads", "clears", "evaluates"}
      BY <1>8, <2>7
    <2>13. r.x.gblctl = {} => Restarted'
      BY <2>2, <2>7
    <2> QED
      BY <1>8, <2>7, <2>9, <2>10, <2>11, <2>12, <2>13, StepKept
  <1> QED
    BY <1>9, <1>10

(* The rest of the writes of the EDMA's registers, and the routine. *)
LEMMA OthersKept ==
    ASSUME AudioInv, \/ DisableEvents \/ ClearEvents \/ WriteIcr \/ WriteIeval
                     \/ EnterRoutine \/ ReadIpr \/ UNCHANGED audioVars
    PROVE  AudioInv'
  <1>1. /\ edma \in Edmas /\ mcasp \in Ports
        /\ isr \in [at : {"idle", "reads", "clears", "evaluates"}, read : SUBSET Channels]
        /\ edma.ipr # {} => irq \/ isr.at \in {"reads", "clears", "evaluates"}
        /\ Feeder \in edma.er => Feeder \notin edma.eer
    BY TypesNow DEF AudioInv, CompletionAnnounced, Rests, Steady
  <1>2. CASE DisableEvents
    <2>1. PICK f : f = [edma EXCEPT !.eer = @ \ {Feeder}]
      OBVIOUS
    <2>2. /\ f \in Edmas /\ f.param = edma.param /\ f.cer = edma.cer /\ f.er = edma.er
          /\ f.eer = edma.eer \ {Feeder} /\ f.ipr = edma.ipr
      BY <1>1, <2>1 DEF Edmas
    <2>3. PICK t : t = [Now EXCEPT !.e = f]
      OBVIOUS
    <2>4. [Now EXCEPT !.e.eer = @ \ {Feeder}] = t
      BY <2>1, <2>3 DEF Now, Transaction
    <2>5. Begins(t, f, mcasp)
      BY <1>1, <2>2, <2>3, Transactions DEF Now
    <2>6. /\ wire' = wire /\ isr' = isr /\ restarts' = restarts /\ Commits(t)
      BY <1>2, <2>4 DEF DisableEvents, Write
    <2> QED
      BY <1>1, <2>2, <2>5, <2>6, EdmaStep
  <1>3. CASE ClearEvents
    <2>1. PICK f : f = [edma EXCEPT !.er = @ \ {Feeder}]
      OBVIOUS
    <2>2. /\ f \in Edmas /\ f.param = edma.param /\ f.cer = edma.cer /\ f.er = edma.er \ {Feeder}
          /\ f.eer = edma.eer /\ f.ipr = edma.ipr
      BY <1>1, <2>1 DEF Edmas
    <2>3. PICK t : t = [Now EXCEPT !.e = f]
      OBVIOUS
    <2>4. [Now EXCEPT !.e.er = @ \ {Feeder}] = t
      BY <2>1, <2>3 DEF Now, Transaction
    <2>5. Begins(t, f, mcasp)
      BY <1>1, <2>2, <2>3, Transactions DEF Now
    <2>6. /\ wire' = wire /\ isr' = isr /\ restarts' = restarts /\ Commits(t)
      BY <1>3, <2>4 DEF ClearEvents, Write
    <2> QED
      BY <1>1, <2>2, <2>5, <2>6, EdmaStep
  <1>4. CASE WriteIcr
    <2>1. PICK f : f = [edma EXCEPT !.ipr = @ \ isr.read]
      OBVIOUS
    <2>2. /\ f \in Edmas /\ f.param = edma.param /\ f.cer = edma.cer /\ f.er = edma.er
          /\ f.eer = edma.eer
      BY <1>1, <2>1 DEF Edmas
    <2>3. PICK t : t = [Now EXCEPT !.e = f]
      OBVIOUS
    <2>4. [Now EXCEPT !.e.ipr = @ \ isr.read] = t
      BY <2>1, <2>3 DEF Now, Transaction
    <2>5. Begins(t, f, mcasp)
      BY <1>1, <2>2, <2>3, Transactions DEF Now
    <2>6. /\ wire' = wire /\ isr' = [at |-> "evaluates", read |-> {}] /\ restarts' = restarts
          /\ Commits(t)
      BY <1>4, <2>4 DEF WriteIcr, Routine
    <2> QED
      BY <1>1, <2>2, <2>5, <2>6, EdmaStep
  <1>5. CASE WriteIeval
    <2>1. PICK f : f = [edma EXCEPT !.notify = @ \/ edma.ipr # {}]
      OBVIOUS
    <2>2. /\ f \in Edmas /\ f.param = edma.param /\ f.cer = edma.cer /\ f.er = edma.er
          /\ f.eer = edma.eer /\ f.ipr = edma.ipr /\ (f.ipr # {} => f.notify)
      BY <1>1, <2>1 DEF Edmas
    <2>3. PICK t : t = [Now EXCEPT !.e = f]
      OBVIOUS
    <2>4. [Now EXCEPT !.e.notify = @ \/ edma.ipr # {}] = t
      BY <2>1, <2>3 DEF Now, Transaction
    <2>5. Begins(t, f, mcasp)
      BY <1>1, <2>2, <2>3, Transactions DEF Now
    <2>6. /\ wire' = wire /\ isr' = [at |-> "idle", read |-> {}] /\ restarts' = restarts
          /\ Commits(t)
      BY <1>5, <2>4 DEF WriteIeval, Routine
    <2> QED
      BY <1>1, <2>2, <2>5, <2>6, EdmaStep
  <1>6. CASE EnterRoutine \/ ReadIpr \/ UNCHANGED audioVars
    <2>1. /\ edma' = edma /\ mcasp' = mcasp /\ wire' = wire /\ restarts' = restarts
          /\ halves' = halves /\ audioFault' = audioFault
      BY <1>6 DEF EnterRoutine, ReadIpr, audioVars
    <2>2. /\ isr' \in [at : {"idle", "reads", "clears", "evaluates"}, read : SUBSET Channels]
          /\ edma.ipr # {} => irq' \/ isr'.at \in {"reads", "clears", "evaluates"}
      <3>1. CASE EnterRoutine
        <4>1. isr' = [isr EXCEPT !.at = "reads"]
          BY <3>1 DEF EnterRoutine
        <4> QED
          BY <1>1, <4>1
      <3>2. CASE ReadIpr
        <4>1. isr' = [at |-> "clears", read |-> edma.ipr] /\ edma.ipr \in SUBSET Channels
          BY <1>1, <3>2 DEF ReadIpr, Edmas
        <4> QED
          BY <4>1
      <3>3. CASE UNCHANGED audioVars
        BY <1>1, <3>3 DEF audioVars
      <3> QED
        BY <1>6, <3>1, <3>2, <3>3
    <2>3. \A n : History(n) => History(n)'
      BY <2>1, HistoryKept
    <2>4. PICK shape \in Shapes, half \in {0, 1}, j \in Frames :
             Rests(edma, mcasp, shape, half, j) /\ History(ToSend(mcasp, half, j))
      BY DEF AudioInv
    <2>5. PICK n : n = ToSend(mcasp, half, j)
      OBVIOUS
    <2>6. History(n)' /\ ToSend(mcasp', half, j) = n
      BY <2>1, <2>3, <2>4, <2>5
    <2>7. History(ToSend(mcasp, half, j))' /\ Rests(edma, mcasp, shape, half, j)'
      BY <2>1, <2>4, <2>6
    <2>8. (\E s \in Shapes, h \in {0, 1}, k \in Frames :
             Rests(edma, mcasp, s, h, k) /\ History(ToSend(mcasp, h, k)))'
      BY <2>7
    <2>9. Restarted' <=> Restarted
      BY <2>1 DEF Restarted
    <2> QED
      BY <2>1, <2>2, <2>8, <2>9 DEF AudioInv, CompletionAnnounced
  <1> QED
    BY <1>2, <1>3, <1>4, <1>5, <1>6

(* A slot: the frame goes out, and the next is asked for. *)
LEMMA SlotKept ==
    ASSUME AudioInv, Slot
    PROVE  AudioInv'
  <1>1. edma \in Edmas /\ mcasp \in Ports
    BY TypesNow
  <1>2. PICK shape \in Shapes, half \in {0, 1}, j \in Frames :
           Rests(edma, mcasp, shape, half, j) /\ History(ToSend(mcasp, half, j))
    BY DEF AudioInv
  <1>3. /\ mcasp.gblctl = Runs /\ Runs # {} /\ "srclr" \in Runs /\ restarts' = restarts /\ isr' = isr
        /\ Commits([Now EXCEPT !.x = SlotSent(mcasp)])
        /\ wire' = IF NextSlot(mcasp) \in mcasp.xtdm
                   THEN Append(wire, [words |-> mcasp.xbuf, fresh |-> mcasp.fresh]) ELSE wire
    BY DEF Slot, Runs
  <1>4. PICK y : y = SlotSent(mcasp)
    OBVIOUS
  <1>5. PICK s \in -1..1 : s = NextSlot(mcasp)
    <2>1. \A a \in -1..1 : (a + 1) % 2 \in -1..1
      OBVIOUS
    <2> QED
      BY <1>1, <2>1 DEF Ports, NextSlot
  <1>6. /\ y \in Ports /\ y.gblctl = mcasp.gblctl
        /\ s \notin mcasp.xtdm => /\ y.fresh = mcasp.fresh /\ y.xbuf = mcasp.xbuf
                                  /\ y.xdata = mcasp.xdata /\ y.xrdy = mcasp.xrdy
                                  /\ y.next = mcasp.next
        /\ s \in mcasp.xtdm => y.fresh = {} /\ y.xdata /\ y.xrdy = All /\ y.next = 1
    <2>1. 1 \in 1..Ends /\ All \in SUBSET All /\ {} \in SUBSET All
      BY Sizes DEF Ends
    <2>2. CASE s \notin mcasp.xtdm
      BY <1>1, <1>4, <1>5, <2>1, <2>2 DEF SlotSent, Ports
    <2>3. CASE s \in mcasp.xtdm
      BY <1>1, <1>4, <1>5, <2>1, <2>3 DEF SlotSent, Ports
    <2> QED
      BY <2>2, <2>3
  <1>7. PICK t : t = [Now EXCEPT !.x = y]
    OBVIOUS
  <1>8. Begins(t, edma, y) /\ Commits(t)
    BY <1>1, <1>3, <1>4, <1>6, <1>7, Transactions DEF Now
  <1>9. CASE s \notin mcasp.xtdm
    <2>1. /\ mcasp.xdata => mcasp.gblctl # {}
          /\ PortIdle(mcasp) \/ PortAsks(mcasp)
          /\ Feeder \in edma.er /\ mcasp.gblctl # {} => PortAsks(mcasp)
          /\ PortAsks(mcasp) /\ mcasp.fresh = All => Restarted
      BY DEF AudioInv, Rests, Steady
    <2>2. /\ PortIdle(y) <=> PortIdle(mcasp)
          /\ PortAsks(y) <=> PortAsks(mcasp)
      BY <1>6, <1>9 DEF PortIdle, PortAsks
    <2>3. wire' = wire /\ (Restarted' <=> Restarted)
      BY <1>3, <1>5, <1>9 DEF Restarted
    <2> QED
      BY <1>3, <1>6, <1>8, <1>9, <2>1, <2>2, <2>3, PortStep
  <1>10. CASE s \in mcasp.xtdm
    <2>1. PortAsks(y) /\ y.fresh # All /\ y.gblctl # {} /\ "srclr" \in y.gblctl
      <3>1. 1 \in All
        BY Sizes DEF All
      <3> QED
        BY <1>3, <1>6, <1>10, <3>1 DEF PortAsks
    <2>2. Ready(t, shape, half, j) /\ t.e = edma /\ t.x = y
      <3>1. t.e = edma /\ t.x = y /\ t \in Works /\ t.ok /\ t.done[1] = t.done[2]
        BY <1>8 DEF Begins
      <3>2. Steady(edma, y)
        BY <1>2, <1>6, <2>1 DEF Rests, Steady
      <3>3. Loaded(y, half, j)
        BY <2>1 DEF Loaded
      <3>4. ParamsAt(edma.param, shape, half, j, 0)
        BY <1>2 DEF Rests
      <3> QED
        BY <1>6, <1>10, <2>1, <3>1, <3>2, <3>3, <3>4 DEF Ready, Fresh
    <2>3. PICK slot : slot = [words |-> mcasp.xbuf, fresh |-> mcasp.fresh]
      OBVIOUS
    <2>4. slot \in Slots /\ slot.words = mcasp.xbuf /\ slot.fresh = mcasp.fresh
      BY <1>1, <2>3 DEF Slots, Ports
    <2>5. wire' = Append(wire, slot)
      BY <1>3, <1>5, <1>10, <2>3
    <2>6. PICK n1 : n1 = ToSend(mcasp, half, j)
      OBVIOUS
    <2>7. PICK n2 : n2 = Base(half, j)
      OBVIOUS
    <2>8. mcasp.fresh \in {{}, All} /\ {} # All
      <3>1. 1 \in All
        BY Sizes DEF All
      <3> QED
        BY <1>2, <3>1 DEF Rests
    <2>9. slot.fresh = {} => n2 = n1
      BY <2>4, <2>6, <2>7, <2>8 DEF ToSend
    <2>10. slot.fresh = All => /\ slot.words[1] = n1 /\ Following(n1) = n2
                               /\ slot.words[1] % Serializers = 0
                               /\ \A n \in All : slot.words[n] = slot.words[1] + n - 1
      <3> SUFFICES ASSUME mcasp.fresh = All
                   PROVE  /\ mcasp.xbuf[1] = n1 /\ Following(n1) = n2
                          /\ mcasp.xbuf[1] % Serializers = 0
                          /\ \A n \in All : mcasp.xbuf[n] = mcasp.xbuf[1] + n - 1
        BY <2>4
      <3>1. n1 = mcasp.xbuf[1]
        BY <2>6 DEF ToSend
      <3>2. PICK h \in {0, 1}, k \in Frames :
              /\ \A n \in All : mcasp.xbuf[n] = Base(h, k) + n - 1
              /\ Base(half, j) = Following(Base(h, k))
        BY <1>2 DEF Rests, Loaded
      <3>3. Base(h, k) \in Nat /\ Base(h, k) % Serializers = 0
        BY FramesFollow, FramesAligned
      <3>4. mcasp.xbuf[1] = Base(h, k)
        <4>1. 1 \in All
          BY Sizes DEF All
        <4> QED
          BY <3>2, <3>3, <4>1
      <3> QED
        BY <2>7, <3>1, <3>2, <3>3, <3>4
    <2>11. History(n1)
      BY <1>2, <2>6
    <2>12. History(n2)'
      BY <1>3, <2>4, <2>5, <2>8, <2>9, <2>10, <2>11, HistoryGrows
    <2>13. History(Base(half, j))' /\ History(ToSend(t.x, half, j))'
      <3>1. ToSend(t.x, half, j) = n2
        BY <2>1, <2>2, <2>7 DEF ToSend
      <3> QED
        BY <2>7, <2>12, <3>1
    <2>14. Answered(Fed(t), t, shape, half, j, TRUE, PortAsks(t.x)) /\ t.ok
      BY <2>2, FedReady DEF Ready, Fresh
    <2>15. /\ isr' \in [at : {"idle", "reads", "clears", "evaluates"}, read : SUBSET Channels]
           /\ t.e.ipr # {} => irq \/ t.e.notify \/ isr'.at \in {"reads", "clears", "evaluates"}
      BY <1>3, <2>2 DEF AudioInv, CompletionAnnounced
    <2>16. t.x.gblctl # {} /\ t.x.fresh # All
      BY <2>1, <2>2
    <2> QED
      BY <1>8, <2>13, <2>14, <2>15, <2>16, StepKept
  <1> QED
    BY <1>9, <1>10

(* Every step keeps it. *)
LEMMA AudioSteps ==
    AudioInv /\ [AudioNext]_audioVars => AudioInv'
  <1> SUFFICES ASSUME AudioInv, [AudioNext]_audioVars PROVE AudioInv'
    OBVIOUS
  <1>1. CASE Slot
    BY <1>1, SlotKept
  <1>2. CASE WriteGblctl
    BY <1>2, GblctlKept
  <1>3. CASE EnableEvents
    BY <1>3, EventsKept
  <1>4. CASE ClearXstat
    BY <1>4, XstatKept
  <1>5. CASE \/ DisableEvents \/ ClearEvents \/ WriteIcr \/ WriteIeval
             \/ EnterRoutine \/ ReadIpr \/ UNCHANGED audioVars
    BY <1>5, OthersKept
  <1> QED
    BY <1>1, <1>2, <1>3, <1>4, <1>5 DEF AudioNext

(* Every slot sends one frame, whole, or repeats the last one; the frames sent  *)
(* are those of the buffer in turn, none twice and, unless the serializers were *)
(* reset between, none left out; a completion is requested of the core or will  *)
(* be asked for; and the chained copy is made in the transaction that chains    *)
(* it. So do cdj_c6747_edma_event and service_mcasp_axevt, for any number of    *)
(* serializers and frames and any number of slots and writes.                   *)
THEOREM AudioIsExact == AudioSpec => []AudioExact
  <1>1. AudioInv => AudioExact
    <2> SUFFICES ASSUME AudioInv PROVE AudioExact
      OBVIOUS
    <2>1. \E n : History(n)
      BY DEF AudioInv
    <2>2. FramesWhole /\ FramesInOrder
      BY <2>1 DEF History
    <2>3. edma.cer = {}
      BY DEF AudioInv, Rests, Steady
    <2> QED
      BY <2>2, <2>3 DEF AudioInv, AudioExact, CopiedInTime
  <1> QED
    BY <1>1, AudioStarts, AudioSteps, PTL DEF AudioSpec

-----------------------------------------------------------------------------
(* The timer, for registers of any width, and any number of clocks and     *)
(* accesses.  A counter stands, of the periods that follow one another     *)
(* from where it was set, at the clocks it has counted; once it has        *)
(* counted to its period it stays.                                         *)

(* Products of naturals, and their order. *)
LEMMA Products ==
    ASSUME NEW a \in Nat, NEW b \in Nat, NEW s \in Nat
    PROVE  /\ a * s \in Nat /\ (a + 1) * s = a * s + s
           /\ a <= b => a * s <= b * s
           /\ a < b => a * s + s <= b * s
  <1>1. a * s \in Nat /\ (a + 1) * s = a * s + s /\ a + 1 \in Nat
    OBVIOUS
  <1>2. \A x, y, z \in Nat : x <= y => x * z <= y * z
    OBVIOUS
  <1>3. a < b => a + 1 <= b
    OBVIOUS
  <1>4. a < b => (a + 1) * s <= b * s
    BY <1>1, <1>2, <1>3
  <1> QED
    BY <1>1, <1>2, <1>4

(* A quotient and its remainder, and when numbers are those. *)
LEMMA Quotient ==
    ASSUME NEW d \in Nat, d > 0, NEW m \in Nat
    PROVE  /\ m \div d \in Nat /\ m % d \in Nat /\ m % d < d /\ m = (m \div d) * d + (m % d)
  <1>1. m \div d \in Int /\ m % d \in Int
    OBVIOUS
  <1>2. m % d >= 0 /\ m % d < d
    OBVIOUS
  <1>3. m = d * (m \div d) + (m % d)
    OBVIOUS
  <1>4. m \div d >= 0
    OBVIOUS
  <1>5. \A q \in Int : d * q = q * d
    OBVIOUS
  <1> QED
    BY <1>1, <1>2, <1>3, <1>4, <1>5

(* There is one such quotient and one such remainder. *)
LEMMA Divided ==
    ASSUME NEW d \in Nat, d > 0, NEW a \in Nat, NEW b \in Nat, b < d, NEW m, m = a * d + b
    PROVE  m \div d = a /\ m % d = b
  <1>1. m \in Nat
    BY Products
  <1>2. PICK q \in Nat, r \in Nat : q = m \div d /\ r = m % d /\ r < d /\ m = q * d + r
    BY <1>1, Quotient
  <1>3. a * d \in Nat /\ q * d \in Nat
    BY Products
  <1>4. ~(a < q)
    <2>1. a < q => a * d + d <= q * d
      BY Products
    <2> QED
      BY <1>2, <1>3, <2>1
  <1>5. ~(q < a)
    <2>1. q < a => q * d + d <= a * d
      BY Products
    <2> QED
      BY <1>2, <1>3, <2>1
  <1>6. a = q
    BY <1>4, <1>5
  <1> QED
    BY <1>2, <1>3, <1>6

(* The next number's remainder is the next one, or zero. *)
LEMMA NextMod ==
    ASSUME NEW d \in Nat, d > 0, NEW m \in Nat
    PROVE  (m + 1) % d = IF (m % d) + 1 < d THEN (m % d) + 1 ELSE 0
  <1>1. PICK q \in Nat, r \in Nat : q = m \div d /\ r = m % d /\ r < d /\ m = q * d + r
    BY Quotient
  <1>2. q * d \in Nat /\ (q + 1) * d = q * d + d
    BY Products
  <1>3. CASE r + 1 < d
    <2>1. PICK b \in Nat, n \in Nat : b = r + 1 /\ n = m + 1
      BY <1>1
    <2>2. n = q * d + b /\ b < d
      BY <1>1, <1>2, <1>3, <2>1
    <2>3. n % d = b
      BY <1>1, <2>2, Divided
    <2> QED
      BY <1>1, <1>3, <2>1, <2>3
  <1>4. CASE ~(r + 1 < d)
    <2>1. PICK a \in Nat, b \in Nat, n \in Nat : a = q + 1 /\ b = 0 /\ n = m + 1
      BY <1>1
    <2>2. n = a * d + b /\ b < d
      BY <1>1, <1>2, <1>4, <2>1
    <2>3. n % d = b
      BY <2>2, Divided
    <2> QED
      BY <1>1, <1>4, <2>1, <2>3
  <1> QED
    BY <1>3, <1>4

Pairs == [Halves -> Word]

(* The two words of a number, and the number of two words. *)
LEMMA WordsOfWhole ==
    ASSUME NEW v \in Pairs
    PROVE  Whole(v) \in Nat /\ Whole(v) < Width * Width /\ Split(Whole(v)) = v
  <1>1. PICK a \in Nat, b \in Nat : a = v["34"] /\ b = v["12"] /\ a < Width /\ b < Width
    BY DspTimerAssumption DEF Pairs, Word, Halves
  <1>2. Width \in Nat /\ Width > 0
    BY DspTimerAssumption
  <1>3. Whole(v) = a * Width + b /\ a * Width \in Nat /\ a * Width + Width <= Width * Width
    BY <1>1, <1>2, Products DEF Whole
  <1>4. PICK n \in Nat : n = Whole(v) /\ n < Width * Width
    <2>1. Width * Width \in Nat
      BY <1>2, Products
    <2> QED
      BY <1>1, <1>2, <1>3, <2>1
  <1>5. n \div Width = a /\ n % Width = b
    <2>1. n = a * Width + b /\ b < Width
      BY <1>1, <1>3, <1>4
    <2> QED
      BY <1>2, <2>1, Divided
  <1>6. a % Width = a
    <2>1. a = 0 * Width + a /\ 0 \in Nat /\ a < Width
      BY <1>1, <1>2
    <2> QED
      BY <1>2, <2>1, Divided
  <1>7. Split(n) = v
    <2>1. Split(n) = [h \in Halves |-> IF h = "12" THEN b ELSE a]
      BY <1>5, <1>6 DEF Split
    <2>2. v = [h \in Halves |-> v[h]]
      BY DEF Pairs
    <2>3. \A h \in Halves : v[h] = IF h = "12" THEN b ELSE a
      BY <1>1 DEF Halves
    <2> QED
      BY <2>1, <2>2, <2>3
  <1> QED
    BY <1>4, <1>7

(* Split and put together again, a number is itself. *)
LEMMA WholeOfWords ==
    ASSUME NEW n \in Nat, n < Width * Width
    PROVE  Split(n) \in Pairs /\ Whole(Split(n)) = n
  <1>1. Width \in Nat /\ Width > 0
    BY DspTimerAssumption
  <1>2. PICK a \in Nat, b \in Nat : a = n \div Width /\ b = n % Width /\ b < Width
                                    /\ n = a * Width + b
    BY <1>1, Quotient
  <1>3. a < Width
    <2>1. Width < a \/ Width = a => Width * Width <= a * Width
      BY <1>1, Products
    <2>2. a * Width \in Nat /\ Width * Width \in Nat
      BY <1>1, Products
    <2> QED
      BY <1>1, <1>2, <2>1, <2>2
  <1>4. a % Width = a
    <2>1. a = 0 * Width + a /\ 0 \in Nat
      BY <1>1
    <2> QED
      BY <1>1, <1>3, <2>1, Divided
  <1>5. Split(n) = [h \in Halves |-> IF h = "12" THEN b ELSE a]
    BY <1>2, <1>4 DEF Split
  <1>6. Split(n) \in Pairs /\ Split(n)["34"] = a /\ Split(n)["12"] = b
    BY <1>1, <1>2, <1>3, <1>5 DEF Pairs, Word, Halves
  <1> QED
    BY <1>2, <1>6 DEF Whole

(* What a timer's mode makes of a period in its registers: the last value, *)
(* the clocks of each, and those of the whole.                             *)
Last(mode, h, prd) ==
    IF mode = "whole" THEN Whole(prd) ELSE prd[IF mode = "chained" THEN "12" ELSE h]
StepSize(mode, psc, h, prd) ==
    IF mode = "chained" THEN prd["34"] + 1
    ELSE IF mode = "dual" /\ h = "34" THEN psc + 1 ELSE 1
Length(mode, psc, h, prd) == (Last(mode, h, prd) + 1) * StepSize(mode, psc, h, prd)
Live(mode) == IF mode = "dual" THEN Halves ELSE {"12"}

(* Shown and Peaks, of what they depend on. *)
Displayed(mode, psc, kind, rel, h, p, n) ==
    LET q == IF kind = 3 THEN rel ELSE p
        first == Length(mode, psc, h, p)
        peak == first - StepSize(mode, psc, h, p)
    IN  IF kind = 1 /\ n > peak THEN [prd |-> p, into |-> peak]
        ELSE IF n < first THEN [prd |-> p, into |-> n]
        ELSE [prd |-> q, into |-> (n - first) % Length(mode, psc, h, q)]
AtPeak(mode, psc, kind, rel, h, p, n) ==
    LET s == Displayed(mode, psc, kind, rel, h, p, n)
    IN  /\ Last(mode, h, s.prd) > 0
        /\ s.into = Length(mode, psc, h, s.prd) - StepSize(mode, psc, h, s.prd)
        /\ s # Displayed(mode, psc, kind, rel, h, p, n - 1)

(* They are those. *)
LEMMA ShownIs ==
    ASSUME NEW h, NEW n
    PROVE  /\ tim.mode \in Modes => Shown(h, n) = Displayed(tim.mode, tim.psc, tim.kind, tim.rel, h, place[h].prd, n)
           /\ tim.mode \in Modes => (Peaks(h, n) <=> AtPeak(tim.mode, tim.psc, tim.kind, tim.rel, h, place[h].prd, n))
           /\ tim.mode \in Modes => Shows(h, n) = LET s == Displayed(tim.mode, tim.psc, tim.kind, tim.rel, h, place[h].prd, n)
                            IN  s.into \div StepSize(tim.mode, tim.psc, h, s.prd)
           /\ TopOf(h, place[h].prd) = Last(tim.mode, h, place[h].prd)
  <1>0. \A g, prd : TopOf(g, prd) = Last(tim.mode, g, prd)
    BY DEF TopOf, Last
  <1> SUFFICES ASSUME tim.mode \in Modes
               PROVE  /\ Shown(h, n) = Displayed(tim.mode, tim.psc, tim.kind, tim.rel, h, place[h].prd, n)
                      /\ Peaks(h, n) <=> AtPeak(tim.mode, tim.psc, tim.kind, tim.rel, h, place[h].prd, n)
                      /\ Shows(h, n) = LET s == Displayed(tim.mode, tim.psc, tim.kind, tim.rel, h, place[h].prd, n)
                            IN  s.into \div StepSize(tim.mode, tim.psc, h, s.prd)
    BY <1>0
  <1>1. \A g, prd : /\ StepOf(g, prd) = StepSize(tim.mode, tim.psc, g, prd)
                    /\ Period(g, prd) = Length(tim.mode, tim.psc, g, prd)
    <2>1. \A g, prd : StepOf(g, prd) = StepSize(tim.mode, tim.psc, g, prd)
      BY DEF StepOf, StepSize, Modes
    <2> QED
      BY <1>0, <2>1 DEF Period, Length
  <1>2. \A g, m : Shown(g, m) = Displayed(tim.mode, tim.psc, tim.kind, tim.rel, g, place[g].prd, m)
    BY <1>1 DEF Shown, Displayed
  <1>3. Peaks(h, n) <=> AtPeak(tim.mode, tim.psc, tim.kind, tim.rel, h, place[h].prd, n)
    BY <1>0, <1>1, <1>2 DEF Peaks, AtPeak
  <1>4. Shows(h, n) = LET s == Displayed(tim.mode, tim.psc, tim.kind, tim.rel, h, place[h].prd, n)
                            IN  s.into \div StepSize(tim.mode, tim.psc, h, s.prd)
    BY <1>1, <1>2 DEF Shows
  <1> QED
    BY <1>2, <1>3, <1>4

(* A period's clocks: its last value, so many times a value's. *)
LEMMA Lengths ==
    ASSUME NEW mode \in Modes, NEW psc \in Nat, NEW h \in Halves, NEW prd \in Pairs
    PROVE  /\ Last(mode, h, prd) \in Nat /\ StepSize(mode, psc, h, prd) \in Nat
           /\ StepSize(mode, psc, h, prd) > 0
           /\ Last(mode, h, prd) * StepSize(mode, psc, h, prd) \in Nat
           /\ Length(mode, psc, h, prd) =
                 Last(mode, h, prd) * StepSize(mode, psc, h, prd) + StepSize(mode, psc, h, prd)
  <1>1. prd["12"] \in Nat /\ prd["34"] \in Nat /\ prd[h] \in Nat
    BY DspTimerAssumption DEF Pairs, Word, Halves
  <1>2. PICK a : a = Last(mode, h, prd)
    OBVIOUS
  <1>3. PICK s : s = StepSize(mode, psc, h, prd)
    OBVIOUS
  <1>4. a \in Nat
    BY <1>1, <1>2, WordsOfWhole DEF Last
  <1>5. s \in Nat /\ s > 0
    BY <1>1, <1>3 DEF StepSize
  <1>6. a * s \in Nat /\ (a + 1) * s = a * s + s
    BY <1>4, <1>5, Products
  <1> QED
    BY <1>2, <1>3, <1>4, <1>5, <1>6 DEF Length

(* The clocks shown: of the first period, then of those that follow.  *)
Follows(kind, rel, p) == IF kind = 3 THEN rel ELSE p
LEMMA DisplayOnce ==
    ASSUME NEW mode \in Modes, NEW psc \in Nat, NEW h \in Halves, NEW p \in Pairs, NEW rel,
           NEW n \in Nat, NEW peak \in Nat,
           peak = Last(mode, h, p) * StepSize(mode, psc, h, p)
    PROVE  Displayed(mode, psc, 1, rel, h, p, n) = [prd |-> p, into |-> IF n > peak THEN peak ELSE n]
  <1>1. PICK s \in Nat : s = StepSize(mode, psc, h, p) /\ s > 0 /\ Length(mode, psc, h, p) = peak + s
    BY Lengths
  <1> QED
    BY <1>1 DEF Displayed

(* Within the first period the clocks are its clocks. *)
LEMMA DisplayFirst ==
    ASSUME NEW mode \in Modes, NEW psc \in Nat, NEW kind \in {2, 3}, NEW h \in Halves, NEW p \in Pairs,
           NEW rel \in Pairs, NEW n \in Nat, n < Length(mode, psc, h, p)
    PROVE  Displayed(mode, psc, kind, rel, h, p, n) = [prd |-> p, into |-> n]
  BY DEF Displayed

(* One more clock is the next of the same period, or the first of the next. *)
LEMMA DisplayNext ==
    ASSUME NEW mode \in Modes, NEW psc \in Nat, NEW kind \in {2, 3}, NEW h \in Halves, NEW p \in Pairs,
           NEW rel \in Pairs, NEW n \in Nat,
           NEW s, s = Displayed(mode, psc, kind, rel, h, p, n)
    PROVE  /\ s.prd \in {p, Follows(kind, rel, p)} /\ s.into \in Nat
           /\ s.into < Length(mode, psc, h, s.prd)
           /\ Displayed(mode, psc, kind, rel, h, p, n + 1) =
                IF s.into + 1 < Length(mode, psc, h, s.prd)
                THEN [prd |-> s.prd, into |-> s.into + 1]
                ELSE [prd |-> Follows(kind, rel, p), into |-> 0]
  <1>1. PICK q \in Pairs : q = Follows(kind, rel, p)
    BY DEF Follows
  <1>2. PICK first \in Nat, other \in Nat :
           first = Length(mode, psc, h, p) /\ first > 0 /\ other = Length(mode, psc, h, q) /\ other > 0
    <2>1. Length(mode, psc, h, p) \in Nat /\ Length(mode, psc, h, p) > 0
      BY Lengths
    <2>2. Length(mode, psc, h, q) \in Nat /\ Length(mode, psc, h, q) > 0
      BY Lengths
    <2> QED
      BY <2>1, <2>2
  <1>3. \A m : Displayed(mode, psc, kind, rel, h, p, m) =
                  IF m < first THEN [prd |-> p, into |-> m] ELSE [prd |-> q, into |-> (m - first) % other]
    <2>1. kind # 1
      OBVIOUS
    <2> QED
      BY <1>1, <1>2, <2>1 DEF Displayed, Follows
  <1>4. CASE n + 1 < first
    <2>1. n < first /\ s = [prd |-> p, into |-> n]
      BY <1>2, <1>3, <1>4
    <2>2. Displayed(mode, psc, kind, rel, h, p, n + 1) = [prd |-> p, into |-> n + 1]
      BY <1>3, <1>4
    <2> QED
      BY <1>1, <1>2, <1>4, <2>1, <2>2
  <1>5. CASE n + 1 = first
    <2>1. n < first /\ s = [prd |-> p, into |-> n]
      BY <1>2, <1>3, <1>5
    <2>2. Displayed(mode, psc, kind, rel, h, p, n + 1) = [prd |-> q, into |-> 0]
      <3>1. ~(n + 1 < first) /\ (n + 1) - first = 0
        BY <1>2, <1>5
      <3>2. 0 % other = 0
        BY <1>2
      <3> QED
        BY <1>3, <3>1, <3>2
    <2> QED
      BY <1>1, <1>2, <1>5, <2>1, <2>2
  <1>6. CASE first <= n
    <2>1. PICK m \in Nat : m = n - first /\ (n + 1) - first = m + 1
      BY <1>2, <1>6
    <2>2. ~(n < first) /\ ~(n + 1 < first)
      BY <1>2, <1>6
    <2>3. s = [prd |-> q, into |-> m % other]
      BY <1>3, <2>1, <2>2
    <2>4. Displayed(mode, psc, kind, rel, h, p, n + 1) = [prd |-> q, into |-> (m + 1) % other]
      BY <1>3, <2>1, <2>2
    <2>5. m % other \in Nat /\ m % other < other
      BY <1>2, Quotient
    <2>6. (m + 1) % other = IF (m % other) + 1 < other THEN (m % other) + 1 ELSE 0
      BY <1>2, NextMod, Zenon
    <2> QED
      BY <1>1, <1>2, <2>3, <2>4, <2>5, <2>6
  <1> QED
    BY <1>2, <1>4, <1>5, <1>6

(* The clock that brings a counter to its period. *)
LEMMA PeakOnce ==
    ASSUME NEW mode \in Modes, NEW psc \in Nat, NEW h \in Halves, NEW p \in Pairs, NEW rel,
           NEW n \in Nat, NEW peak \in Nat,
           peak = Last(mode, h, p) * StepSize(mode, psc, h, p)
    PROVE  AtPeak(mode, psc, 1, rel, h, p, n + 1) <=> n + 1 = peak
  <1>1. n + 1 \in Nat /\ (n + 1) - 1 = n
    OBVIOUS
  <1>2. Displayed(mode, psc, 1, rel, h, p, n) = [prd |-> p, into |-> IF n > peak THEN peak ELSE n]
    BY DisplayOnce
  <1>3. PICK m \in Nat : m = n + 1
    OBVIOUS
  <1>4. Displayed(mode, psc, 1, rel, h, p, m) = [prd |-> p, into |-> IF m > peak THEN peak ELSE m]
    BY DisplayOnce
  <1>5. Length(mode, psc, h, p) - StepSize(mode, psc, h, p) = peak
    BY Lengths
  <1>6. m - 1 = n
    BY <1>3
  <1>7. Last(mode, h, p) \in Nat /\ (Last(mode, h, p) = 0 => peak = 0)
    <2>1. Last(mode, h, p) \in Nat /\ StepSize(mode, psc, h, p) \in Nat
      BY Lengths
    <2>2. 0 * StepSize(mode, psc, h, p) = 0
      BY <2>1
    <2> QED
      BY <2>1, <2>2
  <1>8. m = peak => Last(mode, h, p) > 0
    BY <1>3, <1>7
  <1> QED
    BY <1>2, <1>3, <1>4, <1>5, <1>6, <1>8 DEF AtPeak

(* And of a counter that returns to zero. *)
LEMMA PeakNext ==
    ASSUME NEW mode \in Modes, NEW psc \in Nat, NEW kind \in {2, 3}, NEW h \in Halves, NEW p \in Pairs,
           NEW rel \in Pairs, NEW n \in Nat,
           NEW s, s = Displayed(mode, psc, kind, rel, h, p, n)
    PROVE  AtPeak(mode, psc, kind, rel, h, p, n + 1) <=>
               s.into + 1 = Last(mode, h, s.prd) * StepSize(mode, psc, h, s.prd)
  <1>1. PICK q \in Pairs : q = Follows(kind, rel, p)
    BY DEF Follows
  <1>2. PICK m \in Nat : m = n + 1 /\ m - 1 = n
    OBVIOUS
  <1>3. /\ s.prd \in {p, q} /\ s.into \in Nat /\ s.into < Length(mode, psc, h, s.prd)
        /\ Displayed(mode, psc, kind, rel, h, p, m) =
                IF s.into + 1 < Length(mode, psc, h, s.prd)
                THEN [prd |-> s.prd, into |-> s.into + 1] ELSE [prd |-> q, into |-> 0]
    BY <1>1, <1>2, DisplayNext
  <1>4. \A r \in {p, q} : /\ Length(mode, psc, h, r) - StepSize(mode, psc, h, r)
                                = Last(mode, h, r) * StepSize(mode, psc, h, r)
                          /\ Last(mode, h, r) * StepSize(mode, psc, h, r) \in Nat
                          /\ Last(mode, h, r) > 0 <=> Last(mode, h, r) * StepSize(mode, psc, h, r) > 0
                          /\ Last(mode, h, r) * StepSize(mode, psc, h, r) < Length(mode, psc, h, r)
    <2> SUFFICES ASSUME NEW r \in {p, q}
                 PROVE /\ Length(mode, psc, h, r) - StepSize(mode, psc, h, r)
                                = Last(mode, h, r) * StepSize(mode, psc, h, r)
                       /\ Last(mode, h, r) * StepSize(mode, psc, h, r) \in Nat
                       /\ Last(mode, h, r) > 0 <=> Last(mode, h, r) * StepSize(mode, psc, h, r) > 0
                       /\ Last(mode, h, r) * StepSize(mode, psc, h, r) < Length(mode, psc, h, r)
      OBVIOUS
    <2>1. r \in Pairs
      BY <1>1
    <2>2. PICK a \in Nat, z \in Nat : a = Last(mode, h, r) /\ z = StepSize(mode, psc, h, r)
             /\ z > 0 /\ Length(mode, psc, h, r) = a * z + z /\ a * z \in Nat
      BY <2>1, Lengths
    <2>3. a > 0 <=> a * z > 0
      <3>1. 0 < a => 0 * z + z <= a * z
        BY <2>2, Products
      <3>2. 0 * z = 0
        BY <2>2
      <3> QED
        BY <2>2, <3>1, <3>2
    <2>4. /\ (a * z + z) - z = a * z
          /\ a * z < a * z + z
      BY <2>2
    <2> QED
      BY <2>2, <2>3, <2>4
  <1>5. PICK x : x = Displayed(mode, psc, kind, rel, h, p, m)
    OBVIOUS
  <1>6. AtPeak(mode, psc, kind, rel, h, p, m) <=>
           /\ Last(mode, h, x.prd) > 0
           /\ x.into = Length(mode, psc, h, x.prd) - StepSize(mode, psc, h, x.prd) /\ x # s
    BY <1>2, <1>5 DEF AtPeak
  <1>7. CASE s.into + 1 < Length(mode, psc, h, s.prd)
    <2>1. x = [prd |-> s.prd, into |-> s.into + 1] /\ x # s
      BY <1>3, <1>5, <1>7
    <2> QED
      BY <1>2, <1>3, <1>4, <1>6, <2>1
  <1>8. CASE ~(s.into + 1 < Length(mode, psc, h, s.prd))
    <2>1. x = [prd |-> q, into |-> 0]
      BY <1>3, <1>5, <1>8
    <2>2. Last(mode, h, x.prd) > 0 =>
             x.into # Length(mode, psc, h, x.prd) - StepSize(mode, psc, h, x.prd)
      BY <1>4, <2>1
    <2>3. s.into + 1 # Last(mode, h, s.prd) * StepSize(mode, psc, h, s.prd)
      BY <1>3, <1>4, <1>8
    <2> QED
      BY <1>2, <1>6, <2>2, <2>3
  <1> QED
    BY <1>7, <1>8

(* A counter that returns to zero, and the periods it has. *)
Returns(mode, psc, kind, rel, h, p) ==
    /\ mode \in Modes /\ psc \in Nat /\ kind \in {2, 3} /\ h \in Halves /\ p \in Pairs /\ rel \in Pairs
Peak(mode, psc, h, prd) == Last(mode, h, prd) * StepSize(mode, psc, h, prd)

LEMMA AtPeakNext ==
    ASSUME NEW mode, NEW psc, NEW kind, NEW h, NEW p, NEW rel, Returns(mode, psc, kind, rel, h, p),
           NEW n \in Nat
    PROVE  LET s == Displayed(mode, psc, kind, rel, h, p, n)
           IN  AtPeak(mode, psc, kind, rel, h, p, n + 1) <=> s.into + 1 = Peak(mode, psc, h, s.prd)
  <1>1. /\ mode \in Modes /\ psc \in Nat /\ kind \in {2, 3} /\ h \in Halves /\ p \in Pairs
        /\ rel \in Pairs
    BY DEF Returns
  <1>2. PICK s : s = Displayed(mode, psc, kind, rel, h, p, n)
    OBVIOUS
  <1> QED
    BY <1>1, <1>2, PeakNext, SMTT(60) DEF Peak

(* A counter's value, and the clocks since it came to it. *)
At(t, h) == IF t.mode = "whole" THEN Whole(t.count) ELSE t.count[h]
Sub(t, h) == IF t.mode = "chained" THEN t.count["34"]
             ELSE IF t.mode = "dual" /\ h = "34" THEN t.tddr ELSE 0
Top(t, h) == Last(t.mode, h, t.prd)
Size(t, h) == StepSize(t.mode, t.psc, h, t.prd)
Agree(mode, h, a, b) == IF mode = "dual" THEN a[h] = b[h] ELSE a = b

(* It is within its period. *)
Fits(t, h) ==
    At(t, h) \in Nat /\ Sub(t, h) \in Nat /\ At(t, h) <= Top(t, h) /\ Sub(t, h) < Size(t, h)

PeaksSince(t, h, pl, n) ==
    {k \in pl.from + 1..n : AtPeak(t.mode, t.psc, t.kind, t.rel, h, pl.prd, k)}

(* It stands where the clocks since it was set put it.  *)
Stands(t, h, pl, n, s) ==
    /\ Last(t.mode, h, pl.prd) > 0 /\ Agree(t.mode, h, t.prd, s.prd)
    /\ Top(t, h) > 0 =>
          IF t.kind = 1 /\ n > Top(t, h) * Size(t, h) THEN At(t, h) = Top(t, h)
          ELSE s.into = At(t, h) * Size(t, h) + Sub(t, h)
    /\ pl.fires = IF h \in t.enabled THEN Cardinality(PeaksSince(t, h, pl, n)) ELSE 0

Zero(t, h, pl) == Last(t.mode, h, pl.prd) = 0

Counter(t, h, pl) ==
    /\ Fits(t, h)
    /\ IF Zero(t, h, pl) THEN Top(t, h) = 0 /\ pl.fires = 0
       ELSE LET n == pl.from + pl.ran
            IN  Stands(t, h, pl, n, Displayed(t.mode, t.psc, t.kind, t.rel, h, pl.prd, n))

Places == [from : Nat, prd : Pairs, ran : Nat, fires : Nat]

(* What of a timer is set for good, and what of it moves. *)
SetUp(t) == /\ t.mode \in Modes /\ t.psc \in Nat /\ t.kind \in 1..3 /\ t.rel \in Pairs
            /\ t.enabled \in SUBSET Halves /\ t.prd \in Pairs
Alike(u, t) == /\ u.mode = t.mode /\ u.psc = t.psc /\ u.kind = t.kind /\ u.rel = t.rel
               /\ u.enabled = t.enabled /\ u.prd \in Pairs

(* What a clock does to a counter that counts it. *)
Counts(t, u, h, match) ==
    /\ Fits(u, h)
    /\ IF Top(t, h) = 0 THEN ~match /\ Agree(t.mode, h, u.prd, t.prd)
       ELSE IF Sub(t, h) + 1 < Size(t, h)
       THEN /\ ~match /\ Agree(t.mode, h, u.prd, t.prd)
            /\ At(u, h) = At(t, h) /\ Sub(u, h) = Sub(t, h) + 1
       ELSE IF At(t, h) < Top(t, h)
       THEN /\ (match <=> At(t, h) + 1 = Top(t, h)) /\ Agree(t.mode, h, u.prd, t.prd)
            /\ At(u, h) = At(t, h) + 1 /\ Sub(u, h) = 0
       ELSE IF t.kind = 1
       THEN /\ ~match /\ Agree(t.mode, h, u.prd, t.prd)
            /\ At(u, h) = At(t, h) /\ Sub(u, h) = 0
       ELSE /\ ~match /\ Agree(t.mode, h, u.prd, Follows(t.kind, t.rel, t.prd))
            /\ At(u, h) = 0 /\ Sub(u, h) = 0

(* Periods that agree in what a counter uses are as long. *)
LEMMA Agreed ==
    ASSUME NEW mode \in Modes, NEW psc, NEW h \in Live(mode), NEW a, NEW b, Agree(mode, h, a, b)
    PROVE  /\ Last(mode, h, a) = Last(mode, h, b)
           /\ StepSize(mode, psc, h, a) = StepSize(mode, psc, h, b)
           /\ Length(mode, psc, h, a) = Length(mode, psc, h, b)
  <1>1. CASE mode = "dual"
    BY <1>1 DEF Agree, Last, StepSize, Length
  <1>2. CASE mode # "dual"
    BY <1>2 DEF Agree
  <1> QED
    BY <1>1, <1>2

(* One more clock is one more interrupt, or none. *)
CountsPeak(t, h, pl, n) ==
    LET peak == AtPeak(t.mode, t.psc, t.kind, t.rel, h, pl.prd, n + 1)
    IN  /\ Cardinality(PeaksSince(t, h, pl, n)) \in Nat
        /\ Cardinality(PeaksSince(t, h, pl, n + 1)) =
              Cardinality(PeaksSince(t, h, pl, n)) + (IF peak THEN 1 ELSE 0)

(* The clock after n counted makes at most one. *)
LEMMA OneMorePeak ==
    ASSUME NEW t, NEW h, NEW pl \in Places, NEW n \in Nat, pl.from <= n
    PROVE  CountsPeak(t, h, pl, n)
  <1> DEFINE S == PeaksSince(t, h, pl, n)
             peak == AtPeak(t.mode, t.psc, t.kind, t.rel, h, pl.prd, n + 1)
  <1>1. pl.from \in Nat
    BY DEF Places
  <1>2. IsFiniteSet(S)
    <2>1. IsFiniteSet(pl.from + 1..n)
      BY <1>1, FS_Interval
    <2>2. S \subseteq pl.from + 1..n
      BY DEF PeaksSince
    <2> QED
      BY <2>1, <2>2, FS_Subset, Zenon
  <1>3. Cardinality(S) \in Nat
    BY <1>2, FS_CardinalityType
  <1>4. n + 1 \notin S
    <2>1. \A k \in S : k <= n /\ k \in Int
      BY <1>1 DEF PeaksSince
    <2> QED
      BY <2>1
  <1>5. PeaksSince(t, h, pl, n + 1) = S \cup (IF peak THEN {n + 1} ELSE {})
    <2>1. pl.from + 1..n + 1 = (pl.from + 1..n) \cup {n + 1}
      BY <1>1
    <2> QED
      BY <2>1 DEF PeaksSince
  <1>6. Cardinality(S \cup {n + 1}) = Cardinality(S) + 1
    BY <1>2, <1>4, FS_AddElement, Zenon
  <1> HIDE DEF S, CountsPeak
  <1>7. CASE peak
    <2>1. PeaksSince(t, h, pl, n + 1) = S \cup {n + 1}
      BY <1>5, <1>7
    <2> QED
      BY <1>3, <1>6, <1>7, <2>1 DEF S, CountsPeak
  <1>8. CASE ~peak
    <2>1. PeaksSince(t, h, pl, n + 1) = S
      BY <1>5, <1>8, Zenon
    <2> QED
      BY <1>3, <1>8, <2>1 DEF S, CountsPeak
  <1> QED
    BY <1>7, <1>8

(* Where in its period a counter is. *)
LEMMA Within ==
    ASSUME NEW c \in Nat, NEW top \in Nat, NEW size \in Nat, NEW b \in Nat,
           c <= top, b < size
    PROVE  /\ c * size \in Nat /\ top * size \in Nat /\ (c + 1) * size = c * size + size
           /\ c < top => c * size + size <= top * size
           /\ c = top => c * size = top * size
           /\ c + 1 < top => (c * size + size) + size <= top * size
           /\ c + 1 = top => c * size + size = top * size
  <1>1. c * size \in Nat /\ top * size \in Nat /\ (c + 1) * size = c * size + size
        /\ (c < top => c * size + size <= top * size)
    BY Products
  <1>2. c + 1 < top => (c + 1) * size + size <= top * size
    <2>1. PICK d \in Nat : d = c + 1
      OBVIOUS
    <2>2. d < top => d * size + size <= top * size
      BY Products
    <2> QED
      BY <2>1, <2>2
  <1> QED
    BY <1>1, <1>2

(* A clock later a counter stands where that clock puts it, and the interrupts *)
(* are those of the clocks until then.                                         *)
LEMMA StandsOn ==
    ASSUME NEW t, NEW u, NEW h \in Live(t.mode), SetUp(t), Alike(u, t), NEW pl \in Places,
           NEW v \in Places, NEW match, Counts(t, u, h, match), Fits(t, h), NEW n \in Nat, pl.from <= n,
           NEW s, s = Displayed(t.mode, t.psc, t.kind, t.rel, h, pl.prd, n),
           Stands(t, h, pl, n, s), v.from = pl.from, v.prd = pl.prd,
           v.fires = pl.fires + (IF match /\ h \in t.enabled THEN 1 ELSE 0)
    PROVE  Stands(u, h, v, n + 1, Displayed(u.mode, u.psc, u.kind, u.rel, h, v.prd, n + 1))
  <1>1. PICK mode \in Modes, psc \in Nat, kind \in 1..3, rel \in Pairs, p \in Pairs :
           /\ mode = t.mode /\ psc = t.psc /\ kind = t.kind /\ rel = t.rel /\ p = pl.prd
           /\ mode = u.mode /\ psc = u.psc /\ kind = u.kind /\ rel = u.rel /\ p = v.prd
           /\ t.prd \in Pairs /\ u.prd \in Pairs /\ u.enabled = t.enabled
           /\ Last(mode, h, p) > 0
    BY DEF SetUp, Alike, Places, Stands
  <1>2. h \in Halves /\ h \in Live(mode)
    BY <1>1 DEF Live, Halves
  <1>3. PICK c \in Nat, b \in Nat, top \in Nat, size \in Nat :
           /\ c = At(t, h) /\ b = Sub(t, h) /\ top = Top(t, h) /\ size = Size(t, h)
           /\ top = Last(mode, h, t.prd) /\ size = StepSize(mode, psc, h, t.prd)
           /\ c <= top /\ b < size /\ size > 0
    <2>1. /\ Last(mode, h, t.prd) \in Nat /\ StepSize(mode, psc, h, t.prd) \in Nat
          /\ StepSize(mode, psc, h, t.prd) > 0
      BY <1>1, <1>2, Lengths
    <2> QED
      BY <1>1, <2>1 DEF Fits, Top, Size
  <1>4. PICK x \in Nat, y \in Nat :
           /\ x = c * size /\ y = top * size /\ (c + 1) * size = x + size
           /\ c < top => x + size <= y
           /\ c = top => x = y
           /\ c + 1 < top => (x + size) + size <= y
           /\ c + 1 = top => x + size = y
    <2>1. /\ c * size \in Nat /\ top * size \in Nat /\ (c + 1) * size = c * size + size
          /\ c < top => c * size + size <= top * size
          /\ c = top => c * size = top * size
          /\ c + 1 < top => (c * size + size) + size <= top * size
          /\ c + 1 = top => c * size + size = top * size
      BY <1>3, Within
    <2>2. PICK x \in Nat, y \in Nat : x = c * size /\ y = top * size
      BY <2>1
    <2> QED
      BY <2>1, <2>2
  <1>5. /\ s.prd \in Pairs /\ Agree(mode, h, t.prd, s.prd)
        /\ top = Last(mode, h, s.prd) /\ size = StepSize(mode, psc, h, s.prd)
        /\ Length(mode, psc, h, s.prd) = y + size
    <2>1. s.prd \in Pairs
      BY <1>1 DEF Displayed
    <2>2. Agree(mode, h, t.prd, s.prd)
      BY <1>1 DEF Stands
    <2>3. top = Last(mode, h, s.prd) /\ size = StepSize(mode, psc, h, s.prd)
      BY <1>2, <1>3, <2>2, Agreed
    <2> QED
      BY <1>2, <1>4, <2>1, <2>2, <2>3, Lengths
  <1>6. PICK m \in Nat : m = n + 1
    OBVIOUS
  <1>7. PICK r : r = Displayed(mode, psc, kind, rel, h, p, m)
    OBVIOUS
  <1> DEFINE Moved_ == IF kind = 1 /\ m > Top(u, h) * Size(u, h) THEN At(u, h) = Top(u, h)
                       ELSE r.into = At(u, h) * Size(u, h) + Sub(u, h)
             peak == AtPeak(mode, psc, kind, rel, h, p, m)
  <1>8. ASSUME Agree(mode, h, u.prd, t.prd) PROVE Top(u, h) = top /\ Size(u, h) = size
    BY <1>1, <1>2, <1>3, <1>8, Agreed DEF Top, Size
  <1>9. ASSUME top > 0
        PROVE  (match <=> peak) /\ Agree(mode, h, u.prd, r.prd) /\ Moved_
    <2>1. CASE kind = 1
      <3>1. s = [prd |-> p, into |-> IF n > y THEN y ELSE n]
        <4>1. Displayed(mode, psc, 1, rel, h, p, n) = [prd |-> p, into |-> IF n > y THEN y ELSE n]
          <5>1. s.prd = p
            BY <1>1, <2>1 DEF Displayed
          <5>2. y = Last(mode, h, p) * StepSize(mode, psc, h, p)
            BY <1>4, <1>5, <5>1
          <5> QED
            BY <1>2, <5>2, DisplayOnce
        <4> QED
          BY <1>1, <2>1, <4>1
      <3>2. y = Last(mode, h, p) * StepSize(mode, psc, h, p)
        BY <1>4, <1>5, <3>1
      <3>3. r = [prd |-> p, into |-> IF m > y THEN y ELSE m] /\ (peak <=> m = y)
        <4>1. Displayed(mode, psc, 1, rel, h, p, m) = [prd |-> p, into |-> IF m > y THEN y ELSE m]
          BY <1>2, <3>2, DisplayOnce
        <4>2. AtPeak(mode, psc, 1, rel, h, p, n + 1) <=> n + 1 = y
          BY <1>2, <3>2, PeakOnce
        <4> QED
          BY <1>6, <1>7, <2>1, <4>1, <4>2
      <3>4. IF n > y THEN c = top ELSE n = x + b
        BY <1>1, <1>3, <1>4, <1>9, <2>1, <3>1 DEF Stands
      <3>5. Agree(mode, h, u.prd, t.prd)
        BY <1>1, <1>3, <1>9, <2>1 DEF Counts
      <3>6. Top(u, h) = top /\ Size(u, h) = size
        BY <1>8, <3>5
      <3>7. Agree(mode, h, u.prd, r.prd)
        BY <1>5, <3>1, <3>3, <3>5 DEF Agree
      <3>8. CASE b + 1 < size
        <4>1. ~match /\ At(u, h) = c /\ Sub(u, h) = b + 1
          BY <1>3, <1>9, <3>8 DEF Counts
        <4>2. ~peak /\ (IF m > y THEN c = top ELSE m = x + (b + 1))
          BY <1>3, <1>4, <1>6, <3>3, <3>4, <3>8
        <4>3. Moved_
          BY <1>4, <2>1, <3>3, <3>6, <4>1, <4>2
        <4> QED
          BY <3>7, <4>1, <4>2, <4>3
      <3>9. CASE ~(b + 1 < size) /\ c < top
        <4>1. (match <=> c + 1 = top) /\ At(u, h) = c + 1 /\ Sub(u, h) = 0
          BY <1>3, <1>9, <3>9 DEF Counts
        <4>2. m = x + size /\ m <= y /\ (peak <=> c + 1 = top)
          BY <1>3, <1>4, <1>6, <3>3, <3>4, <3>9
        <4>3. Moved_
          BY <1>4, <2>1, <3>3, <3>6, <4>1, <4>2
        <4> QED
          BY <3>7, <4>1, <4>2, <4>3
      <3>10. CASE ~(b + 1 < size) /\ ~(c < top)
        <4>1. ~match /\ At(u, h) = c
          BY <1>1, <1>3, <1>9, <2>1, <3>10 DEF Counts
        <4>2. m > y /\ ~peak /\ c = top
          BY <1>3, <1>4, <1>6, <3>3, <3>4, <3>10
        <4>3. Moved_
          BY <1>4, <2>1, <3>6, <4>1, <4>2
        <4> QED
          BY <3>7, <4>1, <4>2, <4>3
      <3> QED
        BY <3>8, <3>9, <3>10
    <2>2. CASE kind # 1
      <3>1. kind \in {2, 3}
        BY <2>2
      <3>2. /\ s.prd \in {p, Follows(kind, rel, p)}
            /\ r = IF s.into + 1 < y + size THEN [prd |-> s.prd, into |-> s.into + 1]
                   ELSE [prd |-> Follows(kind, rel, p), into |-> 0]
            /\ peak <=> s.into + 1 = y
        <4>1. s = Displayed(mode, psc, kind, rel, h, p, n)
          BY <1>1
        <4>2. /\ s.prd \in {p, Follows(kind, rel, p)}
              /\ Displayed(mode, psc, kind, rel, h, p, n + 1) =
                    IF s.into + 1 < Length(mode, psc, h, s.prd)
                    THEN [prd |-> s.prd, into |-> s.into + 1]
                    ELSE [prd |-> Follows(kind, rel, p), into |-> 0]
          BY <1>2, <3>1, <4>1, DisplayNext
        <4>3. AtPeak(mode, psc, kind, rel, h, p, n + 1) <=>
                 s.into + 1 = Last(mode, h, s.prd) * StepSize(mode, psc, h, s.prd)
          <5>1. Returns(mode, psc, kind, rel, h, p)
            BY <1>1, <1>2, <3>1 DEF Returns
          <5>2. AtPeak(mode, psc, kind, rel, h, p, n + 1) <=> s.into + 1 = Peak(mode, psc, h, s.prd)
            BY <4>1, <5>1, AtPeakNext
          <5> QED
            BY <5>2 DEF Peak
        <4> QED
          BY <1>4, <1>5, <1>6, <1>7, <4>2, <4>3
      <3>3. s.into = x + b
        BY <1>1, <1>3, <1>4, <1>9, <2>2 DEF Stands
      <3>4. CASE b + 1 < size
        <4>1. ~match /\ At(u, h) = c /\ Sub(u, h) = b + 1 /\ Agree(mode, h, u.prd, t.prd)
          BY <1>1, <1>3, <1>9, <3>4 DEF Counts
        <4>2. r = [prd |-> s.prd, into |-> x + (b + 1)] /\ ~peak
          BY <1>3, <1>4, <3>2, <3>3, <3>4
        <4>3. Agree(mode, h, u.prd, r.prd)
          BY <1>5, <4>1, <4>2 DEF Agree
        <4>4. Moved_
          BY <1>4, <1>8, <2>2, <4>1, <4>2
        <4> QED
          BY <4>1, <4>2, <4>3, <4>4
      <3>5. CASE ~(b + 1 < size) /\ c < top
        <4>1. (match <=> c + 1 = top) /\ At(u, h) = c + 1 /\ Sub(u, h) = 0 /\ Agree(mode, h, u.prd, t.prd)
          BY <1>1, <1>3, <1>9, <3>5 DEF Counts
        <4>2. r = [prd |-> s.prd, into |-> x + size] /\ (peak <=> c + 1 = top)
          BY <1>3, <1>4, <3>2, <3>3, <3>5
        <4>3. Agree(mode, h, u.prd, r.prd)
          BY <1>5, <4>1, <4>2 DEF Agree
        <4>4. Moved_
          BY <1>4, <1>8, <2>2, <4>1, <4>2
        <4> QED
          BY <4>1, <4>2, <4>3, <4>4
      <3>6. CASE ~(b + 1 < size) /\ ~(c < top)
        <4>1. ~match /\ At(u, h) = 0 /\ Sub(u, h) = 0
              /\ Agree(mode, h, u.prd, Follows(kind, rel, t.prd))
          BY <1>1, <1>3, <1>9, <2>2, <3>6 DEF Counts
        <4>2. r = [prd |-> Follows(kind, rel, p), into |-> 0] /\ ~peak
          BY <1>3, <1>4, <3>2, <3>3, <3>6
        <4>3. Agree(mode, h, u.prd, r.prd)
          BY <1>5, <3>2, <4>1, <4>2 DEF Agree, Follows
        <4>4. Moved_
          <5>1. Size(u, h) \in Nat
            BY <1>1, <1>2, Lengths DEF Size
          <5>2. 0 * Size(u, h) + 0 = 0
            BY <5>1
          <5> QED
            BY <2>2, <4>1, <4>2, <5>2
        <4> QED
          BY <4>1, <4>2, <4>3, <4>4
      <3> QED
        BY <3>4, <3>5, <3>6
    <2> QED
      BY <2>1, <2>2
  <1>12. ASSUME top = 0
         PROVE  ~match /\ ~peak /\ Agree(mode, h, u.prd, r.prd) /\ Top(u, h) = 0
    <2>1. ~match /\ Agree(mode, h, u.prd, t.prd)
      BY <1>1, <1>3, <1>12 DEF Counts
    <2>2. s.prd # p
      BY <1>1, <1>5, <1>12
    <2>3. kind \in {2, 3}
      BY <1>1, <2>2 DEF Displayed
    <2>4. /\ s.prd \in {p, Follows(kind, rel, p)} /\ s.into \in Nat
          /\ r = IF s.into + 1 < Length(mode, psc, h, s.prd)
                 THEN [prd |-> s.prd, into |-> s.into + 1]
                 ELSE [prd |-> Follows(kind, rel, p), into |-> 0]
      <3>1. s = Displayed(mode, psc, kind, rel, h, p, n)
        BY <1>1
      <3> QED
        BY <1>2, <1>6, <1>7, <2>3, <3>1, DisplayNext
    <2>5. r.prd = s.prd
      BY <2>2, <2>4
    <2>6. ~peak
      <3>1. s = Displayed(mode, psc, kind, rel, h, p, n) /\ Returns(mode, psc, kind, rel, h, p)
        BY <1>1, <1>2, <2>3 DEF Returns
      <3>2. AtPeak(mode, psc, kind, rel, h, p, n + 1) <=> s.into + 1 = Peak(mode, psc, h, s.prd)
        BY <3>1, AtPeakNext
      <3>3. Peak(mode, psc, h, s.prd) = 0
        <4>1. 0 * size = 0
          BY <1>3
        <4> QED
          BY <1>5, <1>12, <4>1 DEF Peak
      <3> QED
        BY <1>6, <2>4, <3>2, <3>3
    <2>7. Agree(mode, h, u.prd, r.prd)
      BY <1>5, <2>1, <2>5 DEF Agree
    <2>8. Top(u, h) = 0
      BY <1>8, <1>12, <2>1
    <2> QED
      BY <2>1, <2>6, <2>7, <2>8
  <1>10. /\ match <=> peak
         /\ Agree(mode, h, u.prd, r.prd) /\ (Top(u, h) > 0 => Moved_)
    <2>1. top = 0 \/ top > 0
      BY <1>3
    <2> HIDE DEF Moved_, peak
    <2> QED
      BY <1>9, <1>12, <2>1
  <1>11. v.fires = IF h \in u.enabled THEN Cardinality(PeaksSince(u, h, v, n + 1)) ELSE 0
    <2>1. PeaksSince(u, h, v, n + 1) = PeaksSince(t, h, pl, n + 1)
      BY <1>1 DEF PeaksSince
    <2>2. /\ Cardinality(PeaksSince(t, h, pl, n)) \in Nat
          /\ Cardinality(PeaksSince(t, h, pl, n + 1)) =
                Cardinality(PeaksSince(t, h, pl, n)) + (IF peak THEN 1 ELSE 0)
      <3>1. n \in Nat /\ pl.from <= n
        BY <1>1
      <3>2. CountsPeak(t, h, pl, n)
        BY <3>1, OneMorePeak
      <3>3. peak <=> AtPeak(t.mode, t.psc, t.kind, t.rel, h, pl.prd, n + 1)
        BY <1>1, <1>6
      <3> HIDE DEF peak
      <3> QED
        BY <3>2, <3>3 DEF CountsPeak
    <2>3. pl.fires = IF h \in u.enabled THEN Cardinality(PeaksSince(t, h, pl, n)) ELSE 0
      BY <1>1 DEF Stands
    <2> HIDE DEF peak
    <2> QED
      BY <1>1, <1>10, <2>1, <2>2, <2>3
  <1> QED
    BY <1>1, <1>6, <1>7, <1>10, <1>11 DEF Stands

(* It has not been counted. *)
Still(t, u, h) ==
    /\ At(u, h) = At(t, h) /\ Sub(u, h) = Sub(t, h) /\ Agree(t.mode, h, u.prd, t.prd)

(* The same, of a zero period too. *)
LEMMA CounterCounts ==
    ASSUME NEW t, NEW u, NEW h \in Live(t.mode), SetUp(t), Alike(u, t), NEW pl \in Places,
           NEW v \in Places, NEW match, Counts(t, u, h, match), Counter(t, h, pl),
           v.from = pl.from, v.prd = pl.prd, v.ran = pl.ran + 1,
           v.fires = pl.fires + (IF match /\ h \in t.enabled THEN 1 ELSE 0)
    PROVE  Counter(u, h, v)
  <1>1. Fits(t, h) /\ Fits(u, h)
    BY DEF Counter, Counts
  <1>2. pl.from \in Nat /\ pl.ran \in Nat /\ pl.fires \in Nat
    BY DEF Places
  <1>3. PICK n \in Nat : n = pl.from + pl.ran /\ pl.from <= n /\ n + 1 = v.from + v.ran
    BY <1>2
  <1>4. CASE Zero(t, h, pl)
    <2>1. Top(t, h) = 0 /\ pl.fires = 0 /\ Zero(u, h, v)
      BY <1>4 DEF Counter, Zero, Alike
    <2>3. ~match /\ Agree(t.mode, h, u.prd, t.prd)
      BY <2>1 DEF Counts
    <2>4. Top(u, h) = 0
      <3>1. t.mode \in Modes /\ u.mode = t.mode
        BY DEF SetUp, Alike
      <3> QED
        BY <2>1, <2>3, <3>1, Agreed DEF Top
    <2> QED
      BY <1>1, <1>2, <2>1, <2>3, <2>4 DEF Counter
  <1>5. CASE ~Zero(t, h, pl)
    <2>1. PICK s : s = Displayed(t.mode, t.psc, t.kind, t.rel, h, pl.prd, n)
      OBVIOUS
    <2>2. Stands(t, h, pl, n, s)
      BY <1>3, <1>5, <2>1 DEF Counter
    <2>3. Stands(u, h, v, n + 1, Displayed(u.mode, u.psc, u.kind, u.rel, h, v.prd, n + 1))
      BY <1>1, <1>3, <2>1, <2>2, StandsOn
    <2>4. ~Zero(u, h, v)
      BY <1>5 DEF Zero, Alike
    <2> QED
      BY <1>1, <1>3, <2>3, <2>4 DEF Counter
  <1> QED
    BY <1>4, <1>5

(* A counter that is not counted keeps its period, and so where it stands. *)
LEMMA StillFits ==
    ASSUME NEW t, NEW u, NEW h \in Live(t.mode), SetUp(t), Alike(u, t), Still(t, u, h)
    PROVE  Top(u, h) = Top(t, h) /\ Size(u, h) = Size(t, h)
  <1>1. t.mode \in Modes /\ u.mode = t.mode /\ u.psc = t.psc
    BY DEF SetUp, Alike
  <1>2. Agree(t.mode, h, u.prd, t.prd)
    BY DEF Still
  <1> QED
    BY <1>1, <1>2, Agreed DEF Top, Size

(* It stands where it stood. *)
LEMMA CounterStill ==
    ASSUME NEW t, NEW u, NEW h \in Live(t.mode), SetUp(t), Alike(u, t), NEW pl \in Places,
           Still(t, u, h), Counter(t, h, pl)
    PROVE  Counter(u, h, pl)
  <1>1. Top(u, h) = Top(t, h) /\ Size(u, h) = Size(t, h)
    BY StillFits
  <1>2. Fits(u, h)
    BY <1>1 DEF Counter, Fits, Still
  <1>3. Zero(u, h, pl) <=> Zero(t, h, pl)
    BY DEF Zero, Alike
  <1>4. ASSUME Zero(t, h, pl)  PROVE Top(u, h) = 0 /\ pl.fires = 0
    BY <1>1, <1>4 DEF Counter
  <1>5. ASSUME ~Zero(t, h, pl), NEW n, NEW s, Stands(t, h, pl, n, s) PROVE Stands(u, h, pl, n, s)
    <2>1. PeaksSince(u, h, pl, n) = PeaksSince(t, h, pl, n)
      BY DEF PeaksSince, Alike
    <2>2. Agree(u.mode, h, u.prd, s.prd)
      BY <1>5 DEF Stands, Still, Agree, Alike
    <2> QED
      BY <1>1, <1>5, <2>1, <2>2 DEF Stands, Still, Alike
  <1>6. ASSUME NEW n
        PROVE  Displayed(u.mode, u.psc, u.kind, u.rel, h, pl.prd, n)
               = Displayed(t.mode, t.psc, t.kind, t.rel, h, pl.prd, n)
    BY DEF Alike
  <1>7. CASE Zero(t, h, pl)
    BY <1>2, <1>3, <1>4, <1>7 DEF Counter
  <1>8. CASE ~Zero(t, h, pl)
    <2>1. PICK n : n = pl.from + pl.ran
      OBVIOUS
    <2>2. PICK s : s = Displayed(t.mode, t.psc, t.kind, t.rel, h, pl.prd, n)
      OBVIOUS
    <2>3. Stands(u, h, pl, n, s)
      BY <1>5, <1>8, <2>1, <2>2 DEF Counter
    <2> QED
      BY <1>2, <1>3, <1>6, <1>8, <2>1, <2>2, <2>3 DEF Counter
  <1> QED
    BY <1>7, <1>8

(* Where a counter stands, as a number of clocks. *)
LEMMA Phases ==
    ASSUME NEW t, NEW h \in Live(t.mode), SetUp(t), Fits(t, h)
    PROVE  Phase(t, h) = At(t, h) * Size(t, h) + Sub(t, h) /\ Phase(t, h) \in Nat
  <1>1. PICK mode \in Modes, c \in Nat, b \in Nat :
           mode = t.mode /\ c = At(t, h) /\ b = Sub(t, h) /\ t.psc \in Nat /\ h \in Halves
    BY DEF SetUp, Fits, Live, Halves
  <1>2. Size(t, h) \in Nat
    BY <1>1, Lengths DEF SetUp, Size
  <1>3. c * Size(t, h) \in Nat
    BY <1>2, Products
  <1>4. c * 1 = c /\ c + 0 = c
    OBVIOUS
  <1>5. CASE mode = "whole"
    BY <1>1, <1>4, <1>5 DEF Phase, At, Sub, Size, StepSize
  <1>6. CASE mode = "chained"
    BY <1>1, <1>3, <1>6 DEF Phase, At, Sub, Size, StepSize, Live
  <1>7. CASE mode = "dual" /\ h = "34"
    BY <1>1, <1>3, <1>7 DEF Phase, At, Sub, Size, StepSize, Live
  <1>8. CASE mode = "dual" /\ h = "12"
    BY <1>1, <1>4, <1>8 DEF Phase, At, Sub, Size, StepSize, Live
  <1> QED
    BY <1>1, <1>5, <1>6, <1>7, <1>8 DEF Modes, Halves

(* Set, it stands there. *)
LEMMA CounterSet ==
    ASSUME NEW t, NEW h \in Live(t.mode), SetUp(t), Fits(t, h), NEW pl \in Places,
           pl.from = Phase(t, h), pl.prd = t.prd, pl.ran = 0, pl.fires = 0
    PROVE  Counter(t, h, pl)
  <1>1. CASE Zero(t, h, pl)
    BY <1>1 DEF Zero, Counter, Top
  <1>2. CASE ~Zero(t, h, pl)
    <2>1. PICK mode \in Modes, psc \in Nat, kind \in 1..3, rel \in Pairs, p \in Pairs :
             mode = t.mode /\ psc = t.psc /\ kind = t.kind /\ rel = t.rel /\ p = t.prd /\ h \in Halves
      BY DEF SetUp, Live, Halves
    <2>2. PICK c \in Nat, b \in Nat, top \in Nat, size \in Nat :
             /\ c = At(t, h) /\ b = Sub(t, h) /\ top = Top(t, h) /\ size = Size(t, h)
             /\ top = Last(mode, h, p) /\ size = StepSize(mode, psc, h, p)
             /\ c <= top /\ b < size /\ size > 0
      <3>1. Last(mode, h, p) \in Nat /\ StepSize(mode, psc, h, p) \in Nat /\ StepSize(mode, psc, h, p) > 0
        BY <2>1, Lengths
      <3> QED
        BY <2>1, <3>1 DEF Fits, Top, Size
    <2>3. PICK x \in Nat, y \in Nat :
             /\ x = c * size /\ y = top * size
             /\ c < top => x + size <= y
             /\ c = top => x = y
      <3>1. /\ c * size \in Nat /\ top * size \in Nat
            /\ c < top => c * size + size <= top * size
            /\ c = top => c * size = top * size
        BY <2>2, Within
      <3> QED
        BY <3>1
    <2>4. PICK n \in Nat : n = x + b /\ n = Phase(t, h) /\ n = pl.from + pl.ran /\ pl.from = n
      <3>1. Phase(t, h) = x + b
        BY <2>2, <2>3, Phases, Zenon
      <3> QED
        BY <3>1
    <2>5. Last(mode, h, p) > 0
      BY <1>2, <2>1, <2>2 DEF Zero
    <2>6. PICK s : s = Displayed(mode, psc, kind, rel, h, p, n)
      OBVIOUS
    <2>7. s.prd = p /\ (IF kind = 1 /\ n > y THEN c = top ELSE s.into = n)
      <3>1. CASE kind = 1
        <4>1. Displayed(mode, psc, 1, rel, h, p, n) = [prd |-> p, into |-> IF n > y THEN y ELSE n]
          BY <2>1, <2>2, <2>3, DisplayOnce
        <4>2. n > y => c = top
          <5>1. c < top => x + size <= y
            BY <2>3
          <5>2. n = x + b /\ b < size /\ c <= top
            BY <2>2, <2>4
          <5> QED
            BY <5>1, <5>2
        <4> QED
          BY <2>6, <3>1, <4>1, <4>2
      <3>2. CASE kind # 1
        <4>1. Length(mode, psc, h, p) = y + size
          BY <2>1, <2>2, <2>3, Lengths
        <4>2. n < y + size
          BY <2>2, <2>3, <2>4
        <4>3. n < Length(mode, psc, h, p) /\ kind \in {2, 3}
          BY <3>2, <4>1, <4>2
        <4>4. Displayed(mode, psc, kind, rel, h, p, n) = [prd |-> p, into |-> n]
          BY <2>1, <4>3, DisplayFirst
        <4> QED
          BY <2>6, <3>2, <4>4
      <3> QED
        BY <3>1, <3>2
    <2>8. Cardinality(PeaksSince(t, h, pl, n)) = 0
      <3>1. pl.from + 1..n = {}
        BY <2>4
      <3>2. PeaksSince(t, h, pl, n) = {}
        BY <3>1 DEF PeaksSince
      <3> QED
        BY <3>2, FS_EmptySet
    <2>9. Agree(t.mode, h, t.prd, s.prd)
      BY <2>1, <2>7 DEF Agree
    <2>10. Stands(t, h, pl, n, s)
      BY <2>1, <2>2, <2>3, <2>4, <2>5, <2>7, <2>8, <2>9 DEF Stands
    <2> QED
      BY <1>2, <2>1, <2>4, <2>6, <2>10, Zenon DEF Counter
  <1> QED
    BY <1>1, <1>2

(* Standing there is what CountExact asks. *)
LEMMA CounterShows ==
    ASSUME NEW t, NEW h \in Live(t.mode), SetUp(t), NEW pl \in Places, Counter(t, h, pl),
           ~Zero(t, h, pl),
           NEW n, n = pl.from + pl.ran,
           NEW s, s = Displayed(t.mode, t.psc, t.kind, t.rel, h, pl.prd, n)
    PROVE  /\ At(t, h) = s.into \div StepSize(t.mode, t.psc, h, s.prd)
           /\ pl.fires = IF h \in t.enabled THEN Cardinality(PeaksSince(t, h, pl, n)) ELSE 0
  <1>1. Stands(t, h, pl, n, s) /\ Fits(t, h)
    BY DEF Counter
  <1>2. PICK mode \in Modes, psc \in Nat, kind \in 1..3, rel \in Pairs, p \in Pairs :
           mode = t.mode /\ psc = t.psc /\ kind = t.kind /\ rel = t.rel /\ p = pl.prd /\ h \in Halves
           /\ t.prd \in Pairs
    BY DEF SetUp, Live, Halves, Places
  <1>3. s.prd \in Pairs
    BY <1>2 DEF Displayed
  <1>4. PICK c \in Nat, b \in Nat, top \in Nat, size \in Nat :
           /\ c = At(t, h) /\ b = Sub(t, h) /\ top = Top(t, h) /\ size = Size(t, h)
           /\ top = Last(mode, h, s.prd) /\ size = StepSize(mode, psc, h, s.prd)
           /\ c <= top /\ b < size /\ size > 0
    <2>1. Last(mode, h, t.prd) \in Nat /\ StepSize(mode, psc, h, t.prd) \in Nat
          /\ StepSize(mode, psc, h, t.prd) > 0
      BY <1>2, Lengths
    <2>2. Agree(mode, h, t.prd, s.prd)
      BY <1>1, <1>2 DEF Stands
    <2>3. /\ Last(mode, h, t.prd) = Last(mode, h, s.prd)
          /\ StepSize(mode, psc, h, t.prd) = StepSize(mode, psc, h, s.prd)
      BY <1>2, <2>2, Agreed
    <2> QED
      BY <1>1, <1>2, <2>1, <2>3 DEF Fits, Top, Size
  <1>5. PICK x \in Nat, y \in Nat : x = c * size /\ y = top * size
    BY <1>4, Products
  <1>6. pl.from \in Nat /\ pl.ran \in Nat /\ n \in Nat
    BY DEF Places
  <1>7. s.into \div size = c
    <2>0. CASE top = 0
      <3>1. s.prd # p
        <4>1. Last(mode, h, p) > 0
          BY <1>1, <1>2 DEF Stands
        <4> QED
          BY <1>4, <2>0, <4>1
      <3>2. kind \in {2, 3}
        BY <1>2, <3>1 DEF Displayed
      <3>3. s.into \in Nat /\ s.into < Length(mode, psc, h, s.prd)
        <4>1. s = Displayed(mode, psc, kind, rel, h, p, n)
          BY <1>2
        <4>2. p \in Pairs /\ rel \in Pairs /\ mode \in Modes /\ psc \in Nat /\ h \in Halves /\ n \in Nat
          BY <1>2, <1>6
        <4>3. PICK k \in {2, 3} : k = kind
          BY <3>2
        <4>4. PICK d : d = Displayed(mode, psc, k, rel, h, p, n)
          OBVIOUS
        <4>5. d.into \in Nat /\ d.into < Length(mode, psc, h, d.prd)
          BY <4>2, <4>3, <4>4, DisplayNext
        <4>6. d = s
          BY <4>1, <4>3, <4>4
        <4> QED
          BY <4>5, <4>6
      <3>4. Length(mode, psc, h, s.prd) = 0 * size + size /\ 0 * size = 0
        BY <1>2, <1>3, <1>4, <2>0, Lengths
      <3>5. c = 0 /\ s.into < size /\ s.into = 0 * size + s.into
        <4>1. c = 0
          BY <1>4, <2>0
        <4>2. PICK len : len = Length(mode, psc, h, s.prd) /\ len = size /\ s.into < len
          BY <3>3, <3>4
        <4>3. PICK m \in Nat : m = s.into /\ m < size
          BY <3>3, <4>2
        <4> QED
          BY <3>4, <4>1, <4>3
      <3>6. PICK m \in Nat : m = s.into
        BY <3>3
      <3>7. m < size /\ m = 0 * size + m /\ 0 \in Nat /\ size > 0
        BY <1>4, <3>5, <3>6
      <3>8. m \div size = 0
        BY <3>7, Divided
      <3> QED
        BY <3>5, <3>6, <3>8
    <2>1. CASE top > 0 /\ kind = 1 /\ n > y
      <3>1. c = top
        BY <1>1, <1>2, <1>4, <1>5, <2>1 DEF Stands
      <3>2. s.into = y
        <4>1. s.prd = p
          BY <1>2, <2>1 DEF Displayed
        <4>2. Displayed(mode, psc, 1, rel, h, p, n) = [prd |-> p, into |-> IF n > y THEN y ELSE n]
          BY <1>2, <1>4, <1>5, <1>6, <4>1, DisplayOnce
        <4> QED
          BY <1>2, <2>1, <4>2
      <3>3. s.into = c * size + 0 /\ s.into \in Nat
        BY <1>5, <3>1, <3>2
      <3> QED
        BY <1>4, <3>3, Divided, SMTT(40)
    <2>2. CASE top > 0 /\ ~(kind = 1 /\ n > y)
      <3>1. s.into = c * size + b
        BY <1>1, <1>2, <1>4, <1>5, <2>2 DEF Stands
      <3>2. s.into \in Nat
        BY <1>5, <3>1
      <3> QED
        BY <1>4, <3>1, <3>2, Divided
    <2> QED
      BY <1>4, <2>0, <2>1, <2>2
  <1> QED
    BY <1>1, <1>2, <1>4, <1>7 DEF Stands

Tims == [mode : Modes, psc : Nat, tddr : Nat, kind : 1..3, count : Pairs, prd : Pairs,
         rel : Pairs, cap : Pairs, enamode : [Halves -> 0..3], out : SUBSET Halves,
         external : BOOLEAN, shadow : Word \cup {None}, readReset : SUBSET Halves,
         enabled : SUBSET Halves, status : SUBSET Halves]

(* A timer as the program sets it up. *)
Timely(t) ==
    /\ t \in Tims
    /\ \A h \in Halves : t.enamode[h] \in {0, t.kind}

(* What a clock leaves alone. *)
Kept(u, t) ==
    /\ u.mode = t.mode /\ u.psc = t.psc /\ u.kind = t.kind /\ u.rel = t.rel /\ u.cap = t.cap
    /\ u.enamode = t.enamode /\ u.out = t.out /\ u.external = t.external /\ u.shadow = t.shadow
    /\ u.readReset = t.readReset /\ u.enabled = t.enabled /\ u.status = t.status

(* As SetUp has it. *)
LEMMA TimelySetUp ==
    ASSUME NEW t, Timely(t)
    PROVE  SetUp(t)
  BY DEF Timely, SetUp, Tims

Onward(count, prd, rel, e, a) ==
    /\ a.count \in Nat /\ a.count <= prd /\ a.prd \in {prd, rel} /\ a.count <= a.prd
    /\ e = 0 => a.count = count /\ a.prd = prd /\ ~a.match
    /\ e # 0 => IF prd = 0 THEN a.count = count /\ a.prd = prd /\ ~a.match
                ELSE IF count < prd
                THEN a.count = count + 1 /\ a.prd = prd /\ (a.match <=> count + 1 = prd)
                ELSE IF e = 1 THEN a.count = count /\ a.prd = prd /\ ~a.match
                ELSE a.count = 0 /\ a.prd = (IF e = 3 THEN rel ELSE prd) /\ ~a.match
Counted(count, prd, rel, e) ==
    count \in Nat /\ prd \in Nat /\ rel \in Nat /\ e \in 0..3 /\ count <= prd

(* advance: one step on, within the period, or the return from it. *)
LEMMA AdvanceGoes ==
    ASSUME NEW count \in Nat, NEW prd \in Nat, NEW rel \in Nat, NEW e \in 0..3, count <= prd
    PROVE  Onward(count, prd, rel, e, Advance(count, prd, rel, e))
  <1>1. PICK a : a = Advance(count, prd, rel, e)
    OBVIOUS
  <1>2. SUFFICES
         /\ a.count \in Nat /\ a.count <= prd /\ a.prd \in {prd, rel} /\ a.count <= a.prd
         /\ e = 0 => a.count = count /\ a.prd = prd /\ ~a.match
         /\ e # 0 => IF prd = 0 THEN a.count = count /\ a.prd = prd /\ ~a.match
                     ELSE IF count < prd
                     THEN a.count = count + 1 /\ a.prd = prd /\ (a.match <=> count + 1 = prd)
                     ELSE IF e = 1 THEN a.count = count /\ a.prd = prd /\ ~a.match
                     ELSE a.count = 0 /\ a.prd = (IF e = 3 THEN rel ELSE prd) /\ ~a.match
    BY <1>1 DEF Onward
  <1>3. CASE e = 0 \/ prd = 0
    <2>1. a = [count |-> count, prd |-> prd, match |-> FALSE]
      BY <1>1, <1>3 DEF Advance
    <2>2. a.count = count /\ a.prd = prd /\ ~a.match
      BY <2>1
    <2> QED
      BY <1>3, <2>2
  <1>4. CASE ~(e = 0 \/ prd = 0) /\ count = prd /\ e = 1
    <2>1. a = [count |-> count, prd |-> prd, match |-> FALSE]
      BY <1>1, <1>4 DEF Advance
    <2>2. a.count = count /\ a.prd = prd /\ ~a.match
      BY <2>1
    <2> QED
      BY <1>4, <2>2
  <1>5. CASE ~(e = 0 \/ prd = 0) /\ count = prd /\ e # 1
    <2>1. a = [count |-> 0, prd |-> IF e = 3 THEN rel ELSE prd, match |-> FALSE]
      BY <1>1, <1>5 DEF Advance
    <2>2. a.count = 0 /\ a.prd = (IF e = 3 THEN rel ELSE prd) /\ ~a.match
      BY <2>1
    <2> QED
      BY <1>5, <2>2
  <1>6. CASE ~(e = 0 \/ prd = 0) /\ count # prd
    <2>1. a = [count |-> count + 1, prd |-> prd, match |-> count + 1 = prd]
      BY <1>1, <1>6 DEF Advance
    <2>2. a.match <=> count + 1 = prd
      <3>1. PICK found \in BOOLEAN : found <=> count + 1 = prd
        BY Zenon
      <3>2. a = [count |-> count + 1, prd |-> prd, match |-> found]
        BY <2>1, <3>1
      <3> QED
        BY <3>1, <3>2
    <2>3. a.count = count + 1 /\ a.prd = prd
      BY <2>1
    <2>4. count < prd /\ e # 0 /\ prd # 0
      BY <1>6
    <2> QED
      BY <2>2, <2>3, <2>4
  <1> QED
    BY <1>1, <1>3, <1>4, <1>5, <1>6

(* The same, with its conditions named. *)
LEMMA CountsOnward ==
    ASSUME NEW count, NEW prd, NEW rel, NEW e, Counted(count, prd, rel, e)
    PROVE  Onward(count, prd, rel, e, Advance(count, prd, rel, e))
  BY AdvanceGoes DEF Counted

(* A word is kept in a register as it is. *)
LEMMA OneWord ==
    ASSUME NEW c \in Nat, c < Width
    PROVE  c % Width = c
  <1>1. Width \in Nat /\ Width > 0
    BY DspTimerAssumption
  <1>2. c = 0 * Width + c /\ 0 \in Nat
    BY <1>1
  <1> QED
    BY <1>1, <1>2, Divided

(* One half counted. *)
Halved(t, h, e) == t \in Tims /\ h \in Halves /\ e \in 0..3 /\ t.count[h] <= t.prd[h]
CountedTo(u, t, h, a) ==
    /\ u \in Tims /\ Kept(u, t) /\ u.tddr = t.tddr
    /\ u.count = [t.count EXCEPT ![h] = a.count] /\ u.prd = [t.prd EXCEPT ![h] = a.prd]

LEMMA HalfCounted ==
    ASSUME NEW t, NEW h, NEW e, Halved(t, h, e)
    PROVE  CountedTo(CountedOn(t, h, e), t, h, Advance(t.count[h], t.prd[h], t.rel[h], e))
  <1>a. t \in Tims /\ h \in Halves /\ e \in 0..3 /\ t.count[h] <= t.prd[h]
    BY DEF Halved
  <1>b. PICK a : a = Advance(t.count[h], t.prd[h], t.rel[h], e)
    OBVIOUS
  <1>1. t.count \in Pairs /\ t.prd \in Pairs /\ t.rel \in Pairs
    BY <1>a DEF Tims
  <1>2. t.count[h] \in Word /\ t.prd[h] \in Word /\ t.rel[h] \in Word
    BY <1>1, <1>a DEF Pairs
  <1>3. \A w \in Word : w \in Nat /\ w < Width
    BY DspTimerAssumption DEF Word
  <1>4. a.count \in Nat /\ a.count <= t.prd[h] /\ a.prd \in {t.prd[h], t.rel[h]}
    <2>1. Counted(t.count[h], t.prd[h], t.rel[h], e)
      BY <1>2, <1>3, <1>a DEF Counted
    <2> QED
      BY <1>b, <2>1, CountsOnward DEF Onward
  <1>5. a.count \in Word /\ a.prd \in Word
    BY <1>2, <1>3, <1>4, DspTimerAssumption DEF Word
  <1>6. a.count % Width = a.count
    <2>1. PICK c \in Nat : c = a.count /\ c < Width
      BY <1>3, <1>4, <1>5
    <2>2. c % Width = c
      BY <2>1, OneWord
    <2> QED
      BY <2>1, <2>2
  <1>7. CountedOn(t, h, e) = [t EXCEPT !.count = [@ EXCEPT ![h] = a.count],
                                       !.prd = [@ EXCEPT ![h] = a.prd]]
    BY <1>6, <1>b, Zenon DEF CountedOn
  <1>8. /\ [t.count EXCEPT ![h] = a.count] \in Pairs /\ [t.prd EXCEPT ![h] = a.prd] \in Pairs
    BY <1>1, <1>5, <1>a DEF Pairs
  <1> QED
    BY <1>5, <1>7, <1>8, <1>a, <1>b, Zenon DEF Tims, Kept, CountedTo

(* What a clock did to a half. *)
Tick(t, k, h) ==
    IF h \in k.ran THEN Counts(t, k.after, h, h \in k.fired)
    ELSE Still(t, k.after, h) /\ h \notin k.fired

(* A half of its own. *)
LEMMA DualHalf ==
    ASSUME NEW t \in Tims, t.mode = "dual", NEW h \in Halves, t.count[h] <= t.prd[h],
           t.enamode[h] = t.kind,
           NEW a, a = Advance(t.count[h], t.prd[h], t.rel[h], t.enamode[h]),
           NEW u \in Tims, Kept(u, t), u.count[h] = a.count, u.prd[h] = a.prd,
           Sub(u, h) = 0, Sub(t, h) + 1 = Size(t, h)
    PROVE  Counts(t, u, h, a.match)
  <1>1. /\ t.count[h] \in Nat /\ t.prd[h] \in Nat /\ t.rel[h] \in Nat /\ t.psc \in Nat
        /\ t.kind \in 1..3
    BY DspTimerAssumption DEF Tims, Pairs, Word
  <1>2. PICK count \in Nat, prd \in Nat, rel \in Nat, e \in 1..3 :
           count = t.count[h] /\ prd = t.prd[h] /\ rel = t.rel[h] /\ e = t.kind /\ count <= prd
    BY <1>1
  <1>3. /\ a.count \in Nat /\ a.prd \in Nat /\ a.count <= a.prd
        /\ IF prd = 0 THEN a.count = count /\ a.prd = prd /\ ~a.match
           ELSE IF count < prd
           THEN a.count = count + 1 /\ a.prd = prd /\ (a.match <=> count + 1 = prd)
           ELSE IF e = 1 THEN a.count = count /\ a.prd = prd /\ ~a.match
           ELSE a.count = 0 /\ a.prd = (IF e = 3 THEN rel ELSE prd) /\ ~a.match
    <2>1. e \in 0..3 /\ e # 0 /\ a = Advance(count, prd, rel, e) /\ Counted(count, prd, rel, e)
      BY <1>2 DEF Counted
    <2>2. Onward(count, prd, rel, e, a)
      BY <2>1, CountsOnward
    <2>3. a.prd \in Nat
      BY <1>2, <2>2 DEF Onward
    <2> QED
      BY <2>1, <2>2, <2>3 DEF Onward
  <1>4. /\ At(t, h) = count /\ Top(t, h) = prd /\ At(u, h) = a.count /\ Top(u, h) = a.prd
        /\ Size(u, h) = Size(t, h) /\ Size(u, h) \in Nat /\ Size(u, h) > 0
    BY <1>1, <1>2 DEF At, Top, Last, Size, StepSize, Kept
  <1>5. Fits(u, h)
    BY <1>3, <1>4 DEF Fits
  <1>6. ~(Sub(t, h) + 1 < Size(t, h))
    BY <1>4
  <1>7. /\ Agree(t.mode, h, u.prd, t.prd) <=> a.prd = prd
        /\ Agree(t.mode, h, u.prd, Follows(t.kind, t.rel, t.prd)) <=> a.prd = (IF e = 3 THEN rel ELSE prd)
    BY <1>2 DEF Agree, Follows
  <1>8. CASE prd = 0
    BY <1>3, <1>4, <1>5, <1>7, <1>8 DEF Counts
  <1>9. CASE prd # 0 /\ count < prd
    BY <1>3, <1>4, <1>5, <1>6, <1>7, <1>9 DEF Counts
  <1>10. CASE prd # 0 /\ ~(count < prd) /\ e = 1
    BY <1>2, <1>3, <1>4, <1>5, <1>6, <1>7, <1>10 DEF Counts
  <1>11. CASE prd # 0 /\ ~(count < prd) /\ e # 1
    BY <1>2, <1>3, <1>4, <1>5, <1>6, <1>7, <1>11 DEF Counts
  <1> QED
    BY <1>8, <1>9, <1>10, <1>11

(* tick_one, two counters: each half counts by itself, the high one with its *)
(* prescaler.                                                                *)
LEMMA DualTicks ==
    ASSUME NEW t, Timely(t), t.mode = "dual", \A h \in Halves : Fits(t, h), NEW k, k = Dual(t)
    PROVE  k.after \in Tims /\ Kept(k.after, t) /\ \A h \in Halves : Tick(t, k, h)
  <1> DEFINE runs12 == "12" \in t.out /\ Clocked(t, "12")
             runs34 == "34" \in t.out /\ Clocked(t, "34") /\ t.enamode["34"] # 0
             low == IF runs12 THEN CountedOn(t, "12", t.enamode["12"]) ELSE t
             scaled == runs34 /\ t.tddr = t.psc
             both == IF scaled THEN CountedOn(low, "34", t.enamode["34"]) ELSE low
             u == [both EXCEPT !.tddr = IF ~runs34 THEN @ ELSE IF scaled THEN 0 ELSE @ + 1]
  <1>1. /\ k.after = u
        /\ k.fired = {h \in Halves : /\ h = "12" => runs12
                                     /\ h = "34" => scaled
                                     /\ Matches(t, h, t.enamode[h])}
        /\ k.ran = {h \in Halves : /\ h = "12" => runs12 /\ t.enamode["12"] # 0
                                   /\ h = "34" => runs34}
    BY DEF Dual
  <1>2. t \in Tims /\ "12" \in Halves /\ "34" \in Halves /\ t.tddr \in Nat /\ t.psc \in Nat
        /\ \A h \in Halves : t.enamode[h] \in {0, t.kind} /\ t.enamode[h] \in 0..3
    BY DEF Timely, Tims, Halves
  <1>3. /\ \A h \in Halves : t.count[h] <= t.prd[h] /\ t.count[h] \in Nat /\ At(t, h) = t.count[h]
        /\ t.tddr <= t.psc
        /\ Sub(t, "12") = 0 /\ Size(t, "12") = 1 /\ Sub(t, "34") = t.tddr /\ Size(t, "34") = t.psc + 1
    <2>1. \A h \in Halves : At(t, h) <= Top(t, h) /\ At(t, h) \in Nat /\ Sub(t, h) < Size(t, h)
      BY DEF Fits
    <2>2. Sub(t, "12") = 0 /\ Size(t, "12") = 1 /\ Sub(t, "34") = t.tddr /\ Size(t, "34") = t.psc + 1
      BY DEF Sub, Size, StepSize
    <2> QED
      BY <1>2, <2>1, <2>2 DEF At, Top, Last
  <1>4. PICK a : a = Advance(t.count["12"], t.prd["12"], t.rel["12"], t.enamode["12"])
    OBVIOUS
  <1>5. PICK z : z = Advance(t.count["34"], t.prd["34"], t.rel["34"], t.enamode["34"])
    OBVIOUS
  <1>6. /\ low \in Tims /\ Kept(low, t) /\ low.tddr = t.tddr
        /\ low.count["34"] = t.count["34"] /\ low.prd["34"] = t.prd["34"]
        /\ runs12 => low.count["12"] = a.count /\ low.prd["12"] = a.prd
        /\ ~runs12 => low = t
    <2>1. CASE runs12
      <3>1. CountedTo(CountedOn(t, "12", t.enamode["12"]), t, "12", a)
        <4>1. Halved(t, "12", t.enamode["12"])
          BY <1>2, <1>3 DEF Halved
        <4> QED
          BY <1>4, <4>1, HalfCounted
      <3>2. low = CountedOn(t, "12", t.enamode["12"])
        BY <2>1
      <3>3. DOMAIN t.count = Halves /\ DOMAIN t.prd = Halves
        BY <1>2 DEF Tims, Pairs
      <3> HIDE DEF low, runs12
      <3> QED
        BY <1>2, <2>1, <3>1, <3>2, <3>3 DEF CountedTo
    <2>2. CASE ~runs12
      BY <1>2, <2>2 DEF Kept
    <2> QED
      BY <2>1, <2>2
  <1>7. /\ both \in Tims /\ Kept(both, t) /\ both.tddr = t.tddr
        /\ both.count["12"] = low.count["12"] /\ both.prd["12"] = low.prd["12"]
        /\ scaled => both.count["34"] = z.count /\ both.prd["34"] = z.prd
        /\ ~scaled => both = low
    <2> HIDE DEF low
    <2>1. CASE scaled
      <3>1. low.count["34"] <= low.prd["34"] /\ low.rel = t.rel
        BY <1>2, <1>3, <1>6 DEF Kept
      <3>2. z = Advance(low.count["34"], low.prd["34"], low.rel["34"], t.enamode["34"])
        BY <1>5, <1>6, <3>1
      <3>3. CountedTo(CountedOn(low, "34", t.enamode["34"]), low, "34", z)
        <4>1. Halved(low, "34", t.enamode["34"])
          BY <1>2, <1>6, <3>1 DEF Halved
        <4> QED
          BY <3>2, <4>1, HalfCounted
      <3>4. both = CountedOn(low, "34", t.enamode["34"])
        BY <2>1
      <3>5. DOMAIN low.count = Halves /\ DOMAIN low.prd = Halves
        BY <1>6 DEF Tims, Pairs
      <3>6. Kept(both, t)
        BY <1>6, <3>3, <3>4 DEF Kept, CountedTo
      <3> HIDE DEF both, scaled
      <3> QED
        BY <1>2, <1>6, <2>1, <3>3, <3>4, <3>5, <3>6 DEF CountedTo
    <2>2. CASE ~scaled
      <3>1. both = low
        BY <2>2
      <3> HIDE DEF both, scaled
      <3> QED
        BY <1>6, <2>2, <3>1
    <2> QED
      BY <2>1, <2>2
  <1>8. /\ u \in Tims /\ Kept(u, t) /\ u.count = both.count /\ u.prd = both.prd
        /\ u.tddr = IF ~runs34 THEN t.tddr ELSE IF scaled THEN 0 ELSE t.tddr + 1
    <2>1. PICK d \in Nat : d = IF ~runs34 THEN t.tddr ELSE IF scaled THEN 0 ELSE t.tddr + 1
      BY <1>2
    <2>2. u = [both EXCEPT !.tddr = d]
      BY <1>7, <2>1
    <2> HIDE DEF both, u, runs34, scaled
    <2> QED
      BY <1>7, <2>1, <2>2 DEF Tims, Kept
  <1> HIDE DEF low, both, u
  <1>9. Tick(t, k, "12")
    <2>1. Sub(u, "12") = 0 /\ At(u, "12") = u.count["12"]
      BY <1>8 DEF Sub, At, Kept
    <2>2. Matches(t, "12", t.enamode["12"]) <=> a.match
      BY <1>4 DEF Matches
    <2>3. CASE runs12 /\ t.enamode["12"] # 0
      <3>1. u.count["12"] = a.count /\ u.prd["12"] = a.prd
        BY <1>6, <1>7, <1>8, <2>3
      <3>2. t.enamode["12"] = t.kind
        BY <1>2, <2>3
      <3>3. Counts(t, u, "12", a.match)
        <4>1. t.count["12"] <= t.prd["12"] /\ Sub(t, "12") + 1 = Size(t, "12")
          BY <1>2, <1>3
        <4> QED
          BY <1>2, <1>4, <1>8, <2>1, <3>1, <3>2, <4>1, DualHalf
      <3>4. "12" \in k.ran /\ ("12" \in k.fired <=> a.match)
        BY <1>1, <1>2, <2>2, <2>3
      <3>5. Counts(t, u, "12", "12" \in k.fired)
        BY <3>3, <3>4 DEF Counts
      <3> QED
        BY <1>1, <3>4, <3>5 DEF Tick
    <2>4. CASE ~(runs12 /\ t.enamode["12"] # 0)
      <3>1. "12" \notin k.ran
        BY <1>1, <2>4
      <3>2. u.count["12"] = t.count["12"] /\ u.prd["12"] = t.prd["12"] /\ (runs12 => ~a.match)
        <4>1. CASE ~runs12
          BY <1>6, <1>7, <1>8, <4>1
        <4>2. CASE runs12
          <5>1. t.enamode["12"] = 0
            BY <2>4, <4>2
          <5>2. a = [count |-> t.count["12"], prd |-> t.prd["12"], match |-> FALSE]
            BY <1>4, <5>1 DEF Advance
          <5> QED
            BY <1>6, <1>7, <1>8, <4>2, <5>2
        <4> QED
          BY <4>1, <4>2
      <3>3. "12" \notin k.fired
        BY <1>1, <2>2, <3>2
      <3>4. Still(t, u, "12")
        BY <1>2, <1>3, <2>1, <3>2 DEF Still, Agree
      <3> QED
        BY <1>1, <3>1, <3>3, <3>4 DEF Tick
    <2> QED
      BY <2>3, <2>4
  <1>10. Tick(t, k, "34")
    <2>1. Sub(u, "34") = u.tddr /\ At(u, "34") = u.count["34"]
      BY <1>8 DEF Sub, At, Kept
    <2>2. Matches(t, "34", t.enamode["34"]) <=> z.match
      BY <1>5 DEF Matches
    <2>3. CASE scaled
      <3>1. u.count["34"] = z.count /\ u.prd["34"] = z.prd /\ u.tddr = 0
        BY <1>7, <1>8, <2>3
      <3>2. t.enamode["34"] = t.kind
        BY <1>2, <2>3
      <3>3. Counts(t, u, "34", z.match)
        <4>1. t.count["34"] <= t.prd["34"] /\ Sub(t, "34") + 1 = Size(t, "34") /\ Sub(u, "34") = 0
          BY <1>2, <1>3, <2>1, <2>3, <3>1
        <4> QED
          BY <1>2, <1>5, <1>8, <3>1, <3>2, <4>1, DualHalf
      <3>4. "34" \in k.ran /\ ("34" \in k.fired <=> z.match)
        BY <1>1, <1>2, <2>2, <2>3
      <3>5. Counts(t, u, "34", "34" \in k.fired)
        BY <3>3, <3>4 DEF Counts
      <3> QED
        BY <1>1, <3>4, <3>5 DEF Tick
    <2>4. CASE ~scaled
      <3>1. u.count["34"] = t.count["34"] /\ u.prd["34"] = t.prd["34"]
        BY <1>6, <1>7, <1>8, <2>4
      <3>2. "34" \notin k.fired
        BY <1>1, <2>4
      <3>3. At(u, "34") = At(t, "34") /\ Agree(t.mode, "34", u.prd, t.prd)
        BY <1>2, <1>3, <2>1, <3>1 DEF Agree
      <3>4. CASE runs34
        <4>1. u.tddr = t.tddr + 1 /\ t.tddr # t.psc
          BY <1>8, <2>4, <3>4
        <4>2. "34" \in k.ran
          BY <1>1, <1>2, <3>4
        <4>3. /\ Sub(u, "34") = Sub(t, "34") + 1 /\ Sub(t, "34") + 1 < Size(t, "34")
          BY <1>2, <1>3, <2>1, <4>1
        <4>4. Top(u, "34") = Top(t, "34") /\ Size(u, "34") = Size(t, "34")
          BY <1>8, <3>1 DEF Top, Last, Size, StepSize, Kept
        <4>5. Fits(u, "34")
          BY <1>2, <3>3, <4>3, <4>4 DEF Fits
        <4>6. Counts(t, u, "34", FALSE)
          BY <3>3, <4>3, <4>5 DEF Counts
        <4>7. Counts(t, u, "34", "34" \in k.fired)
          BY <3>2, <4>6 DEF Counts
        <4> QED
          BY <1>1, <4>2, <4>7 DEF Tick
      <3>5. CASE ~runs34
        <4>1. u.tddr = t.tddr /\ "34" \notin k.ran
          BY <1>1, <1>8, <3>5
        <4>2. Still(t, u, "34")
          BY <1>3, <2>1, <3>3, <4>1 DEF Still
        <4> QED
          BY <1>1, <3>2, <4>1, <4>2 DEF Tick
      <3> QED
        BY <3>4, <3>5
    <2> QED
      BY <2>3, <2>4
  <1> QED
    BY <1>1, <1>8, <1>9, <1>10 DEF Halves

(* tick_one, chained: the high half is the prescaler of the low one, and is *)
(* reloaded with it.                                                        *)
LEMMA ChainedTicks ==
    ASSUME NEW t, Timely(t), t.mode = "chained", Fits(t, "12"), t.enamode["12"] # 0,
           NEW k, k = Chained(t)
    PROVE  k.after \in Tims /\ Kept(k.after, t) /\ Tick(t, k, "12")
  <1> DEFINE reload == t.enamode["12"] = 3 /\ t.prd["12"] # 0 /\ t.count["12"] = t.prd["12"]
             scaled == t.count["34"] = t.prd["34"]
             u == k.after
  <1>1. /\ u = IF ~scaled THEN [t EXCEPT !.count["34"] = (@ + 1) % Width]
               ELSE [CountedOn(t, "12", t.enamode["12"]) EXCEPT
                            !.count["34"] = 0,
                            !.prd["34"] = IF reload THEN t.rel["34"] ELSE @]
        /\ k.fired = (IF scaled /\ Matches(t, "12", t.enamode["12"]) THEN {"12"} ELSE {})
        /\ k.ran = {"12"}
    BY DEF Chained
  <1>2. /\ t \in Tims /\ "12" \in Halves /\ "34" \in Halves /\ t.enamode["12"] = t.kind
        /\ t.kind \in 1..3 /\ t.count \in Pairs /\ t.prd \in Pairs /\ t.rel \in Pairs
    BY DEF Timely, Tims, Halves
  <1>3. PICK c \in Nat, b \in Nat, top \in Nat, last \in Nat :
           /\ c = t.count["12"] /\ b = t.count["34"] /\ top = t.prd["12"] /\ last = t.prd["34"]
           /\ c <= top /\ b <= last /\ last < Width
           /\ At(t, "12") = c /\ Sub(t, "12") = b /\ Top(t, "12") = top /\ Size(t, "12") = last + 1
    <2>1. /\ t.count["12"] \in Nat /\ t.count["34"] \in Nat /\ t.prd["12"] \in Nat
          /\ t.prd["34"] \in Nat /\ t.prd["34"] < Width
      BY <1>2, DspTimerAssumption DEF Pairs, Word
    <2>2. /\ At(t, "12") = t.count["12"] /\ Sub(t, "12") = t.count["34"]
          /\ Top(t, "12") = t.prd["12"] /\ Size(t, "12") = t.prd["34"] + 1
      BY DEF At, Sub, Top, Last, Size, StepSize
    <2>3. t.count["12"] <= t.prd["12"] /\ t.count["34"] < t.prd["34"] + 1
      BY <2>2 DEF Fits
    <2> QED
      BY <2>1, <2>2, <2>3
  <1>4. \A w : /\ w.mode = "chained" /\ w.psc = t.psc
               => /\ At(w, "12") = w.count["12"] /\ Sub(w, "12") = w.count["34"]
                  /\ Top(w, "12") = w.prd["12"] /\ Size(w, "12") = w.prd["34"] + 1
    BY DEF At, Sub, Top, Last, Size, StepSize
  <1>5. CASE ~scaled
    <2>1. b + 1 < Width /\ b < last
      BY <1>3, <1>5, DspTimerAssumption
    <2>2. (b + 1) % Width = b + 1
      <3>1. PICK d \in Nat : d = b + 1 /\ d < Width
        BY <2>1
      <3>2. d % Width = d
        BY <3>1, OneWord
      <3> QED
        BY <3>1, <3>2
    <2>3. u = [t EXCEPT !.count = [t.count EXCEPT !["34"] = b + 1]]
      <3>1. u = [t EXCEPT !.count["34"] = (@ + 1) % Width]
        BY <1>1, <1>5
      <3> QED
        BY <1>3, <2>2, <3>1
    <2>4. [t.count EXCEPT !["34"] = b + 1] \in Pairs
      <3>1. b + 1 \in Word
        BY <2>1, DspTimerAssumption DEF Word
      <3> QED
        BY <1>2, <3>1 DEF Pairs
    <2>5. u \in Tims /\ Kept(u, t) /\ u.prd = t.prd /\ u.count["12"] = c /\ u.count["34"] = b + 1
      <3> HIDE DEF u
      <3>1. u \in Tims /\ Kept(u, t) /\ u.prd = t.prd
        BY <1>2, <2>3, <2>4 DEF Tims, Kept
      <3>2. u.count = [t.count EXCEPT !["34"] = b + 1] /\ DOMAIN t.count = Halves
        BY <1>2, <2>3 DEF Tims, Pairs
      <3> QED
        BY <1>2, <1>3, <3>1, <3>2
    <2> HIDE DEF u
    <2>6. /\ At(u, "12") = c /\ Sub(u, "12") = b + 1 /\ Top(u, "12") = top
          /\ Size(u, "12") = last + 1
      BY <1>3, <1>4, <2>5 DEF Kept
    <2>7. Fits(u, "12") /\ Agree(t.mode, "12", u.prd, t.prd)
      BY <1>3, <2>1, <2>5, <2>6 DEF Fits, Agree
    <2>8. Counts(t, u, "12", FALSE)
      BY <1>3, <2>1, <2>6, <2>7 DEF Counts
    <2>9. "12" \in k.ran /\ "12" \notin k.fired
      BY <1>1, <1>5
    <2>10. Counts(t, u, "12", "12" \in k.fired)
      BY <2>8, <2>9 DEF Counts
    <2> QED
      BY <2>5, <2>9, <2>10 DEF Tick, u
  <1>6. CASE scaled
    <2>1. PICK a : a = Advance(t.count["12"], t.prd["12"], t.rel["12"], t.enamode["12"])
      OBVIOUS
    <2>2. PICK w : w = CountedOn(t, "12", t.enamode["12"])
      OBVIOUS
    <2>3. PICK rel \in Nat, e \in 1..3 : rel = t.rel["12"] /\ e = t.kind
      BY <1>2, DspTimerAssumption DEF Pairs, Word
    <2>4. CountedTo(w, t, "12", a)
      <3>1. Halved(t, "12", t.enamode["12"])
        BY <1>2, <1>3 DEF Halved
      <3> QED
        BY <2>1, <2>2, <3>1, HalfCounted
    <2>5. Onward(c, top, rel, e, a)
      <3>1. Counted(c, top, rel, e) /\ a = Advance(c, top, rel, e)
        BY <1>2, <1>3, <2>1, <2>3 DEF Counted
      <3> QED
        BY <3>1, CountsOnward
    <2>6. PICK next \in Word : next = IF reload THEN t.rel["34"] ELSE t.prd["34"]
      BY <1>2 DEF Pairs
    <2>7. u = [w EXCEPT !.count = [w.count EXCEPT !["34"] = 0], !.prd = [w.prd EXCEPT !["34"] = next]]
      <3>1. w.prd["34"] = t.prd["34"]
        BY <1>2, <2>4 DEF CountedTo, Pairs
      <3>2. u = [w EXCEPT !.count["34"] = 0, !.prd["34"] = IF reload THEN t.rel["34"] ELSE @]
        BY <1>1, <1>6, <2>2
      <3> HIDE DEF reload, u
      <3> QED
        BY <2>6, <3>1, <3>2
    <2> HIDE DEF u
    <2>8. w \in Tims /\ w.count \in Pairs /\ w.prd \in Pairs
      BY <2>4 DEF CountedTo, Tims
    <2>9. [w.count EXCEPT !["34"] = 0] \in Pairs /\ [w.prd EXCEPT !["34"] = next] \in Pairs
      <3>1. 0 \in Word
        BY DspTimerAssumption DEF Word
      <3> QED
        BY <2>6, <2>8, <3>1, Zenon DEF Pairs
    <2>10. u \in Tims /\ Kept(u, t)
      <3>1. Kept(w, t)
        BY <2>4 DEF CountedTo
      <3>2. u \in Tims /\ Kept(u, w)
        BY <2>7, <2>8, <2>9, Zenon DEF Tims, Kept
      <3> QED
        BY <3>1, <3>2 DEF Kept
    <2>11. /\ u.count["12"] = a.count /\ u.count["34"] = 0 /\ u.prd["12"] = a.prd
           /\ u.prd["34"] = next
      <3>1. /\ u.count = [w.count EXCEPT !["34"] = 0] /\ u.prd = [w.prd EXCEPT !["34"] = next]
        BY <2>7, <2>8 DEF Tims
      <3>2. w.count["12"] = a.count /\ w.prd["12"] = a.prd
        BY <1>2, <2>4 DEF CountedTo, Pairs
      <3>3. DOMAIN w.count = Halves /\ DOMAIN w.prd = Halves
        BY <2>8 DEF Pairs
      <3> QED
        BY <1>2, <3>1, <3>2, <3>3
    <2>12. /\ At(u, "12") = a.count /\ Sub(u, "12") = 0 /\ Top(u, "12") = a.prd
           /\ Size(u, "12") = next + 1
      BY <1>4, <2>10, <2>11 DEF Kept
    <2>13. Fits(u, "12")
      <3>1. next \in Nat /\ a.prd \in Nat /\ a.count \in Nat /\ a.count <= a.prd
        BY <1>3, <2>3, <2>5, <2>6, DspTimerAssumption DEF Onward, Word
      <3> QED
        BY <2>12, <3>1 DEF Fits
    <2>14. (IF top = 0 THEN a.count = c /\ a.prd = top /\ ~a.match
            ELSE IF c < top THEN a.count = c + 1 /\ a.prd = top /\ (a.match <=> c + 1 = top)
            ELSE IF e = 1 THEN a.count = c /\ a.prd = top /\ ~a.match
            ELSE a.count = 0 /\ a.prd = (IF e = 3 THEN rel ELSE top) /\ ~a.match)
      BY <2>3, <2>5 DEF Onward
    <2>15. (reload <=> e = 3 /\ top # 0 /\ c = top)
      BY <1>2, <1>3, <2>3
    <2>16. /\ a.prd = top /\ ~reload => u.prd = t.prd
           /\ a.prd = rel /\ reload => u.prd = t.rel
      <3>1. \A v \in Pairs, x \in Pairs : v["12"] = x["12"] /\ v["34"] = x["34"] => v = x
        BY DEF Pairs, Halves
      <3>2. u.prd \in Pairs
        BY <2>10 DEF Tims
      <3> HIDE DEF reload
      <3> QED
        BY <1>2, <1>3, <2>3, <2>6, <2>11, <3>1, <3>2
    <2> HIDE DEF reload
    <2>17. ~(b + 1 < last + 1)
      BY <1>3, <1>6
    <2>18. Counts(t, u, "12", a.match)
      <3>1. CASE top = 0
        BY <1>3, <2>12, <2>13, <2>14, <2>15, <2>16, <3>1 DEF Counts, Agree
      <3>2. CASE top # 0 /\ c < top
        BY <1>3, <2>12, <2>13, <2>14, <2>15, <2>16, <2>17, <3>2 DEF Counts, Agree
      <3>3. CASE top # 0 /\ ~(c < top) /\ e = 1
        BY <1>3, <2>3, <2>12, <2>13, <2>14, <2>15, <2>16, <2>17, <3>3 DEF Counts, Agree
      <3>4. CASE top # 0 /\ ~(c < top) /\ e # 1
        <4>1. ~a.match /\ a.count = 0 /\ a.prd = (IF e = 3 THEN rel ELSE top) /\ c = top
          BY <1>3, <2>14, <3>4
        <4>2. u.prd = IF e = 3 THEN t.rel ELSE t.prd
          BY <2>15, <2>16, <3>4, <4>1
        <4>3. Agree(t.mode, "12", u.prd, Follows(t.kind, t.rel, t.prd))
          BY <2>3, <4>2 DEF Agree, Follows
        <4> QED
          BY <1>3, <2>3, <2>12, <2>13, <2>17, <3>4, <4>1, <4>3 DEF Counts
      <3> QED
        BY <3>1, <3>2, <3>3, <3>4
    <2>19. "12" \in k.ran /\ ("12" \in k.fired <=> a.match)
      BY <1>1, <1>6, <2>1 DEF Matches
    <2>20. Counts(t, u, "12", "12" \in k.fired)
      BY <2>18, <2>19 DEF Counts
    <2> QED
      BY <2>10, <2>19, <2>20 DEF Tick, u
  <1> QED
    BY <1>5, <1>6

(* tick_one, one counter of both words. *)
LEMMA SingleTicks ==
    ASSUME NEW t, Timely(t), t.mode = "whole", Fits(t, "12"), t.enamode["12"] # 0,
           NEW k, k = Single(t)
    PROVE  k.after \in Tims /\ Kept(k.after, t) /\ Tick(t, k, "12")
  <1>1. PICK a : a = Advance(Whole(t.count), Whole(t.prd), Whole(t.rel), t.enamode["12"])
    OBVIOUS
  <1>2. PICK u : u = [t EXCEPT !.count = Split(a.count), !.prd = Split(a.prd)]
    OBVIOUS
  <1>3. /\ k.after = u /\ k.ran = {"12"} /\ k.fired = (IF a.match THEN {"12"} ELSE {})
    BY <1>1, <1>2 DEF Single
  <1>4. /\ t \in Tims /\ "12" \in Halves /\ "12" \in Live(t.mode) /\ t.enamode["12"] = t.kind
        /\ t.kind \in 1..3 /\ t.count \in Pairs /\ t.prd \in Pairs /\ t.rel \in Pairs
    BY DEF Timely, Tims, Halves, Live
  <1>5. PICK c \in Nat, top \in Nat, rel \in Nat, e \in 1..3 :
           /\ c = Whole(t.count) /\ top = Whole(t.prd) /\ rel = Whole(t.rel) /\ e = t.kind
           /\ c <= top /\ top < Width * Width
           /\ At(t, "12") = c /\ Sub(t, "12") = 0 /\ Top(t, "12") = top /\ Size(t, "12") = 1
    <2>1. /\ Whole(t.count) \in Nat /\ Whole(t.rel) \in Nat
          /\ Whole(t.prd) \in Nat /\ Whole(t.prd) < Width * Width
      BY <1>4, WordsOfWhole
    <2>2. /\ At(t, "12") = Whole(t.count) /\ Sub(t, "12") = 0 /\ Top(t, "12") = Whole(t.prd)
          /\ Size(t, "12") = 1
      BY DEF At, Sub, Top, Last, Size, StepSize
    <2>3. Whole(t.count) <= Whole(t.prd)
      BY <2>2 DEF Fits
    <2> QED
      BY <1>4, <2>1, <2>2, <2>3
  <1>6. Onward(c, top, rel, e, a)
    <2>1. Counted(c, top, rel, e) /\ a = Advance(c, top, rel, e)
      BY <1>1, <1>4, <1>5 DEF Counted
    <2> QED
      BY <2>1, CountsOnward
  <1>7. /\ a.count \in Nat /\ a.count <= top /\ a.count <= a.prd /\ a.prd \in {top, rel}
        /\ IF top = 0 THEN a.count = c /\ a.prd = top /\ ~a.match
           ELSE IF c < top THEN a.count = c + 1 /\ a.prd = top /\ (a.match <=> c + 1 = top)
           ELSE IF e = 1 THEN a.count = c /\ a.prd = top /\ ~a.match
           ELSE a.count = 0 /\ a.prd = (IF e = 3 THEN rel ELSE top) /\ ~a.match
    BY <1>5, <1>6 DEF Onward
  <1>8. Split(a.count) \in Pairs /\ Whole(Split(a.count)) = a.count
    <2>1. PICK d \in Nat : d = a.count
      BY <1>7
    <2>2. Width * Width \in Nat
      BY DspTimerAssumption, Products
    <2>3. d < Width * Width
      BY <1>5, <1>7, <2>1, <2>2
    <2>4. Split(d) \in Pairs /\ Whole(Split(d)) = d
      BY <2>3, WholeOfWords
    <2> QED
      BY <2>1, <2>4
  <1>9. Split(top) = t.prd /\ Split(rel) = t.rel
    BY <1>4, <1>5, WordsOfWhole
  <1>10. PICK p : p = Split(a.prd) /\ p \in {t.prd, t.rel} /\ p \in Pairs /\ Whole(p) = a.prd
    BY <1>4, <1>5, <1>7, <1>9
  <1>11. u \in Tims /\ Kept(u, t) /\ u.prd = p /\ Whole(u.count) = a.count
    BY <1>2, <1>4, <1>8, <1>10, Zenon DEF Tims, Kept
  <1>12. At(u, "12") = a.count /\ Sub(u, "12") = 0 /\ Top(u, "12") = a.prd /\ Size(u, "12") = 1
    BY <1>10, <1>11 DEF At, Sub, Top, Last, Size, StepSize, Kept
  <1>13. Fits(u, "12")
    BY <1>7, <1>12 DEF Fits
  <1>14. Counts(t, u, "12", a.match)
    <2>4. CASE top = 0
      <3>1. u.prd = t.prd /\ ~a.match
        BY <1>7, <1>9, <1>10, <1>11, <2>4
      <3> QED
        BY <1>5, <1>13, <2>4, <3>1 DEF Counts, Agree
    <2>1. CASE top # 0 /\ c < top
      <3>1. a.count = c + 1 /\ u.prd = t.prd /\ (a.match <=> c + 1 = top)
        BY <1>7, <1>9, <1>10, <1>11, <2>1
      <3> QED
        BY <1>5, <1>12, <1>13, <2>1, <3>1 DEF Counts, Agree
    <2>2. CASE top # 0 /\ ~(c < top) /\ e = 1
      <3>1. a.count = c /\ u.prd = t.prd /\ ~a.match
        BY <1>7, <1>9, <1>10, <1>11, <2>2
      <3> QED
        BY <1>5, <1>12, <1>13, <2>2, <3>1 DEF Counts, Agree
    <2>3. CASE top # 0 /\ ~(c < top) /\ e # 1
      <3>1. a.count = 0 /\ u.prd = Follows(t.kind, t.rel, t.prd) /\ ~a.match
        BY <1>5, <1>7, <1>9, <1>10, <1>11, <2>3 DEF Follows
      <3> QED
        BY <1>5, <1>12, <1>13, <2>3, <3>1 DEF Counts, Agree
    <2> QED
      BY <2>1, <2>2, <2>3, <2>4
  <1>15. "12" \in k.ran /\ ("12" \in k.fired <=> a.match)
    BY <1>3
  <1>16. Counts(t, u, "12", "12" \in k.fired)
    BY <1>14, <1>15 DEF Counts
  <1> QED
    BY <1>3, <1>10, <1>11, <1>15, <1>16 DEF Tick

(* tick_one: what is clocked counts, and the rest stays. *)
LEMMA Ticks ==
    ASSUME NEW t, Timely(t), \A h \in Live(t.mode) : Fits(t, h), NEW k, k = Ticked(t)
    PROVE  /\ Timely(k.after) /\ Kept(k.after, t)
           /\ \A h \in Live(t.mode) : Tick(t, k, h)
  <1>1. t \in Tims /\ t.mode \in Modes /\ t.prd \in Pairs
    BY DEF Timely, Tims
  <1>2. ASSUME NEW u \in Tims, Kept(u, t)
        PROVE  Timely(u)
    BY <1>2 DEF Kept, Timely
  <1>3. CASE t.mode = "dual"
    <2>1. k = Dual(t) /\ Live(t.mode) = Halves
      BY <1>3 DEF Ticked, Live
    <2>2. k.after \in Tims /\ Kept(k.after, t) /\ \A h \in Halves : Tick(t, k, h)
      BY <1>3, <2>1, DualTicks
    <2> QED
      BY <1>2, <1>3, <2>1, <2>2 DEF Kept
  <1>4. CASE t.mode # "dual" /\ (t.out # Halves \/ ~Clocked(t, "12") \/ t.enamode["12"] = 0)
    <2>1. k = [after |-> t, fired |-> {}, ran |-> {}]
      BY <1>4 DEF Ticked
    <2>2. Kept(t, t) /\ \A h \in Live(t.mode) : Still(t, t, h)
      BY <1>1 DEF Kept, Still, Agree
    <2> QED
      BY <2>1, <2>2 DEF Tick
  <1>5. CASE t.mode = "chained" /\ ~(t.out # Halves \/ ~Clocked(t, "12") \/ t.enamode["12"] = 0)
    <2>1. k = Chained(t) /\ Live(t.mode) = {"12"}
      BY <1>5 DEF Ticked, Live
    <2>2. k.after \in Tims /\ Kept(k.after, t) /\ Tick(t, k, "12")
      BY <1>5, <2>1, ChainedTicks
    <2> QED
      BY <1>2, <1>5, <2>1, <2>2 DEF Kept
  <1>6. CASE t.mode = "whole" /\ ~(t.out # Halves \/ ~Clocked(t, "12") \/ t.enamode["12"] = 0)
    <2>1. k = Single(t) /\ Live(t.mode) = {"12"}
      BY <1>6 DEF Ticked, Live
    <2>2. /\ k.after \in Tims /\ Kept(k.after, t) /\ Tick(t, k, "12")
      BY <1>6, <2>1, SingleTicks
    <2> QED
      BY <1>2, <2>1, <2>2
  <1> QED
    BY <1>1, <1>3, <1>4, <1>5, <1>6 DEF Modes

(* The phase of any half is a number. *)
LEMMA PhaseIsNat ==
    ASSUME NEW t \in Tims, NEW h \in Halves
    PROVE  Phase(t, h) \in Nat
  <1>1. /\ t.count \in Pairs /\ t.prd \in Pairs /\ t.psc + 1 \in Nat /\ t.tddr \in Nat
        /\ t.count["12"] \in Nat /\ t.count["34"] \in Nat /\ t.prd["34"] + 1 \in Nat /\ t.count[h] \in Nat
    BY DspTimerAssumption DEF Tims, Pairs, Word, Halves
  <1>2. Whole(t.count) \in Nat
    BY <1>1, WordsOfWhole
  <1>3. t.count["12"] * (t.prd["34"] + 1) \in Nat /\ t.count[h] * (t.psc + 1) \in Nat
    BY <1>1, Products
  <1> QED
    BY <1>1, <1>2, <1>3 DEF Phase

-----------------------------------------------------------------------------

(* The timer is as it was set up, its counters stand where the clocks put     *)
(* them, and a low half that was read has its high half held.                *)
TimerInv ==
    /\ Timely(tim)
    /\ place \in [Halves -> Places]
    /\ \A h \in Live(tim.mode) : Counter(tim, h, place[h])
    /\ tim.mode = "whole" /\ pair # Nowhere => tim.shadow = pair.high /\ tim.shadow # None

(* What an access makes of the registers, and of what was read. *)
Proper(t, set, read) ==
    /\ Timely(t) /\ Alike(t, tim) /\ set \in SUBSET Halves
    /\ \A h \in Live(tim.mode) :
          /\ Fits(t, h)
          /\ h \notin set /\ (set = {} \/ tim.mode = "dual") => Still(tim, t, h)
    /\ t.mode = "whole" /\ read # Nowhere => t.shadow = read.high /\ t.shadow # None

(* What an access sets starts there, and what it leaves stands. *)
LEMMA AccessSets ==
    ASSUME TimerInv, NEW t, NEW set, NEW read, Proper(t, set, read)
    PROVE  /\ SetHere(t, set) \in [Halves -> Places]
           /\ \A h \in Live(t.mode) : Counter(t, h, SetHere(t, set)[h])
  <1>0. /\ Timely(t) /\ Alike(t, tim) /\ set \in SUBSET Halves
        /\ \A h \in Live(tim.mode) :
              /\ Fits(t, h)
              /\ h \notin set /\ (set = {} \/ tim.mode = "dual") => Still(tim, t, h)
    BY DEF Proper
  <1>1. t \in Tims /\ t.mode = tim.mode /\ t.prd \in Pairs /\ SetUp(t) /\ SetUp(tim)
        /\ Live(t.mode) \subseteq Halves
    BY <1>0, TimelySetUp DEF TimerInv, Timely, Alike, Tims, Live, Halves
  <1>2. \A h \in Halves : [from |-> Phase(t, h), prd |-> t.prd, ran |-> 0, fires |-> 0] \in Places
    BY <1>1, PhaseIsNat DEF Places
  <1>3. SetHere(t, set) \in [Halves -> Places]
    BY <1>2 DEF SetHere, TimerInv
  <1>4. ASSUME NEW h \in Live(t.mode)
        PROVE  Counter(t, h, SetHere(t, set)[h])
    <2>1. CASE h \in set \/ (set # {} /\ t.mode # "dual")
      <3>1. PICK pl \in Places : pl = [from |-> Phase(t, h), prd |-> t.prd, ran |-> 0, fires |-> 0]
        BY <1>1, <1>2, <1>4, Zenon
      <3>2. SetHere(t, set)[h] = pl
        BY <1>1, <1>4, <2>1, <3>1 DEF SetHere
      <3>3. Fits(t, h)
        BY <1>0, <1>1, <1>4
      <3>4. Counter(t, h, pl)
        BY <1>1, <1>4, <3>1, <3>3, CounterSet
      <3> QED
        BY <3>2, <3>4
    <2>2. CASE ~(h \in set \/ (set # {} /\ t.mode # "dual"))
      <3>1. SetHere(t, set)[h] = place[h] /\ place[h] \in Places
        BY <1>1, <1>4, <2>2 DEF SetHere, TimerInv
      <3>2. Still(tim, t, h) /\ Counter(tim, h, place[h])
        BY <1>0, <1>1, <1>4, <2>2 DEF TimerInv
      <3> QED
        BY <1>0, <1>1, <1>4, <3>1, <3>2, CounterStill
    <2> QED
      BY <2>1, <2>2
  <1> QED
    BY <1>3, <1>4

(* So an access keeps it, when what it reads keeps the last part. *)
LEMMA AccessKeeps ==
    ASSUME TimerInv, NEW t, NEW set, NEW read, Proper(t, set, read), Access(t, set, read)
    PROVE  TimerInv'
  <1>1. tim' = t /\ place' = SetHere(t, set) /\ pair' = read
    BY DEF Access
  <1>2. /\ SetHere(t, set) \in [Halves -> Places]
        /\ \A h \in Live(t.mode) : Counter(t, h, SetHere(t, set)[h])
    BY AccessSets
  <1> QED
    BY <1>1, <1>2 DEF TimerInv, Proper

(* A clock keeps the invariant. *)
LEMMA ClockKeeps ==
    ASSUME TimerInv, Clock
    PROVE  TimerInv'
  <1>1. PICK k : k = Ticked(tim)
    OBVIOUS
  <1>2. PICK u : u = k.after
    OBVIOUS
  <1>3. PICK v : v = [u EXCEPT !.status = @ \cup (k.fired \cap Halves)]
    BY Zenon
  <1>4. /\ tim' = v /\ pair' = pair
        /\ place' = [h \in Halves |->
                        [place[h] EXCEPT
                            !.ran = IF h \in k.ran THEN @ + 1 ELSE @,
                            !.fires = IF h \in k.fired \cap tim.enabled THEN @ + 1 ELSE @]]
    BY <1>1, <1>2, <1>3, Zenon DEF Clock
  <1>5. Timely(tim) /\ SetUp(tim) /\ Live(tim.mode) \subseteq Halves /\ place \in [Halves -> Places]
    BY TimelySetUp DEF TimerInv, Live, Halves
  <1>6. Timely(u) /\ Kept(u, tim) /\ \A h \in Live(tim.mode) : Tick(tim, k, h)
    <2>1. \A h \in Live(tim.mode) : Fits(tim, h)
      BY DEF TimerInv, Counter
    <2> QED
      BY <1>1, <1>2, <1>5, <2>1, Ticks
  <1>7. SetUp(u) /\ Alike(u, tim) /\ u.mode = tim.mode
    BY <1>6, TimelySetUp DEF Kept, Alike, SetUp
  <1>8. Timely(v) /\ Alike(v, u) /\ v.mode = u.mode /\ v.shadow = u.shadow
        /\ \A h \in Live(u.mode) : Still(u, v, h)
    <2>1. u \in Tims
      BY <1>6 DEF Timely
    <2>2. v \in Tims
      BY <1>3, <2>1 DEF Tims
    <2>3. /\ v.mode = u.mode /\ v.psc = u.psc /\ v.kind = u.kind /\ v.rel = u.rel /\ v.enabled = u.enabled
          /\ v.prd = u.prd /\ v.count = u.count /\ v.tddr = u.tddr /\ v.enamode = u.enamode
          /\ v.shadow = u.shadow
      BY <1>3, <2>1 DEF Tims
    <2>4. Alike(v, u)
      BY <1>7, <2>3 DEF Alike, SetUp
    <2>5. \A h \in Live(u.mode) : Still(u, v, h)
      BY <2>3 DEF Still, At, Sub, Agree
    <2>6. Timely(v)
      BY <1>6, <2>2, <2>3 DEF Timely
    <2> QED
      BY <2>3, <2>4, <2>5, <2>6
  <1>9. ASSUME NEW h \in Halves
        PROVE  /\ place'[h] \in Places /\ place[h] \in Places
               /\ place'[h].from = place[h].from /\ place'[h].prd = place[h].prd
               /\ place'[h].ran = (IF h \in k.ran THEN place[h].ran + 1 ELSE place[h].ran)
               /\ place'[h].fires = (IF h \in k.fired /\ h \in tim.enabled
                                     THEN place[h].fires + 1 ELSE place[h].fires)
    <2>1. place[h] \in Places
      BY <1>5
    <2>2. place'[h] = [place[h] EXCEPT
                            !.ran = IF h \in k.ran THEN @ + 1 ELSE @,
                            !.fires = IF h \in k.fired \cap tim.enabled THEN @ + 1 ELSE @]
      BY <1>4, Zenon
    <2>3. PICK r \in Nat : r = IF h \in k.ran THEN place[h].ran + 1 ELSE place[h].ran
      BY <2>1 DEF Places
    <2>4. PICK f \in Nat : f = IF h \in k.fired /\ h \in tim.enabled THEN place[h].fires + 1 ELSE place[h].fires
      BY <2>1 DEF Places
    <2>5. place'[h] = [place[h] EXCEPT !.ran = r, !.fires = f]
      BY <2>1, <2>2, <2>3, <2>4 DEF Places
    <2> QED
      BY <2>1, <2>3, <2>4, <2>5, Zenon DEF Places
  <1>10. place' \in [Halves -> Places]
    BY <1>4, <1>9, Zenon
  <1>11. ASSUME NEW h \in Live(tim.mode)
         PROVE  Counter(v, h, place'[h])
    <2>1. Counter(tim, h, place[h]) /\ h \in Halves /\ Tick(tim, k, h)
      BY <1>5, <1>6 DEF TimerInv
    <2>2. PICK pl \in Places, w \in Places :
             /\ pl = place[h] /\ w = place'[h] /\ w.from = pl.from /\ w.prd = pl.prd
             /\ w.ran = (IF h \in k.ran THEN pl.ran + 1 ELSE pl.ran)
             /\ w.fires = (IF h \in k.fired /\ h \in tim.enabled THEN pl.fires + 1 ELSE pl.fires)
      BY <1>9, <2>1
    <2>3. Counter(u, h, w)
      <3>1. CASE h \in k.ran
        <4>1. PICK match \in BOOLEAN : match <=> h \in k.fired
          BY Zenon
        <4>2. Counts(tim, u, h, match)
          BY <1>2, <2>1, <3>1, <4>1 DEF Tick, Counts
        <4>3. /\ w.ran = pl.ran + 1
              /\ w.fires = pl.fires + (IF match /\ h \in tim.enabled THEN 1 ELSE 0)
          BY <2>2, <3>1, <4>1 DEF Places
        <4> QED
          BY <1>5, <1>7, <2>1, <2>2, <4>2, <4>3, CounterCounts, Zenon
      <3>2. CASE h \notin k.ran
        <4>1. Still(tim, u, h) /\ h \notin k.fired
          BY <1>2, <2>1, <3>2 DEF Tick
        <4>2. w = pl
          BY <2>2, <3>2, <4>1 DEF Places
        <4> QED
          BY <1>5, <1>7, <2>1, <2>2, <4>1, <4>2, CounterStill
      <3> QED
        BY <3>1, <3>2
    <2> QED
      BY <1>7, <1>8, <2>2, <2>3, CounterStill
  <1>12. v.mode = "whole" /\ pair # Nowhere => v.shadow = pair.high /\ v.shadow # None
    BY <1>6, <1>7, <1>8 DEF TimerInv, Kept
  <1> QED
    BY <1>4, <1>7, <1>8, <1>10, <1>11, <1>12, Zenon DEF TimerInv

(* An access that touches no counter. *)
LEMMA Untouched ==
    ASSUME TimerInv, NEW t \in Tims, NEW read,
           t.mode = tim.mode, t.psc = tim.psc, t.kind = tim.kind, t.rel = tim.rel,
           t.enabled = tim.enabled, t.prd = tim.prd, t.count = tim.count, t.tddr = tim.tddr,
           \A h \in Halves : t.enamode[h] \in {0, t.kind},
           t.mode = "whole" /\ read # Nowhere => t.shadow = read.high /\ t.shadow # None,
           Access(t, {}, read)
    PROVE  TimerInv'
  <1>1. Timely(t) /\ Alike(t, tim)
    BY DEF TimerInv, Timely, Alike, Tims
  <1>2. ASSUME NEW h \in Live(tim.mode)
        PROVE  Fits(t, h) /\ Still(tim, t, h)
    <2>1. Fits(tim, h)
      BY <1>2 DEF TimerInv, Counter
    <2>2. At(t, h) = At(tim, h) /\ Sub(t, h) = Sub(tim, h) /\ Top(t, h) = Top(tim, h)
          /\ Size(t, h) = Size(tim, h)
      BY DEF At, Sub, Top, Size
    <2> QED
      BY <2>1, <2>2 DEF Fits, Still, Agree
  <1>3. {} \in SUBSET Halves
    OBVIOUS
  <1>4. Proper(t, {}, read)
    BY <1>1, <1>2, <1>3 DEF Proper
  <1> QED
    BY <1>4, AccessKeeps

(* Stopping a counter, or letting it run, touches none. *)
LEMMA WriteTcrKeeps ==
    ASSUME TimerInv, WriteTcr
    PROVE  TimerInv'
  <1>1. PICK h \in Halves, mode \in {0, tim.kind} :
           Access([tim EXCEPT !.enamode[h] = mode], {}, pair)
    BY Zenon DEF WriteTcr
  <1>2. PICK t : t = [tim EXCEPT !.enamode[h] = mode]
    BY Zenon
  <1>3. tim \in Tims /\ \A g \in Halves : tim.enamode[g] \in {0, tim.kind}
    BY DEF TimerInv, Timely
  <1>4. mode \in 0..3 /\ tim.enamode \in [Halves -> 0..3]
    BY <1>3 DEF Tims
  <1>5. PICK e \in [Halves -> 0..3] : e = [tim.enamode EXCEPT ![h] = mode]
    BY <1>4, Zenon
  <1>6. t = [tim EXCEPT !.enamode = e]
    BY <1>2, <1>5
  <1>7. t \in Tims
    BY <1>3, <1>6 DEF Tims
  <1>8. /\ t.mode = tim.mode /\ t.psc = tim.psc /\ t.kind = tim.kind /\ t.rel = tim.rel
        /\ t.enabled = tim.enabled /\ t.prd = tim.prd /\ t.count = tim.count /\ t.tddr = tim.tddr
        /\ t.shadow = tim.shadow /\ t.enamode = e
    BY <1>3, <1>6 DEF Tims
  <1>9. \A g \in Halves : t.enamode[g] \in {0, t.kind}
    BY <1>3, <1>4, <1>5, <1>8
  <1>10. t.mode = "whole" /\ pair # Nowhere => t.shadow = pair.high /\ t.shadow # None
    BY <1>8 DEF TimerInv
  <1> QED
    BY <1>1, <1>2, <1>7, <1>8, <1>9, <1>10, Untouched, Zenon

(* Nor does clearing a status. *)
LEMMA ClearStatusKeeps ==
    ASSUME TimerInv, ClearStatus
    PROVE  TimerInv'
  <1>1. PICK h \in tim.status : Access([tim EXCEPT !.status = @ \ {h}], {}, pair)
    BY DEF ClearStatus
  <1>2. PICK t : t = [tim EXCEPT !.status = @ \ {h}]
    BY Zenon
  <1>3. tim \in Tims /\ \A g \in Halves : tim.enamode[g] \in {0, tim.kind}
    BY DEF TimerInv, Timely
  <1>4. t \in Tims
    BY <1>2, <1>3 DEF Tims
  <1>5. /\ t.mode = tim.mode /\ t.psc = tim.psc /\ t.kind = tim.kind /\ t.rel = tim.rel
        /\ t.enabled = tim.enabled /\ t.prd = tim.prd /\ t.count = tim.count /\ t.tddr = tim.tddr
        /\ t.shadow = tim.shadow /\ t.enamode = tim.enamode
    BY <1>2, <1>3 DEF Tims
  <1>6. t.mode = "whole" /\ pair # Nowhere => t.shadow = pair.high /\ t.shadow # None
    BY <1>5 DEF TimerInv
  <1> QED
    BY <1>1, <1>2, <1>3, <1>4, <1>5, <1>6, Untouched, Zenon

(* A capture: the counter is at zero, with one of its periods. *)
LEMMA CaptureKeeps ==
    ASSUME TimerInv, NEW h \in Halves, ReadResets(h), NEW read, NEW shadow \in Word \cup {None},
           Access([Captured(h) EXCEPT !.shadow = shadow], {h}, read)
    PROVE  TimerInv'
  <1>1. PICK t : t = [Captured(h) EXCEPT !.shadow = shadow]
    OBVIOUS
  <1>2. tim \in Tims /\ tim.mode = "dual" /\ Live(tim.mode) = Halves
        /\ \A g \in Halves : tim.enamode[g] \in {0, tim.kind}
    BY DEF TimerInv, Timely, ReadResets, Live
  <1>3. tim.cap \in Pairs /\ tim.count \in Pairs /\ tim.prd \in Pairs /\ tim.rel \in Pairs /\ 0 \in Word
    BY <1>2, DspTimerAssumption DEF Tims, Word
  <1>4. PICK cap \in Pairs, count \in Pairs, prd \in Pairs :
           /\ cap = [tim.cap EXCEPT ![h] = tim.count[h]] /\ count = [tim.count EXCEPT ![h] = 0]
           /\ prd = [tim.prd EXCEPT ![h] = IF tim.enamode[h] = 3 THEN tim.rel[h] ELSE @]
    BY <1>3, Zenon DEF Pairs
  <1>5. t = [tim EXCEPT !.cap = cap, !.count = count, !.prd = prd, !.shadow = shadow]
    BY <1>1, <1>4 DEF Captured
  <1>6. t \in Tims
    BY <1>2, <1>5, Zenon DEF Tims
  <1>7. /\ t.mode = "dual" /\ t.psc = tim.psc /\ t.kind = tim.kind /\ t.rel = tim.rel
        /\ t.enabled = tim.enabled /\ t.prd = prd /\ t.count = count /\ t.tddr = tim.tddr
        /\ t.enamode = tim.enamode /\ tim.mode = "dual"
    BY <1>2, <1>5 DEF Tims
  <1>8. Timely(t) /\ Alike(t, tim)
    BY <1>6, <1>7 DEF TimerInv, Timely, Alike
  <1>9. ASSUME NEW g \in Live(tim.mode)
        PROVE  Fits(t, g) /\ (g \notin {h} => Still(tim, t, g))
    <2>1. Fits(tim, g) /\ g \in Halves
      BY <1>2, <1>9 DEF TimerInv, Counter
    <2>2. Sub(t, g) = Sub(tim, g) /\ Size(t, g) = Size(tim, g)
      BY <1>7 DEF Sub, Size, StepSize
    <2>3. At(t, g) = count[g] /\ Top(t, g) = prd[g] /\ At(tim, g) = tim.count[g] /\ Top(tim, g) = tim.prd[g]
      BY <1>7 DEF At, Top, Last
    <2>4. CASE g = h
      <3>1. count[g] = 0 /\ prd[g] \in Nat
        BY <1>3, <1>4, <2>1, <2>4, DspTimerAssumption DEF Pairs, Word
      <3> QED
        BY <2>1, <2>2, <2>3, <2>4, <3>1 DEF Fits
    <2>5. CASE g # h
      <3>1. count[g] = tim.count[g] /\ prd[g] = tim.prd[g]
        BY <1>3, <1>4, <2>1, <2>5 DEF Pairs
      <3> QED
        BY <1>7, <2>1, <2>2, <2>3, <3>1 DEF Fits, Still, Agree
    <2> QED
      BY <2>4, <2>5
  <1>10. Proper(t, {h}, read)
    BY <1>7, <1>8, <1>9 DEF Proper
  <1> QED
    BY <1>1, <1>10, AccessKeeps

(* A read of the low half holds the high one, or captures. *)
LEMMA ReadLowKeeps ==
    ASSUME TimerInv, ReadLow
    PROVE  TimerInv'
  <1>1. tim \in Tims /\ (\A g \in Halves : tim.enamode[g] \in {0, tim.kind})
        /\ tim.shadow \in Word \cup {None} /\ "12" \in Halves /\ "34" \in Halves
    BY DEF TimerInv, Timely, Tims, Halves
  <1>2. CASE ReadResets("12")
    <2>1. Access(Captured("12"), {"12"}, pair)
      BY <1>2 DEF ReadLow
    <2>2. [Captured("12") EXCEPT !.shadow = tim.shadow] = Captured("12")
      BY <1>1, Zenon DEF Captured, Tims
    <2> QED
      BY <1>1, <1>2, <2>1, <2>2, CaptureKeeps
  <1>3. CASE ~ReadResets("12")
    <2>1. PICK t, read :
             /\ t = [tim EXCEPT !.shadow = IF tim.mode = "whole" THEN tim.count["34"] ELSE @]
             /\ read = [low |-> tim.count["12"], high |-> tim.count["34"]]
             /\ Access(t, {}, read)
      BY <1>3 DEF ReadLow
    <2>2. tim.count["34"] \in Word /\ tim.count["34"] # None
      BY <1>1, DspTimerAssumption DEF Tims, Pairs, Word, None
    <2>3. PICK s \in Word \cup {None} : s = IF tim.mode = "whole" THEN tim.count["34"] ELSE tim.shadow
      BY <1>1, <2>2
    <2>4. t = [tim EXCEPT !.shadow = s]
      BY <1>1, <2>1, <2>3
    <2>5. t \in Tims
      BY <1>1, <2>4 DEF Tims
    <2>6. /\ t.mode = tim.mode /\ t.psc = tim.psc /\ t.kind = tim.kind /\ t.rel = tim.rel
          /\ t.enabled = tim.enabled /\ t.prd = tim.prd /\ t.count = tim.count /\ t.tddr = tim.tddr
          /\ t.shadow = s /\ t.enamode = tim.enamode
      BY <1>1, <2>4 DEF Tims
    <2>7. t.mode = "whole" /\ read # Nowhere => t.shadow = read.high /\ t.shadow # None
      BY <2>1, <2>2, <2>3, <2>6
    <2> QED
      BY <1>1, <2>1, <2>5, <2>6, <2>7, Untouched, Zenon
  <1> QED
    BY <1>2, <1>3

(* A read of the high half lets go of it, or captures. *)
LEMMA ReadHighKeeps ==
    ASSUME TimerInv, ReadHigh
    PROVE  TimerInv'
  <1>1. tim \in Tims /\ (\A g \in Halves : tim.enamode[g] \in {0, tim.kind})
        /\ "34" \in Halves /\ None \in Word \cup {None}
    BY DEF TimerInv, Timely, Halves
  <1>2. CASE ReadResets("34")
    <2>1. Access([Captured("34") EXCEPT !.shadow = None], {"34"}, Nowhere)
      BY <1>2 DEF ReadHigh
    <2> QED
      BY <1>1, <1>2, <2>1, CaptureKeeps
  <1>3. CASE ~ReadResets("34")
    <2>1. PICK t : t = [tim EXCEPT !.shadow = None] /\ Access(t, {}, Nowhere)
      BY <1>3 DEF ReadHigh
    <2>2. t \in Tims
      BY <1>1, <2>1 DEF Tims
    <2>3. /\ t.mode = tim.mode /\ t.psc = tim.psc /\ t.kind = tim.kind /\ t.rel = tim.rel
          /\ t.enabled = tim.enabled /\ t.prd = tim.prd /\ t.count = tim.count /\ t.tddr = tim.tddr
          /\ t.enamode = tim.enamode
      BY <1>1, <2>1 DEF Tims
    <2> QED
      BY <1>1, <2>1, <2>2, <2>3, Untouched, Zenon
  <1> QED
    BY <1>2, <1>3

(* A write sets a counter where it says. *)
LEMMA WriteCountKeeps ==
    ASSUME TimerInv, WriteCount
    PROVE  TimerInv'
  <1>1. PICK h \in Halves, v \in Word :
           LET t == [tim EXCEPT !.count[h] = v, !.shadow = IF h = "34" THEN None ELSE @]
           IN  /\ tim.mode = "whole" => Whole(t.count) <= Whole(t.prd)
               /\ tim.mode # "whole" => v <= t.prd[h]
               /\ Access(t, {h}, IF h = "34" THEN Nowhere ELSE pair)
    BY Zenon DEF WriteCount
  <1>2. PICK t : t = [tim EXCEPT !.count[h] = v, !.shadow = IF h = "34" THEN None ELSE @]
    OBVIOUS
  <1>3. tim \in Tims /\ tim.shadow \in Word \cup {None} /\ tim.count \in Pairs /\ tim.prd \in Pairs
    BY DEF TimerInv, Timely, Tims
  <1>4. PICK count \in Pairs, s \in Word \cup {None} :
           count = [tim.count EXCEPT ![h] = v] /\ s = IF h = "34" THEN None ELSE tim.shadow
    BY <1>3, Zenon DEF Pairs
  <1>5. t = [tim EXCEPT !.count = count, !.shadow = s]
    BY <1>2, <1>3, <1>4
  <1>6. t \in Tims
    BY <1>3, <1>5, Zenon DEF Tims
  <1>7. /\ t.mode = tim.mode /\ t.psc = tim.psc /\ t.kind = tim.kind /\ t.rel = tim.rel
        /\ t.enabled = tim.enabled /\ t.prd = tim.prd /\ t.count = count /\ t.tddr = tim.tddr
        /\ t.shadow = s /\ t.enamode = tim.enamode
    BY <1>3, <1>5 DEF Tims
  <1>8. Timely(t) /\ Alike(t, tim)
    BY <1>3, <1>6, <1>7 DEF TimerInv, Timely, Alike
  <1>9. ASSUME NEW g \in Live(tim.mode)
        PROVE  /\ Fits(t, g)
               /\ g \notin {h} /\ ({h} = {} \/ tim.mode = "dual") => Still(tim, t, g)
    <2>1. Fits(tim, g) /\ g \in Halves
      BY <1>9 DEF TimerInv, Counter, Live, Halves
    <2>2. /\ Top(t, g) = Top(tim, g) /\ Size(t, g) = Size(tim, g) /\ t.mode = tim.mode
      BY <1>7 DEF Top, Last, Size, StepSize
    <2>3. \A w \in Word : w \in Nat
      BY DspTimerAssumption DEF Word
    <2>4. CASE tim.mode = "whole"
      <3>1. At(t, g) = Whole(count) /\ Sub(t, g) = 0 /\ Sub(tim, g) = 0 /\ Top(t, g) = Whole(tim.prd)
        BY <1>7, <2>4 DEF At, Sub, Top, Last
      <3>2. Whole(count) \in Nat /\ Whole(count) <= Whole(tim.prd)
        BY <1>1, <1>2, <1>7, <2>4, WordsOfWhole
      <3> QED
        BY <2>1, <2>2, <2>4, <3>1, <3>2 DEF Fits
    <2>5. CASE tim.mode = "chained"
      <3>1. At(t, g) = count[g] /\ Sub(t, g) = count["34"] /\ Top(t, g) = tim.prd["12"]
            /\ Size(t, g) = tim.prd["34"] + 1 /\ g = "12"
            /\ At(tim, g) = tim.count[g] /\ Sub(tim, g) = tim.count["34"]
        BY <1>7, <1>9, <2>5 DEF At, Sub, Top, Last, Size, StepSize, Live
      <3>2. v <= tim.prd[h] /\ count[h] = v /\ \A o \in Halves : o # h => count[o] = tim.count[o]
        BY <1>1, <1>2, <1>3, <1>4, <1>7, <2>5 DEF Pairs
      <3>3. "12" \in Halves /\ "34" \in Halves /\ h \in {"12", "34"}
        BY DEF Halves
      <3>4. /\ v \in Nat /\ tim.prd["12"] \in Nat /\ tim.prd["34"] \in Nat
            /\ count["12"] \in Nat /\ count["34"] \in Nat
        BY <1>3, <2>3, <3>3 DEF Pairs
      <3>5. tim.count["12"] <= tim.prd["12"] /\ tim.count["34"] < tim.prd["34"] + 1
        BY <2>1, <2>2, <3>1 DEF Fits
      <3>6. count["12"] <= tim.prd["12"] /\ count["34"] < tim.prd["34"] + 1
        BY <3>2, <3>3, <3>4, <3>5
      <3> QED
        BY <2>5, <3>1, <3>4, <3>6 DEF Fits
    <2>6. CASE tim.mode = "dual"
      <3>1. At(t, g) = count[g] /\ Sub(t, g) = Sub(tim, g) /\ Top(t, g) = tim.prd[g]
            /\ At(tim, g) = tim.count[g]
        BY <1>7, <2>6 DEF At, Sub, Top, Last
      <3>2. v <= tim.prd[h] /\ count[h] = v /\ \A o \in Halves : o # h => count[o] = tim.count[o]
        BY <1>1, <1>2, <1>3, <1>4, <1>7, <2>6 DEF Pairs
      <3>3. v \in Nat /\ count[g] \in Nat
        BY <1>3, <2>1, <2>3 DEF Pairs
      <3>4. tim.count[g] <= tim.prd[g]
        BY <2>1, <2>2, <3>1 DEF Fits
      <3>5. count[g] <= tim.prd[g]
        BY <2>1, <3>2, <3>4
      <3>6. g # h => Still(tim, t, g)
        BY <1>7, <2>1, <3>1, <3>2 DEF Still, Agree
      <3> QED
        BY <2>1, <2>2, <3>1, <3>3, <3>5, <3>6 DEF Fits
    <2> QED
      BY <1>3, <2>4, <2>5, <2>6 DEF Tims, Modes
  <1>10. PICK read : read = IF h = "34" THEN Nowhere ELSE pair
    OBVIOUS
  <1>11. t.mode = "whole" /\ read # Nowhere => t.shadow = read.high /\ t.shadow # None
    BY <1>4, <1>7, <1>10 DEF TimerInv
  <1>12. Access(t, {h}, read) /\ {h} \in SUBSET Halves
    BY <1>1, <1>2, <1>10
  <1>13. Proper(t, {h}, read)
    BY <1>8, <1>9, <1>11, <1>12 DEF Proper
  <1> QED
    BY <1>12, <1>13, AccessKeeps

(* A reset sets what it holds to zero, and with two counters the prescaler *)
(* too.                                                                    *)
LEMMA WriteTgcrKeeps ==
    ASSUME TimerInv, WriteTgcr
    PROVE  TimerInv'
  <1>1. PICK out \in SUBSET Halves, held \in SUBSET Halves :
           /\ held = Halves \ out
           /\ tim.mode # "dual" => out \in {{}, Halves}
           /\ Access([tim EXCEPT
                          !.out = out, !.tddr = 0,
                          !.count = [h \in Halves |-> IF h \in held THEN 0 ELSE @[h]],
                          !.shadow = IF tim.mode # "whole" \/ "34" \in held THEN None ELSE @],
                      held \cup (IF tim.mode = "dual" THEN {"34"} ELSE {}),
                      IF "34" \in held THEN Nowhere ELSE pair)
    BY Zenon DEF WriteTgcr
  <1>2. tim \in Tims /\ tim.shadow \in Word \cup {None} /\ tim.count \in Pairs /\ tim.prd \in Pairs
        /\ 0 \in Word /\ "12" \in Halves /\ "34" \in Halves /\ tim.psc \in Nat
    BY DspTimerAssumption DEF TimerInv, Timely, Tims, Halves, Word
  <1>3. PICK count \in Pairs, s \in Word \cup {None} :
           /\ count = [h \in Halves |-> IF h \in held THEN 0 ELSE tim.count[h]]
           /\ s = IF tim.mode # "whole" \/ "34" \in held THEN None ELSE tim.shadow
    BY <1>2, Zenon DEF Pairs
  <1>4. PICK t : t = [tim EXCEPT !.out = out, !.tddr = 0, !.count = count, !.shadow = s]
    OBVIOUS
  <1>5. PICK set, read :
           /\ set \in SUBSET Halves
           /\ set = held \cup (IF tim.mode = "dual" THEN {"34"} ELSE {})
           /\ read = IF "34" \in held THEN Nowhere ELSE pair
    BY <1>2, Zenon
  <1>6. Access(t, set, read)
    BY <1>1, <1>2, <1>3, <1>4, <1>5
  <1>7. t \in Tims
    BY <1>2, <1>4, Zenon DEF Tims
  <1>8. /\ t.mode = tim.mode /\ t.psc = tim.psc /\ t.kind = tim.kind /\ t.rel = tim.rel
        /\ t.enabled = tim.enabled /\ t.prd = tim.prd /\ t.count = count /\ t.tddr = 0
        /\ t.shadow = s /\ t.enamode = tim.enamode
    BY <1>2, <1>4 DEF Tims
  <1>9. Timely(t) /\ Alike(t, tim)
    BY <1>2, <1>7, <1>8 DEF TimerInv, Timely, Alike
  <1>10. ASSUME NEW g \in Live(tim.mode)
         PROVE  /\ Fits(t, g)
                /\ g \notin set /\ (set = {} \/ tim.mode = "dual") => Still(tim, t, g)
    <2>1. Fits(tim, g) /\ g \in Halves
      BY <1>10 DEF TimerInv, Counter, Live, Halves
    <2>2. /\ Top(t, g) = Top(tim, g) /\ Size(t, g) = Size(tim, g) /\ Top(tim, g) \in Nat
          /\ Size(tim, g) > 0 /\ Size(tim, g) \in Nat
      <3>1. tim.mode \in Modes
        BY <1>2 DEF Tims
      <3> QED
        BY <1>2, <1>8, <2>1, <3>1, Lengths DEF Top, Size
    <2>3. CASE tim.mode = "dual"
      <3>1. At(t, g) = count[g] /\ At(tim, g) = tim.count[g]
            /\ Sub(t, g) = 0 /\ (g # "34" => Sub(tim, g) = 0)
        BY <1>8, <2>3 DEF At, Sub
      <3>2. count[g] = 0 \/ (g \notin held /\ count[g] = tim.count[g])
        BY <1>3, <2>1
      <3>3. Fits(t, g)
        BY <2>1, <2>2, <3>1, <3>2 DEF Fits
      <3>4. ASSUME g \notin set  PROVE Still(tim, t, g)
        <4>1. g # "34" /\ g \notin held
          BY <1>5, <2>3, <3>4
        <4>2. count[g] = tim.count[g]
          BY <1>3, <2>1, <4>1
        <4> QED
          BY <1>8, <3>1, <4>1, <4>2 DEF Still, Agree
      <3> QED
        BY <3>3, <3>4
    <2>4. CASE tim.mode # "dual" /\ held = {}
      <3>1. count = tim.count
        BY <1>2, <1>3, <2>4 DEF Pairs
      <3>2. At(t, g) = At(tim, g) /\ Sub(t, g) = Sub(tim, g)
        BY <1>8, <2>4, <3>1 DEF At, Sub
      <3> QED
        BY <1>8, <2>1, <2>2, <3>2 DEF Fits, Still, Agree
    <2>5. CASE tim.mode # "dual" /\ held = Halves
      <3>1. count["12"] = 0 /\ count["34"] = 0 /\ count[g] = 0
        BY <1>2, <1>3, <2>1, <2>5
      <3>2. Whole(count) = 0
        BY <3>1, DspTimerAssumption DEF Whole
      <3>3. At(t, g) = 0 /\ Sub(t, g) = 0
        BY <1>8, <2>5, <3>1, <3>2 DEF At, Sub
      <3>4. g \in set
        BY <1>5, <2>1, <2>5
      <3> QED
        BY <2>2, <3>3, <3>4 DEF Fits
    <2>6. tim.mode # "dual" => held = {} \/ held = Halves
      BY <1>1
    <2> QED
      BY <2>3, <2>4, <2>5, <2>6
  <1>11. t.mode = "whole" /\ read # Nowhere => t.shadow = read.high /\ t.shadow # None
    BY <1>3, <1>5, <1>8 DEF TimerInv
  <1>12. Proper(t, set, read)
    BY <1>5, <1>9, <1>10, <1>11 DEF Proper
  <1> QED
    BY <1>6, <1>12, AccessKeeps

(* It holds when the program has set the timer up. *)
LEMMA TimerStarts ==
    ASSUME TimerInit
    PROVE  TimerInv
  <1>1. PICK s \in Setups :
           tim = [mode |-> s.mode, psc |-> s.psc, tddr |-> 0, kind |-> s.kind,
                  count |-> [h \in Halves |-> 0], prd |-> s.prd, rel |-> s.rel,
                  cap |-> [h \in Halves |-> 0],
                  enamode |-> [h \in Halves |-> 0], out |-> {},
                  external |-> s.external, shadow |-> None,
                  readReset |-> s.readReset, enabled |-> s.enabled,
                  status |-> {}]
    BY DspTimerAssumption, Zenon DEF TimerInit
  <1>2. /\ 0 \in Word /\ Width \in Nat /\ "12" \in Halves /\ "34" \in Halves
    BY DspTimerAssumption DEF Word, Halves
  <1>3. PICK prd \in Pairs, rel \in Pairs, zero \in Pairs, e \in [Halves -> 0..3] :
           /\ prd = s.prd /\ rel = s.rel
           /\ zero = [h \in Halves |-> 0] /\ e = [h \in Halves |-> 0]
    <2>1. s.prd \in Pairs /\ s.rel \in Pairs
      BY DEF Setups, Pairs
    <2>2. [h \in Halves |-> 0] \in Pairs
      BY <1>2 DEF Pairs
    <2>3. [h \in Halves |-> 0] \in [Halves -> 0..3]
      OBVIOUS
    <2> QED
      BY <2>1, <2>2, <2>3
  <1>4. tim \in Tims
    BY <1>1, <1>2, <1>3 DEF Tims, Setups
  <1>5. /\ tim.mode \in Modes /\ tim.psc \in Nat /\ tim.tddr = 0 /\ tim.count = zero /\ tim.prd = prd
        /\ tim.rel = rel /\ tim.enamode = e
    BY <1>1, <1>3 DEF Setups
  <1>6. \A h \in Halves : zero[h] = 0 /\ e[h] = 0
    BY <1>2, <1>3
  <1>7. Whole(zero) = 0
    BY <1>2, <1>6 DEF Whole
  <1>8. Timely(tim)
    BY <1>4, <1>5, <1>6 DEF Timely
  <1>9. place = [h \in Halves |-> [from |-> 0, prd |-> prd, ran |-> 0, fires |-> 0]]
    BY <1>5 DEF TimerInit
  <1>10. place \in [Halves -> Places]
    BY <1>9 DEF Places
  <1>11. ASSUME NEW h \in Live(tim.mode)
         PROVE  Counter(tim, h, place[h])
    <2>1. h \in Halves /\ SetUp(tim)
      BY <1>8, <1>11, TimelySetUp DEF Live, Halves
    <2>2. At(tim, h) = 0 /\ Sub(tim, h) = 0
      BY <1>2, <1>5, <1>6, <1>7, <2>1 DEF At, Sub
    <2>3. Top(tim, h) \in Nat /\ Size(tim, h) \in Nat /\ Size(tim, h) > 0
      BY <1>2, <1>5, <2>1, Lengths DEF Top, Size
    <2>4. Fits(tim, h)
      BY <2>2, <2>3 DEF Fits
    <2>5. Phase(tim, h) = 0
      <3>1. Phase(tim, h) = 0 * Size(tim, h) + 0
        BY <1>11, <2>1, <2>2, <2>4, Phases
      <3> QED
        BY <2>3, <3>1
    <2>6. /\ place[h] \in Places /\ place[h].from = Phase(tim, h) /\ place[h].prd = tim.prd
          /\ place[h].ran = 0 /\ place[h].fires = 0
      BY <1>5, <1>9, <1>10, <2>1, <2>5
    <2> QED
      BY <1>5, <1>7, <1>11, <2>1, <2>4, <2>6, CounterSet
  <1>12. pair = Nowhere
    BY DEF TimerInit
  <1> QED
    BY <1>8, <1>10, <1>11, <1>12 DEF TimerInv

(* It is what TimerExact asks, of every counter and of the two reads. *)
LEMMA InvIsExact ==
    ASSUME TimerInv
    PROVE  TimerExact
  <1>1. Timely(tim) /\ SetUp(tim) /\ tim.mode \in Modes
        /\ Live(tim.mode) = (IF tim.mode = "dual" THEN Halves ELSE {"12"})
    BY TimelySetUp DEF TimerInv, SetUp, Live
  <1>2. ASSUME NEW h \in Live(tim.mode)
        PROVE  LET from == place[h].from
                   n == from + place[h].ran
                   fires == IF h \in tim.enabled
                            THEN Cardinality({k \in from + 1..n : Peaks(h, k)}) ELSE 0
               IN  IF TopOf(h, place[h].prd) = 0
                   THEN At(tim, h) = 0 /\ place[h].fires = 0
                   ELSE At(tim, h) = Shows(h, n) /\ place[h].fires = fires
    <2>1. h \in Halves /\ place[h] \in Places /\ Counter(tim, h, place[h])
      BY <1>2 DEF TimerInv, Live, Halves
    <2>2. PICK pl \in Places : pl = place[h]
      BY <2>1
    <2>5. TopOf(h, place[h].prd) = 0 <=> Zero(tim, h, pl)
      BY <2>2, ShownIs DEF Zero
    <2>3. CASE Zero(tim, h, pl)
      <3>1. Top(tim, h) = 0 /\ pl.fires = 0 /\ Fits(tim, h)
        BY <2>1, <2>2, <2>3 DEF Counter
      <3>3. At(tim, h) = 0
        BY <3>1 DEF Fits
      <3> QED
        BY <2>2, <2>3, <2>5, <3>1, <3>3
    <2>4. CASE ~Zero(tim, h, pl)
      <3>1. PICK n : n = pl.from + pl.ran
        OBVIOUS
      <3>2. PICK s : s = Displayed(tim.mode, tim.psc, tim.kind, tim.rel, h, pl.prd, n)
        OBVIOUS
      <3>3. /\ At(tim, h) = s.into \div StepSize(tim.mode, tim.psc, h, s.prd)
            /\ pl.fires = IF h \in tim.enabled THEN Cardinality(PeaksSince(tim, h, pl, n)) ELSE 0
        BY <1>1, <1>2, <2>1, <2>2, <2>4, <3>1, <3>2, CounterShows
      <3>4. Shows(h, n) = s.into \div StepSize(tim.mode, tim.psc, h, s.prd)
        BY <1>1, <2>2, <3>2, ShownIs
      <3>5. {k \in pl.from + 1..n : Peaks(h, k)} = PeaksSince(tim, h, pl, n)
        <4>1. \A k : Peaks(h, k) <=> AtPeak(tim.mode, tim.psc, tim.kind, tim.rel, h, pl.prd, k)
          BY <1>1, <2>2, ShownIs
        <4> QED
          BY <4>1 DEF PeaksSince
      <3>6. ~(TopOf(h, place[h].prd) = 0)
        BY <2>4, <2>5
      <3> QED
        BY <2>2, <3>1, <3>3, <3>4, <3>5, <3>6, Zenon
    <2> QED
      BY <2>3, <2>4
  <1>3. CountExact
    BY <1>1, <1>2 DEF CountExact, At
  <1>4. ReadWhole
    BY DEF TimerInv, ReadWhole, HighRead
  <1> QED
    BY <1>3, <1>4 DEF TimerExact

(* However the program starts, stops, resets, sets, captures and reads the     *)
(* counters between the clocks, each shows where the clocks it has counted put *)
(* it, has made one interrupt for each time they brought it to its period, and *)
(* two halves read in turn are of one value.  So do advance, tick_one and the  *)
(* register reads of emulator/qemu/cdj_c6747_timer.c, for any width of the     *)
(* registers, any number of clocks and accesses, and any prescaler, periods    *)
(* and reloads, zero included, that the program writes before it starts them.  *)
THEOREM TimerIsExact == TimerSpec => []TimerExact
  <1>1. TimerInit => TimerInv
    BY TimerStarts
  <1>2. TimerInv /\ [TimerNext]_timerVars => TimerInv'
    <2> SUFFICES ASSUME TimerInv, [TimerNext]_timerVars PROVE TimerInv'
      OBVIOUS
    <2>1. CASE Clock
      BY <2>1, ClockKeeps
    <2>2. CASE WriteTcr
      BY <2>2, WriteTcrKeeps
    <2>3. CASE WriteTgcr
      BY <2>3, WriteTgcrKeeps
    <2>4. CASE WriteCount
      BY <2>4, WriteCountKeeps
    <2>5. CASE ReadLow
      BY <2>5, ReadLowKeeps
    <2>6. CASE ReadHigh
      BY <2>6, ReadHighKeeps
    <2>7. CASE ClearStatus
      BY <2>7, ClearStatusKeeps
    <2>8. CASE UNCHANGED timerVars
      <3>1. tim' = tim /\ place' = place /\ pair' = pair
        BY <2>8 DEF timerVars
      <3> QED
        BY <3>1 DEF TimerInv
    <2> QED
      BY <2>1, <2>2, <2>3, <2>4, <2>5, <2>6, <2>7, <2>8 DEF TimerNext
  <1>3. TimerInv => TimerExact
    BY InvIsExact
  <1> QED
    BY <1>1, <1>2, <1>3, PTL DEF TimerSpec
=============================================================================
