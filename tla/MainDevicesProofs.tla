-------------------------- MODULE MainDevicesProofs --------------------------
(***************************************************************************)
(* What holds of the devices of MAIN's board for every bound: the DMA      *)
(* controller with the SD host it serves, the USB host with its stick, and *)
(* the panel's input channel.  Each device has an inductive invariant,     *)
(* lemmas for its operators, one lemma per kind of step, and a theorem for *)
(* what the runs check.                                                    *)
(***************************************************************************)
EXTENDS MainDma, UsbHost, PanelInput, FiniteSetTheorems, TLAPS

-----------------------------------------------------------------------------
(* Both data paths count their blocks and packets from one. *)

Through(m) == [k \in 1..m |-> k]

(* The numbers up to m, and the next one. *)
LEMMA OneMore ==
    ASSUME NEW m \in Nat
    PROVE  Through(m) \in Seq(Nat) /\ Append(Through(m), m + 1) = Through(m + 1)
<1> DEFINE s == Through(m)
           t == Append(s, m + 1)
<1>1. s \in Seq(Nat) /\ Len(s) = m /\ \A i \in 1..m : s[i] = i
  BY DEF Through
<1> HIDE DEF s
<1>2. t \in Seq(Nat) /\ Len(t) = m + 1 /\ \A i \in 1..m + 1 : t[i] = i
  BY <1>1
<1> HIDE DEF t
<1>3. t = [i \in 1..m + 1 |-> t[i]]
  BY <1>2
<1>4. t = [i \in 1..m + 1 |-> i]
  BY <1>2, <1>3
<1> QED
  BY <1>1, <1>4 DEF s, t, Through

-----------------------------------------------------------------------------
(* MAIN's DMA controller, and the SD host it serves. *)

ChannelRec == [ends : {"plain", "panel", "card_in", "card_out", "dsp", "usb"},
               role : {"plain", "rx", "tx", "dsp", "usb"},
               armed : BOOLEAN, te : BOOLEAN, ie : BOOLEAN]
HostRec == [rxrdy : BOOLEAN, txrq : BOOLEAN, masked : BOOLEAN, dataend : BOOLEAN,
            open : BOOLEAN, full : BOOLEAN, buf : Nat, left : Nat, multi : BOOLEAN,
            stop : BOOLEAN, writing : BOOLEAN, timer : BOOLEAN, present : BOOLEAN]
CardRec == [state : {"tran", "data", "rcv"}, next : Nat, written : Seq(Nat)]
DriverRec == [at : {"idle", "block", "moved", "end", "done"}, write : BOOLEAN,
              todo : Nat, blocks : Nat, events : SUBSET {"block", "moved"},
              disturbed : BOOLEAN]
PanelRec == [at : {"idle", "tx_armed", "waiting"}, seen : SUBSET {"rx", "tx"}]

DmaTypes ==
    /\ chan \in [Channels -> ChannelRec]
    /\ pend \in [Users -> Channels \union {NoChannel}]
    /\ panelTimer \in BOOLEAN /\ usbBusy \in BOOLEAN
    /\ sdhi \in HostRec /\ card \in CardRec /\ panel \in PanelRec /\ driver \in DriverRec
    /\ memory \in Seq(Nat) /\ dmaJobs \in Nat
    /\ stage \in {"loader", "application"}

(* Who runs on which channel, and whose level is raised where. *)
Roles ==
    /\ \A c \in Channels :
         /\ chan[c].role = "rx" => c = RxChannel
         /\ chan[c].role = "tx" => c = TxChannel
         /\ chan[c].role = "dsp" => c \in {5, 8}
         /\ chan[c].ends = "card_in" => c = 8 /\ chan[c].role = "plain"
         /\ chan[c].armed => chan[c].role \in {"rx", "tx"}
    /\ pend["rx"] \in {NoChannel, RxChannel} /\ pend["tx"] \in {NoChannel, TxChannel}
    /\ pend["card"] \in {NoChannel, 8} /\ pend["dsp"] \in {NoChannel, 8}
    /\ pend["dma5"] \in {NoChannel, 5} /\ pend["usb"] \in {NoChannel, 2}
    /\ stage = "loader" => /\ driver.at = "idle" /\ ~usbBusy
                           /\ chan[5].role # "dsp" /\ pend["dma5"] = NoChannel

(* A level is up while the completion under it is not acknowledged. *)
PanelLevel(u, k) ==
    /\ pend[u] # NoChannel => chan[k].te /\ chan[k].role = u
    /\ chan[k].armed => panelTimer /\ chan[k].ie
PanelLevels == PanelLevel("rx", RxChannel) /\ PanelLevel("tx", TxChannel)
DspLevel == pend["dsp"] # NoChannel =>
    chan[8].te /\ chan[8].role = "dsp" /\ pend["card"] = NoChannel /\ driver.at = "idle"
CardLevel == pend["card"] # NoChannel =>
    chan[8].ends = "card_out" \/ (chan[8].ends = "card_in" /\ chan[8].te)
SoundLevel == pend["dma5"] # NoChannel => chan[5].te /\ chan[5].ie
UsbLevel ==
    /\ pend["usb"] # NoChannel => chan[2].te /\ chan[2].ie
    /\ usbBusy => chan[2].ie /\ pend["usb"] = NoChannel
AllRaised == \A c \in Channels : chan[c].te /\ chan[c].ie => \E u \in Users : pend[u] = c

ChannelInv ==
    Roles /\ PanelLevels /\ DspLevel /\ CardLevel /\ SoundLevel /\ UsbLevel /\ AllRaised

(* A half the task has armed is on its way, has ended, or was seen to end. *)
Underway(u, k) == u \in panel.seen \/ pend[u] # NoChannel \/ chan[k].armed
PanelWaits ==
    /\ panel.at # "idle" => panel.seen # {"rx", "tx"} /\ Underway("tx", TxChannel)
    /\ panel.at = "waiting" => Underway("rx", RxChannel)

(* The types, one by one, give the types of the next state. *)
LEMMA TypedNext ==
    ASSUME chan' \in [Channels -> ChannelRec],
           pend' \in [Users -> Channels \union {NoChannel}],
           panelTimer' \in BOOLEAN, usbBusy' \in BOOLEAN, sdhi' \in HostRec,
           card' \in CardRec, panel' \in PanelRec, driver' \in DriverRec,
           memory' \in Seq(Nat), dmaJobs' \in Nat, stage' \in {"loader", "application"}
    PROVE  DmaTypes'
  BY DEF DmaTypes, Channels, ChannelRec, Users, NoChannel, HostRec, CardRec, PanelRec, DriverRec

(* The channels that the board's engines serve are five. *)
LEMMA FiveChannels ==
    /\ RxChannel \in Channels /\ TxChannel \in Channels /\ RxChannel # TxChannel
    /\ 2 \in Channels /\ 5 \in Channels /\ 8 \in Channels /\ NoChannel \notin Channels
    /\ RxChannel \notin {2, 5, 8} /\ TxChannel \notin {2, 8}
    /\ stage # "loader" => TxChannel # 5
  BY DEF Channels, RxChannel, TxChannel, NoChannel

(* A register write to a channel drops at most the level of that channel.   *)
LEMMA OwnLevel ==
    ASSUME DmaTypes, Roles, NEW c \in Channels, NEW te \in BOOLEAN, NEW ie \in BOOLEAN
    PROVE  LET p == PendAfter(c, te, ie)
           IN  /\ p \in [Users -> Channels \union {NoChannel}]
               /\ \A u \in Users : p[u] = pend[u] \/ p[u] = NoChannel
               /\ \A u \in Users : pend[u] # c => p[u] = pend[u]
               /\ \A u \in Users : Dropped(u, c, te, ie) => p[u] = NoChannel
<1>1. \A u \in Users : Dropped(u, c, te, ie) => pend[u] \in {NoChannel, c}
  BY DEF DmaTypes, Roles, Users, Dropped
<1>2. NoChannel \in Channels \union {NoChannel}
  OBVIOUS
<1> DEFINE p == PendAfter(c, te, ie)
<1>3. p \in [Users -> Channels \union {NoChannel}]
  BY <1>2 DEF DmaTypes, PendAfter
<1>4. \A u \in Users : p[u] = IF Dropped(u, c, te, ie) THEN NoChannel ELSE pend[u]
  BY DEF PendAfter
<1> HIDE DEF p
<1> QED
  BY <1>1, <1>3, <1>4 DEF p

(* One channel is programmed, the others stay; the levels once it has been *)
(* started.                                                                *)
Programs(c, r) == chan' = [chan EXCEPT ![c] = r]
AfterStart(c) == PendAfter(c, FALSE, TRUE)

(* A channel given a new job; the others keep theirs. *)
LEMMA Programmed ==
    ASSUME DmaTypes, NEW c \in Channels, NEW r \in ChannelRec, Programs(c, r)
    PROVE  /\ chan' \in [Channels -> ChannelRec] /\ chan'[c] = r
           /\ \A d \in Channels : d # c => chan'[d] = chan[d]
  BY DEF DmaTypes, Programs

(* A store to a channel's control register, and the level it drops. *)
LEMMA Stored ==
    ASSUME DmaTypes, Roles, NEW c \in Channels, NEW te \in BOOLEAN, NEW ie \in BOOLEAN,
           Store(c, te, ie)
    PROVE  /\ chan' \in [Channels -> ChannelRec]
           /\ chan'[c].te = te /\ chan'[c].ie = ie /\ chan'[c].role = chan[c].role
           /\ chan'[c].ends = chan[c].ends /\ chan'[c].armed = chan[c].armed
           /\ \A d \in Channels : d # c => chan'[d] = chan[d]
           /\ pend' \in [Users -> Channels \union {NoChannel}]
           /\ \A u \in Users : pend'[u] = pend[u] \/ pend'[u] = NoChannel
           /\ \A u \in Users : pend[u] # c => pend'[u] = pend[u]
           /\ \A u \in Users : Dropped(u, c, te, ie) => pend'[u] = NoChannel
<1> DEFINE r == [chan[c] EXCEPT !.te = te, !.ie = ie]
<1>1. chan[c] \in ChannelRec
  BY DEF DmaTypes
<1>2. /\ r \in ChannelRec /\ r.te = te /\ r.ie = ie /\ r.role = chan[c].role
      /\ r.ends = chan[c].ends /\ r.armed = chan[c].armed
  BY <1>1 DEF ChannelRec
<1>3. chan' = [chan EXCEPT ![c] = r] /\ pend' = PendAfter(c, te, ie)
  BY DEF Store, DmaTypes
<1> HIDE DEF r
<1>4. /\ chan' \in [Channels -> ChannelRec] /\ chan'[c] = r
      /\ \A d \in Channels : d # c => chan'[d] = chan[d]
  <2>1. Programs(c, r)
    BY <1>3 DEF Programs
  <2> QED
    BY <1>2, <2>1, Programmed
<1>5. /\ pend' \in [Users -> Channels \union {NoChannel}]
      /\ \A u \in Users : pend'[u] = pend[u] \/ pend'[u] = NoChannel
      /\ \A u \in Users : pend[u] # c => pend'[u] = pend[u]
      /\ \A u \in Users : Dropped(u, c, te, ie) => pend'[u] = NoChannel
  BY <1>3, OwnLevel
<1> QED
  BY <1>2, <1>4, <1>5

(* A handler's store takes down the levels it acknowledges and no others.   *)
LEMMA StoreKeeps ==
    ASSUME DmaTypes, ChannelInv, NEW c \in Channels,
           NEW te \in BOOLEAN, NEW ie \in BOOLEAN, Store(c, te, ie),
           ~(te /\ ie), chan[c].armed => ie,
           c = 2 => ~usbBusy, te => c \notin {RxChannel, TxChannel} /\ ~ie,
           stage' = stage, panelTimer' = panelTimer, usbBusy' = usbBusy,
           stage = "loader" \/ driver'.at # "idle" => driver'.at = driver.at
    PROVE  ChannelInv'
<1>1. /\ chan'[c].te = te /\ chan'[c].ie = ie /\ chan'[c].role = chan[c].role
      /\ chan'[c].ends = chan[c].ends /\ chan'[c].armed = chan[c].armed
      /\ \A d \in Channels : d # c => chan'[d] = chan[d]
  BY Stored DEF ChannelInv
<1>2. /\ \A u \in Users : pend'[u] = pend[u] \/ pend'[u] = NoChannel
      /\ \A u \in Users : pend[u] # c => pend'[u] = pend[u]
      /\ \A u \in Users : Dropped(u, c, te, ie) => pend'[u] = NoChannel
  BY Stored DEF ChannelInv
<1>3. RxChannel' = RxChannel /\ TxChannel' = TxChannel
  BY DEF RxChannel, TxChannel
<1>4. {"rx", "tx", "card", "dsp", "dma5", "usb"} = Users
  BY DEF Users
<1> DEFINE drops(u) == Dropped(u, c, te, ie)
<1>11. /\ chan[c].role = "rx" /\ ~te => drops("rx")
       /\ chan[c].role = "tx" /\ ~te => drops("tx")
       /\ chan[c].role = "dsp" /\ c # 5 /\ ~te => drops("dsp")
       /\ chan[c].ends = "card_in" /\ ~te => drops("card")
       /\ c = 5 /\ (~te \/ ~ie) => drops("dma5")
       /\ c = pend["usb"] /\ (~te \/ ~ie) => drops("usb")
  BY DEF Dropped
<1> HIDE DEF drops
<1>12. \A u \in Users : drops(u) => pend'[u] = NoChannel
  BY <1>2 DEF drops
<1>5. Roles'
  BY <1>1, <1>2, <1>3, <1>4, FiveChannels DEF ChannelInv, Roles
<1>6. PanelLevels'
  <2>1. PanelLevel("rx", RxChannel)'
    BY <1>1, <1>2, <1>3, <1>4, <1>11, <1>12, FiveChannels DEF ChannelInv, Roles, PanelLevels, PanelLevel
  <2>2. PanelLevel("tx", TxChannel)'
    BY <1>1, <1>2, <1>3, <1>4, <1>11, <1>12, FiveChannels DEF ChannelInv, Roles, PanelLevels, PanelLevel
  <2> QED
    BY <2>1, <2>2 DEF PanelLevels
<1>7. DspLevel'
  BY <1>1, <1>2, <1>4, <1>11, <1>12, FiveChannels DEF ChannelInv, Roles, DspLevel
<1>8. SoundLevel'
  BY <1>1, <1>2, <1>4, <1>11, <1>12, FiveChannels DEF ChannelInv, Roles, SoundLevel
<1>9. UsbLevel'
  BY <1>1, <1>2, <1>4, <1>11, <1>12, FiveChannels DEF ChannelInv, Roles, UsbLevel
<1>10. AllRaised'
  BY <1>1, <1>2, <1>4 DEF ChannelInv, AllRaised
<1>13. CardLevel'
  BY <1>1, <1>2, <1>4, <1>11, <1>12, FiveChannels DEF ChannelInv, CardLevel
<1> QED
  BY <1>5, <1>6, <1>7, <1>8, <1>9, <1>10, <1>13 DEF ChannelInv

(* Starting a channel acknowledges what had ended on it. *)
LEMMA StartDrops ==
    ASSUME DmaTypes, ChannelInv, NEW c \in Channels
    PROVE  LET p == PendAfter(c, FALSE, TRUE)
           IN  /\ p \in [Users -> Channels \union {NoChannel}]
               /\ \A u \in Users : p[u] = pend[u] \/ p[u] = NoChannel
               /\ \A u \in Users : pend[u] # c => p[u] = pend[u]
               /\ chan[c].role = "rx" => p["rx"] = NoChannel
               /\ chan[c].role = "tx" => p["tx"] = NoChannel
               /\ chan[c].role = "dsp" /\ c # 5 => p["dsp"] = NoChannel
               /\ c = 5 => p["dma5"] = NoChannel
               /\ c = pend["usb"] => p["usb"] = NoChannel
<1> DEFINE p == PendAfter(c, FALSE, TRUE)
           drops(u) == Dropped(u, c, FALSE, TRUE)
<1>1. /\ p \in [Users -> Channels \union {NoChannel}]
      /\ \A u \in Users : p[u] = pend[u] \/ p[u] = NoChannel
      /\ \A u \in Users : pend[u] # c => p[u] = pend[u]
      /\ \A u \in Users : drops(u) => p[u] = NoChannel
  BY OwnLevel DEF ChannelInv
<1>2. /\ chan[c].role = "rx" => drops("rx")
      /\ chan[c].role = "tx" => drops("tx")
      /\ chan[c].role = "dsp" /\ c # 5 => drops("dsp")
      /\ c = 5 => drops("dma5")
      /\ c = pend["usb"] => drops("usb")
  BY DEF Dropped
<1>3. {"rx", "tx", "card", "dsp", "dma5", "usb"} = Users
  BY DEF Users
<1> HIDE DEF p, drops
<1> QED
  BY <1>1, <1>2, <1>3 DEF p

(* A half of the panel is armed. *)
LEMMA ArmKeeps ==
    ASSUME DmaTypes, ChannelInv, NEW u \in {"rx", "tx"},
           NEW c, c = (IF u = "rx" THEN RxChannel ELSE TxChannel),
           StartPanelHalf(u, c)
    PROVE  /\ ChannelInv' /\ chan'[c].armed /\ chan' \in [Channels -> ChannelRec]
           /\ pend' \in [Users -> Channels \union {NoChannel}]
           /\ \A d \in Channels : d # c => chan'[d] = chan[d]
           /\ \A v \in Users : pend[v] # c => pend'[v] = pend[v]
<1> DEFINE r == [ends |-> "panel", role |-> u, armed |-> TRUE, te |-> FALSE, ie |-> TRUE]
<1>0. c \in Channels /\ r \in ChannelRec
  BY FiveChannels DEF ChannelRec
<1>1. /\ r.ends = "panel" /\ r.role = u /\ r.armed = TRUE /\ r.te = FALSE /\ r.ie = TRUE
      /\ Programs(c, r) /\ panelTimer' = TRUE
      /\ pend' = PendAfter(c, FALSE, TRUE)
      /\ driver' = driver /\ usbBusy' = usbBusy /\ stage' = stage
  BY DEF StartPanelHalf, Started, cardVars, Programs
<1> HIDE DEF r
<1>2. /\ chan' \in [Channels -> ChannelRec] /\ chan'[c] = r
      /\ \A d \in Channels : d # c => chan'[d] = chan[d]
  BY <1>0, <1>1, Programmed
<1>3. /\ pend' \in [Users -> Channels \union {NoChannel}]
      /\ \A v \in Users : pend'[v] = pend[v] \/ pend'[v] = NoChannel
      /\ \A v \in Users : pend[v] # c => pend'[v] = pend[v]
      /\ chan[c].role = "rx" => pend'["rx"] = NoChannel
      /\ chan[c].role = "tx" => pend'["tx"] = NoChannel
      /\ c = 5 => pend'["dma5"] = NoChannel
  BY <1>0, <1>1, StartDrops
<1>4. {"rx", "tx", "card", "dsp", "dma5", "usb"} = Users
  BY DEF Users
<1>5. RxChannel' = RxChannel /\ TxChannel' = TxChannel
  BY <1>1 DEF RxChannel, TxChannel
<1>6. (u = "rx" /\ c = RxChannel) \/ (u = "tx" /\ c = TxChannel)
  OBVIOUS
<1>7. Roles'
  <2>1. \A d \in Channels :
         /\ chan'[d].role = "rx" => d = RxChannel
         /\ chan'[d].role = "tx" => d = TxChannel
         /\ chan'[d].role = "dsp" => d \in {5, 8}
         /\ chan'[d].ends = "card_in" => d = 8 /\ chan'[d].role = "plain"
         /\ chan'[d].armed => chan'[d].role \in {"rx", "tx"}
    BY <1>1, <1>2, <1>6 DEF ChannelInv, Roles
  <2>2. /\ pend'["rx"] \in {NoChannel, RxChannel} /\ pend'["tx"] \in {NoChannel, TxChannel}
        /\ pend'["card"] \in {NoChannel, 8} /\ pend'["dsp"] \in {NoChannel, 8}
        /\ pend'["dma5"] \in {NoChannel, 5} /\ pend'["usb"] \in {NoChannel, 2}
    BY <1>3, <1>4 DEF ChannelInv, Roles
  <2>3. chan'[5].role # "dsp" \/ chan'[5] = chan[5]
    BY <1>1, <1>2, <1>6, FiveChannels
  <2> QED
    BY <1>1, <1>3, <1>4, <1>5, <2>1, <2>2, <2>3 DEF ChannelInv, Roles
<1>8. PanelLevels'
  <2>1. PanelLevel("rx", RxChannel)'
    BY <1>1, <1>2, <1>3, <1>4, <1>5, <1>6, FiveChannels DEF ChannelInv, Roles, PanelLevels, PanelLevel
  <2>2. PanelLevel("tx", TxChannel)'
    BY <1>1, <1>2, <1>3, <1>4, <1>5, <1>6, FiveChannels DEF ChannelInv, Roles, PanelLevels, PanelLevel
  <2> QED
    BY <2>1, <2>2 DEF PanelLevels
<1>9. DspLevel'
  BY <1>1, <1>2, <1>3, <1>4, <1>6, FiveChannels DEF ChannelInv, Roles, DspLevel
<1>10. SoundLevel'
  BY <1>1, <1>2, <1>3, <1>4, <1>6, FiveChannels DEF ChannelInv, SoundLevel
<1>11. UsbLevel'
  BY <1>1, <1>2, <1>3, <1>4, <1>6, FiveChannels DEF ChannelInv, UsbLevel
<1>13. CardLevel'
  BY <1>1, <1>2, <1>3, <1>4, <1>6, FiveChannels DEF ChannelInv, Roles, CardLevel
<1>12. ASSUME NEW d \in Channels, chan'[d].te, chan'[d].ie
       PROVE  \E v \in Users : pend'[v] = d
  <2>1. d # c
    BY <1>1, <1>2, <1>12
  <2>2. PICK v \in Users : pend[v] = d
    BY <1>2, <1>12, <2>1 DEF ChannelInv, AllRaised
  <2> QED
    BY <1>3, <2>1, <2>2
<1> QED
  BY <1>1, <1>2, <1>3, <1>7, <1>8, <1>9, <1>10, <1>11, <1>12, <1>13 DEF ChannelInv, AllRaised

(* A copy is made inside the store that starts it: its level goes up, unless *)
(* it is up.                                                                *)
LEMMA CopyKeeps ==
    ASSUME DmaTypes, ChannelInv, NEW u \in {"card", "dsp", "dma5"},
           NEW c, c = (IF u = "dma5" THEN 5 ELSE 8), stage = "application",
           NEW r \in ChannelRec, Programs(c, r), r.te, r.ie, ~r.armed,
           u = "card" => r.role = "plain" /\ driver.at = "block"
                           /\ r.ends \in {"card_in", "card_out"},
           u # "card" => r.role = "dsp" /\ r.ends = "dsp",
           u = "dsp" => pend["card"] = NoChannel /\ driver'.at = "idle",
           NEW p, p = AfterStart(c), pend' = Raise(p, u, c),
           driver'.at # "idle" => driver'.at = driver.at \/ u = "card",
           usbBusy' = usbBusy, panelTimer' = panelTimer, stage' = stage
    PROVE  /\ ChannelInv' /\ pend'[u] = c /\ chan' \in [Channels -> ChannelRec]
           /\ pend' \in [Users -> Channels \union {NoChannel}]
           /\ \A d \in Channels : d # c => chan'[d] = chan[d]
           /\ \A v \in Users : v # u /\ pend[v] # c => pend'[v] = pend[v]
<1>0. c \in Channels /\ u \in Users
  BY FiveChannels DEF Users
<1>1. pend' = IF p[u] = NoChannel THEN [p EXCEPT ![u] = c] ELSE p
  BY DEF Raise
<1>2. /\ p \in [Users -> Channels \union {NoChannel}]
      /\ \A v \in Users : p[v] = pend[v] \/ p[v] = NoChannel
      /\ \A v \in Users : pend[v] # c => p[v] = pend[v]
      /\ chan[c].role = "tx" => p["tx"] = NoChannel
      /\ chan[c].role = "dsp" /\ c # 5 => p["dsp"] = NoChannel
      /\ c = 5 => p["dma5"] = NoChannel
  BY <1>0, StartDrops DEF AfterStart
<1>3. /\ chan' \in [Channels -> ChannelRec] /\ chan'[c] = r
      /\ \A d \in Channels : d # c => chan'[d] = chan[d]
  BY <1>0, <1>1, Programmed
<1>4. {"rx", "tx", "card", "dsp", "dma5", "usb"} = Users
  BY DEF Users
<1>5. pend[u] \in {c, NoChannel} /\ c # NoChannel
  BY <1>0, FiveChannels DEF ChannelInv, Roles
<1>6. /\ pend' \in [Users -> Channels \union {NoChannel}] /\ pend'[u] = c
      /\ \A v \in Users : v # u => pend'[v] = p[v]
  BY <1>0, <1>1, <1>2, <1>5
<1>7. RxChannel' = RxChannel /\ TxChannel' = TxChannel
  BY <1>1 DEF RxChannel, TxChannel
<1>8. (u \in {"card", "dsp"} /\ c = 8) \/ (u = "dma5" /\ c = 5)
  OBVIOUS
<1>9. stage # "loader" /\ c \notin {RxChannel, TxChannel}
  BY <1>8, FiveChannels
<1>16. pend'["rx"] = pend["rx"] /\ pend'["tx"] = pend["tx"] /\ pend'["usb"] = pend["usb"]
  <2>1. pend'["rx"] = p["rx"] /\ pend'["tx"] = p["tx"] /\ pend'["usb"] = p["usb"]
    BY <1>4, <1>6, <1>8
  <2>2. pend["rx"] # c /\ pend["tx"] # c /\ pend["usb"] # c
    BY <1>5, <1>8, <1>9 DEF ChannelInv, Roles
  <2> QED
    BY <1>2, <1>4, <2>1, <2>2
<1>17. /\ (panelTimer => panelTimer') /\ (usbBusy' => usbBusy)
       /\ chan'[RxChannel] = chan[RxChannel] /\ chan'[TxChannel] = chan[TxChannel]
       /\ chan'[2] = chan[2]
  BY <1>1, <1>3, <1>8, <1>9, FiveChannels
<1>10. Roles'
  <2>1. \A d \in Channels :
         /\ chan'[d].role = "rx" => d = RxChannel
         /\ chan'[d].role = "tx" => d = TxChannel
         /\ chan'[d].role = "dsp" => d \in {5, 8}
         /\ chan'[d].ends = "card_in" => d = 8 /\ chan'[d].role = "plain"
         /\ chan'[d].armed => chan'[d].role \in {"rx", "tx"}
    <3>1. /\ r.role # "rx" /\ r.role # "tx" /\ (r.role = "dsp" => c \in {5, 8})
          /\ (r.ends = "card_in" => c = 8 /\ r.role = "plain") /\ ~r.armed
      BY <1>1, <1>8
    <3> QED
      BY <1>3, <3>1 DEF ChannelInv, Roles
  <2>2. /\ pend'["card"] \in {NoChannel, 8} /\ pend'["dsp"] \in {NoChannel, 8}
        /\ pend'["dma5"] \in {NoChannel, 5}
    <3>1. CASE u = "dma5"
      BY <1>2, <1>4, <1>6, <1>8, <3>1 DEF ChannelInv, Roles
    <3>2. CASE u # "dma5"
      <4>1. c = 8 /\ pend'["dma5"] = p["dma5"]
        BY <1>4, <1>6, <1>8, <3>2
      <4>2. p["dma5"] \in {NoChannel, 5} /\ p["card"] \in {NoChannel, 8} /\ p["dsp"] \in {NoChannel, 8}
        BY <1>2, <1>4 DEF ChannelInv, Roles
      <4>3. /\ pend'["card"] \in {c, p["card"]} /\ pend'["dsp"] \in {c, p["dsp"]}
        BY <1>4, <1>6
      <4> QED
        BY <4>1, <4>2, <4>3
    <3> QED
      BY <3>1, <3>2
  <2> QED
    BY <1>1, <1>7, <1>9, <1>16, <2>1, <2>2 DEF ChannelInv, Roles
<1>11. PanelLevels'
  <2>1. PanelLevel("rx", RxChannel)'
    BY <1>7, <1>16, <1>17 DEF ChannelInv, PanelLevels, PanelLevel, NoChannel
  <2>2. PanelLevel("tx", TxChannel)'
    BY <1>7, <1>16, <1>17 DEF ChannelInv, PanelLevels, PanelLevel, NoChannel
  <2> QED
    BY <2>1, <2>2 DEF PanelLevels
<1>12. DspLevel'
  <2>1. CASE u = "dsp"
    BY <2>1, <1>1, <1>2, <1>3, <1>4, <1>6, <1>8 DEF ChannelInv, Roles, DspLevel
  <2>2. CASE u # "dsp"
    BY <2>2, <1>1, <1>2, <1>3, <1>4, <1>6, <1>8, FiveChannels DEF ChannelInv, Roles, DspLevel
  <2> QED
    BY <2>1, <2>2
<1>13. SoundLevel'
  BY <1>1, <1>2, <1>3, <1>4, <1>6, <1>8, FiveChannels DEF ChannelInv, SoundLevel
<1>14. UsbLevel'
  BY <1>16, <1>17 DEF ChannelInv, UsbLevel, NoChannel
<1>18. CardLevel'
  <2>1. CASE u = "card"
    BY <2>1, <1>3, <1>8 DEF CardLevel
  <2>2. CASE u # "card"
    <3>1. pend'["card"] = pend["card"] \/ pend'["card"] = NoChannel
      BY <1>2, <1>4, <1>6, <2>2
    <3>2. u = "dsp" => pend["card"] = NoChannel
      OBVIOUS
    <3>3. u = "dma5" => chan'[8] = chan[8]
      BY <1>3, <1>8, FiveChannels
    <3> QED
      BY <2>2, <3>1, <3>2, <3>3 DEF ChannelInv, CardLevel, NoChannel
  <2> QED
    BY <2>1, <2>2
<1>15. ASSUME NEW d \in Channels, chan'[d].te, chan'[d].ie
       PROVE  \E v \in Users : pend'[v] = d
  <2>1. CASE d = c
    BY <2>1, <1>0, <1>6
  <2>2. CASE d # c
    <3>1. PICK v \in Users : pend[v] = d
      BY <1>3, <1>15, <2>2 DEF ChannelInv, AllRaised
    <3>2. p[v] = d /\ v # u
      BY <1>0, <1>2, <1>5, <2>2, <3>1, FiveChannels
    <3> QED
      BY <1>6, <3>2
  <2> QED
    BY <2>1, <2>2
<1> QED
  BY <1>1, <1>2, <1>3, <1>6, <1>10, <1>11, <1>12, <1>13, <1>14, <1>15, <1>18 DEF ChannelInv, AllRaised

(* The card's job: how much has been moved, and where to. *)
Moved == driver.blocks - driver.todo
Brought == IF driver.write THEN card.written ELSE memory

(* Every block has been moved, in order, and the card waits for a command. *)
AllMoved ==
    /\ driver.todo = 0 /\ ~sdhi.timer /\ card.state = "tran"
    /\ Brought = Through(driver.blocks)

(* The block in the host's buffer is the one after those moved. *)
NextBlock(buffered) ==
    /\ buffered => ~sdhi.full /\ sdhi.buf = Moved + 1 /\ card.next = Moved + 2
    /\ buffered /\ ~sdhi.multi => card.state = "tran"
    /\ ~buffered => card.next = Moved + 1

(* The data phase goes on: the timer runs, or the block has been announced. *)
GoesOn ==
    /\ driver.todo > 0 /\ sdhi.left = driver.todo /\ sdhi.writing = driver.write
    /\ Brought = Through(Moved)
    /\ sdhi.stop = (driver.blocks > 1) /\ sdhi.multi = (driver.blocks > 1)
    /\ sdhi.timer = ~(sdhi.rxrdy \/ sdhi.txrq \/ "block" \in driver.events)
    /\ ~driver.write => NextBlock(~sdhi.timer)

(* While a job lasts, all was moved, or the card is gone, or it goes on.   *)
JobInv ==
    /\ stage = "application" /\ driver.todo <= driver.blocks
    /\ sdhi.open = ~driver.disturbed
    /\ driver.at = "block" => driver.todo > 0
    /\ driver.at \in {"end", "done"} => driver.todo = 0
    /\ driver.at = "done" \/ ~sdhi.masked
    /\ driver.at = "done" => sdhi.dataend
    /\ driver.at = "moved" => "moved" \in driver.events \/ pend["card"] # NoChannel
    /\ IF sdhi.dataend THEN AllMoved ELSE sdhi.open => GoesOn

DmaInv == DmaTypes /\ ChannelInv /\ PanelWaits /\ (driver.at # "idle" => JobInv)

(* What leaves the panel's task, halves and levels alone. *)
LEMMA PanelUntouched ==
    ASSUME PanelWaits, panel' = panel, stage' = stage,
           \A u \in {"rx", "tx"} : pend'[u] = pend[u],
           chan'[RxChannel] = chan[RxChannel], chan'[TxChannel] = chan[TxChannel]
    PROVE  PanelWaits'
<1>1. RxChannel' = RxChannel /\ TxChannel' = TxChannel
  BY DEF RxChannel, TxChannel
<1> QED
  BY <1>1 DEF PanelWaits, Underway, NoChannel

(* What leaves the card, its host and its driver alone. *)
LEMMA CardUntouched ==
    ASSUME driver.at # "idle" => JobInv, UNCHANGED <<cardVars, stage>>,
           driver.at = "moved" => pend'["card"] = pend["card"]
    PROVE  driver'.at # "idle" => JobInv'
<1>1. sdhi' = sdhi /\ card' = card /\ driver' = driver /\ memory' = memory /\ stage' = stage
  BY DEF cardVars
<1>2. Moved' = Moved /\ Brought' = Brought
  BY <1>1 DEF Moved, Brought
<1>3. AllMoved => AllMoved'
  BY <1>1, <1>2 DEF AllMoved, Through
<1>4. GoesOn => GoesOn'
  BY <1>1, <1>2 DEF GoesOn, NextBlock, Through
<1> QED
  BY <1>1, <1>3, <1>4 DEF JobInv, NoChannel

(* The actions of the panel. *)
LEMMA PanelSteps ==
    ASSUME DmaInv, PanelSide
    PROVE  DmaInv'
<1>0. /\ DmaTypes /\ ChannelInv /\ PanelWaits /\ (driver.at # "idle" => JobInv)
      /\ Roles /\ PanelLevels
      /\ {"rx", "tx", "card", "dsp", "dma5", "usb"} = Users
  BY DEF DmaInv, ChannelInv, Users
<1>1. CASE ArmTx
  <2>1. /\ StartPanelHalf("tx", TxChannel) /\ panel' = [at |-> "tx_armed", seen |-> {}]
        /\ dmaJobs' = dmaJobs + 1 /\ UNCHANGED <<usbBusy, cardVars, stage>>
        /\ panelTimer' = TRUE
    BY <1>1 DEF ArmTx, Job, StartPanelHalf
  <2>2. /\ ChannelInv' /\ chan'[TxChannel].armed /\ chan' \in [Channels -> ChannelRec]
        /\ pend' \in [Users -> Channels \union {NoChannel}]
        /\ \A v \in Users : pend[v] # TxChannel => pend'[v] = pend[v]
    BY <1>0, <2>1, ArmKeeps
  <2>3. DmaTypes'
    <3>1. panel' \in PanelRec /\ dmaJobs' \in Nat
      BY <1>0, <2>1 DEF DmaTypes, PanelRec
    <3> QED
      BY <1>0, <2>1, <2>2, <3>1, TypedNext DEF DmaTypes, cardVars
  <2>4. TxChannel' = TxChannel
    BY <2>1 DEF TxChannel
  <2>5. PanelWaits'
    BY <2>1, <2>2, <2>4 DEF PanelWaits, Underway
  <2>6. pend'["card"] = pend["card"]
    BY <1>0, <2>2, FiveChannels DEF Roles
  <2>7. driver'.at # "idle" => JobInv'
    BY <1>0, <2>1, <2>6, CardUntouched
  <2> QED
    BY <2>2, <2>3, <2>5, <2>7 DEF DmaInv
<1>2. CASE ArmRx
  <2>1. /\ StartPanelHalf("rx", RxChannel) /\ panel' = [panel EXCEPT !.at = "waiting"]
        /\ panel.at = "tx_armed"
        /\ dmaJobs' = dmaJobs /\ UNCHANGED <<usbBusy, cardVars, stage>>
        /\ panelTimer' = TRUE
    BY <1>2 DEF ArmRx, StartPanelHalf
  <2>2. /\ ChannelInv' /\ chan'[RxChannel].armed /\ chan' \in [Channels -> ChannelRec]
        /\ pend' \in [Users -> Channels \union {NoChannel}]
        /\ \A d \in Channels : d # RxChannel => chan'[d] = chan[d]
        /\ \A v \in Users : pend[v] # RxChannel => pend'[v] = pend[v]
    BY <1>0, <2>1, ArmKeeps
  <2>3. DmaTypes'
    <3>1. panel' \in PanelRec /\ dmaJobs' \in Nat
      BY <1>0, <2>1 DEF DmaTypes, PanelRec
    <3> QED
      BY <1>0, <2>1, <2>2, <3>1, TypedNext DEF DmaTypes, cardVars
  <2>4. TxChannel' = TxChannel /\ RxChannel' = RxChannel
    BY <2>1 DEF TxChannel, RxChannel
  <2>5. PanelWaits'
    <3>1. pend'["tx"] = pend["tx"] /\ chan'[TxChannel] = chan[TxChannel]
      BY <1>0, <2>2, FiveChannels DEF Roles
    <3>2. panel'.at = "waiting" /\ panel'.seen = panel.seen
      BY <1>0, <2>1 DEF DmaTypes, PanelRec
    <3>3. panel.seen # {"rx", "tx"} /\ Underway("tx", TxChannel)
      BY <1>0, <2>1 DEF PanelWaits
    <3> QED
      BY <2>2, <2>4, <3>1, <3>2, <3>3 DEF PanelWaits, Underway, NoChannel
  <2>6. pend'["card"] = pend["card"]
    BY <1>0, <2>2, FiveChannels DEF Roles
  <2>7. driver'.at # "idle" => JobInv'
    BY <1>0, <2>1, <2>6, CardUntouched
  <2> QED
    BY <2>2, <2>3, <2>5, <2>7 DEF DmaInv
<1>4. ASSUME NEW u \in {"rx", "tx"}, PanelHandler(u)
      PROVE  DmaInv'
  <2> DEFINE c == IF u = "rx" THEN RxChannel ELSE TxChannel
             other == IF u = "rx" THEN TxChannel ELSE RxChannel
  <2>0. (u = "rx" /\ c = RxChannel) \/ (u = "tx" /\ c = TxChannel)
    OBVIOUS
  <2>1. /\ pend[u] = c /\ Store(c, FALSE, chan[c].ie)
        /\ panel' = [at |-> IF panel.seen \union {u} = {"rx", "tx"} THEN "idle"
                            ELSE panel.at,
                     seen |-> panel.seen \union {u}]
        /\ UNCHANGED <<panelTimer, usbBusy, cardVars, stage, dmaJobs>>
    BY <1>4 DEF PanelHandler
  <2> HIDE DEF c
  <2>2. c \in Channels /\ chan[c].ie \in BOOLEAN /\ u \in Users /\ c \notin {2, 8}
        /\ FALSE \in BOOLEAN
    BY <1>0, <2>0, FiveChannels DEF DmaTypes, ChannelRec
  <2>3. ChannelInv'
    <3>1. chan[c].armed => chan[c].ie
      BY <1>0, <2>0 DEF PanelLevels, PanelLevel
    <3>2. driver' = driver
      BY <2>1 DEF cardVars
    <3> QED
      BY <1>0, <2>1, <2>2, <3>1, <3>2, StoreKeeps
  <2>4. /\ chan' \in [Channels -> ChannelRec] /\ chan'[c].armed = chan[c].armed
        /\ \A d \in Channels : d # c => chan'[d] = chan[d]
    BY <1>0, <2>1, <2>2, Stored
  <2>5. /\ pend' \in [Users -> Channels \union {NoChannel}]
        /\ \A v \in Users : pend[v] # c => pend'[v] = pend[v]
    BY <1>0, <2>1, <2>2, Stored
  <2>6. DmaTypes'
    <3>1. panel' \in PanelRec
      BY <1>0, <2>1 DEF DmaTypes, PanelRec
    <3> QED
      BY <1>0, <2>1, <2>4, <2>5, <3>1, TypedNext DEF DmaTypes, cardVars
  <2>7. TxChannel' = TxChannel /\ RxChannel' = RxChannel
    BY <2>1 DEF TxChannel, RxChannel
  <2>8. /\ \A v \in {"rx", "tx"} : v # u => pend'[v] = pend[v]
        /\ chan'[RxChannel].armed = chan[RxChannel].armed
        /\ chan'[TxChannel].armed = chan[TxChannel].armed
    BY <1>0, <2>0, <2>4, <2>5, FiveChannels DEF Roles
  <2>9. PanelWaits'
    <3>1. panel'.seen = panel.seen \union {u} /\ (panel'.at = panel.at \/ panel'.at = "idle")
          /\ (panel.seen \union {u} = {"rx", "tx"} => panel'.at = "idle")
      BY <2>1
    <3>2. ASSUME NEW v \in {"rx", "tx"}, NEW k \in {RxChannel, TxChannel}, Underway(v, k)
          PROVE  v \in panel'.seen \/ pend'[v] # NoChannel \/ chan'[k].armed
      BY <2>8, <3>1, <3>2 DEF Underway
    <3> QED
      BY <1>0, <2>7, <3>1, <3>2 DEF PanelWaits, Underway, NoChannel
  <2>10. pend'["card"] = pend["card"]
    BY <1>0, <2>2, <2>5, FiveChannels DEF Roles
  <2>11. driver'.at # "idle" => JobInv'
    BY <1>0, <2>1, <2>10, CardUntouched
  <2> QED
    BY <2>3, <2>6, <2>9, <2>11 DEF DmaInv
<1>3. CASE PanelDone
  <2> DEFINE armedFor(u) == \E c \in ArmedFor(u) : chan[c].ie
  <2>1. /\ panelTimer' = FALSE
        /\ chan' = [c \in Channels |->
                      IF chan[c].armed THEN [chan[c] EXCEPT !.armed = FALSE, !.te = TRUE]
                      ELSE chan[c]]
        /\ pend' = [u \in Users |->
                      IF u \in {"rx", "tx"} /\ armedFor(u)
                      THEN CHOOSE c \in ArmedFor(u) : chan[c].ie ELSE pend[u]]
        /\ UNCHANGED <<usbBusy, cardVars, panel, stage, dmaJobs>>
    BY <1>3 DEF PanelDone, Vector
  <2>2. ASSUME NEW c \in Channels
        PROVE  /\ chan'[c] \in ChannelRec /\ chan'[c].role = chan[c].role
               /\ chan'[c].ends = chan[c].ends /\ chan'[c].ie = chan[c].ie
               /\ ~chan'[c].armed
               /\ chan'[c].te = (chan[c].te \/ chan[c].armed)
    <3> DEFINE r == chan[c]
               s == [r EXCEPT !.armed = FALSE, !.te = TRUE]
    <3>1. r \in ChannelRec
      BY <1>0 DEF DmaTypes
    <3>2. chan'[c] = IF r.armed THEN s ELSE r
      BY <2>1
    <3> HIDE DEF r
    <3>3. /\ s \in ChannelRec /\ s.role = r.role /\ s.ends = r.ends /\ s.ie = r.ie
          /\ s.armed = FALSE /\ s.te = TRUE
      BY <3>1 DEF ChannelRec
    <3> HIDE DEF s
    <3>4. r.armed \in BOOLEAN /\ r.te \in BOOLEAN
      BY <3>1 DEF ChannelRec
    <3> QED
      BY <3>1, <3>2, <3>3, <3>4 DEF r
  <2>3. chan' \in [Channels -> ChannelRec]
    BY <2>1, <2>2
  <2>4. /\ ArmedFor("rx") = {} \/ ArmedFor("rx") = {RxChannel}
        /\ ArmedFor("tx") = {} \/ ArmedFor("tx") = {TxChannel}
        /\ (chan[RxChannel].armed /\ chan[RxChannel].role = "rx") <=> RxChannel \in ArmedFor("rx")
        /\ (chan[TxChannel].armed /\ chan[TxChannel].role = "tx") <=> TxChannel \in ArmedFor("tx")
    BY <1>0, FiveChannels DEF ArmedFor, Roles
  <2>5. /\ chan[RxChannel].armed => chan[RxChannel].role = "rx" /\ chan[RxChannel].ie
        /\ chan[TxChannel].armed => chan[TxChannel].role = "tx" /\ chan[TxChannel].ie
    BY <1>0, FiveChannels DEF PanelLevels, PanelLevel, Roles
  <2>6. /\ chan[RxChannel].armed => armedFor("rx") /\ (CHOOSE c \in ArmedFor("rx") : chan[c].ie) = RxChannel
        /\ ~chan[RxChannel].armed => ~armedFor("rx")
    BY <2>4, <2>5
  <2>7. /\ chan[TxChannel].armed => armedFor("tx") /\ (CHOOSE c \in ArmedFor("tx") : chan[c].ie) = TxChannel
        /\ ~chan[TxChannel].armed => ~armedFor("tx")
    BY <2>4, <2>5
  <2> HIDE DEF armedFor
  <2>8. /\ pend'["rx"] = IF chan[RxChannel].armed THEN RxChannel ELSE pend["rx"]
        /\ pend'["tx"] = IF chan[TxChannel].armed THEN TxChannel ELSE pend["tx"]
        /\ \A u \in Users : u \notin {"rx", "tx"} => pend'[u] = pend[u]
    BY <1>0, <2>1, <2>6, <2>7
  <2>9. pend' \in [Users -> Channels \union {NoChannel}]
    <3>1. \A u \in Users : pend'[u] \in Channels \union {NoChannel}
      BY <1>0, <2>8, FiveChannels DEF DmaTypes
    <3> DEFINE f(u) == IF u \in {"rx", "tx"} /\ armedFor(u)
                      THEN CHOOSE c \in ArmedFor(u) : chan[c].ie ELSE pend[u]
    <3>2. pend' = [u \in Users |-> f(u)]
      BY <2>1
    <3> HIDE DEF f
    <3> QED
      BY <3>1, <3>2
  <2>10. TxChannel' = TxChannel /\ RxChannel' = RxChannel
    BY <2>1 DEF TxChannel, RxChannel
  <2>11. /\ sdhi' = sdhi /\ card' = card /\ driver' = driver /\ memory' = memory
         /\ stage' = stage /\ panel' = panel /\ dmaJobs' = dmaJobs /\ (usbBusy' <=> usbBusy)
         /\ UNCHANGED <<cardVars, stage>>
         /\ \A u \in {"card", "dsp", "dma5", "usb"} : pend'[u] = pend[u]
    BY <1>0, <2>1, <2>8 DEF cardVars
  <2>12. DmaTypes'
    <3>1. panelTimer' \in BOOLEAN /\ usbBusy' \in BOOLEAN
      BY <1>0, <2>1 DEF DmaTypes
    <3> QED
      BY <1>0, <2>3, <2>9, <2>11, <3>1, TypedNext DEF DmaTypes
  <2>13. Roles'
    BY <1>0, <2>2, <2>8, <2>10, <2>11, FiveChannels DEF Roles
  <2>14. PanelLevels'
    <3>1. PanelLevel("rx", RxChannel)'
      BY <1>0, <2>2, <2>5, <2>8, <2>10, FiveChannels DEF PanelLevels, PanelLevel, NoChannel
    <3>2. PanelLevel("tx", TxChannel)'
      BY <1>0, <2>2, <2>5, <2>8, <2>10, FiveChannels DEF PanelLevels, PanelLevel, NoChannel
    <3> QED
      BY <3>1, <3>2 DEF PanelLevels
  <2>15. DspLevel' /\ CardLevel' /\ SoundLevel' /\ UsbLevel'
    <3>1. DspLevel /\ CardLevel /\ SoundLevel /\ UsbLevel
      BY <1>0 DEF ChannelInv
    <3>2. /\ pend'["card"] = pend["card"] /\ pend'["dsp"] = pend["dsp"]
          /\ pend'["dma5"] = pend["dma5"] /\ pend'["usb"] = pend["usb"]
      BY <2>11
    <3>3. /\ chan[8].te => chan'[8].te /\ chan'[8].role = chan[8].role
          /\ chan'[8].ends = chan[8].ends
      BY <2>2, FiveChannels
    <3>4. /\ chan[5].te => chan'[5].te /\ chan'[5].ie = chan[5].ie
      BY <2>2, FiveChannels
    <3>5. /\ chan[2].te => chan'[2].te /\ chan'[2].ie = chan[2].ie
      BY <2>2, FiveChannels
    <3>6. DspLevel'
      BY <2>2, <2>11, <3>1, <3>2, <3>3, FiveChannels DEF DspLevel, NoChannel
    <3>7. SoundLevel'
      BY <2>2, <3>1, <3>2, <3>4, FiveChannels DEF SoundLevel, NoChannel
    <3>8. UsbLevel'
      BY <2>2, <2>11, <3>1, <3>2, <3>5, FiveChannels DEF UsbLevel, NoChannel
    <3>9. CardLevel'
      BY <3>1, <3>2, <3>3, FiveChannels DEF CardLevel, NoChannel
    <3> QED
      BY <3>6, <3>7, <3>8, <3>9
  <2>16. ASSUME NEW c \in Channels, chan'[c].te, chan'[c].ie
         PROVE  \E u \in Users : pend'[u] = c
    <3>1. CASE chan[c].armed
      <4>1. c \in {RxChannel, TxChannel}
        BY <1>0, <3>1 DEF Roles
      <4> QED
        BY <1>0, <2>8, <3>1, <4>1
    <3>2. CASE ~chan[c].armed
      <4>1. chan[c].te /\ chan[c].ie
        BY <2>2, <2>16, <3>2
      <4>2. PICK u \in Users : pend[u] = c
        BY <1>0, <4>1 DEF ChannelInv, AllRaised
      <4>3. (u = "rx" => c = RxChannel) /\ (u = "tx" => c = TxChannel)
        BY <1>0, <4>2, FiveChannels DEF Roles
      <4> QED
        BY <2>8, <3>2, <4>2, <4>3
    <3> QED
      BY <3>1, <3>2
  <2>17. PanelWaits'
    <3>1. /\ Underway("rx", RxChannel) => "rx" \in panel.seen \/ pend'["rx"] # NoChannel
          /\ Underway("tx", TxChannel) => "tx" \in panel.seen \/ pend'["tx"] # NoChannel
      BY <2>8, FiveChannels DEF Underway
    <3> QED
      BY <1>0, <2>10, <2>11, <3>1 DEF PanelWaits, Underway, NoChannel
  <2>18. driver'.at # "idle" => JobInv'
    BY <1>0, <2>11, CardUntouched
  <2> QED
    BY <2>12, <2>13, <2>14, <2>15, <2>16, <2>17, <2>18 DEF DmaInv, ChannelInv, AllRaised
<1> QED
  BY <1>1, <1>2, <1>3, <1>4 DEF PanelSide

(* The channels that are not the panel's: a store to one of them leaves the *)
(* panel's levels and halves alone.                                         *)
LEMMA NotThePanels ==
    ASSUME DmaInv, NEW c \in {2, 5, 8}, c = 5 => stage # "loader",
           stage' = stage, panel' = panel,
           \A d \in Channels : d # c => chan'[d] = chan[d],
           \A u \in {"rx", "tx"} : pend[u] # c => pend'[u] = pend[u]
    PROVE  PanelWaits' /\ ~chan[c].armed /\ c \notin {RxChannel, TxChannel}
<1>1. c \in Channels /\ c \notin {RxChannel, TxChannel} /\ c # NoChannel
  BY FiveChannels
<1>2. Roles /\ PanelWaits
  BY DEF DmaInv, ChannelInv
<1>3. ~chan[c].armed
  BY <1>1, <1>2 DEF Roles
<1>4. pend["rx"] # c /\ pend["tx"] # c
  BY <1>1, <1>2 DEF Roles
<1>5. chan'[RxChannel] = chan[RxChannel] /\ chan'[TxChannel] = chan[TxChannel]
  BY <1>1, FiveChannels
<1>6. \A u \in {"rx", "tx"} : pend'[u] = pend[u]
  BY <1>4
<1> QED
  BY <1>1, <1>2, <1>3, <1>5, <1>6, PanelUntouched

(* The handlers of those channels. *)
LEMMA OtherHandlers ==
    ASSUME DmaInv, NEW c \in {2, 5, 8}, NEW te \in BOOLEAN, NEW ie \in BOOLEAN, ~ie,
           Store(c, te, ie),
           c = 5 => stage # "loader", c = 2 => ~usbBusy,
           panelTimer' = panelTimer, usbBusy' = usbBusy, sdhi' = sdhi, card' = card,
           memory' = memory, panel' = panel, stage' = stage, dmaJobs' = dmaJobs,
           driver' \in DriverRec, driver'.at = driver.at
    PROVE  /\ DmaTypes' /\ ChannelInv' /\ PanelWaits'
           /\ \A u \in Users : pend[u] # c => pend'[u] = pend[u]
<1>1. c \in Channels
  BY FiveChannels
<1>2. DmaTypes /\ ChannelInv /\ Roles
  BY DEF DmaInv, ChannelInv
<1>3. /\ chan' \in [Channels -> ChannelRec]
      /\ \A d \in Channels : d # c => chan'[d] = chan[d]
      /\ pend' \in [Users -> Channels \union {NoChannel}]
      /\ \A u \in Users : pend[u] # c => pend'[u] = pend[u]
  BY <1>1, <1>2, Stored
<1>4. DmaTypes'
  BY <1>2, <1>3, TypedNext DEF DmaTypes
<1>5. PanelWaits' /\ ~chan[c].armed /\ c \notin {RxChannel, TxChannel}
  <2>1. \A u \in {"rx", "tx"} : u \in Users
    BY DEF Users
  <2> QED
    BY <1>3, <2>1, NotThePanels
<1>6. ChannelInv'
  BY <1>1, <1>2, <1>5, StoreKeeps
<1> QED
  BY <1>3, <1>4, <1>5, <1>6

(* The actions of the DSP's two channels. *)
LEMMA DspSteps ==
    ASSUME DmaInv, DspSide
    PROVE  DmaInv'
<1>0. /\ DmaTypes /\ ChannelInv /\ Roles /\ (driver.at # "idle" => JobInv)
      /\ driver \in DriverRec /\ 8 \in Channels /\ 5 \in Channels
      /\ {"rx", "tx", "card", "dsp", "dma5", "usb"} = Users
  BY FiveChannels DEF DmaInv, ChannelInv, Users, DmaTypes
<1>1. CASE DspHandler
  <2>1. PICK te \in BOOLEAN : Store(8, te, FALSE)
    <3>1. chan[8].te \in BOOLEAN
      BY <1>0 DEF DmaTypes, ChannelRec
    <3> QED
      BY <1>1, <3>1 DEF DspHandler
  <2>2. UNCHANGED <<panelTimer, usbBusy, cardVars, panel, stage, dmaJobs>>
        /\ driver' = driver /\ sdhi' = sdhi /\ card' = card /\ memory' = memory
        /\ pend["dsp"] = 8
    BY <1>1 DEF DspHandler, cardVars
  <2>3. /\ DmaTypes' /\ ChannelInv' /\ PanelWaits'
    <3>1. /\ panelTimer' = panelTimer /\ usbBusy' = usbBusy /\ panel' = panel
          /\ stage' = stage /\ dmaJobs' = dmaJobs
      BY <2>2
    <3> DEFINE no == FALSE
    <3>2. no \in BOOLEAN /\ ~no /\ Store(8, te, no)
      BY <2>1
    <3> HIDE DEF no
    <3> QED
      BY <1>0, <2>1, <2>2, <3>1, <3>2, OtherHandlers
  <2>4. driver.at = "idle"
    BY <1>0, <2>2 DEF ChannelInv, DspLevel, NoChannel
  <2> QED
    BY <2>2, <2>3, <2>4 DEF DmaInv
<1>2. CASE Dma5Handler
  <2>1. /\ Store(5, chan[5].te, FALSE) /\ pend["dma5"] = 5
        /\ UNCHANGED <<panelTimer, usbBusy, cardVars, panel, stage, dmaJobs>>
        /\ driver' = driver /\ sdhi' = sdhi /\ card' = card /\ memory' = memory
    BY <1>2 DEF Dma5Handler, cardVars
  <2>2. chan[5].te \in BOOLEAN /\ stage # "loader"
    BY <1>0, <2>1 DEF DmaTypes, ChannelRec, Roles, NoChannel
  <2>3. /\ DmaTypes' /\ ChannelInv' /\ PanelWaits'
        /\ \A u \in Users : pend[u] # 5 => pend'[u] = pend[u]
    <3>1. /\ panelTimer' = panelTimer /\ usbBusy' = usbBusy /\ panel' = panel
          /\ stage' = stage /\ dmaJobs' = dmaJobs
      BY <2>1
    <3> DEFINE no == FALSE
               te == chan[5].te
    <3>2. no \in BOOLEAN /\ ~no /\ te \in BOOLEAN /\ Store(5, te, no)
      BY <2>1, <2>2
    <3> HIDE DEF no, te
    <3> QED
      BY <1>0, <2>1, <2>2, <3>1, <3>2, OtherHandlers
  <2>4. pend'["card"] = pend["card"]
    BY <1>0, <2>3 DEF Roles, NoChannel
  <2>5. driver'.at # "idle" => JobInv'
    BY <1>0, <2>1, <2>4, CardUntouched
  <2> QED
    BY <2>3, <2>5 DEF DmaInv
<1>3. ASSUME NEW c \in {5, 8}, StartDsp(c)
      PROVE  DmaInv'
  <2> DEFINE u == IF c = 5 THEN "dma5" ELSE "dsp"
  <2>1. /\ dmaJobs' = dmaJobs + 1 /\ stage = "application"
        /\ c = 8 => driver.at = "idle" /\ pend["card"] = NoChannel
        /\ Started(c, "dsp", "dsp", FALSE, TRUE)
        /\ pend' = Raise(PendAfter(c, FALSE, TRUE), u, c)
        /\ UNCHANGED <<panelTimer, usbBusy, cardVars, panel, stage>>
        /\ driver' = driver /\ sdhi' = sdhi /\ card' = card /\ memory' = memory
    BY <1>3 DEF StartDsp, Job, cardVars
  <2>2. (u = "dma5" /\ c = 5) \/ (u = "dsp" /\ c = 8)
    OBVIOUS
  <2> HIDE DEF u
  <2>3. /\ ChannelInv' /\ chan' \in [Channels -> ChannelRec]
        /\ pend' \in [Users -> Channels \union {NoChannel}]
        /\ \A d \in Channels : d # c => chan'[d] = chan[d]
        /\ \A v \in Users : v # u /\ pend[v] # c => pend'[v] = pend[v]
    <3>1. u \in {"card", "dsp", "dma5"} /\ c = (IF u = "dma5" THEN 5 ELSE 8)
          /\ (u = "dsp" => pend["card"] = NoChannel /\ driver'.at = "idle")
          /\ u # "card" /\ usbBusy' = usbBusy /\ panelTimer' = panelTimer /\ stage' = stage
          /\ driver'.at = driver.at /\ stage = "application"
      BY <2>1, <2>2
    <3> DEFINE r == [ends |-> "dsp", role |-> "dsp", armed |-> FALSE, te |-> TRUE,
                      ie |-> TRUE]
               p == PendAfter(c, FALSE, TRUE)
    <3>2. /\ r \in ChannelRec /\ Programs(c, r) /\ r.te /\ r.ie /\ ~r.armed
          /\ r.role = "dsp" /\ r.ends = "dsp" /\ pend' = Raise(p, u, c)
          /\ p = AfterStart(c)
      BY <2>1 DEF Started, ChannelRec, Programs, AfterStart
    <3> HIDE DEF r, p
    <3> QED
      BY <1>0, <3>1, <3>2, CopyKeeps
  <2>4. DmaTypes'
    <3>1. dmaJobs' \in Nat
      BY <1>0, <2>1 DEF DmaTypes
    <3> QED
      BY <1>0, <2>1, <2>3, <3>1, TypedNext DEF DmaTypes
  <2>5. PanelWaits'
    <3>1. \A v \in {"rx", "tx"} : v \in Users /\ v # u
      BY <2>2 DEF Users
    <3>2. c \in {2, 5, 8} /\ stage # "loader" /\ stage' = stage /\ panel' = panel
      BY <2>1
    <3> QED
      BY <2>3, <3>1, <3>2, NotThePanels
  <2>6. driver.at = "moved" => pend'["card"] = pend["card"]
    <3>1. driver.at = "moved" => c = 5
      BY <2>1
    <3>2. u # "card" /\ (c = 5 => pend["card"] # c)
      BY <1>0, <2>2 DEF Roles, NoChannel
    <3> QED
      BY <1>0, <2>3, <3>1, <3>2
  <2>7. driver'.at # "idle" => JobInv'
    BY <1>0, <2>1, <2>6, CardUntouched
  <2> QED
    BY <2>3, <2>4, <2>5, <2>7 DEF DmaInv
<1> QED
  BY <1>1, <1>2, <1>3 DEF DspSide

(* The actions of the USB module's channel. *)
LEMMA UsbSteps ==
    ASSUME DmaInv, UsbSide
    PROVE  DmaInv'
<1>0. /\ DmaTypes /\ ChannelInv /\ Roles /\ (driver.at # "idle" => JobInv)
      /\ PanelLevels /\ DspLevel /\ CardLevel /\ SoundLevel /\ UsbLevel /\ AllRaised
      /\ driver \in DriverRec /\ 2 \in Channels /\ 5 \in Channels /\ 8 \in Channels
      /\ {"rx", "tx", "card", "dsp", "dma5", "usb"} = Users
  BY FiveChannels DEF DmaInv, ChannelInv, Users, DmaTypes
<1>1. CASE UsbHandler
  <2>1. PICK te \in BOOLEAN : Store(2, te, FALSE)
    BY <1>1 DEF UsbHandler
  <2>2. /\ UNCHANGED <<panelTimer, usbBusy, cardVars, panel, stage, dmaJobs>>
        /\ driver' = driver /\ sdhi' = sdhi /\ card' = card /\ memory' = memory
        /\ pend["usb"] = 2
    BY <1>1 DEF UsbHandler, cardVars
  <2>3. ~usbBusy
    BY <1>0, <2>2 DEF UsbLevel, NoChannel
  <2>4. /\ DmaTypes' /\ ChannelInv' /\ PanelWaits'
        /\ \A u \in Users : pend[u] # 2 => pend'[u] = pend[u]
    <3>1. /\ panelTimer' = panelTimer /\ usbBusy' = usbBusy /\ panel' = panel
          /\ stage' = stage /\ dmaJobs' = dmaJobs
      BY <2>2
    <3> DEFINE no == FALSE
    <3>2. no \in BOOLEAN /\ ~no /\ Store(2, te, no)
      BY <2>1
    <3> HIDE DEF no
    <3> QED
      BY <1>0, <2>1, <2>2, <2>3, <3>1, <3>2, OtherHandlers
  <2>5. pend'["card"] = pend["card"]
    BY <1>0, <2>4 DEF Roles, NoChannel
  <2>6. driver'.at # "idle" => JobInv'
    BY <1>0, <2>2, <2>5, CardUntouched
  <2> QED
    BY <2>4, <2>6 DEF DmaInv
<1>2. ASSUME NEW r \in ChannelRec, Programs(2, r),
             r.role \notin {"rx", "tx", "dsp"}, r.ends # "card_in", ~r.armed, r.ie,
             pend' \in [Users -> Channels \union {NoChannel}],
             \A u \in Users : u # "usb" => pend'[u] = pend[u],
             pend'["usb"] = IF r.te THEN 2 ELSE NoChannel,
             r.te => ~usbBusy', panelTimer' = panelTimer, stage = "application",
             UNCHANGED <<cardVars, panel, stage>>, usbBusy' \in BOOLEAN, dmaJobs' \in Nat
      PROVE  DmaInv'
  <2>1. /\ chan' \in [Channels -> ChannelRec] /\ chan'[2] = r
        /\ \A d \in Channels : d # 2 => chan'[d] = chan[d]
    BY <1>0, <1>2, Programmed
  <2>2. RxChannel' = RxChannel /\ TxChannel' = TxChannel
        /\ sdhi' = sdhi /\ card' = card /\ driver' = driver /\ memory' = memory
        /\ (panelTimer => panelTimer') /\ stage' = stage /\ panel' = panel
        /\ stage # "loader"
    BY <1>2 DEF RxChannel, TxChannel, cardVars
  <2>3. DmaTypes'
    BY <1>0, <1>2, <2>1, <2>2, TypedNext DEF DmaTypes
  <2>4. PanelWaits'
    <3>1. 2 \in {2, 5, 8} /\ \A u \in {"rx", "tx"} : pend'[u] = pend[u]
      BY <1>0, <1>2
    <3> QED
      BY <2>1, <2>2, <3>1, NotThePanels
  <2>5. Roles'
    <3>1. \A d \in Channels :
         /\ chan'[d].role = "rx" => d = RxChannel
         /\ chan'[d].role = "tx" => d = TxChannel
         /\ chan'[d].role = "dsp" => d \in {5, 8}
         /\ chan'[d].ends = "card_in" => d = 8 /\ chan'[d].role = "plain"
         /\ chan'[d].armed => chan'[d].role \in {"rx", "tx"}
      BY <1>0, <1>2, <2>1 DEF Roles
    <3>2. /\ pend'["rx"] \in {NoChannel, RxChannel} /\ pend'["tx"] \in {NoChannel, TxChannel}
          /\ pend'["card"] \in {NoChannel, 8} /\ pend'["dsp"] \in {NoChannel, 8}
          /\ pend'["dma5"] \in {NoChannel, 5} /\ pend'["usb"] \in {NoChannel, 2}
      BY <1>0, <1>2 DEF Roles
    <3> QED
      BY <2>2, <3>1, <3>2 DEF Roles, NoChannel
  <2>6. PanelLevels'
    <3>1. pend'["rx"] = pend["rx"] /\ pend'["tx"] = pend["tx"]
          /\ chan'[RxChannel] = chan[RxChannel] /\ chan'[TxChannel] = chan[TxChannel]
      BY <1>0, <1>2, <2>1, FiveChannels
    <3> QED
      BY <1>0, <2>2, <3>1 DEF PanelLevels, PanelLevel, NoChannel
  <2>7. DspLevel' /\ CardLevel' /\ SoundLevel' /\ UsbLevel'
    <3>1. /\ pend'["dsp"] = pend["dsp"] /\ pend'["card"] = pend["card"]
          /\ pend'["dma5"] = pend["dma5"] /\ chan'[5] = chan[5] /\ chan'[8] = chan[8]
      BY <1>0, <1>2, <2>1
    <3>2. DspLevel' /\ CardLevel' /\ SoundLevel'
      BY <1>0, <2>2, <3>1 DEF DspLevel, CardLevel, SoundLevel, NoChannel
    <3>3. UsbLevel'
      BY <1>2, <2>1 DEF UsbLevel, NoChannel
    <3> QED
      BY <3>2, <3>3
  <2>8. ASSUME NEW d \in Channels, chan'[d].te, chan'[d].ie
        PROVE  \E u \in Users : pend'[u] = d
    <3>1. CASE d = 2
      BY <1>0, <1>2, <2>1, <2>8, <3>1
    <3>2. CASE d # 2
      <4>1. PICK u \in Users : pend[u] = d
        BY <1>0, <2>1, <2>8, <3>2 DEF AllRaised
      <4>2. u # "usb"
        BY <1>0, <3>2, <4>1, FiveChannels DEF Roles
      <4> QED
        BY <1>2, <4>1, <4>2
    <3> QED
      BY <3>1, <3>2
  <2>9. driver'.at # "idle" => JobInv'
    <3>1. pend'["card"] = pend["card"]
      BY <1>0, <1>2
    <3> QED
      BY <1>0, <1>2, <3>1, CardUntouched
  <2> QED
    BY <2>3, <2>4, <2>5, <2>6, <2>7, <2>8, <2>9 DEF DmaInv, ChannelInv, AllRaised
<1>3. CASE StartUsb
  <2> DEFINE r == [ends |-> "usb", role |-> "usb", armed |-> FALSE, te |-> FALSE, ie |-> TRUE]
  <2>1. /\ dmaJobs' = dmaJobs + 1 /\ stage = "application" /\ pend["usb"] = NoChannel
        /\ pend' = PendAfter(2, FALSE, TRUE) /\ Programs(2, r)
        /\ usbBusy' = TRUE /\ UNCHANGED <<cardVars, panel, stage>> /\ panelTimer' = panelTimer
    BY <1>3 DEF StartUsb, Job, Started, Programs
  <2>2. /\ r \in ChannelRec /\ r.role = "usb" /\ r.ends = "usb" /\ r.armed = FALSE
        /\ r.te = FALSE /\ r.ie = TRUE
    BY DEF ChannelRec
  <2> HIDE DEF r
  <2>3. /\ pend' \in [Users -> Channels \union {NoChannel}]
        /\ \A u \in Users : pend'[u] = pend[u] \/ pend'[u] = NoChannel
        /\ \A u \in Users : pend[u] # 2 => pend'[u] = pend[u]
    BY <1>0, <2>1, StartDrops
  <2>4. \A u \in Users : pend'[u] = pend[u]
    <3>1. \A u \in Users : pend[u] # 2
      BY <1>0, <2>1, FiveChannels DEF Roles, NoChannel
    <3> QED
      BY <2>3, <3>1
  <2>5. dmaJobs' \in Nat
    BY <1>0, <2>1 DEF DmaTypes
  <2> QED
    BY <1>0, <1>2, <2>1, <2>2, <2>3, <2>4, <2>5
<1>4. CASE UsbDone
  <2> DEFINE q == chan[2]
             r == [q EXCEPT !.te = TRUE]
  <2>1. /\ usbBusy /\ usbBusy' = FALSE /\ Programs(2, r)
        /\ pend' = Raise(pend, "usb", 2)
        /\ UNCHANGED <<panelTimer, cardVars, panel, stage, dmaJobs>>
    BY <1>0, <1>4 DEF UsbDone, DmaTypes, Programs
  <2>2. q \in ChannelRec /\ q.ie /\ pend["usb"] = NoChannel /\ stage = "application"
        /\ q.role \notin {"rx", "tx", "dsp"} /\ q.ends # "card_in" /\ ~q.armed
    BY <1>0, <2>1, FiveChannels DEF DmaTypes, UsbLevel, Roles
  <2> HIDE DEF q
  <2>3. /\ r \in ChannelRec /\ r.role = q.role /\ r.ends = q.ends /\ r.armed = q.armed
        /\ r.te = TRUE /\ r.ie = q.ie
    BY <2>2 DEF ChannelRec
  <2>4. q.role \in {"plain", "rx", "tx", "dsp", "usb"}
    BY <2>2 DEF ChannelRec
  <2> HIDE DEF r
  <2>5. pend' = [pend EXCEPT !["usb"] = 2]
    BY <2>1, <2>2 DEF Raise
  <2>6. /\ pend' \in [Users -> Channels \union {NoChannel}]
        /\ \A u \in Users : u # "usb" => pend'[u] = pend[u]
        /\ pend'["usb"] = 2
    BY <1>0, <2>5 DEF DmaTypes
  <2>7. dmaJobs' \in Nat
    BY <1>0, <2>1 DEF DmaTypes
  <2> QED
    BY <1>2, <2>1, <2>2, <2>3, <2>4, <2>6, <2>7
<1> QED
  BY <1>1, <1>3, <1>4 DEF UsbSide

(* What leaves the channels, their levels and the panel alone, and starts   *)
(* no job over a level of the DSP's.                                        *)
LEMMA ChannelsUntouched ==
    ASSUME DmaInv, UNCHANGED <<chan, pend, panelTimer, usbBusy, panel, stage>>,
           driver'.at # "idle" =>
               driver.at # "idle" \/ (stage = "application" /\ pend["dsp"] = NoChannel)
    PROVE  ChannelInv' /\ PanelWaits'
<1>0. /\ ChannelInv /\ PanelWaits /\ (driver.at # "idle" => JobInv)
      /\ chan' = chan /\ pend' = pend /\ panelTimer' = panelTimer /\ usbBusy' = usbBusy
      /\ panel' = panel /\ stage' = stage
      /\ (panelTimer => panelTimer') /\ (usbBusy' => usbBusy)
  BY DEF DmaInv
<1>1. RxChannel' = RxChannel /\ TxChannel' = TxChannel
  BY <1>0 DEF RxChannel, TxChannel
<1>2. Roles'
  <2>1. driver'.at # "idle" => stage = "application"
    BY <1>0 DEF JobInv
  <2> QED
    BY <1>0, <1>1, <2>1 DEF ChannelInv, Roles, Channels, NoChannel
<1>3. PanelLevels'
  BY <1>0, <1>1 DEF ChannelInv, PanelLevels, PanelLevel, NoChannel
<1>4. DspLevel'
  BY <1>0 DEF ChannelInv, DspLevel, NoChannel
<1>5. CardLevel' /\ SoundLevel' /\ UsbLevel'
  BY <1>0 DEF ChannelInv, CardLevel, SoundLevel, UsbLevel, NoChannel
<1>6. AllRaised'
  BY <1>0 DEF ChannelInv, AllRaised, Channels, Users
<1>7. PanelWaits'
  BY <1>0, <1>1, PanelUntouched
<1> QED
  BY <1>2, <1>3, <1>4, <1>5, <1>6, <1>7 DEF ChannelInv

(* The data timer announces the next block. *)
LEMMA AnnounceStep ==
    ASSUME DmaInv, DataReady
    PROVE  DmaInv'
<1>0. DmaTypes /\ ChannelInv /\ PanelWaits /\ (driver.at # "idle" => JobInv)
      /\ sdhi \in HostRec /\ card \in CardRec /\ driver \in DriverRec
  BY DEF DmaInv, DmaTypes
<1>1. /\ UNCHANGED <<chan, pend, panelTimer, usbBusy, panel, driver, memory, stage, dmaJobs>>
      /\ sdhi.timer
  BY DEF DataReady
<1>2. /\ sdhi' \in HostRec /\ card' \in CardRec /\ sdhi'.open = sdhi.open
      /\ sdhi'.dataend = sdhi.dataend /\ sdhi'.masked = sdhi.masked
      /\ sdhi'.left = sdhi.left /\ sdhi'.writing = sdhi.writing
      /\ sdhi'.stop = sdhi.stop /\ sdhi'.multi = sdhi.multi /\ ~sdhi'.timer
      /\ card'.written = card.written
      /\ sdhi.open /\ sdhi.writing => sdhi'.txrq
      /\ sdhi.open /\ ~sdhi.writing =>
           /\ sdhi'.rxrdy /\ ~sdhi'.full /\ sdhi'.buf = card.next
           /\ card'.next = card.next + 1
           /\ ~sdhi.multi => card'.state = "tran"
  <2>1. CASE ~sdhi.open
    BY <1>0, <1>1, <2>1 DEF DataReady, HostRec
  <2>2. CASE sdhi.open /\ sdhi.writing
    BY <1>0, <1>1, <2>2, ZenonT(40) DEF DataReady, HostRec
  <2>3. CASE sdhi.open /\ ~sdhi.writing
    <3> DEFINE b == card.next
               n == b + 1
               st == IF sdhi.multi THEN card.state ELSE "tran"
    <3>1. b \in Nat /\ n \in Nat /\ st \in {"tran", "data", "rcv"}
      BY <1>0 DEF CardRec
    <3>2. /\ sdhi' = [sdhi EXCEPT !.timer = FALSE, !.rxrdy = TRUE, !.full = FALSE, !.buf = b]
          /\ card' = [card EXCEPT !.next = n, !.state = st]
      BY <1>0, <2>3 DEF DataReady, CardRec
    <3>3. ~sdhi.multi => st = "tran"
      OBVIOUS
    <3> HIDE DEF b, n, st
    <3>4. /\ sdhi' \in HostRec /\ sdhi'.open = sdhi.open
          /\ sdhi'.dataend = sdhi.dataend /\ sdhi'.masked = sdhi.masked
          /\ sdhi'.left = sdhi.left /\ sdhi'.writing = sdhi.writing
          /\ sdhi'.stop = sdhi.stop /\ sdhi'.multi = sdhi.multi /\ sdhi'.timer = FALSE
          /\ sdhi'.rxrdy = TRUE /\ sdhi'.full = FALSE /\ sdhi'.buf = b
      BY <1>0, <3>1, <3>2 DEF HostRec
    <3>5. /\ card' \in CardRec /\ card'.written = card.written /\ card'.next = n
          /\ card'.state = st
      BY <1>0, <3>1, <3>2 DEF CardRec
    <3> QED
      BY <2>3, <3>3, <3>4, <3>5 DEF b, n
  <2> QED
    BY <2>1, <2>2, <2>3
<1>3. DmaTypes'
  BY <1>0, <1>1, <1>2, TypedNext DEF DmaTypes
<1>4. ChannelInv' /\ PanelWaits'
  BY <1>1, ChannelsUntouched
<1>5. ASSUME driver'.at # "idle"
      PROVE  JobInv'
  <2>1. JobInv /\ driver' = driver /\ memory' = memory /\ stage' = stage /\ pend' = pend
    BY <1>0, <1>1, <1>5
  <2>2. ~sdhi.dataend
    BY <1>1, <2>1 DEF JobInv, AllMoved
  <2>3. Moved' = Moved /\ Brought' = Brought
    BY <1>2, <2>1 DEF Moved, Brought
  <2>4. ASSUME sdhi.open
        PROVE  GoesOn'
    <3>1. GoesOn
      BY <2>1, <2>2, <2>4 DEF JobInv
    <3>2. ~driver.write => card.next = Moved + 1
      BY <1>1, <3>1 DEF GoesOn, NextBlock
    <3>3. ~driver.write => NextBlock(TRUE)'
      <4>1. Moved \in Int
        BY <1>0 DEF Moved, DriverRec
      <4> QED
        BY <1>2, <2>3, <2>4, <3>1, <3>2, <4>1 DEF GoesOn, NextBlock
    <3>4. (sdhi'.rxrdy \/ sdhi'.txrq) /\ ~sdhi'.timer
      BY <1>2, <2>4
    <3>5. ~driver'.write => NextBlock(~sdhi.timer)'
      BY <1>2, <2>1, <3>3 DEF NextBlock
    <3>6. sdhi'.timer = ~(sdhi'.rxrdy \/ sdhi'.txrq \/ "block" \in driver'.events)
      <4>1. sdhi'.timer = FALSE
        BY <1>2 DEF HostRec
      <4> QED
        BY <3>4, <4>1
    <3> QED
      BY <1>2, <2>1, <2>3, <3>1, <3>5, <3>6 DEF GoesOn, Through
  <2> QED
    BY <1>2, <2>1, <2>2, <2>4 DEF JobInv, NoChannel
<1> QED
  BY <1>3, <1>4, <1>5 DEF DmaInv

(* The card is pulled or put back: the host closes, and the job is marked.  *)
LEMMA SlotSteps ==
    ASSUME DmaInv, Eject \/ Insert
    PROVE  DmaInv'
<1>0. DmaTypes /\ (driver.at # "idle" => JobInv) /\ dmaJobs \in Nat
      /\ sdhi \in HostRec /\ card \in CardRec /\ driver \in DriverRec /\ memory \in Seq(Nat)
  BY DEF DmaInv, DmaTypes
<1>1. /\ UNCHANGED <<chan, pend, panelTimer, usbBusy, panel, card, memory, stage>>
      /\ dmaJobs' = dmaJobs + 1
  BY DEF Eject, Insert, Job
<1>2. /\ sdhi' \in HostRec /\ driver' \in DriverRec
      /\ sdhi'.dataend = sdhi.dataend /\ sdhi'.timer = sdhi.timer
      /\ sdhi'.masked = sdhi.masked
      /\ \/ sdhi'.open = FALSE /\ driver'.disturbed = TRUE
         \/ /\ sdhi'.open = sdhi.open /\ driver' = driver
            /\ sdhi'.left = sdhi.left /\ sdhi'.writing = sdhi.writing
            /\ sdhi'.stop = sdhi.stop /\ sdhi'.multi = sdhi.multi
            /\ sdhi'.rxrdy = sdhi.rxrdy /\ sdhi'.txrq = sdhi.txrq
            /\ sdhi'.full = sdhi.full /\ sdhi'.buf = sdhi.buf
      /\ driver'.at = driver.at /\ driver'.todo = driver.todo
      /\ driver'.blocks = driver.blocks /\ driver'.write = driver.write
      /\ driver'.events = driver.events
  <2>1. CASE Eject
    BY <1>0, <2>1 DEF Eject, HostRec, DriverRec
  <2>2. CASE Insert
    BY <1>0, <2>2 DEF Insert, HostRec, DriverRec
  <2> QED
    BY <2>1, <2>2
<1>3. DmaTypes'
  BY <1>0, <1>1, <1>2, TypedNext DEF DmaTypes
<1>4. ChannelInv' /\ PanelWaits'
  BY <1>1, <1>2, ChannelsUntouched
<1>5. ASSUME driver'.at # "idle"
      PROVE  JobInv'
  <2>1. JobInv /\ card' = card /\ memory' = memory /\ stage' = stage /\ pend' = pend
    BY <1>0, <1>1, <1>2, <1>5
  <2>2. Moved' = Moved /\ Brought' = Brought
    BY <1>2, <2>1 DEF Moved, Brought
  <2>3. AllMoved => AllMoved'
    BY <1>2, <2>1, <2>2 DEF AllMoved, Through
  <2>4. sdhi'.open => (GoesOn => GoesOn')
    BY <1>2, <2>1, <2>2 DEF GoesOn, NextBlock, Through
  <2>5. sdhi'.open = ~driver'.disturbed /\ (sdhi'.open => sdhi.open)
    BY <1>0, <1>2, <2>1 DEF JobInv, HostRec, DriverRec
  <2> QED
    BY <1>2, <2>1, <2>3, <2>4, <2>5 DEF JobInv, NoChannel
<1> QED
  BY <1>3, <1>4, <1>5 DEF DmaInv

(* The driver begins a job. *)
LEMMA AskStep ==
    ASSUME DmaInv, Ask
    PROVE  DmaInv'
<1>0. DmaTypes /\ (driver.at # "idle" => JobInv) /\ dmaJobs \in Nat
      /\ sdhi \in HostRec /\ card \in CardRec /\ driver \in DriverRec
  BY DEF DmaInv, DmaTypes
<1>1. PICK write \in BOOLEAN, n \in 1..MaxBlocks :
         /\ Begin(write, n)
         /\ driver' = [at |-> IF Answered THEN "block" ELSE "idle", write |-> write,
                       todo |-> n, blocks |-> n, events |-> {}, disturbed |-> FALSE]
  BY DEF Ask
<1>2. /\ UNCHANGED <<chan, pend, panelTimer, usbBusy, panel, stage>>
      /\ dmaJobs' = dmaJobs + 1 /\ memory' = <<>> /\ stage = "application"
      /\ pend["dsp"] = NoChannel /\ pend' = pend /\ stage' = stage
  BY DEF Ask, Job
<1>3. n \in Nat /\ n > 0
  BY MainDmaAssumption
<1> DEFINE on == Answered
           m == n > 1
<1>4. on \in BOOLEAN /\ m \in BOOLEAN
  BY <1>0 DEF Answered, HostRec
<1>5. /\ driver'.at = (IF on THEN "block" ELSE "idle") /\ driver'.write = write
      /\ driver'.todo = n /\ driver'.blocks = n /\ driver'.events = {}
      /\ driver'.disturbed = FALSE /\ driver' \in DriverRec
  BY <1>1, <1>3 DEF DriverRec
<1>6. /\ sdhi' \in HostRec /\ sdhi'.masked = FALSE /\ sdhi'.rxrdy = FALSE /\ sdhi'.txrq = FALSE
      /\ sdhi'.dataend = FALSE /\ sdhi'.open = on /\ sdhi'.stop = m
      /\ on => /\ sdhi'.multi = m /\ sdhi'.left = n /\ sdhi'.writing = write
               /\ sdhi'.timer
  <2> DEFINE mu == IF on THEN m ELSE sdhi.multi
             le == IF on THEN n ELSE 0
             wr == IF on THEN write ELSE sdhi.writing
             ti == sdhi.timer \/ on
  <2>1. mu \in BOOLEAN /\ le \in Nat /\ wr \in BOOLEAN /\ ti \in BOOLEAN
    BY <1>0, <1>3, <1>4 DEF HostRec
  <2>2. sdhi' = [sdhi EXCEPT !.masked = FALSE, !.rxrdy = FALSE, !.txrq = FALSE,
                            !.dataend = FALSE, !.open = on, !.full = FALSE,
                            !.stop = m, !.multi = mu, !.left = le, !.writing = wr,
                            !.timer = ti]
    BY <1>0, <1>1 DEF Begin, HostRec
  <2>3. on => mu = m /\ le = n /\ wr = write /\ ti
    OBVIOUS
  <2> HIDE DEF on, m, mu, le, wr, ti
  <2> DEFINE quiet == [sdhi EXCEPT !.masked = FALSE, !.rxrdy = FALSE, !.txrq = FALSE,
                                  !.dataend = FALSE, !.full = FALSE]
  <2>5. /\ quiet \in HostRec /\ quiet.masked = FALSE /\ quiet.rxrdy = FALSE
        /\ quiet.txrq = FALSE /\ quiet.dataend = FALSE
    BY <1>0 DEF HostRec
  <2> DEFINE counted == [quiet EXCEPT !.open = on, !.stop = m, !.multi = mu]
  <2>6. sdhi' = [counted EXCEPT !.left = le, !.writing = wr, !.timer = ti]
    BY <1>0, <2>2 DEF HostRec
  <2> HIDE DEF quiet
  <2>7. /\ counted \in HostRec /\ counted.masked = FALSE /\ counted.rxrdy = FALSE
        /\ counted.txrq = FALSE /\ counted.dataend = FALSE
        /\ counted.open = on /\ counted.stop = m /\ counted.multi = mu
    BY <1>4, <2>1, <2>5, ZenonT(40) DEF HostRec
  <2> HIDE DEF counted
  <2>4. /\ sdhi' \in HostRec /\ sdhi'.masked = FALSE /\ sdhi'.rxrdy = FALSE
        /\ sdhi'.txrq = FALSE /\ sdhi'.dataend = FALSE /\ sdhi'.open = on
        /\ sdhi'.stop = m /\ sdhi'.multi = mu /\ sdhi'.left = le /\ sdhi'.writing = wr
        /\ sdhi'.timer = ti
    BY <2>1, <2>6, <2>7 DEF HostRec
  <2> QED
    BY <2>3, <2>4
<1>7. /\ card' \in CardRec
      /\ on => card'.next = 1 /\ card'.written = <<>>
  <2> DEFINE st == IF write THEN "rcv" ELSE "data"
  <2>1. st \in {"tran", "data", "rcv"} /\ <<>> \in Seq(Nat)
    OBVIOUS
  <2>2. card' = IF on THEN [card EXCEPT !.state = st, !.next = 1, !.written = <<>>] ELSE card
    BY <1>1 DEF Begin
  <2> HIDE DEF on, st
  <2> QED
    BY <1>0, <2>1, <2>2 DEF CardRec
<1> HIDE DEF on
<1>8. DmaTypes'
  BY <1>0, <1>2, <1>5, <1>6, <1>7, TypedNext DEF DmaTypes
<1>9. ChannelInv' /\ PanelWaits'
  BY <1>2, ChannelsUntouched
<1>10. ASSUME driver'.at # "idle"
       PROVE  JobInv'
  <2>1. on /\ driver'.at = "block"
    BY <1>5, <1>10
  <2>2. Moved' = 0 /\ Brought' = <<>>
    BY <1>2, <1>3, <1>5, <1>7, <2>1 DEF Moved, Brought
  <2>3. Through(0) = <<>>
    BY DEF Through
  <2>4. (Through(Moved))' = <<>>
    BY <2>2, <2>3 DEF Through
  <2>5. /\ sdhi'.timer = TRUE /\ ~(sdhi'.rxrdy \/ sdhi'.txrq \/ "block" \in driver'.events)
    BY <1>5, <1>6, <2>1 DEF HostRec
  <2>6. NextBlock(~sdhi.timer)'
    BY <1>7, <2>1, <2>2, <2>5 DEF NextBlock
  <2>7. GoesOn'
    BY <1>3, <1>5, <1>6, <2>1, <2>2, <2>4, <2>5, <2>6 DEF GoesOn
  <2>8. sdhi'.open = ~driver'.disturbed
    BY <1>5, <1>6, <2>1 DEF HostRec
  <2>9. driver'.todo = n /\ driver'.blocks = n /\ n <= n /\ n > 0 /\ stage' = "application"
        /\ sdhi'.masked = FALSE /\ sdhi'.dataend = FALSE
    BY <1>2, <1>3, <1>5, <1>6
  <2> QED
    BY <2>1, <2>7, <2>8, <2>9 DEF JobInv
<1> QED
  BY <1>8, <1>9, <1>10 DEF DmaInv

(* The driver and its interrupts, between two blocks and at the end.        *)
LEMMA DriverSteps ==
    ASSUME DmaInv, CardHandler \/ BlockMoved \/ JobDone \/ GiveUp
    PROVE  DmaInv'
<1>0. DmaTypes /\ (driver.at # "idle" => JobInv)
      /\ sdhi \in HostRec /\ card \in CardRec /\ driver \in DriverRec
  BY DEF DmaInv, DmaTypes
<1>1. /\ UNCHANGED <<chan, pend, panelTimer, usbBusy, panel, memory, stage, dmaJobs>>
      /\ memory' = memory /\ stage' = stage /\ pend' = pend
  BY DEF CardHandler, BlockMoved, JobDone, GiveUp
<1>2. /\ sdhi' \in HostRec /\ driver' \in DriverRec /\ card' \in CardRec
      /\ sdhi'.dataend = sdhi.dataend /\ sdhi'.timer = sdhi.timer
      /\ sdhi'.open = sdhi.open /\ sdhi'.left = sdhi.left /\ sdhi'.writing = sdhi.writing
      /\ sdhi'.stop = sdhi.stop /\ sdhi'.multi = sdhi.multi
      /\ sdhi'.full = sdhi.full /\ sdhi'.buf = sdhi.buf
      /\ driver'.todo = driver.todo /\ driver'.disturbed = driver.disturbed
      /\ driver'.blocks = driver.blocks /\ driver'.write = driver.write
  <2>1. CASE CardHandler
    BY <1>0, <2>1 DEF CardHandler, HostRec, DriverRec
  <2>2. CASE BlockMoved
    <3> DEFINE at == IF driver.todo = 0 THEN "end" ELSE "block"
               ev == driver.events \ {"moved"}
    <3>1. at \in {"idle", "block", "moved", "end", "done"} /\ ev \in SUBSET {"block", "moved"}
      BY <1>0 DEF DriverRec
    <3>2. driver' = [driver EXCEPT !.at = at, !.events = ev] /\ sdhi' = sdhi /\ card' = card
      BY <1>0, <2>2 DEF BlockMoved, DriverRec
    <3> HIDE DEF at, ev
    <3> QED
      BY <1>0, <3>1, <3>2 DEF DriverRec
  <2>3. CASE JobDone
    BY <1>0, <2>3 DEF JobDone, HostRec, DriverRec
  <2>4. CASE GiveUp
    BY <1>0, <2>4 DEF GiveUp, HostRec, DriverRec, CardRec
  <2> QED
    BY <2>1, <2>2, <2>3, <2>4
<1>3. DmaTypes'
  BY <1>0, <1>1, <1>2, TypedNext DEF DmaTypes
<1>4. driver'.at # "idle" => driver.at # "idle"
  <2>1. CASE CardHandler
    BY <1>0, <2>1 DEF CardHandler, DriverRec
  <2>2. CASE BlockMoved \/ JobDone \/ GiveUp
    BY <1>0, <2>2 DEF BlockMoved, JobDone, GiveUp, DriverRec
  <2> QED
    BY <2>1, <2>2
<1>5. ChannelInv' /\ PanelWaits'
  BY <1>1, <1>4, ChannelsUntouched
<1>6. ASSUME driver'.at # "idle"
      PROVE  JobInv'
  <2>1. JobInv /\ driver.at # "idle"
    BY <1>0, <1>4, <1>6
  <2>2. ~GiveUp /\ card' = card
    BY <1>6, <1>0 DEF GiveUp, CardHandler, BlockMoved, JobDone, DriverRec
  <2>3. Moved' = Moved /\ Brought' = Brought
    BY <1>1, <1>2, <2>2 DEF Moved, Brought
  <2>4. AllMoved => AllMoved'
    BY <1>2, <2>2, <2>3 DEF AllMoved, Through
  <2>5. NextBlock(~sdhi.timer) => NextBlock(~sdhi.timer)'
    BY <1>2, <2>2, <2>3 DEF NextBlock
  <2>6. CASE CardHandler
    <3>1. /\ driver'.at = driver.at /\ "block" \in driver'.events
          /\ driver.events \subseteq driver'.events
          /\ sdhi'.masked = sdhi.masked /\ (sdhi.rxrdy \/ sdhi.txrq)
      BY <1>0, <2>6 DEF CardHandler, CardLine, HostRec, DriverRec
    <3>2. GoesOn => GoesOn'
      BY <1>2, <2>2, <2>3, <2>5, <3>1 DEF GoesOn, Through
    <3> QED
      BY <1>1, <1>2, <2>1, <2>4, <3>1, <3>2 DEF JobInv, NoChannel
  <2>7. CASE BlockMoved
    <3>1. /\ driver'.at = IF driver.todo = 0 THEN "end" ELSE "block"
          /\ ("block" \in driver'.events <=> "block" \in driver.events)
          /\ driver.at = "moved" /\ sdhi' = sdhi
      BY <1>0, <2>7 DEF BlockMoved, DriverRec
    <3>2. GoesOn => GoesOn'
      BY <1>2, <2>2, <2>3, <2>5, <3>1 DEF GoesOn, Through
    <3>3. driver.todo \in Nat
      BY <1>0 DEF DriverRec
    <3> QED
      BY <1>1, <1>2, <2>1, <2>4, <3>1, <3>2, <3>3 DEF JobInv, NoChannel
  <2>8. CASE JobDone
    <3>1. /\ driver'.at = "done" /\ driver.at = "end" /\ sdhi.dataend
          /\ driver'.events = driver.events
      BY <1>0, <2>8 DEF JobDone, DriverRec
    <3> QED
      BY <1>1, <1>2, <2>1, <2>4, <3>1 DEF JobInv, NoChannel
  <2> QED
    BY <2>2, <2>6, <2>7, <2>8
<1> QED
  BY <1>3, <1>5, <1>6 DEF DmaInv

(* The interrupt of the card's DMA. *)
LEMMA CardDmaStep ==
    ASSUME DmaInv, CardDmaHandler
    PROVE  DmaInv'
<1>0. /\ DmaTypes /\ ChannelInv /\ Roles /\ (driver.at # "idle" => JobInv)
      /\ driver \in DriverRec
      /\ {"rx", "tx", "card", "dsp", "dma5", "usb"} = Users
  BY DEF DmaInv, ChannelInv, Users, DmaTypes
<1> DEFINE no == FALSE
<1>1. /\ no \in BOOLEAN /\ ~no /\ Store(8, no, no)
      /\ sdhi' = sdhi /\ card' = card /\ memory' = memory /\ stage' = stage
      /\ panelTimer' = panelTimer /\ usbBusy' = usbBusy /\ panel' = panel
      /\ dmaJobs' = dmaJobs
      /\ driver' = [driver EXCEPT !.events = @ \union {"moved"}]
  BY DEF CardDmaHandler
<1> HIDE DEF no
<1>2. /\ driver' \in DriverRec /\ driver'.at = driver.at /\ driver'.todo = driver.todo
      /\ driver'.disturbed = driver.disturbed /\ driver'.blocks = driver.blocks
      /\ driver'.write = driver.write /\ driver'.events = driver.events \union {"moved"}
  BY <1>0, <1>1 DEF DriverRec
<1>3. /\ DmaTypes' /\ ChannelInv' /\ PanelWaits'
  BY <1>0, <1>1, <1>2, OtherHandlers
<1>4. ASSUME driver'.at # "idle"
      PROVE  JobInv'
  <2>1. JobInv
    BY <1>0, <1>2, <1>4
  <2>2. Moved' = Moved /\ Brought' = Brought
    BY <1>1, <1>2 DEF Moved, Brought
  <2>3. AllMoved => AllMoved'
    BY <1>1, <1>2, <2>2 DEF AllMoved, Through
  <2>4. "block" \in driver'.events <=> "block" \in driver.events
    BY <1>2
  <2>5. GoesOn => GoesOn'
    BY <1>1, <1>2, <2>2, <2>4 DEF GoesOn, NextBlock, Through
  <2>6. "moved" \in driver'.events
    BY <1>2
  <2> QED
    BY <1>1, <1>2, <2>1, <2>3, <2>5, <2>6 DEF JobInv
<1> QED
  BY <1>3, <1>4 DEF DmaInv

(* A block has been moved: another is to come, or the data phase is over.   *)
LEMMA BlockDoneIs ==
    ASSUME NEW s \in HostRec, NEW k \in CardRec
    PROVE  LET a == BlockDone(s, k)
           IN  /\ a[1] \in HostRec /\ a[2] \in CardRec /\ a[2].written = k.written
               /\ a[2].next = k.next /\ ~a[1].rxrdy /\ ~a[1].txrq /\ a[1].full = s.full
               /\ a[1].masked = s.masked /\ a[1].open = s.open /\ a[1].stop = s.stop
               /\ a[1].writing = s.writing
               /\ s.left > 1 => /\ a[1].left = s.left - 1 /\ a[1].timer
                                /\ a[1].dataend = s.dataend /\ a[1].multi = s.multi
                                /\ a[2] = k
               /\ ~(s.left > 1) => /\ a[1].dataend /\ a[1].timer = s.timer
                                   /\ s.multi /\ s.stop => a[2].state = "tran"
                                   /\ ~(s.multi /\ s.stop) => a[2] = k
<1> DEFINE quiet == [s EXCEPT !.rxrdy = FALSE, !.txrq = FALSE]
           less == s.left - 1
<1>1. /\ quiet \in HostRec /\ quiet.rxrdy = FALSE /\ quiet.txrq = FALSE
      /\ quiet.full = s.full /\ quiet.masked = s.masked /\ quiet.open = s.open
      /\ quiet.stop = s.stop /\ quiet.writing = s.writing /\ quiet.left = s.left
      /\ quiet.timer = s.timer /\ quiet.dataend = s.dataend /\ quiet.multi = s.multi
  BY DEF HostRec
<1>2. CASE s.left > 1
  <2> DEFINE q == [quiet EXCEPT !.left = less, !.timer = TRUE]
  <2>1. less \in Nat
    BY <1>2 DEF HostRec
  <2>2. BlockDone(s, k) = <<q, k>>
    BY <1>1, <1>2 DEF BlockDone
  <2> HIDE DEF quiet, less
  <2>3. /\ q \in HostRec /\ q.rxrdy = FALSE /\ q.txrq = FALSE
        /\ q.full = s.full /\ q.masked = s.masked /\ q.open = s.open
        /\ q.stop = s.stop /\ q.writing = s.writing /\ q.left = less
        /\ q.timer = TRUE /\ q.dataend = s.dataend /\ q.multi = s.multi
    BY <1>1, <2>1 DEF HostRec
  <2> HIDE DEF q
  <2>4. BlockDone(s, k)[1] = q /\ BlockDone(s, k)[2] = k
    BY <2>2
  <2> QED
    BY <1>2, <2>3, <2>4 DEF less
<1>3. CASE ~(s.left > 1)
  <2> DEFINE q == [quiet EXCEPT !.left = 0, !.dataend = TRUE, !.multi = FALSE]
             c == CardAfterEnd(s, k)
  <2>1. BlockDone(s, k) = <<q, c>>
    BY <1>3 DEF BlockDone, DataEnd
  <2> HIDE DEF quiet
  <2>2. /\ q \in HostRec /\ q.rxrdy = FALSE /\ q.txrq = FALSE
        /\ q.full = s.full /\ q.masked = s.masked /\ q.open = s.open
        /\ q.stop = s.stop /\ q.writing = s.writing
        /\ q.timer = s.timer /\ q.dataend = TRUE
    BY <1>1 DEF HostRec
  <2> HIDE DEF q
  <2>3. /\ c \in CardRec /\ c.written = k.written /\ c.next = k.next
        /\ s.multi /\ s.stop => c.state = "tran"
        /\ ~(s.multi /\ s.stop) => c = k
    BY DEF CardAfterEnd, CardRec
  <2> HIDE DEF c
  <2>4. BlockDone(s, k)[1] = q /\ BlockDone(s, k)[2] = c
    BY <2>1
  <2> QED
    BY <1>3, <2>2, <2>3, <2>4
<1> QED
  BY <1>2, <1>3

(* A block's DMA. *)
LEMMA StartCardStep ==
    ASSUME DmaInv, StartCard
    PROVE  DmaInv'
<1>0. /\ DmaTypes /\ ChannelInv /\ Roles
      /\ driver \in DriverRec /\ sdhi \in HostRec /\ card \in CardRec /\ memory \in Seq(Nat)
      /\ {"rx", "tx", "card", "dsp", "dma5", "usb"} = Users
  BY DEF DmaInv, ChannelInv, Users, DmaTypes
<1>1. /\ CardTransfer(driver.write) /\ driver.at = "block" /\ "block" \in driver.events
      /\ panelTimer' = panelTimer /\ usbBusy' = usbBusy /\ panel' = panel
      /\ stage' = stage /\ dmaJobs' = dmaJobs
      /\ driver' = [driver EXCEPT !.at = "moved", !.todo = @ - 1,
                                  !.events = @ \ {"block"}]
  BY DEF StartCard
<1>2. /\ JobInv /\ driver.todo > 0 /\ ~sdhi.dataend /\ stage = "application"
      /\ ~sdhi.masked /\ driver.todo <= driver.blocks
      /\ driver.todo \in Nat /\ driver.blocks \in Nat
  BY <1>0, <1>1 DEF DmaInv, JobInv, AllMoved, DriverRec
<1>3. /\ driver' \in DriverRec /\ driver'.at = "moved" /\ driver'.todo = driver.todo - 1
      /\ driver'.blocks = driver.blocks /\ driver'.write = driver.write
      /\ driver'.disturbed = driver.disturbed /\ "block" \notin driver'.events
  <2> DEFINE less == driver.todo - 1
             ev == driver.events \ {"block"}
  <2>1. less \in Nat /\ ev \in SUBSET {"block", "moved"} /\ "block" \notin ev
    BY <1>0, <1>2 DEF DriverRec
  <2>2. driver' = [driver EXCEPT !.at = "moved", !.todo = less, !.events = ev]
    BY <1>0, <1>1 DEF DriverRec
  <2> HIDE DEF less, ev
  <2>3. /\ driver' \in DriverRec /\ driver'.at = "moved" /\ driver'.todo = less
      /\ driver'.blocks = driver.blocks /\ driver'.write = driver.write
      /\ driver'.disturbed = driver.disturbed /\ driver'.events = ev
    BY <1>0, <2>1, <2>2 DEF DriverRec
  <2> QED
    BY <2>1, <2>3 DEF less
<1>4. /\ ChannelInv' /\ pend'["card"] = 8 /\ chan' \in [Channels -> ChannelRec]
      /\ pend' \in [Users -> Channels \union {NoChannel}]
      /\ \A d \in Channels : d # 8 => chan'[d] = chan[d]
      /\ \A v \in Users : v # "card" /\ pend[v] # 8 => pend'[v] = pend[v]
  <2> DEFINE ends == IF driver.write THEN "card_out" ELSE "card_in"
             r == [ends |-> ends, role |-> "plain", armed |-> FALSE, te |-> TRUE,
                   ie |-> TRUE]
             p == PendAfter(8, FALSE, TRUE)
  <2>1. /\ r \in ChannelRec /\ Programs(8, r) /\ r.te /\ r.ie /\ ~r.armed
        /\ r.role = "plain" /\ pend' = Raise(p, "card", 8) /\ p = AfterStart(8)
        /\ r.ends \in {"card_in", "card_out"}
    BY DEF StartCard, Started, ChannelRec, Programs, AfterStart
  <2> HIDE DEF r, p
  <2> QED
    BY <1>0, <1>1, <1>2, <1>3, <2>1, CopyKeeps
<1>5. PanelWaits'
  <2>1. 8 \in {2, 5, 8} /\ "rx" \in Users /\ "tx" \in Users
    BY DEF Users
  <2>2. \A u \in {"rx", "tx"} : pend[u] # 8 => pend'[u] = pend[u]
    BY <1>4, <2>1
  <2> QED
    BY <1>1, <1>4, <2>1, <2>2, NotThePanels
<1>6. /\ sdhi.open = ~driver.disturbed
      /\ sdhi.open => GoesOn
  BY <1>2 DEF JobInv
<1>7. CASE ~sdhi.open
  <2>1. sdhi' = sdhi /\ card' = card /\ memory' = memory
    BY <1>1, <1>7 DEF CardTransfer
  <2>2. DmaTypes'
    BY <1>0, <1>1, <1>3, <1>4, <2>1, TypedNext DEF DmaTypes
  <2>3. JobInv'
    BY <1>1, <1>2, <1>3, <1>4, <1>6, <1>7, <2>1 DEF JobInv, NoChannel
  <2> QED
    BY <1>4, <1>5, <2>2, <2>3 DEF DmaInv
<1>8. CASE sdhi.open
  <2>1. /\ GoesOn /\ sdhi.writing = driver.write /\ sdhi.left = driver.todo
        /\ ~sdhi.timer /\ Moved \in Nat /\ Brought = Through(Moved)
        /\ sdhi.stop = (driver.blocks > 1) /\ sdhi.multi = (driver.blocks > 1)
        /\ ~driver.write => NextBlock(TRUE)
    <3>1. GoesOn /\ ~sdhi.timer
      BY <1>1, <1>6, <1>8 DEF GoesOn
    <3>2. Moved \in Nat
      BY <1>2 DEF Moved
    <3> QED
      BY <1>8, <3>1, <3>2 DEF GoesOn, NextBlock
  <2> DEFINE out == driver.write
             number == driver.blocks - driver.todo + 1
             filled == [sdhi EXCEPT !.full = ~out]
             st == IF sdhi.multi THEN card.state ELSE "tran"
             bus == IF out THEN [card EXCEPT !.written = Append(@, number), !.state = st]
                    ELSE card
             after == BlockDone(filled, bus)
             s1 == after[1]
             k1 == after[2]
  <2>2. /\ filled \in HostRec /\ filled.left = sdhi.left /\ filled.multi = sdhi.multi
        /\ filled.stop = sdhi.stop /\ filled.timer = sdhi.timer
        /\ filled.dataend = sdhi.dataend /\ filled.open = sdhi.open
        /\ filled.masked = sdhi.masked /\ filled.writing = sdhi.writing
    BY <1>0 DEF HostRec
  <2>3. number \in Nat /\ number = Moved + 1 /\ number = driver'.blocks - driver'.todo
    BY <1>2, <1>3 DEF Moved
  <2>4. /\ bus \in CardRec /\ bus.next = card.next
        /\ bus.written = IF out THEN Append(card.written, number) ELSE card.written
        /\ ~sdhi.multi => bus.state = "tran"
    <3> DEFINE w == Append(card.written, number)
    <3>1. w \in Seq(Nat) /\ st \in {"tran", "data", "rcv"}
      BY <1>0, <2>3 DEF CardRec
    <3>2. bus = IF out THEN [card EXCEPT !.written = w, !.state = st] ELSE card
      BY <1>0 DEF CardRec
    <3>3. ~out /\ ~sdhi.multi => card.state = "tran"
      BY <2>1 DEF NextBlock
    <3>4. ~sdhi.multi => st = "tran"
      OBVIOUS
    <3> HIDE DEF bus, w, st
    <3> QED
      BY <1>0, <3>1, <3>2, <3>3, <3>4 DEF CardRec, w
  <2>5. /\ sdhi' = BeforeArmed(s1) /\ card' = k1
        /\ memory' = IF out THEN memory ELSE Append(memory, IF sdhi.full THEN 0 ELSE sdhi.buf)
    <3>1. out \in BOOLEAN
      BY <1>0 DEF DriverRec
    <3>2. CASE out
      BY <1>1, <1>8, <2>1, <3>2 DEF CardTransfer
    <3>3. CASE ~out
      BY <1>1, <1>8, <2>1, <3>3 DEF CardTransfer
    <3> QED
      BY <3>2, <3>3
  <2> HIDE DEF filled, bus, st
  <2>6. /\ s1 \in HostRec /\ k1 \in CardRec /\ k1.written = bus.written
        /\ k1.next = bus.next /\ ~s1.rxrdy /\ ~s1.txrq /\ s1.full = filled.full
        /\ s1.masked = sdhi.masked /\ s1.open = sdhi.open /\ s1.stop = sdhi.stop
        /\ s1.writing = sdhi.writing
        /\ sdhi.left > 1 => /\ s1.left = sdhi.left - 1 /\ s1.timer
                            /\ s1.dataend = sdhi.dataend /\ s1.multi = sdhi.multi
                            /\ k1 = bus
        /\ ~(sdhi.left > 1) => /\ s1.dataend /\ s1.timer = sdhi.timer
                               /\ sdhi.multi /\ sdhi.stop => k1.state = "tran"
                               /\ ~(sdhi.multi /\ sdhi.stop) => k1 = bus
    BY <2>2, <2>4, BlockDoneIs
  <2> HIDE DEF after, s1, k1
  <2>7. /\ sdhi' \in HostRec /\ sdhi'.rxrdy = FALSE /\ sdhi'.txrq = FALSE
        /\ sdhi'.masked = s1.masked /\ sdhi'.open = s1.open /\ sdhi'.stop = s1.stop
        /\ sdhi'.writing = s1.writing /\ sdhi'.left = s1.left /\ sdhi'.timer = s1.timer
        /\ sdhi'.dataend = s1.dataend /\ sdhi'.multi = s1.multi
    BY <2>5, <2>6 DEF BeforeArmed, HostRec
  <2>8. memory' \in Seq(Nat) /\ Brought' = Append(Brought, number)
    <3>1. CASE out
      BY <1>0, <1>3, <2>4, <2>5, <2>6, <3>1 DEF Brought
    <3>2. CASE ~out
      <4>1. sdhi.buf = number /\ ~sdhi.full
        BY <2>1, <2>3, <3>2 DEF NextBlock
      <4> QED
        BY <1>0, <1>3, <2>3, <2>5, <3>2, <4>1 DEF Brought
    <3> QED
      BY <3>1, <3>2
  <2>9. Brought' = Through(number) /\ Moved' = number
    BY <2>1, <2>3, <2>8, OneMore DEF Moved
  <2>10. DmaTypes'
    BY <1>0, <1>1, <1>3, <1>4, <2>5, <2>6, <2>7, <2>8, TypedNext DEF DmaTypes
  <2>11. CASE driver.todo > 1
    <3>1. /\ sdhi'.left = driver'.todo /\ driver'.todo > 0 /\ sdhi'.timer
          /\ sdhi'.dataend = sdhi.dataend /\ sdhi'.multi = sdhi.multi /\ card' = bus
      BY <1>2, <1>3, <2>1, <2>5, <2>6, <2>7, <2>11
    <3>2. ~driver'.write => card'.next = number + 1
      BY <1>3, <2>1, <2>3, <2>4, <3>1 DEF NextBlock
    <3>3. NextBlock(~sdhi.timer)' \/ driver'.write
      BY <2>3, <2>9, <3>1, <3>2 DEF NextBlock
    <3>4. sdhi'.timer = TRUE /\ ~(sdhi'.rxrdy \/ sdhi'.txrq \/ "block" \in driver'.events)
      BY <1>3, <2>7, <3>1 DEF HostRec
    <3>5. Brought' = (Through(Moved))'
      BY <2>9 DEF Through
    <3>6. GoesOn'
      BY <1>3, <2>1, <2>6, <2>7, <3>1, <3>3, <3>4, <3>5 DEF GoesOn
    <3>7. /\ sdhi'.open = ~driver'.disturbed /\ ~sdhi'.masked /\ ~sdhi'.dataend
          /\ driver'.todo <= driver'.blocks
      BY <1>2, <1>3, <1>6, <2>6, <2>7, <3>1
    <3>8. JobInv'
      BY <1>1, <1>2, <1>3, <1>4, <3>6, <3>7 DEF JobInv, NoChannel
    <3> QED
      BY <1>4, <1>5, <2>10, <3>8 DEF DmaInv
  <2>12. CASE ~(driver.todo > 1)
    <3>1. /\ driver'.todo = 0 /\ ~(sdhi.left > 1)
      BY <1>2, <1>3, <2>1, <2>12
    <3>2. /\ sdhi'.dataend /\ ~sdhi'.timer
      BY <2>1, <2>6, <2>7, <3>1
    <3>3. card'.state = "tran"
      <4>1. CASE driver.blocks > 1
        BY <2>1, <2>5, <2>6, <3>1, <4>1
      <4>2. CASE ~(driver.blocks > 1)
        BY <2>1, <2>4, <2>5, <2>6, <3>1, <4>2
      <4> QED
        BY <4>1, <4>2
    <3>4. Brought' = (Through(driver.blocks))'
      BY <1>2, <1>3, <2>3, <2>9, <3>1 DEF Through
    <3>5. AllMoved'
      BY <3>1, <3>2, <3>3, <3>4 DEF AllMoved
    <3>6. sdhi'.open = ~driver'.disturbed /\ ~sdhi'.masked /\ driver'.todo <= driver'.blocks
      BY <1>2, <1>3, <1>6, <2>6, <2>7, <3>1
    <3>7. JobInv'
      BY <1>1, <1>2, <1>3, <1>4, <3>1, <3>2, <3>5, <3>6 DEF JobInv, NoChannel
    <3> QED
      BY <1>4, <1>5, <2>10, <3>7 DEF DmaInv
  <2> QED
    BY <2>11, <2>12
<1> QED
  BY <1>7, <1>8

(* Every step preserves the invariant, and it holds at the start. *)
LEMMA DmaStep ==
    ASSUME DmaInv, [DmaNext]_dmaVars
    PROVE  DmaInv'
<1>1. CASE PanelSide
  BY <1>1, PanelSteps
<1>2. CASE DspSide
  BY <1>2, DspSteps
<1>3. CASE UsbSide
  BY <1>3, UsbSteps
<1>4. CASE CardSide
  BY <1>4, AnnounceStep, SlotSteps, AskStep, DriverSteps, StartCardStep, CardDmaStep DEF CardSide
<1>5. CASE UNCHANGED dmaVars
  <2>1. /\ UNCHANGED <<chan, pend, panelTimer, usbBusy, panel, stage>>
        /\ UNCHANGED <<cardVars, stage>> /\ pend' = pend /\ sdhi' = sdhi /\ card' = card
        /\ driver' = driver /\ memory' = memory /\ dmaJobs' = dmaJobs /\ panel' = panel
        /\ chan' = chan /\ panelTimer' = panelTimer /\ usbBusy' = usbBusy /\ stage' = stage
    BY <1>5 DEF dmaVars, cardVars
  <2>2. ChannelInv' /\ PanelWaits'
    BY <2>1, ChannelsUntouched
  <2>3. driver'.at # "idle" => JobInv'
    BY <2>1, CardUntouched DEF DmaInv
  <2>4. DmaTypes'
    BY <2>1, TypedNext DEF DmaInv, DmaTypes
  <2> QED
    BY <2>2, <2>3, <2>4 DEF DmaInv
<1> QED
  BY <1>1, <1>2, <1>3, <1>4, <1>5 DEF DmaNext

(* The board after reset. *)
LEMMA DmaStart == DmaInit => DmaInv
<1> SUFFICES ASSUME DmaInit PROVE DmaInv
  OBVIOUS
<1> DEFINE r == [ends |-> "plain", role |-> "plain", armed |-> FALSE, te |-> FALSE,
                 ie |-> FALSE]
<1>1. /\ r \in ChannelRec /\ r.role = "plain" /\ r.ends = "plain" /\ r.armed = FALSE
      /\ r.te = FALSE
  BY DEF ChannelRec
<1>2. chan = [c \in Channels |-> r]
  BY DEF DmaInit
<1> HIDE DEF r
<1>3. chan \in [Channels -> ChannelRec] /\ \A c \in Channels : chan[c] = r
  BY <1>1, <1>2
<1>4. /\ pend \in [Users -> Channels \union {NoChannel}]
      /\ \A u \in {"rx", "tx", "card", "dsp", "dma5", "usb"} : pend[u] = NoChannel
  BY DEF DmaInit, Users
<1>5. /\ panelTimer = FALSE /\ usbBusy = FALSE /\ memory = <<>> /\ dmaJobs = 0
      /\ stage \in {"loader", "application"}
      /\ panel = [at |-> "idle", seen |-> {}]
      /\ card = [state |-> "tran", next |-> 1, written |-> <<>>]
      /\ driver = [at |-> "idle", write |-> FALSE, todo |-> 0, blocks |-> 0,
                   events |-> {}, disturbed |-> FALSE]
      /\ sdhi = [rxrdy |-> FALSE, txrq |-> FALSE, masked |-> TRUE, dataend |-> FALSE,
                 open |-> FALSE, full |-> FALSE, buf |-> 0, left |-> 0, multi |-> FALSE,
                 stop |-> FALSE, writing |-> FALSE, timer |-> FALSE, present |-> TRUE]
  BY DEF DmaInit
<1>6. sdhi \in HostRec
  BY <1>5 DEF HostRec
<1>7. /\ card \in CardRec /\ panel \in PanelRec /\ driver \in DriverRec
      /\ panel.at = "idle" /\ driver.at = "idle"
  BY <1>5 DEF CardRec, PanelRec, DriverRec
<1>8. DmaTypes
  <2>1. memory \in Seq(Nat) /\ dmaJobs \in Nat
    BY <1>5
  <2>2. panelTimer \in BOOLEAN /\ usbBusy \in BOOLEAN
    BY <1>5
  <2>3. pend \in [Users -> Channels \union {NoChannel}]
    BY <1>4
  <2>4. chan \in [Channels -> ChannelRec]
    BY <1>3
  <2> QED
    BY <1>5, <1>6, <1>7, <2>1, <2>2, <2>3, <2>4 DEF DmaTypes
<1>9. Roles /\ PanelLevels /\ DspLevel /\ CardLevel /\ SoundLevel /\ UsbLevel /\ AllRaised
  BY <1>1, <1>3, <1>4, <1>5, <1>7, FiveChannels
     DEF Roles, PanelLevels, PanelLevel, DspLevel, CardLevel, SoundLevel, UsbLevel, AllRaised
<1>10. PanelWaits
  BY <1>7 DEF PanelWaits
<1> QED
  BY <1>7, <1>8, <1>9, <1>10 DEF DmaInv, ChannelInv

(* For transfers of any length and any number of jobs, with or without      *)
(* writes: a level that is up has an unacknowledged completion under it, or *)
(* is the card's after a transfer to the card, which keeps its level; every *)
(* completion that asks for an interrupt has its level up; a task that      *)
(* waits has something coming; and a job called done has moved every block  *)
(* once and in order.                                                       *)
THEOREM DmaIsExact == DmaSpec => []DmaExact
<1>1. DmaInv => DmaExact
  <2> SUFFICES ASSUME DmaInv PROVE DmaExact
    OBVIOUS
  <2>0. /\ Roles /\ PanelLevels /\ DspLevel /\ CardLevel /\ SoundLevel /\ UsbLevel /\ AllRaised
        /\ PanelWaits /\ (driver.at # "idle" => JobInv) /\ panel \in PanelRec
        /\ sdhi \in HostRec /\ driver \in DriverRec
    BY DEF DmaInv, ChannelInv, DmaTypes
  <2>1. LevelsMatchCompletions
    <3>1. ASSUME NEW u \in {"rx", "tx", "dsp", "dma5", "usb"}, pend[u] # NoChannel
          PROVE  /\ chan[pend[u]].te /\ (u \in {"dma5", "usb"} => chan[pend[u]].ie)
                 /\ u = "rx" => pend[u] = RxChannel
                 /\ u = "tx" => pend[u] = TxChannel
      BY <2>0, <3>1 DEF Roles, PanelLevels, PanelLevel, DspLevel, SoundLevel, UsbLevel
    <3>2. pend["card"] # NoChannel =>
             chan[pend["card"]].te \/ chan[pend["card"]].ends = "card_out"
      BY <2>0 DEF Roles, CardLevel
    <3> QED
      BY <2>0, <3>1, <3>2 DEF LevelsMatchCompletions, AllRaised, Users
  <2>2. SomethingComes
    <3>1. panel.at = "waiting" =>
             panelTimer \/ \E u \in {"rx", "tx"} \ panel.seen : pend[u] # NoChannel
      <4> SUFFICES ASSUME panel.at = "waiting", ~panelTimer
                   PROVE  \E u \in {"rx", "tx"} \ panel.seen : pend[u] # NoChannel
        OBVIOUS
      <4>1. ~chan[RxChannel].armed /\ ~chan[TxChannel].armed
        BY <2>0 DEF PanelLevels, PanelLevel
      <4>2. panel.seen \subseteq {"rx", "tx"} /\ panel.seen # {"rx", "tx"}
        BY <2>0 DEF PanelRec, PanelWaits
      <4>3. /\ "rx" \in panel.seen \/ pend["rx"] # NoChannel
            /\ "tx" \in panel.seen \/ pend["tx"] # NoChannel
        BY <2>0, <4>1 DEF PanelWaits, Underway
      <4> QED
        BY <4>2, <4>3
    <3> DEFINE on == driver.at # "idle" /\ ~driver.disturbed /\ ~sdhi.dataend
    <3>5. on => GoesOn
      BY <2>0 DEF JobInv, HostRec, DriverRec
    <3>6. on => driver.todo > 0 /\ (sdhi.timer \/ sdhi.rxrdy \/ sdhi.txrq
                                      \/ "block" \in driver.events)
      BY <2>0, <3>5 DEF GoesOn, HostRec
    <3>2. driver.at = "block" /\ ~driver.disturbed =>
             sdhi.timer \/ CardLine \/ "block" \in driver.events
      <4> SUFFICES ASSUME driver.at = "block", ~driver.disturbed
                   PROVE  sdhi.timer \/ CardLine \/ "block" \in driver.events
        OBVIOUS
      <4>1. driver.todo > 0 /\ ~sdhi.masked /\ (sdhi.dataend => driver.todo = 0)
        BY <2>0 DEF JobInv, AllMoved
      <4>2. ~sdhi.dataend
        BY <4>1
      <4> QED
        BY <3>6, <4>1, <4>2 DEF CardLine
    <3>3. driver.at = "moved" => "moved" \in driver.events \/ pend["card"] # NoChannel
      BY <2>0 DEF JobInv
    <3>4. driver.at = "end" /\ ~driver.disturbed => sdhi.dataend
      <4> SUFFICES ASSUME driver.at = "end", ~driver.disturbed, ~sdhi.dataend PROVE FALSE
        OBVIOUS
      <4>1. driver.todo = 0
        BY <2>0 DEF JobInv
      <4> QED
        BY <3>6, <4>1
    <3> QED
      BY <3>1, <3>2, <3>3, <3>4 DEF SomethingComes
  <2>3. JobsComplete
    BY <2>0 DEF JobInv, AllMoved, Brought, Through, JobsComplete
  <2> QED
    BY <2>1, <2>2, <2>3 DEF DmaExact
<1> QED
  BY <1>1, DmaStart, DmaStep, PTL DEF DmaSpec

-----------------------------------------------------------------------------
(* The USB host module. *)

InRec == [pid : {"nak", "buf", "stall"}, inflight : BOOLEAN, held : BOOLEAN,
          stopped : BOOLEAN, rx : Seq(Int), pkt : Int, trn : Nat, count : Nat,
          retries : Nat]
OutRec == [pid : {"nak", "buf", "stall"}, inflight : BOOLEAN, tx : Seq(Int),
           valid : BOOLEAN, hold : BOOLEAN, retries : Nat]
PortRec == [active : BOOLEAN, toFifo : BOOLEAN, left : Nat, dreqe : BOOLEAN,
            sel : {"none", "out", "in"}, done : BOOLEAN]
ModuleRec == [rated : BOOLEAN, in : InRec, out : OutRec, dma : PortRec,
              sts : SUBSET {"bemp", "brdy", "brdy_out", "nrdy", "dtch"}, timer : BOOLEAN,
              attached : BOOLEAN, memory : Seq(Int)]
StickRec == [stage : {"cbw", "in", "out", "csw"}, write : BOOLEAN, next : Nat,
             size : Nat, got : Seq(Int)]
HostSteps == {"idle", "cbw", "select", "go", "data", "bval", "buf", "sent", "reload",
              "csw", "gone"}
DriverTypes == host \in [at : HostSteps, write : BOOLEAN, size : Nat, commands : Nat,
                         status : BOOLEAN]

(* The receive pipe rests; the transmit buffer is empty; the DMA port is    *)
(* pointed at no pipe.                                                      *)
Calm(u) == /\ ~u.in.inflight /\ ~u.in.held /\ u.in.rx = <<>>
           /\ u.in.pid = "buf" => u.in.stopped
Emptied(u) == u.out.tx = <<>> /\ ~u.out.inflight
Away(u) == ~u.dma.dreqe /\ ~u.dma.done
Data(u, d) == IF host.write THEN d.got ELSE u.memory

(* The stick has taken the command. *)
Accepted(u, d) ==
    /\ d.stage = (IF host.write THEN "out" ELSE "in") /\ d.size = host.size
    /\ d.next = 1 /\ d.got = <<>> /\ u.memory = <<>>
    /\ Emptied(u) /\ ~u.out.valid
Asking(u, d) ==
    /\ Calm(u) /\ Away(u)
    /\ \/ /\ d.stage = "cbw" /\ u.out.tx = <<Cbw>> /\ u.out.valid
          /\ "bemp" \notin u.sts /\ u.memory = <<>>
       \/ Accepted(u, d)

(* The DMA controller has been programmed. *)
Ready(u, d) ==
    /\ Calm(u) /\ Accepted(u, d) /\ ~u.dma.done /\ "bemp" \notin u.sts
    /\ u.dma.active /\ u.dma.left = host.size /\ u.dma.toFifo = host.write
    /\ u.in.trn = host.size /\ u.in.count = 0

(* A packet that is held back is off the stick and not yet in memory; with  *)
(* the last one the pipe has stopped by itself.                             *)
OnTheStick(u, d) ==
    IF u.in.held
    THEN /\ u.in.inflight /\ u.in.pkt = u.in.count + 1 /\ d.next = u.in.count + 2
         /\ d.stage = IF u.in.count + 1 = host.size THEN "csw" ELSE "in"
    ELSE d.stage = "in" /\ d.next = u.in.count + 1
Reading(u, d) ==
    /\ ~host.write /\ d.size = host.size /\ Emptied(u) /\ ~u.out.valid
    /\ u.dma.dreqe /\ u.dma.sel = "in" /\ ~u.dma.toFifo /\ u.in.trn = host.size
    /\ u.in.count <= host.size /\ u.memory = Through(u.in.count)
    /\ u.dma.left = host.size - u.in.count /\ u.in.rx = <<>>
    /\ IF u.in.count = host.size
       THEN Calm(u) /\ ~u.dma.active /\ u.dma.done /\ d.stage = "csw"
       ELSE u.dma.active /\ ~u.dma.done /\ ~u.in.stopped /\ OnTheStick(u, d)

(* What the stick has and what is left in the buffer make up the transfer.  *)
Rest(k) == [j \in 1..host.size - k |-> k + j]
Writing(u, d) ==
    /\ host.write /\ Calm(u) /\ ~u.dma.active /\ d.size = host.size
    /\ d.next \in 1..host.size + 1
    /\ d.got = Through(d.next - 1) /\ u.out.tx = Rest(d.next - 1)
    /\ IF d.next = host.size + 1 THEN d.stage = "csw" /\ ~u.out.inflight
       ELSE d.stage = "out" /\ "bemp" \notin u.sts

(* All data has moved; the status has not come, is held back, or waits.     *)
Whole(u, d) == Emptied(u) /\ Data(u, d) = Through(host.size)
Status(u, d) ==
    /\ Whole(u, d) /\ Away(u)
    /\ IF u.in.rx # <<>>
       THEN /\ u.in.rx = <<Csw>> /\ ~u.in.inflight /\ ~u.in.held /\ d.stage = "cbw"
            /\ u.in.stopped
       ELSE /\ ~u.in.stopped /\ "brdy" \notin u.sts
            /\ u.in.trn = 1 /\ u.in.count = 0
            /\ IF u.in.held THEN u.in.inflight /\ u.in.pkt = Csw /\ d.stage = "cbw"
               ELSE d.stage = "csw"

(* What holds at each step of the driver. *)
Phase(u, d) ==
    /\ host.at = "idle" => /\ Calm(u) /\ Emptied(u) /\ Away(u) /\ d.stage = "cbw"
                           /\ host.status => Data(u, d) = Through(host.size)
    /\ host.at = "cbw" => Asking(u, d)
    /\ host.at = "select" => Ready(u, d) /\ ~u.dma.dreqe
    /\ host.at = "go" => Ready(u, d) /\ u.dma.dreqe /\ u.dma.sel = "in" /\ ~host.write
    /\ host.at = "data" =>
         IF ~host.write THEN Reading(u, d)
         ELSE \/ Ready(u, d) /\ u.dma.dreqe /\ u.dma.sel = "out"
              \/ Writing(u, d) /\ u.dma.done
    /\ host.at \in {"bval", "buf", "sent"} => Writing(u, d) /\ ~u.dma.done
    /\ host.at = "reload" => /\ Calm(u) /\ Whole(u, d) /\ ~u.dma.active /\ ~u.dma.done
                             /\ d.stage = "csw"
    /\ host.at = "csw" => Status(u, d)

Going(u, d) == u \in ModuleRec /\ d \in StickRec /\ u.attached /\ Phase(u, d)
Gone == /\ usb \in ModuleRec /\ stick \in StickRec /\ ~usb.attached
        /\ ~usb.in.inflight /\ ~usb.out.inflight /\ ~usb.in.held
DriverInv == /\ DriverTypes /\ naks \in Nat
             /\ host.at \notin {"idle", "gone"} => host.size > 0
UsbInv == DriverInv /\ IF host.at = "gone" THEN Gone ELSE Going(usb, stick)

(* The rest of a transfer, when one is taken from it. *)
LEMMA OneLess ==
    ASSUME NEW k \in Nat, host.size \in Nat, k < host.size
    PROVE  /\ Rest(k) \in Seq(Int) /\ Rest(k) # <<>> /\ Head(Rest(k)) = k + 1
           /\ Tail(Rest(k)) = Rest(k + 1)
<1> DEFINE s == Rest(k)
           t == Tail(s)
<1>1. /\ s \in Seq(Int) /\ Len(s) = host.size - k
      /\ \A i \in 1..host.size - k : s[i] = k + i
  BY DEF Rest
<1> HIDE DEF s
<1>2. s # <<>> /\ Head(s) = k + 1
  BY <1>1
<1>3. /\ t \in Seq(Int) /\ Len(t) = host.size - (k + 1)
      /\ \A i \in 1..host.size - (k + 1) : t[i] = k + 1 + i
  BY <1>1, <1>2
<1> HIDE DEF t
<1>4. t = [i \in 1..host.size - (k + 1) |-> t[i]]
  BY <1>3
<1>5. t = [i \in 1..host.size - (k + 1) |-> k + 1 + i]
  BY <1>3, <1>4
<1> QED
  BY <1>1, <1>2, <1>5 DEF s, t, Rest

(* The rest of nothing, and of everything. *)
LEMMA NoneLeft ==
    ASSUME host.size \in Nat
    PROVE  Rest(host.size) = <<>> /\ Rest(0) = Through(host.size) /\ Through(0) = <<>>
  BY DEF Rest, Through

(* A change that the invariant does not see: a transaction that is over, a  *)
(* pipe put to NAK.                                                         *)
LEMMA CarryOn ==
    ASSUME NEW u, NEW d, Going(u, d), NEW v \in ModuleRec,
           v.in.held = u.in.held, v.in.stopped = u.in.stopped, v.in.rx = u.in.rx,
           v.in.pkt = u.in.pkt, v.in.trn = u.in.trn, v.in.count = u.in.count,
           v.in.inflight => u.in.inflight, u.in.held => v.in.inflight = u.in.inflight,
           v.in.pid = "buf" => u.in.pid = "buf",
           v.out.tx = u.out.tx, v.out.valid = u.out.valid,
           v.out.inflight => u.out.inflight \/ u.out.tx # <<>>,
           "bemp" \in v.sts => "bemp" \in u.sts, "brdy" \in v.sts => "brdy" \in u.sts,
           v.dma = u.dma, v.memory = u.memory, v.attached = u.attached,
           DriverInv
    PROVE  Going(v, d)
<1>1. Emptied(u) => Emptied(v)
  BY DEF Emptied
<1>2. /\ Calm(u) => Calm(v)
      /\ Away(v) = Away(u) /\ Data(v, d) = Data(u, d)
  BY DEF Calm, Away, Data
<1>3. (Accepted(u, d) => Accepted(v, d)) /\ (Whole(u, d) => Whole(v, d))
  BY <1>1, <1>2 DEF Accepted, Whole
<1>4. (Ready(u, d) => Ready(v, d)) /\ (Asking(u, d) => Asking(v, d))
  BY <1>2, <1>3 DEF Ready, Asking
<1>5. Status(u, d) => Status(v, d)
  BY <1>2, <1>3 DEF Status
<1>6. Reading(u, d) => Reading(v, d)
  BY <1>1, <1>2 DEF Reading, OnTheStick
<1>7. Writing(u, d) => Writing(v, d)
  <2> SUFFICES ASSUME Writing(u, d) PROVE Writing(v, d)
    OBVIOUS
  <2>1. d.next = host.size + 1 => u.out.tx = <<>>
    BY NoneLeft DEF Writing, DriverInv, DriverTypes
  <2> QED
    BY <1>2, <2>1 DEF Writing
<1> QED
  BY <1>1, <1>2, <1>3, <1>4, <1>5, <1>6, <1>7 DEF Going, Phase

(* A change outside the receive pipe. *)
LEMMA Carry ==
    ASSUME NEW u, NEW d, Going(u, d), NEW v \in ModuleRec,
           v.in = u.in, v.out.tx = u.out.tx, v.out.valid = u.out.valid,
           v.out.inflight => u.out.inflight \/ u.out.tx # <<>>,
           v.dma = u.dma, v.sts = u.sts, v.memory = u.memory, v.attached = u.attached,
           DriverInv
    PROVE  Going(v, d)
  BY CarryOn

(* While the buffer is in use the DMA port has nothing to move; neither has *)
(* it for a pipe that rests, but to fill the buffer.                        *)
LEMMA PortIdle ==
    ASSUME NEW u, NEW d, Going(u, d), DriverInv, host.at # "gone",
           u.out.tx # <<>> \/ u.out.valid
    PROVE  ~(u.dma.active /\ u.dma.dreqe)
  BY DEF Going, Phase, Asking, Accepted, Away, Ready, Emptied, Reading, Writing, Status,
         Whole, DriverInv, DriverTypes, HostSteps

(* Setting the timer changes nothing that the invariant sees. *)
LEMMA KickKeeps ==
    ASSUME NEW u, NEW d, Going(u, d), DriverInv
    PROVE  Going(Kick(u), d) /\ Kick(u).timer = TRUE
<1>1. u \in ModuleRec
  BY DEF Going
<1>2. /\ Kick(u) \in ModuleRec /\ Kick(u).in = u.in /\ Kick(u).out = u.out
      /\ Kick(u).dma = u.dma /\ Kick(u).sts = u.sts /\ Kick(u).memory = u.memory
      /\ Kick(u).attached = u.attached /\ Kick(u).timer = TRUE
  BY <1>1 DEF Kick, ModuleRec
<1> QED
  BY <1>2, Carry

(* The DMA port, when it has nothing to move. *)
LEMMA PortRests ==
    ASSUME NEW u, ~(u.dma.active /\ u.dma.dreqe)
    PROVE  ServiceDma(u) = u
  BY DEF ServiceDma

(* The DMA port fills the transmit buffer. *)
LEMMA PortFills ==
    ASSUME NEW u \in ModuleRec, u.dma.active, u.dma.dreqe, u.dma.sel = "out",
           u.dma.toFifo, u.out.tx = <<>>, ~u.out.valid, u.dma.left > 0
    PROVE  LET v == ServiceDma(u)
           IN  /\ v \in ModuleRec /\ v.in = u.in /\ v.out.tx = Through(u.dma.left)
               /\ v.out.valid = TRUE /\ v.out.inflight = u.out.inflight
               /\ v.dma.active = FALSE /\ v.dma.done = TRUE /\ v.dma.dreqe = TRUE
               /\ v.sts = u.sts /\ v.memory = u.memory /\ v.attached = u.attached
               /\ v.timer = TRUE
<1> DEFINE s == [k \in 1..u.dma.left |-> k]
           tx == u.out.tx \o s
           o == [u.out EXCEPT !.tx = tx, !.valid = TRUE, !.hold = TRUE]
           a == [u.dma EXCEPT !.left = 0]
           b == [a EXCEPT !.active = FALSE, !.done = TRUE]
           f == [u EXCEPT !.out = o, !.timer = TRUE, !.dma = a]
           g == [f EXCEPT !.dma = b]
<1>0. u.out \in OutRec /\ u.dma \in PortRec
  BY DEF ModuleRec
<1>1. tx = Through(u.dma.left) /\ tx \in Seq(Int)
  <2>1. s \in Seq(Int) /\ s = Through(u.dma.left)
    BY <1>0 DEF PortRec, Through
  <2> HIDE DEF s
  <2> QED
    BY <2>1
<1>2. ServiceDma(u) = g
  <2> HIDE DEF s, tx
  <2>1. f = [u EXCEPT !.out.tx = tx, !.out.valid = TRUE, !.out.hold = TRUE,
                      !.timer = TRUE, !.dma.left = 0]
    BY DEF ModuleRec
  <2>2. g = [f EXCEPT !.dma.active = FALSE, !.dma.done = TRUE]
    BY DEF ModuleRec
  <2>3. f.dma.left = 0
    BY <1>0 DEF ModuleRec, PortRec
  <2>4. f = [u EXCEPT !.out.tx = @ \o [k \in 1..u.dma.left |-> k], !.out.valid = TRUE,
                      !.out.hold = TRUE, !.timer = TRUE, !.dma.left = 0]
    BY DEF ModuleRec, tx, s
  <2> HIDE DEF f, g
  <2>5. ServiceDma(u) = LET d == u.dma
        filled == [u EXCEPT !.out.tx = @ \o [k \in 1..d.left |-> k], !.out.valid = TRUE,
                            !.out.hold = TRUE, !.timer = TRUE, !.dma.left = 0]
        IN IF filled.dma.left > 0 THEN filled
           ELSE [filled EXCEPT !.dma.active = FALSE, !.dma.done = TRUE]
    <3>1. u.dma.left # 0 /\ u.dma.sel # "none"
      BY <1>0 DEF PortRec
    <3> QED
      BY <3>1, ZenonT(40) DEF ServiceDma
  <2> QED
    BY <2>2, <2>3, <2>4, <2>5
<1> HIDE DEF tx
<1>3. o \in OutRec /\ o.tx = tx /\ o.valid = TRUE /\ o.inflight = u.out.inflight
  BY <1>0, <1>1 DEF OutRec
<1>4. b \in PortRec /\ b.active = FALSE /\ b.done = TRUE /\ b.dreqe = TRUE
  BY <1>0 DEF PortRec
<1> HIDE DEF o, b
<1>5. g = [u EXCEPT !.out = o, !.timer = TRUE, !.dma = b]
  BY DEF ModuleRec
<1>6. /\ g \in ModuleRec /\ g.in = u.in /\ g.out = o /\ g.dma = b /\ g.sts = u.sts
      /\ g.memory = u.memory /\ g.attached = u.attached /\ g.timer = TRUE
  BY <1>3, <1>4, <1>5 DEF ModuleRec
<1> HIDE DEF g
<1> QED
  BY <1>1, <1>2, <1>3, <1>4, <1>6

(* The DMA port takes the packet there is, and is done with the last. *)
LEMMA PortDrains ==
    ASSUME NEW u \in ModuleRec, u.dma.active, u.dma.dreqe, u.dma.sel = "in",
           ~u.dma.toFifo, u.dma.left > 0, NEW pkt \in Int, u.in.rx = <<pkt>>
    PROVE  LET v == ServiceDma(u)
           IN  /\ v \in ModuleRec /\ v.in = [u.in EXCEPT !.rx = <<>>]
               /\ v.out = u.out /\ v.memory = Append(u.memory, pkt)
               /\ v.dma = [u.dma EXCEPT !.left = @ - 1, !.active = u.dma.left > 1,
                                        !.done = @ \/ u.dma.left = 1]
               /\ v.sts = u.sts /\ v.attached = u.attached
<1> DEFINE m == u.memory \o SubSeq(u.in.rx, 1, 1)
           r == SubSeq(u.in.rx, 2, Len(u.in.rx))
           i == [u.in EXCEPT !.rx = r]
           a == [u.dma EXCEPT !.left = @ - 1]
           b == [a EXCEPT !.active = FALSE, !.done = TRUE]
           f == [u EXCEPT !.memory = m, !.in = i, !.dma = a, !.timer = TRUE]
           g == [f EXCEPT !.dma = b]
<1>0. u.in \in InRec /\ u.dma \in PortRec /\ u.memory \in Seq(Int) /\ Len(u.in.rx) = 1
      /\ u.timer \in BOOLEAN
  BY DEF ModuleRec
<1>1. m = Append(u.memory, pkt) /\ m \in Seq(Int) /\ r = <<>> /\ r \in Seq(Int)
  BY <1>0
<1>2. ServiceDma(u) = IF u.dma.left > 1 THEN f ELSE g
  <2> HIDE DEF m, r
  <2>1. f = [u EXCEPT !.memory = m, !.in.rx = r, !.dma.left = @ - 1, !.timer = TRUE]
    BY DEF ModuleRec
  <2>2. g = [f EXCEPT !.dma.active = FALSE, !.dma.done = TRUE]
    BY DEF ModuleRec
  <2>3. f.dma.left = u.dma.left - 1
    BY <1>0 DEF ModuleRec, PortRec
  <2> HIDE DEF f, g
  <2>4. (IF Len(u.in.rx) < u.dma.left THEN Len(u.in.rx) ELSE u.dma.left) = 1
    BY <1>0 DEF PortRec
  <2>5. ServiceDma(u) = LET d == u.dma
        n == IF Len(u.in.rx) < d.left THEN Len(u.in.rx) ELSE d.left
        drained == [u EXCEPT !.memory = @ \o SubSeq(u.in.rx, 1, n),
                             !.in.rx = SubSeq(@, n + 1, Len(@)), !.dma.left = @ - n,
                             !.timer = @ \/ (n > 0 /\ n = Len(u.in.rx))]
        IN IF drained.dma.left > 0 THEN drained
           ELSE [drained EXCEPT !.dma.active = FALSE, !.dma.done = TRUE]
    BY DEF ServiceDma
  <2>6. [u EXCEPT !.memory = @ \o SubSeq(u.in.rx, 1, 1),
                  !.in.rx = SubSeq(@, 1 + 1, Len(@)), !.dma.left = @ - 1,
                  !.timer = @ \/ (1 > 0 /\ 1 = Len(u.in.rx))] = f
    <3>1. (u.timer \/ (1 > 0 /\ 1 = Len(u.in.rx))) = TRUE
      BY <1>0
    <3>2. SubSeq(u.in.rx, 1 + 1, Len(u.in.rx)) = r
      BY DEF r
    <3> QED
      BY <2>1, <3>1, <3>2 DEF m
  <2>7. ServiceDma(u) = IF f.dma.left > 0 THEN f
                        ELSE [f EXCEPT !.dma.active = FALSE, !.dma.done = TRUE]
    BY <2>4, <2>5, <2>6
  <2> QED
    BY <1>0, <2>2, <2>3, <2>7 DEF PortRec
<1> HIDE DEF m, r
<1>3. i \in InRec /\ i = [u.in EXCEPT !.rx = <<>>]
  BY <1>0, <1>1 DEF InRec
<1>4. a \in PortRec /\ b \in PortRec
      /\ (IF u.dma.left > 1 THEN a ELSE b)
           = [u.dma EXCEPT !.left = @ - 1, !.active = u.dma.left > 1,
                           !.done = @ \/ u.dma.left = 1]
  <2>0. u.dma.left \in Nat /\ u.dma.done \in BOOLEAN /\ u.dma.left - 1 \in Nat
    BY <1>0 DEF PortRec
  <2>1. a \in PortRec /\ b \in PortRec /\ u.dma.left \in Nat /\ u.dma.done \in BOOLEAN
    BY <1>0, <2>0 DEF PortRec
  <2>2. CASE u.dma.left > 1
    <3>1. (u.dma.left > 1) = TRUE /\ (u.dma.done \/ u.dma.left = 1) = u.dma.done
      BY <2>1, <2>2
    <3>2. u.dma.active = TRUE
      BY <1>0 DEF PortRec
    <3> QED
      BY <1>0, <2>1, <2>2, <3>1, <3>2 DEF PortRec
  <2>3. CASE ~(u.dma.left > 1)
    <3>1. (u.dma.left > 1) = FALSE /\ (u.dma.done \/ u.dma.left = 1) = TRUE
      BY <2>1, <2>3
    <3> QED
      BY <1>0, <2>1, <2>3, <3>1 DEF PortRec
  <2> QED
    BY <2>2, <2>3
<1> HIDE DEF i, a, b
<1>5. /\ f \in ModuleRec /\ f.in = i /\ f.out = u.out /\ f.memory = m /\ f.dma = a
      /\ f.sts = u.sts /\ f.attached = u.attached
  BY <1>1, <1>3, <1>4 DEF ModuleRec
<1>6. /\ g \in ModuleRec /\ g.in = i /\ g.out = u.out /\ g.memory = m /\ g.dma = b
      /\ g.sts = u.sts /\ g.attached = u.attached
  BY <1>1, <1>3, <1>4 DEF ModuleRec
<1> HIDE DEF f, g
<1> QED
  BY <1>0, <1>1, <1>2, <1>3, <1>4, <1>5, <1>6

(* The DMA port waits for a packet. *)
LEMMA PortWaits ==
    ASSUME NEW u \in ModuleRec, u.dma.active, u.dma.dreqe, u.dma.sel = "in",
           ~u.dma.toFifo, u.dma.left > 0, u.in.rx = <<>>
    PROVE  ServiceDma(u) = u
<1>0. /\ u.in \in InRec /\ u.dma \in PortRec /\ u.memory \in Seq(Int)
      /\ u.timer \in BOOLEAN /\ u.dma.left \in Nat
  BY DEF ModuleRec, PortRec
<1>1. (IF Len(u.in.rx) < u.dma.left THEN Len(u.in.rx) ELSE u.dma.left) = 0
  BY <1>0
<1> DEFINE got == IF Len(u.in.rx) < u.dma.left THEN Len(u.in.rx) ELSE u.dma.left
           after(n) == [u EXCEPT !.memory = @ \o SubSeq(u.in.rx, 1, n),
                                 !.in.rx = SubSeq(@, n + 1, Len(@)), !.dma.left = @ - n,
                                 !.timer = @ \/ (n > 0 /\ n = Len(u.in.rx))]
           drained == [u EXCEPT !.memory = @ \o SubSeq(u.in.rx, 1, 0),
                             !.in.rx = SubSeq(@, 0 + 1, Len(@)), !.dma.left = @ - 0,
                             !.timer = @ \/ (0 > 0 /\ 0 = Len(u.in.rx))]
<1>2. ServiceDma(u) = IF after(got).dma.left > 0 THEN after(got)
                      ELSE [after(got) EXCEPT !.dma.active = FALSE, !.dma.done = TRUE]
  BY <1>0 DEF ServiceDma
<1>3. after(0) = drained
  OBVIOUS
<1>4. drained = u
  <2>1. u.memory \o SubSeq(u.in.rx, 1, 0) = u.memory
    BY <1>0
  <2>2. SubSeq(u.in.rx, 0 + 1, Len(u.in.rx)) = u.in.rx
    BY <1>0
  <2>3. (u.timer \/ (0 > 0 /\ 0 = Len(u.in.rx))) = u.timer
    BY <1>0
  <2>4. u.dma.left - 0 = u.dma.left
    BY <1>0
  <2>5. drained = [u EXCEPT !.memory = u.memory, !.in.rx = u.in.rx, !.dma.left = u.dma.left,
                            !.timer = u.timer]
    BY <2>1, <2>2, <2>3, <2>4
  <2>6. [u.in EXCEPT !.rx = u.in.rx] = u.in /\ [u.dma EXCEPT !.left = u.dma.left] = u.dma
    BY <1>0 DEF InRec, PortRec
  <2>7. [u EXCEPT !.memory = u.memory, !.in.rx = u.in.rx, !.dma.left = u.dma.left,
                  !.timer = u.timer]
          = [u EXCEPT !.memory = u.memory, !.in = [u.in EXCEPT !.rx = u.in.rx],
                      !.dma = [u.dma EXCEPT !.left = u.dma.left], !.timer = u.timer]
    OBVIOUS
  <2>8. [u EXCEPT !.memory = u.memory, !.in = u.in, !.dma = u.dma, !.timer = u.timer] = u
    BY DEF ModuleRec
  <2> QED
    BY <2>5, <2>6, <2>7, <2>8
<1>5. got = 0
  BY <1>1
<1> HIDE DEF drained, after, got
<1> QED
  BY <1>0, <1>2, <1>3, <1>4, <1>5

(* The DMA port in any phase: the pipes stay, or the timer is going. *)
LEMMA Serviced ==
    ASSUME NEW u, NEW d, Going(u, d), DriverInv, host.at # "gone"
    PROVE  LET v == ServiceDma(u)
           IN  Going(v, d) /\ (v = u \/ v.timer)
<1>0. u \in ModuleRec /\ u.dma \in PortRec /\ host.size \in Nat /\ host.at \in HostSteps
      /\ d \in StickRec
  BY DEF Going, ModuleRec, DriverInv, DriverTypes
<1>1. CASE ~(u.dma.active /\ u.dma.dreqe)
  BY <1>1, PortRests
<1>2. CASE u.dma.active /\ u.dma.dreqe
  <2>1. host.at \in {"go", "data"} /\ host.size > 0
    BY <1>0, <1>2 DEF Going, Phase, Asking, Away, Ready, Writing, Status, DriverInv, HostSteps
  <2>2. CASE ~host.write
    <3>1. /\ u.dma.sel = "in" /\ ~u.dma.toFifo /\ u.in.rx = <<>> /\ u.dma.left > 0
      <4>1. Reading(u, d) \/ Ready(u, d)
        BY <2>1, <2>2 DEF Going, Phase
      <4>2. u.dma.sel = "in"
        BY <2>1, <2>2 DEF Going, Phase, Reading
      <4>3. u.dma.left > 0
        <5>1. u.in.count \in Nat
          BY <1>0 DEF ModuleRec, InRec
        <5> QED
          BY <1>0, <1>2, <2>1, <4>1, <5>1 DEF Reading, Ready
      <4> QED
        BY <2>2, <4>1, <4>2, <4>3 DEF Reading, Ready, Calm
    <3> QED
      BY <1>0, <1>2, <3>1, PortWaits
  <2>3. CASE host.write
    <3>1. host.at = "data" /\ Ready(u, d) /\ u.dma.sel = "out"
      BY <1>2, <2>1, <2>3 DEF Going, Phase, Writing
    <3>2. /\ u.dma.toFifo /\ u.out.tx = <<>> /\ ~u.out.valid /\ u.dma.left = host.size
          /\ ~u.out.inflight
      BY <2>3, <3>1 DEF Ready, Accepted, Emptied
    <3> DEFINE v == ServiceDma(u)
    <3>3. /\ v \in ModuleRec /\ v.in = u.in /\ v.out.tx = Through(host.size)
          /\ v.dma.active = FALSE /\ v.dma.done = TRUE /\ v.dma.dreqe = TRUE
          /\ v.sts = u.sts /\ v.attached = u.attached /\ v.timer = TRUE
      BY <1>0, <1>2, <2>1, <3>1, <3>2, PortFills
    <3> HIDE DEF v
    <3>4. Writing(v, d)
      <4>1. Calm(v) /\ "bemp" \notin v.sts
        BY <3>1, <3>3 DEF Ready, Calm
      <4>2. d.next = 1 /\ d.got = <<>> /\ d.stage = "out" /\ d.size = host.size
        BY <2>3, <3>1 DEF Ready, Accepted
      <4> QED
        BY <1>0, <2>1, <2>3, <3>3, <4>1, <4>2, NoneLeft DEF Writing
    <3>5. Phase(v, d)
      BY <2>3, <3>1, <3>3, <3>4 DEF Phase
    <3> QED
      BY <3>3, <3>5 DEF Going, v
  <2> QED
    BY <2>2, <2>3
<1> QED
  BY <1>1, <1>2

(* A packet has gone out, or an empty buffer has been answered. *)
LEMMA Outgoing ==
    ASSUME NEW u, NEW d, Going(u, d), DriverInv, host.at # "gone",
           u.out.tx # <<>> \/ u.out.valid
    PROVE  LET v == FinishOut(u)
               rest == IF u.out.tx = <<>> THEN <<>> ELSE Tail(u.out.tx)
           IN  /\ v \in ModuleRec /\ v.in = u.in /\ v.dma = u.dma /\ v.memory = u.memory
               /\ v.attached = u.attached /\ v.timer = TRUE
               /\ v.out.tx = rest /\ v.out.inflight = FALSE
               /\ v.out.valid = (rest # <<>> /\ u.out.valid)
               /\ v.sts = IF rest = <<>> THEN u.sts \union {"bemp", "brdy_out"} ELSE u.sts
<1> DEFINE rest == IF u.out.tx = <<>> THEN <<>> ELSE Tail(u.out.tx)
           o == [u.out EXCEPT !.inflight = FALSE, !.tx = rest, !.retries = 0]
           p == [o EXCEPT !.valid = FALSE]
           g == [u EXCEPT !.out = o]
           e == [g EXCEPT !.out = p, !.sts = @ \union {"bemp", "brdy_out"}]
<1>0. u \in ModuleRec /\ u.out \in OutRec
  BY DEF Going, ModuleRec
<1>1. rest \in Seq(Int)
  BY <1>0 DEF OutRec
<1>2. FinishOut(u) = Kick(IF rest # <<>> THEN g ELSE ServiceDma(e))
  <2> HIDE DEF rest
  <2>1. g = [u EXCEPT !.out.inflight = FALSE, !.out.tx = rest, !.out.retries = 0]
    BY DEF ModuleRec
  <2>2. e = [g EXCEPT !.out.valid = FALSE, !.sts = @ \union {"bemp", "brdy_out"}]
    BY <1>0 DEF ModuleRec
  <2> HIDE DEF g, e
  <2> QED
    BY <2>1, <2>2 DEF FinishOut, rest
<1> HIDE DEF rest
<1>3. /\ o \in OutRec /\ o.tx = rest /\ o.inflight = FALSE /\ o.valid = u.out.valid
      /\ p \in OutRec /\ p.tx = rest /\ p.inflight = FALSE /\ p.valid = FALSE
  BY <1>0, <1>1 DEF OutRec
<1> HIDE DEF o, p
<1>4. /\ g \in ModuleRec /\ g.in = u.in /\ g.dma = u.dma /\ g.memory = u.memory
      /\ g.attached = u.attached /\ g.out = o /\ g.sts = u.sts
  BY <1>0, <1>3 DEF ModuleRec
<1> HIDE DEF g
<1>5. /\ e \in ModuleRec /\ e.in = u.in /\ e.dma = u.dma /\ e.memory = u.memory
      /\ e.attached = u.attached /\ e.out = p /\ e.sts = u.sts \union {"bemp", "brdy_out"}
  BY <1>3, <1>4 DEF ModuleRec
<1> HIDE DEF e
<1>6. ServiceDma(e) = e
  BY <1>5, PortIdle, PortRests
<1>7. ASSUME NEW x \in ModuleRec
      PROVE  /\ Kick(x) \in ModuleRec /\ Kick(x).in = x.in /\ Kick(x).out = x.out
             /\ Kick(x).dma = x.dma /\ Kick(x).sts = x.sts /\ Kick(x).memory = x.memory
             /\ Kick(x).attached = x.attached /\ Kick(x).timer = TRUE
  BY DEF Kick, ModuleRec
<1>8. CASE rest # <<>>
  <2>1. FinishOut(u) = Kick(g) /\ (rest # <<>> /\ u.out.valid) = u.out.valid
    BY <1>0, <1>2, <1>8 DEF OutRec
  <2> HIDE DEF rest
  <2> QED
    BY <1>3, <1>4, <1>7, <1>8, <2>1, ZenonT(40) DEF rest
<1>9. CASE rest = <<>>
  <2>1. FinishOut(u) = Kick(e) /\ (rest # <<>> /\ u.out.valid) = FALSE
    BY <1>2, <1>6, <1>9
  <2> QED
    BY <1>3, <1>5, <1>7, <1>9, <2>1 DEF rest
<1> QED
  BY <1>8, <1>9

(* The command, or the next packet of the data, is given to the stick. *)
LEMMA SentOn ==
    ASSUME NEW u, NEW d, Going(u, d), DriverInv, host.at # "gone", u.out.tx # <<>>
    PROVE  LET e == StickTakes(d, Head(u.out.tx))
           IN  Going(FinishOut(u), e) /\ e.stage # "stalled" /\ FinishOut(u).timer
<1> DEFINE v == FinishOut(u)
           e == StickTakes(d, Head(u.out.tx))
           rest == Tail(u.out.tx)
<1>0. /\ u \in ModuleRec /\ host.size \in Nat /\ host.write \in BOOLEAN
      /\ host.at \in HostSteps /\ d \in StickRec
  BY DEF Going, DriverInv, DriverTypes
<1>1. /\ v \in ModuleRec /\ v.in = u.in /\ v.dma = u.dma /\ v.memory = u.memory
      /\ v.attached = u.attached /\ v.timer = TRUE
      /\ v.out.tx = rest /\ v.out.inflight = FALSE
      /\ rest = <<>> => v.out.valid = FALSE
      /\ rest # <<>> => v.sts = u.sts
  BY Outgoing
<1> HIDE DEF v
<1>2. Calm(v) = Calm(u) /\ Away(v) = Away(u)
  BY <1>1 DEF Calm, Away
<1>3. CASE host.at = "cbw"
  <2>1. /\ Calm(u) /\ Away(u) /\ d.stage = "cbw" /\ u.out.tx = <<Cbw>> /\ u.memory = <<>>
    BY <1>3 DEF Going, Phase, Asking, Accepted, Emptied
  <2>2. rest = <<>> /\ Head(u.out.tx) = Cbw
    BY <2>1
  <2>3. e = [d EXCEPT !.stage = IF host.write THEN "out" ELSE "in", !.next = 1,
                      !.write = host.write, !.size = host.size, !.got = <<>>]
    BY <2>1, <2>2 DEF StickTakes
  <2>4. /\ e \in StickRec /\ e.stage = (IF host.write THEN "out" ELSE "in")
        /\ e.next = 1 /\ e.size = host.size /\ e.got = <<>> /\ e.stage # "stalled"
    <3> DEFINE to == IF host.write THEN "out" ELSE "in"
    <3>1. to \in {"out", "in"} /\ <<>> \in Seq(Int)
      OBVIOUS
    <3> HIDE DEF to
    <3>2. e = [d EXCEPT !.stage = to, !.next = 1, !.write = host.write,
                        !.size = host.size, !.got = <<>>]
      BY <2>3 DEF to
    <3> HIDE DEF e
    <3>3. /\ e \in StickRec /\ e.stage = to
          /\ e.next = 1 /\ e.size = host.size /\ e.got = <<>>
      BY <1>0, <3>1, <3>2 DEF StickRec
    <3> QED
      BY <3>1, <3>3 DEF to
  <2> HIDE DEF e, rest
  <2>5. Asking(v, e)
    BY <1>1, <1>2, <2>1, <2>2, <2>4 DEF Asking, Accepted, Emptied
  <2>6. Phase(v, e)
    BY <1>3, <2>5 DEF Phase
  <2> QED
    BY <1>1, <2>4, <2>6 DEF Going, v, e
<1>4. CASE host.at # "cbw"
  <2>1. Writing(u, d)
    BY <1>0, <1>4 DEF Going, Phase, Ready, Accepted, Emptied, Reading, Status, Whole, HostSteps
  <2> DEFINE k == d.next - 1
  <2>2. k \in Nat /\ k < host.size /\ d.stage = "out" /\ "bemp" \notin u.sts
        /\ d.got = Through(k) /\ u.out.tx = Rest(k) /\ d.size = host.size /\ host.write
        /\ d.next = k + 1 /\ Calm(u) /\ ~u.dma.active
    BY <1>0, <2>1, NoneLeft DEF Writing
  <2> HIDE DEF k
  <2>3. Head(u.out.tx) = k + 1 /\ rest = Rest(k + 1) /\ k + 1 # Cbw
    BY <1>0, <2>2, OneLess DEF Cbw
  <2>4. e = [d EXCEPT !.got = Append(@, k + 1), !.next = @ + 1,
                      !.stage = IF d.next = d.size THEN "csw" ELSE @]
    BY <2>2, <2>3 DEF StickTakes
  <2>5. Append(d.got, k + 1) = Through(k + 1) /\ Through(k + 1) \in Seq(Int)
    <3>1. Append(Through(k), k + 1) = Through(k + 1)
      BY <2>2, OneMore
    <3> QED
      BY <2>2, <3>1 DEF Through
  <2>6. /\ e \in StickRec /\ e.got = Through(k + 1) /\ e.next = k + 2
        /\ e.size = host.size /\ e.stage = IF k + 1 = host.size THEN "csw" ELSE "out"
    <3> DEFINE to == IF k + 1 = host.size THEN "csw" ELSE "out"
    <3>1. to \in {"out", "csw"} /\ d.next + 1 = k + 2 /\ k + 2 \in Nat
      BY <1>0, <2>2
    <3>2. e = [d EXCEPT !.got = Through(k + 1), !.next = k + 2, !.stage = to]
      BY <2>2, <2>4, <2>5, <3>1
    <3> HIDE DEF e, to
    <3>3. /\ e \in StickRec /\ e.got = Through(k + 1) /\ e.next = k + 2
          /\ e.size = d.size /\ e.stage = to
      BY <1>0, <2>5, <3>1, <3>2 DEF StickRec
    <3> QED
      BY <2>2, <3>3 DEF to
  <2> HIDE DEF e, rest
  <2>7. k + 1 # host.size => rest # <<>>
    BY <1>0, <2>2, <2>3, OneLess
  <2>8. Writing(v, e)
    BY <1>0, <1>1, <1>2, <2>2, <2>3, <2>6, <2>7 DEF Writing
  <2>9. Phase(v, e)
    BY <1>0, <1>1, <1>4, <2>1, <2>8 DEF Going, Phase, Ready, Accepted, Emptied, Reading,
       Status, Whole, HostSteps, Writing
  <2> QED
    BY <1>1, <2>6, <2>9 DEF Going, v, e
<1> QED
  BY <1>3, <1>4

(* An empty buffer is answered by the module itself. *)
LEMMA SentNothing ==
    ASSUME NEW u, NEW d, Going(u, d), DriverInv, host.at # "gone",
           u.out.tx = <<>>, u.out.valid
    PROVE  Going(FinishOut(u), d) /\ FinishOut(u).timer
<1> DEFINE v == FinishOut(u)
<1>0. /\ u \in ModuleRec /\ host.size \in Nat /\ host.write \in BOOLEAN
      /\ host.at \in HostSteps /\ d \in StickRec
  BY DEF Going, DriverInv, DriverTypes
<1>1. /\ v \in ModuleRec /\ v.in = u.in /\ v.dma = u.dma /\ v.memory = u.memory
      /\ v.attached = u.attached /\ v.timer = TRUE
      /\ v.out.tx = <<>> /\ v.out.inflight = FALSE /\ v.sts = u.sts \union {"bemp", "brdy_out"}
  BY Outgoing
<1> HIDE DEF v
<1>2. /\ Calm(v) = Calm(u) /\ Away(v) = Away(u) /\ Data(v, d) = Data(u, d)
      /\ Emptied(v) /\ ("brdy" \notin u.sts => "brdy" \notin v.sts)
  BY <1>1 DEF Calm, Away, Emptied, Data
<1>3. host.at \notin {"cbw", "select", "go"} /\ (host.at = "data" => Writing(u, d))
  BY <1>0 DEF Going, Phase, Asking, Ready, Accepted, Reading
<1>4. Writing(u, d) => Writing(v, d)
  <2> SUFFICES ASSUME Writing(u, d) PROVE Writing(v, d)
    OBVIOUS
  <2>1. d.next - 1 < host.size => FALSE
    BY <1>0, OneLess DEF Writing
  <2> QED
    BY <1>0, <1>1, <1>2, <2>1 DEF Writing
<1>5. host.at = "data" => host.write
  BY <1>3 DEF Writing
<1>6. Status(u, d) => Status(v, d)
  BY <1>1, <1>2 DEF Status, Whole
<1>7. host.at = "reload" => /\ Calm(v) /\ Whole(v, d) /\ ~v.dma.active /\ ~v.dma.done
                            /\ d.stage = "csw"
  BY <1>1, <1>2 DEF Going, Phase, Whole
<1>8. host.at = "idle" => /\ Calm(v) /\ Emptied(v) /\ Away(v) /\ d.stage = "cbw"
                          /\ host.status => Data(v, d) = Through(host.size)
  BY <1>2 DEF Going, Phase
<1>9. /\ host.at = "data" => Writing(v, d) /\ (u.dma.done => v.dma.done)
      /\ host.at \in {"bval", "buf", "sent"} => Writing(v, d) /\ ~v.dma.done
  BY <1>1, <1>3, <1>4 DEF Going, Phase
<1>10. host.at = "data" => v.dma.done
  BY <1>3, <1>5, <1>9 DEF Going, Phase, Ready, Writing
<1>11. Phase(v, d)
  BY <1>3, <1>5, <1>6, <1>7, <1>8, <1>9, <1>10 DEF Going, Phase
<1> QED
  BY <1>1, <1>11 DEF Going, v

(* Only a pipe that reads data or waits for the status is not at rest.     *)
LEMMA LetGo ==
    ASSUME NEW u, NEW d, Going(u, d), DriverInv, host.at # "gone", ~Calm(u),
           u.in.held \/ CanIn(u) \/ u.in.inflight
    PROVE  \/ host.at = "data" /\ Reading(u, d) /\ u.in.count # host.size
           \/ host.at = "csw" /\ Status(u, d) /\ u.in.rx = <<>>
<1>0. host.at \in HostSteps
  BY DEF DriverInv, DriverTypes
<1>1. host.at \in {"data", "csw"}
  BY <1>0 DEF Going, Phase, Asking, Ready, Writing, HostSteps
<1>2. host.at = "data" => Reading(u, d) /\ u.in.count # host.size
  BY DEF Going, Phase, Ready, Writing, Reading
<1>3. host.at = "csw" => Status(u, d) /\ u.in.rx = <<>>
  BY DEF Going, Phase, Status, CanIn
<1> QED
  BY <1>1, <1>2, <1>3

(* A packet that is held back is delivered, or one that might have been.    *)
LEMMA Delivered ==
    ASSUME NEW u \in ModuleRec, NEW h, NEW d, Going(h, d), DriverInv, host.at # "gone",
           h.in.held, u.in.stopped = h.in.stopped, u.in.pid = h.in.pid,
           u.in.rx = h.in.rx, u.in.trn = h.in.trn, u.in.count = h.in.count,
           u.out = h.out, u.dma = h.dma, u.sts = h.sts, u.memory = h.memory,
           u.attached = h.attached
    PROVE  Going(FinishIn(u, h.in.pkt), d) /\ FinishIn(u, h.in.pkt).timer
<1> DEFINE pkt == h.in.pkt
           p == u.in
           ends == pkt = Csw \/ (p.trn > 0 /\ p.count + 1 >= p.trn)
           i == [p EXCEPT !.inflight = FALSE, !.held = FALSE, !.retries = 0,
                          !.rx = Append(@, pkt), !.count = @ + 1,
                          !.stopped = @ \/ ends, !.pid = IF ends THEN "nak" ELSE @]
           taken == [u EXCEPT !.in = i, !.sts = @ \union {"brdy"}]
           w == ServiceDma(taken)
<1>0. /\ u.in \in InRec /\ host.size \in Nat /\ host.write \in BOOLEAN /\ pkt \in Int
      /\ host.at \in HostSteps /\ d \in StickRec /\ u.dma \in PortRec /\ u.attached
      /\ u.in.count \in Nat /\ u.in.trn \in Nat /\ u.memory \in Seq(Int)
  BY DEF Going, DriverInv, DriverTypes, ModuleRec, InRec
<1>1. FinishIn(u, pkt) = Kick(w)
  BY DEF FinishIn
<1>2. \/ host.at = "data" /\ Reading(h, d) /\ h.in.count # host.size
      \/ host.at = "csw" /\ Status(h, d) /\ h.in.rx = <<>>
  <2>1. ~Calm(h)
    BY DEF Calm
  <2> QED
    BY <2>1, LetGo
<1>3. u.in.rx = <<>>
  BY <1>2 DEF Reading
<1> HIDE DEF pkt
<1>4. ends \in BOOLEAN
  OBVIOUS
<1> HIDE DEF ends
<1>5. /\ i \in InRec /\ ~i.inflight /\ ~i.held /\ i.rx = <<pkt>> /\ i.count = u.in.count + 1
      /\ i.trn = u.in.trn /\ (ends => i.stopped /\ i.pid = "nak")
      /\ (~ends => i.stopped = u.in.stopped /\ i.pid = u.in.pid)
  <2> DEFINE to == IF ends THEN "nak" ELSE u.in.pid
             st == u.in.stopped \/ ends
             rx == Append(u.in.rx, pkt)
             j == [p EXCEPT !.inflight = FALSE, !.held = FALSE, !.retries = 0, !.rx = rx]
  <2>1. /\ to \in {"nak", "buf", "stall"} /\ st \in BOOLEAN /\ rx \in Seq(Int) /\ rx = <<pkt>>
        /\ (ends => to = "nak" /\ st = TRUE)
        /\ (~ends => to = u.in.pid /\ st = u.in.stopped)
    BY <1>0, <1>3, <1>4 DEF InRec
  <2>2. i = [j EXCEPT !.count = @ + 1, !.stopped = st, !.pid = to]
    BY <1>0 DEF InRec
  <2> HIDE DEF i, to, st, rx
  <2>3. /\ j \in InRec /\ ~j.inflight /\ ~j.held /\ j.rx = rx /\ j.count = u.in.count
        /\ j.trn = u.in.trn
    BY <1>0, <2>1 DEF InRec
  <2> HIDE DEF j
  <2>4. /\ i \in InRec /\ ~i.inflight /\ ~i.held /\ i.rx = rx /\ i.count = u.in.count + 1
        /\ i.trn = u.in.trn /\ i.stopped = st /\ i.pid = to
    <3> DEFINE k == [j EXCEPT !.count = @ + 1]
    <3>1. j.count + 1 \in Nat
      BY <1>0, <2>3
    <3>2. /\ k \in InRec /\ ~k.inflight /\ ~k.held /\ k.rx = rx /\ k.count = u.in.count + 1
          /\ k.trn = u.in.trn
      BY <2>3, <3>1 DEF InRec
    <3>3. i = [k EXCEPT !.stopped = st, !.pid = to]
      BY <2>2, <2>3 DEF InRec
    <3> HIDE DEF k
    <3> QED
      BY <2>1, <3>2, <3>3 DEF InRec
  <2> QED
    BY <2>1, <2>4
<1> HIDE DEF i
<1>6. /\ taken \in ModuleRec /\ taken.in = i /\ taken.out = u.out /\ taken.dma = u.dma
      /\ taken.sts = u.sts \union {"brdy"} /\ taken.memory = u.memory /\ taken.attached
  BY <1>0, <1>5 DEF ModuleRec
<1> HIDE DEF taken
<1>7. Going(w, d)
  <2>1. CASE host.at = "data"
    <3> DEFINE m == u.in.count
    <3>1. /\ ~host.write /\ d.size = host.size /\ Emptied(h) /\ ~h.out.valid
          /\ u.dma.dreqe /\ u.dma.sel = "in" /\ ~u.dma.toFifo /\ u.in.trn = host.size
          /\ m <= host.size /\ m # host.size /\ u.memory = Through(m)
          /\ u.dma.left = host.size - m /\ u.dma.active /\ ~u.dma.done
          /\ ~u.in.stopped /\ pkt = m + 1 /\ d.next = m + 2
          /\ d.stage = IF m + 1 = host.size THEN "csw" ELSE "in"
      BY <1>2, <2>1 DEF Reading, OnTheStick, pkt
    <3>2. /\ w \in ModuleRec /\ w.in = [i EXCEPT !.rx = <<>>]
          /\ w.out = u.out /\ w.memory = Append(u.memory, pkt)
          /\ w.dma = [u.dma EXCEPT !.left = @ - 1, !.active = u.dma.left > 1,
                                        !.done = @ \/ u.dma.left = 1]
          /\ w.attached
      <4>1. /\ taken.dma.left > 0 /\ taken.in.rx = <<pkt>> /\ taken.dma.active
            /\ taken.dma.dreqe /\ taken.dma.sel = "in" /\ ~taken.dma.toFifo
        BY <1>0, <1>5, <1>6, <3>1
      <4> HIDE DEF w
      <4>2. /\ w \in ModuleRec /\ w.in = [taken.in EXCEPT !.rx = <<>>]
            /\ w.out = taken.out /\ w.memory = Append(taken.memory, pkt)
            /\ w.dma = [taken.dma EXCEPT !.left = @ - 1, !.active = taken.dma.left > 1,
                                         !.done = @ \/ taken.dma.left = 1]
            /\ w.attached = taken.attached
        BY <1>0, <1>6, <4>1, PortDrains, ZenonT(40) DEF w
      <4> QED
        BY <1>6, <4>2
    <3> HIDE DEF w
    <3>3. /\ w.dma.left = host.size - (m + 1) /\ w.dma.dreqe /\ w.dma.sel = "in"
          /\ ~w.dma.toFifo
          /\ m + 1 = host.size => ~w.dma.active /\ w.dma.done
          /\ m + 1 # host.size => w.dma.active /\ ~w.dma.done
      <4>0. m \in Nat /\ host.size \in Nat /\ u.dma.left = host.size - m /\ m < host.size
        BY <1>0, <3>1 DEF InRec, DriverInv, DriverTypes
      <4> HIDE DEF m
      <4>1. /\ m + 1 = host.size => ~(u.dma.left > 1) /\ u.dma.left = 1
            /\ m + 1 # host.size => u.dma.left > 1 /\ u.dma.left # 1
        BY <4>0
      <4> DEFINE more == u.dma.left > 1
                 over == u.dma.done \/ u.dma.left = 1
      <4>2. more \in BOOLEAN /\ over \in BOOLEAN
        OBVIOUS
      <4>3. /\ m + 1 = host.size => ~more /\ over
            /\ m + 1 # host.size => more /\ ~over
        BY <3>1, <4>1
      <4> HIDE DEF more, over
      <4>4. w.dma = [u.dma EXCEPT !.left = @ - 1, !.active = more, !.done = over]
        BY <3>2 DEF more, over
      <4>5. /\ w.dma.left = u.dma.left - 1 /\ w.dma.dreqe = u.dma.dreqe
            /\ w.dma.sel = u.dma.sel /\ w.dma.toFifo = u.dma.toFifo
            /\ w.dma.active = more /\ w.dma.done = over
        BY <1>0, <4>4 DEF PortRec
      <4> QED
        BY <1>0, <3>1, <4>0, <4>3, <4>5
    <3>4. /\ w.in.rx = <<>> /\ ~w.in.inflight /\ ~w.in.held /\ w.in.count = m + 1
          /\ w.in.trn = host.size /\ (ends => w.in.stopped /\ w.in.pid = "nak")
          /\ (~ends => ~w.in.stopped)
      BY <1>0, <1>5, <3>1, <3>2 DEF InRec
    <3>5. ends = (m + 1 = host.size)
      BY <1>0, <3>1 DEF ends, Csw
    <3>6. w.memory = Through(m + 1)
      BY <1>0, <3>1, <3>2, OneMore, SMTT(30)
    <3>7. Reading(w, d)
      <4>1. m + 1 <= host.size
        BY <1>0, <3>1
      <4>2. Emptied(w) /\ ~w.out.valid
        BY <3>1, <3>2 DEF Emptied
      <4>3. CASE m + 1 = host.size
        BY <3>1, <3>3, <3>4, <3>5, <3>6, <4>1, <4>2, <4>3 DEF Reading, Calm
      <4>4. CASE m + 1 # host.size
        <5>1. OnTheStick(w, d)
          BY <1>0, <3>1, <3>4, <4>4 DEF OnTheStick
        <5> QED
          BY <3>1, <3>3, <3>4, <3>5, <3>6, <4>1, <4>2, <4>4, <5>1 DEF Reading
      <4> QED
        BY <4>3, <4>4
    <3> QED
      BY <1>0, <2>1, <3>1, <3>2, <3>7 DEF Going, Phase
  <2>2. CASE host.at = "csw"
    <3>1. /\ Whole(h, d) /\ ~u.dma.dreqe /\ ~u.dma.done /\ pkt = Csw /\ d.stage = "cbw"
      BY <1>2, <2>2 DEF Status, Away, pkt
    <3>2. w = taken
      BY <1>6, <3>1, PortRests
    <3>3. ends
      BY <3>1 DEF ends
    <3>4. Whole(w, d)
      BY <1>6, <3>1, <3>2 DEF Whole, Data, Emptied
    <3>5. Status(w, d)
      <4>1. /\ w.in.rx = <<Csw>> /\ ~w.in.inflight /\ ~w.in.held /\ w.in.stopped
            /\ ~w.dma.dreqe /\ ~w.dma.done
        BY <1>5, <1>6, <3>1, <3>2, <3>3
      <4>2. w.in.rx # <<>>
        BY <4>1
      <4> HIDE DEF w
      <4> QED
        BY <3>1, <3>4, <4>1, <4>2 DEF Status, Away
    <3> QED
      BY <1>0, <1>6, <2>2, <3>2, <3>5 DEF Going, Phase
  <2> QED
    BY <1>2, <2>1, <2>2
<1> HIDE DEF w
<1> QED
  BY <1>1, <1>7, KickKeeps DEF pkt

(* The packet that is held back. *)
LEMMA Announced ==
    ASSUME NEW p \in InRec, NEW pkt \in Int
    PROVE  LET i == [p EXCEPT !.held = TRUE, !.inflight = TRUE, !.pkt = pkt]
           IN  /\ i \in InRec /\ i.held /\ i.inflight /\ i.pkt = pkt /\ i.rx = p.rx
               /\ i.trn = p.trn /\ i.count = p.count /\ i.stopped = p.stopped
               /\ i.pid = p.pid
<1> DEFINE j == [p EXCEPT !.held = TRUE, !.inflight = TRUE]
           i == [j EXCEPT !.pkt = pkt]
<1>1. /\ j \in InRec /\ j.held /\ j.inflight /\ j.rx = p.rx
      /\ j.trn = p.trn /\ j.count = p.count /\ j.stopped = p.stopped /\ j.pid = p.pid
  BY DEF InRec
<1>2. i = [p EXCEPT !.held = TRUE, !.inflight = TRUE, !.pkt = pkt]
  BY DEF InRec
<1> HIDE DEF j
<1>3. /\ i \in InRec /\ i.held /\ i.inflight /\ i.pkt = pkt /\ i.rx = p.rx
      /\ i.trn = p.trn /\ i.count = p.count /\ i.stopped = p.stopped /\ i.pid = p.pid
  BY <1>1 DEF InRec
<1> HIDE DEF i
<1> QED
  BY <1>2, <1>3

(* A packet taken off the stick is delivered, or held back.                 *)
LEMMA Incoming ==
    ASSUME NEW u, NEW d, Going(u, d), DriverInv, host.at # "gone", ~u.in.held,
           CanIn(u) \/ u.in.inflight
    PROVE  LET e == StickGives(d)
           IN  Going(DoneIn(u, Given(d)), e) /\ e.stage # "stalled"
               /\ DoneIn(u, Given(d)).timer
<1> DEFINE pkt == Given(d)
           e == StickGives(d)
           i == [u.in EXCEPT !.held = TRUE, !.inflight = TRUE, !.pkt = pkt]
           h == [u EXCEPT !.in = i]
<1>0. /\ u.in \in InRec /\ u \in ModuleRec /\ host.size \in Nat /\ host.write \in BOOLEAN
      /\ host.at \in HostSteps /\ d \in StickRec /\ u.in.count \in Nat /\ u.in.trn \in Nat
      /\ u.attached
  BY DEF Going, DriverInv, DriverTypes, ModuleRec, InRec
<1>1. \/ host.at = "data" /\ Reading(u, d) /\ u.in.count # host.size
      \/ host.at = "csw" /\ Status(u, d) /\ u.in.rx = <<>>
  <2>1. ~Calm(u)
    BY DEF Calm, CanIn
  <2> QED
    BY <2>1, LetGo
<1>2. CASE host.at = "data"
  <2>1. /\ d.stage = "in" /\ d.next = u.in.count + 1 /\ d.size = host.size
    BY <1>1, <1>2 DEF Reading, OnTheStick
  <2>2. pkt = u.in.count + 1
    BY <2>1 DEF Given
  <2>3. /\ e \in StickRec /\ e.next = u.in.count + 2 /\ e.size = host.size
        /\ e.stage = IF u.in.count + 1 = host.size THEN "csw" ELSE "in"
    <3> DEFINE to == IF u.in.count + 1 = host.size THEN "csw" ELSE "in"
    <3>1. to \in {"in", "csw"} /\ d.next + 1 = u.in.count + 2 /\ u.in.count + 2 \in Nat
      BY <1>0, <2>1
    <3>2. e = [d EXCEPT !.next = u.in.count + 2, !.stage = to]
      BY <2>1, <3>1 DEF StickGives
    <3> HIDE DEF e, to
    <3>3. e \in StickRec /\ e.next = u.in.count + 2 /\ e.size = d.size /\ e.stage = to
      BY <1>0, <3>1, <3>2 DEF StickRec
    <3> QED
      BY <2>1, <3>3 DEF to
  <2> HIDE DEF e, pkt
  <2>4. /\ i \in InRec /\ i.held /\ i.inflight /\ i.pkt = pkt /\ i.rx = u.in.rx
        /\ i.trn = u.in.trn /\ i.count = u.in.count /\ i.stopped = u.in.stopped
        /\ i.pid = u.in.pid
    <3>1. pkt \in Int
      BY <1>0, <2>2
    <3> QED
      BY <1>0, <3>1, Announced
  <2> HIDE DEF i
  <2>5. /\ h \in ModuleRec /\ h.in = i /\ h.out = u.out /\ h.dma = u.dma /\ h.sts = u.sts
        /\ h.memory = u.memory /\ h.attached = u.attached
    BY <1>0, <2>4 DEF ModuleRec
  <2> HIDE DEF h
  <2>6. Reading(h, e)
    <3>1. OnTheStick(h, e)
      BY <2>2, <2>3, <2>4, <2>5 DEF OnTheStick
    <3>2. Emptied(h)
      BY <1>1, <1>2, <2>5 DEF Reading, Emptied
    <3> QED
      BY <1>1, <1>2, <2>3, <2>4, <2>5, <3>1, <3>2 DEF Reading
  <2>7. Going(h, e)
    BY <1>0, <1>1, <1>2, <2>3, <2>5, <2>6 DEF Going, Phase, Reading
  <2>8. FinishIn(u, pkt) = FinishIn(u, h.in.pkt) /\ pkt \in Int
    BY <1>0, <2>2, <2>4, <2>5
  <2>9. Going(FinishIn(u, pkt), e) /\ FinishIn(u, pkt).timer
    BY <1>0, <2>4, <2>5, <2>7, <2>8, Delivered
  <2>10. h = [u EXCEPT !.in.held = TRUE, !.in.inflight = TRUE, !.in.pkt = pkt]
    BY DEF h, i
  <2>11. Going(DoneIn(u, pkt), e) /\ DoneIn(u, pkt).timer
    BY <2>7, <2>9, <2>10, KickKeeps DEF DoneIn
  <2>12. e.stage # "stalled"
    BY <2>3
  <2> QED
    BY <2>11, <2>12 DEF e, pkt
<1>3. CASE host.at = "csw"
  <2>1. d.stage = "csw"
    BY <1>1, <1>3 DEF Status
  <2>2. pkt = Csw
    BY <2>1 DEF Given
  <2>3. e \in StickRec /\ e.stage = "cbw" /\ e.got = d.got
    BY <1>0, <2>1 DEF StickGives, StickRec
  <2> HIDE DEF e, pkt
  <2>4. /\ i \in InRec /\ i.held /\ i.inflight /\ i.pkt = pkt /\ i.rx = u.in.rx
        /\ i.trn = u.in.trn /\ i.count = u.in.count /\ i.stopped = u.in.stopped
        /\ i.pid = u.in.pid
    <3>1. pkt \in Int
      BY <1>0, <2>2 DEF Csw
    <3> QED
      BY <1>0, <3>1, Announced
  <2> HIDE DEF i
  <2>5. /\ h \in ModuleRec /\ h.in = i /\ h.out = u.out /\ h.dma = u.dma /\ h.sts = u.sts
        /\ h.memory = u.memory /\ h.attached = u.attached
    BY <1>0, <2>4 DEF ModuleRec
  <2> HIDE DEF h
  <2>6. Status(h, e)
    <3>1. Whole(h, e) /\ Away(h)
      BY <1>1, <1>3, <2>3, <2>5 DEF Status, Whole, Emptied, Data, Away
    <3> QED
      BY <1>1, <1>3, <2>2, <2>3, <2>4, <2>5, <3>1 DEF Status
  <2>7. Going(h, e)
    BY <1>0, <1>3, <2>3, <2>5, <2>6 DEF Going, Phase
  <2>8. FinishIn(u, pkt) = FinishIn(u, h.in.pkt)
    BY <2>4, <2>5
  <2>9. Going(FinishIn(u, pkt), e) /\ FinishIn(u, pkt).timer
    BY <1>0, <2>4, <2>5, <2>7, <2>8, Delivered
  <2>10. h = [u EXCEPT !.in.held = TRUE, !.in.inflight = TRUE, !.in.pkt = pkt]
    BY DEF h, i
  <2>11. Going(DoneIn(u, pkt), e) /\ DoneIn(u, pkt).timer
    BY <2>7, <2>9, <2>10, KickKeeps DEF DoneIn
  <2>12. e.stage # "stalled"
    BY <2>3
  <2> QED
    BY <2>11, <2>12 DEF e, pkt
<1> QED
  BY <1>1, <1>2, <1>3

(* What is said of the module is said for the driver's present step. *)
LEMMA SameHost ==
    ASSUME host' = host, Going(usb', stick')
    PROVE  Going(usb, stick)'
  BY DEF Going, Phase, Calm, Emptied, Away, Data, Accepted, Asking, Ready, OnTheStick,
         Reading, Rest, Writing, Whole, Status, Through, Cbw, Csw, ModuleRec, InRec,
         OutRec, PortRec, StickRec

(* What may be done has the timer going. *)
Alert(u) == CanOut(u) \/ CanIn(u) \/ u.in.held => u.timer

(* A transaction of the transmit pipe that fails: it is tried again, or the  *)
(* pipe is put to NAK.                                                      *)
LEMMA MissedOut ==
    ASSUME NEW u, NEW d, Going(u, d), DriverInv, NEW answer \in {"nak", "bad"}
    PROVE  LET v == Failed(u, "out", answer)
           IN  /\ Going(v, d) /\ v.in = u.in /\ v.in.held = u.in.held
               /\ v.timer \/ v.out.pid = "nak"
               /\ u.timer => v.timer
<1> DEFINE q == [u.out EXCEPT !.inflight = FALSE]
           r == [q EXCEPT !.retries = @ + 1]
           k == [r EXCEPT !.pid = "nak"]
           over == [u EXCEPT !.out = q]
           missed == [u EXCEPT !.out = r]
           left == [u EXCEPT !.out = k, !.sts = @ \union {"nrdy"}]
           Same(x) == x.tx = u.out.tx /\ x.valid = u.out.valid
<1>0. u \in ModuleRec /\ u.out \in OutRec /\ u.out.retries \in Nat
  BY DEF Going, ModuleRec, OutRec
<1>1. q \in OutRec /\ Same(q) /\ ~q.inflight /\ q.pid = u.out.pid /\ q.retries = u.out.retries
  BY <1>0 DEF OutRec
<1>2. Failed(u, "out", answer) \in {Kick(over), Kick(missed), left}
  <2>1. [u EXCEPT !["out"].inflight = FALSE] = over
    BY <1>0 DEF ModuleRec
  <2>2. [over EXCEPT !["out"].retries = @ + 1] = missed
    BY <1>0, <1>1 DEF ModuleRec
  <2>3. [missed EXCEPT !["out"].pid = "nak", !.sts = @ \union {"nrdy"}] = left
    BY <1>0, <1>1, ZenonT(60) DEF ModuleRec
  <2> HIDE DEF over, missed, left
  <2>4. CASE answer = "nak"
    BY <2>1, <2>4 DEF Failed
  <2>5. CASE answer = "bad" /\ u.out.retries < 2
    <3>1. u["out"].retries < 2 /\ ~(u["out"].retries >= 2) /\ answer # "nak"
      BY <1>0, <2>5
    <3> QED
      BY <2>1, <2>2, <2>5, <3>1 DEF Failed
  <2>6. CASE answer = "bad" /\ ~(u.out.retries < 2)
    <3>1. u["out"].retries >= 2 /\ ~(u["out"].retries < 2)
      BY <1>0, <2>6
    <3> QED
      BY <2>1, <2>2, <2>3, <2>6, <3>1 DEF Failed
  <2> QED
    BY <2>4, <2>5, <2>6
<1> HIDE DEF q
<1>3. r \in OutRec /\ Same(r) /\ ~r.inflight /\ r.pid = u.out.pid
  <2>1. q.retries + 1 \in Nat
    BY <1>0, <1>1
  <2> QED
    BY <1>1, <2>1 DEF OutRec
<1> HIDE DEF r
<1>4. k \in OutRec /\ Same(k) /\ ~k.inflight /\ k.pid = "nak"
  BY <1>3 DEF OutRec
<1> HIDE DEF k
<1>5. ASSUME NEW x \in ModuleRec, x.in = u.in, x.dma = u.dma, x.memory = u.memory,
             x.attached = u.attached, Same(x.out), ~x.out.inflight,
             x.out.pid \in {u.out.pid, "nak"}, x.sts \subseteq u.sts \union {"nrdy"}
      PROVE  Going(x, d) /\ x.in.held = u.in.held
  BY <1>5, CarryOn
<1>6. /\ over \in ModuleRec /\ over.in = u.in /\ over.dma = u.dma
      /\ over.memory = u.memory /\ over.attached = u.attached /\ over.sts = u.sts
      /\ over.out = q
  BY <1>0, <1>1 DEF ModuleRec
<1>7. /\ missed \in ModuleRec /\ missed.in = u.in /\ missed.dma = u.dma
      /\ missed.memory = u.memory /\ missed.attached = u.attached /\ missed.sts = u.sts
      /\ missed.out = r
  BY <1>0, <1>3 DEF ModuleRec
<1>8. /\ left \in ModuleRec /\ left.in = u.in /\ left.dma = u.dma
      /\ left.memory = u.memory /\ left.attached = u.attached
      /\ left.sts = u.sts \union {"nrdy"} /\ left.out = k /\ left.timer = u.timer
  BY <1>0, <1>4 DEF ModuleRec
<1> HIDE DEF over, missed, left
<1>9. Going(over, d) /\ over.in.held = u.in.held
  BY <1>1, <1>5, <1>6
<1>10. Going(missed, d) /\ missed.in.held = u.in.held
  BY <1>3, <1>5, <1>7
<1>11. Going(left, d) /\ left.in.held = u.in.held
  BY <1>4, <1>5, <1>8
<1>12. ASSUME NEW x \in ModuleRec, Going(x, d), x.in = u.in, x.in.held = u.in.held
       PROVE  /\ Going(Kick(x), d) /\ Kick(x).in = u.in
              /\ Kick(x).in.held = u.in.held /\ Kick(x).timer
  <2>1. Going(Kick(x), d) /\ Kick(x).timer
    BY <1>12, KickKeeps
  <2>2. Kick(x).in = x.in /\ Kick(x).out = x.out
    BY DEF Kick, ModuleRec
  <2> QED
    BY <1>12, <2>1, <2>2
<1>13. CASE Failed(u, "out", answer) = Kick(over)
  BY <1>6, <1>9, <1>12, <1>13
<1>14. CASE Failed(u, "out", answer) = Kick(missed)
  BY <1>7, <1>10, <1>12, <1>14
<1>15. CASE Failed(u, "out", answer) = left
  BY <1>4, <1>8, <1>11, <1>15
<1> QED
  BY <1>2, <1>13, <1>14, <1>15

(* The same of the receive pipe.                                            *)
LEMMA MissedIn ==
    ASSUME NEW u, NEW d, Going(u, d), DriverInv, NEW answer \in {"nak", "bad"},
           ~u.in.held
    PROVE  LET v == Failed(u, "in", answer)
           IN  /\ Going(v, d) /\ v.out = u.out /\ v.in.held = u.in.held
               /\ v.timer \/ v.in.pid = "nak"
               /\ u.timer => v.timer
<1> DEFINE q == [u.in EXCEPT !.inflight = FALSE]
           r == [q EXCEPT !.retries = @ + 1]
           k == [r EXCEPT !.pid = "nak"]
           over == [u EXCEPT !.in = q]
           missed == [u EXCEPT !.in = r]
           left == [u EXCEPT !.in = k, !.sts = @ \union {"nrdy"}]
           Same(x) == /\ x.held = u.in.held /\ x.stopped = u.in.stopped /\ x.rx = u.in.rx
                      /\ x.pkt = u.in.pkt /\ x.trn = u.in.trn /\ x.count = u.in.count
<1>0. u \in ModuleRec /\ u.in \in InRec /\ u.in.retries \in Nat
  BY DEF Going, ModuleRec, InRec
<1>1. q \in InRec /\ Same(q) /\ ~q.inflight /\ q.pid = u.in.pid /\ q.retries = u.in.retries
  BY <1>0 DEF InRec
<1>2. Failed(u, "in", answer) \in {Kick(over), Kick(missed), left}
  <2>1. [u EXCEPT !["in"].inflight = FALSE] = over
    BY <1>0 DEF ModuleRec
  <2>2. [over EXCEPT !["in"].retries = @ + 1] = missed
    BY <1>0, <1>1, ZenonT(60) DEF ModuleRec
  <2>3. [missed EXCEPT !["in"].pid = "nak", !.sts = @ \union {"nrdy"}] = left
    BY <1>0, <1>1, ZenonT(60) DEF ModuleRec
  <2> HIDE DEF over, missed, left
  <2>4. CASE answer = "nak"
    BY <2>1, <2>4 DEF Failed
  <2>5. CASE answer = "bad" /\ u.in.retries < 2
    <3>1. u["in"].retries < 2 /\ ~(u["in"].retries >= 2) /\ answer # "nak"
      BY <1>0, <2>5
    <3> QED
      BY <2>1, <2>2, <2>5, <3>1 DEF Failed
  <2>6. CASE answer = "bad" /\ ~(u.in.retries < 2)
    <3>1. u["in"].retries >= 2 /\ ~(u["in"].retries < 2)
      BY <1>0, <2>6
    <3> QED
      BY <2>1, <2>2, <2>3, <2>6, <3>1 DEF Failed
  <2> QED
    BY <2>4, <2>5, <2>6
<1> HIDE DEF q
<1>3. r \in InRec /\ Same(r) /\ ~r.inflight /\ r.pid = u.in.pid
  <2>1. q.retries + 1 \in Nat
    BY <1>0, <1>1
  <2> QED
    BY <1>1, <2>1 DEF InRec
<1> HIDE DEF r
<1>4. k \in InRec /\ Same(k) /\ ~k.inflight /\ k.pid = "nak"
  BY <1>3 DEF InRec
<1> HIDE DEF k
<1>5. ASSUME NEW x \in ModuleRec, x.out = u.out, x.dma = u.dma, x.memory = u.memory,
             x.attached = u.attached, Same(x.in), ~x.in.inflight,
             x.in.pid \in {u.in.pid, "nak"}, x.sts \subseteq u.sts \union {"nrdy"}
      PROVE  Going(x, d) /\ x.in.held = u.in.held
  BY <1>5, CarryOn
<1>6. /\ over \in ModuleRec /\ over.out = u.out /\ over.dma = u.dma
      /\ over.memory = u.memory /\ over.attached = u.attached /\ over.sts = u.sts
      /\ over.in = q
  BY <1>0, <1>1 DEF ModuleRec
<1>7. /\ missed \in ModuleRec /\ missed.out = u.out /\ missed.dma = u.dma
      /\ missed.memory = u.memory /\ missed.attached = u.attached /\ missed.sts = u.sts
      /\ missed.in = r
  BY <1>0, <1>3 DEF ModuleRec
<1>8. /\ left \in ModuleRec /\ left.out = u.out /\ left.dma = u.dma
      /\ left.memory = u.memory /\ left.attached = u.attached
      /\ left.sts = u.sts \union {"nrdy"} /\ left.in = k /\ left.timer = u.timer
  BY <1>0, <1>4 DEF ModuleRec
<1> HIDE DEF over, missed, left
<1>9. Going(over, d) /\ over.in.held = u.in.held
  BY <1>1, <1>5, <1>6
<1>10. Going(missed, d) /\ missed.in.held = u.in.held
  BY <1>3, <1>5, <1>7
<1>11. Going(left, d) /\ left.in.held = u.in.held
  BY <1>4, <1>5, <1>8
<1>12. ASSUME NEW x \in ModuleRec, Going(x, d), x.out = u.out, x.in.held = u.in.held
       PROVE  /\ Going(Kick(x), d) /\ Kick(x).out = u.out
              /\ Kick(x).in.held = u.in.held /\ Kick(x).timer
  <2>1. Going(Kick(x), d) /\ Kick(x).timer
    BY <1>12, KickKeeps
  <2>2. Kick(x).in = x.in /\ Kick(x).out = x.out
    BY DEF Kick, ModuleRec
  <2> QED
    BY <1>12, <2>1, <2>2
<1>13. CASE Failed(u, "in", answer) = Kick(over)
  BY <1>6, <1>9, <1>12, <1>13
<1>14. CASE Failed(u, "in", answer) = Kick(missed)
  BY <1>7, <1>10, <1>12, <1>14
<1>15. CASE Failed(u, "in", answer) = left
  BY <1>4, <1>8, <1>11, <1>15
<1> QED
  BY <1>2, <1>13, <1>14, <1>15

(* One transmit packet offered to the stick, whatever it answers. *)
LEMMA TurnOut ==
    ASSUME NEW u, NEW d, Going(u, d), DriverInv, host.at # "gone",
           NEW answer \in {"now", "later", "nak", "bad"}
    PROVE  LET o == RunOut(u, d, answer)
           IN  /\ Going(o[1], o[2]) /\ o[1].in = u.in
               /\ (CanOut(o[1]) => o[1].timer) /\ (u.timer => o[1].timer)
<1> DEFINE o == RunOut(u, d, answer)
           after == StickTakes(d, Head(u.out.tx))
           later == [u EXCEPT !.out.inflight = TRUE]
<1>0. u \in ModuleRec /\ u.out \in OutRec /\ d \in StickRec
  BY DEF Going, ModuleRec
<1>1. CASE ~CanOut(u)
  BY <1>1 DEF RunOut
<1>2. CASE CanOut(u) /\ u.out.hold
  <2>1. o = <<Kick(u), d>>
    BY <1>2 DEF RunOut
  <2>2. Kick(u).in = u.in
    BY <1>0 DEF Kick, ModuleRec
  <2> HIDE DEF o
  <2>3. Going(Kick(u), d) /\ Kick(u).timer
    BY KickKeeps
  <2> QED
    BY <2>1, <2>2, <2>3 DEF o
<1>3. CASE CanOut(u) /\ ~u.out.hold /\ u.out.tx = <<>>
  <2>1. o = <<FinishOut(u), d>>
    BY <1>3 DEF RunOut
  <2>2. FinishOut(u).in = u.in
    BY <1>3, Outgoing DEF CanOut
  <2>3. Going(FinishOut(u), d) /\ FinishOut(u).timer
    BY <1>3, SentNothing DEF CanOut
  <2> HIDE DEF o
  <2> QED
    BY <2>1, <2>2, <2>3 DEF o
<1>4. CASE CanOut(u) /\ ~u.out.hold /\ u.out.tx # <<>> /\ answer \in {"nak", "bad"}
  <2>1. o = <<Failed(u, "out", answer), d>>
    BY <1>4 DEF RunOut
  <2> HIDE DEF o
  <2> QED
    BY <1>4, <2>1, MissedOut DEF o, CanOut
<1>5. CASE CanOut(u) /\ ~u.out.hold /\ u.out.tx # <<>> /\ answer = "later"
  <2>1. after.stage # "stalled"
    BY <1>5, SentOn
  <2>2. o = <<later, d>>
    BY <1>5, <2>1 DEF RunOut
  <2>3. /\ later \in ModuleRec /\ later.in = u.in /\ later.out.tx = u.out.tx
        /\ later.out.valid = u.out.valid /\ later.out.inflight /\ later.dma = u.dma
        /\ later.sts = u.sts /\ later.memory = u.memory /\ later.attached = u.attached
        /\ later.timer = u.timer
    <3> DEFINE q == [u.out EXCEPT !.inflight = TRUE]
    <3>1. q \in OutRec /\ q.tx = u.out.tx /\ q.valid = u.out.valid /\ q.inflight
      BY <1>0 DEF OutRec
    <3>2. later = [u EXCEPT !.out = q]
      BY <1>0 DEF ModuleRec
    <3> HIDE DEF later, q
    <3> QED
      BY <1>0, <3>1, <3>2 DEF ModuleRec
  <2> HIDE DEF later, o, after
  <2>4. Going(later, d)
    BY <1>5, <2>3, Carry
  <2> QED
    BY <2>2, <2>3, <2>4 DEF o, CanOut
<1>6. CASE CanOut(u) /\ ~u.out.hold /\ u.out.tx # <<>> /\ answer = "now"
  <2>1. after.stage # "stalled" /\ Going(FinishOut(u), after) /\ FinishOut(u).timer
    BY <1>6, SentOn
  <2>2. o = <<FinishOut(u), after>>
    BY <1>6, <2>1 DEF RunOut
  <2>3. FinishOut(u).in = u.in
    BY <1>6, Outgoing
  <2> HIDE DEF o, after
  <2> QED
    BY <2>1, <2>2, <2>3 DEF o
<1> QED
  BY <1>1, <1>2, <1>3, <1>4, <1>5, <1>6

(* The IN pipe's turn leaves nothing that may be done unattended. *)
LEMMA TurnIn ==
    ASSUME NEW u, NEW d, Going(u, d), DriverInv, host.at # "gone",
           CanOut(u) => u.timer, u.in.held => u.timer,
           NEW answer \in {"now", "later", "nak", "bad"}
    PROVE  LET i == RunIn(u, d, answer)
           IN  Going(i[1], i[2]) /\ Alert(i[1])
<1> DEFINE i == RunIn(u, d, answer)
           after == StickGives(d)
           later == [u EXCEPT !.in.inflight = TRUE]
<1>0. u \in ModuleRec /\ u.in \in InRec /\ d \in StickRec
  BY DEF Going, ModuleRec
<1>1. CASE ~CanIn(u)
  BY <1>1 DEF RunIn, Alert
<1>2. CanIn(u) => ~u.in.held
  <2> SUFFICES ASSUME CanIn(u) PROVE ~u.in.held
    OBVIOUS
  <2>1. ~Calm(u) /\ ~u.in.inflight
    BY DEF Calm, CanIn
  <2>2. \/ Reading(u, d) /\ u.in.count # host.size
        \/ Status(u, d) /\ u.in.rx = <<>>
    BY <2>1, LetGo
  <2> QED
    BY <2>1, <2>2 DEF Reading, OnTheStick, Status
<1>3. CASE CanIn(u) /\ answer \in {"nak", "bad"}
  <2> DEFINE v == Failed(u, "in", answer)
  <2>1. i = <<v, d>>
    BY <1>3 DEF RunIn
  <2>2. /\ Going(v, d) /\ v.out = u.out /\ v.in.held = u.in.held
        /\ v.timer \/ v.in.pid = "nak"
        /\ u.timer => v.timer
    BY <1>2, <1>3, MissedIn
  <2> HIDE DEF v, i
  <2> QED
    BY <2>1, <2>2 DEF i, Alert, CanIn, CanOut
<1>4. CASE CanIn(u) /\ answer \in {"now", "later"}
  <2>1. after.stage # "stalled" /\ Going(DoneIn(u, Given(d)), after)
        /\ DoneIn(u, Given(d)).timer
    BY <1>2, <1>4, Incoming
  <2>2. CASE answer = "now"
    <3>1. i = <<DoneIn(u, Given(d)), after>>
      BY <1>4, <2>1, <2>2 DEF RunIn
    <3> HIDE DEF i, after
    <3> QED
      BY <2>1, <3>1 DEF i, Alert
  <2>3. CASE answer = "later"
    <3>1. i = <<later, d>>
      BY <1>4, <2>1, <2>3 DEF RunIn
    <3>2. /\ later \in ModuleRec /\ later.out = u.out /\ later.dma = u.dma
          /\ later.sts = u.sts /\ later.memory = u.memory /\ later.attached = u.attached
          /\ later.timer = u.timer /\ later.in.inflight /\ ~later.in.held
          /\ later.in.stopped = u.in.stopped /\ later.in.pid = u.in.pid
          /\ later.in.rx = u.in.rx /\ later.in.trn = u.in.trn
          /\ later.in.count = u.in.count
      <4> DEFINE q == [u.in EXCEPT !.inflight = TRUE]
      <4>1. /\ q \in InRec /\ q.inflight /\ ~q.held /\ q.stopped = u.in.stopped
            /\ q.pid = u.in.pid /\ q.rx = u.in.rx /\ q.trn = u.in.trn
            /\ q.count = u.in.count
        BY <1>0, <1>2, <1>4 DEF InRec
      <4>2. later = [u EXCEPT !.in = q]
        BY <1>0 DEF ModuleRec
      <4> HIDE DEF later, q
      <4> QED
        BY <1>0, <4>1, <4>2 DEF ModuleRec
    <3> HIDE DEF later, i, after
    <3>3. \/ host.at = "data" /\ Reading(u, d) /\ u.in.count # host.size
          \/ host.at = "csw" /\ Status(u, d) /\ u.in.rx = <<>>
      <4>1. ~Calm(u)
        BY <1>4 DEF Calm, CanIn
      <4> QED
        BY <1>4, <4>1, LetGo
    <3>4. host.at = "data" => Reading(later, d) /\ ~host.write
      BY <1>2, <1>4, <3>2, <3>3 DEF Reading, OnTheStick, Emptied
    <3>5. host.at = "csw" => Status(later, d)
      BY <1>2, <1>4, <3>2, <3>3 DEF Status, Whole, Data, Emptied, Away
    <3>6. Going(later, d)
      BY <3>2, <3>3, <3>4, <3>5 DEF Going, Phase
    <3>7. Alert(later)
      BY <3>2 DEF Alert, CanIn, CanOut
    <3> QED
      BY <3>1, <3>6, <3>7 DEF i
  <2> QED
    BY <1>4, <2>2, <2>3
<1> QED
  BY <1>1, <1>3, <1>4

(* The timer's call. *)
LEMMA FireStep ==
    ASSUME UsbInv, Fire
    PROVE  UsbInv' /\ (host'.at # "gone" => Alert(usb'))
<1>1. PICK answer \in {"now", "later", "nak", "bad"}, passed \in BOOLEAN :
         LET u0 == [usb EXCEPT !.timer = FALSE, !.out.hold = @ /\ ~passed]
             u1 == IF ~u0.in.held THEN u0
                   ELSE IF passed THEN FinishIn(u0, u0.in.pkt) ELSE Kick(u0)
             o == RunOut(ServiceDma(u1), stick, answer)
             i == RunIn(o[1], o[2], answer)
         IN  /\ naks' = IF answer \in {"nak", "bad"} THEN naks + 1 ELSE naks
             /\ usb' = IF usb.attached THEN i[1] ELSE [usb EXCEPT !.timer = FALSE]
             /\ stick' = IF usb.attached THEN i[2] ELSE stick
  BY DEF Fire
<1>2. host' = host /\ naks' \in Nat
  BY <1>1 DEF Fire, UsbInv, DriverInv
<1>3. DriverInv'
  BY <1>2 DEF UsbInv, DriverInv, DriverTypes, HostSteps
<1>4. CASE host.at = "gone"
  <2>1. usb' = [usb EXCEPT !.timer = FALSE] /\ stick' = stick /\ usb \in ModuleRec
    BY <1>1, <1>4 DEF UsbInv, Gone
  <2>2. usb' \in ModuleRec /\ usb'.attached = usb.attached /\ usb'.in = usb.in
        /\ usb'.out = usb.out
    BY <2>1 DEF ModuleRec
  <2>3. Gone'
    BY <1>4, <2>1, <2>2 DEF UsbInv, Gone, ModuleRec, InRec, OutRec, PortRec, StickRec
  <2> QED
    BY <1>2, <1>3, <1>4, <2>3 DEF UsbInv
<1>5. CASE host.at # "gone"
  <2> DEFINE u0 == [usb EXCEPT !.timer = FALSE, !.out.hold = @ /\ ~passed]
             u1 == IF ~u0.in.held THEN u0
                   ELSE IF passed THEN FinishIn(u0, u0.in.pkt) ELSE Kick(u0)
             u2 == ServiceDma(u1)
             o == RunOut(u2, stick, answer)
             i == RunIn(o[1], o[2], answer)
  <2>1. Going(usb, stick) /\ DriverInv /\ usb \in ModuleRec /\ usb.attached
    BY <1>5 DEF UsbInv, Going
  <2>2. usb' = i[1] /\ stick' = i[2]
    BY <1>1, <2>1
  <2>3. /\ u0 \in ModuleRec /\ u0.in = usb.in /\ u0.out.tx = usb.out.tx
        /\ u0.out.valid = usb.out.valid /\ u0.out.inflight = usb.out.inflight
        /\ u0.dma = usb.dma /\ u0.sts = usb.sts /\ u0.memory = usb.memory
        /\ u0.attached = usb.attached
    <3> DEFINE hold == usb.out.hold /\ ~passed
               q == [usb.out EXCEPT !.hold = hold]
    <3>1. hold \in BOOLEAN /\ usb.out \in OutRec
      BY <2>1 DEF ModuleRec
    <3>2. u0 = [usb EXCEPT !.timer = FALSE, !.out = q]
      BY <2>1 DEF ModuleRec
    <3> HIDE DEF hold
    <3>3. q \in OutRec /\ q.tx = usb.out.tx /\ q.valid = usb.out.valid
          /\ q.inflight = usb.out.inflight
      BY <3>1 DEF OutRec
    <3> HIDE DEF u0, q
    <3> QED
      BY <2>1, <3>2, <3>3 DEF ModuleRec
  <2> HIDE DEF u0, i, o, u2
  <2>4. Going(u0, stick)
    BY <2>1, <2>3, Carry
  <2>5. Going(u1, stick) /\ (u1.in.held => u1.timer)
    BY <1>5, <2>1, <2>3, <2>4, Delivered, KickKeeps
  <2> HIDE DEF u1
  <2>6. Going(u2, stick) /\ (u2.in.held => u2.timer)
    BY <1>5, <2>1, <2>5, Serviced DEF u2
  <2>7. Going(o[1], o[2]) /\ (o[1].in.held => o[1].timer) /\ (CanOut(o[1]) => o[1].timer)
    BY <1>5, <2>1, <2>6, TurnOut DEF o
  <2>8. Going(i[1], i[2]) /\ Alert(i[1])
    BY <1>5, <2>1, <2>7, TurnIn DEF i
  <2>9. Going(usb, stick)' /\ Alert(usb')
    BY <1>2, <2>2, <2>8, SameHost
  <2> QED
    BY <1>2, <1>3, <1>5, <2>9 DEF UsbInv
<1> QED
  BY <1>4, <1>5, SMTT(40)

(* Setting the timer leaves the rest of the module alone. *)
LEMMA Kicked ==
    ASSUME NEW x \in ModuleRec
    PROVE  /\ Kick(x) \in ModuleRec /\ Kick(x).in = x.in /\ Kick(x).out = x.out
           /\ Kick(x).dma = x.dma /\ Kick(x).sts = x.sts /\ Kick(x).memory = x.memory
           /\ Kick(x).attached = x.attached /\ Kick(x).timer = TRUE
  BY DEF Kick, ModuleRec

(* The stick's late answers, and its removal. *)
LEMMA StickSteps ==
    ASSUME UsbInv, AsyncComplete \/ Detach
    PROVE  UsbInv' /\ (host'.at # "gone" => Alert(usb'))
<1>1. CASE AsyncComplete
  <2>1. host' = host /\ naks' = naks
    BY <1>1 DEF AsyncComplete
  <2>2. host.at # "gone" /\ Going(usb, stick) /\ DriverInv
    BY <1>1 DEF AsyncComplete, UsbInv, Gone
  <2>3. DriverInv'
    BY <2>1, <2>2 DEF DriverInv, DriverTypes, HostSteps
  <2>4. CASE usb.out.inflight /\ usb' = FinishOut(usb) /\ stick' = StickTakes(stick, Head(usb.out.tx))
    <3>1. usb.out.tx # <<>>
      <4>1. Writing(usb, stick) /\ usb.out.tx = <<>> => FALSE
        <5> SUFFICES ASSUME Writing(usb, stick), usb.out.tx = <<>> PROVE FALSE
          OBVIOUS
        <5>1. stick.next - 1 < host.size => FALSE
          BY <2>2, OneLess DEF Writing, DriverInv, DriverTypes
        <5> QED
          BY <2>2, <2>4, <5>1 DEF Writing, DriverInv, DriverTypes
      <4>2. host.at \in HostSteps
        BY <2>2 DEF DriverInv, DriverTypes
      <4> QED
        BY <2>2, <2>4, <4>1, <4>2 DEF Going, Phase, Asking, Accepted, Emptied, Ready,
           Reading, Whole, Status, HostSteps, Cbw
    <3>2. Going(usb', stick') /\ usb'.timer
      BY <2>2, <2>4, <3>1, SentOn
    <3> QED
      BY <2>1, <2>2, <2>3, <3>2, SameHost DEF UsbInv, Alert
  <2>5. CASE /\ usb.in.inflight /\ ~usb.in.held
             /\ usb' = DoneIn(usb, Given(stick)) /\ stick' = StickGives(stick)
    <3>1. Going(usb', stick') /\ usb'.timer
      BY <2>2, <2>5, Incoming
    <3> QED
      BY <2>1, <2>2, <2>3, <3>1, SameHost DEF UsbInv, Alert
  <2> QED
    BY <1>1, <2>4, <2>5 DEF AsyncComplete
<1>2. CASE Detach
  <2>1. usb \in ModuleRec /\ stick \in StickRec /\ DriverInv
    BY DEF UsbInv, Gone, Going
  <2> DEFINE i == [usb.in EXCEPT !.inflight = FALSE, !.held = FALSE]
             o == [usb.out EXCEPT !.inflight = FALSE]
  <2>2. usb' = [usb EXCEPT !.attached = FALSE, !.in = i, !.out = o,
                           !.sts = @ \union {"dtch"}]
    BY <1>2, <2>1 DEF Detach, ModuleRec
  <2>3. i \in InRec /\ ~i.inflight /\ ~i.held /\ o \in OutRec /\ ~o.inflight
    BY <2>1 DEF ModuleRec, InRec, OutRec
  <2> HIDE DEF i, o
  <2>4. /\ usb' \in ModuleRec /\ ~usb'.attached /\ usb'.in = i /\ usb'.out = o
    BY <2>1, <2>2, <2>3 DEF ModuleRec
  <2>5. stick' = stick /\ naks' \in Nat /\ host' = [host EXCEPT !.at = "gone"]
    BY <1>2, <2>1 DEF Detach, DriverInv
  <2>6. host'.at = "gone" /\ DriverInv'
    BY <2>1, <2>5 DEF DriverInv, DriverTypes, HostSteps
  <2>7. Gone'
    BY <2>1, <2>3, <2>4, <2>5 DEF Gone, ModuleRec, InRec, OutRec, PortRec, StickRec
  <2> QED
    BY <2>6, <2>7 DEF UsbInv
<1> QED
  BY <1>1, <1>2

(* A transaction that fails late. *)
LEMMA FailStep ==
    ASSUME UsbInv, AsyncFail, Alert(usb)
    PROVE  UsbInv' /\ Alert(usb') /\ host'.at # "gone"
<1>1. host' = host /\ stick' = stick /\ naks' \in Nat
  BY DEF AsyncFail, UsbInv, DriverInv
<1>2. host.at # "gone" /\ Going(usb, stick) /\ DriverInv
  BY DEF AsyncFail, UsbInv, Gone
<1>3. DriverInv'
  BY <1>1, <1>2 DEF DriverInv, DriverTypes, HostSteps
<1>4. Going(usb', stick') /\ Alert(usb')
  <2>1. CASE usb' = Failed(usb, "out", "bad")
    <3> DEFINE v == Failed(usb, "out", "bad")
    <3>1. /\ Going(v, stick) /\ v.in = usb.in
          /\ v.timer \/ v.out.pid = "nak"
          /\ usb.timer => v.timer
      BY <1>2, MissedOut
    <3>2. usb' = v /\ stick' = stick
      BY <1>1, <2>1
    <3> HIDE DEF v
    <3>3. Alert(v)
      BY <3>1 DEF Alert, CanOut, CanIn
    <3> QED
      BY <3>1, <3>2, <3>3
  <2>2. CASE ~usb.in.held /\ usb' = Failed(usb, "in", "bad")
    <3> DEFINE v == Failed(usb, "in", "bad")
    <3>1. /\ Going(v, stick) /\ v.out = usb.out
          /\ v.timer \/ v.in.pid = "nak"
          /\ v.in.held = usb.in.held /\ (usb.timer => v.timer)
      BY <1>2, <2>2, MissedIn
    <3>2. usb' = v /\ stick' = stick
      BY <1>1, <2>2
    <3> HIDE DEF v
    <3>3. Alert(v)
      BY <3>1 DEF Alert, CanOut, CanIn
    <3> QED
      BY <3>1, <3>2, <3>3
  <2> QED
    BY <2>1, <2>2 DEF AsyncFail
<1>5. Going(usb, stick)'
  BY <1>1, <1>4, SameHost
<1> QED
  BY <1>1, <1>2, <1>3, <1>4, <1>5 DEF UsbInv

(* The command. *)
LEMMA SendCommandStep ==
    ASSUME UsbInv, SendCommand, stick' = stick, naks' = naks
    PROVE  UsbInv' /\ Alert(usb') /\ host'.at # "gone"
<1>1. /\ host.at = "idle" /\ usb \in ModuleRec /\ stick \in StickRec /\ DriverInv
      /\ usb.attached /\ Calm(usb) /\ Emptied(usb) /\ Away(usb) /\ stick.stage = "cbw"
  BY DEF SendCommand, UsbInv, Going, Phase
<1>2. PICK write \in BOOLEAN, n \in UsbSizes :
         host' = [host EXCEPT !.at = "cbw", !.write = write, !.size = n,
                              !.commands = @ + 1, !.status = FALSE]
  BY DEF SendCommand
<1>3. n \in Nat /\ n > 0
  BY UsbHostAssumption
<1>4. host'.at = "cbw" /\ DriverInv'
  <2> DEFINE a == [host EXCEPT !.at = "cbw", !.write = write, !.size = n]
             b == [a EXCEPT !.commands = @ + 1, !.status = FALSE]
  <2>1. a \in [at : HostSteps, write : BOOLEAN, size : Nat, commands : Nat,
               status : BOOLEAN] /\ a.at = "cbw" /\ a.size = n
    BY <1>1, <1>3 DEF DriverInv, DriverTypes, HostSteps
  <2>2. host' = b
    BY <1>1, <1>2 DEF DriverInv, DriverTypes
  <2> HIDE DEF a
  <2>3. b \in [at : HostSteps, write : BOOLEAN, size : Nat, commands : Nat,
               status : BOOLEAN] /\ b.at = "cbw" /\ b.size = n
    <3>1. a.commands + 1 \in Nat
      BY <2>1
    <3> QED
      BY <2>1, <3>1
  <2> HIDE DEF b
  <2> QED
    BY <1>1, <1>3, <2>2, <2>3 DEF DriverInv, DriverTypes, HostSteps
<1> DEFINE o == [usb.out EXCEPT !.tx = Append(@, Cbw), !.valid = TRUE, !.pid = "buf",
                              !.retries = 0]
           x == [usb EXCEPT !.out = o, !.sts = {}, !.memory = <<>>]
<1>5. usb' = Kick(x)
  BY <1>1 DEF SendCommand, ModuleRec
<1>6. o \in OutRec /\ o.tx = <<Cbw>> /\ o.valid = TRUE
  <2>1. usb.out \in OutRec /\ Append(usb.out.tx, Cbw) = <<Cbw>> /\ <<Cbw>> \in Seq(Int)
    BY <1>1 DEF ModuleRec, Emptied, Cbw
  <2> QED
    BY <2>1 DEF OutRec
<1> HIDE DEF o
<1>7. /\ x \in ModuleRec /\ x.in = usb.in /\ x.out = o /\ x.dma = usb.dma /\ x.sts = {}
      /\ x.memory = <<>> /\ x.attached = usb.attached
  <2>1. <<>> \in Seq(Int)
    OBVIOUS
  <2> QED
    BY <1>1, <1>6, <2>1 DEF ModuleRec
<1> HIDE DEF x
<1>8. /\ usb' \in ModuleRec /\ usb'.in = usb.in /\ usb'.out = o /\ usb'.dma = usb.dma
      /\ usb'.sts = {} /\ usb'.memory = <<>> /\ usb'.attached /\ usb'.timer
  BY <1>1, <1>5, <1>7, Kicked
<1>9. Asking(usb, stick)'
  BY <1>1, <1>6, <1>8 DEF Asking, Calm, Away, Cbw
<1>10. Going(usb, stick)'
  BY <1>1, <1>4, <1>8, <1>9 DEF Going, Phase, ModuleRec, InRec, OutRec, PortRec, StickRec
<1> QED
  BY <1>4, <1>8, <1>10 DEF UsbInv, Alert

(* The DMA controller and the port. *)
LEMMA DmaSteps ==
    ASSUME UsbInv, StartDma \/ Select \/ Go, stick' = stick, naks' = naks
    PROVE  UsbInv' /\ Alert(usb') /\ host'.at # "gone"
<1>0. /\ usb \in ModuleRec /\ stick \in StickRec /\ DriverInv /\ host.at # "gone"
      /\ usb.attached /\ Phase(usb, stick) /\ usb.dma \in PortRec /\ usb.in \in InRec
      /\ host.size > 0 /\ host.size \in Nat /\ host.write \in BOOLEAN
  BY DEF StartDma, Select, Go, Goes, UsbInv, Going, ModuleRec, DriverInv, DriverTypes
<1>1. /\ host' = [host EXCEPT !.at = host'.at]
      /\ host'.at \in {"select", "data", "go"}
  BY <1>0 DEF StartDma, Select, Go, Goes, DriverInv, DriverTypes
<1>2. host'.write = host.write /\ host'.size = host.size /\ DriverInv'
  BY <1>0, <1>1 DEF DriverInv, DriverTypes, HostSteps
<1>3. CASE StartDma
  <2>1. host.at = "cbw" /\ host'.at = "select"
    BY <1>0, <1>3 DEF StartDma, Goes, DriverInv, DriverTypes
  <2>2. Calm(usb) /\ Away(usb) /\ Accepted(usb, stick)
    BY <1>0, <1>3, <2>1 DEF StartDma, Phase, Asking
  <2> DEFINE a == [usb.dma EXCEPT !.active = TRUE, !.toFifo = host.write, !.left = host.size]
             i == [usb.in EXCEPT !.trn = host.size, !.count = 0]
             x == [usb EXCEPT !.sts = {}, !.in = i, !.dma = a]
  <2>3. usb' = Kick(ServiceDma(x))
    BY <1>0, <1>3 DEF StartDma, ModuleRec
  <2>4. /\ a \in PortRec /\ a.active = TRUE /\ a.toFifo = host.write /\ a.left = host.size
        /\ ~a.dreqe /\ ~a.done
    BY <1>0, <2>2 DEF PortRec, Away
  <2>5. /\ i \in InRec /\ i.trn = host.size /\ i.count = 0 /\ i.inflight = usb.in.inflight
        /\ i.held = usb.in.held /\ i.rx = usb.in.rx /\ i.pid = usb.in.pid
        /\ i.stopped = usb.in.stopped
    BY <1>0 DEF InRec
  <2> HIDE DEF a, i
  <2>6. /\ x \in ModuleRec /\ x.in = i /\ x.dma = a /\ x.out = usb.out /\ x.sts = {}
        /\ x.memory = usb.memory /\ x.attached = usb.attached
    BY <1>0, <2>4, <2>5 DEF ModuleRec
  <2> HIDE DEF x
  <2>7. ServiceDma(x) = x
    BY <2>4, <2>6, PortRests
  <2>8. /\ usb' \in ModuleRec /\ usb'.in = i /\ usb'.dma = a /\ usb'.out = usb.out
        /\ usb'.sts = {} /\ usb'.memory = usb.memory /\ usb'.attached /\ usb'.timer
    BY <1>0, <2>3, <2>6, <2>7, Kicked
  <2>9. Calm(usb)' /\ Accepted(usb, stick)'
    BY <1>2, <2>2, <2>5, <2>8 DEF Calm, Accepted, Emptied
  <2>10. Ready(usb, stick)'
    BY <1>2, <2>4, <2>5, <2>8, <2>9 DEF Ready
  <2>11. Going(usb, stick)'
    BY <1>0, <2>1, <2>4, <2>8, <2>10 DEF Going, Phase, ModuleRec, InRec, OutRec, PortRec,
       StickRec
  <2> QED
    BY <1>2, <2>1, <2>8, <2>11 DEF UsbInv, Alert
<1>4. CASE Select
  <2>1. /\ host.at = "select" /\ host'.at = IF host.write THEN "data" ELSE "go"
    BY <1>0, <1>4 DEF Select, Goes, DriverInv, DriverTypes
  <2>2. Ready(usb, stick)
    BY <1>0, <2>1 DEF Phase
  <2> DEFINE to == IF host.write THEN "out" ELSE "in"
             a == [usb.dma EXCEPT !.dreqe = TRUE, !.sel = to]
             x == [usb EXCEPT !.dma = a]
  <2>3. usb' = Kick(x)
    BY <1>0, <1>4 DEF Select, ModuleRec
  <2>4. /\ a \in PortRec /\ a.active = usb.dma.active /\ a.toFifo = usb.dma.toFifo
        /\ a.left = usb.dma.left /\ a.dreqe = TRUE /\ a.sel = to /\ a.done = usb.dma.done
    <3>1. to \in {"out", "in"}
      OBVIOUS
    <3> HIDE DEF to
    <3> QED
      BY <1>0, <3>1 DEF PortRec
  <2> HIDE DEF a
  <2>5. /\ x \in ModuleRec /\ x.in = usb.in /\ x.dma = a /\ x.out = usb.out
        /\ x.sts = usb.sts /\ x.memory = usb.memory /\ x.attached = usb.attached
    BY <1>0, <2>4 DEF ModuleRec
  <2> HIDE DEF x
  <2>6. /\ usb' \in ModuleRec /\ usb'.in = usb.in /\ usb'.dma = a /\ usb'.out = usb.out
        /\ usb'.sts = usb.sts /\ usb'.memory = usb.memory /\ usb'.attached /\ usb'.timer
    BY <1>0, <2>3, <2>5, Kicked
  <2>7. Ready(usb, stick)'
    BY <1>2, <2>2, <2>4, <2>6 DEF Ready, Calm, Accepted, Emptied
  <2>8. Going(usb, stick)'
    BY <1>0, <1>2, <2>1, <2>4, <2>6, <2>7 DEF Going, Phase, ModuleRec, InRec, OutRec,
       PortRec, StickRec
  <2> QED
    BY <1>2, <2>1, <2>6, <2>8 DEF UsbInv, Alert
<1>5. CASE Go
  <2>1. host.at = "go" /\ host'.at = "data" /\ ~host.write
    BY <1>0, <1>5 DEF Go, Goes, DriverInv, DriverTypes, Phase
  <2>2. Ready(usb, stick) /\ usb.dma.dreqe /\ usb.dma.sel = "in"
    BY <1>0, <2>1 DEF Phase
  <2> DEFINE i == [usb.in EXCEPT !.pid = "buf", !.stopped = FALSE, !.retries = 0]
             x == [usb EXCEPT !.in = i]
  <2>3. usb' = Kick(x)
    BY <1>0, <1>5 DEF Go, Buf, ModuleRec
  <2>4. /\ i \in InRec /\ i.trn = usb.in.trn /\ i.count = usb.in.count
        /\ i.held = usb.in.held /\ i.rx = usb.in.rx /\ i.pid = "buf" /\ ~i.stopped
    BY <1>0 DEF InRec
  <2> HIDE DEF i
  <2>5. /\ x \in ModuleRec /\ x.in = i /\ x.dma = usb.dma /\ x.out = usb.out
        /\ x.sts = usb.sts /\ x.memory = usb.memory /\ x.attached = usb.attached
    BY <1>0, <2>4 DEF ModuleRec
  <2> HIDE DEF x
  <2>6. /\ usb' \in ModuleRec /\ usb'.in = i /\ usb'.dma = usb.dma /\ usb'.out = usb.out
        /\ usb'.sts = usb.sts /\ usb'.memory = usb.memory /\ usb'.attached /\ usb'.timer
    BY <1>0, <2>3, <2>5, Kicked
  <2>7. Reading(usb, stick)'
    <3>1. /\ stick.stage = "in" /\ stick.size = host.size /\ stick.next = 1
          /\ usb.memory = <<>> /\ Emptied(usb) /\ ~usb.out.valid
          /\ usb.dma.active /\ usb.dma.left = host.size /\ ~usb.dma.toFifo
          /\ ~usb.dma.done /\ usb.in.trn = host.size /\ usb.in.count = 0
          /\ ~usb.in.held /\ usb.in.rx = <<>>
      BY <2>1, <2>2 DEF Ready, Accepted, Calm
    <3>2. OnTheStick(usb, stick)' /\ Emptied(usb)'
      BY <1>2, <2>4, <2>6, <3>1 DEF OnTheStick, Emptied
    <3>3. /\ usb'.in.count = 0 /\ usb'.in.count <= host'.size /\ usb'.in.count # host'.size
          /\ usb'.memory = Through(0) /\ usb'.dma.left = host'.size - usb'.in.count
      BY <1>0, <1>2, <2>4, <2>6, <3>1, NoneLeft
    <3>4. Through(0) = (Through(usb.in.count))'
      BY <3>3 DEF Through
    <3> QED
      BY <1>2, <2>1, <2>2, <2>4, <2>6, <3>1, <3>2, <3>3, <3>4 DEF Reading
  <2>8. Going(usb, stick)'
    BY <1>0, <1>2, <2>1, <2>6, <2>7 DEF Going, Phase, ModuleRec, InRec, OutRec,
       PortRec, StickRec
  <2> QED
    BY <1>2, <2>1, <2>6, <2>8 DEF UsbInv, Alert
<1> QED
  BY <1>3, <1>4, <1>5

(* The end of the DMA, and of a WRITE. *)
LEMMA DataSteps ==
    ASSUME UsbInv, DmaOver \/ Bval \/ OutBuf \/ Sent, stick' = stick, naks' = naks,
           Alert(usb)
    PROVE  UsbInv' /\ Alert(usb') /\ host'.at # "gone"
<1>0. /\ usb \in ModuleRec /\ stick \in StickRec /\ DriverInv /\ host.at # "gone"
      /\ usb.attached /\ Phase(usb, stick) /\ usb.dma \in PortRec /\ usb.out \in OutRec
      /\ host.size > 0 /\ host.size \in Nat /\ host.write \in BOOLEAN
  BY DEF DmaOver, Bval, OutBuf, Sent, Goes, UsbInv, Going, ModuleRec, DriverInv, DriverTypes
<1>1. /\ host' = [host EXCEPT !.at = host'.at]
      /\ host'.at \in {"bval", "buf", "sent", "reload"}
  BY <1>0 DEF DmaOver, Bval, OutBuf, Sent, Goes, DriverInv, DriverTypes
<1>2. host'.write = host.write /\ host'.size = host.size /\ DriverInv'
  BY <1>0, <1>1 DEF DriverInv, DriverTypes, HostSteps
(* The change keeps the data and what goes with it. *)
<1>3. ASSUME usb' \in ModuleRec, usb'.in = usb.in, usb'.out.tx = usb.out.tx,
             usb'.out.inflight = usb.out.inflight, usb'.dma.active = usb.dma.active,
             usb'.sts = usb.sts, usb'.memory = usb.memory, usb'.attached = usb.attached,
             ~usb'.dma.done
      PROVE  /\ Calm(usb) => Calm(usb)'
             /\ Emptied(usb) => Emptied(usb)'
             /\ Writing(usb, stick) => Writing(usb, stick)'
             /\ Writing(usb, stick)' /\ host'.at \in {"bval", "buf", "sent"}
                   => Going(usb, stick)'
             /\ Whole(usb, stick) => Whole(usb, stick)'
             /\ Whole(usb, stick)' /\ Calm(usb)' /\ ~usb.dma.active /\ stick.stage = "csw"
                   /\ host'.at = "reload" => Going(usb, stick)'
  <2>1. (Calm(usb) => Calm(usb)') /\ (Emptied(usb) => Emptied(usb)')
    BY <1>3 DEF Calm, Emptied
  <2>2. Writing(usb, stick) => Writing(usb, stick)'
    BY <1>2, <1>3, <2>1 DEF Writing, Through, Rest
  <2>3. Whole(usb, stick) => Whole(usb, stick)'
    BY <1>2, <1>3, <2>1 DEF Whole, Data, Through
  <2>4. usb' \in ModuleRec /\ stick' \in StickRec /\ usb'.attached
        /\ (Phase(usb, stick)' => Going(usb, stick)')
    BY <1>0, <1>3 DEF Going, ModuleRec, InRec, OutRec, PortRec, StickRec
  <2>5. Writing(usb, stick)' /\ host'.at \in {"bval", "buf", "sent"} => Phase(usb, stick)'
    BY <1>3 DEF Phase
  <2>6. Whole(usb, stick)' /\ Calm(usb)' /\ ~usb.dma.active /\ stick.stage = "csw"
          /\ host'.at = "reload" => Phase(usb, stick)'
    BY <1>3 DEF Phase
  <2> QED
    BY <2>1, <2>2, <2>3, <2>4, <2>5, <2>6
<1>4. CASE DmaOver
  <2>1. /\ host.at = "data" /\ host'.at = (IF host.write THEN "bval" ELSE "reload")
        /\ usb.dma.done
    BY <1>0, <1>4 DEF DmaOver, Goes, DriverInv, DriverTypes
  <2> DEFINE a == [usb.dma EXCEPT !.done = FALSE]
             o == [usb.out EXCEPT !.pid = "nak"]
             x == [usb EXCEPT !.dma = a, !.out = o]
             y == [usb EXCEPT !.dma = a]
  <2>2. usb' = IF host.write THEN Kick(x) ELSE y
    BY <1>0, <1>4 DEF DmaOver, ModuleRec
  <2>3. /\ a \in PortRec /\ a.active = usb.dma.active /\ ~a.done
        /\ o \in OutRec /\ o.tx = usb.out.tx /\ o.inflight = usb.out.inflight
    BY <1>0 DEF PortRec, OutRec
  <2> HIDE DEF a, o
  <2>4. /\ x \in ModuleRec /\ x.in = usb.in /\ x.dma = a /\ x.out = o
        /\ x.sts = usb.sts /\ x.memory = usb.memory /\ x.attached = usb.attached
    BY <1>0, <2>3 DEF ModuleRec
  <2>5. /\ y \in ModuleRec /\ y.in = usb.in /\ y.dma = a /\ y.out = usb.out
        /\ y.sts = usb.sts /\ y.memory = usb.memory /\ y.attached = usb.attached
        /\ y.timer = usb.timer
    BY <1>0, <2>3 DEF ModuleRec
  <2> HIDE DEF x, y
  <2>6. CASE host.write
    <3>1. /\ usb' \in ModuleRec /\ usb'.in = usb.in /\ usb'.dma = a /\ usb'.out = o
          /\ usb'.sts = usb.sts /\ usb'.memory = usb.memory
          /\ usb'.attached = usb.attached /\ usb'.timer
      BY <2>2, <2>4, <2>6, Kicked
    <3>2. Writing(usb, stick)
      BY <1>0, <2>1, <2>6 DEF Phase, Ready
    <3>3. Going(usb, stick)'
      BY <1>3, <2>1, <2>3, <2>6, <3>1, <3>2
    <3> QED
      BY <1>1, <1>2, <3>1, <3>3 DEF UsbInv, Alert
  <2>7. CASE ~host.write
    <3>1. usb' = y
      BY <2>2, <2>7
    <3>2. Reading(usb, stick)
      BY <1>0, <2>1, <2>7 DEF Phase
    <3>3. usb.in.count = host.size
      BY <2>1, <3>2 DEF Reading
    <3>4. Calm(usb) /\ ~usb.dma.active /\ stick.stage = "csw" /\ Whole(usb, stick)
      BY <2>7, <3>2, <3>3 DEF Reading, Whole, Data
    <3>5. Going(usb, stick)'
      BY <1>3, <2>1, <2>3, <2>5, <2>7, <3>1, <3>4
    <3>6. Alert(usb')
      BY <2>5, <3>1 DEF Alert, CanIn, CanOut
    <3> QED
      BY <1>1, <1>2, <3>5, <3>6 DEF UsbInv
  <2> QED
    BY <2>6, <2>7
<1>5. CASE Bval \/ OutBuf
  <2>1. host.at \in {"bval", "buf"} /\ host'.at \in {"buf", "sent"}
    BY <1>0, <1>5 DEF Bval, OutBuf, Goes, DriverInv, DriverTypes
  <2>2. Writing(usb, stick) /\ ~usb.dma.done
    BY <1>0, <2>1 DEF Phase
  <2>3. PICK o \in OutRec : /\ usb' = Kick([usb EXCEPT !.out = o])
                            /\ o.tx = usb.out.tx /\ o.inflight = usb.out.inflight
    <3>1. CASE Bval
      <4>1. [usb.out EXCEPT !.valid = TRUE] \in OutRec
        BY <1>0 DEF OutRec
      <4>2. usb' = Kick([usb EXCEPT !.out = [usb.out EXCEPT !.valid = TRUE]])
        BY <1>0, <3>1 DEF Bval, ModuleRec
      <4> QED
        BY <1>0, <4>1, <4>2 DEF OutRec
    <3>2. CASE OutBuf
      <4>1. [usb.out EXCEPT !.pid = "buf", !.retries = 0] \in OutRec
        BY <1>0 DEF OutRec
      <4>2. usb' = Kick([usb EXCEPT !.out = [usb.out EXCEPT !.pid = "buf", !.retries = 0]])
        BY <1>0, <3>2 DEF OutBuf, ModuleRec
      <4> QED
        BY <1>0, <4>1, <4>2 DEF OutRec
    <3> QED
      BY <1>5, <3>1, <3>2
  <2> DEFINE x == [usb EXCEPT !.out = o]
  <2>4. /\ x \in ModuleRec /\ x.in = usb.in /\ x.dma = usb.dma /\ x.out = o
        /\ x.sts = usb.sts /\ x.memory = usb.memory /\ x.attached = usb.attached
    BY <1>0 DEF ModuleRec
  <2> HIDE DEF x
  <2>5. /\ usb' \in ModuleRec /\ usb'.in = usb.in /\ usb'.dma = usb.dma /\ usb'.out = o
        /\ usb'.sts = usb.sts /\ usb'.memory = usb.memory
        /\ usb'.attached = usb.attached /\ usb'.timer
    BY <2>3, <2>4, Kicked DEF x
  <2>6. Going(usb, stick)'
    BY <1>3, <2>1, <2>2, <2>3, <2>5
  <2> QED
    BY <1>1, <1>2, <2>5, <2>6 DEF UsbInv, Alert
<1>6. CASE Sent
  <2>1. host.at = "sent" /\ host'.at = "reload" /\ usb' = usb /\ "bemp" \in usb.sts
    BY <1>0, <1>6 DEF Sent, Goes, DriverInv, DriverTypes
  <2>2. Writing(usb, stick) /\ ~usb.dma.done
    BY <1>0, <2>1 DEF Phase
  <2>3. stick.next = host.size + 1 /\ host.write
    BY <2>1, <2>2 DEF Writing
  <2>4. Whole(usb, stick) /\ Calm(usb) /\ ~usb.dma.active /\ stick.stage = "csw"
    <3>1. usb.out.tx = <<>> /\ stick.got = Through(host.size)
      BY <1>0, <2>2, <2>3, NoneLeft DEF Writing
    <3> QED
      BY <2>2, <2>3, <3>1 DEF Writing, Whole, Emptied, Data
  <2>5. Going(usb, stick)'
    BY <1>0, <1>3, <2>1, <2>2, <2>4
  <2> QED
    BY <1>1, <1>2, <2>1, <2>5 DEF UsbInv
<1> QED
  BY <1>4, <1>5, <1>6

(* The status, and a stick put back. *)
LEMMA StatusSteps ==
    ASSUME UsbInv, Reload \/ ReadStatus, stick' = stick, naks' = naks
    PROVE  UsbInv' /\ Alert(usb') /\ host'.at # "gone"
<1>0. /\ usb \in ModuleRec /\ stick \in StickRec /\ DriverInv /\ host.at # "gone"
      /\ usb.attached /\ Phase(usb, stick) /\ usb.dma \in PortRec /\ usb.in \in InRec
      /\ host.size > 0 /\ host.size \in Nat /\ host.write \in BOOLEAN
      /\ <<>> \in Seq(Int)
  BY DEF Reload, ReadStatus, Goes, UsbInv, Going, ModuleRec, DriverInv, DriverTypes
<1>1. CASE Reload
  <2>1. host.at = "reload" /\ host'.at = "csw" /\ host' = [host EXCEPT !.at = "csw"]
    BY <1>0, <1>1 DEF Reload, Goes, DriverInv, DriverTypes
  <2>2. host'.write = host.write /\ host'.size = host.size /\ DriverInv'
    BY <1>0, <2>1 DEF DriverInv, DriverTypes, HostSteps
  <2>3. /\ Calm(usb) /\ Whole(usb, stick) /\ ~usb.dma.active /\ ~usb.dma.done
        /\ stick.stage = "csw"
    BY <1>0, <2>1 DEF Phase
  <2> DEFINE j == [usb.in EXCEPT !.trn = 1, !.count = 0]
             i == [j EXCEPT !.pid = "buf", !.stopped = FALSE, !.retries = 0]
             a == [usb.dma EXCEPT !.dreqe = FALSE, !.sel = "none"]
             x == [usb EXCEPT !.in = i, !.sts = {}, !.dma = a]
  <2>4. usb' = Kick(x)
    <3> DEFINE z == [usb EXCEPT !.in = j, !.sts = {}, !.dma = a]
    <3>1. z = [usb EXCEPT !.in.trn = 1, !.in.count = 0, !.sts = {},
                         !.dma.dreqe = FALSE, !.dma.sel = "none"]
      BY <1>0 DEF ModuleRec
    <3>2. usb' = Buf(z)
      BY <1>1, <3>1 DEF Reload
    <3>3. [z EXCEPT !.in.pid = "buf", !.in.stopped = FALSE, !.in.retries = 0] = x
      BY <1>0 DEF ModuleRec
    <3> HIDE DEF x, z
    <3> QED
      BY <3>2, <3>3 DEF Buf
  <2>5. /\ j \in InRec /\ j.trn = 1 /\ j.count = 0 /\ j.inflight = usb.in.inflight
        /\ j.held = usb.in.held /\ j.rx = usb.in.rx
    BY <1>0 DEF InRec
  <2>6. /\ a \in PortRec /\ ~a.dreqe /\ a.done = usb.dma.done
    BY <1>0 DEF PortRec
  <2> HIDE DEF j, a
  <2>7. /\ i \in InRec /\ i.trn = 1 /\ i.count = 0 /\ i.inflight = usb.in.inflight
        /\ i.held = usb.in.held /\ i.rx = usb.in.rx /\ i.pid = "buf" /\ ~i.stopped
    BY <2>5 DEF InRec
  <2> HIDE DEF i
  <2>8. /\ x \in ModuleRec /\ x.in = i /\ x.dma = a /\ x.out = usb.out
        /\ x.sts = {} /\ x.memory = usb.memory /\ x.attached = usb.attached
    BY <1>0, <2>6, <2>7 DEF ModuleRec
  <2> HIDE DEF x
  <2>9. /\ usb' \in ModuleRec /\ usb'.in = i /\ usb'.dma = a /\ usb'.out = usb.out
        /\ usb'.sts = {} /\ usb'.memory = usb.memory /\ usb'.attached /\ usb'.timer
    BY <1>0, <2>4, <2>8, Kicked
  <2>10. Whole(usb, stick)'
    BY <2>2, <2>3, <2>9 DEF Whole, Emptied, Data, Through
  <2>11. Status(usb, stick)'
    BY <2>3, <2>6, <2>7, <2>9, <2>10 DEF Status, Away, Calm, Csw
  <2>12. Going(usb, stick)'
    BY <1>0, <2>1, <2>9, <2>11 DEF Going, Phase, ModuleRec, InRec, OutRec, PortRec, StickRec
  <2> QED
    BY <2>1, <2>2, <2>9, <2>12 DEF UsbInv, Alert
<1>2. CASE ReadStatus
  <2>1. /\ host.at = "csw" /\ "brdy" \in usb.sts
        /\ host' = [host EXCEPT !.at = "idle", !.status = usb.in.rx = <<Csw>>]
        /\ usb' = Kick([usb EXCEPT !.in.rx = <<>>, !.sts = {}])
    BY <1>2 DEF ReadStatus
  <2>2. /\ host'.at = "idle" /\ host'.write = host.write /\ host'.size = host.size
        /\ DriverInv'
    <3> DEFINE st == usb.in.rx = <<Csw>>
    <3>1. st \in BOOLEAN /\ host' = [host EXCEPT !.at = "idle", !.status = st]
      BY <2>1
    <3> HIDE DEF st
    <3> QED
      BY <1>0, <3>1 DEF DriverInv, DriverTypes, HostSteps
  <2>3. /\ Whole(usb, stick) /\ Away(usb) /\ usb.in.rx = <<Csw>> /\ ~usb.in.inflight
        /\ ~usb.in.held /\ stick.stage = "cbw" /\ usb.in.stopped
    BY <1>0, <2>1 DEF Phase, Status
  <2> DEFINE i == [usb.in EXCEPT !.rx = <<>>]
             x == [usb EXCEPT !.in = i, !.sts = {}]
  <2>4. usb' = Kick(x)
    BY <1>0, <2>1 DEF ModuleRec
  <2>5. /\ i \in InRec /\ ~i.inflight /\ ~i.held /\ i.rx = <<>> /\ i.stopped
    BY <1>0, <2>3 DEF InRec
  <2> HIDE DEF i
  <2>6. /\ x \in ModuleRec /\ x.in = i /\ x.dma = usb.dma /\ x.out = usb.out
        /\ x.memory = usb.memory /\ x.attached = usb.attached
    BY <1>0, <2>5 DEF ModuleRec
  <2> HIDE DEF x
  <2>7. /\ usb' \in ModuleRec /\ usb'.in = i /\ usb'.dma = usb.dma /\ usb'.out = usb.out
        /\ usb'.memory = usb.memory /\ usb'.attached /\ usb'.timer
    BY <1>0, <2>4, <2>6, Kicked
  <2>8. Calm(usb)' /\ Emptied(usb)' /\ Away(usb)' /\ (Data(usb, stick) = Through(host.size))'
    BY <2>2, <2>3, <2>5, <2>7 DEF Calm, Emptied, Away, Whole, Data, Through
  <2>9. Phase(usb, stick)'
    BY <2>2, <2>3, <2>8 DEF Phase
  <2>10. Going(usb, stick)'
    BY <1>0, <2>7, <2>9 DEF Going, ModuleRec, InRec, OutRec, PortRec, StickRec
  <2> QED
    BY <2>2, <2>7, <2>10 DEF UsbInv, Alert
<1> QED
  BY <1>1, <1>2

(* The stick put back: everything starts afresh. *)
LEMMA AttachStep ==
    ASSUME UsbInv, Attach, naks' = naks
    PROVE  UsbInv' /\ Alert(usb') /\ host'.at # "gone"
<1>0. /\ usb \in ModuleRec /\ stick \in StickRec /\ DriverInv /\ host.at = "gone"
      /\ ~usb.in.inflight /\ ~usb.out.inflight /\ ~usb.in.held
      /\ usb.dma \in PortRec /\ usb.in \in InRec /\ usb.out \in OutRec /\ <<>> \in Seq(Int)
  BY DEF Attach, UsbInv, Gone, ModuleRec
<1>1. host' = [host EXCEPT !.at = "idle", !.status = FALSE]
  BY DEF Attach
<1>2. host'.at = "idle" /\ ~host'.status /\ DriverInv'
  BY <1>0, <1>1 DEF DriverInv, DriverTypes, HostSteps
<1> DEFINE i == [usb.in EXCEPT !.rx = <<>>, !.pid = "nak"]
           o == [usb.out EXCEPT !.tx = <<>>, !.valid = FALSE, !.pid = "nak"]
           a == [usb.dma EXCEPT !.dreqe = FALSE, !.sel = "none", !.done = FALSE]
           y == [usb EXCEPT !.attached = TRUE, !.sts = {}, !.dma = a]
           x == [y EXCEPT !.in = i, !.out = o]
<1>3. usb' = Kick(x)
  <2>1. x = [usb EXCEPT !.attached = TRUE, !.sts = {}, !.dma.dreqe = FALSE,
                      !.dma.sel = "none", !.dma.done = FALSE,
                      !.in = [@ EXCEPT !.rx = <<>>, !.pid = "nak"],
                      !.out = [@ EXCEPT !.tx = <<>>, !.valid = FALSE, !.pid = "nak"]]
    BY <1>0 DEF ModuleRec
  <2> HIDE DEF x
  <2> QED
    BY <2>1 DEF Attach
<1>4. /\ i \in InRec /\ ~i.inflight /\ ~i.held /\ i.rx = <<>> /\ i.pid = "nak"
      /\ o \in OutRec /\ o.tx = <<>> /\ ~o.inflight
      /\ a \in PortRec /\ ~a.dreqe /\ ~a.done
  BY <1>0 DEF InRec, OutRec, PortRec
<1> HIDE DEF i, o, a
<1>5. y \in ModuleRec /\ y.attached = TRUE /\ y.dma = a
  BY <1>0, <1>4 DEF ModuleRec
<1> HIDE DEF y
<1>6. x \in ModuleRec /\ x.attached = TRUE /\ x.dma = a /\ x.in = i /\ x.out = o
  BY <1>4, <1>5 DEF ModuleRec
<1> HIDE DEF x
<1>7. /\ usb' \in ModuleRec /\ usb'.attached /\ usb'.dma = a /\ usb'.in = i
      /\ usb'.out = o /\ usb'.timer
  BY <1>3, <1>6, Kicked
<1>8. stick' \in StickRec /\ stick'.stage = "cbw"
  BY <1>0 DEF Attach, StickRec
<1>9. Calm(usb)' /\ Emptied(usb)' /\ Away(usb)'
  BY <1>4, <1>7 DEF Calm, Emptied, Away
<1>10. Phase(usb, stick)'
  BY <1>2, <1>8, <1>9 DEF Phase
<1>11. Going(usb, stick)'
  BY <1>7, <1>8, <1>10 DEF Going, ModuleRec, InRec, OutRec, PortRec, StickRec
<1> QED
  BY <1>2, <1>7, <1>11 DEF UsbInv, Alert

(* The whole invariant: the data is where it should be, and what may be     *)
(* done has the timer going, so long as a stick is there.                   *)
UsbSafe == UsbInv /\ (host.at # "gone" => Alert(usb))

(* Every step preserves it. *)
LEMMA UsbStep ==
    ASSUME UsbSafe, [UsbNext]_usbVars
    PROVE  UsbSafe'
<1>0. UsbInv
  BY DEF UsbSafe
<1>1. CASE Fire
  BY <1>0, <1>1, FireStep DEF UsbSafe, Alert, CanOut, CanIn
<1>2. CASE AsyncComplete \/ Detach
  BY <1>0, <1>2, StickSteps DEF UsbSafe, Alert, CanOut, CanIn
<1>3. CASE Driver
  <2>1. UsbInv' /\ Alert(usb')
    <3>1. CASE Attach /\ UNCHANGED naks
      BY <1>0, <3>1, AttachStep
    <3>2. CASE /\ \/ SendCommand \/ StartDma \/ Select \/ Go \/ DmaOver \/ Bval
                  \/ OutBuf \/ Sent \/ Reload \/ ReadStatus
               /\ UNCHANGED <<stick, naks>>
      <4>1. SendCommand => UsbInv' /\ Alert(usb')
        BY <1>0, <3>2, SendCommandStep
      <4>2. StartDma \/ Select \/ Go => UsbInv' /\ Alert(usb')
        BY <1>0, <3>2, DmaSteps
      <4>3. DmaOver \/ Bval \/ OutBuf \/ Sent => UsbInv' /\ Alert(usb')
        <5>1. host.at # "gone" \/ ~(DmaOver \/ Bval \/ OutBuf \/ Sent)
          BY DEF DmaOver, Bval, OutBuf, Sent, Goes
        <5> QED
          BY <1>0, <3>2, <5>1, DataSteps DEF UsbSafe
      <4>4. Reload \/ ReadStatus => UsbInv' /\ Alert(usb')
        BY <1>0, <3>2, StatusSteps
      <4> QED
        BY <3>2, <4>1, <4>2, <4>3, <4>4
    <3> QED
      BY <1>3, <3>1, <3>2 DEF Driver
  <2> QED
    BY <2>1 DEF UsbSafe, Alert, CanOut, CanIn
<1>5. CASE AsyncFail
  <2>1. host.at # "gone"
    BY <1>0, <1>5 DEF AsyncFail, UsbInv, Gone
  <2> QED
    BY <1>0, <1>5, <2>1, FailStep DEF UsbSafe, Alert, CanOut, CanIn
<1>4. CASE UNCHANGED usbVars
  <2>1. usb' = usb /\ stick' = stick /\ host' = host /\ naks' = naks
    BY <1>4 DEF usbVars
  <2>2. DriverInv'
    BY <1>0, <2>1 DEF UsbInv, DriverInv, DriverTypes, HostSteps
  <2>3. host.at # "gone" => Going(usb, stick)'
    BY <1>0, <2>1, SameHost DEF UsbInv
  <2>4. host.at = "gone" => Gone'
    BY <1>0, <2>1 DEF UsbInv, Gone, ModuleRec, InRec, OutRec, PortRec, StickRec
  <2> QED
    BY <2>1, <2>2, <2>3, <2>4 DEF UsbSafe, UsbInv, Alert, CanOut, CanIn
<1> QED
  BY <1>1, <1>2, <1>3, <1>4, <1>5 DEF UsbNext

(* The module after reset, with a stick in it. *)
LEMMA UsbStart == UsbInit => UsbSafe
<1> SUFFICES ASSUME UsbInit PROVE UsbSafe
  OBVIOUS
<1>1. PICK rated \in BOOLEAN :
         usb = [rated |-> rated, in |-> QuietIn, out |-> QuietOut, dma |-> NoDma,
                sts |-> {}, timer |-> FALSE, attached |-> TRUE, memory |-> <<>>]
  BY UsbHostAssumption DEF UsbInit
<1>2. /\ stick = [stage |-> "cbw", write |-> FALSE, next |-> 1, size |-> 0, got |-> <<>>]
      /\ host = [at |-> "idle", write |-> FALSE, size |-> 0, commands |-> 0,
                 status |-> FALSE]
      /\ naks = 0
  BY DEF UsbInit
<1>3. <<>> \in Seq(Int)
  OBVIOUS
<1>4. stick \in StickRec /\ stick.stage = "cbw"
  BY <1>2, <1>3 DEF StickRec
<1>5. DriverInv /\ host.at = "idle" /\ ~host.status
  BY <1>2 DEF DriverInv, DriverTypes, HostSteps
<1>6. QuietIn \in InRec /\ QuietOut \in OutRec /\ NoDma \in PortRec
  BY <1>3 DEF QuietIn, QuietOut, NoDma, InRec, OutRec, PortRec, Rubbish
<1>7. /\ usb \in ModuleRec /\ usb.attached /\ usb.in = QuietIn /\ usb.out = QuietOut
      /\ usb.dma = NoDma
  BY <1>1, <1>3, <1>6 DEF ModuleRec
<1>8. Calm(usb) /\ Emptied(usb) /\ Away(usb) /\ Alert(usb)
  BY <1>7 DEF Calm, Emptied, Away, Alert, CanIn, CanOut, QuietIn, QuietOut, NoDma
<1>9. Going(usb, stick)
  BY <1>4, <1>5, <1>7, <1>8 DEF Going, Phase
<1> QED
  BY <1>5, <1>8, <1>9 DEF UsbSafe, UsbInv

(* For transfers of any size and any number of commands: the data is what   *)
(* the other side sent, once and in order; the status is not taken off the  *)
(* stick before the driver waits for it; and the stick never sees a packet  *)
(* it must refuse.  The pipe and DMA port handlers of cdj2000_usbh.c answer *)
(* for it.                                                                  *)
THEOREM UsbIsExact == UsbSpec => []UsbExact
<1>1. UsbSafe => UsbExact
  <2> SUFFICES ASSUME UsbSafe PROVE UsbExact
    OBVIOUS
  <2>1. stick.stage # "stalled"
    BY DEF UsbSafe, UsbInv, Gone, Going, StickRec
  <2>2. UsbDataExact
    BY DEF UsbSafe, UsbInv, Going, Phase, Data, Through, UsbDataExact
  <2>3. StatusAwaited
    <3> SUFFICES ASSUME host.at \notin {"csw", "gone"}
                 PROVE  Csw \notin {usb.in.rx[k] : k \in 1..Len(usb.in.rx)}
      BY DEF StatusAwaited
    <3>1. Going(usb, stick) /\ host.at \in HostSteps
      BY DEF UsbSafe, UsbInv, DriverInv, DriverTypes
    <3>2. usb.in.rx = <<>>
      BY <3>1 DEF Going, Phase, Calm, Asking, Ready, Reading, Writing, HostSteps
    <3> QED
      BY <3>2
  <2> QED
    BY <2>1, <2>2, <2>3 DEF UsbExact, NeverStalls
<1> QED
  BY <1>1, UsbStart, UsbStep, PTL DEF UsbSpec

(* While a stick is there, whatever the transfer machine of cdj2000_usbh.c  *)
(* may do, and the packet its receive pipe holds back, have the timer going *)
(* that looks at them again.                                                *)
THEOREM NothingIsForgotten == UsbSpec => []NothingForgotten
<1>1. UsbSafe => NothingForgotten
  BY DEF UsbSafe, UsbInv, Gone, Alert, NothingForgotten
<1> QED
  BY <1>1, UsbStart, UsbStep, PTL DEF UsbSpec

-----------------------------------------------------------------------------
(* The panel's input channel. *)

PressRec == [bit : PanelBits, hold : Int, id : Nat]
ActiveRec == [press : PressRec, phase : {"idle", "down", "up"}, frames : Nat,
              elapsed : Int]
SteadyRec == [held : SUBSET PanelBits, mask : SUBSET PanelBits, value : SUBSET PanelBits]
ContactRec == [lid : {"raw", "open", "closed"}, door : BOOLEAN]
AckRec == [id : Nat, stage : {"queued", "down", "done"}, first : Nat, last : Nat]
FrameRec == [bits : SUBSET PanelBits, forced : SUBSET PanelBits, held : SUBSET PanelBits,
             press : PressRec]
Slots == 0..PanelAcks - 1

InputTypes ==
    /\ presses \in Seq(PressRec) /\ active \in ActiveRec
    /\ steady \in SteadyRec /\ steady.value \subseteq steady.mask
    /\ contact \in ContactRec /\ acks \in [Slots -> AckRec] /\ nextPress \in Nat
    /\ wire \in Seq(FrameRec)

(* Presses begin in the order in which they were given; a slot belongs to a *)
(* press given since.                                                       *)
Ordered ==
    /\ \A i \in 1..Len(presses) : presses[i].id \in active.press.id + 1..nextPress - 1
    /\ \A i, j \in 1..Len(presses) : i < j => presses[i].id < presses[j].id
    /\ active.press.id < nextPress /\ (active.phase # "idle" => active.press.id > 0)
    /\ \A s \in Slots : /\ acks[s].id < nextPress
                        /\ acks[s].id # 0 => Slot(acks[s].id) = s

(* What a frame shows: its press, or what was set over it; and nothing that *)
(* nobody asked for.                                                        *)
Shows(e) ==
    /\ e.press.id = 0 => e.press = NoPress
    /\ e.press.id # 0 => e.press.bit \in e.bits \union e.forced
    /\ e.press.id = 0 => e.bits \subseteq e.held \union e.forced
Frames == \A f \in 1..Len(wire) : Shows(wire[f]) /\ wire[f].press.id <= active.press.id

(* The frames of a press; the last q frames carry none. *)
FramesOf(id) == {f \in 1..Len(wire) : wire[f].press.id = id}
Quiet(q) == q <= Len(wire) /\ \A k \in Len(wire) - q + 1..Len(wire) : wire[k].press.id = 0

(* The press under way has had every frame since the first.                 *)
DownSince(b) ==
    /\ b \in 1..Len(wire) /\ FramesOf(active.press.id) = b..Len(wire)
    /\ active.frames <= Len(wire) - b + 1
    /\ acks[Slot(active.press.id)].id = active.press.id =>
         acks[Slot(active.press.id)].first = b
Timing ==
    /\ active.phase = "down" => \E b \in 1..Len(wire) : DownSince(b)
    /\ active.phase = "up" => Quiet(active.frames)
    /\ active.phase = "idle" =>
         Quiet(MinFrames) \/ \A f \in 1..Len(wire) : wire[f].press.id = 0

(* An acknowledgement that is complete is about a press that is over.       *)
Done(s) ==
    /\ acks[s].id \in 1..active.press.id
    /\ acks[s].id = active.press.id => active.phase # "down"
    /\ FramesOf(acks[s].id) = acks[s].first..acks[s].last
    /\ acks[s].last - acks[s].first + 1 >= MinFrames
Told == \A s \in Slots : acks[s].stage = "done" => Done(s)

(* Between two presses there are MinFrames frames of none.                  *)
Between(f, g) ==
    \E k \in f + 1..g - MinFrames :
        \A j \in k..k + MinFrames - 1 : wire[j].press.id = 0
Apart == \A f, g \in 1..Len(wire) :
    f < g /\ wire[f].press.id # 0 /\ wire[g].press.id # 0
      /\ wire[f].press.id # wire[g].press.id => Between(f, g)

InputInv == InputTypes /\ Ordered /\ Frames /\ Timing /\ Told /\ Apart

(* Every press has a slot in the ring of acknowledgements. *)
LEMMA SlotIs ==
    ASSUME NEW id \in Nat
    PROVE  Slot(id) \in Slots
<1>1. PanelAcks \in Nat \ {0}
  BY PanelInputAssumption
<1> QED
  BY <1>1 DEF Slot, Slots

(* What leaves the frames and the press under way alone keeps what is said  *)
(* of them.                                                                 *)
LEMMA NoFrame ==
    ASSUME InputInv, wire' = wire, active' = active, nextPress' \in Nat,
           nextPress' >= nextPress, presses' \in Seq(PressRec), acks' \in [Slots -> AckRec],
           steady' \in SteadyRec, steady'.value \subseteq steady'.mask,
           contact' \in ContactRec,
           \A i \in 1..Len(presses') :
              presses'[i].id \in active.press.id + 1..nextPress' - 1,
           \A i, j \in 1..Len(presses') : i < j => presses'[i].id < presses'[j].id,
           \A s \in Slots :
              \/ acks'[s] = acks[s]
              \/ /\ acks'[s].stage = "queued" /\ acks'[s].id \in nextPress..nextPress' - 1
                 /\ Slot(acks'[s].id) = s
    PROVE  InputInv'
<1>0. active \in ActiveRec /\ nextPress \in Nat /\ active.press.id \in Nat
      /\ active.press.id < nextPress
  BY DEF InputInv, InputTypes, Ordered, ActiveRec, PressRec
<1>1. InputTypes'
  BY DEF InputInv, InputTypes, PressRec, ActiveRec, SteadyRec, ContactRec, AckRec, FrameRec, Slots
<1>2. Ordered'
  <2>1. \A s \in Slots : /\ acks'[s].id < nextPress'
                         /\ acks'[s].id # 0 => Slot(acks'[s].id) = s
    <3> SUFFICES ASSUME NEW s \in Slots
                 PROVE  /\ acks'[s].id < nextPress'
                        /\ acks'[s].id # 0 => Slot(acks'[s].id) = s
      OBVIOUS
    <3>1. acks[s].id \in Nat /\ acks[s].id < nextPress
          /\ (acks[s].id # 0 => Slot(acks[s].id) = s)
      BY DEF InputInv, InputTypes, Ordered, AckRec
    <3> QED
      BY <1>0, <3>1
  <2>2. active.press.id < nextPress' /\ (active.phase # "idle" => active.press.id > 0)
    BY <1>0 DEF InputInv, Ordered
  <2> QED
    BY <2>1, <2>2 DEF Ordered, Slots, Slot
<1>3. Frames'
  BY DEF InputInv, Frames, Shows, NoPress
<1>4. \A id : FramesOf(id)' = FramesOf(id)
  BY DEF FramesOf
<1>5. Timing'
  <2>1. \A q : Quiet(q)' = Quiet(q)
    BY DEF Quiet
  <2>2. ASSUME active.phase = "down", NEW b \in 1..Len(wire), DownSince(b)
        PROVE  DownSince(b)'
    <3> DEFINE a == active.press.id
    <3>1. a \in Nat /\ a # 0 /\ a < nextPress /\ Slot(a) \in Slots
      <4>1. a \in Nat /\ a # 0
        BY <1>0, <2>2 DEF InputInv, Ordered
      <4> QED
        BY <1>0, <4>1, SlotIs
    <3>2. acks'[Slot(a)].id = a => acks'[Slot(a)] = acks[Slot(a)]
      BY <1>0, <3>1
    <3>3. FramesOf(a)' = FramesOf(a)
      BY <1>4
    <3> QED
      BY <2>2, <3>2, <3>3 DEF DownSince, Slot, FramesOf
  <2> QED
    BY <2>1, <2>2 DEF InputInv, Timing
<1>6. Told'
  <2> SUFFICES ASSUME NEW s \in Slots, acks'[s].stage = "done" PROVE Done(s)'
    BY DEF Told, Slots
  <2>1. acks'[s] = acks[s]
    OBVIOUS
  <2>2. Done(s)
    BY <2>1 DEF InputInv, Told
  <2> QED
    BY <1>4, <2>1, <2>2 DEF Done, FramesOf
<1>7. Apart'
  BY DEF InputInv, Apart, Between
<1> QED
  BY <1>1, <1>2, <1>3, <1>5, <1>6, <1>7 DEF InputInv

(* The client's commands. *)
LEMMA CommandSteps ==
    ASSUME InputInv,
           \/ \E b \in PanelBits, h \in PanelHolds : Press(b, h)
           \/ \E b \in PanelBits, d \in BOOLEAN : Hold(b, d) \/ Level(b, d)
           \/ Clear
           \/ \E to \in {"open", "closed", "toggle"} : SetLid(to)
           \/ \E open \in BOOLEAN : SetDoor(open)
           \/ \E amount \in PanelTurns, walk \in BOOLEAN : Turn(amount, walk)
    PROVE  InputInv'
<1>0. /\ presses \in Seq(PressRec) /\ steady \in SteadyRec /\ steady.value \subseteq steady.mask
      /\ contact \in ContactRec /\ acks \in [Slots -> AckRec] /\ nextPress \in Nat
      /\ active.press.id \in Nat /\ active.press.id < nextPress
      /\ \A i \in 1..Len(presses) : presses[i].id \in active.press.id + 1..nextPress - 1
      /\ \A i, j \in 1..Len(presses) : i < j => presses[i].id < presses[j].id
  BY DEF InputInv, InputTypes, Ordered, ActiveRec, PressRec
<1>1. ASSUME NEW b \in PanelBits, NEW h \in PanelHolds, Press(b, h) PROVE InputInv'
  <2> DEFINE r == [bit |-> b, hold |-> h, id |-> nextPress]
             k == [NoAck EXCEPT !.id = nextPress]
             t == Slot(nextPress)
  <2>1. /\ presses' = Append(presses, r) /\ acks' = [acks EXCEPT ![t] = k]
        /\ nextPress' = nextPress + 1 /\ wire' = wire /\ active' = active
        /\ steady' = steady /\ contact' = contact
    BY <1>1 DEF Press, Command
  <2>2. r \in PressRec /\ r.id = nextPress
    BY <1>0, PanelInputAssumption DEF PressRec
  <2>3. k \in AckRec /\ k.stage = "queued" /\ k.id = nextPress
    BY <1>0 DEF AckRec, NoAck
  <2>9. t \in Slots
    BY <1>0, SlotIs
  <2> HIDE DEF r, k, t
  <2>4. /\ presses' \in Seq(PressRec) /\ Len(presses') = Len(presses) + 1
        /\ presses'[Len(presses) + 1] = r
        /\ \A i \in 1..Len(presses) : presses'[i] = presses[i]
    BY <1>0, <2>1, <2>2
  <2>5. \A i \in 1..Len(presses') :
              presses'[i].id \in active.press.id + 1..nextPress' - 1
    BY <1>0, <2>1, <2>2, <2>4
  <2>6. \A i, j \in 1..Len(presses') : i < j => presses'[i].id < presses'[j].id
    <3> SUFFICES ASSUME NEW i \in 1..Len(presses'), NEW j \in 1..Len(presses'), i < j
                 PROVE  presses'[i].id < presses'[j].id
      OBVIOUS
    <3>1. i \in 1..Len(presses) /\ presses'[i] = presses[i] /\ presses[i].id < nextPress
      BY <1>0, <2>4
    <3>2. CASE j = Len(presses) + 1
      BY <1>0, <2>2, <2>4, <3>1, <3>2
    <3>3. CASE j # Len(presses) + 1
      <4>1. j \in 1..Len(presses) /\ presses'[j] = presses[j]
        BY <1>0, <2>4, <3>3, SMTT(30)
      <4> QED
        BY <1>0, <3>1, <4>1
    <3> QED
      BY <3>2, <3>3
  <2>7. /\ acks' \in [Slots -> AckRec]
        /\ \A s \in Slots : acks'[s] = acks[s] \/ (s = t /\ acks'[s] = k)
    <3>1. acks' = [s \in Slots |-> IF s = t THEN k ELSE acks[s]]
      BY <1>0, <2>1
    <3>2. \A s \in Slots : acks[s] \in AckRec
      BY <1>0
    <3> QED
      BY <2>3, <2>9, <3>1, <3>2
  <2>8. \A s \in Slots :
              \/ acks'[s] = acks[s]
              \/ /\ acks'[s].stage = "queued" /\ acks'[s].id \in nextPress..nextPress' - 1
                 /\ Slot(acks'[s].id) = s
    BY <1>0, <2>1, <2>3, <2>7 DEF t
  <2> QED
    BY <1>0, <2>1, <2>4, <2>5, <2>6, <2>7, <2>8, NoFrame
<1>2. ASSUME wire' = wire, active' = active, nextPress' = nextPress, acks' = acks,
             presses' = presses \/ presses' = <<>>, steady' \in SteadyRec,
             steady'.value \subseteq steady'.mask, contact' \in ContactRec
      PROVE  InputInv'
  <2>1. presses' \in Seq(PressRec)
    <3>1. <<>> \in Seq(PressRec)
      OBVIOUS
    <3> QED
      BY <1>0, <1>2, <3>1
  <2>2. \A i \in 1..Len(presses') :
           presses'[i].id \in active.press.id + 1..nextPress' - 1
    BY <1>0, <1>2
  <2>3. \A i, j \in 1..Len(presses') : i < j => presses'[i].id < presses'[j].id
    BY <1>0, <1>2
  <2>4. nextPress' \in Nat /\ nextPress' >= nextPress /\ acks' \in [Slots -> AckRec]
    BY <1>0, <1>2
  <2> QED
    BY <1>2, <2>1, <2>2, <2>3, <2>4, NoFrame
<1>3. ASSUME NEW b \in PanelBits, NEW d \in BOOLEAN, Hold(b, d) \/ Level(b, d)
      PROVE  InputInv'
  <2>1. steady' \in SteadyRec /\ steady'.value \subseteq steady'.mask
    <3>1. CASE Hold(b, d)
      <4> DEFINE s == IF d THEN steady.held \union {b} ELSE steady.held \ {b}
      <4>1. s \in SUBSET PanelBits /\ steady' = [steady EXCEPT !.held = s]
        BY <1>0, <3>1 DEF Hold, SteadyRec
      <4> HIDE DEF s
      <4> QED
        BY <1>0, <4>1 DEF SteadyRec
    <3>2. CASE Level(b, d)
      <4> DEFINE m == steady.mask \union {b}
                 s == IF d THEN steady.value \union {b} ELSE steady.value \ {b}
      <4>1. /\ s \in SUBSET PanelBits /\ m \in SUBSET PanelBits /\ s \subseteq m
            /\ steady' = [steady EXCEPT !.mask = m, !.value = s]
        BY <1>0, <3>2 DEF Level, SteadyRec
      <4> HIDE DEF s, m
      <4> QED
        BY <1>0, <4>1 DEF SteadyRec
    <3> QED
      BY <1>3, <3>1, <3>2
  <2> QED
    BY <1>0, <1>2, <1>3, <2>1 DEF Hold, Level, Command
<1>4. CASE Clear
  BY <1>0, <1>2, <1>4 DEF Clear, Command, Free, SteadyRec
<1>5. ASSUME NEW to \in {"open", "closed", "toggle"}, SetLid(to) PROVE InputInv'
  <2>1. contact' \in ContactRec
    <3> DEFINE l == IF to # "toggle" THEN to
                    ELSE IF contact.lid = "open" THEN "closed" ELSE "open"
    <3>1. l \in {"raw", "open", "closed"} /\ contact' = [contact EXCEPT !.lid = l]
      BY <1>0, <1>5 DEF SetLid, ContactRec
    <3> HIDE DEF l
    <3> QED
      BY <1>0, <3>1 DEF ContactRec
  <2> QED
    BY <1>0, <1>2, <1>5, <2>1 DEF SetLid, Command
<1>6. ASSUME NEW open \in BOOLEAN, SetDoor(open) PROVE InputInv'
  BY <1>0, <1>2, <1>6 DEF SetDoor, Command, ContactRec
<1>7. ASSUME NEW amount, NEW walk, Turn(amount, walk) PROVE InputInv'
  BY <1>0, <1>2, <1>7 DEF Turn, Command
<1> QED
  BY <1>1, <1>3, <1>4, <1>5, <1>6, <1>7

(* Runs of frames that carry no press. *)
LEMMA QuietFewer ==
    ASSUME wire \in Seq(FrameRec), NEW q \in Nat, NEW r \in Nat, Quiet(q), r <= q
    PROVE  Quiet(r)
  BY DEF Quiet

(* What an exchange puts on the wire shows its press, and nothing that      *)
(* nobody asked for.                                                        *)
LEMMA PayloadShows ==
    ASSUME InputTypes, NEW p \in ActiveRec,
           p.phase = "down" => p.press.id > 0
    PROVE  LET e == [bits |-> Payload(p), forced |-> Forced, held |-> steady.held,
                     press |-> IF p.phase = "down" THEN p.press ELSE NoPress]
           IN  /\ e \in FrameRec /\ Shows(e)
               /\ e.press.id = IF p.phase = "down" THEN p.press.id ELSE 0
<1> DEFINE pr == IF p.phase = "down" THEN p.press ELSE NoPress
           pay == Payload(p)
           forced == Forced
           e == [bits |-> pay, forced |-> forced, held |-> steady.held, press |-> pr]
<1>1. /\ steady.held \in SUBSET PanelBits /\ steady.mask \in SUBSET PanelBits
      /\ steady.value \in SUBSET PanelBits /\ steady.value \subseteq steady.mask
      /\ LidBit \in PanelBits /\ p.press \in PressRec
  BY PanelInputAssumption DEF InputTypes, SteadyRec, ActiveRec
<1>2. NoPress \in PressRec /\ NoPress.id = 0
  BY <1>1 DEF NoPress, PressRec
<1>3. pr \in PressRec /\ pr.id = IF p.phase = "down" THEN p.press.id ELSE 0
  BY <1>1, <1>2
<1>4. forced \in SUBSET PanelBits /\ steady.mask \subseteq forced
      /\ (contact.door \/ contact.lid # "raw" => LidBit \in forced)
  BY <1>1, PanelInputAssumption DEF Forced
<1>9. rotary.driven => FieldBits \subseteq forced
  BY DEF Forced
<1>5. /\ pay \in SUBSET PanelBits
      /\ p.phase = "down" => p.press.bit \in pay \union forced
      /\ p.phase # "down" => pay \subseteq steady.held \union forced
  <2> DEFINE pressed == steady.held \union (IF p.phase = "down" THEN {p.press.bit} ELSE {})
             over == Overwritten(pressed)
             levelled == (over \ steady.mask) \union steady.value
             doored == IF contact.door THEN levelled \ {LidBit} ELSE levelled
  <2>1. /\ pressed \in SUBSET PanelBits
        /\ p.phase = "down" => p.press.bit \in pressed
        /\ p.phase # "down" => pressed \subseteq steady.held
    BY <1>1 DEF PressRec
  <2> HIDE DEF pressed, forced
  <2>5. /\ over \in SUBSET PanelBits
        /\ p.phase = "down" => p.press.bit \in over \union forced
        /\ p.phase # "down" => over \subseteq steady.held \union forced
    <3>1. FieldBits \subseteq PanelBits /\ FieldOnes(Walked.value) \subseteq FieldBits
      BY PanelInputAssumption DEF FieldOnes
    <3>2. over = IF rotary.driven
                 THEN (pressed \ FieldBits) \union FieldOnes(Walked.value) ELSE pressed
      BY DEF Overwritten
    <3> HIDE DEF over
    <3> QED
      BY <1>9, <2>1, <3>1, <3>2
  <2> HIDE DEF over
  <2>2. /\ levelled \in SUBSET PanelBits
        /\ p.phase = "down" => p.press.bit \in levelled \union forced
        /\ p.phase # "down" => levelled \subseteq steady.held \union forced
    BY <1>1, <1>4, <2>5
  <2>3. pay = Contacts(doored)
    BY DEF Payload, over, pressed
  <2> HIDE DEF levelled, pay
  <2>4. /\ doored \in SUBSET PanelBits
        /\ p.phase = "down" => p.press.bit \in doored \union forced
        /\ p.phase # "down" => doored \subseteq steady.held \union forced
    BY <1>4, <2>2
  <2> HIDE DEF doored
  <2> QED
    BY <1>1, <1>4, <2>3, <2>4 DEF Contacts
<1> HIDE DEF pr, pay, forced
<1>6. /\ e \in FrameRec /\ e.press = pr /\ e.bits = pay /\ e.forced = forced
      /\ e.held = steady.held
  BY <1>1, <1>3, <1>4, <1>5 DEF FrameRec
<1>7. Shows(e)
  <2>1. p.phase = "down" => pr = p.press /\ pr.id # 0
    BY <1>1, <1>3 DEF pr, PressRec
  <2>2. p.phase # "down" => pr = NoPress /\ pr.id = 0
    BY <1>2 DEF pr
  <2> QED
    BY <1>5, <1>6, <2>1, <2>2 DEF Shows
<1> HIDE DEF e
<1> QED
  BY <1>3, <1>6, <1>7 DEF e, pr, pay, forced

(* What an exchange does to the press under way. *)
LEMMA AfterFrameIs ==
    ASSUME NEW p \in ActiveRec
    PROVE  LET a == AfterFrame(p)
           IN  /\ a \in ActiveRec /\ a.press = p.press
               /\ p.phase = "idle" => a = p
               /\ p.phase = "down" =>
                    \/ a.phase = "up" /\ a.frames = 0 /\ p.frames + 1 >= MinFrames
                    \/ a.phase = "down" /\ a.frames <= p.frames + 1
               /\ p.phase = "up" =>
                    \/ a.phase = "idle" /\ p.frames + 1 >= MinFrames
                    \/ a.phase = "up" /\ a.frames <= p.frames + 1
<1> DEFINE on == [p EXCEPT !.frames = IF @ < MinFrames THEN @ + 1 ELSE @]
           up == [p EXCEPT !.phase = "up", !.frames = 0, !.elapsed = 0]
           idle == [p EXCEPT !.phase = "idle", !.frames = 0, !.elapsed = 0]
<1>1. p.frames \in Nat /\ MinFrames \in Nat /\ p.phase \in {"idle", "down", "up"}
  BY PanelInputAssumption DEF ActiveRec
<1>2. /\ on \in ActiveRec /\ on.press = p.press /\ on.phase = p.phase
      /\ on.frames <= p.frames + 1
  <2> DEFINE n == IF p.frames < MinFrames THEN p.frames + 1 ELSE p.frames
  <2>1. n \in Nat /\ n <= p.frames + 1 /\ on = [p EXCEPT !.frames = n]
    BY <1>1
  <2> HIDE DEF n, on
  <2> QED
    BY <2>1 DEF ActiveRec
<1> DEFINE reset == [p EXCEPT !.frames = 0, !.elapsed = 0]
<1>7. reset \in ActiveRec /\ reset.press = p.press /\ reset.frames = 0
  <2> DEFINE first == [p EXCEPT !.frames = 0]
  <2>1. first \in ActiveRec /\ first.press = p.press /\ first.frames = 0
    BY <1>1 DEF ActiveRec
  <2>2. reset = [first EXCEPT !.elapsed = 0]
    BY DEF ActiveRec
  <2> HIDE DEF first, reset
  <2> QED
    BY <2>1, <2>2 DEF ActiveRec
<1>8. up = [reset EXCEPT !.phase = "up"] /\ idle = [reset EXCEPT !.phase = "idle"]
  BY DEF ActiveRec
<1> HIDE DEF reset, up, idle
<1>3. up \in ActiveRec /\ up.press = p.press /\ up.phase = "up" /\ up.frames = 0
  BY <1>7, <1>8 DEF ActiveRec
<1>4. idle \in ActiveRec /\ idle.press = p.press /\ idle.phase = "idle"
  BY <1>7, <1>8 DEF ActiveRec
<1>5. AfterFrame(p) = IF p.phase = "down" /\ ~Lasts(p, p.press.hold) THEN up
                      ELSE IF p.phase = "up" /\ ~Lasts(p, PanelGap) THEN idle
                      ELSE IF p.phase = "idle" THEN p ELSE on
  BY DEF AfterFrame, up, idle
<1>6. \A time : ~Lasts(p, time) => p.frames + 1 >= MinFrames
  BY <1>1 DEF Lasts
<1> HIDE DEF on
<1> QED
  BY <1>1, <1>2, <1>3, <1>4, <1>5, <1>6

(* The press that an exchange shows: the one under way, or the oldest one   *)
(* that waits; and the frame it puts on the wire.                           *)
Shown(p, e) ==
    /\ p \in ActiveRec /\ (p.phase = "down" => p.press.id > 0)
    /\ active' = AfterFrame(p) /\ acks' = Acked(p)
    /\ presses' = (IF p.press.id # active.press.id THEN Tail(presses) ELSE presses)
    /\ e \in FrameRec /\ Shows(e) /\ wire' = Append(wire, e)
    /\ e.press.id = (IF p.phase = "down" THEN p.press.id ELSE 0)
    /\ UNCHANGED <<steady, contact, nextPress>>
Begins(p) == /\ active.phase = "idle" /\ presses # <<>>
             /\ p.press = Head(presses) /\ p.phase = "down" /\ p.frames = 0
Continues(p) == p.press = active.press /\ p.phase = active.phase /\ p.frames = active.frames

(* An exchange shows one press, newly begun or as before. *)
LEMMA ExchangeIs ==
    ASSUME InputInv, NEW dt \in {1, 2}, Exchange(dt)
    PROVE  \E p, e : Shown(p, e) /\ (Begins(p) \/ Continues(p))
<1> DEFINE waited == [active EXCEPT !.elapsed = @ + dt]
           begun == [press |-> Head(presses), phase |-> "down", frames |-> 0, elapsed |-> 0]
           p == IF Begun # active THEN Begun
                ELSE IF active.phase = "idle" THEN active ELSE waited
           e == [bits |-> Payload(p), forced |-> Forced, held |-> steady.held,
                 press |-> IF p.phase = "down" THEN p.press ELSE NoPress]
<1>0. /\ active \in ActiveRec /\ presses \in Seq(PressRec) /\ InputTypes
      /\ (active.phase # "idle" => active.press.id > 0)
      /\ \A i \in 1..Len(presses) : presses[i].id \in active.press.id + 1..nextPress - 1
  BY DEF InputInv, InputTypes, Ordered
<1>1. /\ active' = AfterFrame(p) /\ acks' = Acked(p)
      /\ presses' = (IF p.press.id # active.press.id THEN Tail(presses) ELSE presses)
      /\ wire' = Append(wire, e) /\ UNCHANGED <<steady, contact, nextPress>>
  BY DEF Exchange
<1>2. CASE active.phase = "idle" /\ presses # <<>>
  <2>1. Head(presses) \in PressRec /\ Head(presses) = presses[1] /\ 1 \in 1..Len(presses)
    BY <1>0, <1>2
  <2>2. begun \in ActiveRec /\ begun.phase = "down" /\ begun.press = Head(presses)
        /\ begun.frames = 0
    BY <2>1 DEF ActiveRec
  <2>3. Begun = begun
    BY <1>2 DEF Begun
  <2>4. p = begun
    BY <1>2, <2>2, <2>3
  <2>5. begun.press.id > 0
    <3>1. active.press.id \in Nat
      BY <1>0 DEF ActiveRec, PressRec
    <3> QED
      BY <1>0, <2>1, <2>2, <3>1
  <2> HIDE DEF p, begun
  <2>6. e \in FrameRec /\ Shows(e) /\ e.press.id = IF p.phase = "down" THEN p.press.id ELSE 0
    BY <1>0, <2>2, <2>4, <2>5, PayloadShows
  <2>7. Begins(p)
    BY <1>2, <2>2, <2>4 DEF Begins
  <2> HIDE DEF e
  <2>8. Shown(p, e)
    BY <1>1, <2>2, <2>4, <2>5, <2>6 DEF Shown
  <2> QED
    BY <2>7, <2>8
<1>3. CASE ~(active.phase = "idle" /\ presses # <<>>)
  <2>1. waited \in ActiveRec /\ waited.press = active.press /\ waited.phase = active.phase
        /\ waited.frames = active.frames
    <3>1. active.elapsed + dt \in Int
      BY <1>0 DEF ActiveRec
    <3> QED
      BY <1>0, <3>1 DEF ActiveRec
  <2>2. p = IF active.phase = "idle" THEN active ELSE waited
    BY <1>3 DEF Begun
  <2> HIDE DEF waited
  <2>3. p \in ActiveRec /\ p.press = active.press /\ p.phase = active.phase
        /\ p.frames = active.frames
    BY <1>0, <2>1, <2>2
  <2>4. p.phase = "down" => p.press.id > 0
    BY <1>0, <2>3
  <2> HIDE DEF p
  <2>5. e \in FrameRec /\ Shows(e) /\ e.press.id = IF p.phase = "down" THEN p.press.id ELSE 0
    BY <1>0, <2>3, <2>4, PayloadShows
  <2>6. Continues(p)
    BY <2>3 DEF Continues
  <2> HIDE DEF e
  <2>7. Shown(p, e)
    BY <1>1, <2>3, <2>4, <2>5 DEF Shown
  <2> QED
    BY <2>6, <2>7
<1> QED
  BY <1>2, <1>3

(* An exchange keeps the types and the order of the presses. *)
LEMMA ExchangeOrder ==
    ASSUME InputInv, NEW p, NEW e, Shown(p, e), Begins(p) \/ Continues(p)
    PROVE  /\ InputTypes' /\ Ordered' /\ active'.press.id \in Nat
           /\ active.press.id \in Nat /\ active.press.id <= active'.press.id
           /\ active'.press = p.press
           /\ Begins(p) => active.press.id < p.press.id
<1>0. /\ active \in ActiveRec /\ presses \in Seq(PressRec) /\ nextPress \in Nat
      /\ acks \in [Slots -> AckRec] /\ wire \in Seq(FrameRec)
      /\ active.press.id < nextPress /\ (active.phase # "idle" => active.press.id > 0)
      /\ \A i \in 1..Len(presses) : presses[i].id \in active.press.id + 1..nextPress - 1
      /\ \A i, j \in 1..Len(presses) : i < j => presses[i].id < presses[j].id
      /\ active.press.id \in Nat /\ p \in ActiveRec /\ p.press.id \in Nat
  BY DEF InputInv, InputTypes, Ordered, ActiveRec, PressRec, Shown
<1>1. /\ active' \in ActiveRec /\ active'.press = p.press
      /\ active'.phase # "idle" => p.phase # "idle"
  <2>1. /\ AfterFrame(p) \in ActiveRec /\ AfterFrame(p).press = p.press
        /\ p.phase = "idle" => AfterFrame(p) = p
    BY <1>0, AfterFrameIs
  <2> QED
    BY <2>1 DEF Shown
<1>2. /\ presses' \in Seq(PressRec) /\ active.press.id <= p.press.id
      /\ p.press.id < nextPress
      /\ Begins(p) => active.press.id < p.press.id
      /\ \A i \in 1..Len(presses') : presses'[i].id \in p.press.id + 1..nextPress - 1
      /\ \A i, j \in 1..Len(presses') : i < j => presses'[i].id < presses'[j].id
  <2>1. CASE Begins(p)
    <3>1. /\ p.press = presses[1] /\ 1 \in 1..Len(presses)
      BY <1>0, <2>1 DEF Begins
    <3>2. presses[1].id \in active.press.id + 1..nextPress - 1
      BY <1>0, <3>1
    <3>3. presses' = Tail(presses)
      BY <1>0, <3>1, <3>2 DEF Shown
    <3>4. /\ presses' \in Seq(PressRec) /\ Len(presses') = Len(presses) - 1
          /\ \A i \in 1..Len(presses') : presses'[i] = presses[i + 1]
                                          /\ i + 1 \in 1..Len(presses)
      BY <1>0, <2>1, <3>3 DEF Begins
    <3>5. ASSUME NEW i \in 1..Len(presses')
          PROVE  presses'[i].id \in p.press.id + 1..nextPress - 1
      <4>1. i + 1 \in 1..Len(presses) /\ 1 < i + 1 /\ presses'[i] = presses[i + 1]
        BY <1>0, <3>4
      <4>2. presses[1].id < presses[i + 1].id
        BY <1>0, <3>1, <4>1
      <4>3. presses[i + 1].id \in active.press.id + 1..nextPress - 1
        BY <1>0, <4>1
      <4> QED
        BY <1>0, <3>1, <3>2, <4>1, <4>2, <4>3
    <3>6. ASSUME NEW i \in 1..Len(presses'), NEW j \in 1..Len(presses'), i < j
          PROVE  presses'[i].id < presses'[j].id
      <4>1. i + 1 \in 1..Len(presses) /\ j + 1 \in 1..Len(presses) /\ i + 1 < j + 1
        BY <1>0, <3>4, <3>6
      <4> QED
        BY <1>0, <3>4, <4>1
    <3> QED
      BY <1>0, <3>1, <3>2, <3>4, <3>5, <3>6
  <2>2. CASE Continues(p)
    <3>1. presses' = presses /\ p.press = active.press
      BY <2>2 DEF Continues, Shown
    <3>2. ~Begins(p)
      BY <2>2 DEF Begins, Continues
    <3> QED
      BY <1>0, <3>1, <3>2
  <2> QED
    BY <2>1, <2>2
<1>3. /\ acks' \in [Slots -> AckRec]
      /\ \A s \in Slots : acks'[s].id = acks[s].id
  <2> DEFINE s == Slot(p.press.id)
             begin == p.phase = "down" /\ active.phase # "down"
             end == p.phase = "down" /\ AfterFrame(p).phase = "up"
             first == IF begin THEN Frame ELSE acks[s].first
             r == [id |-> p.press.id, first |-> first,
                   stage |-> IF end THEN "done" ELSE "down",
                   last |-> IF end THEN Frame ELSE 0]
  <2>1. Frame \in Nat /\ s \in Slots
    BY <1>0, SlotIs DEF Frame
  <2>2. r \in AckRec /\ r.id = p.press.id
    <3>1. first \in Nat
      BY <1>0, <2>1 DEF AckRec
    <3> HIDE DEF first
    <3> QED
      BY <1>0, <2>1, <3>1 DEF AckRec
  <2>3. acks' = IF p.phase = "down" /\ acks[s].id = p.press.id
                THEN [acks EXCEPT ![s] = r] ELSE acks
    BY DEF Shown, Acked
  <2> HIDE DEF s, r
  <2> QED
    BY <1>0, <2>1, <2>2, <2>3
<1>4. wire' \in Seq(FrameRec)
  BY <1>0 DEF Shown
<1>5. InputTypes'
  BY <1>1, <1>2, <1>3, <1>4 DEF InputInv, InputTypes, Shown, PressRec, ActiveRec, SteadyRec,
     ContactRec, AckRec, FrameRec, Slots
<1>6. Ordered'
  <2>1. nextPress' = nextPress
    BY DEF Shown
  <2>2. active'.phase # "idle" => p.press.id > 0
    BY <1>0, <1>1 DEF Shown, Begins, Continues
  <2>3. \A t \in Slots : /\ acks'[t].id < nextPress
                         /\ acks'[t].id # 0 => Slot(acks'[t].id) = t
    BY <1>3 DEF InputInv, Ordered
  <2> QED
    BY <1>1, <1>2, <2>1, <2>2, <2>3 DEF Ordered, Slots, Slot
<1> QED
  BY <1>0, <1>1, <1>2, <1>5, <1>6

(* The frame that is added, and the frames before it. *)
LEMMA FrameAdded ==
    ASSUME InputInv, NEW p, NEW e, Shown(p, e), Begins(p) \/ Continues(p)
    PROVE  /\ Len(wire') = Len(wire) + 1 /\ wire'[Len(wire) + 1] = e
           /\ \A f \in 1..Len(wire) : wire'[f] = wire[f]
           /\ e.press.id \in Nat
           /\ \A id : FramesOf(id)' = IF e.press.id = id
                                      THEN FramesOf(id) \union {Len(wire) + 1}
                                      ELSE FramesOf(id)
           /\ Frames'
<1>0. wire \in Seq(FrameRec) /\ e \in FrameRec /\ wire' = Append(wire, e)
  BY DEF InputInv, InputTypes, Shown
<1>1. /\ Len(wire') = Len(wire) + 1 /\ wire'[Len(wire) + 1] = e
      /\ \A f \in 1..Len(wire) : wire'[f] = wire[f]
      /\ Len(wire) \in Nat /\ e.press.id \in Nat
      /\ \A f \in 1..Len(wire') : f \in 1..Len(wire) \/ f = Len(wire) + 1
      /\ \A f \in 1..Len(wire) : f \in 1..Len(wire') /\ f # Len(wire) + 1
      /\ Len(wire) + 1 \in 1..Len(wire')
  BY <1>0 DEF FrameRec, PressRec
<1>2. ASSUME NEW id
      PROVE FramesOf(id)' = IF e.press.id = id THEN FramesOf(id) \union {Len(wire) + 1}
                            ELSE FramesOf(id)
  <2>1. FramesOf(id)' = {f \in 1..Len(wire') : wire'[f].press.id = id}
    BY DEF FramesOf
  <2> HIDE DEF FramesOf
  <2>2. \A f : f \in FramesOf(id) <=> f \in 1..Len(wire) /\ wire[f].press.id = id
    BY DEF FramesOf
  <2>3. \A f : f \in FramesOf(id)' <=>
                 f \in FramesOf(id) \/ (f = Len(wire) + 1 /\ e.press.id = id)
    BY <1>1, <2>1, <2>2
  <2> QED
    BY <2>3
<1>3. Frames'
  <2> SUFFICES ASSUME NEW f \in 1..Len(wire')
               PROVE  Shows(wire'[f]) /\ wire'[f].press.id <= active'.press.id
    BY DEF Frames, Shows, NoPress
  <2>0. /\ active'.press.id \in Nat /\ active.press.id \in Nat
        /\ active.press.id <= active'.press.id /\ active'.press = p.press
    BY ExchangeOrder
  <2>1. CASE f \in 1..Len(wire)
    <3>3. wire[f] \in FrameRec
      BY <1>0, <2>1
    <3>1. wire'[f] = wire[f] /\ wire[f].press.id \in Nat
      BY <1>1, <2>1, <3>3 DEF FrameRec, PressRec
    <3>2. Shows(wire[f]) /\ wire[f].press.id <= active.press.id
      BY <2>1 DEF InputInv, Frames
    <3> QED
      BY <2>0, <3>1, <3>2
  <2>2. CASE f = Len(wire) + 1
    <3>1. Shows(e) /\ e.press.id <= p.press.id
      BY <2>0 DEF Shown
    <3> QED
      BY <1>1, <2>0, <2>2, <3>1
  <2> QED
    BY <1>1, <2>1, <2>2
<1> QED
  BY <1>1, <1>2, <1>3

(* The frames of a press that an exchange shows down: all since its first,  *)
(* which its acknowledgement names.                                         *)
LEMMA DownFrames ==
    ASSUME InputInv, NEW p, NEW e, Shown(p, e), Begins(p) \/ Continues(p),
           p.phase = "down"
    PROVE  \E b \in 1..Len(wire) + 1 :
              /\ FramesOf(p.press.id)' = b..Len(wire) + 1
              /\ p.frames + 1 <= Len(wire) + 1 - b + 1
              /\ acks'[Slot(p.press.id)].id = p.press.id =>
                    acks'[Slot(p.press.id)] =
                       [id |-> p.press.id, first |-> b,
                        stage |-> IF active'.phase = "up" THEN "done" ELSE "down",
                        last |-> IF active'.phase = "up" THEN Len(wire) + 1 ELSE 0]
              /\ Begins(p) => b = Len(wire) + 1
              /\ Continues(p) => b \in 1..Len(wire) /\ FramesOf(p.press.id) = b..Len(wire)
              /\ \A s \in Slots \ {Slot(p.press.id)} : acks'[s] = acks[s]
              /\ acks'[Slot(p.press.id)].id # p.press.id =>
                    acks'[Slot(p.press.id)] = acks[Slot(p.press.id)]
<1> DEFINE n == Len(wire)
           a == p.press.id
           t == Slot(a)
<1>0. /\ wire \in Seq(FrameRec) /\ acks \in [Slots -> AckRec] /\ n \in Nat
      /\ a \in Nat /\ a > 0 /\ t \in Slots /\ e.press.id = a
      /\ p.frames \in Nat /\ active.press.id \in Nat
  <2>1. /\ wire \in Seq(FrameRec) /\ acks \in [Slots -> AckRec] /\ n \in Nat
        /\ a \in Nat /\ a > 0 /\ e.press.id = a
        /\ p.frames \in Nat /\ active.press.id \in Nat
    BY DEF InputInv, InputTypes, Shown, ActiveRec, PressRec
  <2>2. t \in Slots
    BY <2>1, SlotIs
  <2> QED
    BY <2>1, <2>2
<1>1. FramesOf(a)' = FramesOf(a) \union {n + 1}
  <2>1. \A id : FramesOf(id)' = IF e.press.id = id THEN FramesOf(id) \union {Len(wire) + 1}
                                ELSE FramesOf(id)
    BY FrameAdded
  <2> QED
    BY <1>0, <2>1
<1> DEFINE end == active'.phase = "up"
           rec(first) == [id |-> a, first |-> first,
                          stage |-> IF end THEN "done" ELSE "down",
                          last |-> IF end THEN n + 1 ELSE 0]
           begin == active.phase # "down"
<1>2. acks' = IF acks[t].id = a
              THEN [acks EXCEPT ![t] = rec(IF begin THEN n + 1 ELSE acks[t].first)]
              ELSE acks
  BY DEF Shown, Acked, Frame
<1>3. PICK b \in 1..n + 1 :
         /\ FramesOf(a)' = b..n + 1 /\ p.frames + 1 <= n + 1 - b + 1
         /\ acks[t].id = a => (IF begin THEN n + 1 ELSE acks[t].first) = b
         /\ Begins(p) => b = n + 1
         /\ Continues(p) => b \in 1..n /\ FramesOf(a) = b..n
  <2>1. CASE Begins(p)
    <3>1. active.press.id < a /\ p.frames = 0 /\ active.phase = "idle"
      BY <2>1, ExchangeOrder DEF Begins
    <3>2. FramesOf(a) = {}
      <4>1. \A f \in 1..n : wire[f].press.id <= active.press.id
        BY DEF InputInv, Frames
      <4>2. \A f \in 1..n : wire[f] \in FrameRec
        BY <1>0
      <4>3. \A f \in 1..n : wire[f].press.id \in Nat
        BY <4>2 DEF FrameRec, PressRec
      <4> QED
        BY <1>0, <3>1, <4>1, <4>3 DEF FramesOf
    <3>3. FramesOf(a)' = n + 1..n + 1
      BY <1>0, <1>1, <3>2
    <3>4. ~Continues(p)
      BY <2>1 DEF Begins, Continues
    <3>5. n + 1 \in 1..n + 1 /\ p.frames + 1 <= n + 1 - (n + 1) + 1 /\ begin
      BY <1>0, <3>1
    <3> HIDE DEF a, t, begin
    <3> QED
      BY <3>3, <3>4, <3>5
  <2>2. CASE Continues(p)
    <3>1. active.phase = "down" /\ active.press.id = a /\ active.frames = p.frames
      BY <2>2 DEF Continues
    <3>2. PICK b \in 1..n : DownSince(b)
      BY <3>1 DEF InputInv, Timing
    <3>3. /\ FramesOf(a) = b..n /\ p.frames <= n - b + 1
          /\ acks[t].id = a => acks[t].first = b
      BY <3>1, <3>2 DEF DownSince
    <3>4. FramesOf(a)' = b..n + 1
      BY <1>0, <1>1, <3>2, <3>3
    <3>5. ~Begins(p)
      BY <3>1 DEF Begins
    <3> HIDE DEF a, t
    <3> QED
      BY <1>0, <3>1, <3>2, <3>3, <3>4, <3>5
  <2> QED
    BY <2>1, <2>2
<1> HIDE DEF begin
<1>4. /\ acks[t].id = a => acks' = [acks EXCEPT ![t] = rec(b)]
      /\ acks[t].id # a => acks' = acks
  BY <1>2, <1>3
<1> HIDE DEF rec
<1>5. /\ acks'[t].id = a => acks'[t] = rec(b)
      /\ acks'[t].id # a => acks'[t] = acks[t]
      /\ \A s \in Slots \ {t} : acks'[s] = acks[s]
  <2>1. rec(b).id = a
    BY DEF rec
  <2> HIDE DEF a, t
  <2> QED
    BY <1>0, <1>4, <2>1
<1> QED
  BY <1>3, <1>5 DEF rec

(* How long the channel has been in its phase, after an exchange. *)
LEMMA ExchangeTiming ==
    ASSUME InputInv, NEW p, NEW e, Shown(p, e), Begins(p) \/ Continues(p)
    PROVE  Timing'
<1> DEFINE n == Len(wire)
<1>0. /\ n \in Nat /\ active \in ActiveRec /\ p \in ActiveRec /\ active' = AfterFrame(p)
      /\ active.frames \in Nat /\ p.frames \in Nat /\ MinFrames \in Nat
      /\ active' \in ActiveRec /\ active'.press = p.press
  <2>1. MinFrames \in Nat
    BY PanelInputAssumption
  <2> QED
    BY <2>1, ExchangeOrder, SMTT(40) DEF InputInv, InputTypes, Shown, ActiveRec
<1>1. /\ p.phase = "idle" => active' = p
      /\ p.phase = "down" =>
           \/ active'.phase = "up" /\ active'.frames = 0 /\ p.frames + 1 >= MinFrames
           \/ active'.phase = "down" /\ active'.frames <= p.frames + 1
      /\ p.phase = "up" =>
           \/ active'.phase = "idle" /\ p.frames + 1 >= MinFrames
           \/ active'.phase = "up" /\ active'.frames <= p.frames + 1
  BY <1>0, AfterFrameIs
<1>2. /\ Len(wire') = n + 1 /\ wire'[n + 1] = e
      /\ \A f \in 1..n : wire'[f] = wire[f]
      /\ e.press.id = IF p.phase = "down" THEN p.press.id ELSE 0
  BY FrameAdded DEF Shown
<1>3. ASSUME p.phase # "down", NEW q \in Nat, Quiet(q)
      PROVE  \A r \in Nat : r <= q + 1 => Quiet(r)'
  <2> SUFFICES ASSUME NEW r \in Nat, r <= q + 1 PROVE Quiet(r)'
    OBVIOUS
  <2>1. r <= Len(wire')
    BY <1>0, <1>2, <1>3 DEF Quiet
  <2>2. ASSUME NEW k \in Len(wire') - r + 1..Len(wire') PROVE wire'[k].press.id = 0
    <3>1. CASE k = n + 1
      BY <1>2, <1>3, <3>1
    <3>2. CASE k # n + 1
      <4>1. k \in n - q + 1..n /\ k \in 1..n
        BY <1>0, <1>2, <1>3, <3>2 DEF Quiet
      <4> QED
        BY <1>2, <1>3, <4>1 DEF Quiet
    <3> QED
      BY <3>1, <3>2
  <2> QED
    BY <2>1, <2>2 DEF Quiet
<1>4. active'.frames \in Nat /\ active'.phase \in {"idle", "down", "up"}
      /\ p.phase \in {"idle", "down", "up"}
  BY <1>0 DEF ActiveRec
<1>5. CASE p.phase = "down"
  <2>1. CASE active'.phase = "up" /\ active'.frames = 0
    <3>1. Quiet(0)'
      BY <1>0, <1>2 DEF Quiet
    <3> QED
      BY <2>1, <3>1 DEF Timing, Quiet
  <2>2. CASE active'.phase = "down" /\ active'.frames <= p.frames + 1
    <3> DEFINE a == p.press.id
               rec(b) == [id |-> a, first |-> b,
                        stage |-> IF active'.phase = "up" THEN "done" ELSE "down",
                        last |-> IF active'.phase = "up" THEN Len(wire) + 1 ELSE 0]
    <3>1. PICK b \in 1..n + 1 : /\ FramesOf(a)' = b..n + 1 /\ p.frames + 1 <= n + 1 - b + 1
                                /\ acks'[Slot(a)].id = a => acks'[Slot(a)] = rec(b)
      BY <1>5, DownFrames
    <3>2. rec(b).first = b
      OBVIOUS
    <3> HIDE DEF rec
    <3>3. /\ b \in 1..Len(wire') /\ FramesOf(a)' = b..Len(wire')
          /\ active'.frames <= Len(wire') - b + 1
          /\ acks'[Slot(a)].id = a => acks'[Slot(a)].first = b
      BY <1>0, <1>2, <1>4, <2>2, <3>1, <3>2
    <3>4. DownSince(b)'
      BY <1>0, <3>3 DEF DownSince, Slot, FramesOf
    <3> QED
      BY <2>2, <3>3, <3>4 DEF Timing
  <2> QED
    BY <1>1, <1>5, <2>1, <2>2
<1>6. CASE p.phase = "up"
  <2>1. active.phase = "up" /\ active.frames = p.frames
    BY <1>6 DEF Begins, Continues
  <2>2. Quiet(p.frames)
    BY <2>1 DEF InputInv, Timing
  <2>3. \A r \in Nat : r <= p.frames + 1 => Quiet(r)'
    BY <1>0, <1>3, <1>6, <2>2
  <2>4. active'.phase = "idle" => Quiet(MinFrames)'
    BY <1>0, <1>1, <1>6, <2>3
  <2>5. active'.phase = "up" => Quiet(active.frames)'
    <3>1. ASSUME NEW r \in Nat, r <= p.frames + 1
          PROVE  /\ r <= Len(wire')
                 /\ \A k \in Len(wire') - r + 1..Len(wire') : wire'[k].press.id = 0
      BY <2>3, <3>1 DEF Quiet
    <3>2. active'.phase = "up" => active'.frames <= p.frames + 1
      BY <1>1, <1>6
    <3> QED
      BY <1>4, <3>1, <3>2 DEF Quiet
  <2>6. active'.phase # "down"
    BY <1>1, <1>6
  <2> QED
    BY <2>4, <2>5, <2>6 DEF Timing, Quiet
<1>7. CASE p.phase = "idle"
  <2>1. active.phase = "idle" /\ active'.phase = "idle"
    BY <1>1, <1>7 DEF Begins, Continues
  <2>2. CASE Quiet(MinFrames)
    <3>1. Quiet(MinFrames)'
      BY <1>0, <1>3, <1>7, <2>2
    <3> QED
      BY <2>1, <3>1 DEF Timing, Quiet
  <2>3. CASE \A f \in 1..n : wire[f].press.id = 0
    <3>1. \A f \in 1..Len(wire') : wire'[f].press.id = 0
      BY <1>0, <1>2, <1>7, <2>3
    <3> QED
      BY <2>1, <3>1 DEF Timing
  <2> QED
    BY <2>1, <2>2, <2>3 DEF InputInv, Timing
<1> QED
  BY <1>4, <1>5, <1>6, <1>7

(* What the acknowledgements say, after an exchange. *)
LEMMA ExchangeTold ==
    ASSUME InputInv, NEW p, NEW e, Shown(p, e), Begins(p) \/ Continues(p)
    PROVE  Told'
<1> DEFINE n == Len(wire)
           a == p.press.id
           t == Slot(a)
<1>0. /\ n \in Nat /\ p \in ActiveRec /\ MinFrames \in Nat /\ a \in Nat
      /\ active'.press = p.press /\ active.press.id \in Nat /\ active.press.id <= a
      /\ (Begins(p) => active.press.id < a) /\ acks \in [Slots -> AckRec]
      /\ e.press.id = IF p.phase = "down" THEN a ELSE 0
  <2>1. /\ n \in Nat /\ p \in ActiveRec /\ MinFrames \in Nat /\ acks \in [Slots -> AckRec]
        /\ e.press.id = IF p.phase = "down" THEN a ELSE 0
    BY PanelInputAssumption DEF InputInv, InputTypes, Shown
  <2>2. a \in Nat
    BY <2>1 DEF ActiveRec, PressRec
  <2> QED
    BY <2>1, <2>2, ExchangeOrder
<1>1. /\ p.phase = "idle" => active' = p
      /\ p.phase = "down" /\ active'.phase = "up" => p.frames + 1 >= MinFrames
      /\ p.phase = "up" => active'.phase # "down"
      /\ p.phase \in {"idle", "down", "up"}
      /\ p.frames \in Nat
  <2>1. active' = AfterFrame(p)
    BY DEF Shown
  <2>2. p.phase \in {"idle", "down", "up"} /\ p.frames \in Nat
    BY <1>0 DEF ActiveRec
  <2> QED
    BY <1>0, <2>1, <2>2, AfterFrameIs
<1>2. \A id : FramesOf(id)' = IF e.press.id = id THEN FramesOf(id) \union {n + 1}
                              ELSE FramesOf(id)
  BY FrameAdded
<1> SUFFICES ASSUME NEW s \in Slots, acks'[s].stage = "done" PROVE Done(s)'
  BY DEF Told, Slots
<1>3. ASSUME acks'[s] = acks[s], p.phase = "down" => acks[s].id # a PROVE Done(s)'
  <2>1. Done(s)
    BY <1>3 DEF InputInv, Told
  <2>2. acks[s].id \in 1..active.press.id /\ acks[s].id # e.press.id
    BY <1>0, <1>3, <2>1 DEF Done
  <2>3. {f \in 1..Len(wire') : wire'[f].press.id = acks[s].id} = FramesOf(acks[s].id)
    <3>1. ASSUME NEW i, i # e.press.id
          PROVE  {f \in 1..Len(wire') : wire'[f].press.id = i} = FramesOf(i)
      BY <1>2, <3>1 DEF FramesOf
    <3> QED
      BY <2>2, <3>1
  <2>4. acks[s].id = a => active'.phase # "down"
    BY <1>1, <1>3
  <2>5. acks[s].id \in 1..a
    BY <1>0, <2>2
  <2> QED
    BY <1>0, <1>3, <2>1, <2>3, <2>4, <2>5 DEF Done, FramesOf
<1>4. CASE p.phase # "down"
  <2>1. acks' = acks
    BY <1>4 DEF Shown, Acked
  <2> QED
    BY <1>3, <1>4, <2>1
<1>5. CASE p.phase = "down"
  <2> DEFINE rec(b) == [id |-> a, first |-> b,
                        stage |-> IF active'.phase = "up" THEN "done" ELSE "down",
                        last |-> IF active'.phase = "up" THEN n + 1 ELSE 0]
  <2>1. PICK b \in 1..n + 1 :
           /\ FramesOf(a)' = b..n + 1 /\ p.frames + 1 <= n + 1 - b + 1
           /\ acks'[t].id = a => acks'[t] = rec(b)
           /\ \A u \in Slots \ {t} : acks'[u] = acks[u]
           /\ acks'[t].id # a => acks'[t] = acks[t]
    BY <1>5, DownFrames
  <2>2. CASE acks'[s].id = a /\ s = t
    <3>1. acks'[s] = rec(b)
      BY <2>1, <2>2
    <3>2. active'.phase = "up" /\ acks'[s].id = a /\ acks'[s].first = b
          /\ acks'[s].last = n + 1
      BY <3>1
    <3>3. n + 1 - b + 1 >= MinFrames
      BY <1>0, <1>1, <1>5, <2>1, <3>2
    <3>4. a \in 1..a
      BY <1>0, <1>5 DEF Shown
    <3> HIDE DEF a
    <3>5. {f \in 1..Len(wire') : wire'[f].press.id = a} = acks'[s].first..acks'[s].last
      BY <2>1, <3>2 DEF FramesOf
    <3>6. acks'[s].id \in 1..active'.press.id
      BY <1>0, <3>2, <3>4 DEF a
    <3> QED
      BY <3>2, <3>3, <3>5, <3>6 DEF Done, FramesOf
  <2>3. CASE ~(acks'[s].id = a /\ s = t)
    <3>1. acks'[s] = acks[s]
      BY <2>1, <2>3
    <3>2. acks[s].id # a
      <4>1. acks[s].id # 0 => Slot(acks[s].id) = s
        BY DEF InputInv, Ordered
      <4>2. a # 0
        BY <1>0, <1>5 DEF Shown
      <4> QED
        BY <2>3, <3>1, <4>1, <4>2
    <3> QED
      BY <1>3, <3>1, <3>2
  <2> QED
    BY <2>2, <2>3
<1> QED
  BY <1>4, <1>5

(* Presses stay apart on the wire. *)
LEMMA ExchangeApart ==
    ASSUME InputInv, NEW p, NEW e, Shown(p, e), Begins(p) \/ Continues(p)
    PROVE  Apart'
<1> DEFINE n == Len(wire)
           a == p.press.id
<1>0. /\ n \in Nat /\ MinFrames \in Nat /\ MinFrames > 0
      /\ Len(wire') = n + 1 /\ wire'[n + 1] = e
      /\ \A f \in 1..n : wire'[f] = wire[f]
      /\ e.press.id = IF p.phase = "down" THEN a ELSE 0
  BY FrameAdded, PanelInputAssumption DEF InputInv, InputTypes, Shown
<1>1. ASSUME NEW f \in 1..n, NEW g \in 1..n + 1, Between(f, g) PROVE Between(f, g)'
  <2>1. PICK k \in f + 1..g - MinFrames : \A j \in k..k + MinFrames - 1 : wire[j].press.id = 0
    BY <1>1 DEF Between
  <2>2. ASSUME NEW j \in k..k + MinFrames - 1 PROVE wire'[j].press.id = 0
    <3>1. j \in 1..n
      BY <1>0
    <3> QED
      BY <1>0, <2>1, <3>1
  <2> QED
    BY <2>1, <2>2 DEF Between
<1> SUFFICES ASSUME NEW f \in 1..n + 1, NEW g \in 1..n + 1, f < g,
                    wire'[f].press.id # 0, wire'[g].press.id # 0,
                    wire'[f].press.id # wire'[g].press.id
             PROVE  Between(f, g)'
  BY <1>0 DEF Apart, Between
<1>2. f \in 1..n /\ wire'[f] = wire[f]
  BY <1>0
<1>3. CASE g \in 1..n
  <2>1. Between(f, g)
    BY <1>0, <1>2, <1>3 DEF InputInv, Apart
  <2> QED
    BY <1>1, <1>2, <2>1
<1>4. CASE g = n + 1
  <2>1. p.phase = "down" /\ e.press.id = a
    BY <1>0, <1>4
  <2>2. CASE Begins(p)
    <3>1. Quiet(MinFrames)
      <4>1. active.phase = "idle"
        BY <2>2 DEF Begins
      <4> QED
        BY <1>2, <4>1 DEF InputInv, Timing
    <3> DEFINE k == n - MinFrames + 1
    <3>2. k \in Int /\ k >= 1 /\ (\A j \in k..n : wire[j].press.id = 0)
      BY <1>0, <3>1 DEF Quiet
    <3>3. k \in f + 1..g - MinFrames
      BY <1>0, <1>2, <1>4, <3>2
    <3>4. \A j \in k..k + MinFrames - 1 : wire[j].press.id = 0
      BY <1>0, <3>2
    <3>5. Between(f, g)
      BY <3>3, <3>4 DEF Between
    <3> QED
      BY <1>1, <1>2, <3>5
  <2>3. CASE Continues(p)
    <3>1. PICK b \in 1..n : FramesOf(a) = b..n
      BY <2>1, <2>3, DownFrames
    <3>2. \A h \in 1..n : wire[h].press.id = a <=> h \in b..n
      BY <3>1 DEF FramesOf
    <3>3. f < b /\ wire[b].press.id = a /\ a # 0
      BY <1>0, <1>2, <1>4, <2>1, <3>1, <3>2
    <3>4. Between(f, b)
      BY <1>0, <1>2, <1>4, <2>1, <3>3 DEF InputInv, Apart
    <3>6. PICK k \in f + 1..b - MinFrames :
             \A j \in k..k + MinFrames - 1 : wire[j].press.id = 0
      BY <3>4 DEF Between
    <3>7. k \in f + 1..g - MinFrames
      BY <1>0, <1>2, <1>4, <3>1, <3>6
    <3>5. Between(f, g)
      BY <3>6, <3>7 DEF Between
    <3> QED
      BY <1>1, <1>2, <3>5
  <2> QED
    BY <2>2, <2>3
<1> QED
  BY <1>3, <1>4

(* The channel at rest. *)
LEMMA PanelStart == PanelInit => InputInv
<1> SUFFICES ASSUME PanelInit PROVE InputInv
  OBVIOUS
<1>0. /\ PanelAcks \in Nat \ {0} /\ MinFrames \in Nat \ {0} /\ LidBit \in PanelBits
  BY PanelInputAssumption
<1>1. NoPress \in PressRec /\ NoPress.id = 0
  BY <1>0 DEF NoPress, PressRec
<1>2. NoAck \in AckRec /\ NoAck.id = 0 /\ NoAck.stage = "queued"
  BY DEF NoAck, AckRec
<1>3. /\ active = [press |-> NoPress, phase |-> "idle", frames |-> 0, elapsed |-> 0]
      /\ presses = <<>> /\ wire = <<>> /\ acks = [s \in Slots |-> NoAck] /\ nextPress = 1
      /\ steady = Free /\ contact \in [lid : {"raw", "open", "closed"}, door : {FALSE}]
  BY DEF PanelInit, Slots
<1>4. active \in ActiveRec /\ active.press.id = 0 /\ active.phase = "idle"
  BY <1>1, <1>3 DEF ActiveRec
<1>5. presses \in Seq(PressRec) /\ wire \in Seq(FrameRec) /\ Len(wire) = 0 /\ Len(presses) = 0
  <2>1. <<>> \in Seq(PressRec) /\ <<>> \in Seq(FrameRec)
    OBVIOUS
  <2> QED
    BY <1>3, <2>1
<1>6. InputTypes
  BY <1>2, <1>3, <1>4, <1>5 DEF InputTypes, Free, SteadyRec, ContactRec
<1>7. Ordered
  BY <1>2, <1>3, <1>4, <1>5 DEF Ordered
<1>8. Frames /\ Apart /\ Timing
  BY <1>4, <1>5 DEF Frames, Apart, Timing
<1>9. Told
  BY <1>2, <1>3 DEF Told
<1> QED
  BY <1>6, <1>7, <1>8, <1>9 DEF InputInv

(* Every step of the channel preserves the invariant. *)
LEMMA PanelStep ==
    ASSUME InputInv, [PanelNext]_panelVars
    PROVE  InputInv'
<1>1. ASSUME NEW dt \in {1, 2}, Exchange(dt) PROVE InputInv'
  <2>1. PICK p, e : Shown(p, e) /\ (Begins(p) \/ Continues(p))
    BY <1>1, ExchangeIs
  <2> QED
    BY <2>1, ExchangeOrder, FrameAdded, ExchangeTiming, ExchangeTold, ExchangeApart
    DEF InputInv
<1>2. CASE UNCHANGED panelVars
  BY <1>2 DEF panelVars, InputInv, InputTypes, Ordered, Frames, Shows, Timing, DownSince, Quiet,
     FramesOf, Told, Done, Apart, Between
<1> QED
  BY <1>1, <1>2, CommandSteps DEF PanelNext

(* What the invariant says of the acknowledgements and of the wire. *)
LEMMA PressesFromInvariant == InputInv => PressesExact
<1> SUFFICES ASSUME InputInv PROVE PressesExact
  OBVIOUS
<1>0. /\ wire \in Seq(FrameRec) /\ acks \in [Slots -> AckRec] /\ MinFrames \in Nat
      /\ DOMAIN wire = 1..Len(wire) /\ DOMAIN acks = Slots /\ Len(wire) \in Nat
  BY PanelInputAssumption DEF InputInv, InputTypes
<1>1. AcksMatchTheWire
  <2> SUFFICES ASSUME NEW s \in Slots, acks[s].stage = "done"
               PROVE  LET mine == {f \in DOMAIN wire : wire[f].press.id = acks[s].id}
                      IN  /\ mine = acks[s].first..acks[s].last
                          /\ Cardinality(mine) >= MinFrames
                          /\ \A f \in mine :
                                wire[f].press.bit \in wire[f].bits \union wire[f].forced
    BY <1>0 DEF AcksMatchTheWire
  <2> DEFINE mine == {f \in DOMAIN wire : wire[f].press.id = acks[s].id}
  <2>1. Done(s)
    BY DEF InputInv, Told
  <2>2. mine = FramesOf(acks[s].id) /\ mine = acks[s].first..acks[s].last
    BY <1>0, <2>1 DEF Done, FramesOf
  <2>3. /\ acks[s].first \in Nat /\ acks[s].last \in Nat
        /\ acks[s].last - acks[s].first + 1 >= MinFrames
    <3>1. acks[s] \in AckRec
      BY <1>0
    <3> QED
      BY <2>1, <3>1 DEF Done, AckRec
  <2>4. Cardinality(mine) >= MinFrames
    <3>1. CASE acks[s].first <= acks[s].last
      <4> HIDE DEF mine
      <4>1. Cardinality(acks[s].first..acks[s].last) = acks[s].last - acks[s].first + 1
        <5>1. acks[s].first \in Int /\ acks[s].last \in Int
              /\ ~(acks[s].first > acks[s].last)
          BY <2>3, <3>1
        <5> QED
          BY <5>1, FS_Interval
      <4> QED
        BY <2>2, <2>3, <4>1
    <3>2. CASE acks[s].last < acks[s].first
      <4>1. mine = {} /\ MinFrames <= 0
        BY <1>0, <2>2, <2>3, <3>2
      <4> QED
        BY <1>0, <4>1, FS_EmptySet
    <3> QED
      BY <2>3, <3>1, <3>2
  <2>5. ASSUME NEW f \in mine PROVE wire[f].press.bit \in wire[f].bits \union wire[f].forced
    <3>1. wire[f].press.id # 0
      BY <2>1 DEF Done
    <3> QED
      BY <1>0, <3>1 DEF InputInv, Frames, Shows
  <2> HIDE DEF mine
  <2>6. mine = acks[s].first..acks[s].last /\ Cardinality(mine) >= MinFrames
    BY <2>2, <2>4
  <2> QED
    BY <2>5, <2>6 DEF mine
<1>2. PressesApart
  <2> SUFFICES ASSUME NEW f \in 1..Len(wire), NEW g \in 1..Len(wire), f < g,
                      0 # wire[f].press.id, wire[f].press.id # wire[g].press.id,
                      wire[g].press.id # 0
               PROVE  Cardinality({k \in f + 1..g - 1 : wire[k].press = NoPress
                         /\ (wire[f].press.bit \in wire[k].bits =>
                               wire[f].press.bit \in wire[k].held \union wire[k].forced)})
                        >= MinFrames
    BY <1>0 DEF PressesApart
  <2> DEFINE b == wire[f].press.bit
             clear == {k \in f + 1..g - 1 : wire[k].press = NoPress
                         /\ (b \in wire[k].bits => b \in wire[k].held \union wire[k].forced)}
  <2>1. PICK m \in f + 1..g - MinFrames :
           \A j \in m..m + MinFrames - 1 : wire[j].press.id = 0
    BY DEF InputInv, Apart, Between
  <2>2. \A j \in m..m + MinFrames - 1 : j \in 1..Len(wire) /\ j \in f + 1..g - 1
    BY <1>0, <2>1
  <2>3. \A j \in m..m + MinFrames - 1 :
           /\ wire[j].press = NoPress
           /\ b \in wire[j].bits => b \in wire[j].held \union wire[j].forced
    BY <2>1, <2>2 DEF InputInv, Frames, Shows
  <2>4. m..m + MinFrames - 1 \subseteq clear
    BY <2>2, <2>3
  <2>5. IsFiniteSet(clear)
    <3>1. f + 1 \in Int /\ g - 1 \in Int
      OBVIOUS
    <3>2. IsFiniteSet(f + 1..g - 1)
      BY <3>1, FS_Interval
    <3>3. clear \in SUBSET (f + 1..g - 1)
      OBVIOUS
    <3> HIDE DEF clear
    <3> QED
      BY <3>2, <3>3, FS_Subset
  <2>6. Cardinality(m..m + MinFrames - 1) = MinFrames
    <3>1. MinFrames # 0
      BY PanelInputAssumption
    <3> QED
      BY <1>0, <2>1, <3>1, FS_Interval
  <2> HIDE DEF clear
  <2>7. Cardinality(m..m + MinFrames - 1) <= Cardinality(clear)
    BY <2>4, <2>5, FS_Subset
  <2>8. Cardinality(clear) \in Nat
    BY <2>5, FS_CardinalityType
  <2> QED
    BY <1>0, <2>6, <2>7, <2>8 DEF clear
<1> QED
  BY <1>1, <1>2 DEF PressesExact

(* What the client is told of its presses, and what the firmware makes of   *)
(* the frames of cdj_input_apply, agree: the acknowledged exchanges are     *)
(* the press's, at least MinFrames of them, each showing its bit unless a   *)
(* level, the lid, the door or a driven analogue field is set over it, and  *)
(* two presses are that far apart.                                          *)
THEOREM PressesAreExact == PanelSpec => []PressesExact
<1>1. PanelInit => InputInv
  BY PanelStart
<1>2. InputInv /\ [PanelNext]_panelVars => InputInv'
  BY PanelStep
<1>3. InputInv => PressesExact
  BY PressesFromInvariant
<1> QED
  BY <1>1, <1>2, <1>3, PTL DEF PanelSpec

=============================================================================
