---------------------------- MODULE YadmcProofs -----------------------------
(***************************************************************************)
(* Proofs about the SDRAM controller, for any geometry, any wait counts    *)
(* and any two clocks: the command handshake between the clock domains,    *)
(* with resets at any time; the time between two refreshes; types, open    *)
(* rows and bursts; that the controller is a memory; and that its commands *)
(* are legal for the chip.                                                 *)
(***************************************************************************)
EXTENDS Yadmc, TLAPS, FiniteSetTheorems

SysStates == {"IDLE", "CHECK_HIT", "WAIT_ACK"}
SdStates == InitStates \cup {"IDLE"} \cup RefreshStates \cup WriteStates \cup ReadStates

-----------------------------------------------------------------------------
(* What the SDRAM machine does in each of its states.                      *)

(* The fields of SdOut the handshake depends on.  A line is served from    *)
(* IDLE on only, for a command that has arrived; the acknowledge comes     *)
(* with the return to IDLE.                                                *)
LEMMA OutControl ==
    ASSUME sdst \in SdStates
    PROVE  /\ SdOut.next \in SdStates
           /\ SdOut.ack \in BOOLEAN
           /\ SdOut.ack => sdst = "READBURST" /\ SdOut.next = "IDLE"
           /\ SdOut.next \in WriteStates \cup ReadStates =>
                \/ Serving
                \/ /\ sdst = "IDLE"
                   /\ Flag("evict") \/ pend["evict"] \/ Flag("refill") \/ pend["refill"]
<1>1. CASE sdst \in InitStates
  BY <1>1, ZenonT(60) DEF SdOut, InitOut, Go, Issue, PrechargeAll, AutoRefresh, Quiet,
              InitStates, RefreshStates, WriteStates, ReadStates, SdStates
<1>2. CASE sdst = "IDLE"
  BY <1>2 DEF SdOut, IdleOut, Go, Quiet, InitStates, RefreshStates,
              WriteStates, ReadStates, SdStates
<1>3. CASE sdst \in RefreshStates
  BY <1>3, ZenonT(60) DEF SdOut, RefreshOut, Go, Issue, PrechargeAll, AutoRefresh, Quiet,
              InitStates, RefreshStates, WriteStates, ReadStates, SdStates
<1>4. CASE sdst \in WriteStates
  BY <1>4, ZenonT(60) DEF SdOut, WriteOut, Go, Issue, Precharge, Activate, Quiet, Serving,
              InitStates, RefreshStates, WriteStates, ReadStates, SdStates
<1>5. CASE sdst \in ReadStates
  BY <1>5, ZenonT(60) DEF SdOut, ReadOut, Go, Issue, Precharge, Activate, Quiet, Serving,
              InitStates, RefreshStates, WriteStates, ReadStates, SdStates
<1>6. QED
  BY <1>1, <1>2, <1>3, <1>4, <1>5 DEF SdStates

-----------------------------------------------------------------------------
(* Types of the part of the state the handshake is about.                  *)
Triple == BOOLEAN \X BOOLEAN \X BOOLEAN
ControlType ==
    /\ rst \in [up : BOOLEAN, seen : BOOLEAN, held : 0 .. Hold, left : 0 .. MaxResets]
    /\ bus \in [ph : {"idle", "req", "done"}, rq : Requests]
    /\ sst \in SysStates
    /\ tagdo \in [tag : Tag, dirty : BOOLEAN]
    /\ tags \in [Idx -> [tag : Tag, dirty : BOOLEAN]]
    /\ evict_adr \in Line /\ refill_adr \in Line
    /\ tog \in [Channels -> BOOLEAN]
    /\ syn \in [Channels -> Triple]
    /\ sdram_rst \in BOOLEAN \X BOOLEAN
    /\ sdst \in SdStates
    /\ pend \in [{"evict", "refill"} -> BOOLEAN]

LEMMA AdrType ==
    ASSUME ControlType
    PROVE  Adr.tag \in Tag /\ Adr.idx \in Idx /\ bus.rq.we \in BOOLEAN
<1>1. bus.rq \in Request
  BY YadmcAssumption DEF ControlType
<1>2. QED
  BY <1>1 DEF Request, Word, Adr

(* The synchronizers at the edges of the two clocks.                       *)
LEMMA ShiftType ==
    ASSUME ControlType, NEW ch \in Channels
    PROVE  /\ Shift(ch) \in Triple
           /\ ~rst.up => /\ Shift(ch)[1] = tog[ch]
                         /\ Shift(ch)[2] = syn[ch][1]
                         /\ Shift(ch)[3] = syn[ch][2]
           /\ rst.up => Shift(ch) = <<FALSE, FALSE, FALSE>>
  BY DEF ControlType, Shift, Triple

LEMMA SysChannels ==
    ASSUME ControlType, SysClk
    PROVE  /\ tog' \in [Channels -> BOOLEAN] /\ syn' \in [Channels -> Triple]
           /\ tog'["ack"] = tog["ack"]
           /\ tog'["evict"] <=> ~rst.up /\ (tog["evict"] <=> ~CommandEvict)
           /\ tog'["refill"] <=> ~rst.up /\ (tog["refill"] <=> ~CommandRefill)
           /\ syn'["ack"] = Shift("ack")
           /\ syn'["evict"] = syn["evict"] /\ syn'["refill"] = syn["refill"]
<1> DEFINE e == ~rst.up /\ tog["evict"] # CommandEvict
           r == ~rst.up /\ tog["refill"] # CommandRefill
<1>1. e \in BOOLEAN /\ r \in BOOLEAN
  BY Zenon
<1>2. CommandEvict \in BOOLEAN /\ CommandRefill \in BOOLEAN
  BY DEF CommandEvict, CommandRefill
<1>3. tog["evict"] \in BOOLEAN /\ tog["refill"] \in BOOLEAN
  BY DEF ControlType, Channels
<1>4. /\ e <=> ~rst.up /\ (tog["evict"] <=> ~CommandEvict)
      /\ r <=> ~rst.up /\ (tog["refill"] <=> ~CommandRefill)
  BY <1>2, <1>3
<1>5. tog' = [tog EXCEPT !["evict"] = e, !["refill"] = r]
  BY DEF SysClk, ControlType, Channels
<1>6. Shift("ack") \in Triple /\ syn' = [syn EXCEPT !["ack"] = Shift("ack")]
  BY ShiftType DEF SysClk, Channels
<1> HIDE DEF e, r
<1>7. /\ tog' \in [Channels -> BOOLEAN] /\ tog'["ack"] = tog["ack"]
      /\ tog'["evict"] = e /\ tog'["refill"] = r
  BY <1>1, <1>5 DEF ControlType, Channels
<1>8. /\ syn' \in [Channels -> Triple] /\ syn'["ack"] = Shift("ack")
      /\ syn'["evict"] = syn["evict"] /\ syn'["refill"] = syn["refill"]
  BY <1>6 DEF ControlType, Channels
<1>9. QED
  BY <1>4, <1>7, <1>8

LEMMA SdChannels ==
    ASSUME ControlType, SdClk
    PROVE  /\ tog' \in [Channels -> BOOLEAN] /\ syn' \in [Channels -> Triple]
           /\ tog'["ack"] <=> ~rst.up /\ (tog["ack"] <=> ~SdOut.ack)
           /\ tog'["evict"] = tog["evict"] /\ tog'["refill"] = tog["refill"]
           /\ syn'["ack"] = syn["ack"]
           /\ syn'["evict"] = Shift("evict") /\ syn'["refill"] = Shift("refill")
<1> DEFINE a == ~rst.up /\ tog["ack"] # SdOut.ack
<1>1. a \in BOOLEAN
  BY Zenon
<1>2. SdOut.ack \in BOOLEAN
  BY OutControl DEF ControlType
<1>3. tog["ack"] \in BOOLEAN
  BY DEF ControlType, Channels
<1>4. a <=> ~rst.up /\ (tog["ack"] <=> ~SdOut.ack)
  BY <1>2, <1>3
<1>5. tog' = [tog EXCEPT !["ack"] = a]
  BY DEF SdClk
<1>6. /\ Shift("evict") \in Triple /\ Shift("refill") \in Triple
      /\ syn' = [syn EXCEPT !["evict"] = Shift("evict"), !["refill"] = Shift("refill")]
  BY ShiftType DEF SdClk, Channels
<1> HIDE DEF a
<1>7. /\ tog' \in [Channels -> BOOLEAN] /\ tog'["ack"] = a
      /\ tog'["evict"] = tog["evict"] /\ tog'["refill"] = tog["refill"]
  BY <1>1, <1>5 DEF ControlType, Channels
<1>8. /\ syn' \in [Channels -> Triple] /\ syn'["ack"] = syn["ack"]
      /\ syn'["evict"] = Shift("evict") /\ syn'["refill"] = Shift("refill")
  BY <1>6 DEF ControlType, Channels
<1>9. QED
  BY <1>4, <1>7, <1>8

LEMMA InitControl == Init => ControlType
<1> SUFFICES ASSUME Init PROVE ControlType
  OBVIOUS
<1>1. 0 \in Tag /\ 0 \in Idx
  BY YadmcAssumption DEF Tag, Idx
<1>2. 0 \in 0 .. Hold /\ MaxResets \in 0 .. MaxResets
  BY YadmcAssumption DEF Hold
<1>3. <<FALSE, FALSE, FALSE>> \in Triple
  BY DEF Triple
<1>4. pend \in [{"evict", "refill"} -> BOOLEAN]
  BY DEF Init
<1>5. /\ rst \in [up : BOOLEAN, seen : BOOLEAN, held : 0 .. Hold, left : 0 .. MaxResets]
      /\ bus \in [ph : {"idle", "req", "done"}, rq : Requests]
  BY <1>2 DEF Init
<1>6. /\ tagdo \in [tag : Tag, dirty : BOOLEAN]
      /\ tags \in [Idx -> [tag : Tag, dirty : BOOLEAN]]
      /\ evict_adr \in Line /\ refill_adr \in Line
  BY <1>1 DEF Init, Line
<1>7. /\ tog \in [Channels -> BOOLEAN] /\ syn \in [Channels -> Triple]
      /\ sdram_rst \in BOOLEAN \X BOOLEAN
  BY <1>3 DEF Init
<1>8. QED
  BY <1>4, <1>5, <1>6, <1>7 DEF Init, ControlType, SysStates, SdStates, InitStates

LEMMA StepControl ==
    ASSUME ControlType, Next
    PROVE  ControlType'
<1>1. Adr.tag \in Tag /\ Adr.idx \in Idx /\ bus.rq.we \in BOOLEAN
  BY AdrType
<1>2. CASE SysClk
  <2>1. tog' \in [Channels -> BOOLEAN] /\ syn' \in [Channels -> Triple]
    BY <1>2, SysChannels
  <2>2. sst' \in SysStates
    BY <1>2 DEF SysClk, SysState, SysNext, ControlType, SysStates
  <2>3. /\ tags' \in [Idx -> [tag : Tag, dirty : BOOLEAN]]
        /\ tagdo' \in [tag : Tag, dirty : BOOLEAN]
    BY <1>1, <1>2 DEF SysClk, ControlType
  <2>4. evict_adr' \in Line /\ refill_adr' \in Line
    BY <1>1, <1>2 DEF SysClk, ControlType, Line
  <2>5. bus' \in [ph : {"idle", "req", "done"}, rq : Requests]
    BY <1>2 DEF SysClk, ControlType
  <2>6. rst' \in [up : BOOLEAN, seen : BOOLEAN, held : 0 .. Hold, left : 0 .. MaxResets]
    <3>1. rst' = [rst EXCEPT !.seen = rst.up] /\ rst.up \in BOOLEAN
      BY <1>2 DEF SysClk, ControlType
    <3>2. QED
      BY <3>1 DEF ControlType
  <2>7. UNCHANGED <<sdram_rst, sdst, pend>>
    BY <1>2 DEF SysClk, sdvars
  <2>8. QED
    BY <2>1, <2>2, <2>3, <2>4, <2>5, <2>6, <2>7 DEF ControlType
<1>3. CASE SdClk
  <2>1. tog' \in [Channels -> BOOLEAN] /\ syn' \in [Channels -> Triple]
    BY <1>3, SdChannels
  <2>2. sdst' \in SdStates
    BY <1>3, OutControl DEF SdClk, SdRegisters, ControlType, SdStates, InitStates
  <2>3. pend' \in [{"evict", "refill"} -> BOOLEAN]
    BY <1>3 DEF SdClk, SdRegisters
  <2>4. sdram_rst' \in BOOLEAN \X BOOLEAN
    BY <1>3 DEF SdClk, SdRegisters, ControlType
  <2>5. rst' \in [up : BOOLEAN, seen : BOOLEAN, held : 0 .. Hold, left : 0 .. MaxResets]
    BY <1>3 DEF SdClk, ControlType, Hold
  <2>6. UNCHANGED sysvars
    BY <1>3 DEF SdClk
  <2>7. QED
    BY <2>1, <2>2, <2>3, <2>4, <2>5, <2>6 DEF ControlType, sysvars
<1>4. CASE Reset
  <2>1. rst' \in [up : BOOLEAN, seen : BOOLEAN, held : 0 .. Hold, left : 0 .. MaxResets]
    BY <1>4, YadmcAssumption DEF Reset, ControlType, Hold
  <2>2. bus' \in [ph : {"idle", "req", "done"}, rq : Requests]
    BY <1>4, YadmcAssumption DEF Reset
  <2>3. QED
    BY <1>4, <2>1, <2>2 DEF Reset, ControlType, sdvars
<1>5. CASE Release
  <2>1. rst' \in [up : BOOLEAN, seen : BOOLEAN, held : 0 .. Hold, left : 0 .. MaxResets]
    <3>1. rst' = [rst EXCEPT !.up = FALSE, !.seen = FALSE, !.held = 0]
      BY <1>5 DEF Release
    <3>2. 0 \in 0 .. Hold
      BY DEF Hold
    <3>3. QED
      BY <3>1, <3>2 DEF ControlType
  <2>2. QED
    BY <1>5, <2>1 DEF Release, ControlType, sysvars, sdvars
<1>6. CASE \E r \in Requests : Ask(r)
  <2>1. bus' \in [ph : {"idle", "req", "done"}, rq : Requests]
    BY <1>6 DEF Ask
  <2>2. QED
    BY <1>6, <2>1 DEF Ask, ControlType, sdvars
<1>7. QED
  BY <1>2, <1>3, <1>4, <1>5, <1>6 DEF Next

-----------------------------------------------------------------------------
(* The handshake.  At any time one place at most knows of the command: a   *)
(* synchronizer on its way, the SDRAM machine (which may remember it in    *)
(* `pend'), or the synchronizer of the acknowledge.                        *)

(* No flag is on its way; at most one is.                                  *)
Flat(ch) ==
    /\ tog[ch] = syn[ch][1] /\ syn[ch][1] = syn[ch][2] /\ syn[ch][2] = syn[ch][3]
OneEdge(ch) ==
    \/ syn[ch][1] = syn[ch][2] /\ syn[ch][2] = syn[ch][3]
    \/ tog[ch] = syn[ch][1] /\ (syn[ch][1] = syn[ch][2] \/ syn[ch][2] = syn[ch][3])
AllFlat == Flat("evict") /\ Flat("refill") /\ Flat("ack")

Held == Serving \/ pend["evict"] \/ pend["refill"]

HandInv ==
    ~rst.up =>
        /\ OneEdge("evict") /\ OneEdge("refill") /\ OneEdge("ack")
        /\ sst # "WAIT_ACK" \/ Held => AllFlat
        /\ sst # "WAIT_ACK" => ~Held
        /\ Flat("evict") \/ Flat("refill")
        /\ Flat("ack") \/ (Flat("evict") /\ Flat("refill"))
        /\ ~(pend["evict"] /\ pend["refill"])

(* The lines evict_adr and refill_adr name, and where they come from.      *)
AdrInv ==
    ~rst.up =>
        /\ sst # "IDLE" => bus.ph = "req"
        /\ sst = "CHECK_HIT" => tagdo = tags[Adr.idx]
        /\ sst = "WAIT_ACK" =>
              /\ refill_adr = [tag |-> Adr.tag, idx |-> Adr.idx]
              /\ evict_adr = [tag |-> tags[Adr.idx].tag, idx |-> Adr.idx]
              /\ evict_adr.tag # refill_adr.tag

(* How far a reset has got: both domains have forgotten the command before *)
(* it may be released.                                                     *)
Cleared == <<FALSE, FALSE, FALSE>>
ResetInv ==
    rst.up =>
        /\ rst.held >= 1 => /\ tog["ack"] = FALSE /\ sdram_rst[1]
                            /\ syn["evict"] = Cleared /\ syn["refill"] = Cleared
        /\ rst.held >= 2 => sdram_rst[2]
        /\ rst.held >= 3 => sdst = "RESET" /\ ~pend["evict"] /\ ~pend["refill"]
        /\ rst.seen => /\ sst = "IDLE" /\ syn["ack"] = Cleared
                       /\ tog["evict"] = FALSE /\ tog["refill"] = FALSE

CommandInv == ControlType /\ HandInv /\ AdrInv /\ ResetInv

(* Shifting a synchronizer keeps its one flag, or delivers it.             *)
LEMMA ShiftEdge ==
    ASSUME ControlType, NEW ch \in Channels, ~rst.up, OneEdge(ch),
           tog'[ch] = tog[ch], syn'[ch] = Shift(ch)
    PROVE  OneEdge(ch)' /\ (Flat(ch) \/ Flag(ch) => Flat(ch)')
  BY ShiftType DEF OneEdge, Flat, Flag

LEMMA ClearedFlat ==
    ASSUME NEW t, NEW s, t = FALSE, s = Cleared
    PROVE  t = s[1] /\ s[1] = s[2] /\ s[2] = s[3]
<1>1. s[1] = FALSE /\ s[2] = FALSE /\ s[3] = FALSE
  BY DEF Cleared
<1>2. QED
  BY <1>1

LEMMA InitCommand == Init => CommandInv
<1> SUFFICES ASSUME Init PROVE CommandInv
  OBVIOUS
<1>1. ControlType
  BY InitControl
<1>2. /\ rst.up = FALSE /\ sst = "IDLE" /\ sdst = "RESET"
      /\ \A ch \in Channels : tog[ch] = FALSE /\ syn[ch] = <<FALSE, FALSE, FALSE>>
      /\ pend["evict"] = FALSE /\ pend["refill"] = FALSE
  BY DEF Init
<1>3. AllFlat
  <2>1. ASSUME NEW ch \in Channels PROVE Flat(ch)
    BY <1>2, ClearedFlat DEF Flat, Cleared
  <2>2. QED
    BY <2>1 DEF AllFlat, Channels
<1>4. ~Held
  BY <1>2 DEF Held, Serving, WriteStates, ReadStates
<1>5. OneEdge("evict") /\ OneEdge("refill") /\ OneEdge("ack")
  BY <1>3 DEF AllFlat, Flat, OneEdge
<1>6. QED
  BY <1>1, <1>2, <1>3, <1>4, <1>5 DEF CommandInv, HandInv, AdrInv, ResetInv, AllFlat, Held

LEMMA SysCommand ==
    ASSUME CommandInv, SysClk
    PROVE  HandInv' /\ AdrInv' /\ ResetInv'
<1>1. ControlType /\ HandInv /\ AdrInv /\ ResetInv
  BY DEF CommandInv
<1>2. /\ rst'.up = rst.up /\ rst'.held = rst.held /\ rst'.seen = rst.up
      /\ sdst' = sdst /\ pend' = pend /\ sdram_rst' = sdram_rst /\ sst' = SysState
      /\ bus'.rq = bus.rq
  BY <1>1 DEF SysClk, ControlType, sdvars
<1>3. Held' <=> Held
  BY <1>2 DEF Held, Serving
<1>4. /\ tog'["ack"] = tog["ack"]
      /\ tog'["evict"] <=> ~rst.up /\ (tog["evict"] <=> ~CommandEvict)
      /\ tog'["refill"] <=> ~rst.up /\ (tog["refill"] <=> ~CommandRefill)
      /\ syn'["ack"] = Shift("ack")
      /\ syn'["evict"] = syn["evict"] /\ syn'["refill"] = syn["refill"]
      /\ tog' \in [Channels -> BOOLEAN]
  BY <1>1, SysChannels
<1>5. /\ tog["evict"] \in BOOLEAN /\ tog["refill"] \in BOOLEAN
      /\ tog'["evict"] \in BOOLEAN /\ tog'["refill"] \in BOOLEAN
  BY <1>1, <1>4 DEF ControlType, Channels
<1>6. CASE rst.up
  <2>1. syn'["ack"] = Cleared
    BY <1>1, <1>4, <1>6, ShiftType DEF Cleared, Channels
  <2>2. tog'["evict"] = FALSE /\ tog'["refill"] = FALSE
    BY <1>4, <1>5, <1>6
  <2>3. sst' = "IDLE"
    BY <1>2, <1>6 DEF SysState
  <2>4. QED
    BY <1>1, <1>2, <1>4, <1>6, <2>1, <2>2, <2>3 DEF HandInv, AdrInv, ResetInv
<1>7. CASE ~rst.up
  <2>1. ResetInv'
    BY <1>2, <1>7 DEF ResetInv
  <2>2. OneEdge("ack")' /\ (Flat("ack") \/ Flag("ack") => Flat("ack")')
    BY <1>1, <1>4, <1>7, ShiftEdge DEF HandInv, Channels
  <2>3. /\ ~CommandEvict => tog'["evict"] = tog["evict"]
        /\ ~CommandRefill => tog'["refill"] = tog["refill"]
    BY <1>4, <1>5, <1>7
  <2>4. /\ ~CommandEvict => (Flat("evict")' <=> Flat("evict"))
                            /\ (OneEdge("evict")' <=> OneEdge("evict"))
        /\ ~CommandRefill => (Flat("refill")' <=> Flat("refill"))
                             /\ (OneEdge("refill")' <=> OneEdge("refill"))
    BY <1>4, <2>3 DEF Flat, OneEdge
  <2>5. CASE CommandEvict \/ CommandRefill
    <3>1. sst = "CHECK_HIT" /\ ~Hit /\ sst' = "WAIT_ACK" /\ ~(CommandEvict /\ CommandRefill)
      BY <1>2, <1>7, <2>5 DEF CommandEvict, CommandRefill, SysState, SysNext
    <3>2. AllFlat /\ ~Held
      BY <1>1, <1>7, <3>1 DEF HandInv
    <3>3. OneEdge("evict")' /\ OneEdge("refill")'
      BY <1>4, <3>2 DEF AllFlat, Flat, OneEdge
    <3>4. Flat("ack")' /\ (Flat("evict")' \/ Flat("refill")')
      BY <2>2, <2>4, <3>1, <3>2 DEF AllFlat
    <3>5. HandInv'
      BY <1>2, <1>3, <2>2, <3>1, <3>2, <3>3, <3>4 DEF HandInv, Held
    <3>6. bus.ph = "req" /\ tagdo = tags[Adr.idx] /\ tags' = tags
      BY <1>1, <1>7, <3>1 DEF AdrInv, SysClk, TagsWe, WbAck
    <3>7. bus'.ph = "req"
      BY <1>1, <3>1, <3>6 DEF SysClk, WbAck, ControlType
    <3>8. /\ evict_adr' = [tag |-> tagdo.tag, idx |-> Adr.idx]
          /\ refill_adr' = [tag |-> Adr.tag, idx |-> Adr.idx]
      BY <2>5 DEF SysClk
    <3>9. AdrInv'
      BY <1>2, <3>1, <3>6, <3>7, <3>8 DEF AdrInv, Hit, Adr
    <3>10. QED
      BY <2>1, <3>5, <3>9
  <2>6. CASE ~CommandEvict /\ ~CommandRefill
    <3>1. UNCHANGED <<evict_adr, refill_adr>>
      BY <2>6 DEF SysClk
    <3>2. CASE sst = "WAIT_ACK" /\ ~WbAck
      <4>1. sst' = "WAIT_ACK" /\ tags' = tags
        BY <1>2, <1>7, <3>2 DEF SysState, SysNext, SysClk, TagsWe
      <4>2. HandInv'
        BY <1>1, <1>2, <1>3, <1>7, <2>2, <2>4, <2>6, <4>1 DEF HandInv, AllFlat, Held
      <4>3. bus'.ph = "req"
        BY <1>1, <1>7, <3>2 DEF SysClk, AdrInv, ControlType
      <4>4. AdrInv'
        BY <1>1, <1>2, <1>7, <3>1, <3>2, <4>1, <4>3 DEF AdrInv, Adr
      <4>5. QED
        BY <2>1, <4>2, <4>4
    <3>3. CASE sst = "WAIT_ACK" /\ WbAck
      <4>1. sst' = "IDLE"
        BY <1>2, <1>7, <3>3 DEF SysState, SysNext
      <4>2. Flag("ack") /\ ~Flat("ack")
        BY <3>3 DEF WbAck, Flag, Flat
      <4>3. ~Held /\ Flat("evict") /\ Flat("refill")
        BY <1>1, <1>7, <4>2 DEF HandInv, AllFlat
      <4>4. HandInv'
        BY <1>1, <1>2, <1>3, <1>7, <2>2, <2>4, <2>6, <4>1, <4>2, <4>3
           DEF HandInv, AllFlat, Held
      <4>5. AdrInv'
        BY <4>1 DEF AdrInv
      <4>6. QED
        BY <2>1, <4>4, <4>5
    <3>4. CASE sst # "WAIT_ACK"
      <4>1. sst' # "WAIT_ACK" /\ (sst' = "CHECK_HIT" => sst = "IDLE" /\ bus.ph = "req")
        BY <1>1, <1>2, <1>7, <2>6, <3>4
           DEF SysState, SysNext, CommandEvict, CommandRefill, ControlType, SysStates
      <4>2. HandInv'
        BY <1>1, <1>2, <1>3, <1>7, <2>2, <2>4, <2>6, <3>4, <4>1 DEF HandInv, AllFlat, Held
      <4>3. sst' = "CHECK_HIT" => bus'.ph = "req" /\ tags' = tags /\ tagdo' = tags[Adr.idx]
        BY <1>1, <4>1 DEF SysClk, WbAck, TagsWe, ControlType
      <4>4. sst' \in {"IDLE", "CHECK_HIT"}
        BY <1>1, <1>2, <1>7, <4>1 DEF SysState, SysNext, ControlType, SysStates
      <4>5. AdrInv'
        BY <1>2, <4>1, <4>3, <4>4 DEF AdrInv, Adr
      <4>6. QED
        BY <2>1, <4>2, <4>5
    <3>5. QED
      BY <3>2, <3>3, <3>4
  <2>7. QED
    BY <2>5, <2>6
<1>8. QED
  BY <1>6, <1>7

LEMMA SdCommand ==
    ASSUME CommandInv, SdClk
    PROVE  HandInv' /\ AdrInv' /\ ResetInv'
<1>1. /\ ControlType /\ HandInv /\ AdrInv /\ ResetInv
      /\ rst.held \in 0 .. Hold
  BY DEF CommandInv, ControlType
<1>2. /\ rst'.up = rst.up /\ rst'.seen = rst.seen
      /\ rst'.held = IF rst.up /\ rst.held < Hold THEN rst.held + 1 ELSE rst.held
  BY <1>1 DEF SdClk, ControlType
<1>3. UNCHANGED <<bus, sst, tags, tagdo, evict_adr, refill_adr>>
  BY DEF SdClk, sysvars
<1>4. /\ sdram_rst' = <<rst.up, sdram_rst[1]>>
      /\ sdst' = IF sdram_rst[2] THEN "RESET" ELSE SdOut.next
  BY DEF SdClk, SdRegisters
<1>5. /\ pend'["evict"] <=> ~(sdram_rst[2] \/ SdOut.ack) /\ (pend["evict"] \/ Flag("evict"))
      /\ pend'["refill"] <=> ~(sdram_rst[2] \/ SdOut.ack) /\ (pend["refill"] \/ Flag("refill"))
  BY DEF SdClk, SdRegisters
<1>6. /\ tog' \in [Channels -> BOOLEAN]
      /\ tog'["ack"] <=> ~rst.up /\ (tog["ack"] <=> ~SdOut.ack)
      /\ tog'["evict"] = tog["evict"] /\ tog'["refill"] = tog["refill"]
      /\ syn'["ack"] = syn["ack"]
      /\ syn'["evict"] = Shift("evict") /\ syn'["refill"] = Shift("refill")
  BY <1>1, SdChannels
<1>7. tog["ack"] \in BOOLEAN /\ tog'["ack"] \in BOOLEAN
  BY <1>1, <1>6 DEF ControlType, Channels
<1>8. AdrInv'
  BY <1>1, <1>2, <1>3 DEF AdrInv, Adr
<1>9. CASE rst.up
  <2>1. syn'["evict"] = Cleared /\ syn'["refill"] = Cleared
    BY <1>1, <1>6, <1>9, ShiftType DEF Cleared, Channels
  <2>2. tog'["ack"] = FALSE
    BY <1>6, <1>7, <1>9
  <2>3. sdram_rst'[1] /\ (rst'.held >= 2 => sdram_rst'[2])
    BY <1>1, <1>2, <1>4, <1>9 DEF ResetInv, Hold
  <2>4. rst'.held >= 3 => sdst' = "RESET" /\ ~pend'["evict"] /\ ~pend'["refill"]
    BY <1>1, <1>2, <1>4, <1>5, <1>9 DEF ResetInv, Hold
  <2>5. rst'.seen => /\ sst' = "IDLE" /\ syn'["ack"] = Cleared
                     /\ tog'["evict"] = FALSE /\ tog'["refill"] = FALSE
    BY <1>1, <1>2, <1>3, <1>6, <1>9 DEF ResetInv
  <2>6. ResetInv'
    BY <2>1, <2>2, <2>3, <2>4, <2>5 DEF ResetInv
  <2>7. QED
    BY <1>2, <1>8, <1>9, <2>6 DEF HandInv
<1>10. CASE ~rst.up
  <2>1. ResetInv'
    BY <1>2, <1>10 DEF ResetInv
  <2>2. /\ OneEdge("evict")' /\ (Flat("evict") \/ Flag("evict") => Flat("evict")')
        /\ OneEdge("refill")' /\ (Flat("refill") \/ Flag("refill") => Flat("refill")')
    BY <1>1, <1>6, <1>10, ShiftEdge DEF HandInv, Channels
  <2>3. /\ Flag("evict") => ~Flat("evict")
        /\ Flag("refill") => ~Flat("refill")
    BY DEF Flag, Flat
  <2>4. CASE SdOut.ack
    <3>1. sdst = "READBURST" /\ SdOut.next = "IDLE"
      BY <1>1, <2>4, OutControl DEF ControlType
    <3>2. Held
      BY <3>1 DEF Held, Serving, ReadStates
    <3>3. AllFlat /\ sst = "WAIT_ACK"
      BY <1>1, <1>10, <3>2 DEF HandInv
    <3>4. OneEdge("ack")'
      BY <1>6, <3>3 DEF AllFlat, Flat, OneEdge
    <3>5. ~Held'
      BY <1>4, <1>5, <2>4, <3>1 DEF Held, Serving, WriteStates, ReadStates
    <3>6. Flat("evict")' /\ Flat("refill")'
      BY <2>2, <3>3 DEF AllFlat
    <3>7. QED
      BY <1>3, <1>8, <2>1, <2>2, <3>3, <3>4, <3>5, <3>6 DEF HandInv, Held
  <2>5. CASE ~SdOut.ack
    <3>1. tog'["ack"] = tog["ack"]
      BY <1>6, <1>7, <1>10, <2>5
    <3>2. /\ Flat("ack")' <=> Flat("ack")
          /\ OneEdge("ack")' <=> OneEdge("ack")
      BY <1>6, <3>1 DEF Flat, OneEdge
    <3>3. Held' => Held \/ Flag("evict") \/ Flag("refill")
      BY <1>1, <1>4, <1>5, OutControl
         DEF Held, Serving, ControlType, InitStates, WriteStates, ReadStates
    <3>4. Held' => AllFlat' /\ sst = "WAIT_ACK"
      BY <1>1, <1>10, <2>2, <2>3, <3>2, <3>3 DEF HandInv, AllFlat
    <3>5. ~(pend'["evict"] /\ pend'["refill"])
      BY <1>1, <1>5, <1>10, <2>3 DEF HandInv, AllFlat, Held
    <3>6. HandInv'
      BY <1>1, <1>2, <1>3, <1>10, <2>2, <3>2, <3>4, <3>5 DEF HandInv, AllFlat
    <3>7. QED
      BY <1>8, <2>1, <3>6
  <2>6. QED
    BY <2>4, <2>5
<1>11. QED
  BY <1>9, <1>10

(* Release finds both domains cleared.                                     *)
LEMMA ReleaseCommand ==
    ASSUME CommandInv, Release
    PROVE  HandInv' /\ AdrInv' /\ ResetInv'
<1>1. /\ tog["ack"] = FALSE /\ tog["evict"] = FALSE /\ tog["refill"] = FALSE
      /\ syn["evict"] = Cleared /\ syn["refill"] = Cleared /\ syn["ack"] = Cleared
      /\ sdst = "RESET" /\ ~pend["evict"] /\ ~pend["refill"] /\ sst = "IDLE"
  BY DEF CommandInv, ResetInv, Release, Hold
<1>2. UNCHANGED <<tog, syn, sdst, pend, sst>>
  BY DEF Release, sysvars, sdvars
<1>3. rst'.up = FALSE
  BY DEF Release, CommandInv, ControlType
<1>4. AllFlat'
  BY <1>1, <1>2, ClearedFlat DEF AllFlat, Flat
<1>5. OneEdge("evict")' /\ OneEdge("refill")' /\ OneEdge("ack")'
  BY <1>4 DEF AllFlat, Flat, OneEdge
<1>6. ~Held'
  BY <1>1, <1>2 DEF Held, Serving, WriteStates, ReadStates
<1>7. QED
  BY <1>1, <1>2, <1>3, <1>4, <1>5, <1>6 DEF HandInv, AdrInv, ResetInv, AllFlat, Held

LEMMA StepCommand ==
    ASSUME CommandInv, Next
    PROVE  CommandInv'
<1>1. ControlType'
  BY StepControl DEF CommandInv
<1>2. HandInv' /\ AdrInv' /\ ResetInv'
  <2>1. CASE Reset
    BY <2>1 DEF Reset, HandInv, AdrInv, ResetInv
  <2>2. CASE \E r \in Requests : Ask(r)
    <3>1. PICK r \in Requests : Ask(r)
      BY <2>2
    <3>2. /\ UNCHANGED <<rst, sst, tags, tagdo, evict_adr, refill_adr>>
          /\ UNCHANGED <<sdst, pend, sdram_rst, tog, syn>>
          /\ bus.ph = "idle" /\ ~rst.up
      BY <3>1 DEF Ask, sdvars
    <3>3. sst = "IDLE"
      BY <3>2 DEF CommandInv, AdrInv
    <3>4. HandInv' /\ ResetInv'
      BY <3>2 DEF CommandInv, HandInv, ResetInv, OneEdge, AllFlat, Flat, Held, Serving
    <3>5. QED
      BY <3>2, <3>3, <3>4 DEF AdrInv
  <2>3. QED
    BY <2>1, <2>2, SysCommand, SdCommand, ReleaseCommand DEF Next
<1>3. QED
  BY <1>1, <1>2 DEF CommandInv

LEMMA CommandInvariant == Spec => []CommandInv
<1>1. CommandInv /\ [Next]_vars => CommandInv'
  <2>1. ASSUME CommandInv, UNCHANGED vars
        PROVE  CommandInv'
    BY <2>1 DEF CommandInv, ControlType, HandInv, AdrInv, ResetInv, OneEdge, AllFlat,
                Flat, Held, Serving, Adr, vars, sysvars, sdvars
  <2>2. QED
    BY <2>1, StepCommand
<1>2. QED
  BY <1>1, InitCommand, PTL DEF Spec

(* A flag is under way exactly if its synchronizer is not flat.            *)
LEMMA UnderwayFlat ==
    ASSUME ControlType, NEW ch \in Channels
    PROVE  Underway(ch) <=> ~Flat(ch)
<1>1. tog[ch] \in BOOLEAN /\ syn[ch][1] \in BOOLEAN /\ syn[ch][2] \in BOOLEAN
      /\ syn[ch][3] \in BOOLEAN
  BY DEF ControlType, Triple
<1>2. QED
  BY <1>1 DEF Underway, Flat

(* The two clock domains never work on two commands, or look at line       *)
(* addresses that are about to change: for any two clocks, any traffic     *)
(* and any number of resets.                                               *)
THEOREM OneAtATime == Spec => []OneCommand
<1>1. CommandInv => OneCommand
  <2> SUFFICES ASSUME CommandInv, ~rst.up
               PROVE  OneCommand
    BY DEF OneCommand
  <2> DEFINE asked == {ch \in Channels : Underway(ch)}
  <2>1. ControlType /\ HandInv /\ AdrInv
    BY DEF CommandInv
  <2>2. asked = {ch \in Channels : ~Flat(ch)}
    BY <2>1, UnderwayFlat
  <2>3. asked = {} \/ asked = {"evict"} \/ asked = {"refill"} \/ asked = {"ack"}
    BY <2>1, <2>2 DEF HandInv, Channels
  <2>4. Cardinality(asked) <= 1
    <3>1. Cardinality({}) = 0
      BY FS_EmptySet
    <3>2. \A ch : Cardinality({ch}) = 1
      BY FS_Singleton
    <3> HIDE DEF asked
    <3>3. CASE asked = {}
      BY <3>1, <3>3
    <3>4. CASE asked # {}
      <4>1. PICK ch : asked = {ch}
        BY <2>3, <3>4
      <4>2. QED
        BY <3>2, <4>1
    <3>5. QED
      BY <3>3, <3>4
  <2>5. asked # {} \/ Held => sst = "WAIT_ACK"
    BY <2>1, <2>2 DEF HandInv, AllFlat, Channels
  <2>6. Serving => "ack" \notin asked
    BY <2>1, <2>2 DEF HandInv, AllFlat, Held
  <2>7. ~(pend["evict"] /\ pend["refill"])
    BY <2>1 DEF HandInv
  <2> HIDE DEF asked
  <2>8. Serving \/ asked # {} \/ pend["evict"] \/ pend["refill"] =>
          /\ sst = "WAIT_ACK"
          /\ refill_adr = [tag |-> Adr.tag, idx |-> Adr.idx]
          /\ evict_adr = [tag |-> tags[Adr.idx].tag, idx |-> Adr.idx]
          /\ evict_adr.tag # refill_adr.tag
    BY <2>1, <2>5 DEF AdrInv, Held
  <2>9. QED
    BY <2>4, <2>6, <2>7, <2>8 DEF OneCommand, asked
<1>2. QED
  BY <1>1, CommandInvariant, PTL

-----------------------------------------------------------------------------
(* Refresh.  The bound is shown with a count of the edges of sdram_clk     *)
(* that can still pass before the next AUTO REFRESH reaches the chip: it   *)
(* falls with every edge, whatever the traffic.                            *)

(* What the machine makes of one state: next state, command, cke, counters *)
(* loaded and whether the burst counter runs.                              *)
Moves(nxt, cmd, cke, loads, run) ==
    /\ SdOut.next = nxt /\ SdOut.cmd = cmd /\ SdOut.cke = cke
    /\ SdOut.reload = loads /\ SdOut.burst = run
Stays == Moves(sdst, "NOP", TRUE, {}, FALSE)

LEMMA InitMoves ==
    /\ sdst = "RESET" => Moves("INIT_PRECHARGEALL", "NOP", TRUE, {"init"}, FALSE)
    /\ sdst = "INIT_PRECHARGEALL" =>
         IF Done("init") THEN Moves("INIT_AUTOREFRESH1", "PREALL", FALSE, {"pall"}, FALSE)
         ELSE Stays
    /\ sdst = "INIT_AUTOREFRESH1" =>
         IF Done("pall") THEN Moves("INIT_AUTOREFRESH2", "REF", TRUE, {"aref"}, FALSE)
         ELSE Stays
    /\ sdst = "INIT_AUTOREFRESH2" =>
         IF Done("aref") THEN Moves("INIT_LOADMODE", "REF", TRUE, {"aref"}, FALSE)
         ELSE Stays
    /\ sdst = "INIT_LOADMODE" =>
         IF Done("aref") THEN Moves("IDLE", "LMR", TRUE, {"refresh"}, FALSE)
         ELSE Stays
  BY DEF SdOut, InitOut, Go, Issue, PrechargeAll, AutoRefresh, Quiet, Moves, Stays,
         InitStates, RefreshStates, WriteStates, ReadStates

LEMMA RefreshMoves ==
    /\ sdst = "PRECHARGE_BEFORE_REFRESH" =>
         Moves("AUTOREFRESH", "PREALL", FALSE, {"pall"}, FALSE)
    /\ sdst = "AUTOREFRESH" =>
         IF Done("pall") THEN Moves("WAIT_REFRESH", "REF", TRUE, {"aref"}, FALSE)
         ELSE Stays
    /\ sdst = "WAIT_REFRESH" =>
         IF Done("aref") THEN Moves("IDLE", "NOP", TRUE, {"refresh"}, FALSE)
         ELSE Stays
  BY DEF SdOut, RefreshOut, Go, Issue, PrechargeAll, AutoRefresh, Quiet, Moves, Stays,
         InitStates, RefreshStates, WriteStates, ReadStates

(* Refresh goes first.                                                     *)
LEMMA IdleMoves ==
    sdst = "IDLE" =>
        IF Done("refresh") THEN Moves("PRECHARGE_BEFORE_REFRESH", "NOP", TRUE, {}, FALSE)
        ELSE \/ Stays
             \/ Moves("PRECHARGE_BEFORE_WRITE", "NOP", TRUE, {}, FALSE)
             \/ Moves("PRECHARGE_BEFORE_READ", "NOP", TRUE, {}, FALSE)
  BY DEF SdOut, IdleOut, Go, Quiet, Moves, Stays,
         InitStates, RefreshStates, WriteStates, ReadStates

LEMMA WriteMoves ==
    /\ sdst = "PRECHARGE_BEFORE_WRITE" =>
         \/ Moves("ACTIVATE_BEFORE_WRITE", "PRE", TRUE, {"pre"}, FALSE)
         \/ Moves("WRITE", "NOP", TRUE, {}, FALSE)
    /\ sdst = "ACTIVATE_BEFORE_WRITE" =>
         IF Done("pre") THEN Moves("WRITE", "ACT", TRUE, {"act"}, FALSE) ELSE Stays
    /\ sdst = "WRITE" =>
         IF Done("act") THEN Moves("WRITEBURST", "WR", TRUE, {}, TRUE) ELSE Stays
    /\ sdst = "WRITEBURST" =>
         IF BurstFinished THEN Moves("PRECHARGE_BEFORE_READ", "NOP", TRUE, {}, TRUE)
         ELSE Moves("WRITEBURST", "NOP", TRUE, {}, TRUE)
  BY DEF SdOut, WriteOut, Go, Issue, Precharge, Activate, Quiet, Moves, Stays,
         InitStates, RefreshStates, WriteStates, ReadStates

LEMMA ReadMoves ==
    /\ sdst = "PRECHARGE_BEFORE_READ" =>
         \/ Moves("ACTIVATE_BEFORE_READ", "PRE", TRUE, {"pre"}, FALSE)
         \/ Moves("READ", "NOP", TRUE, {}, FALSE)
    /\ sdst = "ACTIVATE_BEFORE_READ" =>
         IF Done("pre") THEN Moves("READ", "ACT", TRUE, {"act"}, FALSE) ELSE Stays
    /\ sdst = "READ" =>
         IF Done("act") THEN Moves("READREG1", "RD", TRUE, {}, FALSE) ELSE Stays
    /\ sdst = "READREG1" => Moves("READREG2", "NOP", TRUE, {}, FALSE)
    /\ sdst = "READREG2" => Moves("READREG3", "NOP", TRUE, {}, FALSE)
    /\ sdst = "READREG3" => Moves("READFIRST", "NOP", TRUE, {}, FALSE)
    /\ sdst = "READFIRST" => Moves("READBURST", "NOP", TRUE, {}, FALSE)
    /\ sdst = "READBURST" =>
         IF BurstLast THEN Moves("IDLE", "NOP", TRUE, {}, TRUE)
         ELSE Moves("READBURST", "NOP", TRUE, {}, TRUE)
  BY ZenonT(60) DEF SdOut, ReadOut, Go, Issue, Precharge, Activate, Quiet, Moves, Stays,
         InitStates, RefreshStates, WriteStates, ReadStates

(* Edges that the service of a line takes at most from each of its states: *)
(* of a refill, and of an eviction with the refill after it.               *)
ReadTime == Wait["pre"] + Wait["act"] + 2*LineWords + 7
Remaining ==
    CASE sdst = "PRECHARGE_BEFORE_WRITE" -> ServiceTime
      [] sdst = "ACTIVATE_BEFORE_WRITE" ->
            timer["pre"] + Wait["act"] + 2*LineWords + 2 + ReadTime
      [] sdst = "WRITE" -> timer["act"] + 2*LineWords + 1 + ReadTime
      [] sdst = "WRITEBURST" -> 2*LineWords + 1 - bc + ReadTime
      [] sdst = "PRECHARGE_BEFORE_READ" -> ReadTime
      [] sdst = "ACTIVATE_BEFORE_READ" -> timer["pre"] + Wait["act"] + 2*LineWords + 6
      [] sdst = "READ" -> timer["act"] + 2*LineWords + 5
      [] sdst = "READREG1" -> 2*LineWords + 4
      [] sdst = "READREG2" -> 2*LineWords + 3
      [] sdst = "READREG3" -> 2*LineWords + 2
      [] sdst = "READFIRST" -> 2*LineWords + 1
      [] sdst = "READBURST" -> 2*LineWords - bc
      [] OTHER -> 0

(* From any state to the next AUTO REFRESH on the pins.  A line may be     *)
(* served as long as refresh_counter runs, and delays the refresh by its   *)
(* whole service if it is taken up last thing.                             *)
FromIdle == IF timer["refresh"] = 0 THEN Remaining ELSE timer["refresh"] + ServiceTime
ToRefresh ==
    CASE sdst = "AUTOREFRESH" -> timer["pall"] + 1
      [] sdst = "PRECHARGE_BEFORE_REFRESH" -> Wait["pall"] + 2
      [] sdst \in {"WAIT_REFRESH", "INIT_LOADMODE"} ->
            timer["aref"] + 1 + Wait["refresh"] + ServiceTime + Wait["pall"] + 3
      [] sdst = "INIT_AUTOREFRESH2" -> timer["aref"] + 1
      [] OTHER -> FromIdle + Wait["pall"] + 3

Longest == Wait["refresh"] + Wait["aref"] + Wait["pall"] + 4 + ServiceTime

(* Without resets the machine leaves its RESET state once.                 *)
RunInv ==
    /\ rst.up = FALSE /\ rst.left = 0
    /\ sdram_rst[1] => sdram_rst[2]
    /\ sdram_rst[2] => sdst = "RESET"

CountInv ==
    /\ timer \in [Timers -> Nat] /\ \A c \in Timers : timer[c] <= Wait[c]
    /\ bc \in 0 .. 2*LineWords
    /\ sdst = "WRITE" => bc = 0
    /\ sdst = "WRITEBURST" => bc >= 1
    /\ sdst = "READBURST" => bc < 2*LineWords

(* PRECHARGE ALL is given with cke low, and the chip skips the edge after  *)
(* it; AUTO REFRESH is not given in that cycle.                            *)
CkeInv ==
    /\ pins.cmd = "REF" => /\ chip.cke /\ timer["aref"] = Wait["aref"]
                           /\ sdst \in {"INIT_AUTOREFRESH2", "INIT_LOADMODE", "WAIT_REFRESH"}
    /\ ~pins.cke => /\ sdst \in {"INIT_AUTOREFRESH1", "AUTOREFRESH"}
                    /\ timer["pall"] = Wait["pall"]
    /\ pins.cke \in BOOLEAN

AgeInv ==
    /\ chip.age \in Nat
    /\ chip.age > 0 =>
         /\ sdst \notin {"RESET", "INIT_PRECHARGEALL", "INIT_AUTOREFRESH1"}
         /\ chip.age <= Longest
         /\ pins.cmd # "REF" => chip.age + ToRefresh <= Longest

RefreshInv == ControlType /\ RunInv /\ CountInv /\ CkeInv /\ AgeInv

LEMMA WaitTypes ==
    /\ Wait["init"] \in Nat /\ Wait["pall"] \in Nat /\ Wait["pre"] \in Nat
    /\ Wait["aref"] \in Nat /\ Wait["act"] \in Nat /\ Wait["refresh"] \in Nat
    /\ LineWords \in Nat /\ LineWords >= 1 /\ 2*LineWords \in Nat
  BY YadmcAssumption DEF Timers

(* Counters count down to zero, or are loaded.                             *)
LEMMA TimerStep ==
    ASSUME CountInv, SdClk, NEW c \in Timers
    PROVE  /\ timer[c] \in Nat /\ timer[c] <= Wait[c] /\ timer'[c] \in Nat
           /\ c \in SdOut.reload => timer'[c] = Wait[c]
           /\ c \notin SdOut.reload =>
                timer'[c] = IF timer[c] = 0 THEN 0 ELSE timer[c] - 1
           /\ timer'[c] <= Wait[c]
           /\ Done(c) <=> timer[c] = 0
<1>1. Wait[c] \in Nat /\ timer[c] \in Nat /\ timer[c] <= Wait[c]
  BY YadmcAssumption DEF CountInv
<1>2. timer'[c] = IF c \in SdOut.reload THEN Wait[c]
                  ELSE IF Done(c) THEN 0 ELSE timer[c] - 1
  BY DEF SdClk, SdRegisters
<1>3. QED
  BY <1>1, <1>2 DEF Done

LEMMA InitRefresh == MaxResets = 0 /\ Init => RefreshInv
<1> SUFFICES ASSUME MaxResets = 0, Init PROVE RefreshInv
  OBVIOUS
<1>1. ControlType
  BY InitControl
<1>2. RunInv
  BY DEF Init, RunInv
<1>3. timer \in [Timers -> Nat] /\ \A c \in Timers : timer[c] <= Wait[c]
  BY YadmcAssumption DEF Init
<1>4. CountInv
  BY <1>3, WaitTypes DEF Init, CountInv
<1>5. CkeInv /\ AgeInv
  BY DEF Init, CkeInv, AgeInv
<1>6. QED
  BY <1>1, <1>2, <1>4, <1>5 DEF RefreshInv

(* The burst counter below its end.                                        *)
LEMMA BurstLastAt ==
    ASSUME bc \in 0 .. 2*LineWords, bc < 2*LineWords
    PROVE  BurstLast <=> bc = 2*LineWords - 1
<1>1. 2*LineWords \in Nat /\ 2*LineWords >= 1
  BY WaitTypes
<1>2. bc % (2*LineWords) = bc
  BY <1>1
<1>3. QED
  BY <1>2 DEF BurstLast

(* An edge of sdram_clk, in the terms of the bound.                        *)
LEMMA SdEdge ==
    ASSUME SdClk
    PROVE  /\ sdst' = IF sdram_rst[2] THEN "RESET" ELSE SdOut.next
           /\ pins'.cmd = SdOut.cmd /\ pins'.cke = SdOut.cke
           /\ bc' = IF ~SdOut.burst THEN 0 ELSE IF BurstFinished THEN bc ELSE bc + 1
           /\ chip'.cke = pins.cke
           /\ chip'.age = IF chip.cke /\ pins.cmd = "REF" THEN 1
                          ELSE IF chip.age \in 1 .. RefreshLimit THEN chip.age + 1
                          ELSE chip.age
<1>1. SdRegisters(SdOut) /\ ChipEdge
  BY DEF SdClk
<1>2. ChipCmd = "REF" <=> chip.cke /\ pins.cmd = "REF"
  BY DEF ChipCmd
<1>3. /\ chip'.cke = pins.cke
      /\ chip'.age = IF ChipCmd = "REF" THEN 1
                     ELSE IF chip.age \in 1 .. RefreshLimit THEN chip.age + 1
                     ELSE chip.age
  BY <1>1 DEF ChipEdge
<1>4. QED
  BY <1>1, <1>2, <1>3 DEF SdRegisters, NextBc

(* While a line is served, every edge brings its end nearer.               *)
Nearer ==
    /\ sdst' \in WriteStates \cup ReadStates \cup {"IDLE"}
    /\ pins'.cmd # "REF" /\ pins'.cke = TRUE
    /\ bc' \in 0 .. 2*LineWords
    /\ sdst' = "WRITE" => bc' = 0
    /\ sdst' = "WRITEBURST" => bc' >= 1
    /\ sdst' = "READBURST" => bc' < 2*LineWords
    /\ Remaining \in Nat /\ Remaining' \in Nat
    /\ Remaining' + 1 <= Remaining /\ Remaining <= ServiceTime
    /\ "refresh" \notin SdOut.reload

LEMMA WriteNearer ==
    ASSUME RefreshInv, SdClk, sdst \in WriteStates
    PROVE  Nearer
<1>1. RunInv /\ CountInv
  BY DEF RefreshInv
<1>2. ~sdram_rst[2]
  BY <1>1 DEF RunInv, WriteStates
<1>3. /\ sdst' = SdOut.next
      /\ pins'.cmd = SdOut.cmd /\ pins'.cke = SdOut.cke
      /\ bc' = IF ~SdOut.burst THEN 0 ELSE IF BurstFinished THEN bc ELSE bc + 1
  BY <1>2, SdEdge
<1>4. /\ timer["pre"] \in Nat /\ timer["pre"] <= Wait["pre"] /\ timer'["pre"] \in Nat
      /\ timer["act"] \in Nat /\ timer["act"] <= Wait["act"] /\ timer'["act"] \in Nat
      /\ timer'["pre"] <= Wait["pre"] /\ timer'["act"] <= Wait["act"]
      /\ Done("pre") <=> timer["pre"] = 0
      /\ Done("act") <=> timer["act"] = 0
      /\ "pre" \notin SdOut.reload /\ timer["pre"] # 0 => timer'["pre"] = timer["pre"] - 1
      /\ "act" \notin SdOut.reload /\ timer["act"] # 0 => timer'["act"] = timer["act"] - 1
  BY <1>1, TimerStep DEF Timers
<1>5. bc \in 0 .. 2*LineWords
  BY <1>1 DEF CountInv
<1>6. CASE sdst = "PRECHARGE_BEFORE_WRITE"
  BY <1>3, <1>4, <1>6, WriteMoves, WaitTypes
     DEF Nearer, Moves, Remaining, ReadTime, ServiceTime, WriteStates
<1>7. CASE sdst = "ACTIVATE_BEFORE_WRITE"
  BY <1>3, <1>4, <1>7, WriteMoves, WaitTypes
     DEF Nearer, Moves, Stays, Remaining, ReadTime, ServiceTime, WriteStates
<1>8. CASE sdst = "WRITE"
  <2>1. bc = 0
    BY <1>1, <1>8 DEF CountInv
  <2>2. QED
    BY <1>3, <1>4, <1>8, <2>1, WriteMoves, WaitTypes
       DEF Nearer, Moves, Stays, Remaining, ReadTime, ServiceTime, WriteStates, BurstFinished
<1>9. CASE sdst = "WRITEBURST"
  <2>1. bc >= 1
    BY <1>1, <1>9 DEF CountInv
  <2>2. CASE BurstFinished
    BY <1>3, <1>5, <1>9, <2>1, <2>2, WriteMoves, WaitTypes
       DEF Nearer, Moves, Remaining, ReadTime, ServiceTime, ReadStates, BurstFinished
  <2>3. CASE ~BurstFinished
    BY <1>3, <1>5, <1>9, <2>1, <2>3, WriteMoves, WaitTypes
       DEF Nearer, Moves, Remaining, ReadTime, ServiceTime, WriteStates, BurstFinished
  <2>4. QED
    BY <2>2, <2>3
<1>10. QED
  BY <1>6, <1>7, <1>8, <1>9 DEF WriteStates

LEMMA ReadNearer ==
    ASSUME RefreshInv, SdClk, sdst \in ReadStates
    PROVE  Nearer
<1>1. RunInv /\ CountInv
  BY DEF RefreshInv
<1>2. ~sdram_rst[2]
  BY <1>1 DEF RunInv, ReadStates
<1>3. /\ sdst' = SdOut.next
      /\ pins'.cmd = SdOut.cmd /\ pins'.cke = SdOut.cke
      /\ bc' = IF ~SdOut.burst THEN 0 ELSE IF BurstFinished THEN bc ELSE bc + 1
  BY <1>2, SdEdge
<1>4. /\ timer["pre"] \in Nat /\ timer["pre"] <= Wait["pre"] /\ timer'["pre"] \in Nat
      /\ timer["act"] \in Nat /\ timer["act"] <= Wait["act"] /\ timer'["act"] \in Nat
      /\ timer'["pre"] <= Wait["pre"] /\ timer'["act"] <= Wait["act"]
      /\ Done("pre") <=> timer["pre"] = 0
      /\ Done("act") <=> timer["act"] = 0
      /\ "pre" \notin SdOut.reload /\ timer["pre"] # 0 => timer'["pre"] = timer["pre"] - 1
      /\ "act" \notin SdOut.reload /\ timer["act"] # 0 => timer'["act"] = timer["act"] - 1
  BY <1>1, TimerStep DEF Timers
<1>5. bc \in 0 .. 2*LineWords
  BY <1>1 DEF CountInv
<1>6. CASE sdst = "PRECHARGE_BEFORE_READ"
  BY <1>3, <1>4, <1>6, ReadMoves, WaitTypes
     DEF Nearer, Moves, Remaining, ReadTime, ServiceTime, ReadStates
<1>7. CASE sdst = "ACTIVATE_BEFORE_READ"
  BY <1>3, <1>4, <1>7, ReadMoves, WaitTypes
     DEF Nearer, Moves, Stays, Remaining, ReadTime, ServiceTime, ReadStates
<1>8. CASE sdst = "READ"
  BY <1>3, <1>4, <1>8, ReadMoves, WaitTypes
     DEF Nearer, Moves, Stays, Remaining, ReadTime, ServiceTime, ReadStates
<1>9. CASE sdst \in {"READREG1", "READREG2", "READREG3", "READFIRST"}
  BY <1>3, <1>9, ReadMoves, WaitTypes
     DEF Nearer, Moves, Remaining, ReadTime, ServiceTime, ReadStates
<1>10. CASE sdst = "READBURST"
  <2>1. bc < 2*LineWords
    BY <1>1, <1>10 DEF CountInv
  <2>2. /\ BurstLast <=> bc = 2*LineWords - 1
        /\ bc' = bc + 1
    BY <1>3, <1>5, <1>10, <2>1, BurstLastAt, ReadMoves, WaitTypes
       DEF BurstFinished, Moves
  <2>3. bc' \in Nat /\ bc' <= 2*LineWords /\ Remaining = 2*LineWords - bc
    BY <1>5, <1>10, <2>1, <2>2, WaitTypes DEF Remaining
  <2>4. CASE BurstLast
    <3>1. Moves("IDLE", "NOP", TRUE, {}, TRUE)
      BY <1>10, <2>4, ReadMoves
    <3>2. Remaining' = 0 /\ Remaining = 1
      BY <1>3, <2>2, <2>3, <2>4, <3>1, WaitTypes DEF Moves, Remaining
    <3>3. QED
      BY <1>3, <2>3, <3>1, <3>2, WaitTypes DEF Nearer, Moves, ServiceTime
  <2>5. CASE ~BurstLast
    <3>1. Moves("READBURST", "NOP", TRUE, {}, TRUE)
      BY <1>10, <2>5, ReadMoves
    <3>2. Remaining' = 2*LineWords - bc' /\ bc' < 2*LineWords
      BY <1>3, <1>5, <2>1, <2>2, <2>5, <3>1, WaitTypes DEF Moves, Remaining
    <3>3. Remaining \in Nat /\ Remaining' \in Nat /\ Remaining' + 1 <= Remaining
      BY <1>5, <2>2, <2>3, <3>2, WaitTypes
    <3>4. Remaining <= ServiceTime
      BY <1>5, <2>3, WaitTypes DEF ServiceTime
    <3>5. QED
      BY <1>3, <2>3, <3>1, <3>2, <3>3, <3>4, WaitTypes DEF Nearer, Moves, ReadStates
  <2>6. QED
    BY <2>4, <2>5
<1>11. QED
  BY <1>6, <1>7, <1>8, <1>9, <1>10 DEF ReadStates

(* The states before the first AUTO REFRESH of the power-up sequence.      *)
Starting == sdst \in {"RESET", "INIT_PRECHARGEALL", "INIT_AUTOREFRESH1"}

(* One edge nearer to the next refresh, or it is on the pins.              *)
LEMMA Counted ==
    ASSUME NEW a \in Nat, NEW b \in Nat, NEW w \in Nat, b + 1 <= a
    PROVE  /\ a + w + 3 \in Nat /\ a + w + 3 >= 1 /\ b + w + 3 \in Nat
           /\ b + w + 3 + 1 <= a + w + 3
  OBVIOUS

LEMMA Falls ==
    ASSUME NEW t \in Nat, NEW q \in Nat, NEW r \in Nat, NEW s \in Nat, q + 1 <= r, r <= s
    PROVE  (IF t = 0 THEN q ELSE t + s) + 1 <= t + 1 + s
  OBVIOUS

LEMMA Potential ==
    ASSUME RefreshInv, SdClk, ~Starting
    PROVE  /\ ToRefresh \in Nat /\ ToRefresh >= 1 /\ ToRefresh' \in Nat
           /\ pins'.cmd # "REF" => ToRefresh' + 1 <= ToRefresh
           /\ ~Starting'
<1>1. ControlType /\ RunInv /\ CountInv
  BY DEF RefreshInv
<1>2. ~sdram_rst[2]
  BY <1>1 DEF RunInv, Starting
<1>3. sdst' = SdOut.next /\ pins'.cmd = SdOut.cmd
  BY <1>2, SdEdge
<1>4. ASSUME NEW c \in Timers
      PROVE  /\ timer[c] \in Nat /\ timer[c] <= Wait[c] /\ timer'[c] \in Nat
             /\ c \in SdOut.reload => timer'[c] = Wait[c]
             /\ c \notin SdOut.reload =>
                  timer'[c] = IF timer[c] = 0 THEN 0 ELSE timer[c] - 1
             /\ Done(c) <=> timer[c] = 0
  BY <1>1, TimerStep
<1>5. ServiceTime \in Nat
  BY WaitTypes DEF ServiceTime
<1>6. CASE Serving
  <2>1. Nearer
    BY <1>6, WriteNearer, ReadNearer DEF Serving
  <2>2. /\ ToRefresh = FromIdle + Wait["pall"] + 3
        /\ ToRefresh' = FromIdle' + Wait["pall"] + 3 /\ ~Starting'
    BY <1>6, <2>1 DEF Serving, Nearer, ToRefresh, Starting, WriteStates, ReadStates
  <2>3. /\ timer["refresh"] \in Nat
        /\ timer'["refresh"] = IF timer["refresh"] = 0 THEN 0 ELSE timer["refresh"] - 1
    BY <1>4, <2>1 DEF Nearer, Timers
  <2>4. /\ Remaining \in Nat /\ Remaining' \in Nat
        /\ Remaining' + 1 <= Remaining /\ Remaining <= ServiceTime
    BY <2>1 DEF Nearer
  <2>5. FromIdle \in Nat /\ FromIdle' \in Nat /\ FromIdle' + 1 <= FromIdle
    <3>1. CASE timer["refresh"] = 0
      <4>1. timer'["refresh"] = 0
        BY <2>3, <3>1
      <4>2. FromIdle = Remaining /\ FromIdle' = Remaining'
        BY <3>1, <4>1 DEF FromIdle
      <4>3. QED
        BY <2>4, <4>2
    <3>2. CASE timer["refresh"] # 0
      <4>1. PICK t \in Nat : timer["refresh"] = t + 1 /\ timer'["refresh"] = t
        <5>1. timer["refresh"] - 1 \in Nat
          BY <2>3, <3>2
        <5>2. QED
          BY <2>3, <3>2, <5>1
      <4>2. PICK s \in Nat, r \in Nat, q \in Nat :
              s = ServiceTime /\ r = Remaining /\ q = Remaining'
        BY <1>5, <2>4
      <4>3. q + 1 <= r /\ r <= s
        BY <2>4, <4>2
      <4>4. FromIdle = t + 1 + s /\ FromIdle' = IF t = 0 THEN q ELSE t + s
        BY <4>1, <4>2 DEF FromIdle
      <4>5. (IF t = 0 THEN q ELSE t + s) \in Nat
        BY <4>2
      <4>6. (IF t = 0 THEN q ELSE t + s) + 1 <= t + 1 + s
        BY <4>2, <4>3, Falls
      <4>7. t + 1 + s \in Nat
        BY <4>2
      <4>8. QED
        BY <4>4, <4>5, <4>6, <4>7, Zenon
    <3>3. QED
      BY <3>1, <3>2
  <2>6. Wait["pall"] \in Nat
    BY WaitTypes
  <2>7. QED
    BY <2>2, <2>5, <2>6, Counted
<1>7. CASE sdst = "IDLE"
  <2>1. Remaining = 0 /\ ToRefresh = FromIdle + Wait["pall"] + 3
    BY <1>7 DEF Remaining, ToRefresh
  <2>2. /\ timer["refresh"] \in Nat /\ timer'["refresh"] \in Nat
        /\ Done("refresh") <=> timer["refresh"] = 0
        /\ "refresh" \notin SdOut.reload /\ timer["refresh"] # 0 =>
             timer'["refresh"] = timer["refresh"] - 1
    BY <1>4 DEF Timers
  <2>3. CASE timer["refresh"] = 0
    <3>1. sdst' = "PRECHARGE_BEFORE_REFRESH"
      BY <1>3, <1>7, <2>2, <2>3, IdleMoves DEF Moves
    <3>2. ToRefresh' = Wait["pall"] + 2
      BY <3>1 DEF ToRefresh
    <3>3. QED
      BY <2>1, <2>3, <3>1, <3>2, WaitTypes DEF FromIdle, Starting
  <2>4. CASE timer["refresh"] # 0
    <3>1. /\ sdst' \in {"IDLE", "PRECHARGE_BEFORE_WRITE", "PRECHARGE_BEFORE_READ"}
          /\ "refresh" \notin SdOut.reload
      BY <1>3, <1>7, <2>2, <2>4, IdleMoves DEF Moves, Stays
    <3>2. Remaining' \in Nat /\ Remaining' <= ServiceTime
      BY <1>5, <3>1, WaitTypes DEF Remaining, ServiceTime, ReadTime
    <3>3. ToRefresh' = FromIdle' + Wait["pall"] + 3
      BY <3>1 DEF ToRefresh
    <3>4. FromIdle \in Nat /\ FromIdle' \in Nat /\ FromIdle' + 1 <= FromIdle
      BY <1>5, <2>2, <2>4, <3>1, <3>2 DEF FromIdle
    <3>5. Wait["pall"] \in Nat /\ ~Starting'
      BY <3>1, WaitTypes DEF Starting
    <3>6. QED
      BY <2>1, <3>3, <3>4, <3>5, Counted
  <2>5. QED
    BY <2>3, <2>4
<1>8. CASE sdst \in {"PRECHARGE_BEFORE_REFRESH", "AUTOREFRESH"}
  <2>1. /\ timer["pall"] \in Nat /\ timer'["pall"] \in Nat /\ timer["aref"] \in Nat
        /\ timer'["aref"] \in Nat
        /\ Done("pall") <=> timer["pall"] = 0
        /\ "pall" \in SdOut.reload => timer'["pall"] = Wait["pall"]
        /\ "pall" \notin SdOut.reload /\ timer["pall"] # 0 =>
             timer'["pall"] = timer["pall"] - 1
    BY <1>4 DEF Timers
  <2>2. QED
    BY <1>3, <1>5, <1>8, <2>1, RefreshMoves, WaitTypes DEF Moves, Stays, ToRefresh, Starting
<1>9. CASE sdst \in {"WAIT_REFRESH", "INIT_LOADMODE", "INIT_AUTOREFRESH2"}
  <2>1. /\ timer["aref"] \in Nat /\ timer'["aref"] \in Nat /\ timer'["refresh"] \in Nat
        /\ Done("aref") <=> timer["aref"] = 0
        /\ "refresh" \in SdOut.reload => timer'["refresh"] = Wait["refresh"]
        /\ "aref" \notin SdOut.reload /\ timer["aref"] # 0 =>
             timer'["aref"] = timer["aref"] - 1
    BY <1>4 DEF Timers
  <2>2. CASE timer["aref"] # 0
    <3>1. Stays
      BY <1>9, <2>1, <2>2, RefreshMoves, InitMoves
    <3>2. QED
      BY <1>3, <1>5, <1>9, <2>1, <2>2, <3>1, WaitTypes DEF Moves, Stays, ToRefresh, Starting
  <2>3. CASE timer["aref"] = 0 /\ sdst = "INIT_AUTOREFRESH2"
    <3>1. sdst' = "INIT_LOADMODE" /\ pins'.cmd = "REF"
      BY <1>3, <2>1, <2>3, InitMoves DEF Moves
    <3>2. QED
      BY <1>5, <2>1, <2>3, <3>1, WaitTypes DEF ToRefresh, Starting
  <2>4. CASE timer["aref"] = 0 /\ sdst # "INIT_AUTOREFRESH2"
    <3>1. sdst' = "IDLE" /\ timer'["refresh"] = Wait["refresh"]
      BY <1>3, <1>9, <2>1, <2>4, RefreshMoves, InitMoves DEF Moves
    <3>2. Remaining' = 0 /\ ToRefresh' = FromIdle' + Wait["pall"] + 3
      BY <3>1 DEF Remaining, ToRefresh
    <3>3. FromIdle' \in Nat /\ FromIdle' <= Wait["refresh"] + ServiceTime
      BY <1>5, <3>1, <3>2, WaitTypes DEF FromIdle
    <3>4. ToRefresh = 1 + Wait["refresh"] + ServiceTime + Wait["pall"] + 3
      BY <1>5, <1>9, <2>4, WaitTypes DEF ToRefresh
    <3>5. QED
      BY <1>5, <3>1, <3>2, <3>3, <3>4, WaitTypes DEF Starting
  <2>5. QED
    BY <2>2, <2>3, <2>4
<1>10. QED
  BY <1>1, <1>6, <1>7, <1>8, <1>9 DEF ControlType, SdStates, InitStates, RefreshStates,
     Starting, Serving

(* AUTO REFRESH and PRECHARGE ALL are given in few states; the burst       *)
(* counter rests unless a line is served.                                  *)
LEMMA Commands ==
    ASSUME ControlType
    PROVE  /\ SdOut.cke \in BOOLEAN
           /\ SdOut.cmd = "REF" =>
                /\ sdst = "INIT_AUTOREFRESH2"
                   \/ (sdst \in {"INIT_AUTOREFRESH1", "AUTOREFRESH"} /\ Done("pall"))
                /\ SdOut.next \in {"INIT_AUTOREFRESH2", "INIT_LOADMODE", "WAIT_REFRESH"}
                /\ "aref" \in SdOut.reload
           /\ ~SdOut.cke =>
                /\ sdst # "RESET" /\ SdOut.next \in {"INIT_AUTOREFRESH1", "AUTOREFRESH"}
                /\ "pall" \in SdOut.reload
           /\ ~Serving =>
                /\ SdOut.burst = FALSE
                /\ SdOut.next \notin {"WRITE", "WRITEBURST", "READBURST"}
<1>1. CASE sdst \in InitStates
  BY <1>1, InitMoves DEF Moves, Stays, InitStates
<1>2. CASE sdst = "IDLE"
  BY <1>2, IdleMoves DEF Moves, Stays
<1>3. CASE sdst \in RefreshStates
  BY <1>3, RefreshMoves DEF Moves, Stays, RefreshStates
<1>4. CASE sdst \in WriteStates
  BY <1>4, WriteMoves DEF Moves, Stays, WriteStates, Serving
<1>5. CASE sdst \in ReadStates
  BY <1>5, ReadMoves DEF Moves, Stays, ReadStates, Serving
<1>6. QED
  BY <1>1, <1>2, <1>3, <1>4, <1>5 DEF ControlType, SdStates

LEMMA Shrinks ==
    ASSUME NEW a \in Nat, NEW b \in Nat, NEW t \in Nat, NEW u \in Nat, NEW l \in Nat,
           u + 1 <= t, (b = 1 /\ t <= l) \/ (b <= a + 1 /\ a + t <= l)
    PROVE  b + u <= l
  OBVIOUS

LEMMA SdRefresh ==
    ASSUME Wait["pall"] >= 1, RefreshInv, SdClk
    PROVE  RunInv' /\ CountInv' /\ CkeInv' /\ AgeInv'
<1>1. ControlType /\ RunInv /\ CountInv /\ CkeInv /\ AgeInv
  BY DEF RefreshInv
<1>2. /\ sdst' = IF sdram_rst[2] THEN "RESET" ELSE SdOut.next
      /\ pins'.cmd = SdOut.cmd /\ pins'.cke = SdOut.cke
      /\ bc' = IF ~SdOut.burst THEN 0 ELSE IF BurstFinished THEN bc ELSE bc + 1
      /\ chip'.cke = pins.cke
  BY SdEdge
<1>3. RunInv'
  <2>1. sdram_rst' = <<rst.up, sdram_rst[1]>>
    BY DEF SdClk, SdRegisters
  <2>2. rst'.up = rst.up /\ rst'.left = rst.left
    BY <1>1 DEF SdClk, ControlType
  <2>3. sdram_rst'[1] = FALSE /\ sdram_rst'[2] = sdram_rst[1]
    BY <1>1, <2>1 DEF RunInv
  <2>4. QED
    BY <1>1, <1>2, <2>2, <2>3 DEF RunInv
<1>4. CountInv'
  <2>1. timer' \in [Timers -> Nat] /\ \A c \in Timers : timer'[c] <= Wait[c]
    <3>1. timer' = [c \in Timers |-> timer'[c]]
      BY DEF SdClk, SdRegisters
    <3>2. QED
      BY <1>1, <3>1, TimerStep
  <2>2. CASE Serving
    <3>1. Nearer
      BY <2>2, WriteNearer, ReadNearer DEF Serving
    <3>2. QED
      BY <2>1, <3>1 DEF Nearer, CountInv
  <2>3. CASE ~Serving
    <3>1. bc' = 0 /\ sdst' \notin {"WRITE", "WRITEBURST", "READBURST"}
      BY <1>1, <1>2, <2>3, Commands
    <3>2. QED
      BY <2>1, <3>1, WaitTypes DEF CountInv
  <2>4. QED
    BY <2>2, <2>3
<1>5. CkeInv'
  <2>1. pins'.cke \in BOOLEAN
    BY <1>1, <1>2, Commands
  <2>2. ASSUME pins'.cmd = "REF"
        PROVE  /\ chip'.cke /\ timer'["aref"] = Wait["aref"]
               /\ sdst' \in {"INIT_AUTOREFRESH2", "INIT_LOADMODE", "WAIT_REFRESH"}
    <3>1. /\ sdst = "INIT_AUTOREFRESH2"
             \/ (sdst \in {"INIT_AUTOREFRESH1", "AUTOREFRESH"} /\ Done("pall"))
          /\ SdOut.next \in {"INIT_AUTOREFRESH2", "INIT_LOADMODE", "WAIT_REFRESH"}
          /\ "aref" \in SdOut.reload
      BY <1>1, <1>2, <2>2, Commands
    <3>2. sdst' = SdOut.next
      BY <1>1, <1>2, <3>1 DEF RunInv
    <3>3. timer'["aref"] = Wait["aref"]
      BY <1>1, <3>1, TimerStep DEF Timers
    <3>4. pins.cke
      BY <1>1, <3>1, WaitTypes DEF CkeInv, Done
    <3>5. QED
      BY <1>2, <3>1, <3>2, <3>3, <3>4
  <2>3. ASSUME ~pins'.cke
        PROVE  /\ sdst' \in {"INIT_AUTOREFRESH1", "AUTOREFRESH"}
               /\ timer'["pall"] = Wait["pall"]
    <3>1. /\ sdst # "RESET" /\ SdOut.next \in {"INIT_AUTOREFRESH1", "AUTOREFRESH"}
          /\ "pall" \in SdOut.reload
      BY <1>1, <1>2, <2>3, Commands
    <3>2. timer'["pall"] = Wait["pall"]
      BY <1>1, <3>1, TimerStep DEF Timers
    <3>3. QED
      BY <1>1, <1>2, <3>1, <3>2 DEF RunInv
  <2>4. QED
    BY <2>1, <2>2, <2>3 DEF CkeInv
<1>6. AgeInv'
  <2>1. chip'.age = IF chip.cke /\ pins.cmd = "REF" THEN 1
                    ELSE IF chip.age \in 1 .. RefreshLimit THEN chip.age + 1
                    ELSE chip.age
    BY SdEdge
  <2>2. chip.age \in Nat /\ chip'.age \in Nat /\ Longest \in Nat /\ Longest >= 1
    BY <1>1, <2>1, WaitTypes DEF AgeInv, Longest, ServiceTime
  <2>3. CASE pins.cmd = "REF"
    <3>1. chip'.age = 1
      BY <1>1, <2>1, <2>3 DEF CkeInv
    <3>2. ~Starting /\ ToRefresh <= Longest
      <4>1. /\ timer["aref"] = Wait["aref"]
            /\ sdst \in {"INIT_AUTOREFRESH2", "INIT_LOADMODE", "WAIT_REFRESH"}
        BY <1>1, <2>3 DEF CkeInv
      <4>2. QED
        BY <4>1, WaitTypes DEF ToRefresh, Longest, ServiceTime, Starting
    <3>3. /\ ToRefresh \in Nat /\ ToRefresh' \in Nat /\ ~Starting'
          /\ pins'.cmd # "REF" => ToRefresh' + 1 <= ToRefresh
      BY <3>2, Potential
    <3>4. pins'.cmd # "REF" => chip'.age + ToRefresh' <= Longest
      BY <2>2, <3>1, <3>2, <3>3, Shrinks
    <3>5. QED
      BY <2>2, <3>1, <3>3, <3>4 DEF AgeInv, Starting
  <2>4. CASE pins.cmd # "REF" /\ chip.age > 0
    <3>1. ~Starting /\ chip.age + ToRefresh <= Longest /\ chip'.age <= chip.age + 1
      BY <1>1, <2>1, <2>2, <2>4 DEF AgeInv, Starting
    <3>2. /\ ToRefresh \in Nat /\ ToRefresh >= 1 /\ ToRefresh' \in Nat /\ ~Starting'
          /\ pins'.cmd # "REF" => ToRefresh' + 1 <= ToRefresh
      BY <3>1, Potential
    <3>3. chip'.age <= Longest
      BY <2>2, <3>1, <3>2
    <3>4. pins'.cmd # "REF" => chip'.age + ToRefresh' <= Longest
      BY <2>2, <3>1, <3>2, Shrinks
    <3>5. QED
      BY <2>2, <3>2, <3>3, <3>4 DEF AgeInv, Starting
  <2>5. CASE pins.cmd # "REF" /\ ~(chip.age > 0)
    BY <2>1, <2>2, <2>5 DEF AgeInv
  <2>6. QED
    BY <2>3, <2>4, <2>5
<1>7. QED
  BY <1>3, <1>4, <1>5, <1>6

LEMMA StepRefresh ==
    ASSUME Wait["pall"] >= 1, RefreshInv, Next
    PROVE  RefreshInv'
<1>1. ControlType /\ RunInv /\ CountInv /\ CkeInv /\ AgeInv
  BY DEF RefreshInv
<1>2. ControlType'
  BY <1>1, StepControl
<1>3. CASE SdClk
  BY <1>2, <1>3, SdRefresh DEF RefreshInv
<1>4. CASE ~SdClk
  <2>1. ~Reset /\ ~Release
    BY <1>1 DEF RunInv, Reset, Release
  <2>2. UNCHANGED sdvars /\ rst'.up = rst.up /\ rst'.left = rst.left
    BY <1>1, <1>4, <2>1 DEF Next, SysClk, Ask, ControlType
  <2>3. UNCHANGED <<sdram_rst, sdst, timer, bc, pins, chip>>
    BY <2>2 DEF sdvars
  <2>4. RunInv' /\ CountInv' /\ CkeInv'
    BY <1>1, <2>2, <2>3 DEF RunInv, CountInv, CkeInv
  <2>5. AgeInv'
    BY <1>1, <2>3 DEF AgeInv, ToRefresh, FromIdle, Remaining
  <2>6. QED
    BY <1>2, <2>4, <2>5 DEF RefreshInv
<1>5. QED
  BY <1>3, <1>4

(* Refresh is never put off for longer than the refresh count, the refresh *)
(* sequence and one eviction with its refill, for any traffic, any wait    *)
(* counts with which AUTO REFRESH is not given in the cycle that the chip  *)
(* skips after PRECHARGE ALL, and any two clocks.  A reset would start the *)
(* count again, and is excluded.                                           *)
THEOREM RefreshInTime ==
    ASSUME MaxResets = 0, Wait["pall"] >= 1
    PROVE  Spec => []RefreshBounded
<1>1. Init => RefreshInv
  BY InitRefresh
<1>2. RefreshInv /\ [Next]_vars => RefreshInv'
  <2>1. ASSUME RefreshInv, UNCHANGED vars
        PROVE  RefreshInv'
    BY <2>1 DEF RefreshInv, ControlType, RunInv, CountInv, CkeInv, AgeInv, ToRefresh,
                FromIdle, Remaining, vars, sysvars, sdvars
  <2>2. QED
    BY <2>1, StepRefresh
<1>3. RefreshInv => RefreshBounded
  <2> SUFFICES ASSUME RefreshInv PROVE RefreshBounded
    OBVIOUS
  <2>1. chip.age \in Nat /\ Longest \in Nat
    BY WaitTypes DEF RefreshInv, AgeInv, Longest, ServiceTime
  <2>2. CASE chip.age = 0
    BY <2>1, <2>2 DEF RefreshBounded, Longest
  <2>3. CASE chip.age # 0
    BY <2>1, <2>3 DEF RefreshInv, AgeInv, RefreshBounded, Longest
  <2>4. QED
    BY <2>2, <2>3
<1>4. QED
  BY <1>1, <1>2, <1>3, PTL DEF Spec

-----------------------------------------------------------------------------
(* Geometry.  Every line has a place in the chip, and no two lines share   *)
(* one.                                                                    *)
Place(a) == <<BankOf(a), RowOf(a), ColOf(a)>>
Places == Bank \X Row \X Col

(* Division with remainder.                                                *)
LEMMA DivMod ==
    ASSUME NEW n \in Nat, NEW d \in Nat \ {0}
    PROVE  /\ n \div d \in Nat /\ n % d \in 0 .. d-1
           /\ n = d * (n \div d) + (n % d)
  OBVIOUS

(* Multiples of d lie d apart.                                             *)
LEMMA MulMono ==
    ASSUME NEW d \in Nat, NEW p \in Nat, NEW q \in Nat, p < q
    PROVE  d*p + d <= d*q
<1>1. PICK k \in Nat : q = p + 1 + k
  <2>1. q - p - 1 \in Nat /\ q = p + 1 + (q - p - 1)
    OBVIOUS
  <2>2. QED
    BY <2>1
<1>2. d*q = d*p + d + d*k /\ d*k \in Nat /\ d*p \in Nat
  BY <1>1
<1>3. QED
  BY <1>2

(* Quotient and remainder are unique.                                      *)
LEMMA DivUnique ==
    ASSUME NEW d \in Nat \ {0}, NEW q \in Nat, NEW p \in Nat,
           NEW r \in 0 .. d-1, NEW s \in 0 .. d-1, d*q + r = d*p + s
    PROVE  q = p /\ r = s
<1>1. d*q \in Nat /\ d*p \in Nat
  OBVIOUS
<1>2. ~(q < p)
  BY <1>1, MulMono
<1>3. ~(p < q)
  BY <1>1, MulMono
<1>4. q = p
  BY <1>2, <1>3
<1>5. QED
  BY <1>1, <1>4

(* Division is monotone.                                                   *)
LEMMA DivMono ==
    ASSUME NEW n \in Nat, NEW m \in Nat, NEW d \in Nat \ {0}, n <= m
    PROVE  n \div d <= m \div d
<1> DEFINE p == n \div d
           q == m \div d
<1>1. p \in Nat /\ q \in Nat /\ d*p \in Nat /\ d*q \in Nat
  BY DivMod
<1>2. n >= d*p /\ m < d*q + d
  BY DivMod
<1> HIDE DEF p, q
<1>3. q < p => d*q + d <= d*p
  BY <1>1, MulMono
<1>4. p <= q
  BY <1>1, <1>2, <1>3
<1>5. QED
  BY <1>4 DEF p, q

(* The sizes, and address 0.                                               *)
LEMMA GeometryTypes ==
    /\ NTags \in Nat \ {0} /\ NIdx \in Nat \ {0} /\ Banks \in Nat \ {0} /\ Cols \in Nat \ {0}
    /\ NTags*NIdx - 1 \in Nat /\ Banks*Cols \in Nat \ {0}
    /\ 0 \in Tag /\ 0 \in Idx /\ 0 \in Bank /\ 0 \in Col /\ 0 \in Row
<1>1. /\ NTags \in Nat \ {0} /\ NIdx \in Nat \ {0} /\ Banks \in Nat \ {0} /\ Cols \in Nat \ {0}
  BY YadmcAssumption
<1>2. \A x, y \in Nat \ {0} : x*y \in Nat \ {0}
  <2> SUFFICES ASSUME NEW x \in Nat \ {0}, NEW y \in Nat \ {0} PROVE x*y \in Nat \ {0}
    OBVIOUS
  <2>1. x*0 + x <= x*y
    BY MulMono
  <2>2. x*y \in Nat /\ x*0 = 0
    OBVIOUS
  <2>3. QED
    BY <2>1, <2>2
<1>3. NTags*NIdx \in Nat \ {0} /\ Banks*Cols \in Nat \ {0}
  BY <1>1, <1>2
<1>4. NTags*NIdx - 1 \in Nat
  BY <1>3
<1>5. (NTags*NIdx - 1) \div (Banks*Cols) \in Nat
  BY <1>3, <1>4, DivMod
<1>6. QED
  BY <1>1, <1>3, <1>4, <1>5 DEF Tag, Idx, Bank, Col, Row

(* The lines of the memory are numbered from 0 to NTags*NIdx - 1.          *)
LEMMA NumberType ==
    ASSUME NEW a, a.tag \in Tag, a.idx \in Idx
    PROVE  Number(a) \in Nat /\ Number(a) <= NTags*NIdx - 1
<1> DEFINE t == a.tag
           i == a.idx
<1>1. t \in Nat /\ i \in Nat /\ t < NTags /\ i < NIdx /\ NTags \in Nat /\ NIdx \in Nat
  BY GeometryTypes DEF Tag, Idx
<1> HIDE DEF t, i
<1>2. NIdx*t + NIdx <= NIdx*NTags
  BY <1>1, MulMono
<1>3. t*NIdx = NIdx*t /\ NTags*NIdx = NIdx*NTags /\ NIdx*t \in Nat /\ NIdx*NTags \in Nat
  BY <1>1
<1>4. t*NIdx + i \in Nat /\ t*NIdx + i <= NTags*NIdx - 1
  BY <1>1, <1>2, <1>3
<1>5. QED
  BY <1>4 DEF Number, t, i

(* The bank, row and column of a line are those of the chip.               *)
LEMMA PlaceType ==
    ASSUME NEW a, a.tag \in Tag, a.idx \in Idx
    PROVE  /\ BankOf(a) \in Bank /\ RowOf(a) \in Row /\ ColOf(a) \in Col
           /\ Place(a) \in Places
<1>1. Number(a) \in Nat /\ Number(a) <= NTags*NIdx - 1
  BY NumberType
<1>2. BankOf(a) \in Bank
  BY <1>1, GeometryTypes, DivMod DEF BankOf, Bank
<1>3. ColOf(a) \in Col
  <2>1. Number(a) \div Banks \in Nat
    BY <1>1, GeometryTypes, DivMod
  <2>2. QED
    BY <2>1, GeometryTypes, DivMod DEF ColOf, Col
<1>4. RowOf(a) \in Row
  <2>1. /\ Number(a) \div (Banks*Cols) \in Nat
        /\ (NTags*NIdx - 1) \div (Banks*Cols) \in Nat
        /\ Number(a) \div (Banks*Cols) <= (NTags*NIdx - 1) \div (Banks*Cols)
    BY <1>1, GeometryTypes, DivMod, DivMono
  <2>2. QED
    BY <2>1 DEF RowOf, Row
<1>5. QED
  BY <1>2, <1>3, <1>4 DEF Place, Places

(* Bank, column and row are the digits of a line's number.                 *)
LEMMA DivDiv ==
    ASSUME NEW n \in Nat, NEW b \in Nat \ {0}, NEW c \in Nat \ {0}, b*c \in Nat \ {0}
    PROVE  n = b*(c*(n \div (b*c)) + ((n \div b) % c)) + (n % b)
<1> DEFINE q == n \div b
           r == n % b
<1>1. q \in Nat /\ r \in 0 .. b-1 /\ n = b*q + r
  BY DivMod
<1> HIDE DEF q, r
<1> DEFINE u == q \div c
           v == q % c
<1>2. u \in Nat /\ v \in 0 .. c-1 /\ q = c*u + v
  BY <1>1, DivMod
<1> HIDE DEF u, v
<1>3. n = (b*c)*u + (b*v + r)
  BY <1>1, <1>2
<1>4. b*v + r \in 0 .. (b*c) - 1
  <2>1. b*v + b <= b*c
    BY <1>2, MulMono
  <2>2. b*v \in Nat
    BY <1>2
  <2>3. QED
    BY <1>1, <2>1, <2>2
<1>5. /\ n \div (b*c) \in Nat /\ n % (b*c) \in 0 .. (b*c) - 1
      /\ n = (b*c)*(n \div (b*c)) + (n % (b*c))
  BY DivMod
<1>6. n \div (b*c) = u
  <2> DEFINE d == b*c
             p == n \div d
             s == n % d
             z == b*v + r
  <2>1. d \in Nat \ {0} /\ p \in Nat /\ s \in 0 .. d-1 /\ u \in Nat /\ z \in 0 .. d-1
        /\ d*p + s = d*u + z
    BY <1>2, <1>3, <1>4, <1>5
  <2> HIDE DEF d, p, s, z
  <2>2. p = u
    BY <2>1, DivUnique
  <2>3. QED
    BY <2>2 DEF p, d
<1>7. QED
  BY <1>1, <1>2, <1>6 DEF q, r, v

(* No two lines share a place in the chip.                                 *)
LEMMA PlaceInjective ==
    ASSUME NEW a, a.tag \in Tag, a.idx \in Idx, NEW b, b.tag \in Tag, b.idx \in Idx,
           Place(a) = Place(b)
    PROVE  a.tag = b.tag /\ a.idx = b.idx
<1>1. BankOf(a) = BankOf(b) /\ RowOf(a) = RowOf(b) /\ ColOf(a) = ColOf(b)
  BY DEF Place
<1>2. Number(a) \in Nat /\ Number(b) \in Nat
  BY NumberType
<1>3. /\ Number(a) = Banks*(Cols*RowOf(a) + ColOf(a)) + BankOf(a)
      /\ Number(b) = Banks*(Cols*RowOf(b) + ColOf(b)) + BankOf(b)
  BY <1>2, GeometryTypes, DivDiv DEF RowOf, ColOf, BankOf
<1>4. Number(a) = Number(b)
  BY <1>1, <1>3
<1> DEFINE s == a.tag
           i == a.idx
           t == b.tag
           j == b.idx
<1>5. /\ s \in Nat /\ t \in Nat /\ i \in 0 .. NIdx-1 /\ j \in 0 .. NIdx-1
      /\ NIdx \in Nat \ {0} /\ s*NIdx + i = t*NIdx + j
  BY <1>4, GeometryTypes DEF Tag, Idx, Number
<1> HIDE DEF s, i, t, j
<1>6. NIdx*s + i = NIdx*t + j
  BY <1>5
<1>7. s = t /\ i = j
  BY <1>5, <1>6, DivUnique
<1>8. QED
  BY <1>7 DEF s, i, t, j

-----------------------------------------------------------------------------
(* Beat j of a line is half of its word j \div 2.                          *)
Lane(j) == IF j % 2 = 1 THEN "lo" ELSE "hi"
BeatOf(w, l) == 2*w + IF l = "hi" THEN 0 ELSE 1
LineIdx == 0 .. LineWords-1

(* A beat is a lane of a word ...                                          *)
LEMMA BeatWord ==
    ASSUME NEW j \in Beats
    PROVE  j \div 2 \in LineIdx /\ Lane(j) \in Lanes /\ BeatOf(j \div 2, Lane(j)) = j
<1>1. j \in Nat /\ j <= 2*LineWords - 1 /\ LineWords \in Nat
  BY WaitTypes DEF Beats
<1>2. QED
  BY <1>1 DEF LineIdx, Lane, Lanes, BeatOf

(* ... and a lane of a word is a beat.                                     *)
LEMMA WordBeat ==
    ASSUME NEW w \in LineIdx, NEW l \in Lanes
    PROVE  BeatOf(w, l) \in Beats /\ BeatOf(w, l) \div 2 = w /\ Lane(BeatOf(w, l)) = l
<1>1. w \in Nat /\ w <= LineWords - 1 /\ LineWords \in Nat
  BY WaitTypes DEF LineIdx
<1>2. QED
  BY <1>1 DEF Beats, Lane, Lanes, BeatOf

-----------------------------------------------------------------------------
(* The commands and what they carry.                                       *)
PinCommands == {"NOP", "PRE", "PREALL", "ACT", "REF", "LMR", "RD", "WR"}
Activating == sdst \in {"ACTIVATE_BEFORE_WRITE", "ACTIVATE_BEFORE_READ"}

(* In which states, and on which conditions, a command is given.           *)
LEMMA OutCommand ==
    ASSUME sdst \in SdStates
    PROVE  /\ SdOut.cmd \in PinCommands
           /\ SdOut.open = (SdOut.cmd = "ACT") /\ SdOut.closeall = (SdOut.cmd = "PREALL")
           /\ SdOut.cmd = "PRE" => sdst \in {"PRECHARGE_BEFORE_WRITE", "PRECHARGE_BEFORE_READ"}
           /\ SdOut.cmd = "PREALL" =>
                sdst \in {"INIT_PRECHARGEALL", "PRECHARGE_BEFORE_REFRESH"}
           /\ SdOut.cmd = "ACT" => Activating /\ Done("pre")
           /\ SdOut.cmd = "RD" => sdst = "READ" /\ Done("act")
           /\ SdOut.cmd = "WR" => sdst = "WRITE" /\ Done("act")
           /\ ~SdOut.cke => SdOut.cmd = "PREALL"
           /\ SdOut.cke \in BOOLEAN
<1>1. CASE sdst \in InitStates
  BY <1>1, ZenonT(60) DEF SdOut, InitOut, Go, Issue, PrechargeAll, AutoRefresh, Quiet,
              InitStates, RefreshStates, WriteStates, ReadStates, PinCommands
<1>2. CASE sdst = "IDLE"
  BY <1>2 DEF SdOut, IdleOut, Go, Quiet, InitStates, RefreshStates,
              WriteStates, ReadStates, PinCommands
<1>3. CASE sdst \in RefreshStates
  BY <1>3, ZenonT(60) DEF SdOut, RefreshOut, Go, Issue, PrechargeAll, AutoRefresh, Quiet,
              InitStates, RefreshStates, WriteStates, ReadStates, PinCommands
<1>4. CASE sdst \in WriteStates
  BY <1>4, ZenonT(60) DEF SdOut, WriteOut, Go, Issue, Precharge, Activate, Quiet, Activating,
              InitStates, RefreshStates, WriteStates, ReadStates, PinCommands
<1>5. CASE sdst \in ReadStates
  BY <1>5, ZenonT(60) DEF SdOut, ReadOut, Go, Issue, Precharge, Activate, Quiet, Activating,
              InitStates, RefreshStates, WriteStates, ReadStates, PinCommands
<1>6. QED
  BY <1>1, <1>2, <1>3, <1>4, <1>5 DEF SdStates

(* An eviction addresses the bank, row and column of evict_adr ...         *)
LEMMA OutWrite ==
    /\ sdst = "PRECHARGE_BEFORE_WRITE" =>
         IF rowswitch["evict"]
         THEN /\ SdOut.next = "ACTIVATE_BEFORE_WRITE" /\ SdOut.cmd = "PRE"
              /\ SdOut.ba = BankOf(evict_adr) /\ SdOut.track = "evict"
         ELSE SdOut.next = "WRITE" /\ SdOut.cmd = "NOP" /\ SdOut.track = "evict"
    /\ sdst = "ACTIVATE_BEFORE_WRITE" /\ Done("pre") =>
         /\ SdOut.next = "WRITE" /\ SdOut.cmd = "ACT"
         /\ SdOut.ba = BankOf(evict_adr) /\ SdOut.a = RowOf(evict_adr)
    /\ sdst = "WRITE" /\ Done("act") =>
         /\ SdOut.next = "WRITEBURST" /\ SdOut.cmd = "WR"
         /\ SdOut.ba = BankOf(evict_adr) /\ SdOut.a = ColOf(evict_adr)
  BY DEF SdOut, WriteOut, Go, Issue, Precharge, Activate, Quiet,
         InitStates, RefreshStates, WriteStates, ReadStates

(* ... and a refill those of refill_adr.                                   *)
LEMMA OutRead ==
    /\ sdst = "PRECHARGE_BEFORE_READ" =>
         IF rowswitch["refill"]
         THEN /\ SdOut.next = "ACTIVATE_BEFORE_READ" /\ SdOut.cmd = "PRE"
              /\ SdOut.ba = BankOf(refill_adr) /\ SdOut.track = "refill"
         ELSE SdOut.next = "READ" /\ SdOut.cmd = "NOP" /\ SdOut.track = "refill"
    /\ sdst = "ACTIVATE_BEFORE_READ" /\ Done("pre") =>
         /\ SdOut.next = "READ" /\ SdOut.cmd = "ACT"
         /\ SdOut.ba = BankOf(refill_adr) /\ SdOut.a = RowOf(refill_adr)
    /\ sdst = "READ" /\ Done("act") =>
         /\ SdOut.next = "READREG1" /\ SdOut.cmd = "RD"
         /\ SdOut.ba = BankOf(refill_adr) /\ SdOut.a = ColOf(refill_adr)
  BY DEF SdOut, ReadOut, Go, Issue, Precharge, Activate, Quiet,
         InitStates, RefreshStates, WriteStates, ReadStates

(* The data side: mask, drivers, lanes written in the cache.               *)
LEMMA OutLanes ==
    ASSUME sdst \in SdStates
    PROVE  /\ SdOut.dqm \in BOOLEAN
           /\ SdOut.drive = ((sdst = "WRITE" /\ Done("act"))
                             \/ (sdst = "WRITEBURST" /\ ~BurstFinished))
           /\ SdOut.drive => ~SdOut.dqm
           /\ sdst \in {"RESET", "INIT_PRECHARGEALL"} /\ SdOut.cmd # "PREALL" => SdOut.dqm
           /\ SdOut.we = CASE sdst = "READFIRST" -> {"hi"}
                           [] sdst = "READBURST" /\ ~BurstLast ->
                                IF bc % 2 = 1 THEN {"hi"} ELSE {"lo"}
                           [] OTHER -> {}
           /\ SdOut.track = CASE sdst = "PRECHARGE_BEFORE_WRITE" -> "evict"
                              [] sdst = "PRECHARGE_BEFORE_READ" -> "refill"
                              [] OTHER -> ""
<1>1. CASE sdst \in InitStates
  BY <1>1, ZenonT(60) DEF SdOut, InitOut, Go, Issue, PrechargeAll, AutoRefresh, Quiet,
              InitStates, RefreshStates, WriteStates, ReadStates
<1>2. CASE sdst = "IDLE"
  BY <1>2 DEF SdOut, IdleOut, Go, Quiet, InitStates, RefreshStates,
              WriteStates, ReadStates
<1>3. CASE sdst \in RefreshStates
  BY <1>3, ZenonT(60) DEF SdOut, RefreshOut, Go, Issue, PrechargeAll, AutoRefresh, Quiet,
              InitStates, RefreshStates, WriteStates, ReadStates
<1>4. CASE sdst \in WriteStates
  BY <1>4 DEF SdOut, WriteOut, Go, Issue, Precharge, Activate, Quiet,
              InitStates, RefreshStates, WriteStates, ReadStates
<1>5. CASE sdst \in ReadStates
  BY <1>5 DEF SdOut, ReadOut, Go, Issue, Precharge, Activate, Quiet,
              InitStates, RefreshStates, WriteStates, ReadStates
<1>6. QED
  BY <1>1, <1>2, <1>3, <1>4, <1>5 DEF SdStates

(* The cache line: chosen when a command is taken up, and again between an *)
(* eviction and its refill.                                                *)
LEMMA OutLine ==
    ASSUME sdst \in SdStates
    PROVE  /\ sdst = "IDLE" /\ SdOut.next \in WriteStates =>
                /\ SdOut.msb = "evict" /\ (Flag("evict") \/ pend["evict"])
                /\ SdOut.next = "PRECHARGE_BEFORE_WRITE"
           /\ sdst = "IDLE" /\ SdOut.next \in ReadStates =>
                /\ SdOut.msb = "refill" /\ (Flag("refill") \/ pend["refill"])
                /\ SdOut.next = "PRECHARGE_BEFORE_READ"
           /\ sdst = "WRITEBURST" => IF BurstFinished THEN SdOut.msb = "refill"
                                     ELSE SdOut.msb = ""
           /\ sdst \notin {"IDLE", "WRITEBURST"} => SdOut.msb = ""
<1>1. CASE sdst \in InitStates
  BY <1>1, ZenonT(60) DEF SdOut, InitOut, Go, Issue, PrechargeAll, AutoRefresh, Quiet,
              InitStates, RefreshStates, WriteStates, ReadStates
<1>2. CASE sdst = "IDLE"
  BY <1>2 DEF SdOut, IdleOut, Go, Quiet, InitStates, RefreshStates,
              WriteStates, ReadStates
<1>3. CASE sdst \in RefreshStates
  BY <1>3, ZenonT(60) DEF SdOut, RefreshOut, Go, Issue, PrechargeAll, AutoRefresh, Quiet,
              InitStates, RefreshStates, WriteStates, ReadStates
<1>4. CASE sdst \in WriteStates
  BY <1>4 DEF SdOut, WriteOut, Go, Issue, Precharge, Activate, Quiet,
              InitStates, RefreshStates, WriteStates, ReadStates
<1>5. CASE sdst \in ReadStates
  BY <1>5 DEF SdOut, ReadOut, Go, Issue, Precharge, Activate, Quiet,
              InitStates, RefreshStates, WriteStates, ReadStates
<1>6. QED
  BY <1>1, <1>2, <1>3, <1>4, <1>5 DEF SdStates

-----------------------------------------------------------------------------
(* The chip one edge ahead: what it makes of the pins as they are.         *)
Cached(i, j) == cache[i][j \div 2][Lane(j)]

(* The rows open after the command on the pins; the burst after this beat; *)
(* the last command that restricts the next ones.                          *)
OpenNext ==
    CASE ChipCmd = "PREALL" -> [x \in Bank |-> NoRow]
      [] ChipCmd = "PRE" -> [chip.open EXCEPT ![pins.ba] = NoRow]
      [] ChipCmd = "ACT" -> [chip.open EXCEPT ![pins.ba] = pins.a]
      [] OTHER -> chip.open
BurstNext ==
    IF Burst = NoBurst \/ Burst.n = BurstEnd(Burst.k) THEN NoBurst
    ELSE [Burst EXCEPT !.n = @ + 1]
Taken == Burst.k = "wr" /\ chip.cke
LastNext ==
    IF Taken THEN [cmd |-> "WR", n |-> 1]
    ELSE IF ChipCmd \notin {"NOP", "RD"} THEN [cmd |-> ChipCmd, n |-> 1]
    ELSE [chip.last EXCEPT !.n = IF @ < LastCap THEN @ + 1 ELSE @]

(* The command the chip will find: none in the edge after cke was low.     *)
NextCmd == IF pins.cke THEN SdOut.cmd ELSE "NOP"

(* What the chip does at an edge.                                          *)
LEMMA ChipStep ==
    ASSUME SdClk
    PROVE  /\ chip'.cke = pins.cke /\ chip'.open = OpenNext /\ chip'.bst = BurstNext
           /\ chip'.last = LastNext
           /\ dram' = IF Taken /\ ~pins.dqm
                      THEN [dram EXCEPT ![Burst.at][Burst.n] = pins.dq] ELSE dram
           /\ dq_in' = IF Burst.k = "rd" /\ Burst.n >= 2
                       THEN dram[Burst.at][Burst.n - 2] ELSE Undef
<1>1. ChipEdge
  BY DEF SdClk
<1>2. /\ chip'.cke = pins.cke /\ chip'.open = OpenNext /\ chip'.bst = BurstNext
  BY <1>1 DEF ChipEdge, OpenNext, BurstNext
<1>3. chip'.last = LastNext
  BY <1>1 DEF ChipEdge, LastNext, Taken
<1>4. QED
  BY <1>1, <1>2, <1>3 DEF ChipEdge, Taken

(* The registers the pins come from.                                       *)
LEMMA PinStep ==
    ASSUME SdClk
    PROVE  /\ pins'.cmd = SdOut.cmd /\ pins'.cke = SdOut.cke /\ pins'.dqm = SdOut.dqm
           /\ pins'.ba = SdOut.ba /\ pins'.a = SdOut.a
           /\ pins'.dq = IF ~SdOut.drive THEN Undef
                         ELSE IF bc % 2 = 1 THEN do1["lo"] ELSE do1["hi"]
           /\ sdst' = IF sdram_rst[2] THEN "RESET" ELSE SdOut.next
           /\ bc' = NextBc(SdOut)
           /\ ChipCmd' = NextCmd
<1>1. SdRegisters(SdOut)
  BY DEF SdClk
<1>2. /\ pins'.cmd = SdOut.cmd /\ pins'.cke = SdOut.cke /\ pins'.dqm = SdOut.dqm
      /\ pins'.ba = SdOut.ba /\ pins'.a = SdOut.a
      /\ pins'.dq = IF ~SdOut.drive THEN Undef
                    ELSE IF bc % 2 = 1 THEN do1["lo"] ELSE do1["hi"]
  BY <1>1 DEF SdRegisters
<1>3. ChipCmd' = NextCmd
  BY <1>2, ChipStep DEF ChipCmd, NextCmd
<1>4. QED
  BY <1>1, <1>2, <1>3 DEF SdRegisters

(* The burst under way after the next edge.                                *)
LEMMA BurstStep ==
    ASSUME SdClk
    PROVE  /\ NextCmd \notin {"RD", "WR", "PRE", "PREALL"} => Burst' = BurstNext
           /\ NextCmd \in {"PRE", "PREALL"} => Burst' = NoBurst
           /\ NextCmd = "RD" /\ OpenNext[SdOut.ba] # NoRow =>
                Burst' = [k |-> "rd", at |-> <<SdOut.ba, OpenNext[SdOut.ba], SdOut.a>>, n |-> 0]
           /\ NextCmd = "WR" /\ OpenNext[SdOut.ba] # NoRow =>
                Burst' = [k |-> "wr", at |-> <<SdOut.ba, OpenNext[SdOut.ba], SdOut.a>>, n |-> 0]
<1>1. /\ ChipCmd' = NextCmd /\ pins'.ba = SdOut.ba /\ pins'.a = SdOut.a
      /\ chip'.open = OpenNext /\ chip'.bst = BurstNext
  BY PinStep, ChipStep
<1> DEFINE at == <<SdOut.ba, OpenNext[SdOut.ba], SdOut.a>>
<1>2. at[2] = OpenNext[SdOut.ba]
  OBVIOUS
<1>3. Burst' = CASE NextCmd = "RD" /\ at[2] # NoRow -> [k |-> "rd", at |-> at, n |-> 0]
                 [] NextCmd = "WR" /\ at[2] # NoRow -> [k |-> "wr", at |-> at, n |-> 0]
                 [] NextCmd \in {"PRE", "PREALL"} -> NoBurst
                 [] OTHER -> BurstNext
  BY <1>1 DEF Burst, NoRow, NoBurst
<1> HIDE DEF at
<1>4. QED
  BY <1>2, <1>3 DEF at

(* The rows open after the next edge.                                      *)
LEMMA OpenStep ==
    ASSUME SdClk
    PROVE  /\ NextCmd = "PREALL" => OpenNext' = [x \in Bank |-> NoRow]
           /\ NextCmd = "PRE" => OpenNext' = [OpenNext EXCEPT ![SdOut.ba] = NoRow]
           /\ NextCmd = "ACT" => OpenNext' = [OpenNext EXCEPT ![SdOut.ba] = SdOut.a]
           /\ NextCmd \notin {"PREALL", "PRE", "ACT"} => OpenNext' = OpenNext
<1>1. /\ ChipCmd' = NextCmd /\ pins'.ba = SdOut.ba /\ pins'.a = SdOut.a
      /\ chip'.open = OpenNext
  BY PinStep, ChipStep
<1>2. OpenNext' = CASE NextCmd = "PREALL" -> [x \in Bank |-> NoRow]
      [] NextCmd = "PRE" -> [chip'.open EXCEPT ![SdOut.ba] = NoRow]
      [] NextCmd = "ACT" -> [chip'.open EXCEPT ![SdOut.ba] = SdOut.a]
      [] OTHER -> chip'.open
  BY <1>1 DEF OpenNext, NoRow, Bank
<1>3. QED
  BY <1>1, <1>2

-----------------------------------------------------------------------------
(* Types of the data, of the row registers and of what is on the pins.     *)
DataType ==
    /\ rsp \in Half /\ do0 \in Half /\ do1 \in Half
    /\ cache \in [Idx -> [LineIdx -> Half]]
    /\ active \in [Bank -> BOOLEAN] /\ openrow \in [Bank -> Row]
    /\ track \in [ba : Bank, row : Row]
    /\ rowswitch \in [{"evict", "refill"} -> BOOLEAN]
    /\ msb \in Idx
    /\ dram \in [Places -> [Beats -> Val]]
    /\ fresh \subseteq Idx
RowType ==
    /\ active \in [Bank -> BOOLEAN] /\ openrow \in [Bank -> Row]
    /\ track \in [ba : Bank, row : Row]
    /\ rowswitch \in [{"evict", "refill"} -> BOOLEAN]
    /\ msb \in Idx

(* cke is low for the one cycle of PRECHARGE ALL, and no command but AUTO  *)
(* REFRESH can be given in the next.                                       *)
PinInv ==
    /\ chip.cke \in BOOLEAN /\ pins.cke \in BOOLEAN /\ pins.dqm \in BOOLEAN
    /\ pins.cmd \in PinCommands
    /\ ~chip.cke => pins.cmd \in {"NOP", "REF"}
    /\ ~pins.cke => sdst \in {"INIT_AUTOREFRESH1", "AUTOREFRESH", "RESET"}
    /\ pins.cmd = "PRE" => pins.ba \in Bank
    /\ pins.cmd = "ACT" => pins.ba \in Bank /\ pins.a \in Row
    /\ chip.open \in [Bank -> Row \cup {NoRow}]

(* The two line addresses name places in the chip.                         *)
LEMMA AdrPlaces ==
    ASSUME ControlType
    PROVE  /\ evict_adr.tag \in Tag /\ evict_adr.idx \in Idx
           /\ refill_adr.tag \in Tag /\ refill_adr.idx \in Idx
           /\ BankOf(evict_adr) \in Bank /\ RowOf(evict_adr) \in Row
           /\ BankOf(refill_adr) \in Bank /\ RowOf(refill_adr) \in Row
           /\ ColOf(evict_adr) \in Col /\ ColOf(refill_adr) \in Col
           /\ Place(evict_adr) \in Places /\ Place(refill_adr) \in Places
<1>1. /\ evict_adr.tag \in Tag /\ evict_adr.idx \in Idx
      /\ refill_adr.tag \in Tag /\ refill_adr.idx \in Idx
  BY DEF ControlType, Line
<1>2. QED
  BY <1>1, PlaceType

(* Row tracking keeps to its types.                                        *)
LEMMA SdRowType ==
    ASSUME ControlType, RowType, SdClk
    PROVE  RowType'
<1>1. /\ evict_adr.idx \in Idx /\ refill_adr.idx \in Idx
      /\ BankOf(evict_adr) \in Bank /\ RowOf(evict_adr) \in Row
      /\ BankOf(refill_adr) \in Bank /\ RowOf(refill_adr) \in Row
  BY AdrPlaces
<1>2. SdRegisters(SdOut)
  BY DEF SdClk
<1>3. track.ba \in Bank /\ track.row \in Row
  BY DEF RowType
<1>4. active' \in [Bank -> BOOLEAN] /\ openrow' \in [Bank -> Row]
  BY <1>2, <1>3 DEF SdRegisters, RowType
<1>5. track' \in [ba : Bank, row : Row]
  BY <1>1, <1>2 DEF SdRegisters, RowType
<1>6. rowswitch' \in [{"evict", "refill"} -> BOOLEAN]
  <2>1. NeedsRowswitch(evict_adr) \in BOOLEAN /\ NeedsRowswitch(refill_adr) \in BOOLEAN
    BY DEF NeedsRowswitch
  <2>2. rowswitch' = [evict |-> NeedsRowswitch(evict_adr), refill |-> NeedsRowswitch(refill_adr)]
    BY <1>2 DEF SdRegisters
  <2>3. QED
    BY <2>1, <2>2
<1>7. msb' \in Idx
  BY <1>1, <1>2 DEF SdRegisters, RowType
<1>8. QED
  BY <1>4, <1>5, <1>6, <1>7 DEF RowType

(* Only AUTO REFRESH could be lost to the edge the chip skips.             *)
LEMMA SdPin ==
    ASSUME ControlType, PinInv, SdClk
    PROVE  /\ PinInv' /\ OpenNext \in [Bank -> Row \cup {NoRow}]
           /\ SdOut.cmd \notin {"NOP", "REF"} => pins.cke
           /\ NextCmd = SdOut.cmd \/ (NextCmd = "NOP" /\ SdOut.cmd = "REF")
           /\ SdOut.cmd = "PRE" => SdOut.ba \in Bank
           /\ SdOut.cmd = "ACT" => SdOut.ba \in Bank /\ SdOut.a \in Row
<1>1. sdst \in SdStates
  BY DEF ControlType
<1>2. /\ SdOut.cmd \in PinCommands
      /\ SdOut.cmd = "PRE" => sdst \in {"PRECHARGE_BEFORE_WRITE", "PRECHARGE_BEFORE_READ"}
      /\ SdOut.cmd = "PREALL" => sdst \in {"INIT_PRECHARGEALL", "PRECHARGE_BEFORE_REFRESH"}
      /\ SdOut.cmd = "ACT" => Activating /\ Done("pre")
      /\ SdOut.cmd = "RD" => sdst = "READ" /\ Done("act")
      /\ SdOut.cmd = "WR" => sdst = "WRITE" /\ Done("act")
      /\ SdOut.cke \in BOOLEAN
  BY <1>1, OutCommand
<1>3. SdOut.dqm \in BOOLEAN
  BY <1>1, OutLanes
<1>4. SdOut.cmd \notin {"NOP", "REF"} => pins.cke
  <2>1. CASE SdOut.cmd = "LMR"
    <3>1. sdst = "INIT_LOADMODE"
      BY <1>1, <2>1, InitMoves, IdleMoves, RefreshMoves, WriteMoves, ReadMoves
         DEF SdStates, InitStates, RefreshStates, WriteStates, ReadStates, Moves, Stays
    <3>2. QED
      BY <3>1 DEF PinInv
  <2>2. QED
    BY <1>2, <2>1 DEF PinInv, Activating, PinCommands
<1>5. /\ SdOut.cmd = "PRE" => SdOut.ba \in Bank
      /\ SdOut.cmd = "ACT" => SdOut.ba \in Bank /\ SdOut.a \in Row
  BY <1>2, OutWrite, OutRead, AdrPlaces DEF Activating
<1>6. OpenNext \in [Bank -> Row \cup {NoRow}]
  BY DEF OpenNext, PinInv, ChipCmd
<1>7. ~SdOut.cke => SdOut.next \in {"INIT_AUTOREFRESH1", "AUTOREFRESH"}
  BY Commands
<1>8. /\ pins'.cmd = SdOut.cmd /\ pins'.cke = SdOut.cke /\ pins'.dqm = SdOut.dqm
      /\ pins'.ba = SdOut.ba /\ pins'.a = SdOut.a
      /\ sdst' = IF sdram_rst[2] THEN "RESET" ELSE SdOut.next
      /\ chip'.cke = pins.cke /\ chip'.open = OpenNext
  BY PinStep, ChipStep
<1>9. NextCmd = SdOut.cmd \/ (NextCmd = "NOP" /\ SdOut.cmd = "REF")
  BY <1>4 DEF NextCmd
<1>10. pins.cke \in BOOLEAN
  BY DEF PinInv
<1>11. PinInv'
  BY <1>2, <1>3, <1>4, <1>5, <1>6, <1>7, <1>8, <1>10 DEF PinInv, NoRow, Row, Bank
<1>12. QED
  BY <1>4, <1>5, <1>6, <1>9, <1>11

(* The counters, with resets at any time.                                  *)
LEMMA SdCount ==
    ASSUME ControlType, CountInv, SdClk
    PROVE  CountInv'
<1>1. timer' \in [Timers -> Nat] /\ \A c \in Timers : timer'[c] <= Wait[c]
  <2>1. timer' = [c \in Timers |-> timer'[c]]
    BY DEF SdClk, SdRegisters
  <2>2. QED
    BY <2>1, TimerStep
<1>2. /\ sdst' = IF sdram_rst[2] THEN "RESET" ELSE SdOut.next
      /\ bc' = IF ~SdOut.burst THEN 0 ELSE IF BurstFinished THEN bc ELSE bc + 1
  BY SdEdge
<1>3. bc \in 0 .. 2*LineWords /\ 2*LineWords \in Nat /\ 2*LineWords >= 1
  BY WaitTypes DEF CountInv
<1>4. bc' \in 0 .. 2*LineWords
  BY <1>2, <1>3 DEF BurstFinished
<1>5. CASE ~Serving
  BY <1>1, <1>2, <1>4, <1>5, Commands DEF CountInv
<1>6. CASE sdst \in WriteStates
  <2>1. /\ SdOut.next \in {"ACTIVATE_BEFORE_WRITE", "PRECHARGE_BEFORE_READ"}
           \/ (SdOut.next = "WRITE" /\ SdOut.burst = FALSE)
           \/ (SdOut.next = "WRITEBURST" /\ SdOut.burst = TRUE
               /\ (sdst = "WRITE" \/ (sdst = "WRITEBURST" /\ ~BurstFinished)))
    BY <1>6, WriteMoves DEF Moves, Stays, WriteStates
  <2>2. SdOut.next = "WRITEBURST" => bc' >= 1
    <3>1. sdst = "WRITE" => ~BurstFinished
      BY <1>3 DEF CountInv, BurstFinished
    <3>2. QED
      BY <1>2, <1>3, <2>1, <3>1
  <2>3. QED
    BY <1>1, <1>2, <1>4, <2>1, <2>2 DEF CountInv
<1>7. CASE sdst \in ReadStates
  <2>1. SdOut.next = "READBURST" =>
          (sdst = "READFIRST" /\ SdOut.burst = FALSE) \/ (sdst = "READBURST" /\ ~BurstLast)
    BY <1>7, ReadMoves DEF Moves, Stays, ReadStates
  <2>2. SdOut.next \notin {"WRITE", "WRITEBURST"}
    BY <1>7, ReadMoves DEF Moves, Stays, ReadStates
  <2>3. SdOut.next = "READBURST" => bc' < 2*LineWords
    <3>1. CASE sdst = "READFIRST" /\ SdOut.burst = FALSE
      BY <1>2, <1>3, <3>1
    <3>2. CASE sdst = "READBURST" /\ ~BurstLast
      <4>1. bc < 2*LineWords /\ bc # 2*LineWords - 1
        BY <1>3, <3>2, BurstLastAt DEF CountInv
      <4>2. QED
        BY <1>2, <1>3, <4>1
    <3>3. QED
      BY <2>1, <3>1, <3>2
  <2>4. QED
    BY <1>1, <1>2, <1>4, <2>2, <2>3 DEF CountInv
<1>8. QED
  BY <1>5, <1>6, <1>7 DEF Serving

-----------------------------------------------------------------------------
(* The controller's copy of the open rows is right by the time the command *)
(* it decides on reaches the chip; while it activates a row, the bank is   *)
(* closed.                                                                 *)
Tracked(b) == IF active[b] THEN openrow[b] ELSE NoRow
RowsKnown ==
    \A b \in Bank : OpenNext[b] = IF Activating /\ b = track.ba THEN NoRow ELSE Tracked(b)
RowInv ==
    /\ sdst \notin {"RESET", "INIT_PRECHARGEALL"} => RowsKnown
    /\ sdst = "ACTIVATE_BEFORE_WRITE" =>
         track = [ba |-> BankOf(evict_adr), row |-> RowOf(evict_adr)]
    /\ sdst = "ACTIVATE_BEFORE_READ" =>
         track = [ba |-> BankOf(refill_adr), row |-> RowOf(refill_adr)]
    /\ sdst = "PRECHARGE_BEFORE_WRITE" => (rowswitch["evict"] <=> NeedsRowswitch(evict_adr))
    /\ sdst = "PRECHARGE_BEFORE_READ" => (rowswitch["refill"] <=> NeedsRowswitch(refill_adr))
    /\ sdst \in {"WRITE", "WRITEBURST"} => ~NeedsRowswitch(evict_adr)
    /\ sdst = "READ" => ~NeedsRowswitch(refill_adr)
    /\ sdst \in {"INIT_AUTOREFRESH1", "INIT_AUTOREFRESH2", "INIT_LOADMODE",
                 "AUTOREFRESH", "WAIT_REFRESH"} => \A b \in Bank : ~active[b]

(* What an edge does to row tracking.                                      *)
LEMMA RowStep ==
    ASSUME ControlType, RowType, SdClk
    PROVE  /\ evict_adr' = evict_adr /\ refill_adr' = refill_adr
           /\ SdOut.cmd = "PREALL" => active' = [b \in Bank |-> FALSE] /\ openrow' = openrow
           /\ SdOut.cmd = "ACT" => /\ active' = [active EXCEPT ![track.ba] = TRUE]
                                   /\ openrow' = [openrow EXCEPT ![track.ba] = track.row]
           /\ SdOut.cmd \notin {"PREALL", "ACT"} => active' = active /\ openrow' = openrow
           /\ SdOut.track = "evict" =>
                track' = [ba |-> BankOf(evict_adr), row |-> RowOf(evict_adr)]
           /\ SdOut.track = "refill" =>
                track' = [ba |-> BankOf(refill_adr), row |-> RowOf(refill_adr)]
           /\ SdOut.track = "" => track' = track
           /\ rowswitch'["evict"] <=> NeedsRowswitch(evict_adr)
           /\ rowswitch'["refill"] <=> NeedsRowswitch(refill_adr)
<1>1. SdRegisters(SdOut) /\ UNCHANGED sysvars
  BY DEF SdClk
<1>2. SdOut.open = (SdOut.cmd = "ACT") /\ SdOut.closeall = (SdOut.cmd = "PREALL")
  BY OutCommand DEF ControlType
<1>3. /\ active' = IF SdOut.closeall THEN [b \in Bank |-> FALSE]
                   ELSE IF SdOut.open THEN [active EXCEPT ![track.ba] = TRUE] ELSE active
      /\ openrow' = IF SdOut.open THEN [openrow EXCEPT ![track.ba] = track.row] ELSE openrow
  BY <1>1 DEF SdRegisters
<1>4. /\ SdOut.track = "evict" =>
            track' = [ba |-> BankOf(evict_adr), row |-> RowOf(evict_adr)]
      /\ SdOut.track = "refill" =>
            track' = [ba |-> BankOf(refill_adr), row |-> RowOf(refill_adr)]
      /\ SdOut.track = "" => track' = track
  BY <1>1 DEF SdRegisters
<1>5. rowswitch' = [evict |-> NeedsRowswitch(evict_adr), refill |-> NeedsRowswitch(refill_adr)]
  BY <1>1 DEF SdRegisters
<1>6. QED
  BY <1>1, <1>2, <1>3, <1>4, <1>5 DEF sysvars

(* Row tracking follows the chip, one edge ahead of it.                    *)
LEMMA SdRow ==
    ASSUME ControlType, RowType, PinInv, RowInv, SdClk
    PROVE  RowInv'
<1> DEFINE quiet == SdOut.cmd \notin {"PRE", "PREALL", "ACT"}
<1>1. CASE sdram_rst[2]
  <2>1. sdst' = "RESET"
    BY <1>1, PinStep
  <2>2. QED
    BY <2>1 DEF RowInv
<1>2. CASE ~sdram_rst[2]
  <2>1. sdst' = SdOut.next /\ evict_adr' = evict_adr /\ refill_adr' = refill_adr
    BY <1>2, PinStep, RowStep
  <2>2. NextCmd = SdOut.cmd \/ (NextCmd = "NOP" /\ SdOut.cmd = "REF")
    BY SdPin
  <2>3. quiet => OpenNext' = OpenNext /\ active' = active /\ openrow' = openrow
    BY <2>2, OpenStep, RowStep
  <2>4. quiet /\ SdOut.track = "" => track' = track
    BY RowStep
  <2>5. /\ rowswitch'["evict"] <=> NeedsRowswitch(evict_adr)
        /\ rowswitch'["refill"] <=> NeedsRowswitch(refill_adr)
    BY RowStep
  <2>6. /\ quiet => (NeedsRowswitch(evict_adr)' <=> NeedsRowswitch(evict_adr))
        /\ quiet => (NeedsRowswitch(refill_adr)' <=> NeedsRowswitch(refill_adr))
    BY <2>1, <2>3 DEF NeedsRowswitch, BankOf, RowOf, Number
  <2>7. ASSUME quiet, RowsKnown, ~Activating, ~Activating' PROVE RowsKnown'
    BY <2>3, <2>7 DEF RowsKnown, Tracked, NoRow, Bank
  <2>8. ASSUME quiet, RowsKnown, SdOut.track = "", Activating, Activating' PROVE RowsKnown'
    BY <2>3, <2>4, <2>8 DEF RowsKnown, Tracked, NoRow, Bank
  <2>9. ASSUME SdOut.cmd = "PREALL", ~Activating'
        PROVE  RowsKnown' /\ \A b \in Bank : ~active'[b]
    <3>1. OpenNext' = [b \in Bank |-> NoRow] /\ active' = [b \in Bank |-> FALSE]
      BY <2>2, <2>9, OpenStep, RowStep
    <3>2. QED
      BY <2>9, <3>1 DEF RowsKnown, Tracked, NoRow, Bank
  <2>10. SdOut.track = CASE sdst = "PRECHARGE_BEFORE_WRITE" -> "evict"
                         [] sdst = "PRECHARGE_BEFORE_READ" -> "refill"
                         [] OTHER -> ""
    BY OutLanes DEF ControlType
  <2>11. CASE sdst \in InitStates \cup RefreshStates
    <3>1. CASE SdOut.cmd = "PREALL"
      <4>1. sdst' \in {"INIT_AUTOREFRESH1", "AUTOREFRESH"}
        BY <2>1, <2>11, <3>1, InitMoves, RefreshMoves DEF Moves, Stays, InitStates, RefreshStates
      <4>2. QED
        BY <2>9, <3>1, <4>1 DEF RowInv, Activating
    <3>2. CASE SdOut.cmd # "PREALL"
      <4>1. /\ quiet /\ sdst' \notin {"AUTOREFRESH", "INIT_AUTOREFRESH1"} \ {sdst}
            /\ sdst' \in {"RESET", "INIT_PRECHARGEALL"} \/ sdst \notin {"RESET", "INIT_PRECHARGEALL"}
            /\ sdst' \in {"INIT_AUTOREFRESH1", "INIT_AUTOREFRESH2", "INIT_LOADMODE",
                 "AUTOREFRESH", "WAIT_REFRESH"} =>
               sdst \in {"INIT_AUTOREFRESH1", "INIT_AUTOREFRESH2", "INIT_LOADMODE",
                 "AUTOREFRESH", "WAIT_REFRESH"}
            /\ sdst' \notin WriteStates \cup ReadStates
        BY <2>1, <2>11, <3>2, InitMoves, RefreshMoves
           DEF Moves, Stays, InitStates, RefreshStates, WriteStates, ReadStates
      <4>2. ~Activating /\ ~Activating'
        BY <2>11, <4>1 DEF Activating, InitStates, RefreshStates, WriteStates, ReadStates
      <4>3. sdst' \notin {"RESET", "INIT_PRECHARGEALL"} => RowsKnown'
        BY <2>7, <4>1, <4>2 DEF RowInv
      <4>4. QED
        BY <2>3, <4>1, <4>3 DEF RowInv, WriteStates, ReadStates
    <3>3. QED
      BY <3>1, <3>2
  <2>12. CASE sdst = "IDLE"
    <3>1. quiet /\ sdst' \in {"IDLE", "PRECHARGE_BEFORE_REFRESH", "PRECHARGE_BEFORE_WRITE",
                              "PRECHARGE_BEFORE_READ"}
      BY <2>1, <2>12, IdleMoves DEF Moves, Stays
    <3>2. ~Activating /\ ~Activating'
      BY <2>12, <3>1 DEF Activating
    <3>3. RowsKnown'
      BY <2>7, <2>12, <3>1, <3>2 DEF RowInv
    <3>4. QED
      BY <2>5, <2>6, <3>1, <3>3 DEF RowInv
  <2>13. CASE sdst \in {"PRECHARGE_BEFORE_WRITE", "PRECHARGE_BEFORE_READ"}
    <3> DEFINE write == sdst = "PRECHARGE_BEFORE_WRITE"
               adr == IF write THEN evict_adr ELSE refill_adr
    <3>1. /\ BankOf(adr) \in Bank /\ RowOf(adr) \in Row
          /\ track' = [ba |-> BankOf(adr), row |-> RowOf(adr)]
      BY <2>10, <2>13, AdrPlaces, RowStep
    <3>2. ~Activating /\ RowsKnown
      BY <2>13 DEF Activating, RowInv
    <3>3. CASE NeedsRowswitch(adr)
      <4>1. /\ SdOut.cmd = "PRE" /\ SdOut.ba = BankOf(adr)
            /\ sdst' = IF write THEN "ACTIVATE_BEFORE_WRITE" ELSE "ACTIVATE_BEFORE_READ"
        BY <2>1, <2>13, <3>3, OutWrite, OutRead DEF RowInv
      <4>2. OpenNext' = [OpenNext EXCEPT ![BankOf(adr)] = NoRow]
            /\ active' = active /\ openrow' = openrow
        BY <2>2, <4>1, OpenStep, RowStep
      <4>3. OpenNext \in [Bank -> Row \cup {NoRow}]
        BY SdPin
      <4>4. Activating' /\ track'.ba = BankOf(adr)
        BY <3>1, <4>1 DEF Activating
      <4>5. RowsKnown'
        BY <3>1, <3>2, <4>2, <4>3, <4>4 DEF RowsKnown, Tracked, NoRow, Bank
      <4>6. QED
        BY <2>1, <3>1, <4>1, <4>5 DEF RowInv, BankOf, RowOf, Number
    <3>4. CASE ~NeedsRowswitch(adr)
      <4>1. SdOut.cmd = "NOP" /\ sdst' = IF write THEN "WRITE" ELSE "READ"
        BY <2>1, <2>13, <3>4, OutWrite, OutRead DEF RowInv
      <4>2. RowsKnown'
        BY <2>7, <3>2, <4>1 DEF Activating
      <4>3. QED
        BY <2>6, <3>4, <4>1, <4>2 DEF RowInv
    <3>5. QED
      BY <3>3, <3>4
  <2>14. CASE Activating
    <3> DEFINE write == sdst = "ACTIVATE_BEFORE_WRITE"
               adr == IF write THEN evict_adr ELSE refill_adr
    <3>1. /\ BankOf(adr) \in Bank /\ RowOf(adr) \in Row
          /\ track = [ba |-> BankOf(adr), row |-> RowOf(adr)] /\ RowsKnown
      BY <2>14, AdrPlaces DEF RowInv, Activating
    <3>2. CASE Done("pre")
      <4>1. /\ SdOut.cmd = "ACT" /\ SdOut.ba = BankOf(adr) /\ SdOut.a = RowOf(adr)
            /\ sdst' = IF write THEN "WRITE" ELSE "READ"
        BY <2>1, <2>14, <3>2, OutWrite, OutRead DEF Activating
      <4>2. /\ OpenNext' = [OpenNext EXCEPT ![BankOf(adr)] = RowOf(adr)]
            /\ active' = [active EXCEPT ![BankOf(adr)] = TRUE]
            /\ openrow' = [openrow EXCEPT ![BankOf(adr)] = RowOf(adr)]
        BY <2>2, <3>1, <4>1, OpenStep, RowStep
      <4>3. /\ OpenNext \in [Bank -> Row \cup {NoRow}] /\ ~Activating'
            /\ active \in [Bank -> BOOLEAN] /\ openrow \in [Bank -> Row]
        BY <4>1, SdPin DEF RowType, Activating
      <4>4. track.ba = BankOf(adr)
        BY <3>1
      <4>5. RowsKnown'
        BY <3>1, <4>2, <4>3, <4>4 DEF RowsKnown, Tracked, NoRow, Bank
      <4>6. ~(~active'[BankOf(adr)] \/ openrow'[BankOf(adr)] # RowOf(adr))
        BY <3>1, <4>2, <4>3
      <4>7. QED
        BY <2>1, <4>1, <4>5, <4>6 DEF RowInv, NeedsRowswitch, BankOf, RowOf, Number
    <3>3. CASE ~Done("pre")
      <4>1. Stays
        BY <2>14, <3>3, WriteMoves, ReadMoves DEF Activating
      <4>2. quiet /\ sdst' = sdst /\ SdOut.track = ""
        BY <2>1, <2>10, <2>14, <4>1 DEF Moves, Stays, Activating
      <4>3. RowsKnown' /\ track' = track
        BY <2>4, <2>8, <2>14, <3>1, <4>2 DEF Activating
      <4>4. QED
        BY <2>1, <2>14, <3>1, <4>2, <4>3 DEF RowInv, Activating, BankOf, RowOf, Number
    <3>4. QED
      BY <3>2, <3>3
  <2>15. CASE sdst \in {"WRITE", "WRITEBURST"}
    <3>1. quiet /\ sdst' \in {"WRITE", "WRITEBURST", "PRECHARGE_BEFORE_READ"}
      BY <2>1, <2>15, WriteMoves DEF Moves, Stays
    <3>2. RowsKnown'
      BY <2>7, <2>15, <3>1 DEF RowInv, Activating
    <3>3. QED
      BY <2>5, <2>6, <2>15, <3>1, <3>2 DEF RowInv
  <2>16. CASE sdst \in {"READ", "READREG1", "READREG2", "READREG3", "READFIRST", "READBURST"}
    <3>1. /\ quiet
          /\ sdst' \in {"READREG1", "READREG2", "READREG3", "READFIRST", "READBURST", "IDLE"}
             \/ (sdst = "READ" /\ sdst' = "READ")
      BY <2>1, <2>16, ReadMoves DEF Moves, Stays
    <3>2. RowsKnown'
      BY <2>7, <2>16, <3>1 DEF RowInv, Activating
    <3>3. QED
      BY <2>6, <2>16, <3>1, <3>2 DEF RowInv
  <2>17. QED
    BY <2>11, <2>12, <2>13, <2>14, <2>15, <2>16
       DEF ControlType, SdStates, InitStates, RefreshStates, WriteStates, ReadStates, Activating
<1>3. QED
  BY <1>1, <1>2

-----------------------------------------------------------------------------
(* Port 1 of the cache: nothing is written but for the lane of a beat.     *)
Port1Word == (bc' \div 2) % LineWords

(* The word of a beat is one of the line's.                                *)
LEMMA WordOf ==
    ASSUME NEW b \in Nat
    PROVE  (b \div 2) % LineWords \in LineIdx
<1>1. LineWords \in Nat \ {0} /\ b \div 2 \in Nat
  BY WaitTypes
<1> DEFINE q == b \div 2
<1> HIDE DEF q
<1>2. q % LineWords \in 0 .. LineWords-1
  BY <1>1, DivMod DEF q
<1>3. QED
  BY <1>2 DEF LineIdx, q

(* Port 1 addresses a word of the line.                                    *)
LEMMA Port1Type ==
    ASSUME CountInv'
    PROVE  Port1Word \in LineIdx
<1>1. PICK b \in Nat : b = bc'
  BY WaitTypes DEF CountInv
<1>2. QED
  BY <1>1, WordOf DEF Port1Word

(* Without write enables port 1 only reads.                                *)
LEMMA Port1Idle ==
    ASSUME ControlType, CountInv, DataType, SdClk, SdOut.we = {}
    PROVE  cache' = cache /\ do1' = cache[msb][Port1Word] /\ do1' \in Half
<1>1. Port1Word \in LineIdx
  BY SdCount, Port1Type
<1>2. bc' = NextBc(SdOut)
  BY PinStep
<1> DEFINE w == Port1Word
           word == [l \in Lanes |-> IF l \in SdOut.we THEN dq_in ELSE cache[msb][w][l]]
<1>3. cache' = [cache EXCEPT ![msb][w] = word] /\ do1' = word
  BY <1>2 DEF SdClk, CachePort1, Port1Word
<1>4. cache \in [Idx -> [LineIdx -> Half]] /\ msb \in Idx
  BY DEF DataType
<1>5. cache[msb][w] \in [Lanes -> Val]
  BY <1>1, <1>4 DEF Half
<1>6. word = cache[msb][w]
  BY <1>5
<1> HIDE DEF w, word
<1>7. [cache EXCEPT ![msb][w] = cache[msb][w]] = cache
  BY <1>4
<1>8. QED
  BY <1>3, <1>5, <1>6, <1>7 DEF w, Half

(* A write enable stores one beat of the line.                             *)
LEMMA Port1Write ==
    ASSUME ControlType, CountInv, DataType, SdClk, dq_in \in Val,
           NEW b \in Beats, SdOut.we = {Lane(b)}, b \div 2 = Port1Word
    PROVE  /\ cache' \in [Idx -> [LineIdx -> Half]] /\ do1' \in Half
           /\ \A i \in Idx : i # msb => cache'[i] = cache[i]
           /\ \A j \in Beats : cache'[msb][j \div 2][Lane(j)] =
                IF j = b THEN dq_in ELSE cache[msb][j \div 2][Lane(j)]
<1>1. Port1Word \in LineIdx
  BY SdCount, Port1Type
<1>2. bc' = NextBc(SdOut)
  BY PinStep
<1> DEFINE w == Port1Word
           word == [l \in Lanes |-> IF l \in SdOut.we THEN dq_in ELSE cache[msb][w][l]]
<1>3. cache' = [cache EXCEPT ![msb][w] = word] /\ do1' = word
  BY <1>2 DEF SdClk, CachePort1, Port1Word
<1>4. cache \in [Idx -> [LineIdx -> Half]] /\ msb \in Idx
  BY DEF DataType
<1>5. cache[msb][w] \in [Lanes -> Val] /\ cache[msb] \in [LineIdx -> Half]
  BY <1>1, <1>4 DEF Half
<1>6. word \in Half
  BY <1>5 DEF Half
<1>7. w \in LineIdx
  BY <1>1
<1>8. ASSUME NEW l \in Lanes PROVE word[l] = IF l = Lane(b) THEN dq_in ELSE cache[msb][w][l]
  OBVIOUS
<1> HIDE DEF w, word
<1>9. cache' \in [Idx -> [LineIdx -> Half]]
  BY <1>3, <1>4, <1>6, <1>7
<1>10. \A i \in Idx : i # msb => cache'[i] = cache[i]
  BY <1>3, <1>4
<1>11. cache'[msb] = [cache[msb] EXCEPT ![w] = word]
  BY <1>3, <1>4
<1>12. ASSUME NEW j \in Beats
       PROVE  cache'[msb][j \div 2][Lane(j)] =
                IF j = b THEN dq_in ELSE cache[msb][j \div 2][Lane(j)]
  <2>1. j \div 2 \in LineIdx /\ Lane(j) \in Lanes /\ BeatOf(j \div 2, Lane(j)) = j
        /\ BeatOf(b \div 2, Lane(b)) = b
    BY BeatWord
  <2>2. b \div 2 = w
    BY DEF w
  <2>3. CASE j \div 2 # w
    <3>1. cache'[msb][j \div 2] = cache[msb][j \div 2] /\ j # b
      BY <1>5, <1>11, <2>1, <2>2, <2>3
    <3>2. QED
      BY <3>1
  <2>4. CASE j \div 2 = w
    <3>1. cache'[msb][j \div 2] = word
      BY <1>5, <1>7, <1>11, <2>4
    <3>2. (j = b) <=> (Lane(j) = Lane(b))
      BY <2>1, <2>2, <2>4
    <3>3. QED
      BY <1>8, <2>1, <2>4, <3>1, <3>2
  <2>5. QED
    BY <2>3, <2>4
<1>13. QED
  BY <1>3, <1>6, <1>9, <1>10, <1>12

-----------------------------------------------------------------------------
(* Bursts.  The state of the machine tells the beat the chip is at; what   *)
(* is written is the line in the cache, what is cached is the line in the  *)
(* chip.                                                                   *)
Reading == {"READREG1", "READREG2", "READREG3", "READFIRST", "READBURST"}
ReadBeat ==
    CASE sdst = "READREG1" -> 0
      [] sdst = "READREG2" -> 1
      [] sdst = "READREG3" -> 2
      [] sdst = "READFIRST" -> 3
      [] OTHER -> bc + 4
BurstType ==
    Burst # NoBurst =>
        /\ Burst \in [k : {"rd", "wr"}, at : Places, n : Nat]
        /\ Burst.n <= BurstEnd(Burst.k)
BurstInv ==
    /\ BurstType
    /\ sdst \notin Reading \cup {"RESET", "INIT_PRECHARGEALL", "WRITEBURST"} =>
         Burst = NoBurst
    /\ sdst = "WRITEBURST" =>
         /\ Burst = [k |-> "wr", at |-> Place(evict_adr), n |-> bc - 1]
         /\ ~pins.dqm /\ chip.cke /\ pins.dq = Cached(evict_adr.idx, bc - 1)
    /\ sdst \in Reading =>
         Burst = IF ReadBeat <= 2*LineWords + 1
                 THEN [k |-> "rd", at |-> Place(refill_adr), n |-> ReadBeat]
                 ELSE NoBurst
    /\ sdst = "RESET" /\ ~pins.dqm /\ Burst.k = "wr" =>
         pins.dq \in Val /\ Burst.at = Place(evict_adr)
DataInv ==
    /\ sdst \in WriteStates => msb = evict_adr.idx
    /\ sdst \in ReadStates => msb = refill_adr.idx
    /\ sdst \in {"ACTIVATE_BEFORE_WRITE", "WRITE"} => bc = 0
    /\ sdst \in {"ACTIVATE_BEFORE_WRITE", "WRITE", "WRITEBURST"} =>
         do1 = cache[msb][(bc \div 2) % LineWords]
    /\ sdst = "WRITEBURST" => \A j \in Beats : j < bc - 1 =>
         dram[Place(evict_adr)][j] = Cached(evict_adr.idx, j)
    /\ sdst = "READFIRST" => dq_in = dram[Place(refill_adr)][0]
    /\ sdst = "READBURST" =>
         /\ bc + 1 < 2*LineWords => dq_in = dram[Place(refill_adr)][bc + 1]
         /\ \A j \in Beats : j <= bc =>
              Cached(refill_adr.idx, j) = dram[Place(refill_adr)][j]

(* One beat further.                                                       *)
LEMMA BurstNextIs ==
    ASSUME BurstType
    PROVE  /\ Burst = NoBurst => BurstNext = NoBurst
           /\ BurstNext # NoBurst =>
                /\ BurstNext \in [k : {"rd", "wr"}, at : Places, n : Nat]
                /\ BurstNext.n <= BurstEnd(BurstNext.k)
           /\ BurstNext.k = "wr" => Burst.k = "wr" /\ BurstNext.at = Burst.at
<1>1. CASE BurstNext = NoBurst
  BY <1>1 DEF NoBurst
<1>2. CASE BurstNext # NoBurst
  <2>1. Burst # NoBurst /\ Burst.n # BurstEnd(Burst.k) /\ BurstNext = [Burst EXCEPT !.n = @ + 1]
    BY <1>2 DEF BurstNext
  <2>2. Burst \in [k : {"rd", "wr"}, at : Places, n : Nat] /\ Burst.n <= BurstEnd(Burst.k)
    BY <2>1 DEF BurstType
  <2>3. BurstEnd(Burst.k) \in Nat
    BY WaitTypes DEF BurstEnd
  <2>4. /\ BurstNext \in [k : {"rd", "wr"}, at : Places, n : Nat] /\ BurstNext.n = Burst.n + 1
        /\ BurstNext.k = Burst.k /\ BurstNext.at = Burst.at
    BY <2>1, <2>2
  <2>5. Burst.n + 1 <= BurstEnd(Burst.k)
    BY <2>1, <2>2, <2>3
  <2>6. QED
    BY <2>1, <2>4, <2>5
<1>3. QED
  BY <1>1, <1>2

(* A burst goes on to its next beat, or ends.                              *)
LEMMA BurstAdvance ==
    ASSUME NEW k \in {"rd", "wr"}, NEW p \in Places, NEW n \in Nat,
           Burst = [k |-> k, at |-> p, n |-> n]
    PROVE  BurstNext = IF n = BurstEnd(k) THEN NoBurst ELSE [k |-> k, at |-> p, n |-> n + 1]
<1>1. Burst # NoBurst /\ Burst.n = n /\ Burst.k = k
  BY DEF NoBurst
<1>2. QED
  BY <1>1 DEF BurstNext

(* READ and WRITE find the row of their line open.                         *)
LEMMA BurstStart ==
    ASSUME ControlType, RowType, PinInv, RowInv, SdClk
    PROVE  /\ SdOut.cmd = "WR" => Burst' = [k |-> "wr", at |-> Place(evict_adr), n |-> 0]
           /\ SdOut.cmd = "RD" => Burst' = [k |-> "rd", at |-> Place(refill_adr), n |-> 0]
           /\ SdOut.cmd \in {"PRE", "PREALL"} => Burst' = NoBurst
           /\ SdOut.cmd \in {"NOP", "ACT", "REF", "LMR"} => Burst' = BurstNext
<1>1. NextCmd = SdOut.cmd \/ (NextCmd = "NOP" /\ SdOut.cmd = "REF")
  BY SdPin
<1>2. Undef \notin Row
  BY YadmcAssumption
<1>3. ASSUME SdOut.cmd = "WR" PROVE Burst' = [k |-> "wr", at |-> Place(evict_adr), n |-> 0]
  <2>1. sdst = "WRITE" /\ Done("act")
    BY <1>3, OutCommand DEF ControlType
  <2>2. SdOut.ba = BankOf(evict_adr) /\ SdOut.a = ColOf(evict_adr)
    BY <2>1, OutWrite
  <2>3. OpenNext[BankOf(evict_adr)] = RowOf(evict_adr)
    BY <2>1, AdrPlaces DEF RowInv, RowsKnown, Activating, Tracked, NeedsRowswitch
  <2>4. RowOf(evict_adr) # NoRow
    BY <1>2, AdrPlaces DEF NoRow
  <2>5. QED
    BY <1>1, <1>3, <2>2, <2>3, <2>4, BurstStep DEF Place
<1>4. ASSUME SdOut.cmd = "RD" PROVE Burst' = [k |-> "rd", at |-> Place(refill_adr), n |-> 0]
  <2>1. sdst = "READ" /\ Done("act")
    BY <1>4, OutCommand DEF ControlType
  <2>2. SdOut.ba = BankOf(refill_adr) /\ SdOut.a = ColOf(refill_adr)
    BY <2>1, OutRead
  <2>3. OpenNext[BankOf(refill_adr)] = RowOf(refill_adr)
    BY <2>1, AdrPlaces DEF RowInv, RowsKnown, Activating, Tracked, NeedsRowswitch
  <2>4. RowOf(refill_adr) # NoRow
    BY <1>2, AdrPlaces DEF NoRow
  <2>5. QED
    BY <1>1, <1>4, <2>2, <2>3, <2>4, BurstStep DEF Place
<1>5. QED
  BY <1>1, <1>3, <1>4, BurstStep

-----------------------------------------------------------------------------
(* What the SDRAM side maintains, whatever the bus does.                   *)
SideInv == CountInv /\ DataType /\ PinInv /\ RowInv /\ BurstInv /\ DataInv

(* Row tracking is part of the data's types.                               *)
LEMMA RowTypeOf == ASSUME DataType PROVE RowType
  BY DEF DataType, RowType

(* The burst counter as a beat.                                            *)
LEMMA BeatTypes ==
    ASSUME CountInv
    PROVE  /\ bc \in Nat /\ bc <= 2*LineWords /\ 2*LineWords \in Nat /\ 2*LineWords >= 1
           /\ LineWords \in Nat
           /\ bc < 2*LineWords => /\ bc \in Beats /\ bc \div 2 \in LineIdx
                                  /\ (bc \div 2) % LineWords = bc \div 2
<1>1. /\ bc \in Nat /\ bc <= 2*LineWords /\ 2*LineWords \in Nat /\ 2*LineWords >= 1
      /\ LineWords \in Nat
  BY WaitTypes DEF CountInv
<1>2. ASSUME bc < 2*LineWords
      PROVE  /\ bc \in Beats /\ bc \div 2 \in LineIdx /\ (bc \div 2) % LineWords = bc \div 2
  <2>1. bc \in Beats /\ bc \div 2 \in 0 .. LineWords-1
    BY <1>1, <1>2 DEF Beats
  <2> DEFINE q == bc \div 2
  <2> HIDE DEF q
  <2>2. q \in 0 .. LineWords-1
    BY <2>1 DEF q
  <2>3. q % LineWords = q
    BY <1>1, <2>2
  <2>4. QED
    BY <2>1, <2>3 DEF q, LineIdx
<1>3. QED
  BY <1>1, <1>2

(* What the controller drives is in the cache.                             *)
LEMMA Driven ==
    ASSUME ControlType, SideInv, SdClk, SdOut.drive
    PROVE  /\ sdst \in {"WRITE", "WRITEBURST"} /\ bc < 2*LineWords
           /\ pins'.dq = Cached(evict_adr.idx, bc) /\ pins'.dq \in Val
<1>1. /\ CountInv /\ DataType /\ DataInv
  BY DEF SideInv
<1>2. (sdst = "WRITE" /\ Done("act")) \/ (sdst = "WRITEBURST" /\ ~BurstFinished)
  BY OutLanes DEF ControlType
<1>3. bc < 2*LineWords
  BY <1>1, <1>2, BeatTypes DEF DataInv, BurstFinished
<1>4. bc \in Beats /\ bc \div 2 \in LineIdx /\ (bc \div 2) % LineWords = bc \div 2
  BY <1>1, <1>3, BeatTypes
<1>5. do1 = cache[evict_adr.idx][bc \div 2]
  BY <1>1, <1>2, <1>4 DEF DataInv, WriteStates
<1>6. pins'.dq = do1[Lane(bc)]
  BY PinStep DEF Lane
<1>7. do1 \in [Lanes -> Val] /\ Lane(bc) \in Lanes
  BY <1>1, <1>4, BeatWord DEF DataType, Half
<1>8. QED
  BY <1>2, <1>3, <1>5, <1>6, <1>7 DEF Cached

(* A burst keeps to the chip's places and to its length.                   *)
LEMMA SdBurstType ==
    ASSUME ControlType, SideInv, SdClk
    PROVE  BurstType'
<1>1. DataType /\ PinInv /\ RowInv /\ BurstType /\ RowType
  BY RowTypeOf DEF SideInv, BurstInv
<1>2. /\ SdOut.cmd = "WR" => Burst' = [k |-> "wr", at |-> Place(evict_adr), n |-> 0]
      /\ SdOut.cmd = "RD" => Burst' = [k |-> "rd", at |-> Place(refill_adr), n |-> 0]
      /\ SdOut.cmd \in {"PRE", "PREALL"} => Burst' = NoBurst
      /\ SdOut.cmd \in {"NOP", "ACT", "REF", "LMR"} => Burst' = BurstNext
  BY <1>1, BurstStart
<1>3. SdOut.cmd \in PinCommands
  BY OutCommand DEF ControlType
<1>4. Place(evict_adr) \in Places /\ Place(refill_adr) \in Places
  BY AdrPlaces
<1>5. 0 <= BurstEnd("wr") /\ 0 <= BurstEnd("rd")
  BY WaitTypes DEF BurstEnd
<1>6. PICK b : b = Burst'
  OBVIOUS
<1>7. b # NoBurst => /\ b \in [k : {"rd", "wr"}, at : Places, n : Nat]
                     /\ b.n <= BurstEnd(b.k)
  <2>1. CASE SdOut.cmd \in {"WR", "RD"}
    BY <1>2, <1>4, <1>5, <1>6, <2>1
  <2>2. CASE SdOut.cmd \in {"PRE", "PREALL"}
    BY <1>2, <1>6, <2>2
  <2>3. CASE SdOut.cmd \in {"NOP", "ACT", "REF", "LMR"}
    BY <1>1, <1>2, <1>6, <2>3, BurstNextIs
  <2>4. QED
    BY <1>3, <2>1, <2>2, <2>3 DEF PinCommands
<1>8. QED
  BY <1>6, <1>7 DEF BurstType, NoBurst, BurstEnd, Places, Bank, Row, Col

(* A write burst that a reset interrupts.                                  *)
LEMMA SdBurstReset ==
    ASSUME ControlType, SideInv, SdClk, ~pins'.dqm, Burst'.k = "wr"
    PROVE  /\ pins'.dq \in Val /\ Burst'.at = Place(evict_adr)
           /\ sdst \in {"WRITE", "WRITEBURST"}
<1>1. DataType /\ PinInv /\ RowInv /\ BurstInv /\ BurstType /\ RowType /\ CountInv
  BY RowTypeOf DEF SideInv, BurstInv
<1>2. /\ SdOut.cmd = "WR" => Burst' = [k |-> "wr", at |-> Place(evict_adr), n |-> 0]
      /\ SdOut.cmd = "RD" => Burst' = [k |-> "rd", at |-> Place(refill_adr), n |-> 0]
      /\ SdOut.cmd \in {"PRE", "PREALL"} => Burst' = NoBurst
      /\ SdOut.cmd \in {"NOP", "ACT", "REF", "LMR"} => Burst' = BurstNext
  BY <1>1, BurstStart
<1>3. SdOut.cmd \in PinCommands /\ sdst \in SdStates
  BY OutCommand DEF ControlType
<1>4. SdOut.drive = ((sdst = "WRITE" /\ Done("act")) \/ (sdst = "WRITEBURST" /\ ~BurstFinished))
  BY <1>3, OutLanes
<1>5. CASE SdOut.cmd = "WR"
  <2>1. SdOut.drive
    BY <1>3, <1>4, <1>5, OutCommand
  <2>2. QED
    BY <1>2, <1>5, <2>1, Driven
<1>6. CASE SdOut.cmd # "WR"
  <2>1. SdOut.cmd \in {"NOP", "ACT", "REF", "LMR"} /\ Burst' = BurstNext
    BY <1>2, <1>3, <1>6 DEF PinCommands, NoBurst
  <2>2. Burst.k = "wr" /\ Burst'.at = Burst.at /\ Burst # NoBurst
    BY <1>1, <2>1, BurstNextIs DEF NoBurst
  <2>3. sdst \notin Reading
    BY <1>1, <2>2 DEF BurstInv, NoBurst
  <2>4. sdst \notin {"RESET", "INIT_PRECHARGEALL"}
    BY <1>3, <2>1, OutLanes, PinStep
  <2>5. sdst = "WRITEBURST"
    BY <1>1, <2>2, <2>3, <2>4 DEF BurstInv
  <2>6. Burst.at = Place(evict_adr) /\ Burst.n = bc - 1
    BY <1>1, <2>5 DEF BurstInv
  <2>7. ~BurstFinished
    <3>1. SUFFICES ASSUME BurstFinished PROVE FALSE
      OBVIOUS
    <3>2. Burst.n = BurstEnd(Burst.k)
      BY <1>1, <2>2, <2>6, <3>1, WaitTypes DEF BurstFinished, BurstEnd
    <3>3. QED
      BY <2>1, <3>2 DEF BurstNext, NoBurst
  <2>8. QED
    BY <1>4, <2>2, <2>5, <2>6, <2>7, Driven
<1>7. QED
  BY <1>5, <1>6

(* The burst and the state of the machine keep step.                       *)
LEMMA SdBurst ==
    ASSUME ControlType, SideInv, SdClk
    PROVE  BurstInv'
<1>1. DataType /\ PinInv /\ RowInv /\ BurstInv /\ BurstType /\ RowType /\ CountInv /\ DataInv
  BY RowTypeOf DEF SideInv, BurstInv
<1>2. /\ SdOut.cmd = "WR" => Burst' = [k |-> "wr", at |-> Place(evict_adr), n |-> 0]
      /\ SdOut.cmd = "RD" => Burst' = [k |-> "rd", at |-> Place(refill_adr), n |-> 0]
      /\ SdOut.cmd \in {"PRE", "PREALL"} => Burst' = NoBurst
      /\ SdOut.cmd \in {"NOP", "ACT", "REF", "LMR"} => Burst' = BurstNext
  BY <1>1, BurstStart
<1>3. BurstType'
  BY SdBurstType
<1>4. evict_adr' = evict_adr /\ refill_adr' = refill_adr
  BY <1>1, RowStep
<1>5. Place(evict_adr)' = Place(evict_adr) /\ Place(refill_adr)' = Place(refill_adr)
  BY <1>4 DEF Place, BankOf, RowOf, ColOf, Number
<1>6. Place(evict_adr) \in Places /\ Place(refill_adr) \in Places
  BY AdrPlaces
<1>7. sdst' = "RESET" /\ ~pins'.dqm /\ Burst'.k = "wr" =>
        pins'.dq \in Val /\ Burst'.at = Place(evict_adr)'
  BY <1>5, SdBurstReset
<1>8. CASE sdram_rst[2]
  <2>1. sdst' = "RESET"
    BY <1>8, PinStep
  <2>2. QED
    BY <1>3, <1>7, <2>1 DEF BurstInv, Reading
<1>9. CASE ~sdram_rst[2]
  <2>1. sdst' = SdOut.next /\ bc' = NextBc(SdOut) /\ pins'.dqm = SdOut.dqm /\ chip'.cke = pins.cke
    BY <1>9, PinStep, ChipStep
  <2>2. /\ bc \in Nat /\ bc <= 2*LineWords /\ 2*LineWords \in Nat /\ 2*LineWords >= 1
    BY <1>1, BeatTypes
  <2>3. CASE sdst = "RESET" \/ sdst = "INIT_PRECHARGEALL"
    <3>1. sdst' = "INIT_PRECHARGEALL" \/ (sdst' = "INIT_AUTOREFRESH1" /\ Burst' = NoBurst)
      BY <1>2, <2>1, <2>3, InitMoves DEF Moves, Stays
    <3>2. QED
      BY <1>3, <3>1 DEF BurstInv, Reading, NoBurst
  <2>4. CASE sdst \in Reading
    <3>1. Burst' = BurstNext
      BY <1>2, <2>4, ReadMoves DEF Moves, Reading
    <3>2. sdst' \in Reading \/ (sdst = "READBURST" /\ BurstLast /\ sdst' = "IDLE")
      BY <2>1, <2>4, ReadMoves DEF Moves, Reading
    <3>3. ReadBeat \in Nat
      BY <2>2 DEF ReadBeat
    <3>4. BurstNext = IF ReadBeat + 1 <= 2*LineWords + 1
                      THEN [k |-> "rd", at |-> Place(refill_adr), n |-> ReadBeat + 1]
                      ELSE NoBurst
      <4>1. BurstEnd("rd") = 2*LineWords + 1
        BY DEF BurstEnd
      <4>2. CASE ReadBeat <= 2*LineWords + 1
        <5>1. Burst = [k |-> "rd", at |-> Place(refill_adr), n |-> ReadBeat]
          BY <1>1, <2>4, <4>2 DEF BurstInv
        <5>2. BurstNext = IF ReadBeat = BurstEnd("rd") THEN NoBurst
                          ELSE [k |-> "rd", at |-> Place(refill_adr), n |-> ReadBeat + 1]
          BY <1>6, <3>3, <5>1, BurstAdvance
        <5>3. (ReadBeat = BurstEnd("rd")) <=> ~(ReadBeat + 1 <= 2*LineWords + 1)
          BY <2>2, <3>3, <4>1, <4>2
        <5>4. QED
          BY <5>2, <5>3
      <4>3. CASE ~(ReadBeat <= 2*LineWords + 1)
        <5>1. Burst = NoBurst
          BY <1>1, <2>4, <4>3 DEF BurstInv
        <5>2. ~(ReadBeat + 1 <= 2*LineWords + 1)
          BY <2>2, <3>3, <4>3
        <5>3. QED
          BY <1>1, <5>1, <5>2, BurstNextIs
      <4>4. QED
        BY <4>2, <4>3
    <3>5. CASE sdst' \in Reading
      <4>1. ReadBeat' = ReadBeat + 1
        <5>1. CASE sdst = "READBURST"
          <6>1. SdOut.burst = TRUE /\ sdst' = "READBURST"
            BY <2>1, <3>5, <5>1, ReadMoves DEF Moves, Reading
          <6>2. bc' = bc + 1
            BY <1>1, <2>1, <2>2, <5>1, <6>1 DEF NextBc, BurstFinished, CountInv
          <6>3. QED
            BY <2>2, <5>1, <6>1, <6>2 DEF ReadBeat
        <5>2. CASE sdst = "READFIRST"
          <6>1. SdOut.burst = FALSE /\ sdst' = "READBURST"
            BY <2>1, <5>2, ReadMoves DEF Moves
          <6>2. bc' = 0
            BY <2>1, <6>1 DEF NextBc
          <6>3. QED
            BY <5>2, <6>1, <6>2 DEF ReadBeat
        <5>3. CASE sdst \in {"READREG1", "READREG2", "READREG3"}
          BY <2>1, <5>3, ReadMoves DEF Moves, ReadBeat
        <5>4. QED
          BY <2>4, <5>1, <5>2, <5>3 DEF Reading
      <4>2. Burst' = IF ReadBeat' <= 2*LineWords + 1
                     THEN [k |-> "rd", at |-> Place(refill_adr)', n |-> ReadBeat']
                     ELSE NoBurst
        BY <1>5, <3>1, <3>4, <4>1
      <4>3. QED
        BY <1>3, <3>5, <4>2 DEF BurstInv, Reading, NoBurst
    <3>6. CASE sdst = "READBURST" /\ BurstLast /\ sdst' = "IDLE"
      <4>1. bc = 2*LineWords - 1
        BY <1>1, <3>6, BurstLastAt DEF CountInv
      <4>2. ReadBeat = 2*LineWords + 3
        BY <2>2, <3>6, <4>1 DEF ReadBeat
      <4>3. ~(ReadBeat + 1 <= 2*LineWords + 1)
        BY <2>2, <4>2
      <4>4. Burst' = NoBurst
        BY <3>1, <3>4, <4>3
      <4>5. QED
        BY <1>3, <3>6, <4>4 DEF BurstInv, Reading, NoBurst
    <3>7. QED
      BY <3>2, <3>5, <3>6
  <2>5. CASE sdst = "WRITEBURST"
    <3>1. /\ Burst = [k |-> "wr", at |-> Place(evict_adr), n |-> bc - 1] /\ bc - 1 \in Nat
          /\ BurstEnd("wr") = 2*LineWords - 1
      BY <1>1, <2>2, <2>5 DEF BurstInv, CountInv, BurstEnd
    <3>2. BurstNext = IF bc - 1 = BurstEnd("wr") THEN NoBurst
                      ELSE [k |-> "wr", at |-> Place(evict_adr), n |-> bc - 1 + 1]
      BY <1>6, <3>1, BurstAdvance
    <3>3. Burst' = BurstNext
      BY <1>2, <2>5, WriteMoves DEF Moves
    <3>4. CASE BurstFinished
      <4>1. sdst' = "PRECHARGE_BEFORE_READ"
        BY <2>1, <2>5, <3>4, WriteMoves DEF Moves
      <4>2. Burst' = NoBurst
        BY <2>2, <3>1, <3>2, <3>3, <3>4 DEF BurstFinished
      <4>3. QED
        BY <1>3, <4>1, <4>2 DEF BurstInv, Reading, NoBurst
    <3>5. CASE ~BurstFinished
      <4>1. sdst' = "WRITEBURST" /\ SdOut.burst = TRUE
        BY <2>1, <2>5, <3>5, WriteMoves DEF Moves
      <4>2. bc' = bc + 1 /\ bc' - 1 = bc
        BY <2>1, <2>2, <3>5, <4>1 DEF NextBc
      <4>3. Burst' = [k |-> "wr", at |-> Place(evict_adr), n |-> bc]
        <5>1. bc - 1 # BurstEnd("wr") /\ bc - 1 + 1 = bc
          BY <2>2, <3>1, <3>5 DEF BurstFinished
        <5>2. QED
          BY <3>2, <3>3, <5>1
      <4>4. SdOut.drive /\ ~SdOut.dqm /\ SdOut.we = {}
        BY <2>5, <3>5, OutLanes DEF ControlType
      <4>5. pins'.dq = Cached(evict_adr.idx, bc)
        BY <4>4, Driven
      <4>6. cache' = cache
        BY <1>1, <4>4, Port1Idle
      <4>7. chip'.cke
        BY <1>1, <2>1, <2>5 DEF PinInv
      <4>8. Cached(evict_adr.idx, bc - 1)' = Cached(evict_adr.idx, bc)
        BY <1>4, <4>2, <4>6 DEF Cached
      <4>9. Burst' = [k |-> "wr", at |-> Place(evict_adr)', n |-> bc' - 1]
        BY <1>5, <4>2, <4>3
      <4>10. QED
        BY <1>3, <2>1, <4>1, <4>4, <4>5, <4>7, <4>8, <4>9 DEF BurstInv, Reading, NoBurst
    <3>6. QED
      BY <3>4, <3>5
  <2>6. CASE sdst = "WRITE" /\ Done("act")
    <3>1. sdst' = "WRITEBURST" /\ SdOut.cmd = "WR" /\ SdOut.burst = TRUE
      BY <2>1, <2>6, WriteMoves DEF Moves
    <3>2. bc = 0 /\ bc' = 1 /\ bc' - 1 = bc
      BY <1>1, <2>1, <2>2, <2>6, <3>1 DEF CountInv, NextBc, BurstFinished
    <3>3. SdOut.drive /\ ~SdOut.dqm /\ SdOut.we = {}
      BY <2>6, OutLanes DEF ControlType
    <3>4. pins'.dq = Cached(evict_adr.idx, bc)
      BY <3>3, Driven
    <3>5. cache' = cache
      BY <1>1, <3>3, Port1Idle
    <3>6. chip'.cke
      BY <1>1, <2>1, <2>6 DEF PinInv
    <3>7. Cached(evict_adr.idx, bc - 1)' = Cached(evict_adr.idx, bc)
      BY <1>4, <3>2, <3>5 DEF Cached
    <3>8. Burst' = [k |-> "wr", at |-> Place(evict_adr)', n |-> bc' - 1]
      BY <1>2, <1>5, <3>1, <3>2
    <3>9. QED
      BY <1>3, <2>1, <3>1, <3>3, <3>4, <3>6, <3>7, <3>8 DEF BurstInv, Reading, NoBurst
  <2>7. CASE sdst = "READ" /\ Done("act")
    <3>1. sdst' = "READREG1" /\ SdOut.cmd = "RD"
      BY <2>1, <2>7, ReadMoves DEF Moves
    <3>2. ReadBeat' = 0
      BY <3>1 DEF ReadBeat
    <3>3. Burst' = [k |-> "rd", at |-> Place(refill_adr)', n |-> ReadBeat']
      BY <1>2, <1>5, <3>1, <3>2
    <3>4. ReadBeat' <= 2*LineWords + 1
      BY <2>2, <3>2
    <3>5. QED
      BY <1>3, <3>1, <3>3, <3>4 DEF BurstInv, Reading, NoBurst
  <2>8. CASE /\ sdst \notin Reading \cup {"RESET", "INIT_PRECHARGEALL", "WRITEBURST"}
             /\ ~(sdst = "WRITE" /\ Done("act")) /\ ~(sdst = "READ" /\ Done("act"))
    <3>1. Burst = NoBurst
      BY <1>1, <2>8 DEF BurstInv
    <3>2. SdOut.cmd \in PinCommands \ {"RD", "WR"}
      BY <2>8, OutCommand DEF ControlType
    <3>3. Burst' = NoBurst
      BY <1>1, <1>2, <3>1, <3>2, BurstNextIs DEF PinCommands
    <3>4. sdst' \notin Reading \cup {"WRITEBURST"}
      BY <2>1, <2>8, InitMoves, IdleMoves, RefreshMoves, WriteMoves, ReadMoves
         DEF ControlType, SdStates, InitStates, RefreshStates, WriteStates, ReadStates,
             Moves, Stays, Reading
    <3>5. QED
      BY <1>3, <1>7, <3>3, <3>4 DEF BurstInv, NoBurst, Reading
  <2>9. QED
    BY <2>3, <2>4, <2>5, <2>6, <2>7, <2>8
<1>10. QED
  BY <1>8, <1>9

-----------------------------------------------------------------------------
(* During the power-on wait nothing is given to the chip; a READ or WRITE  *)
(* on the pins belongs to the line being served, unless a reset has hit.   *)
StartInv ==
    /\ sdst = "INIT_PRECHARGEALL" => pins.dqm /\ pins.cmd = "NOP"
    /\ pins.cmd \in {"WR", "RD"} => Serving \/ sdst = "RESET"

(* READ and WRITE come from serving a line.                                *)
LEMMA SdStart ==
    ASSUME ControlType, SdClk
    PROVE  StartInv'
<1>1. /\ pins'.cmd = SdOut.cmd /\ pins'.dqm = SdOut.dqm
      /\ sdst' = IF sdram_rst[2] THEN "RESET" ELSE SdOut.next
  BY PinStep
<1>2. sdst \in SdStates
  BY DEF ControlType
<1>3. SdOut.next = "INIT_PRECHARGEALL" => sdst \in {"RESET", "INIT_PRECHARGEALL"} /\ SdOut.cmd = "NOP"
  BY <1>2, InitMoves, IdleMoves, RefreshMoves, WriteMoves, ReadMoves
     DEF SdStates, InitStates, RefreshStates, WriteStates, ReadStates, Moves, Stays
<1>4. SdOut.next = "INIT_PRECHARGEALL" => SdOut.dqm
  BY <1>2, <1>3, OutLanes
<1>5. SdOut.cmd \in {"WR", "RD"} => SdOut.next \in {"WRITEBURST", "READREG1"}
  <2>1. SdOut.cmd \in {"WR", "RD"} => sdst \in {"WRITE", "READ"} /\ Done("act")
    BY <1>2, OutCommand
  <2>2. QED
    BY <2>1, WriteMoves, ReadMoves DEF Moves
<1>6. QED
  BY <1>1, <1>3, <1>4, <1>5 DEF StartInv, Serving, WriteStates, ReadStates

(* What the chip stores in an edge: at most one beat, of the line that is  *)
(* being evicted.                                                          *)
Storing == Burst.k = "wr" /\ ~pins.dqm
(* What the chip stores is a beat of the line being evicted.               *)
LEMMA Stores ==
    ASSUME ControlType, SideInv, StartInv, Storing
    PROVE  /\ sdst \in {"WRITEBURST", "RESET"} /\ Burst.at = Place(evict_adr)
           /\ pins.dq \in Val /\ Burst.n \in Beats
<1>1. BurstInv /\ BurstType /\ CountInv /\ DataType
  BY DEF SideInv, BurstInv
<1>2. Burst # NoBurst
  BY DEF Storing, NoBurst
<1>3. sdst \notin Reading
  BY <1>1 DEF Storing, BurstInv, NoBurst
<1>4. sdst \in {"WRITEBURST", "RESET"}
  BY <1>1, <1>2, <1>3 DEF BurstInv, StartInv, Storing
<1>5. Burst.at = Place(evict_adr)
  BY <1>1, <1>4 DEF BurstInv, Storing
<1>6. Burst.n \in Beats
  <2>1. Burst.n \in Nat /\ Burst.n <= BurstEnd("wr")
    BY <1>1, <1>2 DEF BurstType, Storing
  <2>2. QED
    BY <2>1, WaitTypes DEF BurstEnd, Beats
<1>7. pins.dq \in Val
  <2>1. CASE sdst = "RESET"
    BY <1>1, <2>1 DEF BurstInv, Storing
  <2>2. CASE sdst = "WRITEBURST"
    <3>1. PICK j \in Beats : j = bc - 1
      BY <1>1, <2>2, WaitTypes DEF CountInv, Beats
    <3>2. pins.dq = Cached(evict_adr.idx, j)
      BY <1>1, <2>2, <3>1 DEF BurstInv
    <3>3. j \div 2 \in LineIdx /\ Lane(j) \in Lanes /\ evict_adr.idx \in Idx
      BY BeatWord, AdrPlaces
    <3>4. cache \in [Idx -> [LineIdx -> [Lanes -> Val]]]
      BY <1>1 DEF DataType, Half
    <3>5. QED
      BY <3>2, <3>3, <3>4 DEF Cached
  <2>3. QED
    BY <1>4, <2>1, <2>2
<1>8. QED
  BY <1>4, <1>5, <1>6, <1>7

(* What an edge changes in the chip.                                       *)
LEMMA DramStep ==
    ASSUME ControlType, SideInv, StartInv, SdClk
    PROVE  /\ dram' \in [Places -> [Beats -> Val]]
           /\ ~Storing => dram' = dram
           /\ \A p \in Places : p # Place(evict_adr) => dram'[p] = dram[p]
           /\ Storing /\ chip.cke => \A j \in Beats : dram'[Place(evict_adr)][j] =
                IF j = Burst.n THEN pins.dq ELSE dram[Place(evict_adr)][j]
<1>1. dram' = IF Taken /\ ~pins.dqm
              THEN [dram EXCEPT ![Burst.at][Burst.n] = pins.dq] ELSE dram
  BY ChipStep
<1>2. dram \in [Places -> [Beats -> Val]]
  BY DEF SideInv, DataType
<1>3. CASE ~(Taken /\ ~pins.dqm)
  BY <1>1, <1>2, <1>3 DEF Taken, Storing
<1>4. CASE Taken /\ ~pins.dqm
  <2>1. Storing
    BY <1>4 DEF Taken, Storing
  <2>2. Burst.at = Place(evict_adr) /\ pins.dq \in Val /\ Burst.n \in Beats
    BY <2>1, Stores
  <2>3. Place(evict_adr) \in Places
    BY AdrPlaces
  <2>4. PICK p \in Places, n \in Beats, v \in Val : p = Place(evict_adr) /\ n = Burst.n /\ v = pins.dq
    BY <2>2, <2>3
  <2>5. dram' = [dram EXCEPT ![p][n] = v]
    BY <1>1, <1>4, <2>2, <2>4
  <2>6. dram' \in [Places -> [Beats -> Val]]
    BY <1>2, <2>5
  <2>7. \A q \in Places : q # p => dram'[q] = dram[q]
    BY <1>2, <2>5
  <2>8. \A j \in Beats : dram'[p][j] = IF j = n THEN v ELSE dram[p][j]
    BY <1>2, <2>5
  <2>9. QED
    BY <2>1, <2>4, <2>6, <2>7, <2>8
<1>5. QED
  BY <1>3, <1>4

(* The beat that a refill writes into the cache.                           *)
LEMMA NextLane ==
    ASSUME NEW n \in Nat
    PROVE  Lane(n + 1) = IF n % 2 = 1 THEN "hi" ELSE "lo"
  BY DEF Lane

(* What an edge changes in the cache: the next beat of a refill.           *)
LEMMA FillStep ==
    ASSUME ControlType, SideInv, SdClk
    PROVE  /\ cache' \in [Idx -> [LineIdx -> Half]] /\ do1' \in Half
           /\ \A i \in Idx : i # msb => cache'[i] = cache[i]
           /\ sdst \notin {"READFIRST", "READBURST"} \/ (sdst = "READBURST" /\ BurstLast) =>
                cache' = cache /\ do1' = cache[msb][Port1Word]
           /\ sdst = "READFIRST" \/ (sdst = "READBURST" /\ ~BurstLast) =>
                \E b \in Beats : /\ b = IF sdst = "READFIRST" THEN 0 ELSE bc + 1
                                 /\ bc' = b
                                 /\ dq_in = dram[Place(refill_adr)][b]
                                 /\ \A j \in Beats : cache'[msb][j \div 2][Lane(j)] =
                                      IF j = b THEN dq_in ELSE cache[msb][j \div 2][Lane(j)]
<1>1. CountInv /\ DataType /\ DataInv
  BY DEF SideInv
<1>2. SdOut.we = CASE sdst = "READFIRST" -> {"hi"}
                   [] sdst = "READBURST" /\ ~BurstLast -> IF bc % 2 = 1 THEN {"hi"} ELSE {"lo"}
                   [] OTHER -> {}
  BY OutLanes DEF ControlType
<1>3. CASE sdst \notin {"READFIRST", "READBURST"} \/ (sdst = "READBURST" /\ BurstLast)
  <2>1. cache' = cache /\ do1' = cache[msb][Port1Word] /\ do1' \in Half
    BY <1>1, <1>2, <1>3, Port1Idle
  <2>2. QED
    BY <1>1, <1>3, <2>1 DEF DataType
<1>4. CASE sdst = "READFIRST" \/ (sdst = "READBURST" /\ ~BurstLast)
  <2>1. /\ bc \in Nat /\ bc <= 2*LineWords /\ 2*LineWords \in Nat /\ 2*LineWords >= 1
    BY <1>1, BeatTypes
  <2>2. bc' = NextBc(SdOut)
    BY PinStep
  <2>3. PICK b \in Beats : /\ b = IF sdst = "READFIRST" THEN 0 ELSE bc + 1
                           /\ bc' = b /\ SdOut.we = {Lane(b)}
                           /\ dq_in = dram[Place(refill_adr)][b]
    <3>1. CASE sdst = "READFIRST"
      <4>1. SdOut.burst = FALSE
        BY <3>1, ReadMoves DEF Moves
      <4>2. bc' = 0
        BY <2>2, <4>1 DEF NextBc
      <4>3. SdOut.we = {Lane(0)} /\ 0 \in Beats
        BY <1>2, <2>1, <3>1 DEF Lane, Beats
      <4>4. QED
        BY <1>1, <3>1, <4>2, <4>3 DEF DataInv
    <3>2. CASE sdst = "READBURST" /\ ~BurstLast
      <4>1. SdOut.burst = TRUE
        BY <3>2, ReadMoves DEF Moves
      <4>2. bc < 2*LineWords /\ bc + 1 < 2*LineWords
        BY <1>1, <2>1, <3>2, BurstLastAt DEF CountInv
      <4>3. bc' = bc + 1 /\ bc + 1 \in Beats
        BY <2>1, <2>2, <4>1, <4>2 DEF NextBc, BurstFinished, Beats
      <4>4. SdOut.we = {Lane(bc + 1)}
        BY <1>2, <2>1, <3>2, NextLane
      <4>5. QED
        BY <1>1, <3>2, <4>2, <4>3, <4>4 DEF DataInv
    <3>3. QED
      BY <1>4, <3>1, <3>2
  <2>4. dq_in \in Val
    <3>1. dram \in [Places -> [Beats -> Val]] /\ Place(refill_adr) \in Places
      BY <1>1, AdrPlaces DEF DataType
    <3>2. QED
      BY <2>3, <3>1
  <2>5. b \div 2 = Port1Word
    <3>1. (b \div 2) % LineWords = b \div 2
      <4>1. b \div 2 \in 0 .. LineWords-1 /\ LineWords \in Nat
        BY BeatWord, WaitTypes DEF LineIdx
      <4> DEFINE q == b \div 2
      <4> HIDE DEF q
      <4>2. q \in 0 .. LineWords-1
        BY <4>1 DEF q
      <4>3. q % LineWords = q
        BY <4>1, <4>2
      <4>4. QED
        BY <4>3 DEF q
    <3>2. QED
      BY <2>3, <3>1 DEF Port1Word
  <2>6. /\ cache' \in [Idx -> [LineIdx -> Half]] /\ do1' \in Half
        /\ \A i \in Idx : i # msb => cache'[i] = cache[i]
        /\ \A j \in Beats : cache'[msb][j \div 2][Lane(j)] =
             IF j = b THEN dq_in ELSE cache[msb][j \div 2][Lane(j)]
    BY <1>1, <2>3, <2>4, <2>5, Port1Write
  <2>7. QED
    BY <1>4, <2>3, <2>6
<1>5. QED
  BY <1>3, <1>4

(* The data keep to their types: neither cache nor chip takes Undef.       *)
LEMMA SdDataType ==
    ASSUME ControlType, SideInv, StartInv, SdClk
    PROVE  DataType'
<1>1. DataType /\ RowType
  BY RowTypeOf DEF SideInv
<1>2. RowType'
  BY <1>1, SdRowType
<1>3. dram' \in [Places -> [Beats -> Val]]
  BY DramStep
<1>4. cache' \in [Idx -> [LineIdx -> Half]] /\ do1' \in Half
  BY FillStep
<1>5. UNCHANGED <<rsp, do0, fresh>>
  BY DEF SdClk, sysvars
<1>6. QED
  BY <1>1, <1>2, <1>3, <1>4, <1>5 DEF DataType, RowType

(* Port 1 is switched to the line being served.                            *)
LEMMA MsbStep ==
    ASSUME SdClk
    PROVE  /\ SdOut.msb = "evict" => msb' = evict_adr.idx
           /\ SdOut.msb = "refill" => msb' = refill_adr.idx
           /\ SdOut.msb = "" => msb' = msb
<1>1. SdRegisters(SdOut)
  BY DEF SdClk
<1>2. QED
  BY <1>1 DEF SdRegisters

(* Beat by beat, an eviction and a refill copy the line.                   *)
LEMMA SdData ==
    ASSUME ControlType, SideInv, StartInv, SdClk
    PROVE  DataInv'
<1>1. DataType /\ BurstInv /\ RowType /\ CountInv /\ DataInv /\ sdst \in SdStates
  BY RowTypeOf DEF SideInv, ControlType
<1>2. evict_adr' = evict_adr /\ refill_adr' = refill_adr
  BY <1>1, RowStep
<1>3. Place(evict_adr)' = Place(evict_adr) /\ Place(refill_adr)' = Place(refill_adr)
  BY <1>2 DEF Place, BankOf, RowOf, ColOf, Number
<1>4. CASE sdram_rst[2]
  <2>1. sdst' = "RESET"
    BY <1>4, PinStep
  <2>2. QED
    BY <2>1 DEF DataInv, WriteStates, ReadStates
<1>5. CASE ~sdram_rst[2]
  <2>1. sdst' = SdOut.next /\ bc' = NextBc(SdOut)
    BY <1>5, PinStep
  <2>2. /\ bc \in Nat /\ bc <= 2*LineWords /\ 2*LineWords \in Nat /\ 2*LineWords >= 1
    BY <1>1, BeatTypes
  <2>3. /\ sdst' \in WriteStates => msb' = evict_adr.idx
        /\ sdst' \in ReadStates => msb' = refill_adr.idx
    <3>1. CASE sdst = "IDLE"
      BY <1>1, <2>1, <3>1, OutLine, MsbStep
    <3>2. CASE sdst = "WRITEBURST"
      <4>1. IF BurstFinished THEN SdOut.msb = "refill" /\ sdst' = "PRECHARGE_BEFORE_READ"
            ELSE SdOut.msb = "" /\ sdst' = "WRITEBURST"
        BY <1>1, <2>1, <3>2, OutLine, WriteMoves DEF Moves
      <4>2. msb = evict_adr.idx
        BY <1>1, <3>2 DEF DataInv, WriteStates
      <4>3. QED
        BY <4>1, <4>2, MsbStep DEF WriteStates, ReadStates
    <3>3. CASE sdst \notin {"IDLE", "WRITEBURST"}
      <4>1. msb' = msb
        BY <1>1, <3>3, OutLine, MsbStep
      <4>2. /\ sdst' \in WriteStates => sdst \in WriteStates
            /\ sdst' \in ReadStates => sdst \in ReadStates
        BY <1>1, <2>1, <3>3, InitMoves, RefreshMoves, WriteMoves, ReadMoves
           DEF SdStates, InitStates, RefreshStates, WriteStates, ReadStates, Moves, Stays
      <4>3. QED
        BY <1>1, <4>1, <4>2 DEF DataInv
    <3>4. QED
      BY <3>1, <3>2, <3>3
  <2>4. CASE sdst' \in {"ACTIVATE_BEFORE_WRITE", "WRITE", "WRITEBURST"}
    <3>1. /\ sdst \in {"PRECHARGE_BEFORE_WRITE", "ACTIVATE_BEFORE_WRITE", "WRITE", "WRITEBURST"}
          /\ sdst' # "WRITEBURST" => SdOut.burst = FALSE /\ sdst # "WRITEBURST"
          /\ sdst' = "WRITEBURST" => /\ SdOut.burst = TRUE
                                     /\ sdst = "WRITE" \/ (sdst = "WRITEBURST" /\ ~BurstFinished)
      BY <1>1, <2>1, <2>4, InitMoves, IdleMoves, RefreshMoves, WriteMoves, ReadMoves
         DEF SdStates, InitStates, RefreshStates, WriteStates, ReadStates, Moves, Stays
    <3>2. cache' = cache /\ do1' = cache[msb][Port1Word]
      BY <3>1, FillStep
    <3>3. msb' = msb
      BY <1>1, <2>1, <2>4, <3>1, OutLine, MsbStep
    <3>4. sdst' \in {"ACTIVATE_BEFORE_WRITE", "WRITE"} => bc' = 0
      BY <2>1, <3>1 DEF NextBc
    <3>5. sdst' = "WRITEBURST" => \A j \in Beats : j < bc' - 1 =>
            dram'[Place(evict_adr)][j] = Cached(evict_adr.idx, j)
      <4>1. CASE sdst' = "WRITEBURST" /\ sdst = "WRITE"
        <5>1. bc' = 1
          BY <1>1, <2>1, <2>2, <3>1, <4>1 DEF NextBc, CountInv, BurstFinished
        <5>2. \A j \in Beats : ~(j < bc' - 1)
          BY <2>2, <5>1 DEF Beats
        <5>3. QED
          BY <5>2
      <4>2. CASE sdst' = "WRITEBURST" /\ sdst = "WRITEBURST" /\ ~BurstFinished
        <5>1. bc' - 1 = bc /\ bc >= 1
          BY <1>1, <2>1, <2>2, <3>1, <4>2 DEF NextBc, CountInv
        <5>2. /\ Burst = [k |-> "wr", at |-> Place(evict_adr), n |-> bc - 1]
              /\ ~pins.dqm /\ chip.cke /\ pins.dq = Cached(evict_adr.idx, bc - 1)
          BY <1>1, <4>2 DEF BurstInv
        <5>3. Storing /\ Burst.n = bc - 1
          BY <5>2 DEF Storing
        <5>4. ASSUME NEW j \in Beats, j < bc
              PROVE  dram'[Place(evict_adr)][j] = Cached(evict_adr.idx, j)
          <6>1. dram'[Place(evict_adr)][j] =
                  IF j = bc - 1 THEN pins.dq ELSE dram[Place(evict_adr)][j]
            BY <5>2, <5>3, DramStep
          <6>2. j # bc - 1 => j < bc - 1
            BY <2>2, <5>1, <5>4 DEF Beats
          <6>3. QED
            BY <1>1, <4>2, <5>2, <6>1, <6>2 DEF DataInv
        <5>5. QED
          BY <5>1, <5>4
      <4>3. QED
        BY <3>1, <4>1, <4>2
    <3>6. do1' = cache'[msb'][(bc' \div 2) % LineWords]
      BY <3>2, <3>3 DEF Port1Word
    <3>7. sdst' = "WRITEBURST" => \A j \in Beats : j < bc' - 1 =>
            dram'[Place(evict_adr)'][j] = Cached(evict_adr.idx, j)'
      BY <1>2, <1>3, <3>2, <3>5 DEF Cached
    <3>8. QED
      BY <1>2, <2>3, <2>4, <3>4, <3>6, <3>7 DEF DataInv, WriteStates, ReadStates, Beats
  <2>5. CASE sdst' \in {"READFIRST", "READBURST"}
    <3>1. \/ sdst = "READREG3" /\ sdst' = "READFIRST"
          \/ sdst = "READFIRST" /\ sdst' = "READBURST"
          \/ sdst = "READBURST" /\ sdst' = "READBURST" /\ ~BurstLast
      BY <1>1, <2>1, <2>5, InitMoves, IdleMoves, RefreshMoves, WriteMoves, ReadMoves
         DEF SdStates, InitStates, RefreshStates, WriteStates, ReadStates, Moves, Stays
    <3>2. Burst = IF ReadBeat <= 2*LineWords + 1
                  THEN [k |-> "rd", at |-> Place(refill_adr), n |-> ReadBeat]
                  ELSE NoBurst
      BY <1>1, <3>1 DEF BurstInv, Reading
    <3>3. dram' = dram
      BY <3>2, DramStep DEF Storing, NoBurst
    <3>4. ReadBeat \in Nat
      BY <2>2 DEF ReadBeat
    <3>5. ReadBeat <= 2*LineWords + 1 /\ ReadBeat >= 2 =>
            dq_in' = dram[Place(refill_adr)][ReadBeat - 2]
      BY <3>2, <3>4, ChipStep
    <3>6. CASE sdst' = "READFIRST"
      <4>1. ReadBeat = 2
        BY <3>1, <3>6 DEF ReadBeat
      <4>2. dq_in' = dram[Place(refill_adr)][0]
        BY <2>2, <3>5, <4>1
      <4>3. QED
        BY <1>2, <1>3, <2>3, <3>3, <3>6, <4>2 DEF DataInv, WriteStates, ReadStates
    <3>7. CASE sdst' = "READBURST"
      <4>1. PICK b \in Beats : /\ b = IF sdst = "READFIRST" THEN 0 ELSE bc + 1
                               /\ bc' = b
                               /\ dq_in = dram[Place(refill_adr)][b]
                               /\ \A j \in Beats : cache'[msb][j \div 2][Lane(j)] =
                                    IF j = b THEN dq_in ELSE cache[msb][j \div 2][Lane(j)]
        BY <3>1, <3>7, FillStep
      <4>2. msb = refill_adr.idx
        BY <1>1, <3>1, <3>7 DEF DataInv, ReadStates
      <4>3. ReadBeat = b + 3 /\ b \in Nat
        BY <2>2, <3>1, <3>7, <4>1 DEF ReadBeat, Beats
      <4>4. b + 1 < 2*LineWords => dq_in' = dram[Place(refill_adr)][b + 1]
        <5>1. ASSUME b + 1 < 2*LineWords
              PROVE  ReadBeat <= 2*LineWords + 1 /\ ReadBeat >= 2 /\ ReadBeat - 2 = b + 1
          BY <2>2, <4>3, <5>1
        <5>2. QED
          BY <3>5, <5>1
      <4>5. ASSUME NEW j \in Beats, j <= b
            PROVE  cache'[refill_adr.idx][j \div 2][Lane(j)] = dram[Place(refill_adr)][j]
        <5>1. CASE j = b
          BY <4>1, <4>2, <5>1
        <5>2. CASE j # b
          <6>1. sdst = "READBURST" /\ j <= bc
            BY <2>2, <3>1, <3>7, <4>1, <4>5, <5>2 DEF Beats
          <6>2. cache[refill_adr.idx][j \div 2][Lane(j)] = dram[Place(refill_adr)][j]
            BY <1>1, <6>1 DEF DataInv, Cached
          <6>3. QED
            BY <4>1, <4>2, <5>2, <6>2
        <5>3. QED
          BY <5>1, <5>2
      <4>6. /\ bc' + 1 < 2*LineWords => dq_in' = dram'[Place(refill_adr)'][bc' + 1]
            /\ \A j \in Beats : j <= bc' =>
                 Cached(refill_adr.idx, j)' = dram'[Place(refill_adr)'][j]
        BY <1>2, <1>3, <3>3, <4>1, <4>4, <4>5 DEF Cached
      <4>7. QED
        BY <1>2, <2>3, <3>7, <4>6 DEF DataInv, WriteStates, ReadStates, Beats
    <3>8. QED
      BY <2>5, <3>6, <3>7
  <2>6. CASE sdst' \notin {"ACTIVATE_BEFORE_WRITE", "WRITE", "WRITEBURST",
                           "READFIRST", "READBURST"}
    BY <1>2, <2>3, <2>6 DEF DataInv, WriteStates, ReadStates
  <2>7. QED
    BY <2>4, <2>5, <2>6
<1>6. QED
  BY <1>4, <1>5

(* An edge of sdram_clk keeps the SDRAM side's invariant.                  *)
LEMMA SdSide ==
    ASSUME ControlType, SideInv, StartInv, SdClk
    PROVE  SideInv' /\ StartInv'
<1>1. CountInv /\ RowType /\ PinInv /\ RowInv
  BY RowTypeOf DEF SideInv
<1>2. CountInv' /\ PinInv' /\ RowInv'
  BY <1>1, SdCount, SdPin, SdRow
<1>3. DataType' /\ BurstInv' /\ DataInv' /\ StartInv'
  BY SdDataType, SdBurst, SdData, SdStart
<1>4. QED
  BY <1>2, <1>3 DEF SideInv

-----------------------------------------------------------------------------
(* Resets.  While sys_rst is up the bus rests; by the time it may be       *)
(* released the machine has stopped and nothing is on the pins.            *)
QuietInv ==
    /\ rst.up => bus = [ph |-> "idle", rq |-> Rest]
    /\ rst.up /\ rst.held >= 4 => pins.dqm /\ pins.cmd = "NOP"
    /\ rst.up /\ sst = "WAIT_ACK" => Adr.idx \in fresh
    /\ ~rst.up => /\ sdram_rst[1] => sdram_rst[2]
                  /\ sdram_rst[2] => sdst = "RESET"
                  /\ sdst = "RESET" => pins.dqm /\ pins.cmd = "NOP"

(* The SDRAM side has, or will have, to do with a line.  If a reset comes, *)
(* it goes on for some edges: with the line whose contents the reset has   *)
(* made uncertain, and with the cache side standing still.                 *)
Active ==
    Held \/ Flag("evict") \/ Flag("refill") \/ pins.cmd \in {"RD", "WR"} \/ Storing
LineInv ==
    rst.up /\ Active =>
        /\ sst # "CHECK_HIT" /\ ~(sst = "WAIT_ACK" /\ Flag("ack"))
        /\ evict_adr.idx \in fresh /\ refill_adr.idx = evict_adr.idx
        /\ evict_adr.tag = tags[evict_adr.idx].tag

CoreInv == CommandInv /\ SideInv /\ StartInv /\ QuietInv /\ LineInv

(* A flag that is seen is under way.                                       *)
LEMMA FlatFlag == ASSUME NEW ch \in Channels PROVE Flag(ch) => ~Flat(ch)
  BY DEF Flag, Flat

(* Whose line it is, with and without a reset.                             *)
LEMMA ActiveLine ==
    ASSUME CoreInv, Active
    PROVE  /\ sst # "CHECK_HIT" /\ ~(sst = "WAIT_ACK" /\ Flag("ack"))
           /\ refill_adr.idx = evict_adr.idx /\ evict_adr.tag = tags[evict_adr.idx].tag
           /\ rst.up => evict_adr.idx \in fresh
           /\ ~rst.up => /\ sst = "WAIT_ACK" /\ evict_adr.idx = Adr.idx /\ Flat("ack")
                         /\ evict_adr.tag # refill_adr.tag
<1>1. CommandInv /\ SideInv /\ StartInv /\ QuietInv /\ LineInv /\ ControlType /\ HandInv /\ AdrInv
  BY DEF CoreInv, CommandInv
<1>2. CASE rst.up
  BY <1>1, <1>2 DEF LineInv
<1>3. CASE ~rst.up
  <2>1. Held \/ Flag("evict") \/ Flag("refill")
    <3>1. CASE pins.cmd \in {"RD", "WR"}
      <4>1. sdst # "RESET"
        BY <1>1, <1>3, <3>1 DEF QuietInv
      <4>2. QED
        BY <1>1, <3>1, <4>1 DEF StartInv, Held
    <3>2. CASE Storing
      <4>1. sdst # "RESET"
        BY <1>1, <1>3, <3>2 DEF QuietInv, Storing
      <4>2. sdst = "WRITEBURST"
        BY <1>1, <3>2, <4>1, Stores
      <4>3. QED
        BY <4>2 DEF Held, Serving, WriteStates
    <3>3. QED
      BY <3>1, <3>2 DEF Active
  <2>2. sst = "WAIT_ACK" /\ Flat("ack")
    <3>1. /\ Flag("evict") => ~Flat("evict")
          /\ Flag("refill") => ~Flat("refill")
      BY FlatFlag DEF Channels
    <3>2. QED
      BY <1>1, <1>3, <2>1, <3>1 DEF HandInv, AllFlat
  <2>3. ~Flag("ack")
    BY <2>2, FlatFlag DEF Channels
  <2>4. QED
    BY <1>1, <1>3, <2>2, <2>3 DEF AdrInv
<1>4. QED
  BY <1>2, <1>3

(* The cache side leaves everything alone that the SDRAM side looks at.    *)
LEMMA Port0Type ==
    ASSUME ControlType, DataType
    PROVE  /\ Port0 \in Half /\ Adr.idx \in Idx /\ Adr.w \in LineIdx /\ Adr.tag \in Tag
           /\ bus.rq.we \in BOOLEAN /\ bus.rq.sel \subseteq Lanes /\ bus.rq.dat \in Half
           /\ ~(WbAck /\ bus.rq.we) => Port0 = cache[Adr.idx][Adr.w]
<1>1. bus.rq \in Request
  BY YadmcAssumption DEF ControlType
<1>2. /\ bus.rq.adr \in Word /\ bus.rq.we \in BOOLEAN /\ bus.rq.sel \subseteq Lanes
      /\ bus.rq.dat \in Half
  BY <1>1 DEF Request
<1>3. Adr.idx \in Idx /\ Adr.w \in LineIdx /\ Adr.tag \in Tag
  BY <1>2 DEF Adr, Word, LineIdx
<1>4. cache[Adr.idx][Adr.w] \in [Lanes -> Val]
  BY <1>3 DEF DataType, Half
<1>5. Port0 \in [Lanes -> Val]
  BY <1>2, <1>4 DEF Port0, Half
<1>6. ~(WbAck /\ bus.rq.we) => Port0 = cache[Adr.idx][Adr.w]
  BY <1>4 DEF Port0
<1>7. QED
  BY <1>2, <1>3, <1>5, <1>6 DEF Half

(* Port 0 changes at most the word on the bus.                             *)
LEMMA CacheStep ==
    ASSUME ControlType, DataType, SysClk
    PROVE  /\ cache' \in [Idx -> [LineIdx -> Half]]
           /\ ~(WbAck /\ bus.rq.we) => cache' = cache
           /\ cache'[Adr.idx][Adr.w] = Port0
           /\ \A i \in Idx, w \in LineIdx :
                i # Adr.idx \/ w # Adr.w => cache'[i][w] = cache[i][w]
<1>1. /\ Port0 \in Half /\ Adr.idx \in Idx /\ Adr.w \in LineIdx
      /\ ~(WbAck /\ bus.rq.we) => Port0 = cache[Adr.idx][Adr.w]
  BY Port0Type
<1>2. cache' = [cache EXCEPT ![Adr.idx][Adr.w] = Port0]
  BY DEF SysClk
<1>3. cache \in [Idx -> [LineIdx -> Half]]
  BY DEF DataType
<1>4. PICK i \in Idx, w \in LineIdx, p \in Half : i = Adr.idx /\ w = Adr.w /\ p = Port0
  BY <1>1
<1>5. cache' = [cache EXCEPT ![i][w] = p]
  BY <1>2, <1>4
<1>6. cache' \in [Idx -> [LineIdx -> Half]]
  BY <1>3, <1>5
<1>7. p = cache[i][w] => cache' = cache
  BY <1>3, <1>5
<1>8. cache'[i][w] = p
  BY <1>3, <1>5
<1>9. \A j \in Idx, v \in LineIdx : j # i \/ v # w => cache'[j][v] = cache[j][v]
  BY <1>3, <1>5
<1>10. QED
  BY <1>1, <1>4, <1>6, <1>7, <1>8, <1>9

(* While the SDRAM side has to do with a line the cache side stands still. *)
LEMMA SysQuiet ==
    ASSUME CoreInv, SysClk, Active
    PROVE  UNCHANGED <<evict_adr, refill_adr, cache, tags, fresh>>
<1>1. sst # "CHECK_HIT" /\ ~(sst = "WAIT_ACK" /\ Flag("ack"))
  BY ActiveLine
<1>2. ~WbAck /\ ~CommandEvict /\ ~CommandRefill /\ ~TagsWe
  BY <1>1 DEF WbAck, CommandEvict, CommandRefill, TagsWe
<1>3. ControlType /\ DataType
  BY DEF CoreInv, CommandInv, SideInv
<1>4. cache' = cache
  BY <1>2, <1>3, CacheStep
<1>5. QED
  BY <1>2, <1>4 DEF SysClk

-----------------------------------------------------------------------------
(* The cache side keeps the data to their types.                           *)
LEMMA SysDataType ==
    ASSUME ControlType, DataType, SysClk
    PROVE  DataType'
<1>1. cache' \in [Idx -> [LineIdx -> Half]] /\ Port0 \in Half /\ Adr.idx \in Idx
  BY CacheStep, Port0Type
<1>2. do0' = Port0 /\ (rsp' = do0 \/ rsp' = rsp) /\ fresh' \subseteq fresh
  BY DEF SysClk
<1>3. UNCHANGED <<do1, active, openrow, track, rowswitch, msb, dram>>
  BY DEF SysClk, sdvars
<1>4. QED
  BY <1>1, <1>2, <1>3 DEF DataType

(* The SDRAM side's invariant needs only that what it looks at stays.      *)
LEMMA SideKept ==
    ASSUME SideInv, StartInv, DataType', UNCHANGED sdvars,
           Serving \/ Storing => UNCHANGED <<evict_adr, refill_adr, cache>>
    PROVE  SideInv' /\ StartInv'
<1>1. CountInv /\ PinInv /\ RowInv /\ BurstInv /\ DataInv
  BY DEF SideInv
<1>2. UNCHANGED <<sdram_rst, sdst, timer, active, openrow, track, rowswitch, bc, msb>>
      /\ UNCHANGED <<do1, pend, pins, dq_in, chip, dram>>
  BY DEF sdvars
<1>3. CountInv' /\ PinInv' /\ StartInv'
  BY <1>1, <1>2 DEF CountInv, PinInv, StartInv, Serving
<1>4. OpenNext' = OpenNext /\ Burst' = Burst /\ (Activating' <=> Activating)
  BY <1>2 DEF OpenNext, Burst, ChipCmd, Activating
<1>5. (RowsKnown' <=> RowsKnown) /\ (BurstType' <=> BurstType) /\ (Storing' <=> Storing)
      /\ ReadBeat' = ReadBeat
  BY <1>2, <1>4 DEF RowsKnown, Tracked, BurstType, Storing, ReadBeat
<1>6. CASE Serving \/ Storing
  <2>1. UNCHANGED <<evict_adr, refill_adr, cache>>
    BY <1>6
  <2>2. RowInv'
    BY <1>1, <1>2, <1>5, <2>1 DEF RowInv, NeedsRowswitch, BankOf, RowOf, Number
  <2>3. Place(evict_adr)' = Place(evict_adr) /\ Place(refill_adr)' = Place(refill_adr)
    BY <2>1 DEF Place, BankOf, RowOf, ColOf, Number
  <2>4. \A i, j : Cached(i, j)' = Cached(i, j)
    BY <2>1 DEF Cached
  <2>5. BurstInv'
    BY <1>1, <1>2, <1>4, <1>5, <2>1, <2>3, <2>4 DEF BurstInv
  <2>6. DataInv'
    BY <1>1, <1>2, <2>1, <2>3, <2>4 DEF DataInv, Cached
  <2>7. QED
    BY <1>3, <2>2, <2>5, <2>6 DEF SideInv
<1>7. CASE ~Serving /\ ~Storing
  <2>1. sdst' \notin WriteStates /\ sdst' \notin ReadStates
    BY <1>2, <1>7 DEF Serving
  <2>2. RowInv'
    BY <1>1, <1>2, <1>5, <2>1 DEF RowInv, WriteStates, ReadStates
  <2>3. BurstInv'
    BY <1>1, <1>2, <1>4, <1>5, <1>7, <2>1 DEF BurstInv, WriteStates, ReadStates, Reading, Storing
  <2>4. DataInv'
    BY <2>1 DEF DataInv, WriteStates, ReadStates
  <2>5. QED
    BY <1>3, <2>2, <2>3, <2>4 DEF SideInv
<1>8. QED
  BY <1>6, <1>7

(* One lemma per action: what it keeps of the invariant.                   *)
LEMMA SysCore ==
    ASSUME CoreInv, SysClk
    PROVE  SideInv' /\ StartInv' /\ QuietInv' /\ LineInv'
<1>1. CommandInv /\ SideInv /\ StartInv /\ QuietInv /\ LineInv /\ ControlType /\ DataType
  BY DEF CoreInv, CommandInv, SideInv
<1>2. DataType' /\ UNCHANGED sdvars
  BY <1>1, SysDataType DEF SysClk
<1>3. UNCHANGED <<sdram_rst, sdst, pend, pins, chip>>
  BY <1>2 DEF sdvars
<1>4. Serving \/ Storing => Active
  BY DEF Active, Held
<1>5. SideInv' /\ StartInv'
  BY <1>1, <1>2, <1>4, SideKept, SysQuiet
<1>6. rst'.up = rst.up /\ rst'.held = rst.held
  BY <1>1 DEF SysClk, ControlType
<1>7. rst.up => sst' = "IDLE"
  BY DEF SysClk, SysState
<1>8. QuietInv'
  <2>1. rst.up => bus' = bus
    <3>1. SUFFICES ASSUME rst.up PROVE bus' = bus
      OBVIOUS
    <3>2. bus.ph = "idle"
      BY <1>1, <3>1 DEF QuietInv
    <3>3. bus' = [bus EXCEPT !.ph = bus.ph]
      BY <3>2 DEF SysClk
    <3>4. QED
      BY <1>1, <3>3 DEF ControlType
  <2>2. QED
    BY <1>1, <1>3, <1>6, <1>7, <2>1 DEF QuietInv
<1>9. LineInv'
  <2>1. SUFFICES ASSUME rst.up, Active' PROVE LineInv'
    BY <1>6 DEF LineInv
  <2>2. syn'["evict"] = syn["evict"] /\ syn'["refill"] = syn["refill"]
    BY <1>1, SysChannels
  <2>3. Active
    BY <1>3, <2>1, <2>2 DEF Active, Held, Serving, Flag, Storing, Burst, ChipCmd
  <2>4. UNCHANGED <<evict_adr, refill_adr, tags, fresh>>
    BY <2>3, SysQuiet
  <2>5. QED
    BY <1>1, <1>7, <2>1, <2>3, <2>4 DEF LineInv
<1>10. QED
  BY <1>5, <1>8, <1>9

LEMMA SdCore ==
    ASSUME CoreInv, SdClk
    PROVE  SideInv' /\ StartInv' /\ QuietInv' /\ LineInv'
<1>1. CommandInv /\ SideInv /\ StartInv /\ QuietInv /\ LineInv /\ ControlType /\ ResetInv
      /\ DataType /\ RowType /\ PinInv /\ RowInv
  BY RowTypeOf DEF CoreInv, CommandInv, SideInv
<1>2. SideInv' /\ StartInv'
  BY <1>1, SdSide
<1>3. /\ rst'.up = rst.up /\ rst.held \in 0 .. Hold
      /\ rst'.held = IF rst.up /\ rst.held < Hold THEN rst.held + 1 ELSE rst.held
  BY <1>1 DEF SdClk, ControlType
<1>4. UNCHANGED <<bus, sst, tags, evict_adr, refill_adr, fresh>>
  BY DEF SdClk, sysvars
<1>5. /\ pins'.cmd = SdOut.cmd /\ pins'.dqm = SdOut.dqm
      /\ sdst' = IF sdram_rst[2] THEN "RESET" ELSE SdOut.next
  BY PinStep
<1>6. sdst = "RESET" => /\ SdOut.cmd = "NOP" /\ SdOut.dqm
                        /\ SdOut.next = "INIT_PRECHARGEALL"
  <2>1. sdst = "RESET" => SdOut.cmd = "NOP" /\ SdOut.next = "INIT_PRECHARGEALL"
    BY InitMoves DEF Moves
  <2>2. QED
    BY <1>1, <2>1, OutLanes DEF ControlType
<1>7. SdOut.next # "RESET"
  BY <1>1, InitMoves, IdleMoves, RefreshMoves, WriteMoves, ReadMoves
     DEF ControlType, SdStates, InitStates, RefreshStates, WriteStates, ReadStates, Moves, Stays
<1>8. QuietInv'
  <2>1. rst.up /\ rst'.held >= 4 => pins'.dqm /\ pins'.cmd = "NOP"
    BY <1>1, <1>3, <1>5, <1>6 DEF ResetInv, Hold
  <2>2. ASSUME ~rst.up
        PROVE  /\ sdram_rst'[1] = FALSE
               /\ sdram_rst'[2] => sdst' = "RESET"
               /\ sdst' = "RESET" => pins'.dqm /\ pins'.cmd = "NOP"
    <3>1. sdram_rst' = <<rst.up, sdram_rst[1]>>
      BY DEF SdClk, SdRegisters
    <3>2. rst.up = FALSE
      BY <1>1, <2>2 DEF ControlType
    <3>3. sdram_rst'[1] = FALSE /\ sdram_rst'[2] = sdram_rst[1]
      BY <3>1, <3>2
    <3>4. QED
      BY <1>1, <1>5, <1>6, <1>7, <2>2, <3>3 DEF QuietInv
  <2>3. QED
    BY <1>1, <1>3, <1>4, <2>1, <2>2 DEF QuietInv, Adr
<1>9. LineInv'
  <2>1. SUFFICES ASSUME rst.up, Active' PROVE LineInv'
    BY <1>3 DEF LineInv
  <2>2. /\ syn'["ack"] = syn["ack"]
        /\ syn'["evict"] = Shift("evict") /\ syn'["refill"] = Shift("refill")
    BY <1>1, SdChannels
  <2>3. syn'["evict"] = Cleared /\ syn'["refill"] = Cleared
    BY <1>1, <2>1, <2>2, ShiftType DEF Channels, Cleared
  <2>4. ~Flag("evict")' /\ ~Flag("refill")'
    BY <2>3 DEF Flag, Cleared
  <2>5. Active
    <3>1. CASE Held'
      <4>1. /\ pend'["evict"] => pend["evict"] \/ Flag("evict")
            /\ pend'["refill"] => pend["refill"] \/ Flag("refill")
        BY DEF SdClk, SdRegisters
      <4>2. Serving' => Held \/ Flag("evict") \/ Flag("refill")
        BY <1>1, <1>5, OutControl
           DEF Held, Serving, ControlType, InitStates, WriteStates, ReadStates
      <4>3. QED
        BY <3>1, <4>1, <4>2 DEF Held, Active
    <3>2. CASE pins'.cmd \in {"RD", "WR"}
      <4>1. sdst \in {"READ", "WRITE"}
        BY <1>1, <1>5, <3>2, OutCommand DEF ControlType
      <4>2. QED
        BY <4>1 DEF Active, Held, Serving, WriteStates, ReadStates
    <3>3. CASE Storing'
      <4>1. sdst \in {"WRITE", "WRITEBURST"}
        BY <1>1, <3>3, SdBurstReset DEF Storing
      <4>2. QED
        BY <4>1 DEF Active, Held, Serving, WriteStates, ReadStates
    <3>4. QED
      BY <2>1, <2>4, <3>1, <3>2, <3>3 DEF Active
  <2>6. QED
    BY <1>1, <1>4, <2>1, <2>2, <2>5 DEF LineInv, Flag
<1>10. QED
  BY <1>2, <1>8, <1>9

LEMMA ResetCore ==
    ASSUME CoreInv, Reset
    PROVE  SideInv' /\ StartInv' /\ QuietInv' /\ LineInv'
<1>1. CommandInv /\ SideInv /\ StartInv /\ ControlType /\ DataType
  BY DEF CoreInv, CommandInv, SideInv
<1>2. /\ rst'.up = TRUE /\ rst'.held = 0 /\ bus' = [ph |-> "idle", rq |-> Rest] /\ ~rst.up
      /\ UNCHANGED <<rsp, sst, tags, tagdo, do0, evict_adr, refill_adr>>
      /\ UNCHANGED <<sdvars, cache, tog, syn>>
      /\ fresh' = IF sst = "WAIT_ACK" THEN fresh \cup {Adr.idx, Rest.adr.idx} ELSE fresh
  BY DEF Reset
<1>3. UNCHANGED <<sdst, pend, pins, chip, do1, active, openrow, track, rowswitch, msb, dram>>
  BY <1>2 DEF sdvars
<1>4. Rest.adr.idx \in Idx /\ Adr.idx \in Idx
  <2>1. Rest \in Request
    BY YadmcAssumption
  <2>2. QED
    BY <1>1, <2>1, AdrType DEF Request, Word
<1>5. DataType'
  BY <1>1, <1>2, <1>3, <1>4 DEF DataType
<1>6. SideInv' /\ StartInv'
  BY <1>1, <1>2, <1>5, SideKept
<1>7. QuietInv'
  BY <1>2 DEF QuietInv, Adr
<1>8. LineInv'
  <2>1. SUFFICES ASSUME Active' PROVE LineInv'
    BY DEF LineInv
  <2>2. Active
    BY <1>2, <1>3, <2>1 DEF Active, Held, Serving, Flag, Storing, Burst, ChipCmd
  <2>3. /\ sst = "WAIT_ACK" /\ evict_adr.idx = Adr.idx /\ ~Flag("ack")
        /\ refill_adr.idx = evict_adr.idx /\ evict_adr.tag = tags[evict_adr.idx].tag
    BY <1>2, <2>2, ActiveLine
  <2>4. QED
    BY <1>2, <2>3 DEF LineInv, Flag
<1>9. QED
  BY <1>6, <1>7, <1>8

LEMMA ReleaseCore ==
    ASSUME CoreInv, Release
    PROVE  SideInv' /\ StartInv' /\ QuietInv' /\ LineInv'
<1>1. SideInv /\ StartInv /\ ControlType /\ DataType /\ QuietInv /\ ResetInv
  BY DEF CoreInv, CommandInv, SideInv
<1>2. rst'.up = FALSE /\ rst.up /\ rst.held = 4
  BY <1>1 DEF Release, ControlType, Hold
<1>3. UNCHANGED <<sysvars, sdvars, cache>>
  BY DEF Release
<1>4. UNCHANGED <<rsp, do0, do1, active, openrow, track, rowswitch, msb, dram, fresh>>
      /\ UNCHANGED <<sdram_rst, sdst, pins, evict_adr, refill_adr>>
  BY <1>3 DEF sysvars, sdvars
<1>5. DataType'
  BY <1>1, <1>3, <1>4 DEF DataType
<1>6. SideInv' /\ StartInv'
  BY <1>1, <1>3, <1>4, <1>5, SideKept
<1>7. QuietInv' /\ LineInv'
  BY <1>1, <1>2, <1>4 DEF QuietInv, LineInv, ResetInv
<1>8. QED
  BY <1>6, <1>7

LEMMA AskCore ==
    ASSUME CoreInv, NEW r \in Requests, Ask(r)
    PROVE  SideInv' /\ StartInv' /\ QuietInv' /\ LineInv'
<1>1. SideInv /\ StartInv /\ ControlType /\ DataType /\ QuietInv
  BY DEF CoreInv, CommandInv, SideInv
<1>2. /\ ~rst.up /\ UNCHANGED <<rst, rsp, sst, tags, tagdo, do0, evict_adr, refill_adr, fresh>>
      /\ UNCHANGED <<sdvars, cache, tog, syn>>
  BY DEF Ask
<1>3. UNCHANGED <<do1, active, openrow, track, rowswitch, msb, dram, sdram_rst, sdst, pins>>
  BY <1>2 DEF sdvars
<1>4. DataType'
  BY <1>1, <1>2, <1>3 DEF DataType
<1>5. SideInv' /\ StartInv'
  BY <1>1, <1>2, <1>4, SideKept
<1>6. QuietInv' /\ LineInv'
  BY <1>1, <1>2, <1>3 DEF QuietInv, LineInv
<1>7. QED
  BY <1>5, <1>6

(* The invariant of all actions.                                           *)
LEMMA StepCore ==
    ASSUME CoreInv, Next
    PROVE  CoreInv'
<1>1. CommandInv'
  BY StepCommand DEF CoreInv
<1>2. SideInv' /\ StartInv' /\ QuietInv' /\ LineInv'
  BY SysCore, SdCore, ResetCore, ReleaseCore, AskCore DEF Next
<1>3. QED
  BY <1>1, <1>2 DEF CoreInv

(* It holds at power up, with every line clean and claiming tag 0.         *)
LEMMA InitCore == Init => CoreInv
<1> SUFFICES ASSUME Init PROVE CoreInv
  OBVIOUS
<1>1. CommandInv
  BY InitCommand
<1>2. /\ rst.up = FALSE /\ sdst = "RESET" /\ pins.dqm = TRUE /\ pins.cmd = "NOP"
      /\ pins.cke = TRUE /\ chip.cke = TRUE /\ chip.open = [b \in Bank |-> NoRow]
      /\ chip.bst = NoBurst
  BY DEF Init
<1>3. DataType
  <2>1. [l \in Lanes |-> Zero] \in Half
    BY YadmcAssumption DEF Half
  <2>2. rsp \in Half /\ do0 \in Half /\ do1 \in Half
    BY <2>1 DEF Init
  <2>3. cache \in [Idx -> [LineIdx -> Half]]
    BY <2>2 DEF Init, LineIdx
  <2>4. dram \in [Places -> [Beats -> Val]]
    BY YadmcAssumption DEF Init, Places
  <2>5. /\ active \in [Bank -> BOOLEAN] /\ openrow \in [Bank -> Row]
        /\ track \in [ba : Bank, row : Row] /\ msb \in Idx
    <3>1. 0 \in Bank /\ 0 \in Row /\ 0 \in Idx
      BY GeometryTypes
    <3>2. /\ active = [b \in Bank |-> FALSE] /\ openrow = [b \in Bank |-> 0]
          /\ track = [ba |-> 0, row |-> 0] /\ msb = 0
      BY DEF Init
    <3>3. QED
      BY <3>1, <3>2
  <2>6. rowswitch \in [{"evict", "refill"} -> BOOLEAN]
    <3>1. PICK p \in BOOLEAN : rowswitch = [evict |-> p, refill |-> p]
      BY DEF Init
    <3>2. QED
      BY <3>1
  <2>7. fresh \subseteq Idx
    BY DEF Init
  <2>8. QED
    BY <2>2, <2>3, <2>4, <2>5, <2>6, <2>7 DEF DataType
<1>4. CountInv
  <2>1. timer \in [Timers -> Nat] /\ \A c \in Timers : timer[c] <= Wait[c]
    BY YadmcAssumption DEF Init
  <2>2. QED
    BY <1>2, <2>1, WaitTypes DEF CountInv, Init
<1>5. PinInv
  BY <1>2 DEF PinInv, PinCommands
<1>6. RowInv
  BY <1>2 DEF RowInv
<1>7. Burst = NoBurst
  BY <1>2 DEF Burst, ChipCmd
<1>8. BurstInv
  <2>1. Burst.k # "wr"
    BY <1>7 DEF NoBurst
  <2>2. QED
    BY <1>2, <1>7, <2>1 DEF BurstInv, BurstType, Reading
<1>9. DataInv
  BY <1>2 DEF DataInv, WriteStates, ReadStates
<1>10. StartInv /\ QuietInv /\ LineInv
  BY <1>1, <1>2 DEF StartInv, QuietInv, LineInv, Init
<1>11. QED
  BY <1>1, <1>3, <1>4, <1>5, <1>6, <1>8, <1>9, <1>10 DEF CoreInv, SideInv

(* It holds in every reachable state.                                      *)
LEMMA CoreInvariant == Spec => []CoreInv
<1>1. CoreInv /\ [Next]_vars => CoreInv'
  <2>1. ASSUME CoreInv, UNCHANGED vars
        PROVE  CoreInv'
    <3>1. CommandInv'
      BY <2>1 DEF CoreInv, CommandInv, ControlType, HandInv, AdrInv, ResetInv, OneEdge,
                  AllFlat, Flat, Held, Serving, Adr, vars, sysvars, sdvars
    <3>2. UNCHANGED <<rst, sysvars, sdvars, cache, tog, syn>>
      BY <2>1 DEF vars
    <3>3. UNCHANGED <<rsp, do0, do1, active, openrow, track, rowswitch, msb, dram, fresh>>
          /\ UNCHANGED <<sdram_rst, sdst, pins, chip, pend, evict_adr, refill_adr, bus, sst, tags>>
      BY <3>2 DEF sysvars, sdvars
    <3>4. DataType'
      BY <2>1, <3>2, <3>3 DEF DataType, CoreInv, SideInv
    <3>5. SideInv' /\ StartInv'
      BY <2>1, <3>2, <3>3, <3>4, SideKept DEF CoreInv
    <3>6. QuietInv'
      BY <2>1, <3>2, <3>3 DEF QuietInv, CoreInv, Adr
    <3>7. LineInv'
      BY <2>1, <3>2, <3>3 DEF LineInv, CoreInv, Active, Held, Serving, Flag, Storing, Burst,
         ChipCmd
    <3>8. QED
      BY <3>1, <3>5, <3>6, <3>7 DEF CoreInv
  <2>2. QED
    BY <2>1, StepCore
<1>2. QED
  BY <1>1, InitCore, PTL DEF Spec

(* The types of the whole state.  Neither the cache nor the chip ever      *)
(* takes the value of a pin that nobody drives: a burst and the state of   *)
(* the machine keep step, resets or not.                                   *)
THEOREM YadmcTypes == Spec => []TypeOK
<1>1. CoreInv => TypeOK
  <2> SUFFICES ASSUME CoreInv PROVE TypeOK
    OBVIOUS
  <2>1. ControlType /\ DataType /\ CountInv
    BY DEF CoreInv, CommandInv, SideInv
  <2>2. QED
    BY <2>1 DEF TypeOK, ControlType, DataType, CountInv, SysStates, SdStates, Triple, Places,
       LineIdx
<1>2. QED
  BY <1>1, CoreInvariant, PTL

-----------------------------------------------------------------------------
(* The cache and the chip.  A clean line that somebody vouches for is a    *)
(* copy of the line of the chip its tag names; so is the line the          *)
(* acknowledge is for, whatever its tag still says.                        *)
Stored(i, a) == \A j \in Beats : Cached(i, j) = dram[Place(a)][j]
CleanInv ==
    \A i \in Idx :
        i \notin fresh /\ ~tags[i].dirty /\ ~(sst = "WAIT_ACK" /\ i = Adr.idx) =>
            Stored(i, [tag |-> tags[i].tag, idx |-> i])
FillInv ==
    ~rst.up =>
        /\ sst = "WAIT_ACK" /\ ~Flat("ack") => Stored(Adr.idx, refill_adr)
        /\ sst = "CHECK_HIT" \/ (sst = "WAIT_ACK" /\ Flag("ack")) =>
             do0 = cache[Adr.idx][Adr.w]
        /\ ~Flat("evict") \/ pend["evict"] \/ sdst \in WriteStates => tags[Adr.idx].dirty
        /\ ~Flat("refill") \/ pend["refill"] => ~tags[Adr.idx].dirty
MemInv == CleanInv /\ FillInv

(* What an edge of sdram_clk leaves alone.                                 *)
LEMMA SdKeeps ==
    ASSUME CoreInv, SdClk
    PROVE  /\ ~Active => cache' = cache /\ dram' = dram
           /\ sdst \notin {"READFIRST", "READBURST"} => cache' = cache
           /\ \A i \in Idx : i # evict_adr.idx => cache'[i] = cache[i]
           /\ \A p \in Places : p # Place(evict_adr) => dram'[p] = dram[p]
<1>1. ControlType /\ SideInv /\ StartInv /\ DataInv
  BY DEF CoreInv, CommandInv, SideInv
<1>2. sdst \notin {"READFIRST", "READBURST"} => cache' = cache
  BY <1>1, FillStep
<1>3. ~Active => cache' = cache /\ dram' = dram
  <2>1. ~Active => ~Storing /\ sdst \notin ReadStates
    BY DEF Active, Held, Serving
  <2>2. QED
    BY <1>1, <1>2, <2>1, DramStep DEF ReadStates
<1>4. \A p \in Places : p # Place(evict_adr) => dram'[p] = dram[p]
  BY <1>1, DramStep
<1>5. ASSUME NEW i \in Idx, i # evict_adr.idx PROVE cache'[i] = cache[i]
  <2>1. CASE sdst \in {"READFIRST", "READBURST"}
    <3>1. Active
      BY <2>1 DEF Active, Held, Serving, ReadStates
    <3>2. msb = refill_adr.idx /\ refill_adr.idx = evict_adr.idx
      BY <1>1, <2>1, <3>1, ActiveLine DEF DataInv, ReadStates
    <3>3. QED
      BY <1>1, <1>5, <3>2, FillStep
  <2>2. QED
    BY <1>2, <2>1
<1>6. QED
  BY <1>2, <1>3, <1>4, <1>5

(* Every line but the one being evicted has another place.                 *)
LEMMA OtherPlace ==
    ASSUME ControlType, NEW t \in Tag, NEW i \in Idx,
           t # evict_adr.tag \/ i # evict_adr.idx
    PROVE  /\ Place([tag |-> t, idx |-> i]) \in Places
           /\ Place([tag |-> t, idx |-> i]) # Place(evict_adr)
<1> DEFINE a == [tag |-> t, idx |-> i]
<1>1. a.tag = t /\ a.idx = i
  OBVIOUS
<1>2. evict_adr.tag \in Tag /\ evict_adr.idx \in Idx
  BY AdrPlaces
<1> HIDE DEF a
<1>3. Place(a) \in Places
  BY <1>1, PlaceType
<1>4. Place(a) # Place(evict_adr)
  BY <1>1, <1>2, PlaceInjective
<1>5. QED
  BY <1>3, <1>4 DEF a

(* Stored depends on the cache line and the line of the chip only.         *)
LEMMA StoredKept ==
    ASSUME NEW i, NEW p, NEW c, NEW d,
           \A j \in Beats : cache[i][j \div 2][Lane(j)] = dram[p][j], c = cache[i], d = dram[p]
    PROVE  \A j \in Beats : c[j \div 2][Lane(j)] = d[j]
  OBVIOUS

(* An edge of sdram_clk: only the line being served changes.               *)
LEMMA SdMem ==
    ASSUME CoreInv, MemInv, SdClk
    PROVE  MemInv'
<1>1. /\ CommandInv /\ ControlType /\ HandInv /\ AdrInv /\ SideInv /\ StartInv /\ CleanInv /\ FillInv
      /\ CountInv /\ DataInv /\ BurstInv /\ tags \in [Idx -> [tag : Tag, dirty : BOOLEAN]]
  BY DEF CoreInv, CommandInv, SideInv, MemInv, ControlType
<1>2. UNCHANGED <<bus, sst, tags, do0, evict_adr, refill_adr, fresh>> /\ rst'.up = rst.up
  BY <1>1 DEF SdClk, sysvars, ControlType
<1>3. /\ sdst' = IF sdram_rst[2] THEN "RESET" ELSE SdOut.next
      /\ pend'["evict"] <=> ~(sdram_rst[2] \/ SdOut.ack) /\ (pend["evict"] \/ Flag("evict"))
      /\ pend'["refill"] <=> ~(sdram_rst[2] \/ SdOut.ack) /\ (pend["refill"] \/ Flag("refill"))
  BY DEF SdClk, SdRegisters
<1>4. CleanInv'
  <2>1. SUFFICES ASSUME NEW i \in Idx, i \notin fresh, ~tags[i].dirty,
                        ~(sst = "WAIT_ACK" /\ i = Adr.idx)
                 PROVE  \A j \in Beats : cache'[i][j \div 2][Lane(j)] =
                          dram'[Place([tag |-> tags[i].tag, idx |-> i])][j]
    BY <1>2 DEF CleanInv, Stored, Cached, Adr, Place, BankOf, RowOf, ColOf, Number, Beats
  <2> DEFINE p == Place([tag |-> tags[i].tag, idx |-> i])
  <2>2. \A j \in Beats : cache[i][j \div 2][Lane(j)] = dram[p][j]
    BY <1>1, <2>1 DEF CleanInv, Stored, Cached
  <2>3. Active => i # evict_adr.idx
    BY <2>1, ActiveLine DEF CoreInv
  <2>4. tags[i].tag \in Tag
    BY <1>1
  <2>5. i # evict_adr.idx => p \in Places /\ p # Place(evict_adr)
    BY <1>1, <2>4, OtherPlace
  <2> HIDE DEF p
  <2>6. cache'[i] = cache[i] /\ dram'[p] = dram[p]
    BY <2>3, <2>5, SdKeeps
  <2>7. QED
    BY <2>2, <2>6, StoredKept DEF p
<1>5. FillInv'
  <2>1. SUFFICES ASSUME ~rst.up PROVE FillInv'
    BY <1>2 DEF FillInv
  <2>2. /\ tog' \in [Channels -> BOOLEAN]
        /\ tog'["ack"] <=> ~rst.up /\ (tog["ack"] <=> ~SdOut.ack)
        /\ tog'["evict"] = tog["evict"] /\ tog'["refill"] = tog["refill"]
        /\ syn'["ack"] = syn["ack"]
        /\ syn'["evict"] = Shift("evict") /\ syn'["refill"] = Shift("refill")
    BY <1>1, SdChannels
  <2>3. /\ Flat("evict") => Flat("evict")' /\ (Flag("evict") => ~Flat("evict"))
        /\ Flat("refill") => Flat("refill")' /\ (Flag("refill") => ~Flat("refill"))
    BY <1>1, <2>1, <2>2, ShiftEdge, FlatFlag DEF HandInv, Channels
  <2>4. sst = "WAIT_ACK" /\ ~Flat("ack")' => Stored(Adr.idx, refill_adr)'
    <3>1. SUFFICES ASSUME sst = "WAIT_ACK", ~Flat("ack")'
                   PROVE  \A j \in Beats : cache'[Adr.idx][j \div 2][Lane(j)] =
                            dram'[Place(refill_adr)][j]
      BY <1>2 DEF Stored, Cached, Adr, Place, BankOf, RowOf, ColOf, Number, Beats
    <3>2. CASE SdOut.ack
      <4>1. sdst = "READBURST" /\ SdOut.next = "IDLE"
        BY <1>1, <3>2, OutControl DEF ControlType
      <4>2. BurstLast
        BY <4>1, ReadMoves DEF Moves
      <4>3. bc = 2*LineWords - 1
        BY <1>1, <4>1, <4>2, BurstLastAt DEF CountInv
      <4>4. cache' = cache
        BY <1>1, <4>1, <4>2, FillStep
      <4>5. dram' = dram
        <5>1. Burst.k # "wr"
          BY <1>1, <4>1 DEF BurstInv, Reading, NoBurst
        <5>2. QED
          BY <1>1, <5>1, DramStep DEF Storing
      <4>6. refill_adr.idx = Adr.idx
        BY <1>1, <2>1, <3>1 DEF AdrInv
      <4>7. \A j \in Beats : j <= bc
        BY <4>3, WaitTypes DEF Beats
      <4>8. QED
        BY <1>1, <4>1, <4>4, <4>5, <4>6, <4>7 DEF DataInv, Cached
    <3>3. CASE ~SdOut.ack
      <4>1. tog'["ack"] = tog["ack"]
        <5>1. tog["ack"] \in BOOLEAN /\ tog'["ack"] \in BOOLEAN
          BY <1>1, <2>2 DEF ControlType, Channels
        <5>2. QED
          BY <2>1, <2>2, <3>3, <5>1
      <4>2. ~Flat("ack")
        BY <2>2, <3>1, <4>1 DEF Flat
      <4>3. ~Active
        BY <2>1, <4>2, ActiveLine
      <4>4. cache' = cache /\ dram' = dram
        BY <4>3, SdKeeps
      <4>5. QED
        BY <1>1, <2>1, <3>1, <4>2, <4>4 DEF FillInv, Stored, Cached
    <3>4. QED
      BY <3>2, <3>3
  <2>5. sst = "CHECK_HIT" \/ (sst = "WAIT_ACK" /\ Flag("ack")) =>
          do0 = cache'[Adr.idx][Adr.w]
    <3>1. SUFFICES ASSUME sst = "CHECK_HIT" \/ (sst = "WAIT_ACK" /\ Flag("ack"))
                   PROVE  do0 = cache'[Adr.idx][Adr.w]
      OBVIOUS
    <3>2. ~Active
      BY <3>1, ActiveLine
    <3>3. cache' = cache
      BY <3>2, SdKeeps
    <3>4. QED
      BY <1>1, <2>1, <3>1, <3>3 DEF FillInv
  <2>6. ~Flat("evict")' \/ pend'["evict"] \/ sdst' \in WriteStates => tags[Adr.idx].dirty
    <3>1. sdst' \in WriteStates => sdst \in WriteStates \/ Flag("evict") \/ pend["evict"]
      <4>1. SUFFICES ASSUME sdst' \in WriteStates
                     PROVE  sdst \in WriteStates \/ Flag("evict") \/ pend["evict"]
        OBVIOUS
      <4>2. SdOut.next \in WriteStates
        BY <1>3, <4>1 DEF WriteStates
      <4>3. CASE sdst = "IDLE"
        BY <1>1, <4>2, <4>3, OutLine DEF ControlType
      <4>4. CASE sdst # "IDLE"
        BY <1>1, <4>2, <4>4, InitMoves, RefreshMoves, WriteMoves, ReadMoves
           DEF ControlType, SdStates, InitStates, RefreshStates, WriteStates, ReadStates,
               Moves, Stays
      <4>5. QED
        BY <4>3, <4>4
    <3>2. QED
      BY <1>1, <1>3, <2>1, <2>3, <3>1 DEF FillInv
  <2>7. ~Flat("refill")' \/ pend'["refill"] => ~tags[Adr.idx].dirty
    BY <1>1, <1>3, <2>1, <2>3 DEF FillInv
  <2>8. Flag("ack")' <=> Flag("ack")
    BY <2>2 DEF Flag
  <2>9. QED
    BY <1>2, <2>1, <2>4, <2>5, <2>6, <2>7, <2>8 DEF FillInv, Adr
<1>6. QED
  BY <1>4, <1>5 DEF MemInv

(* What an edge of sys_clk does to tags and cache.                         *)
LEMMA TagStep ==
    ASSUME CoreInv, SysClk
    PROVE  /\ Adr' = Adr /\ bus'.rq = bus.rq /\ rst'.up = rst.up
           /\ \A i \in Idx : i # Adr.idx => tags'[i] = tags[i] /\ (i \in fresh' <=> i \in fresh)
           /\ TagsWe => tags'[Adr.idx] = [tag |-> Adr.tag, dirty |-> bus.rq.we]
           /\ ~TagsWe => tags' = tags /\ fresh' = fresh
           /\ TagsWe /\ ~rst.up => Adr.idx \notin fresh'
           /\ rst.up => fresh' = fresh /\ ~bus.rq.we /\ (TagsWe => sst = "WAIT_ACK")
           /\ \A i \in Idx : i # Adr.idx => cache'[i] = cache[i]
           /\ ~(WbAck /\ bus.rq.we) => cache' = cache
           /\ do0' = cache'[Adr.idx][Adr.w]
           /\ ~rst.up /\ sst # "IDLE" => bus.ph = "req"
<1>1. ControlType /\ DataType /\ QuietInv /\ AdrInv
  BY DEF CoreInv, CommandInv, SideInv
<1>2. /\ rst' = [rst EXCEPT !.seen = rst.up] /\ bus'.rq = bus.rq /\ do0' = Port0
      /\ fresh' = IF TagsWe /\ ~rst.up THEN fresh \ {Adr.idx} ELSE fresh
      /\ tags' = IF TagsWe
                 THEN [tags EXCEPT ![Adr.idx] = [tag |-> Adr.tag, dirty |-> bus.rq.we]]
                 ELSE tags
  BY <1>1 DEF SysClk, ControlType
<1>3. rst'.up = rst.up
  BY <1>1, <1>2 DEF ControlType
<1>4. Adr' = Adr
  BY <1>2 DEF Adr
<1>5. Adr.idx \in Idx /\ tags \in [Idx -> [tag : Tag, dirty : BOOLEAN]]
  BY <1>1, AdrType DEF ControlType
<1>6. rst.up => ~bus.rq.we
  BY <1>1, YadmcAssumption DEF QuietInv
<1>7. \A i \in Idx : i # Adr.idx => cache'[i] = cache[i]
  <2>1. SUFFICES ASSUME NEW i \in Idx, i # Adr.idx PROVE cache'[i] = cache[i]
    OBVIOUS
  <2>2. cache' = [cache EXCEPT ![Adr.idx][Adr.w] = Port0] /\ cache \in [Idx -> [LineIdx -> Half]]
    BY <1>1 DEF SysClk, DataType
  <2>3. QED
    BY <2>1, <2>2
<1>8. /\ ~(WbAck /\ bus.rq.we) => cache' = cache
      /\ cache'[Adr.idx][Adr.w] = Port0
  BY <1>1, CacheStep
<1>9. rst.up /\ TagsWe => sst = "WAIT_ACK"
  BY <1>6 DEF TagsWe
<1>10. ~rst.up /\ sst # "IDLE" => bus.ph = "req"
  BY <1>1 DEF AdrInv
<1>11. QED
  BY <1>2, <1>3, <1>4, <1>5, <1>6, <1>7, <1>8, <1>9, <1>10

(* An edge of sys_clk: a write makes the line dirty, an acknowledge clean. *)
LEMMA SysMem ==
    ASSUME CoreInv, MemInv, SysClk
    PROVE  MemInv'
<1>1. /\ CommandInv /\ ControlType /\ HandInv /\ AdrInv /\ CleanInv /\ FillInv /\ QuietInv
  BY DEF CoreInv, CommandInv, MemInv
<1>2. /\ Adr' = Adr /\ rst'.up = rst.up
      /\ \A i \in Idx : i # Adr.idx => tags'[i] = tags[i] /\ (i \in fresh' <=> i \in fresh)
      /\ TagsWe => tags'[Adr.idx] = [tag |-> Adr.tag, dirty |-> bus.rq.we]
      /\ ~TagsWe => tags' = tags /\ fresh' = fresh
      /\ rst.up => fresh' = fresh /\ ~bus.rq.we /\ (TagsWe => sst = "WAIT_ACK")
      /\ \A i \in Idx : i # Adr.idx => cache'[i] = cache[i]
      /\ ~(WbAck /\ bus.rq.we) => cache' = cache
      /\ do0' = cache'[Adr.idx][Adr.w]
  BY TagStep
<1>3. /\ UNCHANGED <<dram, sdst, pend>> /\ sst' = SysState
  BY DEF SysClk, sdvars
<1>4. Adr.idx \in Idx
  BY <1>1, AdrType
<1>5. CleanInv'
  <2>1. SUFFICES ASSUME NEW i \in Idx, i \notin fresh', ~tags'[i].dirty,
                        ~(sst' = "WAIT_ACK" /\ i = Adr.idx)
                 PROVE  \A j \in Beats : cache'[i][j \div 2][Lane(j)] =
                          dram[Place([tag |-> tags'[i].tag, idx |-> i])][j]
    BY <1>2, <1>3 DEF CleanInv, Stored, Cached, Place, BankOf, RowOf, ColOf, Number, Beats
  <2>2. CASE i # Adr.idx
    BY <1>1, <1>2, <2>1, <2>2 DEF CleanInv, Stored, Cached
  <2>3. CASE i = Adr.idx /\ TagsWe
    <3>1. ~rst.up
      BY <1>1, <1>2, <2>1, <2>3 DEF QuietInv
    <3>2. tags'[i] = [tag |-> Adr.tag, dirty |-> bus.rq.we] /\ ~bus.rq.we
      BY <1>2, <2>1, <2>3
    <3>3. sst = "WAIT_ACK" /\ Flag("ack")
      BY <2>3, <3>2 DEF TagsWe, WbAck
    <3>4. ~Flat("ack")
      BY <3>3, FlatFlag DEF Channels
    <3>5. Stored(Adr.idx, refill_adr) /\ refill_adr = [tag |-> Adr.tag, idx |-> Adr.idx]
      BY <1>1, <3>1, <3>3, <3>4 DEF FillInv, AdrInv
    <3>6. cache' = cache
      BY <1>2, <3>2
    <3>7. QED
      BY <2>3, <3>2, <3>5, <3>6 DEF Stored, Cached
  <2>4. CASE i = Adr.idx /\ ~TagsWe
    <3>1. tags' = tags /\ fresh' = fresh /\ cache' = cache
      BY <1>2, <2>4 DEF TagsWe
    <3>2. sst # "WAIT_ACK"
      <4>1. SUFFICES ASSUME sst = "WAIT_ACK" PROVE FALSE
        OBVIOUS
      <4>2. ~rst.up
        BY <1>1, <2>1, <2>4, <3>1, <4>1 DEF QuietInv
      <4>3. ~WbAck
        BY <2>4, <4>1 DEF TagsWe
      <4>4. sst' = "WAIT_ACK"
        BY <1>3, <4>1, <4>2, <4>3 DEF SysState, SysNext
      <4>5. QED
        BY <2>1, <2>4, <4>4
    <3>3. QED
      BY <1>1, <2>1, <3>1, <3>2 DEF CleanInv, Stored, Cached
  <2>5. QED
    BY <2>2, <2>3, <2>4
<1>6. FillInv'
  <2>1. SUFFICES ASSUME ~rst.up PROVE FillInv'
    BY <1>2 DEF FillInv
  <2>2. /\ tog'["ack"] = tog["ack"]
        /\ tog'["evict"] <=> ~rst.up /\ (tog["evict"] <=> ~CommandEvict)
        /\ tog'["refill"] <=> ~rst.up /\ (tog["refill"] <=> ~CommandRefill)
        /\ syn'["ack"] = Shift("ack")
        /\ syn'["evict"] = syn["evict"] /\ syn'["refill"] = syn["refill"]
        /\ tog' \in [Channels -> BOOLEAN]
    BY <1>1, SysChannels
  <2>3. Flat("ack") => Flat("ack")'
    BY <1>1, <2>1, <2>2, ShiftEdge DEF HandInv, Channels
  <2>4. /\ ~CommandEvict => (Flat("evict")' <=> Flat("evict"))
        /\ ~CommandRefill => (Flat("refill")' <=> Flat("refill"))
    <3>1. /\ tog["evict"] \in BOOLEAN /\ tog["refill"] \in BOOLEAN
          /\ tog'["evict"] \in BOOLEAN /\ tog'["refill"] \in BOOLEAN
      BY <1>1, <2>2 DEF ControlType, Channels
    <3>2. /\ ~CommandEvict => tog'["evict"] = tog["evict"]
          /\ ~CommandRefill => tog'["refill"] = tog["refill"]
      BY <2>1, <2>2, <3>1
    <3>3. QED
      BY <2>2, <3>2 DEF Flat
  <2>5. sst' = "WAIT_ACK" /\ ~Flat("ack")' => Stored(Adr.idx, refill_adr)'
    <3>1. SUFFICES ASSUME sst' = "WAIT_ACK", ~Flat("ack")'
                   PROVE  Stored(Adr.idx, refill_adr)'
      OBVIOUS
    <3>2. ~Flat("ack")
      BY <2>3, <3>1
    <3>3. sst = "WAIT_ACK"
      BY <1>1, <2>1, <3>2 DEF HandInv, AllFlat
    <3>4. ~WbAck /\ ~CommandEvict /\ ~CommandRefill
      BY <1>3, <2>1, <3>1, <3>3 DEF SysState, SysNext, CommandEvict, CommandRefill
    <3>5. cache' = cache /\ refill_adr' = refill_adr
      BY <1>2, <3>4 DEF SysClk
    <3>6. Stored(Adr.idx, refill_adr)
      BY <1>1, <2>1, <3>2, <3>3 DEF FillInv
    <3>7. QED
      BY <1>2, <1>3, <3>5, <3>6 DEF Stored, Cached, Place, BankOf, RowOf, ColOf, Number, Beats
  <2>6. CommandEvict => tags[Adr.idx].dirty /\ tags' = tags
    BY <1>1, <1>2, <2>1 DEF CommandEvict, AdrInv, TagsWe, WbAck
  <2>7. CommandRefill => ~tags[Adr.idx].dirty /\ tags' = tags
    BY <1>1, <1>2, <2>1 DEF CommandRefill, AdrInv, TagsWe, WbAck
  <2>8. ~Flat("evict") \/ ~Flat("refill") \/ Held => tags' = tags
    <3>1. ~Flat("evict") \/ ~Flat("refill") \/ Held => sst = "WAIT_ACK" /\ Flat("ack")
      BY <1>1, <2>1 DEF HandInv, AllFlat
    <3>2. Flat("ack") => ~Flag("ack")
      BY FlatFlag DEF Channels
    <3>3. QED
      BY <1>2, <3>1, <3>2 DEF TagsWe, WbAck
  <2>9. ~Flat("evict")' \/ pend'["evict"] \/ sdst' \in WriteStates => tags'[Adr.idx].dirty
    BY <1>1, <1>3, <2>1, <2>4, <2>6, <2>8 DEF FillInv, Held, Serving
  <2>10. ~Flat("refill")' \/ pend'["refill"] => ~tags'[Adr.idx].dirty
    BY <1>1, <1>3, <2>1, <2>4, <2>7, <2>8 DEF FillInv, Held, Serving
  <2>11. QED
    BY <1>2, <2>1, <2>5, <2>9, <2>10 DEF FillInv
<1>7. QED
  BY <1>5, <1>6 DEF MemInv

(* A reset leaves no line behind that is wrongly vouched for.              *)
LEMMA ResetMem ==
    ASSUME CoreInv, MemInv, Reset
    PROVE  MemInv'
<1>1. /\ rst'.up = TRUE /\ bus' = [ph |-> "idle", rq |-> Rest]
      /\ UNCHANGED <<sst, tags, sdvars, cache>>
      /\ fresh' = IF sst = "WAIT_ACK" THEN fresh \cup {Adr.idx, Rest.adr.idx} ELSE fresh
  BY DEF Reset
<1>2. dram' = dram /\ Adr' = Rest.adr
  BY <1>1 DEF sdvars, Adr
<1>3. SUFFICES ASSUME NEW i \in Idx, i \notin fresh', ~tags[i].dirty
               PROVE  Stored(i, [tag |-> tags[i].tag, idx |-> i])
  BY <1>1, <1>2 DEF MemInv, FillInv, CleanInv, Stored, Cached, Place, BankOf, RowOf, ColOf,
     Number, Beats
<1>4. i \notin fresh /\ ~(sst = "WAIT_ACK" /\ i = Adr.idx)
  BY <1>1, <1>3
<1>5. QED
  BY <1>3, <1>4 DEF MemInv, CleanInv

(* Releasing the reset and asking change no contents.                      *)
LEMMA OtherMem ==
    ASSUME CoreInv, MemInv, Release \/ \E r \in Requests : Ask(r)
    PROVE  MemInv' /\ sst = "IDLE" /\ UNCHANGED <<tags, fresh, cache, dram, sst, rsp>>
<1>1. /\ UNCHANGED <<tags, fresh, cache, sdvars, sst, tog, syn, do0, rsp>> /\ sst = "IDLE"
  <2>1. CASE Release
    BY <2>1 DEF Release, sysvars, CoreInv, CommandInv, ResetInv
  <2>2. CASE \E r \in Requests : Ask(r)
    BY <2>2 DEF Ask, CoreInv, CommandInv, AdrInv
  <2>3. QED
    BY <2>1, <2>2
<1>2. UNCHANGED <<dram, sdst, pend>>
  BY <1>1 DEF sdvars
<1>3. CleanInv'
  BY <1>1, <1>2 DEF MemInv, CleanInv, Stored, Cached, Place, BankOf, RowOf, ColOf,
     Number, Beats
<1>4. FillInv'
  <2>1. CommandInv'
    BY StepCommand DEF CoreInv, Next
  <2>2. ~rst'.up => AllFlat' /\ ~Held'
    BY <1>1, <2>1 DEF CommandInv, HandInv
  <2>3. QED
    BY <1>1, <2>2 DEF FillInv, AllFlat, Held, Serving
<1>5. QED
  BY <1>1, <1>2, <1>3, <1>4 DEF MemInv

(* At power up nobody vouches for any line.                                *)
LEMMA InitMem == Init => MemInv
<1> SUFFICES ASSUME Init PROVE MemInv
  OBVIOUS
<1>1. fresh = Idx /\ sst = "IDLE" /\ ~rst.up
  BY DEF Init
<1>2. CleanInv
  BY <1>1 DEF CleanInv
<1>3. HandInv
  BY InitCommand DEF CommandInv
<1>4. FillInv
  BY <1>1, <1>3 DEF FillInv, HandInv, AllFlat, Held, Serving
<1>5. QED
  BY <1>2, <1>4 DEF MemInv

(* Cache and chip agree after every action.                                *)
LEMMA StepMem ==
    ASSUME CoreInv, MemInv, Next
    PROVE  MemInv'
  BY SysMem, SdMem, ResetMem, OtherMem DEF Next

-----------------------------------------------------------------------------
(* The refinement mapping, one lane of one word at a time.                 *)
CellOf(a, l) ==
    IF a.tag = tags[a.idx].tag /\ a.idx \in fresh THEN Undef
    ELSE IF InCache(a) THEN cache[a.idx][a.w][l]
    ELSE dram[Place(a)][BeatOf(a.w, l)]
Cells == [a \in Word |-> Contents(a)]

(* The mapping and its lanes, in this state and the next.                  *)
LEMMA ContentsIs ==
    ASSUME NEW a \in Word, NEW l \in Lanes
    PROVE  Cells[a][l] = CellOf(a, l) /\ Cells'[a][l] = CellOf(a, l)'
<1>1. Cells[a] = Contents(a) /\ Cells'[a] = Contents(a)'
  BY DEF Cells, Word, Tag, Idx
<1>2. Contents(a)[l] = CellOf(a, l)
  BY DEF Contents, CellOf, Place, BeatOf
<1>3. Contents(a)'[l] = CellOf(a, l)'
  BY DEF Contents, CellOf, Place, BeatOf, Lanes
<1>4. QED
  BY <1>1, <1>2, <1>3

(* A word has its lanes, an address its line.                              *)
LEMMA WordTypes ==
    ASSUME NEW a \in Word
    PROVE  /\ a.tag \in Tag /\ a.idx \in Idx /\ a.w \in LineIdx
           /\ Place(a) \in Places
           /\ Place(a) = Place([tag |-> a.tag, idx |-> a.idx])
           /\ Place(a)' = Place(a)
<1>1. a.tag \in Tag /\ a.idx \in Idx /\ a.w \in LineIdx
  BY DEF Word, LineIdx
<1>2. Place(a) \in Places
  BY <1>1, PlaceType
<1>3. Place(a) = Place([tag |-> a.tag, idx |-> a.idx])
  BY DEF Place, BankOf, RowOf, ColOf, Number
<1>4. Place(a)' = Place(a)
  BY DEF Place, BankOf, RowOf, ColOf, Number
<1>5. QED
  BY <1>1, <1>2, <1>3, <1>4

(* A memory's contents ...                                                 *)
LEMMA CellsType ==
    ASSUME DataType
    PROVE  Cells \in [Word -> [Lanes -> Val \cup {Undef}]]
<1>1. ASSUME NEW a \in Word, NEW l \in Lanes PROVE CellOf(a, l) \in Val \cup {Undef}
  <2>1. a.idx \in Idx /\ a.w \in LineIdx /\ Place(a) \in Places
    BY WordTypes
  <2>2. BeatOf(a.w, l) \in Beats
    BY <2>1, WordBeat
  <2>3. cache[a.idx][a.w][l] \in Val /\ dram[Place(a)][BeatOf(a.w, l)] \in Val
    BY <2>1, <2>2 DEF DataType, Half
  <2>4. QED
    BY <2>3 DEF CellOf
<1>2. ASSUME NEW a \in Word PROVE Contents(a) \in [Lanes -> Val \cup {Undef}]
  <2>1. \A l \in Lanes : Contents(a)[l] \in Val \cup {Undef}
    BY <1>1 DEF Contents, CellOf, Place, BeatOf
  <2>2. Contents(a) = [l \in Lanes |-> Contents(a)[l]]
    BY DEF Contents
  <2>3. QED
    BY <2>1, <2>2
<1>3. QED
  BY <1>2 DEF Cells

(* ... in this state and the next.                                         *)
LEMMA CellsTypeNext ==
    ASSUME DataType'
    PROVE  Cells' \in [Word -> [Lanes -> Val \cup {Undef}]]
<1>1. ASSUME NEW a \in Word, NEW l \in Lanes PROVE CellOf(a, l)' \in Val \cup {Undef}
  <2>1. a.idx \in Idx /\ a.w \in LineIdx /\ Place(a) \in Places /\ Place(a)' = Place(a)
    BY WordTypes
  <2>2. BeatOf(a.w, l) \in Beats
    BY <2>1, WordBeat
  <2>3. cache' \in [Idx -> [LineIdx -> Half]] /\ dram' \in [Places -> [Beats -> Val]]
    BY DEF DataType, Idx, LineIdx, Half, Lanes, Places, Bank, Row, Col, Beats
  <2>4. cache'[a.idx][a.w][l] \in Val /\ dram'[Place(a)][BeatOf(a.w, l)] \in Val
    BY <2>1, <2>2, <2>3 DEF Half
  <2>5. QED
    BY <2>1, <2>4 DEF CellOf, BeatOf
<1>2. ASSUME NEW a \in Word PROVE Cells'[a] \in [Lanes -> Val \cup {Undef}]
  <2>1. \A l \in Lanes : Cells'[a][l] \in Val \cup {Undef}
    BY <1>1, ContentsIs
  <2>2. Cells'[a] = [l \in Lanes |-> Cells'[a][l]]
    BY DEF Cells, Contents, Word, Tag, Idx, Lanes
  <2>3. QED
    BY <2>1, <2>2
<1>3. Cells' = [a \in Word |-> Cells'[a]]
  BY DEF Cells, Word, Tag, Idx
<1>4. QED
  BY <1>2, <1>3

(* The memory is the same if every lane is.                                *)
LEMMA CellsSame ==
    ASSUME \A a \in Word, l \in Lanes : CellOf(a, l)' = CellOf(a, l)
    PROVE  Cells' = Cells
<1>1. ASSUME NEW a \in Word PROVE Cells'[a] = Cells[a]
  <2>1. Cells'[a] = [l \in Lanes |-> Cells'[a][l]] /\ Cells[a] = [l \in Lanes |-> Cells[a][l]]
    BY DEF Cells, Contents, Word, Tag, Idx, Lanes
  <2>2. \A l \in Lanes : Cells'[a][l] = Cells[a][l]
    BY ContentsIs
  <2>3. QED
    BY <2>1, <2>2
<1>2. Cells' = [a \in Word |-> Cells'[a]] /\ Cells = [a \in Word |-> Cells[a]]
  BY DEF Cells, Word, Tag, Idx
<1>3. QED
  BY <1>1, <1>2

(* A refill ends with its acknowledge.                                     *)
LEMMA ReadOutNext ==
    ASSUME sdst \in ReadStates
    PROVE  SdOut.next \in ReadStates \/ SdOut.ack
<1>1. CASE sdst = "READBURST" /\ BurstLast
  BY <1>1 DEF SdOut, ReadOut, Go, Issue, Quiet, InitStates, RefreshStates, WriteStates, ReadStates
<1>2. CASE sdst # "READBURST" \/ ~BurstLast
  BY <1>2, ReadMoves DEF ReadStates, Moves, Stays
<1>3. QED
  BY <1>1, <1>2

(* A line leaves the cache, as far as the mapping goes, when the last beat *)
(* of its eviction is stored, or when there is nothing to write back.      *)
LEMMA SdEvicted ==
    ASSUME CoreInv, MemInv, SdClk, ~rst.up
    PROVE  /\ Evicted => Evicted'
           /\ Evicted' /\ ~Evicted =>
                (sdst = "WRITEBURST" /\ BurstFinished) \/ ~tags[Adr.idx].dirty
<1>1. /\ CommandInv /\ ControlType /\ HandInv /\ QuietInv /\ FillInv
  BY DEF CoreInv, CommandInv, MemInv
<1>2. UNCHANGED <<bus, sst, tags>> /\ rst'.up = rst.up
  BY <1>1 DEF SdClk, sysvars, ControlType
<1>3. ControlType'
  BY <1>1, StepControl DEF Next
<1>4. (Underway("ack") <=> ~Flat("ack")) /\ (Underway("ack")' <=> ~Flat("ack")')
  <2>1. Underway("ack") <=> ~Flat("ack")
    BY <1>1, UnderwayFlat DEF Channels
  <2>2. /\ tog'["ack"] \in BOOLEAN /\ syn'["ack"][1] \in BOOLEAN
        /\ syn'["ack"][2] \in BOOLEAN /\ syn'["ack"][3] \in BOOLEAN
    BY <1>3 DEF ControlType, Triple, Channels
  <2>3. Underway("ack")' <=> ~Flat("ack")'
    BY <2>2 DEF Underway, Flat
  <2>4. QED
    BY <2>1, <2>3
<1>5. /\ tog'["ack"] <=> (tog["ack"] <=> ~SdOut.ack)
      /\ syn'["ack"] = syn["ack"]
      /\ tog["ack"] \in BOOLEAN /\ tog'["ack"] \in BOOLEAN
  BY <1>1, <1>3, SdChannels DEF ControlType, Channels
<1>6. /\ ~SdOut.ack => (Flat("ack")' <=> Flat("ack"))
      /\ SdOut.ack /\ Flat("ack") => ~Flat("ack")'
  <2>1. /\ ~SdOut.ack => tog'["ack"] = tog["ack"]
        /\ SdOut.ack => tog'["ack"] # tog["ack"]
    BY <1>5
  <2>2. QED
    BY <1>5, <2>1 DEF Flat
<1>7. sdst' = IF sdram_rst[2] THEN "RESET" ELSE SdOut.next
  BY PinStep
<1>8. CASE sdst \in ReadStates
  <2>1. Held
    BY <1>8 DEF Held, Serving
  <2>2. sst = "WAIT_ACK" /\ Flat("ack")
    BY <1>1, <2>1 DEF HandInv, AllFlat
  <2>3. ~sdram_rst[2]
    BY <1>1, <1>8 DEF QuietInv, ReadStates
  <2>4. SdOut.next \in ReadStates \/ SdOut.ack
    BY <1>8, ReadOutNext
  <2>5. QED
    BY <1>2, <1>4, <1>6, <1>7, <1>8, <2>2, <2>3, <2>4 DEF Evicted
<1>9. CASE sdst \notin ReadStates
  <2>1. ~SdOut.ack
    BY <1>1, <1>9, OutControl DEF ControlType, ReadStates
  <2>2. Evicted => Evicted'
    BY <1>2, <1>4, <1>6, <1>9, <2>1 DEF Evicted
  <2>3. SUFFICES ASSUME sst = "WAIT_ACK", sdst' \in ReadStates
                 PROVE  (sdst = "WRITEBURST" /\ BurstFinished) \/ ~tags[Adr.idx].dirty
    BY <1>2, <1>4, <1>6, <1>9, <2>1, <2>2 DEF Evicted
  <2>4. SdOut.next \in ReadStates
    BY <1>7, <2>3 DEF ReadStates
  <2>5. CASE sdst = "IDLE"
    <3>1. Flag("refill") \/ pend["refill"]
      BY <1>1, <2>4, <2>5, OutLine DEF ControlType
    <3>2. ~Flat("refill") \/ pend["refill"]
      BY <3>1, FlatFlag DEF Channels
    <3>3. QED
      BY <1>1, <3>2 DEF FillInv
  <2>6. CASE sdst # "IDLE"
    BY <1>1, <1>9, <2>4, <2>6, InitMoves, RefreshMoves, WriteMoves
       DEF ControlType, SdStates, InitStates, RefreshStates, WriteStates, ReadStates,
           Moves, Stays
  <2>7. QED
    BY <2>5, <2>6
<1>10. QED
  BY <1>8, <1>9

(* The last beat of an eviction: the chip now has the whole line.          *)
LEMMA LastBeat ==
    ASSUME CoreInv, SdClk, sdst = "WRITEBURST", BurstFinished, NEW j \in Beats
    PROVE  dram'[Place(evict_adr)][j] = Cached(evict_adr.idx, j)
<1>1. /\ ControlType /\ SideInv /\ StartInv /\ BurstInv /\ DataInv /\ CountInv
  BY DEF CoreInv, CommandInv, SideInv
<1>2. /\ Burst = [k |-> "wr", at |-> Place(evict_adr), n |-> bc - 1]
      /\ ~pins.dqm /\ chip.cke /\ pins.dq = Cached(evict_adr.idx, bc - 1)
  BY <1>1 DEF BurstInv
<1>3. dram'[Place(evict_adr)][j] = IF j = bc - 1 THEN pins.dq ELSE dram[Place(evict_adr)][j]
  BY <1>1, <1>2, DramStep DEF Storing
<1>4. j < bc - 1 => dram[Place(evict_adr)][j] = Cached(evict_adr.idx, j)
  BY <1>1 DEF DataInv
<1>5. j = bc - 1 \/ j < bc - 1
  BY WaitTypes DEF BurstFinished, Beats
<1>6. QED
  BY <1>2, <1>3, <1>4, <1>5

(* No edge of sdram_clk changes what a word holds.                         *)
LEMMA SdCell ==
    ASSUME CoreInv, MemInv, SdClk, NEW a \in Word, NEW l \in Lanes
    PROVE  CellOf(a, l)' = CellOf(a, l)
<1>1. /\ CommandInv /\ ControlType /\ HandInv /\ AdrInv /\ SideInv /\ StartInv /\ FillInv
      /\ QuietInv
  BY DEF CoreInv, CommandInv, MemInv
<1>2. UNCHANGED <<bus, sst, tags, evict_adr, refill_adr, fresh>> /\ rst'.up = rst.up
  BY <1>1 DEF SdClk, sysvars, ControlType
<1>3. /\ a.tag \in Tag /\ a.idx \in Idx /\ a.w \in LineIdx /\ Place(a) \in Places
      /\ Place(a) = Place([tag |-> a.tag, idx |-> a.idx]) /\ Place(a)' = Place(a)
  BY WordTypes
<1> DEFINE t == tags[a.idx]
           b == BeatOf(a.w, l)
<1>4. b \in Beats /\ b \div 2 = a.w /\ Lane(b) = l
  BY <1>3, WordBeat
<1>5. CellOf(a, l)' =
        IF a.tag = t.tag /\ a.idx \in fresh THEN Undef
        ELSE IF t.tag = a.tag /\ t.dirty /\ ~(Evicted' /\ a.idx = Adr.idx)
             THEN cache'[a.idx][a.w][l]
        ELSE dram'[Place(a)][b]
  BY <1>2, <1>3 DEF CellOf, InCache, BeatOf, Adr
<1>6. CellOf(a, l) =
        IF a.tag = t.tag /\ a.idx \in fresh THEN Undef
        ELSE IF t.tag = a.tag /\ t.dirty /\ ~(Evicted /\ a.idx = Adr.idx)
             THEN cache[a.idx][a.w][l]
        ELSE dram[Place(a)][b]
  BY DEF CellOf, InCache
<1> HIDE DEF t, b
<1>7. SUFFICES ASSUME ~(a.tag = t.tag /\ a.idx \in fresh)
               PROVE  CellOf(a, l)' = CellOf(a, l)
  BY <1>5, <1>6
<1>8. a.tag # evict_adr.tag \/ a.idx # evict_adr.idx => dram'[Place(a)] = dram[Place(a)]
  <2>1. a.tag # evict_adr.tag \/ a.idx # evict_adr.idx => Place(a) # Place(evict_adr)
    BY <1>1, <1>3, OtherPlace
  <2>2. QED
    BY <1>3, <2>1, SdKeeps
<1>9. a.idx # evict_adr.idx => cache'[a.idx] = cache[a.idx]
  BY <1>3, SdKeeps
<1>10. CASE rst.up
  <2>1. a.tag = t.tag => ~(Evicted /\ a.idx = Adr.idx) /\ ~(Evicted' /\ a.idx = Adr.idx)
    BY <1>1, <1>2, <1>7, <1>10 DEF QuietInv, Evicted
  <2>2. CASE ~Active
    BY <1>5, <1>6, <2>1, <2>2, SdKeeps
  <2>3. CASE Active
    <3>1. a.tag = t.tag => a.idx # evict_adr.idx
      BY <1>7, <1>10, <2>3, ActiveLine
    <3>2. a.tag # evict_adr.tag \/ a.idx # evict_adr.idx
      BY <1>7, <1>10, <2>3, ActiveLine DEF t
    <3>3. QED
      BY <1>5, <1>6, <1>8, <1>9, <2>1, <3>1, <3>2
  <2>4. QED
    BY <2>2, <2>3
<1>11. CASE ~rst.up
  <2>1. /\ Evicted => Evicted'
        /\ Evicted' /\ ~Evicted =>
             (sdst = "WRITEBURST" /\ BurstFinished) \/ ~tags[Adr.idx].dirty
    BY <1>11, SdEvicted
  <2>2. CASE a.idx # evict_adr.idx \/ ~Active
    <3>1. cache'[a.idx] = cache[a.idx] /\ dram'[Place(a)] = dram[Place(a)]
      BY <1>8, <1>9, <2>2, SdKeeps
    <3>2. a.idx = Adr.idx /\ Evicted' /\ ~Evicted => ~t.dirty
      <4>1. SUFFICES ASSUME a.idx = Adr.idx, Evicted', ~Evicted, t.dirty PROVE FALSE
        OBVIOUS
      <4>2. sdst = "WRITEBURST"
        BY <2>1, <4>1 DEF t
      <4>3. Active
        BY <4>2 DEF Active, Held, Serving, WriteStates
      <4>4. QED
        BY <1>11, <2>2, <4>1, <4>3, ActiveLine
    <3>3. QED
      BY <1>5, <1>6, <2>1, <3>1, <3>2
  <2>3. CASE a.idx = evict_adr.idx /\ Active
    <3>1. /\ sst = "WAIT_ACK" /\ a.idx = Adr.idx /\ evict_adr.tag = t.tag
          /\ refill_adr.idx = evict_adr.idx
      BY <1>11, <2>3, ActiveLine DEF t
    <3>2. CASE a.tag # t.tag
      BY <1>5, <1>6, <1>8, <3>1, <3>2
    <3>3. CASE a.tag = t.tag
      <4>1. Place(a) = Place(evict_adr)
        BY <2>3, <3>1, <3>3 DEF Place, BankOf, RowOf, ColOf, Number
      <4>2. sdst # "WRITEBURST" => dram' = dram
        <5>1. sdst = "RESET" => ~Storing
          BY <1>1, <1>11 DEF QuietInv, Storing
        <5>2. sdst # "WRITEBURST" => ~Storing
          BY <1>1, <5>1, Stores
        <5>3. QED
          BY <1>1, <5>2, DramStep
      <4>3. CASE sdst = "WRITEBURST"
        <5>1. t.dirty
          BY <1>1, <1>11, <3>1, <4>3 DEF FillInv, WriteStates, t
        <5>2. cache' = cache
          BY <4>3, SdKeeps
        <5>3. ~Evicted
          <6>1. Flat("ack") /\ sdst \notin ReadStates
            BY <1>11, <2>3, <4>3, ActiveLine DEF ReadStates
          <6>2. QED
            BY <1>1, <6>1, UnderwayFlat DEF Evicted, Channels
        <5>4. Evicted' => BurstFinished
          BY <2>1, <3>1, <5>1, <5>3 DEF t
        <5>5. BurstFinished => dram'[Place(a)][b] = cache[a.idx][a.w][l]
          BY <1>4, <2>3, <4>1, <4>3, LastBeat DEF Cached
        <5>6. QED
          BY <1>5, <1>6, <1>7, <3>3, <5>1, <5>2, <5>3, <5>4, <5>5
      <4>4. CASE sdst # "WRITEBURST" /\ Evicted
        BY <1>5, <1>6, <1>7, <2>1, <3>1, <4>2, <4>4
      <4>5. CASE sdst # "WRITEBURST" /\ ~Evicted
        <5>1. sdst \notin ReadStates
          BY <3>1, <4>5 DEF Evicted
        <5>2. cache' = cache
          BY <5>1, SdKeeps DEF ReadStates
        <5>3. Evicted' => ~t.dirty
          BY <2>1, <3>1, <4>5 DEF t
        <5>4. QED
          BY <1>5, <1>6, <1>7, <4>2, <4>5, <5>2, <5>3
      <4>6. QED
        BY <4>3, <4>4, <4>5
    <3>4. QED
      BY <3>2, <3>3
  <2>4. QED
    BY <2>2, <2>3
<1>12. QED
  BY <1>10, <1>11

(* The words of the addressed line, when the acknowledge is given.         *)
LEMMA AckCell ==
    ASSUME CoreInv, MemInv, ~rst.up, WbAck, NEW a \in Word, NEW l \in Lanes,
           a.tag = Adr.tag, a.idx = Adr.idx
    PROVE  /\ CellOf(a, l) # Undef => CellOf(a, l) = cache[a.idx][a.w][l]
           /\ sst = "WAIT_ACK" => dram[Place(a)][BeatOf(a.w, l)] = cache[a.idx][a.w][l]
<1>1. CommandInv /\ ControlType /\ AdrInv /\ CleanInv /\ FillInv
  BY DEF CoreInv, CommandInv, MemInv
<1>2. /\ a.idx \in Idx /\ a.w \in LineIdx
      /\ Place(a) = Place([tag |-> a.tag, idx |-> a.idx])
  BY WordTypes
<1> DEFINE b == BeatOf(a.w, l)
<1>3. b \in Beats /\ b \div 2 = a.w /\ Lane(b) = l
  BY <1>2, WordBeat
<1> HIDE DEF b
<1>4. Stored(a.idx, [tag |-> a.tag, idx |-> a.idx]) =>
        dram[Place(a)][b] = cache[a.idx][a.w][l]
  BY <1>2, <1>3 DEF Stored, Cached
<1>5. CASE sst = "CHECK_HIT" /\ Hit
  <2>1. a.tag = tags[a.idx].tag /\ ~Evicted
    BY <1>1, <1>5 DEF Hit, AdrInv, Evicted
  <2>2. a.idx \notin fresh /\ ~tags[a.idx].dirty =>
          Stored(a.idx, [tag |-> a.tag, idx |-> a.idx])
    BY <1>1, <1>2, <1>5, <2>1 DEF CleanInv
  <2>3. QED
    BY <1>4, <1>5, <2>1, <2>2 DEF CellOf, InCache, b
<1>6. CASE sst = "WAIT_ACK" /\ Flag("ack")
  <2>1. ~Flat("ack")
    BY <1>6, FlatFlag DEF Channels
  <2>2. Stored(a.idx, [tag |-> a.tag, idx |-> a.idx]) /\ a.tag # tags[a.idx].tag
    BY <1>1, <1>6, <2>1 DEF FillInv, AdrInv
  <2>3. QED
    BY <1>4, <2>2 DEF CellOf, InCache, b
<1>7. QED
  BY <1>5, <1>6 DEF WbAck

(* An edge of sys_clk without an acknowledge evicts nothing.               *)
LEMMA SysEvicted ==
    ASSUME CoreInv, SysClk, ~rst.up, ~WbAck
    PROVE  Evicted' <=> Evicted
<1>1. CommandInv /\ ControlType /\ HandInv
  BY DEF CoreInv, CommandInv
<1>2. sdst' = sdst /\ sst' = SysState
  BY DEF SysClk, sdvars
<1>3. tog'["ack"] = tog["ack"] /\ syn'["ack"] = Shift("ack") /\ ControlType'
  BY <1>1, SysChannels, StepControl DEF Next
<1>4. (Underway("ack") <=> ~Flat("ack")) /\ (Underway("ack")' <=> ~Flat("ack")')
  <2>1. Underway("ack") <=> ~Flat("ack")
    BY <1>1, UnderwayFlat DEF Channels
  <2>2. /\ tog'["ack"] \in BOOLEAN /\ syn'["ack"][1] \in BOOLEAN
        /\ syn'["ack"][2] \in BOOLEAN /\ syn'["ack"][3] \in BOOLEAN
    BY <1>3 DEF ControlType, Triple, Channels
  <2>3. Underway("ack")' <=> ~Flat("ack")'
    BY <2>2 DEF Underway, Flat
  <2>4. QED
    BY <2>1, <2>3
<1>5. Flat("ack") => Flat("ack")'
  BY <1>1, <1>3, ShiftEdge DEF HandInv, Channels
<1>6. ~Flat("ack") /\ ~Flag("ack") => ~Flat("ack")'
  BY <1>1, <1>3, ShiftType DEF HandInv, OneEdge, Flat, Flag, Channels
<1>7. CASE sst = "WAIT_ACK"
  <2>1. sst' = "WAIT_ACK" /\ ~Flag("ack")
    BY <1>2, <1>7 DEF SysState, SysNext, WbAck
  <2>2. QED
    BY <1>2, <1>4, <1>5, <1>6, <1>7, <2>1 DEF Evicted
<1>8. CASE sst # "WAIT_ACK"
  <2>1. Flat("ack") /\ sdst \notin ReadStates
    BY <1>1, <1>8 DEF HandInv, AllFlat, Held, Serving
  <2>2. QED
    BY <1>2, <1>4, <1>5, <1>8, <2>1 DEF Evicted
<1>9. QED
  BY <1>7, <1>8

(* The words of every other line: a lane that was settled stays.           *)
LEMMA SysCell ==
    ASSUME CoreInv, MemInv, SysClk, NEW a \in Word, NEW l \in Lanes
    PROVE  /\ ~WbAck /\ ~rst.up => CellOf(a, l)' = CellOf(a, l)
           /\ ~rst.up /\ WbAck /\ CellOf(a, l) # Undef
                /\ ~(a.tag = Adr.tag /\ a.idx = Adr.idx /\ bus.rq.we) =>
                  CellOf(a, l)' = CellOf(a, l)
           /\ ~rst.up /\ WbAck /\ bus.rq.we /\ a.tag = Adr.tag /\ a.idx = Adr.idx =>
                CellOf(a, l)' = cache'[a.idx][a.w][l]
           /\ rst.up /\ CellOf(a, l) # Undef => CellOf(a, l)' \in {CellOf(a, l), Undef}
<1>1. /\ CommandInv /\ ControlType /\ HandInv /\ AdrInv /\ CleanInv /\ FillInv /\ QuietInv
  BY DEF CoreInv, CommandInv, MemInv
<1>2. /\ Adr' = Adr /\ bus'.rq = bus.rq /\ rst'.up = rst.up
      /\ \A i \in Idx : i # Adr.idx => tags'[i] = tags[i] /\ (i \in fresh' <=> i \in fresh)
      /\ TagsWe => tags'[Adr.idx] = [tag |-> Adr.tag, dirty |-> bus.rq.we]
      /\ ~TagsWe => tags' = tags /\ fresh' = fresh
      /\ TagsWe /\ ~rst.up => Adr.idx \notin fresh'
      /\ rst.up => fresh' = fresh /\ ~bus.rq.we /\ (TagsWe => sst = "WAIT_ACK")
      /\ \A i \in Idx : i # Adr.idx => cache'[i] = cache[i]
      /\ ~(WbAck /\ bus.rq.we) => cache' = cache
  BY TagStep
<1>3. dram' = dram /\ sdst' = sdst /\ sst' = SysState
  BY DEF SysClk, sdvars
<1>4. /\ a.tag \in Tag /\ a.idx \in Idx /\ a.w \in LineIdx /\ Place(a)' = Place(a)
  BY WordTypes
<1> DEFINE b == BeatOf(a.w, l)
<1>5. CellOf(a, l)' =
        IF a.tag = tags'[a.idx].tag /\ a.idx \in fresh' THEN Undef
        ELSE IF tags'[a.idx].tag = a.tag /\ tags'[a.idx].dirty
                /\ ~(Evicted' /\ a.idx = Adr.idx)
             THEN cache'[a.idx][a.w][l]
        ELSE dram[Place(a)][b]
  BY <1>2, <1>3, <1>4 DEF CellOf, InCache, BeatOf
<1>6. CellOf(a, l) =
        IF a.tag = tags[a.idx].tag /\ a.idx \in fresh THEN Undef
        ELSE IF tags[a.idx].tag = a.tag /\ tags[a.idx].dirty
                /\ ~(Evicted /\ a.idx = Adr.idx)
             THEN cache[a.idx][a.w][l]
        ELSE dram[Place(a)][b]
  BY DEF CellOf, InCache
<1> HIDE DEF b
<1>7. a.idx # Adr.idx => CellOf(a, l)' = CellOf(a, l)
  BY <1>2, <1>4, <1>5, <1>6
<1>8. CASE a.idx # Adr.idx
  BY <1>7, <1>8
<1>9. CASE a.idx = Adr.idx /\ rst.up
  <2>1. ~Evicted' /\ cache' = cache
    BY <1>2, <1>3, <1>9 DEF SysState, Evicted
  <2>2. Evicted => a.idx \in fresh
    BY <1>1, <1>9 DEF QuietInv, Evicted
  <2>3. TagsWe => a.idx \in fresh /\ a.idx \in fresh'
    BY <1>1, <1>2, <1>9 DEF QuietInv
  <2>4. CASE TagsWe
    BY <1>2, <1>5, <1>6, <1>9, <2>1, <2>3, <2>4
  <2>5. CASE ~TagsWe
    BY <1>2, <1>5, <1>6, <1>9, <2>1, <2>2, <2>5
  <2>6. QED
    BY <1>9, <2>4, <2>5
<1>10. CASE a.idx = Adr.idx /\ ~rst.up /\ ~WbAck
  <2>1. tags' = tags /\ fresh' = fresh /\ cache' = cache
    BY <1>2, <1>10 DEF TagsWe
  <2>2. Evicted' <=> Evicted
    BY <1>10, SysEvicted
  <2>3. QED
    BY <1>5, <1>6, <1>10, <2>1, <2>2
<1>11. CASE a.idx = Adr.idx /\ ~rst.up /\ WbAck
  <2>1. ~Evicted' /\ sst \in {"CHECK_HIT", "WAIT_ACK"}
    BY <1>3, <1>11 DEF SysState, SysNext, WbAck, Evicted
  <2>2. CASE TagsWe
    <3>1. tags'[a.idx] = [tag |-> Adr.tag, dirty |-> bus.rq.we] /\ a.idx \notin fresh'
      BY <1>2, <1>11, <2>2
    <3>2. CellOf(a, l)' = IF Adr.tag = a.tag /\ bus.rq.we THEN cache'[a.idx][a.w][l]
                          ELSE dram[Place(a)][b]
      BY <1>5, <2>1, <3>1
    <3>3. CASE a.tag = Adr.tag /\ bus.rq.we
      BY <1>11, <3>2, <3>3
    <3>4. CASE a.tag = Adr.tag /\ ~bus.rq.we
      <4>1. sst = "WAIT_ACK"
        BY <2>2, <3>4 DEF TagsWe
      <4>2. /\ CellOf(a, l) # Undef => CellOf(a, l) = cache[a.idx][a.w][l]
            /\ dram[Place(a)][b] = cache[a.idx][a.w][l]
        BY <1>11, <3>4, <4>1, AckCell DEF b
      <4>3. QED
        BY <1>11, <3>2, <3>4, <4>2
    <3>5. CASE a.tag # Adr.tag
      <4>1. ~(tags[a.idx].tag = a.tag /\ ~(Evicted /\ a.idx = Adr.idx))
        <5>1. CASE sst = "CHECK_HIT"
          BY <1>1, <1>11, <3>5, <5>1 DEF WbAck, Hit, AdrInv
        <5>2. CASE sst = "WAIT_ACK"
          <6>1. Flag("ack")
            BY <1>11, <5>2 DEF WbAck
          <6>2. ~Flat("ack")
            BY <6>1, FlatFlag DEF Channels
          <6>3. Evicted
            BY <1>1, <5>2, <6>2, UnderwayFlat DEF Evicted, Channels
          <6>4. QED
            BY <1>11, <6>3
        <5>3. QED
          BY <2>1, <5>1, <5>2
      <4>2. CellOf(a, l) # Undef => CellOf(a, l) = dram[Place(a)][b]
        BY <1>6, <4>1
      <4>3. QED
        BY <1>11, <3>2, <3>5, <4>2
    <3>6. QED
      BY <3>3, <3>4, <3>5
  <2>3. CASE ~TagsWe
    <3>1. sst = "CHECK_HIT" /\ ~bus.rq.we
      BY <1>11, <2>1, <2>3 DEF TagsWe
    <3>2. tags' = tags /\ fresh' = fresh /\ cache' = cache /\ ~Evicted
      BY <1>2, <2>3, <3>1 DEF Evicted
    <3>3. CellOf(a, l)' = CellOf(a, l)
      BY <1>5, <1>6, <2>1, <3>2
    <3>4. QED
      BY <1>11, <3>1, <3>3
  <2>4. QED
    BY <2>2, <2>3
<1>12. QED
  BY <1>8, <1>9, <1>10, <1>11

(* A reset may unsettle a lane but changes none.                           *)
LEMMA OtherCell ==
    ASSUME CoreInv, MemInv, Next, ~SysClk, ~SdClk, NEW a \in Word, NEW l \in Lanes
    PROVE  /\ ~Reset => CellOf(a, l)' = CellOf(a, l)
           /\ Reset /\ CellOf(a, l) # Undef => CellOf(a, l)' \in {CellOf(a, l), Undef}
<1>1. Place(a)' = Place(a)
  BY WordTypes
<1>2. CASE ~Reset
  <2>1. sst = "IDLE" /\ UNCHANGED <<tags, fresh, cache, dram, sst>>
    BY <1>2, OtherMem DEF Next
  <2>2. ~Evicted /\ ~Evicted'
    BY <2>1 DEF Evicted
  <2>3. QED
    BY <1>1, <1>2, <2>1, <2>2 DEF CellOf, InCache, BeatOf
<1>3. CASE Reset
  <2>1. /\ bus' = [ph |-> "idle", rq |-> Rest]
        /\ UNCHANGED <<sst, tags, sdvars, cache>>
        /\ fresh' = IF sst = "WAIT_ACK" THEN fresh \cup {Adr.idx, Rest.adr.idx} ELSE fresh
    BY <1>3 DEF Reset
  <2>2. dram' = dram /\ Adr' = Rest.adr
    BY <2>1 DEF sdvars, Adr
  <2>3. SUFFICES ASSUME ~(a.tag = tags[a.idx].tag /\ a.idx \in fresh'), CellOf(a, l) # Undef
                 PROVE  CellOf(a, l)' = CellOf(a, l)
    <3>1. a.tag = tags[a.idx].tag /\ a.idx \in fresh' => CellOf(a, l)' = Undef
      BY <2>1 DEF CellOf
    <3>2. QED
      BY <1>3, <2>3, <3>1
  <2>4. tags[a.idx].tag = a.tag =>
          ~(Evicted /\ a.idx = Adr.idx) /\ ~(Evicted' /\ a.idx = Rest.adr.idx)
    BY <2>1, <2>3 DEF Evicted
  <2>5. InCache(a)' <=> InCache(a)
    BY <2>1, <2>2, <2>4 DEF InCache
  <2>6. QED
    BY <1>1, <2>1, <2>2, <2>3, <2>5 DEF CellOf, BeatOf
<1>4. QED
  BY <1>2, <1>3

(* The two invariants of the refinement.                                   *)
LEMMA MemInvariant == Spec => [](CoreInv /\ MemInv)
<1>1. CoreInv /\ MemInv /\ [Next]_vars => MemInv'
  <2>1. ASSUME CoreInv, MemInv, UNCHANGED vars PROVE MemInv'
    <3>1. UNCHANGED <<rst, bus, sst, tags, do0, refill_adr, fresh, sdst, pend, dram, cache, tog, syn>>
      BY <2>1 DEF vars, sysvars, sdvars
    <3>2. CleanInv'
      BY <2>1, <3>1 DEF MemInv, CleanInv, Stored, Cached, Place, BankOf, RowOf, ColOf,
         Number, Beats, Adr, Idx
    <3>3. FillInv'
      BY <2>1, <3>1 DEF MemInv, FillInv, Stored, Cached, Place, BankOf, RowOf, ColOf,
         Number, Beats, Adr, Flat, Flag
    <3>4. QED
      BY <3>2, <3>3 DEF MemInv
  <2>2. QED
    BY <2>1, StepMem
<1>2. QED
  BY <1>1, CoreInvariant, InitMem, PTL DEF Spec

(* Initial states are initial states of a memory.                          *)
LEMMA InitMemory == Init => Mem!MemInit
<1> SUFFICES ASSUME Init PROVE Mem!MemInit
  OBVIOUS
<1>1. DataType
  BY InitCore DEF CoreInv, SideInv
<1>2. Cells \in [Word -> [Lanes -> Val \cup {Undef}]]
  BY <1>1, CellsType
<1>3. rst.up = FALSE /\ bus \in [ph : {"idle"}, rq : Requests]
  BY DEF Init
<1>4. rsp \in [Lanes -> Val]
  BY <1>1 DEF DataType, Half
<1>5. QED
  BY <1>2, <1>3, <1>4 DEF Mem!MemInit, Cells

(* An edge of sdram_clk is a stutter of the memory.                        *)
LEMMA SdMemory ==
    ASSUME CoreInv, MemInv, SdClk
    PROVE  UNCHANGED Mem!memvars
<1>1. Cells' = Cells
  BY SdCell, CellsSame
<1>2. ControlType
  BY DEF CoreInv, CommandInv
<1>3. UNCHANGED <<bus, rsp>> /\ rst'.up = rst.up
  BY <1>2 DEF SdClk, sysvars, ControlType
<1>4. QED
  BY <1>1, <1>3 DEF Mem!memvars, Cells

(* An edge of sys_clk answers, withdraws, or is a stutter.                 *)
LEMMA SysMemory ==
    ASSUME CoreInv, MemInv, CoreInv', SysClk
    PROVE  Mem!MemNext \/ UNCHANGED Mem!memvars
<1>1. /\ ControlType /\ DataType /\ FillInv /\ QuietInv /\ AdrInv
      /\ rsp \in [Lanes -> Val] /\ do0 \in [Lanes -> Val]
  BY DEF CoreInv, CommandInv, MemInv, SideInv, DataType, Half
<1>2. /\ Adr' = Adr /\ bus'.rq = bus.rq /\ rst'.up = rst.up
      /\ ~(WbAck /\ bus.rq.we) => cache' = cache
      /\ ~rst.up /\ sst # "IDLE" => bus.ph = "req"
  BY TagStep
<1>3. /\ bus \in [ph : {"idle", "req", "done"}, rq : Requests] /\ rst.up \in BOOLEAN
      /\ bus' = [bus EXCEPT !.ph = CASE bus.ph = "req" /\ WbAck -> "done"
                                     [] bus.ph = "done" -> "idle"
                                     [] OTHER -> bus.ph]
      /\ rsp' = IF bus.ph = "req" /\ WbAck /\ ~bus.rq.we THEN do0 ELSE rsp
  BY <1>1 DEF SysClk, ControlType
<1>4. Cells' \in [Word -> [Lanes -> Val \cup {Undef}]]
  BY CellsTypeNext DEF CoreInv, SideInv
<1>5. /\ Port0 = cache'[Adr.idx][Adr.w] /\ Adr \in Word
      /\ bus.rq.sel \subseteq Lanes /\ bus.rq.we \in BOOLEAN
  <2>1. bus.rq \in Request
    BY <1>1, YadmcAssumption DEF ControlType
  <2>2. QED
    BY <1>1, <2>1, CacheStep, Port0Type DEF Adr, Request
<1>6. CASE rst.up
  <2>1. bus.ph = "idle" /\ bus' = bus
    BY <1>1, <1>3, <1>6 DEF QuietInv
  <2>2. bus' \in [ph : {"idle"}, rq : Requests] /\ rsp' = rsp
    BY <1>3, <2>1
  <2>3. ASSUME NEW a \in Word, NEW l \in Lanes, Cells[a][l] # Undef
        PROVE  Cells'[a][l] \in {Cells[a][l], Undef}
    BY <1>6, <2>3, ContentsIs, SysCell
  <2>4. Mem!Reset
    BY <1>2, <1>6, <2>2, <2>3 DEF Mem!Reset, Cells
  <2>5. QED
    BY <2>4 DEF Mem!MemNext
<1>7. CASE ~rst.up /\ ~WbAck
  <2>1. Cells' = Cells /\ rsp' = rsp
    BY <1>3, <1>7, SysCell, CellsSame
  <2>2. CASE bus.ph = "done"
    <3>1. bus' = [ph |-> "idle", rq |-> bus.rq]
      BY <1>3, <2>2
    <3>2. Mem!Withdraw
      BY <2>1, <2>2, <3>1 DEF Mem!Withdraw, Cells
    <3>3. QED
      BY <1>2, <1>7, <3>2 DEF Mem!MemNext, Mem!Works
  <2>3. CASE bus.ph # "done"
    <3>1. bus' = bus
      BY <1>3, <1>7, <2>3
    <3>2. QED
      BY <1>2, <2>1, <3>1 DEF Mem!memvars, Cells
  <2>4. QED
    BY <2>2, <2>3
<1>8. CASE ~rst.up /\ WbAck
  <2>1. bus.ph = "req" /\ bus' = [ph |-> "done", rq |-> bus.rq]
    BY <1>2, <1>3, <1>8 DEF WbAck
  <2>2. do0 = cache[Adr.idx][Adr.w]
    BY <1>1, <1>8 DEF FillInv, WbAck
  <2>3. ASSUME NEW l \in Lanes, Cells[Adr][l] # Undef
        PROVE  Cells[Adr][l] = cache[Adr.idx][Adr.w][l]
    BY <1>5, <1>8, <2>3, ContentsIs, AckCell
  <2>4. CASE ~bus.rq.we
    <3>1. rsp' = do0
      BY <1>3, <1>8, <2>1, <2>4
    <3>2. ASSUME NEW a \in Word, NEW l \in Lanes, Cells[a][l] # Undef
          PROVE  Cells'[a][l] = Cells[a][l]
      BY <1>8, <2>4, <3>2, ContentsIs, SysCell
    <3>3. Mem!Keeps({})
      BY <1>4, <3>2 DEF Mem!Keeps, Cells
    <3>4. \A l \in Lanes : Cells[Adr][l] # Undef => rsp'[l] = Cells[Adr][l]
      BY <2>2, <2>3, <3>1
    <3>5. Mem!AnswerRead
      BY <1>1, <2>1, <2>4, <3>1, <3>3, <3>4 DEF Mem!AnswerRead, Cells, Adr
    <3>6. QED
      BY <1>2, <1>8, <3>5 DEF Mem!MemNext, Mem!Works
  <2>5. CASE bus.rq.we
    <3>1. rsp' = rsp
      BY <1>3, <2>5
    <3>2. ASSUME NEW l \in Lanes
          PROVE  Cells'[Adr][l] = IF l \in bus.rq.sel THEN bus.rq.dat[l]
                                  ELSE cache[Adr.idx][Adr.w][l]
      <4>1. Cells'[Adr][l] = cache'[Adr.idx][Adr.w][l]
        BY <1>5, <1>8, <2>5, ContentsIs, SysCell
      <4>2. QED
        BY <1>5, <1>8, <2>5, <4>1 DEF Port0
    <3>3. ASSUME NEW a \in Word, NEW l \in Lanes, Cells[a][l] # Undef,
                 <<a, l>> \notin {Adr} \X bus.rq.sel
          PROVE  Cells'[a][l] = Cells[a][l]
      <4>1. CASE a = Adr
        BY <2>3, <3>2, <3>3, <4>1
      <4>2. CASE a # Adr /\ a.tag = Adr.tag /\ a.idx = Adr.idx
        <5>1. a.w # Adr.w
          BY <1>5, <4>2 DEF Word
        <5>2. a.w \in LineIdx /\ a.idx \in Idx
          BY WordTypes
        <5>3. cache'[a.idx][a.w] = cache[a.idx][a.w]
          BY <1>1, <4>2, <5>1, <5>2, CacheStep
        <5>4. Cells'[a][l] = cache'[a.idx][a.w][l] /\ Cells[a][l] = CellOf(a, l)
          BY <1>8, <2>5, <4>2, ContentsIs, SysCell
        <5>5. CellOf(a, l) = cache[a.idx][a.w][l]
          BY <1>8, <3>3, <4>2, <5>4, AckCell
        <5>6. QED
          BY <5>3, <5>4, <5>5
      <4>3. CASE ~(a.tag = Adr.tag /\ a.idx = Adr.idx)
        BY <1>8, <3>3, <4>3, ContentsIs, SysCell
      <4>4. QED
        BY <4>1, <4>2, <4>3
    <3>4. Mem!Keeps({bus.rq.adr} \X bus.rq.sel)
      BY <1>4, <3>3 DEF Mem!Keeps, Cells, Adr
    <3>5. \A l \in bus.rq.sel : Cells'[Adr][l] = bus.rq.dat[l]
      BY <1>5, <3>2
    <3>6. Mem!AnswerWrite
      BY <2>1, <2>5, <3>1, <3>4, <3>5 DEF Mem!AnswerWrite, Cells, Adr
    <3>7. QED
      BY <1>2, <1>8, <3>6 DEF Mem!MemNext, Mem!Works
  <2>6. QED
    BY <1>5, <2>4, <2>5
<1>9. QED
  BY <1>3, <1>6, <1>7, <1>8

(* Reset, release and request are those of the memory.                     *)
LEMMA OtherMemory ==
    ASSUME CoreInv, MemInv, Next, ~SysClk, ~SdClk
    PROVE  Mem!MemNext
<1>1. CASE Reset
  <2>1. /\ rst'.up = TRUE /\ bus' = [ph |-> "idle", rq |-> Rest] /\ rsp' = rsp
    BY <1>1 DEF Reset
  <2>2. bus' \in [ph : {"idle"}, rq : Requests]
    BY <2>1, YadmcAssumption
  <2>3. ASSUME NEW a \in Word, NEW l \in Lanes, Cells[a][l] # Undef
        PROVE  Cells'[a][l] \in {Cells[a][l], Undef}
    BY <1>1, <2>3, ContentsIs, OtherCell
  <2>4. Mem!Reset
    BY <2>1, <2>2, <2>3 DEF Mem!Reset, Cells
  <2>5. QED
    BY <2>4 DEF Mem!MemNext
<1>2. CASE ~Reset
  <2>1. Cells' = Cells
    BY <1>2, OtherCell, CellsSame
  <2>2. CASE Release
    <3>1. rst.up = TRUE /\ rst'.up = FALSE /\ UNCHANGED <<bus, rsp>>
      BY <2>2 DEF Release, sysvars, CoreInv, CommandInv, ControlType
    <3>2. Mem!Release
      BY <2>1, <3>1 DEF Mem!Release, Cells
    <3>3. QED
      BY <3>2 DEF Mem!MemNext
  <2>3. CASE \E r \in Requests : Ask(r)
    <3>1. /\ ~rst.up /\ rst' = rst /\ bus.ph = "idle" /\ rsp' = rsp
          /\ \E r \in Requests : bus' = [ph |-> "req", rq |-> r]
      BY <2>3 DEF Ask
    <3>2. Mem!Ask
      BY <2>1, <3>1 DEF Mem!Ask, Cells
    <3>3. QED
      BY <3>1, <3>2 DEF Mem!MemNext, Mem!Works
  <2>4. QED
    BY <1>2, <2>2, <2>3 DEF Next
<1>3. QED
  BY <1>1, <1>2

(* The controller is a memory, for every size of the cache and the chip,   *)
(* for any two clocks, any traffic, any wait states and any resets.  No    *)
(* delay the chip asks for matters here: the chip of the model keeps its   *)
(* data however early a command comes.                                     *)
THEOREM MemoryRefinement == Spec => IsMemory
<1>1. ASSUME CoreInv, MemInv, CoreInv', [Next]_vars
      PROVE  [Mem!MemNext]_(Mem!memvars)
  <2>1. CASE Next
    BY <1>1, <2>1, SysMemory, SdMemory, OtherMemory
  <2>2. CASE UNCHANGED vars
    <3>1. UNCHANGED <<rst, bus, rsp, sst, tags, fresh, cache, dram, sdst, tog, syn>>
      BY <2>2 DEF vars, sysvars, sdvars
    <3>2. \A a \in Word, l \in Lanes : CellOf(a, l)' = CellOf(a, l)
      BY <3>1 DEF CellOf, InCache, Evicted, Underway, Adr, Place, BankOf, RowOf, ColOf,
         Number, BeatOf
    <3>3. Cells' = Cells
      BY <3>2, CellsSame
    <3>4. QED
      BY <3>1, <3>3 DEF Mem!memvars, Cells
  <2>3. QED
    BY <1>1, <2>1, <2>2
<1>2. QED
  BY <1>1, InitMemory, MemInvariant, PTL DEF Spec, IsMemory, Mem!MemSpec

-----------------------------------------------------------------------------
(* Delays.  The reload values of the counters against what the chip asks   *)
(* for: a command is on the pins one cycle after it is decided and a       *)
(* counter that is loaded with w runs for w cycles; an initialization      *)
(* outlasts a burst that a reset left running.  LastCap is as far as the   *)
(* model counts.                                                           *)
WaitsSuffice ==
    /\ Timing.rp <= Wait["pre"] + 1 /\ Timing.rp <= Wait["pall"] + 1
    /\ Timing.rcd <= Wait["act"] + 1 /\ Timing.rfc <= Wait["aref"] + 1
    /\ Timing.wr <= 2
    /\ Timing.rp <= LastCap /\ Timing.rcd <= LastCap /\ Timing.rfc <= LastCap
    /\ Wait["pall"] >= 1 /\ Wait["init"] >= 2*LineWords + 1

(* The counter of a command c has not run further than the chip's own      *)
(* count of edges since c.                                                 *)
Past(c, t) ==
    LastNext.cmd = c => LastNext.n >= LastCap \/ LastNext.n + timer[t] >= Wait[t] + 1
PastInv ==
    Past("PRE", "pre") /\ Past("PREALL", "pall") /\ Past("REF", "aref") /\ Past("ACT", "act")

LastType == LastNext \in [cmd : PinCommands, n : 1 .. LastCap]

(* What the chip took last, by the state of the machine.                   *)
OrderInv ==
    /\ Activating => LastNext.cmd = "PRE"
    /\ sdst \in {"INIT_AUTOREFRESH1", "AUTOREFRESH"} => LastNext.cmd = "PREALL"
    /\ sdst \in {"INIT_AUTOREFRESH2", "INIT_LOADMODE", "WAIT_REFRESH"} => LastNext.cmd = "REF"
    /\ LastNext.cmd = "WR" => LastNext.n >= 2 \/ Taken

(* A burst a reset left running ends before the initialization does.       *)
BurstLeft == IF Burst = NoBurst THEN 0 ELSE BurstEnd(Burst.k) + 1 - Burst.n
LeftInv == sdst = "INIT_PRECHARGEALL" => BurstLeft <= timer["init"]

SkipInv == ~pins.cke /\ sdst # "RESET" => timer["pall"] = Wait["pall"]

TimeInv == LastType /\ PastInv /\ OrderInv /\ LeftInv /\ SkipInv

(* Counters, commands and states.                                          *)
LEMMA OutTiming ==
    ASSUME sdst \in SdStates
    PROVE  /\ SdOut.cmd = "PRE" => "pre" \in SdOut.reload
           /\ SdOut.cmd = "PREALL" => "pall" \in SdOut.reload
           /\ SdOut.cmd = "REF" => "aref" \in SdOut.reload
           /\ SdOut.cmd = "ACT" => "act" \in SdOut.reload
           /\ SdOut.cmd # "NOP" => sdst \notin Reading \cup {"RESET", "WRITEBURST"}
           /\ SdOut.cmd # "NOP" /\ sdst = "INIT_PRECHARGEALL" => Done("init")
           /\ SdOut.cmd = "REF" =>
                \/ sdst \in {"INIT_AUTOREFRESH1", "AUTOREFRESH"} /\ Done("pall")
                \/ sdst = "INIT_AUTOREFRESH2" /\ Done("aref")
           /\ SdOut.cmd = "LMR" => sdst = "INIT_LOADMODE" /\ Done("aref")
<1>1. CASE sdst \in InitStates
  BY <1>1, InitMoves DEF InitStates, Reading, Moves, Stays
<1>2. CASE sdst = "IDLE"
  BY <1>2, IdleMoves DEF Reading, Moves, Stays
<1>3. CASE sdst \in RefreshStates
  BY <1>3, RefreshMoves DEF RefreshStates, Reading, Moves, Stays
<1>4. CASE sdst \in WriteStates
  BY <1>4, WriteMoves DEF WriteStates, Reading, Moves, Stays
<1>5. CASE sdst \in ReadStates
  BY <1>5, ReadMoves DEF ReadStates, Reading, Moves, Stays
<1>6. QED
  BY <1>1, <1>2, <1>3, <1>4, <1>5 DEF SdStates

(* How the machine gets into the states where it waits.                    *)
LEMMA OutOrder ==
    ASSUME sdst \in SdStates
    PROVE  /\ SdOut.next \in {"ACTIVATE_BEFORE_WRITE", "ACTIVATE_BEFORE_READ"} =>
                SdOut.cmd = "PRE" \/ (Activating /\ SdOut.cmd = "NOP")
           /\ SdOut.next \in {"INIT_AUTOREFRESH1", "AUTOREFRESH"} =>
                \/ SdOut.cmd = "PREALL"
                \/ sdst \in {"INIT_AUTOREFRESH1", "AUTOREFRESH"} /\ SdOut.cmd = "NOP"
           /\ SdOut.next \in {"INIT_AUTOREFRESH2", "INIT_LOADMODE", "WAIT_REFRESH"} =>
                \/ SdOut.cmd = "REF"
                \/ /\ sdst \in {"INIT_AUTOREFRESH2", "INIT_LOADMODE", "WAIT_REFRESH"}
                   /\ SdOut.cmd = "NOP"
           /\ SdOut.next = "INIT_PRECHARGEALL" =>
                /\ SdOut.cmd = "NOP"
                /\ \/ sdst = "RESET" /\ "init" \in SdOut.reload
                   \/ sdst = "INIT_PRECHARGEALL" /\ ~Done("init") /\ SdOut.reload = {}
<1>1. CASE sdst \in InitStates
  BY <1>1, InitMoves DEF InitStates, Activating, Moves, Stays
<1>2. CASE sdst = "IDLE"
  BY <1>2, IdleMoves DEF Activating, Moves, Stays
<1>3. CASE sdst \in RefreshStates
  BY <1>3, RefreshMoves DEF RefreshStates, Activating, Moves, Stays
<1>4. CASE sdst \in WriteStates
  BY <1>4, WriteMoves DEF WriteStates, Activating, Moves, Stays
<1>5. CASE sdst \in ReadStates
  BY <1>5, ReadMoves DEF ReadStates, Activating, Moves, Stays
<1>6. QED
  BY <1>1, <1>2, <1>3, <1>4, <1>5 DEF SdStates

(* A command is decided with the chip listening and no burst under way.    *)
LEMMA Listening ==
    ASSUME CoreInv, TimeInv, SdClk, WaitsSuffice, SdOut.cmd # "NOP"
    PROVE  pins.cke /\ NextCmd = SdOut.cmd /\ Burst = NoBurst
<1>1. /\ ControlType /\ PinInv /\ BurstInv /\ BurstType /\ CountInv /\ sdst \in SdStates
  BY DEF CoreInv, CommandInv, SideInv, BurstInv, ControlType
<1>2. pins.cke
  <2>1. CASE SdOut.cmd # "REF"
    BY <1>1, <2>1, SdPin
  <2>2. CASE SdOut.cmd = "REF"
    <3>1. SUFFICES ASSUME ~pins.cke PROVE FALSE
      OBVIOUS
    <3>2. sdst \in {"INIT_AUTOREFRESH1", "AUTOREFRESH", "RESET"}
      BY <1>1, <3>1 DEF PinInv
    <3>3. sdst # "RESET" /\ Done("pall")
      BY <1>1, <2>2, <3>2, OutTiming
    <3>4. timer["pall"] = Wait["pall"]
      BY <3>1, <3>3 DEF TimeInv, SkipInv
    <3>5. QED
      BY <3>3, <3>4, WaitTypes DEF Done, WaitsSuffice
  <2>3. QED
    BY <2>1, <2>2
<1>3. Burst = NoBurst
  <2>1. sdst \notin Reading \cup {"RESET", "WRITEBURST"}
    BY <1>1, OutTiming
  <2>2. CASE sdst # "INIT_PRECHARGEALL"
    BY <1>1, <2>1, <2>2 DEF BurstInv
  <2>3. CASE sdst = "INIT_PRECHARGEALL"
    <3>1. timer["init"] = 0
      BY <1>1, <2>3, OutTiming DEF Done
    <3>2. BurstLeft <= 0
      BY <2>3, <3>1 DEF TimeInv, LeftInv
    <3>3. SUFFICES ASSUME Burst # NoBurst PROVE FALSE
      OBVIOUS
    <3>4. /\ Burst.n \in Nat /\ Burst.n <= BurstEnd(Burst.k) /\ Burst.k \in {"rd", "wr"}
      BY <1>1, <3>3 DEF BurstType
    <3>5. BurstLeft = BurstEnd(Burst.k) + 1 - Burst.n
      BY <3>3 DEF BurstLeft
    <3>6. BurstEnd(Burst.k) \in Nat
      BY WaitTypes DEF BurstEnd
    <3>7. QED
      BY <3>2, <3>4, <3>5, <3>6
  <2>4. QED
    BY <2>2, <2>3
<1>4. QED
  BY <1>2, <1>3 DEF NextCmd

(* The chip's count, an edge later.                                        *)
LEMMA LastStep ==
    ASSUME SdClk
    PROVE  /\ Taken' => LastNext' = [cmd |-> "WR", n |-> 1]
           /\ ~Taken' /\ NextCmd \notin {"NOP", "RD"} => LastNext' = [cmd |-> NextCmd, n |-> 1]
           /\ ~Taken' /\ NextCmd \in {"NOP", "RD"} =>
                LastNext' = [LastNext EXCEPT !.n = IF @ < LastCap THEN @ + 1 ELSE @]
           /\ Taken' <=> Burst'.k = "wr" /\ pins.cke
<1>1. ChipCmd' = NextCmd /\ chip'.last = LastNext /\ chip'.cke = pins.cke
  BY PinStep, ChipStep
<1>2. QED
  BY <1>1 DEF LastNext, Taken, LastCap

(* The three ways the chip's count goes on.                                *)
LEMMA LastCases ==
    ASSUME CoreInv, TimeInv, SdClk, WaitsSuffice
    PROVE  \/ Taken' /\ LastNext' = [cmd |-> "WR", n |-> 1]
           \/ /\ SdOut.cmd \in {"PRE", "PREALL", "ACT", "REF", "LMR"}
              /\ LastNext' = [cmd |-> SdOut.cmd, n |-> 1]
           \/ /\ SdOut.cmd \in {"NOP", "RD"} /\ LastNext'.cmd = LastNext.cmd
              /\ LastNext'.n = IF LastNext.n < LastCap THEN LastNext.n + 1 ELSE LastNext.n
              /\ LastNext' \in [cmd : PinCommands, n : 1 .. LastCap]
<1>1. /\ ControlType /\ DataType /\ RowType /\ PinInv /\ RowInv /\ sdst \in SdStates /\ BurstType
  BY RowTypeOf DEF CoreInv, CommandInv, SideInv, ControlType, BurstInv
<1>2. SdOut.cmd \in PinCommands
  BY <1>1, OutCommand
<1>3. SdOut.cmd = "WR" => Taken'
  BY <1>1, BurstStart, Listening, LastStep
<1>4. CASE Taken'
  BY <1>4, LastStep
<1>5. CASE ~Taken' /\ SdOut.cmd \notin {"NOP", "RD"}
  <2>1. NextCmd = SdOut.cmd
    BY <1>5, Listening
  <2>2. QED
    BY <1>2, <1>3, <1>5, <2>1, LastStep DEF PinCommands
<1>6. CASE ~Taken' /\ SdOut.cmd \in {"NOP", "RD"}
  <2>1. NextCmd \in {"NOP", "RD"}
    BY <1>6 DEF NextCmd
  <2>2. LastNext' = [LastNext EXCEPT !.n = IF @ < LastCap THEN @ + 1 ELSE @]
    BY <1>6, <2>1, LastStep
  <2>3. LastNext \in [cmd : PinCommands, n : 1 .. LastCap]
    BY DEF TimeInv, LastType
  <2>4. QED
    BY <1>6, <2>2, <2>3 DEF LastCap
<1>7. QED
  BY <1>4, <1>5, <1>6

(* A counter and the chip's count, an edge later.                          *)
LEMMA PastStep ==
    ASSUME CoreInv, TimeInv, SdClk, WaitsSuffice, NEW c \in {"PRE", "PREALL", "REF", "ACT"},
           NEW t \in Timers, Past(c, t), SdOut.cmd = c => t \in SdOut.reload
    PROVE  Past(c, t)'
<1>1. CountInv
  BY DEF CoreInv, SideInv
<1>2. /\ timer[t] \in Nat /\ timer'[t] \in Nat
      /\ t \in SdOut.reload => timer'[t] = Wait[t]
      /\ t \notin SdOut.reload => timer'[t] = IF timer[t] = 0 THEN 0 ELSE timer[t] - 1
  BY <1>1, TimerStep
<1>3. Wait[t] \in Nat
  BY YadmcAssumption
<1>4. SUFFICES ASSUME LastNext'.cmd = c
               PROVE  LastNext'.n >= LastCap \/ LastNext'.n + timer'[t] >= Wait[t] + 1
  BY DEF Past, LastCap
<1>5. CASE Taken' /\ LastNext' = [cmd |-> "WR", n |-> 1]
  BY <1>4, <1>5
<1>6. CASE LastNext' = [cmd |-> SdOut.cmd, n |-> 1]
  <2>1. SdOut.cmd = c /\ LastNext'.n = 1
    BY <1>4, <1>6
  <2>2. timer'[t] = Wait[t]
    BY <1>2, <2>1
  <2>3. QED
    BY <1>3, <2>1, <2>2
<1>7. CASE /\ LastNext'.cmd = LastNext.cmd
           /\ LastNext'.n = IF LastNext.n < LastCap THEN LastNext.n + 1 ELSE LastNext.n
  <2>1. LastNext.n \in 1 .. LastCap
    BY DEF TimeInv, LastType
  <2>2. LastNext.n >= LastCap \/ LastNext.n + timer[t] >= Wait[t] + 1
    BY <1>4, <1>7 DEF Past
  <2>3. timer'[t] = Wait[t] \/ timer'[t] = IF timer[t] = 0 THEN 0 ELSE timer[t] - 1
    BY <1>2
  <2> DEFINE n == LastNext.n
             m == LastNext'.n
             u == timer'[t]
             v == timer[t]
             w == Wait[t]
  <2>4. /\ n \in 1 .. LastCap /\ u \in Nat /\ v \in Nat /\ w \in Nat
        /\ m = IF n < LastCap THEN n + 1 ELSE n
        /\ u = w \/ u = IF v = 0 THEN 0 ELSE v - 1
        /\ n >= LastCap \/ n + v >= w + 1
    BY <1>2, <1>3, <1>7, <2>1, <2>2, <2>3
  <2> HIDE DEF n, m, u, v, w
  <2>5. m >= LastCap \/ m + u >= w + 1
    BY <2>4 DEF LastCap
  <2>6. QED
    BY <2>5 DEF m, u, w
<1>8. QED
  BY <1>5, <1>6, <1>7, LastCases

(* The initialization counts down at least as slowly as a burst ends.      *)
LEMMA LeftStep ==
    ASSUME CoreInv, TimeInv, SdClk, WaitsSuffice
    PROVE  LeftInv'
<1>1. /\ ControlType /\ DataType /\ RowType /\ PinInv /\ RowInv /\ sdst \in SdStates /\ BurstType
      /\ CountInv
  BY RowTypeOf DEF CoreInv, CommandInv, SideInv, ControlType, BurstInv
<1>2. SUFFICES ASSUME sdst' = "INIT_PRECHARGEALL" PROVE BurstLeft' <= timer'["init"]
  BY DEF LeftInv
<1>3. SdOut.next = "INIT_PRECHARGEALL"
  BY <1>2, PinStep
<1>4. /\ SdOut.cmd = "NOP"
      /\ \/ sdst = "RESET" /\ "init" \in SdOut.reload
         \/ sdst = "INIT_PRECHARGEALL" /\ ~Done("init") /\ SdOut.reload = {}
  BY <1>1, <1>3, OutOrder
<1>5. Burst' = BurstNext
  BY <1>1, <1>4, BurstStart
<1>6. /\ timer["init"] \in Nat /\ timer'["init"] \in Nat
      /\ "init" \in SdOut.reload => timer'["init"] = Wait["init"]
      /\ "init" \notin SdOut.reload =>
           timer'["init"] = IF timer["init"] = 0 THEN 0 ELSE timer["init"] - 1
      /\ Done("init") <=> timer["init"] = 0
  BY <1>1, TimerStep DEF Timers
<1>7. CASE BurstNext = NoBurst
  <2>1. BurstLeft' = 0
    BY <1>5, <1>7 DEF BurstLeft, NoBurst
  <2>2. QED
    BY <1>6, <2>1
<1>8. CASE BurstNext # NoBurst
  <2>1. Burst # NoBurst /\ BurstNext = [Burst EXCEPT !.n = Burst.n + 1]
    BY <1>8 DEF BurstNext
  <2>2. PICK k \in {"rd", "wr"}, p \in Places, n \in Nat : Burst = [k |-> k, at |-> p, n |-> n]
    BY <1>1, <2>1 DEF BurstType
  <2>3. Burst' = [k |-> k, at |-> p, n |-> n + 1] /\ Burst' # NoBurst
    BY <1>5, <1>8, <2>1, <2>2
  <2>4. BurstLeft' = BurstEnd(k) + 1 - (n + 1)
    BY <2>3 DEF BurstLeft, BurstEnd, NoBurst
  <2>5. BurstLeft = BurstEnd(k) + 1 - n
    BY <2>1, <2>2 DEF BurstLeft
  <2>6. BurstEnd(k) \in Nat /\ BurstEnd(k) <= 2*LineWords + 1
    BY WaitTypes DEF BurstEnd
  <2>7. CASE sdst = "RESET" /\ "init" \in SdOut.reload
    <3>1. timer'["init"] = Wait["init"] /\ Wait["init"] >= 2*LineWords + 1
      BY <1>6, <2>7 DEF WaitsSuffice
    <3>2. QED
      BY <2>4, <2>6, <3>1, WaitTypes
  <2>8. CASE sdst = "INIT_PRECHARGEALL" /\ ~Done("init") /\ SdOut.reload = {}
    <3>1. BurstLeft <= timer["init"]
      BY <2>8 DEF TimeInv, LeftInv
    <3>2. timer'["init"] = timer["init"] - 1
      BY <1>6, <2>8
    <3>3. QED
      BY <1>6, <2>4, <2>5, <2>6, <3>1, <3>2
  <2>9. QED
    BY <1>4, <2>7, <2>8
<1>9. QED
  BY <1>7, <1>8

(* The machine's state tells the command the chip took last.               *)
LEMMA OrderStep ==
    ASSUME CoreInv, TimeInv, SdClk, WaitsSuffice
    PROVE  OrderInv'
<1>1. /\ ControlType /\ DataType /\ RowType /\ PinInv /\ RowInv /\ sdst \in SdStates
      /\ BurstType /\ BurstInv /\ OrderInv
  BY RowTypeOf DEF CoreInv, CommandInv, SideInv, ControlType, BurstInv, TimeInv
<1>2. SdOut.cmd \in PinCommands
  BY <1>1, OutCommand
<1>3. Burst = NoBurst /\ SdOut.cmd \notin {"RD", "WR"} => Burst' = NoBurst
  BY <1>1, <1>2, BurstStart, BurstNextIs DEF PinCommands
<1>4. Burst' = NoBurst => ~Taken'
  BY DEF Taken, NoBurst
<1>5. sdst' = IF sdram_rst[2] THEN "RESET" ELSE SdOut.next
  BY PinStep
<1>6. ASSUME NEW c \in {"PRE", "PREALL", "REF"}, SdOut.cmd = c PROVE LastNext'.cmd = c
  <2>1. ~Taken'
    BY <1>3, <1>4, <1>6, Listening
  <2>2. QED
    BY <1>6, <2>1, LastCases
<1>7. ASSUME SdOut.cmd = "NOP", sdst \notin Reading \cup {"RESET", "INIT_PRECHARGEALL", "WRITEBURST"}
      PROVE  LastNext'.cmd = LastNext.cmd
  <2>1. ~Taken'
    BY <1>1, <1>3, <1>4, <1>7 DEF BurstInv
  <2>2. QED
    BY <1>7, <2>1, LastCases
<1>8. Activating' => LastNext'.cmd = "PRE"
  <2>1. SUFFICES ASSUME Activating' PROVE LastNext'.cmd = "PRE"
    OBVIOUS
  <2>2. SdOut.next \in {"ACTIVATE_BEFORE_WRITE", "ACTIVATE_BEFORE_READ"}
    BY <1>5, <2>1 DEF Activating
  <2>3. SdOut.cmd = "PRE" \/ (Activating /\ SdOut.cmd = "NOP")
    BY <1>1, <2>2, OutOrder
  <2>4. QED
    BY <1>1, <1>6, <1>7, <2>3 DEF OrderInv, Activating, Reading
<1>9. sdst' \in {"INIT_AUTOREFRESH1", "AUTOREFRESH"} => LastNext'.cmd = "PREALL"
  <2>1. SUFFICES ASSUME sdst' \in {"INIT_AUTOREFRESH1", "AUTOREFRESH"}
                 PROVE  LastNext'.cmd = "PREALL"
    OBVIOUS
  <2>2. \/ SdOut.cmd = "PREALL"
        \/ sdst \in {"INIT_AUTOREFRESH1", "AUTOREFRESH"} /\ SdOut.cmd = "NOP"
    BY <1>1, <1>5, <2>1, OutOrder
  <2>3. QED
    BY <1>1, <1>6, <1>7, <2>2 DEF OrderInv, Reading
<1>10. sdst' \in {"INIT_AUTOREFRESH2", "INIT_LOADMODE", "WAIT_REFRESH"} => LastNext'.cmd = "REF"
  <2>1. SUFFICES ASSUME sdst' \in {"INIT_AUTOREFRESH2", "INIT_LOADMODE", "WAIT_REFRESH"}
                 PROVE  LastNext'.cmd = "REF"
    OBVIOUS
  <2>2. \/ SdOut.cmd = "REF"
        \/ /\ sdst \in {"INIT_AUTOREFRESH2", "INIT_LOADMODE", "WAIT_REFRESH"}
           /\ SdOut.cmd = "NOP"
    BY <1>1, <1>5, <2>1, OutOrder
  <2>3. QED
    BY <1>1, <1>6, <1>7, <2>2 DEF OrderInv, Reading
<1>11. LastNext'.cmd = "WR" => LastNext'.n >= 2 \/ Taken'
  <2>1. LastNext.n \in 1 .. LastCap
    BY DEF TimeInv, LastType
  <2>2. (IF LastNext.n < LastCap THEN LastNext.n + 1 ELSE LastNext.n) >= 2
    BY <2>1 DEF LastCap
  <2>3. QED
    BY <2>2, LastCases
<1>12. QED
  BY <1>8, <1>9, <1>10, <1>11 DEF OrderInv

(* Together: an edge of sdram_clk keeps counters and chip in step.         *)
LEMMA SdTime ==
    ASSUME CoreInv, TimeInv, SdClk, WaitsSuffice
    PROVE  TimeInv'
<1>1. sdst \in SdStates /\ CountInv
  BY DEF CoreInv, CommandInv, SideInv, ControlType
<1>2. LastType'
  <2>1. [cmd |-> "WR", n |-> 1] \in [cmd : PinCommands, n : 1 .. LastCap]
    BY DEF PinCommands, LastCap
  <2>2. SdOut.cmd \in PinCommands =>
          [cmd |-> SdOut.cmd, n |-> 1] \in [cmd : PinCommands, n : 1 .. LastCap]
    BY DEF LastCap
  <2>3. LastNext' \in [cmd : PinCommands, n : 1 .. LastCap]
    BY <1>1, <2>1, <2>2, LastCases, OutCommand
  <2>4. QED
    BY <2>3 DEF LastType, PinCommands, LastCap
<1>3. PastInv'
  <2>1. PastInv
    BY DEF TimeInv
  <2>2. /\ SdOut.cmd = "PRE" => "pre" \in SdOut.reload
        /\ SdOut.cmd = "PREALL" => "pall" \in SdOut.reload
        /\ SdOut.cmd = "REF" => "aref" \in SdOut.reload
        /\ SdOut.cmd = "ACT" => "act" \in SdOut.reload
    BY <1>1, OutTiming
  <2>3. QED
    BY <2>1, <2>2, PastStep DEF PastInv, Timers
<1>4. SkipInv'
  <2>1. SUFFICES ASSUME ~pins'.cke PROVE timer'["pall"] = Wait["pall"]
    BY DEF SkipInv
  <2>2. SdOut.cmd = "PREALL"
    BY <1>1, <2>1, PinStep, OutCommand
  <2>3. "pall" \in SdOut.reload
    BY <1>1, <2>2, OutTiming
  <2>4. QED
    BY <1>1, <2>3, TimerStep DEF Timers
<1>5. QED
  BY <1>2, <1>3, <1>4, LeftStep, OrderStep DEF TimeInv

(* The delay of a counter that has run down is over for the chip too.      *)
LEMMA Waited ==
    ASSUME CoreInv, TimeInv, NEW c, NEW t \in Timers, Past(c, t), Done(t), LastNext.cmd = c,
           NEW d \in Nat, d <= Wait[t] + 1, d <= LastCap
    PROVE  LastNext.n >= d
<1>1. LastNext.n \in 1 .. LastCap /\ Wait[t] \in Nat
  BY YadmcAssumption DEF TimeInv, LastType
<1>2. LastNext.n >= LastCap \/ LastNext.n + 0 >= Wait[t] + 1
  BY DEF Past, Done
<1> DEFINE n == LastNext.n
           w == Wait[t]
<1> HIDE DEF n, w
<1>3. n \in Nat /\ w \in Nat /\ (n >= LastCap \/ n + 0 >= w + 1) /\ d <= w + 1
  BY <1>1, <1>2 DEF n, w
<1>4. n >= d
  BY <1>3 DEF LastCap
<1>5. QED
  BY <1>4 DEF n

(* READ and WRITE find their row open.                                     *)
LEMMA RowOpen ==
    ASSUME CoreInv
    PROVE  /\ sdst = "WRITE" => OpenNext[BankOf(evict_adr)] = RowOf(evict_adr)
           /\ sdst = "READ" => OpenNext[BankOf(refill_adr)] = RowOf(refill_adr)
<1>1. ControlType /\ RowInv
  BY DEF CoreInv, CommandInv, SideInv
<1>2. BankOf(evict_adr) \in Bank /\ BankOf(refill_adr) \in Bank
  BY <1>1, AdrPlaces
<1>3. sdst \in {"WRITE", "READ"} => RowsKnown /\ ~Activating
  BY <1>1 DEF RowInv, Activating
<1>4. QED
  BY <1>1, <1>2, <1>3 DEF RowInv, RowsKnown, Tracked, NeedsRowswitch

(* The command put on the pins is legal when the chip takes it.            *)
LEMMA SdLegal ==
    ASSUME CoreInv, TimeInv, SdClk, WaitsSuffice
    PROVE  CommandLegal'
<1>1. /\ ControlType /\ DataType /\ RowInv /\ sdst \in SdStates /\ PastInv /\ OrderInv /\ LastType
      /\ BurstType
  BY DEF CoreInv, CommandInv, SideInv, ControlType, BurstInv, TimeInv
<1>2. /\ pins'.cmd = SdOut.cmd /\ pins'.ba = SdOut.ba /\ pins'.a = SdOut.a
      /\ chip'.cke = pins.cke /\ chip'.open = OpenNext /\ chip'.bst = BurstNext
      /\ chip'.last = LastNext /\ evict_adr' = evict_adr /\ refill_adr' = refill_adr
  BY PinStep, ChipStep DEF SdClk, sysvars
<1>3. /\ Timing.rp \in Nat /\ Timing.rcd \in Nat /\ Timing.rfc \in Nat /\ Timing.wr \in Nat
  BY YadmcAssumption
<1>4. SdOut.cmd # "NOP" => pins.cke /\ BurstNext = NoBurst /\ ~Taken
  <2>1. SdOut.cmd # "NOP" => pins.cke /\ Burst = NoBurst
    BY Listening
  <2>2. QED
    BY <1>1, <2>1, BurstNextIs DEF Taken, NoBurst
<1>5. SdOut.cmd = "ACT" =>
        /\ OpenNext[SdOut.ba] = NoRow
        /\ LastNext.cmd \in {"PRE", "PREALL"} => LastNext.n >= Timing.rp
        /\ LastNext.cmd \in {"REF"} => LastNext.n >= Timing.rfc
  <2>1. SUFFICES ASSUME SdOut.cmd = "ACT"
                 PROVE  OpenNext[SdOut.ba] = NoRow /\ LastNext.cmd = "PRE" /\ LastNext.n >= Timing.rp
    OBVIOUS
  <2>2. Activating /\ Done("pre")
    BY <1>1, <2>1, OutCommand
  <2>3. SdOut.ba = track.ba /\ track.ba \in Bank
    <3>1. BankOf(evict_adr) \in Bank /\ BankOf(refill_adr) \in Bank
      BY <1>1, AdrPlaces
    <3>2. QED
      BY <1>1, <2>2, <3>1, OutWrite, OutRead DEF RowInv, Activating
  <2>4. RowsKnown
    BY <1>1, <2>2 DEF RowInv, Activating
  <2>5. OpenNext[SdOut.ba] = NoRow
    BY <2>2, <2>3, <2>4 DEF RowsKnown
  <2>6. LastNext.cmd = "PRE"
    BY <1>1, <2>2 DEF OrderInv
  <2>7. LastNext.n >= Timing.rp
    BY <1>1, <1>3, <2>2, <2>6, Waited DEF PastInv, Timers, WaitsSuffice
  <2>8. QED
    BY <2>5, <2>6, <2>7
<1>6. SdOut.cmd \in {"RD", "WR"} =>
        (LastNext.cmd \in {"ACT"} => LastNext.n >= Timing.rcd)
  <2>1. SdOut.cmd \in {"RD", "WR"} => Done("act")
    BY <1>1, OutCommand
  <2>2. Done("act") /\ LastNext.cmd = "ACT" => LastNext.n >= Timing.rcd
    BY <1>1, <1>3, Waited DEF PastInv, Timers, WaitsSuffice
  <2>3. QED
    BY <2>1, <2>2
<1>7. /\ SdOut.cmd = "WR" => /\ SdOut.ba = BankOf(evict_adr) /\ SdOut.a = ColOf(evict_adr)
                             /\ OpenNext[SdOut.ba] = RowOf(evict_adr)
      /\ SdOut.cmd = "RD" => /\ SdOut.ba = BankOf(refill_adr) /\ SdOut.a = ColOf(refill_adr)
                             /\ OpenNext[SdOut.ba] = RowOf(refill_adr)
  <2>1. /\ SdOut.cmd = "WR" => sdst = "WRITE" /\ Done("act")
        /\ SdOut.cmd = "RD" => sdst = "READ" /\ Done("act")
    BY <1>1, OutCommand
  <2>2. QED
    BY <2>1, OutWrite, OutRead, RowOpen
<1>8. SdOut.cmd \in {"REF", "LMR"} =>
        /\ \A b \in Bank : OpenNext[b] = NoRow
        /\ LastNext.cmd \in {"PREALL"} => LastNext.n >= Timing.rp
        /\ LastNext.cmd \in {"REF"} => LastNext.n >= Timing.rfc
  <2>1. SUFFICES ASSUME SdOut.cmd \in {"REF", "LMR"}
                 PROVE  /\ \A b \in Bank : OpenNext[b] = NoRow
                        /\ LastNext.cmd \in {"PREALL"} => LastNext.n >= Timing.rp
                        /\ LastNext.cmd \in {"REF"} => LastNext.n >= Timing.rfc
    OBVIOUS
  <2>2. \/ sdst \in {"INIT_AUTOREFRESH1", "AUTOREFRESH"} /\ Done("pall")
        \/ sdst \in {"INIT_AUTOREFRESH2", "INIT_LOADMODE"} /\ Done("aref")
    BY <1>1, <2>1, OutTiming
  <2>3. RowsKnown /\ ~Activating /\ \A b \in Bank : ~active[b]
    BY <1>1, <2>2 DEF RowInv, Activating
  <2>4. \A b \in Bank : OpenNext[b] = NoRow
    BY <2>3 DEF RowsKnown, Tracked
  <2>5. CASE sdst \in {"INIT_AUTOREFRESH1", "AUTOREFRESH"} /\ Done("pall")
    <3>1. LastNext.cmd = "PREALL"
      BY <1>1, <2>5 DEF OrderInv
    <3>2. LastNext.n >= Timing.rp
      BY <1>1, <1>3, <2>5, <3>1, Waited DEF PastInv, Timers, WaitsSuffice
    <3>3. QED
      BY <2>4, <3>1, <3>2
  <2>6. CASE sdst \in {"INIT_AUTOREFRESH2", "INIT_LOADMODE"} /\ Done("aref")
    <3>1. LastNext.cmd = "REF"
      BY <1>1, <2>6 DEF OrderInv
    <3>2. LastNext.n >= Timing.rfc
      BY <1>1, <1>3, <2>6, <3>1, Waited DEF PastInv, Timers, WaitsSuffice
    <3>3. QED
      BY <2>4, <3>1, <3>2
  <2>7. QED
    BY <2>2, <2>5, <2>6
<1>9. SdOut.cmd \in {"PRE", "PREALL"} =>
        (LastNext.cmd \in {"WR"} => LastNext.n >= Timing.wr)
  <2>1. SUFFICES ASSUME SdOut.cmd \in {"PRE", "PREALL"}, LastNext.cmd = "WR"
                 PROVE  LastNext.n >= Timing.wr
    OBVIOUS
  <2>2. LastNext.n >= 2
    BY <1>1, <1>4, <2>1 DEF OrderInv
  <2>3. LastNext.n \in Nat
    BY <1>1 DEF LastType
  <2>4. QED
    BY <1>3, <2>2, <2>3 DEF WaitsSuffice
<1>10. BankOf(evict_adr)' = BankOf(evict_adr) /\ ColOf(evict_adr)' = ColOf(evict_adr)
       /\ RowOf(evict_adr)' = RowOf(evict_adr) /\ BankOf(refill_adr)' = BankOf(refill_adr)
       /\ ColOf(refill_adr)' = ColOf(refill_adr) /\ RowOf(refill_adr)' = RowOf(refill_adr)
  BY <1>2 DEF BankOf, ColOf, RowOf, Number
<1>11. QED
  BY <1>2, <1>4, <1>5, <1>6, <1>7, <1>8, <1>9, <1>10
     DEF CommandLegal, Since, NoRow, NoBurst, Bank

(* Every other action leaves counters, pins and chip alone, and the line   *)
(* of a READ or a WRITE that is on the pins.                               *)
LEMMA OtherLegal ==
    ASSUME CoreInv, TimeInv, CommandLegal, UNCHANGED sdvars,
           pins.cmd \in {"RD", "WR"} => UNCHANGED <<evict_adr, refill_adr>>
    PROVE  TimeInv' /\ CommandLegal'
<1>1. UNCHANGED <<sdst, timer, pins, chip>>
  BY DEF sdvars
<1>2. Burst' = Burst /\ LastNext' = LastNext /\ (Taken' <=> Taken) /\ BurstLeft' = BurstLeft
  <2>1. Burst' = Burst /\ ChipCmd' = ChipCmd
    BY <1>1 DEF Burst, ChipCmd, NoRow, NoBurst
  <2>2. Taken' <=> Taken
    BY <1>1, <2>1 DEF Taken
  <2>3. LastNext' = LastNext
    BY <1>1, <2>1, <2>2 DEF LastNext, LastCap
  <2>4. QED
    BY <2>1, <2>2, <2>3 DEF BurstLeft, BurstEnd, NoBurst
<1>3. TimeInv'
  BY <1>1, <1>2 DEF TimeInv, LastType, PastInv, Past, OrderInv, LeftInv, SkipInv, Activating,
     LastCap, PinCommands
<1>4. CommandLegal'
  <2>1. CASE pins.cmd \in {"RD", "WR"}
    BY <1>1, <2>1 DEF CommandLegal, Since, NoRow, NoBurst, Bank, BankOf, ColOf, RowOf, Number
  <2>2. CASE pins.cmd \notin {"RD", "WR"}
    BY <1>1, <2>2 DEF CommandLegal, Since, NoRow, NoBurst, Bank
  <2>3. QED
    BY <2>1, <2>2
<1>5. QED
  BY <1>3, <1>4

(* At power up the chip has seen no command.                               *)
LEMMA InitTime == Init => TimeInv /\ CommandLegal
<1> SUFFICES ASSUME Init PROVE TimeInv /\ CommandLegal
  OBVIOUS
<1>1. /\ sdst = "RESET" /\ pins.cmd = "NOP" /\ pins.cke = TRUE /\ chip.cke = TRUE
      /\ chip.bst = NoBurst /\ chip.last = [cmd |-> "NOP", n |-> LastCap]
  BY DEF Init
<1>2. Burst = NoBurst /\ ChipCmd = "NOP"
  BY <1>1 DEF Burst, ChipCmd
<1>3. LastNext = [cmd |-> "NOP", n |-> LastCap]
  BY <1>1, <1>2 DEF LastNext, Taken, NoBurst, LastCap
<1>4. TimeInv
  BY <1>1, <1>3 DEF TimeInv, LastType, PastInv, Past, OrderInv, LeftInv, SkipInv, Activating,
     LastCap, PinCommands
<1>5. CommandLegal
  BY <1>1 DEF CommandLegal
<1>6. QED
  BY <1>4, <1>5

(* Every command reaches the chip and is legal there: no bank is opened    *)
(* twice, no READ or WRITE misses its row, no burst or delay is cut short, *)
(* whatever the clocks, the traffic and the resets do, as long as the      *)
(* counters are loaded with enough for the chip.                           *)
THEOREM CommandsLegal ==
    ASSUME WaitsSuffice
    PROVE  Spec => []CommandLegal
<1>1. ASSUME CoreInv, TimeInv, CommandLegal, [Next]_vars
      PROVE  TimeInv' /\ CommandLegal'
  <2>1. CASE SdClk
    BY <1>1, <2>1, SdTime, SdLegal
  <2>2. CASE ~SdClk
    <3>1. UNCHANGED sdvars
      BY <1>1, <2>2 DEF Next, SysClk, Reset, Release, Ask, vars
    <3>2. pins.cmd \in {"RD", "WR"} => UNCHANGED <<evict_adr, refill_adr>>
      <4>1. SUFFICES ASSUME pins.cmd \in {"RD", "WR"}, ~SdClk
                     PROVE  UNCHANGED <<evict_adr, refill_adr>>
        BY <2>2
      <4>2. CASE SysClk
        BY <1>1, <4>1, <4>2, SysQuiet DEF Active
      <4>3. CASE ~SysClk
        BY <1>1, <4>1, <4>3 DEF Next, Reset, Release, Ask, vars, sysvars
      <4>4. QED
        BY <4>2, <4>3
    <3>3. QED
      BY <1>1, <3>1, <3>2, OtherLegal
  <2>3. QED
    BY <2>1, <2>2
<1>2. QED
  BY <1>1, InitTime, CoreInvariant, PTL DEF Spec
=============================================================================
