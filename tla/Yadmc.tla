------------------------------- MODULE Yadmc --------------------------------
(***************************************************************************)
(* The SDRAM controller of rtl/yadmc: a direct-mapped write-back cache on  *)
(* the WISHBONE side (yadmc.v, clocked by sys_clk), a controller that      *)
(* moves whole lines between the cache and a 16 bit wide SDRAM             *)
(* (yadmc_sdram16.v, clocked by sdram_clk), the flag synchronizers between *)
(* them (yadmc_sync.v) and, outside the source, the SDRAM chip.            *)
(*                                                                         *)
(* SysClk and SdClk are the rising edges of the two clocks, interleaved    *)
(* freely: no relation between the clocks is assumed.  The configuration   *)
(* registers keep their reset values, the constant Wait.                   *)
(***************************************************************************)
EXTENDS Naturals, Sequences, FiniteSets

CONSTANTS
    NTags, NIdx,  \* number of tags and of cache lines
    LineWords,    \* words in a line
    Banks, Cols,  \* banks of the chip, lines in a row
    Val, Zero,    \* contents of half a word; what the cache powers up with
    Undef,        \* no value: an undriven pin, a closed row, an unsettled cell
    DramInit,     \* contents of the chip at power up
    Requests,     \* the requests the bus may make
    Timing,       \* what the chip asks for: tRP, tRCD, tRFC, tWR in cycles
    RefreshLimit, \* the longest time between refreshes that is looked at
    Wait,         \* counter reload values of yadmc_cfg0 and yadmc_cfg1
    Rest,         \* what the bus carries in reset: a read of address 0
    MaxResets     \* bound: resets after power up

Tag == 0 .. NTags-1
Idx == 0 .. NIdx-1
Line == [tag : Tag, idx : Idx]
Word == [tag : Tag, idx : Idx, w : 0 .. LineWords-1]
Lanes == {"hi", "lo"}
Half == [Lanes -> Val]
Beats == 0 .. 2*LineWords-1
Bank == 0 .. Banks-1
Col == 0 .. Cols-1
Row == 0 .. (NTags*NIdx - 1) \div (Banks*Cols)
Timers == {"init", "pall", "pre", "aref", "act", "refresh"}
Channels == {"evict", "refill", "ack"}

(* The row, the column and the bank of a line: bank in the lowest bits,    *)
(* then the column, then the row.                                          *)
Number(a) == a.tag*NIdx + a.idx
BankOf(a) == Number(a) % Banks
ColOf(a) == (Number(a) \div Banks) % Cols
RowOf(a) == Number(a) \div (Banks*Cols)

Request == [adr : Word, we : BOOLEAN, sel : SUBSET Lanes, dat : Half]
NoRow == Undef

ASSUME YadmcAssumption ==
    /\ NTags \in Nat \ {0} /\ NIdx \in Nat \ {0} /\ LineWords \in Nat \ {0}
    /\ Banks \in Nat \ {0} /\ Cols \in Nat \ {0}
    /\ Zero \in Val /\ Undef \notin Val \cup Row
    /\ DramInit \in [Bank \X Row \X Col -> [Beats -> Val]]
    /\ Requests \subseteq Request /\ Requests # {}
    /\ Wait \in [Timers -> Nat]
    /\ Timing \in [{"rp", "rcd", "rfc", "wr"} -> Nat]
    /\ RefreshLimit \in Nat /\ MaxResets \in Nat
    /\ Rest \in Requests /\ ~Rest.we

VARIABLES
    rst,        \* sys_rst: whether it is up, whether sys_clk and how many edges
                \* of sdram_clk have seen it, and how many resets are left
    bus,        \* the WISHBONE master: phase and request lines
    rsp,        \* the word the master took with the last read
    sst,        \* state of the cache machine
    tags,       \* cachetags: tag and dirty bit of each line
    tagdo,      \* cachetags_do, registered
    cache,      \* cacheline0..3
    do0,        \* wb_dat_o: registered output of port 0 of the cache
    evict_adr, refill_adr,
    tog, syn,   \* yadmc_sync: toggle and three-stage shift register
    sdram_rst,  \* <<sdram_rst0, sdram_rst>>
    sdst,       \* state of the SDRAM machine
    timer,      \* the six counters
    active, openrow, track,   \* row tracking
    rowswitch,  \* evict_needs_rowswitch_r, refill_needs_rowswitch_r
    bc,         \* burst_counter
    msb,        \* cache_adr_msb
    do1,        \* cache_dat_i: registered output of port 1 of the cache
    pend,       \* command_evict_pending, command_refill_pending
    pins, dq_in, \* registered I/Os
    chip,       \* external: open rows, burst under way, cke of the last edge
    dram,       \* external: contents of the chip
    fresh       \* history: the cache lines whose contents nobody vouches for

sysvars == <<bus, rsp, sst, tags, tagdo, do0, evict_adr, refill_adr, fresh>>
sdvars == <<sdram_rst, sdst, timer, active, openrow, track, rowswitch, bc, msb,
            do1, pend, pins, dq_in, chip, dram>>
vars == <<rst, sysvars, sdvars, cache, tog, syn>>
-----------------------------------------------------------------------------
(* yadmc_sync: a flag of one clock flips the toggle, the other clock       *)
(* shifts it in and sees the flag when two neighbouring bits differ.       *)
FlagLevel(ch) == syn[ch][2]   \* Variant: the level instead of its change.
Flag(ch) == syn[ch][2] # syn[ch][3]
ShiftNoReset(ch) == <<tog[ch], syn[ch][1], syn[ch][2]>>   \* Variant.
Shift(ch) ==
    IF rst.up THEN <<FALSE, FALSE, FALSE>> ELSE <<tog[ch], syn[ch][1], syn[ch][2]>>

-----------------------------------------------------------------------------
(* The cache side.                                                         *)

Adr == bus.rq.adr
Hit == tagdo.tag = Adr.tag
WbAck ==
    \/ sst = "CHECK_HIT" /\ Hit
    \/ sst = "WAIT_ACK" /\ Flag("ack")
TagsWeInReset ==   \* Variant: the addressed tag is cleared by reset.
    rst.up \/ (WbAck /\ (bus.rq.we \/ sst = "WAIT_ACK"))
TagsWe == WbAck /\ (bus.rq.we \/ sst = "WAIT_ACK")
CommandEvict == sst = "CHECK_HIT" /\ ~Hit /\ tagdo.dirty
CommandRefill == sst = "CHECK_HIT" /\ ~Hit /\ ~tagdo.dirty

SysNext ==
    CASE sst = "IDLE" /\ bus.ph = "req" -> "CHECK_HIT"
      [] sst = "CHECK_HIT" -> IF Hit THEN "IDLE" ELSE "WAIT_ACK"
      [] sst = "WAIT_ACK" /\ WbAck -> "IDLE"
      [] OTHER -> sst

SysStateNoReset == SysNext   \* Variant.
SysState == IF rst.up THEN "IDLE" ELSE SysNext

(* Port 0 of the cache: the word on the bus, with the lanes being written. *)
Port0 ==
    [l \in Lanes |-> IF WbAck /\ bus.rq.we /\ l \in bus.rq.sel
                     THEN bus.rq.dat[l] ELSE cache[Adr.idx][Adr.w][l]]

(* A rising edge of sys_clk.  Tags, cache and line addresses have no reset.*)
SysClk ==
    /\ sst' = SysState
    /\ tags' = IF TagsWe
               THEN [tags EXCEPT ![Adr.idx] = [tag |-> Adr.tag, dirty |-> bus.rq.we]]
               ELSE tags
    /\ tagdo' = tags[Adr.idx]
    /\ cache' = [cache EXCEPT ![Adr.idx][Adr.w] = Port0]
    /\ do0' = Port0
    /\ IF CommandEvict \/ CommandRefill
       THEN /\ evict_adr' = [tag |-> tagdo.tag, idx |-> Adr.idx]
            /\ refill_adr' = [tag |-> Adr.tag, idx |-> Adr.idx]
       ELSE UNCHANGED <<evict_adr, refill_adr>>
    /\ tog' = [tog EXCEPT !["evict"] = ~rst.up /\ @ # CommandEvict,
                          !["refill"] = ~rst.up /\ @ # CommandRefill]
    /\ syn' = [syn EXCEPT !["ack"] = Shift("ack")]
    /\ bus' = [bus EXCEPT !.ph = CASE bus.ph = "req" /\ WbAck -> "done"
                                   [] bus.ph = "done" -> "idle"
                                   [] OTHER -> bus.ph]
    /\ rsp' = IF bus.ph = "req" /\ WbAck /\ ~bus.rq.we THEN do0 ELSE rsp
    /\ fresh' = IF TagsWe /\ ~rst.up THEN fresh \ {Adr.idx} ELSE fresh
    /\ rst' = [rst EXCEPT !.seen = rst.up]
    /\ UNCHANGED sdvars

(* The master puts a request on the bus and holds it until the answer.     *)
Ask(r) ==
    /\ bus.ph = "idle" /\ ~rst.up
    /\ bus' = [ph |-> "req", rq |-> r]
    /\ UNCHANGED <<rst, rsp, sst, tags, tagdo, do0, evict_adr, refill_adr, fresh>>
    /\ UNCHANGED <<sdvars, cache, tog, syn>>

-----------------------------------------------------------------------------
(* The SDRAM side: what the machine drives in each state, as changes to    *)
(* doing nothing.  `we' are the lanes of the cache written, `reload' the   *)
(* counters loaded; `burst' lets the burst counter run.                    *)
Done(c) == timer[c] = 0
Quiet == [next |-> sdst, cmd |-> "NOP", cke |-> TRUE, dqm |-> TRUE, ba |-> 0,
          a |-> 0, drive |-> FALSE, reload |-> {}, open |-> FALSE,
          closeall |-> FALSE, track |-> "", msb |-> "", burst |-> FALSE,
          we |-> {}, ack |-> FALSE]

Issue(cmd, nxt) == [Quiet EXCEPT !.cmd = cmd, !.next = nxt, !.dqm = FALSE]
Go(nxt) == [Quiet EXCEPT !.next = nxt]

PrechargeAll(nxt) ==
    [Issue("PREALL", nxt) EXCEPT !.cke = FALSE, !.closeall = TRUE,
                                 !.reload = {"pall"}]
AutoRefresh(nxt) == [Issue("REF", nxt) EXCEPT !.reload = {"aref"}]

(* PRECHARGE_BEFORE_WRITE/_READ and ACTIVATE_BEFORE_WRITE/_READ.           *)
Precharge(ch, adr, nxt, skip) ==
    IF rowswitch[ch]
    THEN [Issue("PRE", nxt) EXCEPT !.ba = BankOf(adr), !.reload = {"pre"},
                                   !.track = ch]
    ELSE [Go(skip) EXCEPT !.track = ch]
Activate(adr, nxt) ==
    [Issue("ACT", nxt) EXCEPT !.ba = BankOf(adr), !.a = RowOf(adr),
                              !.open = TRUE, !.reload = {"act"}]

BurstFinished == bc = 2*LineWords
BurstLastEarly == bc % (2*LineWords) = 2*LineWords - 2   \* Variant.
BurstLast == bc % (2*LineWords) = 2*LineWords - 1

InitOutNoWait ==   \* Variant: the power-on delay is not loaded.
    CASE sdst = "RESET" -> Go("INIT_PRECHARGEALL")
      [] sdst = "INIT_PRECHARGEALL" /\ Done("init") ->
            PrechargeAll("INIT_AUTOREFRESH1")
      [] sdst = "INIT_AUTOREFRESH1" /\ Done("pall") ->
            AutoRefresh("INIT_AUTOREFRESH2")
      [] sdst = "INIT_AUTOREFRESH2" /\ Done("aref") ->
            AutoRefresh("INIT_LOADMODE")
      [] sdst = "INIT_LOADMODE" /\ Done("aref") ->
            [Issue("LMR", "IDLE") EXCEPT !.reload = {"refresh"}]
      [] OTHER -> Quiet
InitOut ==
    CASE sdst = "RESET" -> [Go("INIT_PRECHARGEALL") EXCEPT !.reload = {"init"}]
      [] sdst = "INIT_PRECHARGEALL" /\ Done("init") ->
            PrechargeAll("INIT_AUTOREFRESH1")
      [] sdst = "INIT_AUTOREFRESH1" /\ Done("pall") ->
            AutoRefresh("INIT_AUTOREFRESH2")
      [] sdst = "INIT_AUTOREFRESH2" /\ Done("aref") ->
            AutoRefresh("INIT_LOADMODE")
      [] sdst = "INIT_LOADMODE" /\ Done("aref") ->
            [Issue("LMR", "IDLE") EXCEPT !.reload = {"refresh"}]
      [] OTHER -> Quiet

(* Variants of IDLE: traffic before refresh; only the flags looked at.     *)
IdleTrafficFirst ==
    IF Flag("evict") \/ pend["evict"]
      THEN [Go("PRECHARGE_BEFORE_WRITE") EXCEPT !.msb = "evict"]
    ELSE IF Flag("refill") \/ pend["refill"]
      THEN [Go("PRECHARGE_BEFORE_READ") EXCEPT !.msb = "refill"]
    ELSE IF Done("refresh") THEN Go("PRECHARGE_BEFORE_REFRESH")
    ELSE Quiet
IdleNoPending ==
    IF Done("refresh") THEN Go("PRECHARGE_BEFORE_REFRESH")
    ELSE IF Flag("evict")
      THEN [Go("PRECHARGE_BEFORE_WRITE") EXCEPT !.msb = "evict"]
    ELSE IF Flag("refill")
      THEN [Go("PRECHARGE_BEFORE_READ") EXCEPT !.msb = "refill"]
    ELSE Quiet

(* In IDLE refresh goes first; a command may be waiting from a time when   *)
(* the machine was busy.                                                   *)
IdleOut ==
    IF Done("refresh") THEN Go("PRECHARGE_BEFORE_REFRESH")
    ELSE IF Flag("evict") \/ pend["evict"]
      THEN [Go("PRECHARGE_BEFORE_WRITE") EXCEPT !.msb = "evict"]
    ELSE IF Flag("refill") \/ pend["refill"]
      THEN [Go("PRECHARGE_BEFORE_READ") EXCEPT !.msb = "refill"]
    ELSE Quiet

RefreshOut ==
    CASE sdst = "PRECHARGE_BEFORE_REFRESH" -> PrechargeAll("AUTOREFRESH")
      [] sdst = "AUTOREFRESH" /\ Done("pall") -> AutoRefresh("WAIT_REFRESH")
      [] sdst = "WAIT_REFRESH" /\ Done("aref") ->
            [Go("IDLE") EXCEPT !.reload = {"refresh"}]
      [] OTHER -> Quiet

WriteOut ==
    CASE sdst = "PRECHARGE_BEFORE_WRITE" ->
            Precharge("evict", evict_adr, "ACTIVATE_BEFORE_WRITE", "WRITE")
      [] sdst = "ACTIVATE_BEFORE_WRITE" /\ Done("pre") ->
            Activate(evict_adr, "WRITE")
      [] sdst = "WRITE" /\ Done("act") ->
            [Issue("WR", "WRITEBURST") EXCEPT !.ba = BankOf(evict_adr),
               !.a = ColOf(evict_adr), !.drive = TRUE, !.burst = TRUE]
      [] sdst = "WRITEBURST" /\ BurstFinished ->
            [Go("PRECHARGE_BEFORE_READ") EXCEPT !.msb = "refill", !.burst = TRUE]
      [] sdst = "WRITEBURST" /\ ~BurstFinished ->
            [Quiet EXCEPT !.drive = TRUE, !.dqm = FALSE, !.burst = TRUE]
      [] OTHER -> Quiet

ReadOut ==
    CASE sdst = "PRECHARGE_BEFORE_READ" ->
            Precharge("refill", refill_adr, "ACTIVATE_BEFORE_READ", "READ")
      [] sdst = "ACTIVATE_BEFORE_READ" /\ Done("pre") ->
            Activate(refill_adr, "READ")
      [] sdst = "READ" /\ Done("act") ->
            [Issue("RD", "READREG1") EXCEPT !.ba = BankOf(refill_adr),
                                            !.a = ColOf(refill_adr)]
      [] sdst = "READREG1" -> Issue("NOP", "READREG2")
      [] sdst = "READREG2" -> Issue("NOP", "READREG3")
      [] sdst = "READREG3" -> Issue("NOP", "READFIRST")
      [] sdst = "READFIRST" -> [Issue("NOP", "READBURST") EXCEPT !.we = {"hi"}]
      [] sdst = "READBURST" /\ BurstLast ->
            [Go("IDLE") EXCEPT !.ack = TRUE, !.burst = TRUE]
      [] sdst = "READBURST" /\ ~BurstLast ->
            [Issue("NOP", "READBURST") EXCEPT !.burst = TRUE,
               !.we = IF bc % 2 = 1 THEN {"hi"} ELSE {"lo"}]
      [] OTHER -> Quiet

InitStates == {"RESET", "INIT_PRECHARGEALL", "INIT_AUTOREFRESH1",
               "INIT_AUTOREFRESH2", "INIT_LOADMODE"}
RefreshStates == {"PRECHARGE_BEFORE_REFRESH", "AUTOREFRESH", "WAIT_REFRESH"}
WriteStates == {"PRECHARGE_BEFORE_WRITE", "ACTIVATE_BEFORE_WRITE", "WRITE",
                "WRITEBURST"}
ReadStates == {"PRECHARGE_BEFORE_READ", "ACTIVATE_BEFORE_READ", "READ",
               "READREG1", "READREG2", "READREG3", "READFIRST", "READBURST"}

SdOut ==
    CASE sdst \in InitStates -> InitOut
      [] sdst = "IDLE" -> IdleOut
      [] sdst \in RefreshStates -> RefreshOut
      [] sdst \in WriteStates -> WriteOut
      [] sdst \in ReadStates -> ReadOut

NextBcFree(o) == IF ~o.burst THEN 0 ELSE bc + 1   \* Variant: does not stop.
NextBc(o) == IF ~o.burst THEN 0 ELSE IF BurstFinished THEN bc ELSE bc + 1
RowswitchByRow(adr) == openrow[BankOf(adr)] # RowOf(adr)   \* Variant.
NeedsRowswitch(adr) ==
    ~active[BankOf(adr)] \/ openrow[BankOf(adr)] # RowOf(adr)

(* The registers of the SDRAM side, from the machine's outputs o.          *)
SdRegisters(o) ==
    /\ sdram_rst' = <<rst.up, sdram_rst[1]>>
    /\ sdst' = IF sdram_rst[2] THEN "RESET" ELSE o.next
    /\ timer' = [c \in Timers |-> IF c \in o.reload THEN Wait[c]
                                 ELSE IF Done(c) THEN 0 ELSE timer[c] - 1]
    /\ active' = IF o.closeall THEN [b \in Bank |-> FALSE]
                 ELSE IF o.open THEN [active EXCEPT ![track.ba] = TRUE]
                 ELSE active
    /\ openrow' = IF o.open THEN [openrow EXCEPT ![track.ba] = track.row]
                  ELSE openrow
    /\ track' = CASE o.track = "evict" -> [ba |-> BankOf(evict_adr), row |-> RowOf(evict_adr)]
                  [] o.track = "refill" -> [ba |-> BankOf(refill_adr), row |-> RowOf(refill_adr)]
                  [] OTHER -> track
    /\ rowswitch' = [evict |-> NeedsRowswitch(evict_adr),
                     refill |-> NeedsRowswitch(refill_adr)]
    /\ bc' = NextBc(o)
    /\ msb' = CASE o.msb = "evict" -> evict_adr.idx
                [] o.msb = "refill" -> refill_adr.idx
                [] OTHER -> msb
    /\ pend' = [ch \in {"evict", "refill"} |->
                  ~(sdram_rst[2] \/ o.ack) /\ (pend[ch] \/ Flag(ch))]
    /\ pins' = [cmd |-> o.cmd, cke |-> o.cke, dqm |-> o.dqm, ba |-> o.ba,
                a |-> o.a,
                dq |-> IF ~o.drive THEN Undef
                       ELSE IF bc % 2 = 1 THEN do1["lo"] ELSE do1["hi"]]

(* Port 1 of the cache.                                                    *)
CachePort1(o) ==
    LET w == (NextBc(o) \div 2) % LineWords
        word == [l \in Lanes |-> IF l \in o.we THEN dq_in ELSE cache[msb][w][l]]
    IN  /\ cache' = [cache EXCEPT ![msb][w] = word]
        /\ do1' = word

-----------------------------------------------------------------------------
(* The chip (external), as the controller uses it: commands are sampled    *)
(* with the pins, an edge is ignored if cke was low at the one before, a   *)
(* burst has 2*LineWords beats, the first word of a read reaches the       *)
(* controller's input register two edges after the command (CAS latency    *)
(* 2).  `last' is the last command that restricts the next ones and how    *)
(* many edges ago it was; `age' counts from the last AUTO REFRESH.         *)
LastCap == 8
NoBurst == [k |-> "none", at |-> <<0, 0, 0>>, n |-> 0]
BurstEnd(k) == IF k = "wr" THEN 2*LineWords - 1 ELSE 2*LineWords + 1
ChipCmd == IF chip.cke THEN pins.cmd ELSE "NOP"

Burst ==
    LET at == <<pins.ba, chip.open[pins.ba], pins.a>>
    IN  CASE ChipCmd = "RD" /\ at[2] # NoRow -> [k |-> "rd", at |-> at, n |-> 0]
          [] ChipCmd = "WR" /\ at[2] # NoRow -> [k |-> "wr", at |-> at, n |-> 0]
          [] ChipCmd \in {"PRE", "PREALL"} -> NoBurst
          [] OTHER -> chip.bst

ChipEdge ==
    LET b == Burst
        taken == b.k = "wr" /\ chip.cke
    IN  /\ dram' = IF taken /\ ~pins.dqm THEN [dram EXCEPT ![b.at][b.n] = pins.dq]
                   ELSE dram
        /\ dq_in' = IF b.k = "rd" /\ b.n >= 2 THEN dram[b.at][b.n - 2] ELSE Undef
        /\ chip' =
             [cke |-> pins.cke,
              open |-> CASE ChipCmd = "PREALL" -> [x \in Bank |-> NoRow]
                         [] ChipCmd = "PRE" -> [chip.open EXCEPT ![pins.ba] = NoRow]
                         [] ChipCmd = "ACT" -> [chip.open EXCEPT ![pins.ba] = pins.a]
                         [] OTHER -> chip.open,
              bst |-> IF b = NoBurst \/ b.n = BurstEnd(b.k)
                      THEN NoBurst ELSE [b EXCEPT !.n = @ + 1],
              last |-> IF taken THEN [cmd |-> "WR", n |-> 1]
                       ELSE IF ChipCmd \notin {"NOP", "RD"} THEN [cmd |-> ChipCmd, n |-> 1]
                       ELSE [chip.last EXCEPT !.n = IF @ < LastCap THEN @ + 1 ELSE @],
              age |-> IF ChipCmd = "REF" THEN 1
                      ELSE IF chip.age \in 1 .. RefreshLimit THEN chip.age + 1
                      ELSE chip.age]

(* A reset lasts for at least Hold edges of sdram_clk: two for the copy of *)
(* sys_rst, one for the machine to see it, one for the pins.               *)
Hold == 4

(* A rising edge of sdram_clk.                                             *)
SdClk ==
    LET o == SdOut
    IN  /\ SdRegisters(o)
        /\ CachePort1(o)
        /\ ChipEdge
        /\ tog' = [tog EXCEPT !["ack"] = ~rst.up /\ @ # o.ack]
        /\ syn' = [syn EXCEPT !["evict"] = Shift("evict"),
                              !["refill"] = Shift("refill")]
        /\ rst' = [rst EXCEPT !.held = IF rst.up /\ @ < Hold THEN @ + 1 ELSE @]
        /\ UNCHANGED sysvars

-----------------------------------------------------------------------------
(* sys_rst goes up: the masters withdraw and drive zeros.  The line they   *)
(* were waiting for, and the one whose tag may be overwritten with that    *)
(* address, are left with a tag that does not tell what they hold.         *)
Reset ==
    /\ ~rst.up /\ rst.left > 0
    /\ rst' = [up |-> TRUE, seen |-> FALSE, held |-> 0, left |-> rst.left - 1]
    /\ bus' = [ph |-> "idle", rq |-> Rest]
    /\ fresh' = IF sst = "WAIT_ACK" THEN fresh \cup {Adr.idx, Rest.adr.idx} ELSE fresh
    /\ UNCHANGED <<rsp, sst, tags, tagdo, do0, evict_adr, refill_adr>>
    /\ UNCHANGED <<sdvars, cache, tog, syn>>

Release ==
    /\ rst.up /\ rst.held = Hold /\ rst.seen
    /\ rst' = [rst EXCEPT !.up = FALSE, !.seen = FALSE, !.held = 0]
    /\ UNCHANGED <<sysvars, sdvars, cache, tog, syn>>

-----------------------------------------------------------------------------
(* Power up: sys_rst has just been released, its copy in the sdram_clk     *)
(* domain has not.  The block RAMs come up as zeros: every line is clean   *)
(* and claims tag 0.                                                       *)
Init ==
    /\ rst = [up |-> FALSE, seen |-> FALSE, held |-> 0, left |-> MaxResets]
    /\ bus \in [ph : {"idle"}, rq : Requests]
    /\ rsp = [l \in Lanes |-> Zero] /\ do0 = rsp /\ do1 = rsp
    /\ sst = "IDLE"
    /\ tagdo = [tag |-> 0, dirty |-> FALSE]
    /\ tags = [i \in Idx |-> tagdo]
    /\ cache = [i \in Idx |-> [w \in 0 .. LineWords-1 |-> rsp]]
    /\ evict_adr = [tag |-> 0, idx |-> 0] /\ refill_adr = evict_adr
    /\ tog = [ch \in Channels |-> FALSE]
    /\ syn = [ch \in Channels |-> <<FALSE, FALSE, FALSE>>]
    /\ sdram_rst = <<TRUE, TRUE>>
    /\ sdst = "RESET"
    /\ timer = [c \in Timers |-> 0]
    /\ active = [b \in Bank |-> FALSE]
    /\ openrow = [b \in Bank |-> 0]
    /\ track = [ba |-> 0, row |-> 0]
    /\ rowswitch = [evict |-> TRUE, refill |-> TRUE]
    /\ bc = 0 /\ msb = 0
    /\ pend = [ch \in {"evict", "refill"} |-> FALSE]
    /\ pins = [cmd |-> "NOP", cke |-> TRUE, dqm |-> TRUE, ba |-> 0, a |-> 0,
               dq |-> Undef]
    /\ dq_in = Undef
    /\ chip = [cke |-> TRUE, open |-> [b \in Bank |-> NoRow], bst |-> NoBurst,
               last |-> [cmd |-> "NOP", n |-> LastCap], age |-> 0]
    /\ dram = DramInit
    /\ fresh = Idx

Next == SysClk \/ SdClk \/ Reset \/ Release \/ \E r \in Requests : Ask(r)

Spec == Init /\ [][Next]_vars

(* Both clocks keep running.                                               *)
FairSpec == Spec /\ WF_vars(SysClk) /\ WF_vars(SdClk)

-----------------------------------------------------------------------------
(* The cache holds data, never the value of an undriven pin, and so does   *)
(* the chip; counters and addresses keep to their widths.                  *)
TypeOK ==
    /\ rst \in [up : BOOLEAN, seen : BOOLEAN, held : 0 .. Hold, left : 0 .. MaxResets]
    /\ bus \in [ph : {"idle", "req", "done"}, rq : Requests]
    /\ rsp \in Half /\ do0 \in Half /\ do1 \in Half
    /\ sst \in {"IDLE", "CHECK_HIT", "WAIT_ACK"}
    /\ tagdo \in [tag : Tag, dirty : BOOLEAN]
    /\ tags \in [Idx -> [tag : Tag, dirty : BOOLEAN]]
    /\ cache \in [Idx -> [0 .. LineWords-1 -> Half]]
    /\ evict_adr \in Line /\ refill_adr \in Line
    /\ tog \in [Channels -> BOOLEAN]
    /\ syn \in [Channels -> BOOLEAN \X BOOLEAN \X BOOLEAN]
    /\ sdram_rst \in BOOLEAN \X BOOLEAN
    /\ sdst \in InitStates \cup {"IDLE"} \cup RefreshStates
               \cup WriteStates \cup ReadStates
    /\ timer \in [Timers -> Nat] /\ \A c \in Timers : timer[c] <= Wait[c]
    /\ active \in [Bank -> BOOLEAN] /\ openrow \in [Bank -> Row]
    /\ track \in [ba : Bank, row : Row]
    /\ rowswitch \in [{"evict", "refill"} -> BOOLEAN]
    /\ bc \in 0 .. 2*LineWords /\ msb \in Idx
    /\ pend \in [{"evict", "refill"} -> BOOLEAN]
    /\ dram \in [Bank \X Row \X Col -> [Beats -> Val]]
    /\ fresh \subseteq Idx

(* One command at a time, though the two sides only exchange flags: while  *)
(* the SDRAM side works on a line or still has the command to take, the    *)
(* cache side waits, its two line addresses are those of the bus request   *)
(* and of the line it replaces, and no other flag is under way.  evict_adr *)
(* and refill_adr cross the clock domains unregistered.                    *)
Underway(ch) == {tog[ch], syn[ch][1], syn[ch][2], syn[ch][3]} = BOOLEAN
Serving == sdst \in WriteStates \cup ReadStates
OneCommand ==
    LET asked == {ch \in Channels : Underway(ch)}
    IN  rst.up \/
        /\ Serving \/ asked # {} \/ pend["evict"] \/ pend["refill"] =>
              /\ sst = "WAIT_ACK"
              /\ refill_adr = [tag |-> Adr.tag, idx |-> Adr.idx]
              /\ evict_adr = [tag |-> tags[Adr.idx].tag, idx |-> Adr.idx]
              /\ evict_adr.tag # refill_adr.tag
        /\ Cardinality(asked) <= 1
        /\ Serving => "ack" \notin asked
        /\ ~(pend["evict"] /\ pend["refill"])

(* The commands reach the chip and are legal there, with the delays it     *)
(* asks for: no command in the cycle it skips after cke was low, a row is  *)
(* opened in a closed bank, READ and WRITE find the row of the line they   *)
(* are for open, AUTO REFRESH finds all banks closed, and no burst or      *)
(* write recovery is cut short.  The controller decides from its own       *)
(* registered copy of the open rows.                                       *)
Since(cmds, n) == chip.last.cmd \in cmds => chip.last.n >= n
CommandLegal ==
    LET cmd == pins.cmd
        line == IF cmd = "WR" THEN evict_adr ELSE refill_adr
    IN  /\ cmd # "NOP" => chip.cke /\ chip.bst = NoBurst
        /\ cmd = "ACT" => /\ chip.open[pins.ba] = NoRow
                          /\ Since({"PRE", "PREALL"}, Timing.rp)
                          /\ Since({"REF"}, Timing.rfc)
        /\ cmd \in {"RD", "WR"} =>
              /\ pins.ba = BankOf(line) /\ pins.a = ColOf(line)
              /\ chip.open[pins.ba] = RowOf(line)
              /\ Since({"ACT"}, Timing.rcd)
        /\ cmd \in {"REF", "LMR"} =>
              /\ \A b \in Bank : chip.open[b] = NoRow
              /\ Since({"PREALL"}, Timing.rp) /\ Since({"REF"}, Timing.rfc)
        /\ cmd \in {"PRE", "PREALL"} => Since({"WR"}, Timing.wr)

(* Two AUTO REFRESH commands are never further apart than the refresh      *)
(* count, the refresh sequence itself and one eviction with its refill:    *)
(* traffic cannot put refresh off for longer.                              *)
ServiceTime == 2*Wait["pre"] + 2*Wait["act"] + 4*LineWords + 10
RefreshBounded ==
    chip.age <= Wait["refresh"] + Wait["aref"] + Wait["pall"] + 4 + ServiceTime

(* What the comment on refresh_counter's reload value says: it is the      *)
(* number of cycles between two AUTO REFRESH commands.                     *)
RefreshPeriod == chip.age <= Wait["refresh"]

(* Every request is answered, whatever the SDRAM side was doing when its   *)
(* one-cycle command flag arrived (command_evict_pending and _refill_) and *)
(* when sys_rst went up, unless a reset withdraws it.                      *)
Served == bus.ph = "req" ~> (bus.ph = "done" \/ rst.up)

(* The refinement: a word is in the cache while its line is there, dirty,  *)
(* and not written back yet; else in the chip.  The lines that claim tag 0 *)
(* since power up read as zeros until they are replaced or written: only   *)
(* then is it settled whether the zeros or the chip count.  The same goes  *)
(* for a line whose refill a reset cut short.                              *)
Evicted == sst = "WAIT_ACK" /\ (sdst \in ReadStates \/ Underway("ack"))
InCache(a) ==
    LET t == tags[a.idx]
    IN  t.tag = a.tag /\ t.dirty /\ ~(Evicted /\ a.idx = Adr.idx)
Contents(a) ==
    [l \in Lanes |->
       IF a.tag = tags[a.idx].tag /\ a.idx \in fresh THEN Undef
       ELSE IF InCache(a) THEN cache[a.idx][a.w][l]
       ELSE dram[<<BankOf(a), RowOf(a), ColOf(a)>>][2*a.w + IF l = "hi" THEN 0 ELSE 1]]

Mem == INSTANCE Memory WITH up <- rst.up, mem <- [a \in Word |-> Contents(a)]

(* The controller is a memory: evictions, refills, refreshes and the clock *)
(* domains do not show on the bus.                                         *)
IsMemory == Mem!MemSpec
=============================================================================
