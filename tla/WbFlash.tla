------------------------------ MODULE WbFlash ------------------------------
(***************************************************************************)
(* The flash interface wb_flash_if: a WISHBONE slave that makes one or two *)
(* accesses of a 16 bit flash chip out of each request.  One step is one   *)
(* edge of wb_clk.  Pins are written active high: `ce' is CE_N low, `wr'   *)
(* SnWR low, `rp' RP_N high, `drive' D_T_N low.                            *)
(*                                                                         *)
(* A half word of the chip is named by its address, a half word of         *)
(* wb_dat_i by which half it is.                                           *)
(***************************************************************************)
EXTENDS Naturals, Sequences

CONSTANTS
    Word,         \* word addresses, wb_adr_i[22:2]
    Requests,     \* the requests the bus may make: [adr, we, sel]
    Period,       \* WCLK_PERIOD, in ns
    ReadNs,       \* READ_DELAY_NS
    WriteNs,      \* WRITE_DELAY_NS
    AccessTime,   \* the chip: cycles from OE_N low to valid data
    BusyLag       \* the chip: edges at which STS may still look ready after a write

WriteCount == WriteNs \div Period
ReadCount == ReadNs \div Period

(* Ages of an access are counted up to here, beyond what is ever asked.    *)
AgeCap == ReadCount + WriteCount + AccessTime + 2

(* wb_sel_i: 1111, 1100, 0011 or anything else.                            *)
Sels == {"word", "hi", "lo", "other"}
DelayRange == 32   \* read_delay and write_delay have five bits

ASSUME FlashAssumption ==
    /\ Period \in Nat \ {0} /\ ReadNs \in Nat /\ WriteNs \in Nat
    /\ ReadCount < DelayRange /\ WriteCount < DelayRange
    /\ AccessTime \in Nat /\ BusyLag \in Nat
    /\ Requests \subseteq [adr : Word, we : BOOLEAN, sel : Sels]

VARIABLES
    stb,          \* wb_cyc_i and wb_stb_i
    rq,           \* wb_adr_i, wb_we_i, wb_sel_i
    state,
    pins,         \* FLASH_A (w, h), FLASH_D_O, and the control pins
    read_delay,
    write_delay,
    dat,          \* wb_dat_o by halves
    ack,          \* wb_ack_o
    sts,          \* FLASH_STS: the chip says it is ready
    chip,         \* busy; lag: cycles since it became so; age: of the access
    log           \* history: the half words written for the current request

vars == <<stb, rq, state, pins, read_delay, write_delay, dat, ack, sts, chip, log>>

Halves == {"hi", "lo"}
Cell(w, h) == [w |-> w, h |-> h]
Junk == Cell(CHOOSE w \in Word : TRUE, "none")

ResetPins == [w |-> CHOOSE w \in Word : TRUE, h |-> "hi", d |-> "hi", ce |-> FALSE,
              oe |-> FALSE, wr |-> FALSE, rp |-> FALSE, drive |-> FALSE]
-----------------------------------------------------------------------------
(* External: the chip.  Data is there once the same cell has been selected *)
(* for long enough; a write is taken when SnWR rises, and may start an     *)
(* operation of the chip, which STS reports a little late.                 *)
Reads(p) == p.ce /\ p.oe

D_I == IF chip.age + 1 >= AccessTime /\ ~chip.busy THEN Cell(pins.w, pins.h) ELSE Junk

Latches == pins.wr /\ pins.ce /\ pins'.rp /\ ~pins'.wr

ChipEdge ==
    LET same == Reads(pins) /\ Reads(pins') /\ <<pins.w, pins.h>> = <<pins'.w, pins'.h>>
        held == same \/ (pins.wr /\ pins'.wr)
        ends == chip.busy /\ ~sts /\ sts'
    IN /\ sts' \in BOOLEAN
       /\ ~chip.busy => sts'
       /\ chip.busy /\ sts /\ chip.lag >= BusyLag => ~sts'
       /\ chip' \in [busy : IF Latches THEN {chip.busy, TRUE} ELSE {chip.busy /\ ~ends},
                     lag : {IF chip.busy /\ sts THEN chip.lag + 1 ELSE 0},
                     age : {IF ~held THEN 0 ELSE IF chip.age < AgeCap THEN chip.age + 1
                            ELSE chip.age}]
       /\ log' = IF state \in {"idle", "reset"} THEN <<>>
                 ELSE IF Latches THEN Append(log, <<pins.w, pins.h, pins.d>>)
                 ELSE log
-----------------------------------------------------------------------------
(* The bus: a request is held until it is acknowledged, then withdrawn.    *)
Bus ==
    IF stb THEN stb' = ~ack /\ rq' = rq
    ELSE stb' \in BOOLEAN /\ rq' \in IF stb' THEN Requests ELSE {rq}

(* One edge: the machine goes to `s', the pins take the values `p'.        *)
Edge(s, p) == state' = s /\ pins' = p /\ Bus /\ ChipEdge

Reset ==
    /\ stb' = FALSE /\ rq' = rq
    /\ state' = "reset" /\ pins' = ResetPins
    /\ read_delay' = 0 /\ write_delay' = 0 /\ ack' = FALSE
    /\ dat' = [h \in Halves |-> Junk]
    /\ ChipEdge

StReset ==
    /\ state = "reset"
    /\ Edge(IF sts THEN "idle" ELSE "reset", [pins EXCEPT !.rp = TRUE])
    /\ UNCHANGED <<read_delay, write_delay, dat, ack>>

(* Where a request starts: the low half has its own entry, everything else *)
(* begins with the high half.                                              *)
FirstState ==
    IF rq.we THEN IF rq.sel = "lo" THEN "write_next" ELSE "write0"
    ELSE IF rq.sel = "lo" THEN "read_next" ELSE "read0"

FirstHalf == IF rq.sel = "lo" THEN "lo" ELSE "hi"

StIdle ==
    /\ state = "idle"
    /\ IF stb
       THEN Edge(IF sts THEN FirstState ELSE "check",
                 [pins EXCEPT !.w = rq.adr, !.h = FirstHalf,
                              !.drive = (sts /\ rq.we) \/ @])
       ELSE Edge("idle", pins)
    /\ UNCHANGED <<read_delay, write_delay, dat, ack>>

(* Variant: the ready line is not waited for.                              *)
StCheckVariant ==
    /\ state = "check"
    /\ Edge(FirstState, [pins EXCEPT !.drive = rq.we \/ @])
    /\ UNCHANGED <<read_delay, write_delay, dat, ack>>

StCheck ==
    /\ state = "check"
    /\ IF sts THEN Edge(FirstState, [pins EXCEPT !.drive = rq.we \/ @])
       ELSE Edge("check", pins)
    /\ UNCHANGED <<read_delay, write_delay, dat, ack>>

(* Variant: counters of two bits.                                          *)
IncVariant(n) == (n + 1) % 4
Inc(n) == (n + 1) % DelayRange

StWrite0 ==
    /\ state = "write0"
    /\ Edge("write1", [pins EXCEPT !.d = "hi"])
    /\ UNCHANGED <<read_delay, write_delay, dat, ack>>

StWrite1 ==
    /\ state = "write1"
    /\ write_delay' = Inc(write_delay)
    /\ IF write_delay >= WriteCount
       THEN /\ Edge(IF rq.sel = "hi" THEN "write2" ELSE "write_next",
                    [pins EXCEPT !.ce = TRUE, !.wr = FALSE])
            /\ ack' = (ack \/ rq.sel = "hi")
       ELSE Edge("write1", [pins EXCEPT !.ce = TRUE, !.wr = TRUE]) /\ UNCHANGED ack
    /\ UNCHANGED <<read_delay, dat>>

(* Variant: the data of the high half is kept.                             *)
StWriteNextVariant ==
    /\ state = "write_next"
    /\ Edge("write_next0", [pins EXCEPT !.w = rq.adr, !.h = "lo"])
    /\ write_delay' = 0
    /\ UNCHANGED <<read_delay, dat, ack>>

StWriteNext ==
    /\ state = "write_next"
    /\ Edge("write_next0", [pins EXCEPT !.w = rq.adr, !.h = "lo", !.d = "lo"])
    /\ write_delay' = 0
    /\ UNCHANGED <<read_delay, dat, ack>>

(* Variant: address and data leave together with the write strobe.         *)
StWriteNext0Variant ==
    /\ state = "write_next0"
    /\ write_delay' = Inc(write_delay)
    /\ LET over == write_delay >= WriteCount
       IN /\ Edge(IF over THEN "write2" ELSE "write_next0",
                  [pins EXCEPT !.ce = TRUE, !.wr = ~over, !.d = IF over THEN "hi" ELSE @])
          /\ ack' = (ack \/ over)
    /\ UNCHANGED <<read_delay, dat>>

StWriteNext0 ==
    /\ state = "write_next0"
    /\ write_delay' = Inc(write_delay)
    /\ LET over == write_delay >= WriteCount
       IN /\ Edge(IF over THEN "write2" ELSE "write_next0",
                  [pins EXCEPT !.ce = TRUE, !.wr = ~over])
          /\ ack' = (ack \/ over)
    /\ UNCHANGED <<read_delay, dat>>

StWrite2 ==
    /\ state = "write2"
    /\ Edge("idle", [pins EXCEPT !.ce = FALSE, !.drive = FALSE])
    /\ write_delay' = 0 /\ ack' = FALSE
    /\ UNCHANGED <<read_delay, dat>>

(* READ0 and READ_NEXT0 alike: select the chip and wait.                   *)
ReadWait(next) ==
    /\ read_delay' = Inc(read_delay)
    /\ Edge(IF read_delay >= ReadCount THEN next ELSE state,
            [pins EXCEPT !.ce = TRUE, !.oe = TRUE])
    /\ UNCHANGED <<write_delay, dat, ack>>

StRead0 == state = "read0" /\ ReadWait("read1")
StReadNext0 == state = "read_next0" /\ ReadWait("read_next1")

StRead1 ==
    /\ state = "read1"
    /\ Edge(IF rq.sel = "hi" THEN "read2" ELSE "read_next",
            [pins EXCEPT !.ce = FALSE, !.oe = FALSE])
    /\ dat' = [dat EXCEPT !["hi"] = D_I]
    /\ ack' = (ack \/ rq.sel = "hi")
    /\ read_delay' = IF rq.sel = "hi" THEN 0 ELSE read_delay
    /\ UNCHANGED write_delay

(* Variant: the second access goes to the first half word again.           *)
StReadNextStale ==
    /\ state = "read_next"
    /\ Edge("read_next0", [pins EXCEPT !.w = rq.adr])
    /\ read_delay' = 0
    /\ UNCHANGED <<write_delay, dat, ack>>

StReadNext ==
    /\ state = "read_next"
    /\ Edge("read_next0", [pins EXCEPT !.w = rq.adr, !.h = "lo"])
    /\ read_delay' = 0
    /\ UNCHANGED <<write_delay, dat, ack>>

(* Variant: the chip is left driving the data lines.                       *)
StReadNext1Variant ==
    /\ state = "read_next1"
    /\ Edge("read2", [pins EXCEPT !.ce = FALSE])
    /\ dat' = [dat EXCEPT !["lo"] = D_I]
    /\ ack' = TRUE /\ read_delay' = 0
    /\ UNCHANGED write_delay

StReadNext1 ==
    /\ state = "read_next1"
    /\ Edge("read2", [pins EXCEPT !.ce = FALSE, !.oe = FALSE])
    /\ dat' = [dat EXCEPT !["lo"] = D_I]
    /\ ack' = TRUE /\ read_delay' = 0
    /\ UNCHANGED write_delay

StRead2 ==
    /\ state = "read2"
    /\ Edge("idle", pins)
    /\ ack' = FALSE
    /\ UNCHANGED <<read_delay, write_delay, dat>>
-----------------------------------------------------------------------------
Init ==
    /\ stb = FALSE /\ rq \in Requests
    /\ state = "reset" /\ pins = ResetPins
    /\ read_delay = 0 /\ write_delay = 0 /\ ack = FALSE
    /\ dat = [h \in Halves |-> Junk]
    /\ sts \in BOOLEAN
    /\ chip = [busy |-> ~sts, lag |-> 0, age |-> 0]
    /\ log = <<>>

Clock ==
    \/ StReset \/ StIdle \/ StCheck
    \/ StWrite0 \/ StWrite1 \/ StWriteNext \/ StWriteNext0 \/ StWrite2
    \/ StRead0 \/ StRead1 \/ StReadNext \/ StReadNext0 \/ StReadNext1 \/ StRead2

Next == Clock \/ Reset

Spec == Init /\ [][Next]_vars

(* The clock runs, and an operation of the chip comes to its end.          *)
FairSpec == Spec /\ WF_vars(Clock) /\ []<>sts
-----------------------------------------------------------------------------
TypeOK ==
    /\ stb \in BOOLEAN /\ rq \in Requests
    /\ state \in {"reset", "idle", "check", "write0", "write1", "write_next",
                  "write_next0", "write2", "read0", "read1", "read_next", "read_next0",
                  "read_next1", "read2"}
    /\ pins \in [w : Word, h : Halves, d : Halves, ce : BOOLEAN, oe : BOOLEAN,
                 wr : BOOLEAN, rp : BOOLEAN, drive : BOOLEAN]
    /\ read_delay \in 0 .. ReadCount + 1 /\ write_delay \in 0 .. WriteCount + 1
    /\ dat \in [Halves -> [w : Word, h : Halves \cup {"none"}]]
    /\ ack \in BOOLEAN /\ sts \in BOOLEAN
    /\ chip \in [busy : BOOLEAN, lag : Nat, age : Nat]
    /\ log \in Seq(Word \X Halves \X Halves)

(* The half words a request is about.                                      *)
Wanted(r) == CASE r.sel = "hi" -> <<"hi">> [] r.sel = "lo" -> <<"lo">>
               [] OTHER -> <<"hi", "lo">>

(* An acknowledged read shows the half words of the address that was asked *)
(* for, each read after the chip's access time: the two accesses share     *)
(* FLASH_A, the delay counter and wb_dat_o.                                *)
ReadCorrect ==
    ack /\ ~rq.we =>
        \A i \in 1 .. Len(Wanted(rq)) : dat[Wanted(rq)[i]] = Cell(rq.adr, Wanted(rq)[i])

(* What reaches the chip for a request is its half words, each once, high  *)
(* half first, with the data that belongs to them; nothing for a read; all *)
(* of it by the acknowledge.                                               *)
Writes(r) ==
    IF r.we THEN [i \in 1 .. Len(Wanted(r)) |-> <<r.adr, Wanted(r)[i], Wanted(r)[i]>>]
    ELSE <<>>
WriteExact ==
    /\ log = SubSeq(Writes(rq), 1, Len(log))
    /\ ack => log = Writes(rq)

(* The chip is not accessed while an operation of its own goes on, but for *)
(* the second half of a word write: STS is looked at once per request.     *)
AccessReady == chip.busy /\ (pins.oe \/ pins.wr) => rq.we /\ pins.h = "lo" /\ rq.sel # "lo"

(* Address and data are driven and stay while SnWR is low and for a cycle  *)
(* after, except when reset takes the chip down as well.                   *)
WriteHeld ==
    [][pins.wr /\ pins'.rp =>
         pins.drive /\ pins'.drive /\ <<pins'.w, pins'.h, pins'.d>> = <<pins.w, pins.h, pins.d>>]_vars

(* The interface and the chip never drive the data lines in the same cycle *)
(* or in neighbouring ones.                                                *)
Turnaround == [][~(pins.oe /\ pins'.drive) /\ ~(pins.drive /\ pins'.oe)]_vars

(* SnWR stays low for WRITE_DELAY_NS.                                      *)
WriteDelayKept == [][Latches => (chip.age + 1) * Period >= WriteNs]_vars

(* Every request is acknowledged, also one that finds the chip at work,    *)
(* unless there is a reset.                                                *)
Served == [](stb => <>(ack \/ state = "reset"))
=============================================================================
