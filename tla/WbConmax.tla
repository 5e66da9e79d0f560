------------------------------ MODULE WbConmax ------------------------------
(***************************************************************************)
(* The WISHBONE interconnect matrix of rtl/wb_conmax: every master port    *)
(* (wb_conmax_master_if) reaches every slave port (wb_conmax_slave_if),    *)
(* each slave port arbitrates its requesters (wb_conmax_arb, _msel,        *)
(* _pri_enc, _pri_dec) and the register file (wb_conmax_rf) sits in front  *)
(* of one slave and holds the priorities.                                  *)
(*                                                                         *)
(* Time is the rising edge of wb_clk: Clock updates every register at      *)
(* once, from the values before the edge.  What happens between two edges  *)
(* (a master raising a request, a slave raising its response) are actions  *)
(* of their own; their order within a cycle does not matter, the matrix    *)
(* samples them at the next Clock.                                         *)
(***************************************************************************)
EXTENDS Naturals, FiniteSetsExt

CONSTANTS
    N,            \* number of masters; master ports are 0 .. N-1
    Slaves,       \* the slave ports
    RfSlave,      \* the slave port the register file sits in front of
    Live,         \* the slave ports with a device; the others never respond
    PriSel,       \* parameter pri_sel of each slave port, 0 .. 2
    Requests,     \* the transfers the masters may ask for
    BlockMasters  \* masters that keep cyc between transfers

Masters == 0 .. N-1
Levels  == 0 .. 3

(* A conf register holds one priority level (two bits) per master.         *)
ConfVal == [Masters -> Levels]
ZeroConf == [m \in Masters |-> 0]

(* The part of a bus transfer the matrix looks at: addr[31:28] selects the *)
(* slave, addr[27:24] = rf_addr the register file, addr[5:2] one of its    *)
(* registers; we and data[15:0] matter to the register file.               *)
Request == [slv : Slaves, rf : BOOLEAN, idx : Slaves, we : BOOLEAN,
            dat : ConfVal]

(* All lines low, as reset leaves them.                                    *)
ResetRq == [slv |-> 0, rf |-> FALSE, idx |-> 0, we |-> FALSE,
            dat |-> ZeroConf]
Lines == Requests \cup {ResetRq}

ASSUME ConmaxAssumption ==
    /\ N \in Nat \ {0}
    /\ 0 \in Slaves /\ RfSlave \in Slaves
    /\ Live \subseteq Slaves
    /\ PriSel \in [Slaves -> 0 .. 2]
    /\ Requests \subseteq Request
    /\ BlockMasters \subseteq Masters

VARIABLES
    mst,       \* a master's cyc/stb (ph) and its address and data lines (rq)
    s_cyc_o,   \* master_if: registered cyc towards each slave port
    m_cyc_r,   \* slave_if: the previous cycle's cyc of each master
    next,      \* slave_if: no cyc was passed on in the previous cycle
    gnt,       \* msel: state of the four arbiters of each slave port
    pri_out,   \* msel: the level whose arbiter is selected
    conf,      \* rf: the priority registers, one per slave port
    rf_we, rf_ack, rf_dout,  \* rf: its other registers
    dev        \* the devices behind the slave ports

matrix == <<s_cyc_o, m_cyc_r, next, gnt, pri_out, conf, rf_we, rf_ack, rf_dout>>
vars == <<mst, matrix, dev>>

-----------------------------------------------------------------------------
(* The masters' lines.  "req" drives cyc and stb, "hold" cyc only, "done"  *)
(* is the one cycle with cyc low that follows a transfer.                  *)
Cyc(m) == mst[m].ph \in {"req", "hold"}
Stb(m) == mst[m].ph = "req"
SlvSel(m) == mst[m].rq.slv

(* wb_conmax_msel: the level of master m at slave port s.                  *)
Pri(s, m) ==
    CASE PriSel[s] = 0 -> 0
      [] PriSel[s] = 1 -> conf[s][m] % 2
      [] PriSel[s] = 2 -> conf[s][m]

(* The masters whose cyc reaches slave port s, all and those of one level. *)
Req(s) == {m \in Masters : s_cyc_o[m][s]}
ReqP(s, p) == {m \in Req(s) : Pri(s, m) = p}

(* wb_conmax_pri_enc: the highest level asked for, 0 when none is.         *)
PriOutD(s) ==
    IF ReqP(s, 3) # {} THEN 3
    ELSE IF ReqP(s, 2) # {} THEN 2
    ELSE IF ReqP(s, 1) # {} THEN 1
    ELSE 0

(* The level is re-evaluated only while `next' is set.                     *)
PriOutAlways(s) == PriOutD(s)   \* Variant: `next' ignored.
PriOutNext(s) == IF next[s] THEN PriOutD(s) ELSE pri_out[s]

(* Variants of the arbiter: the grant moves on under a master that still   *)
(* asks; lowest index first; the rotation does not wrap.                   *)
ArbNoHold(g, req) ==
    LET later == {m \in req : m > g}
    IN  IF req = {} THEN g ELSE IF later # {} THEN Min(later) ELSE Min(req)
ArbFixed(g, req) == IF g \in req \/ req = {} THEN g ELSE Min(req)
ArbNoWrap(g, req) == IF g \in req \/ req = {} THEN g ELSE g + 1

(* wb_conmax_arb: keep the grant while its master asks or nobody does,     *)
(* else pass it to the next asking master in cyclic order.  Input `next'   *)
(* of the arbiter is tied low in every instance.                           *)
ArbNext(g, req) ==
    LET later == {m \in req : m > g}
    IN  IF g \in req \/ req = {} THEN g
        ELSE IF later # {} THEN Min(later)
        ELSE Min(req)

(* The master connected to slave port s.  With pri_sel = 0 the slave port  *)
(* uses a plain arbiter on all requests: arbiter 0, as all levels are 0.   *)
MastSel(s) ==
    CASE PriSel[s] = 0 -> gnt[s][0]
      [] PriSel[s] = 1 -> gnt[s][pri_out[s] % 2]
      [] PriSel[s] = 2 -> gnt[s][pri_out[s]]

(* wb_conmax_slave_if: what slave port s drives.                           *)
PortRq(s) == mst[MastSel(s)].rq
PortCyc(s) == s_cyc_o[MastSel(s)][s] /\ m_cyc_r[s][MastSel(s)]
PortStb(s) == Stb(MastSel(s)) /\ SlvSel(MastSel(s)) = s

(* wb_conmax_rf: the access is to the register file, and what is left for  *)
(* the device behind it.                                                   *)
RfSel == PortCyc(RfSlave) /\ PortStb(RfSlave) /\ PortRq(RfSlave).rf
DevCyc(s) == PortCyc(s) /\ ~(s = RfSlave /\ RfSel)

(* A response (ack, err and rty are routed alike), at the slave port and   *)
(* at the master.                                                          *)
PortAck(s) == IF s = RfSlave /\ RfSel THEN rf_ack ELSE dev[s].st = "ack"
MastAckAny(m) == PortAck(SlvSel(m))   \* Variant: not gated by mast_sel.
MastAck(m) == PortAck(SlvSel(m)) /\ MastSel(SlvSel(m)) = m

-----------------------------------------------------------------------------
IdleDev == [st |-> "idle", owner |-> 0, rq |-> ResetRq]

Init ==
    /\ mst = [m \in Masters |-> [ph |-> "idle", rq |-> ResetRq]]
    /\ s_cyc_o = [m \in Masters |-> [s \in Slaves |-> FALSE]]
    /\ m_cyc_r = [s \in Slaves |-> [m \in Masters |-> FALSE]]
    /\ next = [s \in Slaves |-> TRUE]
    /\ gnt = [s \in Slaves |-> [p \in Levels |-> 0]]
    /\ pri_out = [s \in Slaves |-> 0]
    /\ conf = [s \in Slaves |-> ZeroConf]
    /\ rf_we = FALSE /\ rf_ack = FALSE /\ rf_dout = ZeroConf
    /\ dev = [s \in Slaves |-> IdleDev]

(* A master raises cyc and stb and keeps them, and its lines, until the    *)
(* response (or1200_wb_biu with registered outputs).                       *)
Raise(m, r) ==
    /\ mst[m].ph = "idle"
    /\ mst' = [mst EXCEPT ![m] = [ph |-> "req", rq |-> r]]
    /\ UNCHANGED <<matrix, dev>>

(* A master in a block cycle goes on with another transfer, or ends it.    *)
Resume(m, r) ==
    /\ mst[m].ph = "hold"
    /\ mst' = [mst EXCEPT ![m] = [ph |-> "req", rq |-> r]]
    /\ UNCHANGED <<matrix, dev>>

Release(m) ==
    /\ mst[m].ph = "hold"
    /\ mst' = [mst EXCEPT ![m] = [ph |-> "done", rq |-> mst[m].rq]]
    /\ UNCHANGED <<matrix, dev>>

(* A device that has taken a transfer responds.                            *)
Respond(s) ==
    /\ s \in Live
    /\ dev[s].st = "busy"
    /\ dev' = [dev EXCEPT ![s] = [st |-> "ack", owner |-> dev[s].owner,
                                   rq |-> dev[s].rq]]
    /\ UNCHANGED <<mst, matrix>>

(* A master at the clock edge: a response ends the transfer.               *)
MasterNext(m) ==
    CASE mst[m].ph = "req" /\ MastAck(m) ->
            IF m \in BlockMasters THEN "hold" ELSE "done"
      [] mst[m].ph = "done" -> "idle"
      [] OTHER -> mst[m].ph

(* wb_conmax_master_if: cyc to the addressed slave, held when stb is low.  *)
SCycNoHold(m, s) == Cyc(m) /\ Stb(m) /\ SlvSel(m) = s   \* Variant: no hold.
SCycNext(m, s) ==
    IF Cyc(m) /\ ~Stb(m) THEN s_cyc_o[m][s] ELSE Cyc(m) /\ SlvSel(m) = s

(* A device at the clock edge: it takes the transfer it sees when idle and *)
(* gives its response for one cycle.  `owner' and `rq' note whose transfer *)
(* it took; an unpopulated port never leaves "idle".                       *)
DevNext(s) ==
    IF s \in Live /\ dev[s].st = "idle" /\ DevCyc(s) /\ PortStb(s)
      THEN [st |-> "busy", owner |-> MastSel(s), rq |-> PortRq(s)]
    ELSE IF dev[s].st = "ack" THEN IdleDev
    ELSE dev[s]

(* Variants of the register file: the response is not ended after one      *)
(* cycle; reads strobe the write too.                                      *)
RfClockAckHeld ==
    /\ rf_we' = (RfSel /\ PortRq(RfSlave).we /\ ~rf_we)
    /\ rf_ack' = RfSel
    /\ rf_dout' = IF RfSel THEN conf[PortRq(RfSlave).idx] ELSE ZeroConf
RfClockReadWrites ==
    /\ rf_we' = (RfSel /\ ~rf_we)
    /\ rf_ack' = (RfSel /\ ~rf_ack)
    /\ rf_dout' = IF RfSel THEN conf[PortRq(RfSlave).idx] ELSE ZeroConf

(* The register file at the clock edge.                                    *)
RfClock ==
    /\ rf_we' = (RfSel /\ PortRq(RfSlave).we /\ ~rf_we)
    /\ rf_ack' = (RfSel /\ ~rf_ack)
    /\ rf_dout' = IF RfSel THEN conf[PortRq(RfSlave).idx] ELSE ZeroConf

(* The registers of the slave ports that have no reset.                    *)
PortHistory ==
    /\ m_cyc_r' = [s \in Slaves |-> [m \in Masters |-> s_cyc_o[m][s]]]
    /\ next' = [s \in Slaves |-> ~PortCyc(s)]

(* One rising edge of wb_clk.                                              *)
Clock ==
    /\ mst' = [m \in Masters |-> [ph |-> MasterNext(m), rq |-> mst[m].rq]]
    /\ s_cyc_o' = [m \in Masters |-> [s \in Slaves |-> SCycNext(m, s)]]
    /\ gnt' = [s \in Slaves |-> [p \in Levels |->
                 ArbNext(gnt[s][p], ReqP(s, p))]]
    /\ pri_out' = [s \in Slaves |-> PriOutNext(s)]
    /\ conf' = IF rf_we THEN [conf EXCEPT ![PortRq(RfSlave).idx] =
                                                 PortRq(RfSlave).dat]
                        ELSE conf
    /\ dev' = [s \in Slaves |-> DevNext(s)]
    /\ RfClock
    /\ PortHistory

(* A rising edge with rst asserted.  The same reset clears the outputs of  *)
(* the masters, which raise no request before the next edge, and returns   *)
(* the devices to idle; m_cyc_r, next and the rf registers other than conf *)
(* have no reset.                                                          *)
Reset ==
    /\ mst' = [m \in Masters |-> [ph |-> "done", rq |-> ResetRq]]
    /\ s_cyc_o' = [m \in Masters |-> [s \in Slaves |-> FALSE]]
    /\ gnt' = [s \in Slaves |-> [p \in Levels |-> 0]]
    /\ pri_out' = [s \in Slaves |-> 0]
    /\ conf' = [s \in Slaves |-> ZeroConf]
    /\ dev' = [s \in Slaves |-> IdleDev]
    /\ RfClock
    /\ PortHistory

Next ==
    \/ \E m \in Masters, r \in Requests : Raise(m, r)
    \/ \E m \in Masters, r \in Requests : Resume(m, r)
    \/ \E m \in Masters : Release(m)
    \/ \E s \in Live : Respond(s)
    \/ Clock
    \/ Reset

Spec == Init /\ [][Next]_vars

(* The clock keeps running and a device that took a transfer responds.     *)
Fairness == WF_vars(Clock) /\ \A s \in Live : WF_vars(Respond(s))
FairSpec == Spec /\ Fairness

-----------------------------------------------------------------------------
Phases == {"idle", "req", "hold", "done"}
DevStates == {"idle", "busy", "ack"}

(* Every register keeps to its width; the grants name existing masters and *)
(* only masters that use block cycles hold cyc without stb.                *)
TypeOK ==
    /\ mst \in [Masters -> [ph : Phases, rq : Lines]]
    /\ \A m \in Masters : mst[m].ph = "hold" => m \in BlockMasters
    /\ s_cyc_o \in [Masters -> [Slaves -> BOOLEAN]]
    /\ m_cyc_r \in [Slaves -> [Masters -> BOOLEAN]]
    /\ next \in [Slaves -> BOOLEAN]
    /\ gnt \in [Slaves -> [Levels -> Masters]]
    /\ pri_out \in [Slaves -> Levels]
    /\ conf \in [Slaves -> ConfVal]
    /\ rf_we \in BOOLEAN /\ rf_ack \in BOOLEAN /\ rf_dout \in ConfVal
    /\ dev \in [Slaves -> [st : DevStates, owner : Masters, rq : Lines]]

(* All masters have level 0 at every slave port: pri_sel is 0 or the conf  *)
(* registers have their reset value, as in the SoC, whose software never   *)
(* writes them.                                                            *)
PrioritiesOff == \A s \in Slaves, m \in Masters : Pri(s, m) = 0

(* A device that has taken a transfer stays connected to the master it     *)
(* took it from, which still drives cyc, stb and the same lines: no other  *)
(* master's address reaches the device in the middle of a transfer, and    *)
(* the response finds the master that asked (slave_if's mast_sel, ack      *)
(* gating).                                                                *)
TransferIntact ==
    \A s \in Slaves : dev[s].st # "idle" =>
        /\ MastSel(s) = dev[s].owner
        /\ PortRq(s) = dev[s].rq
        /\ PortStb(s) /\ DevCyc(s)

(* A response seen by a requesting master answers its own transfer: the    *)
(* device behind its slave took exactly this request, or the register file *)
(* is answering it and the device is not.                                  *)
AckToRequester ==
    \A m \in Masters : mst[m].ph = "req" /\ MastAck(m) =>
        LET s == SlvSel(m)
        IN  \/ /\ s = RfSlave /\ RfSel /\ MastSel(s) = m
               /\ dev[s].st = "idle"
            \/ /\ dev[s].st = "ack"
               /\ dev[s].owner = m
               /\ dev[s].rq = mst[m].rq

(* A master that has a slave port keeps it as long as it keeps cyc for     *)
(* that slave, in a transfer and between the transfers of a block cycle.   *)
KeepStep(s) ==
    LET m == MastSel(s)
    IN  PortCyc(s) /\ Cyc(m) /\ (Stb(m) => SlvSel(m) = s)
          => MastSel(s)' = m /\ PortCyc(s)'

OwnerKeepsPort == [][Reset \/ \A s \in Slaves : KeepStep(s)]_vars

(* The cycle after a reset: no master asks, all lines are low.             *)
JustReset ==
    /\ \A m \in Masters : mst[m] = [ph |-> "done", rq |-> ResetRq]
    /\ conf = [s \in Slaves |-> ZeroConf]

(* The register file's response and its write strobe belong to the access  *)
(* that selects it in the same cycle, though both registers were loaded by *)
(* the previous edge and neither is cleared by reset.                      *)
RfIntact ==
    LET rq == PortRq(RfSlave)
    IN  /\ rf_ack => RfSel \/ JustReset
        /\ rf_we => (RfSel /\ rf_ack /\ rq.we) \/ JustReset
        /\ RfSel /\ rf_ack /\ rq.we => rf_we
        /\ RfSel /\ rf_ack /\ ~rq.we => rf_dout = conf[rq.idx]

(* The priority registers change only when, and exactly as, a register     *)
(* write is acknowledged to the master that asked for it: once, with its   *)
(* index and data (rf_we and rf_ack are separate registers and rf_we is    *)
(* not gated by rf_sel).                                                   *)
AckedRfWrite(m) ==
    /\ mst[m].ph = "req" /\ MastAck(m)
    /\ SlvSel(m) = RfSlave /\ mst[m].rq.rf /\ mst[m].rq.we

RfWriteStep ==
    \/ conf' = conf /\ (\A m \in Masters : AckedRfWrite(m) => ~Clock)
    \/ \E m \in Masters :
         /\ AckedRfWrite(m)
         /\ conf' = [conf EXCEPT ![mst[m].rq.idx] = mst[m].rq.dat]

RfWriteAtAck == [][Reset \/ RfWriteStep]_vars

(* Every transfer to a populated slave or to the register file is answered *)
(* eventually, also when another master waits for ever on an unpopulated   *)
(* slave.                                                                  *)
Answerable(m) ==
    /\ mst[m].ph = "req"
    /\ SlvSel(m) \in Live \/ (SlvSel(m) = RfSlave /\ mst[m].rq.rf)

RequestServed ==
    \A m \in Masters : Answerable(m) ~> mst[m].ph # "req"

(* With priorities in use, a device can lose its master in the middle of a *)
(* transfer only in the cycle in which it first sees it (`next' is still   *)
(* set) or when the master's level was rewritten meanwhile.                *)
PreemptOnlyInFirstCycle ==
    [][Reset \/ \A s \in Slaves :
         ~next[s] /\ Pri(s, MastSel(s)) = pri_out[s] => KeepStep(s)]_vars
=============================================================================
