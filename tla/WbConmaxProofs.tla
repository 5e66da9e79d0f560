--------------------------- MODULE WbConmaxProofs ---------------------------
(***************************************************************************)
(* Proofs about the interconnect matrix, for any number of masters and     *)
(* slave ports, any pri_sel and any set of requests.                       *)
(*                                                                         *)
(* TypeOK is inductive as it stands.  Everything about an access under way *)
(* rests on KeepPort: at an edge the port stays with its master if the     *)
(* level that selects the arbiter stays and is that master's.  With        *)
(* PrioritiesOff the level is 0 throughout (PriOutZero), and               *)
(*      TypeOK /\ PriOutZero /\ TransferIntact /\ RfIntact                 *)
(* is the invariant the other theorems are read from.  The bound on        *)
(* waiting adds TurnInv, on the rotation of the grant.                     *)
(***************************************************************************)
EXTENDS WbConmaxFair, TLAPS, WellFoundedInduction

(* Min of FiniteSetsExt chooses the least member of a non-empty set of     *)
(* numbers.                                                                *)
LEMMA MinInSet ==
    ASSUME NEW S \in SUBSET Nat, S # {}
    PROVE  Min(S) \in S /\ \A y \in S : Min(S) <= y
<1> DEFINE LT == OpToRel(<, Nat)
<1>1. \E x \in S : \A y \in S : ~ (<<y, x>> \in LT)
  <2>1. IsWellFoundedOn(LT, Nat)
    BY NatLessThanWellFounded
  <2> HIDE DEF LT
  <2>2. QED
    BY <2>1, WFMin, Zenon
<1>2. ASSUME NEW x \in S, NEW y \in S, y < x
      PROVE  <<y, x>> \in LT
  <2>1. <<y, x>> \in Nat \X Nat /\ <<y, x>>[1] < <<y, x>>[2]
    BY <1>2
  <2>2. QED
    BY <2>1, Zenon DEF OpToRel
<1> HIDE DEF LT
<1>3. PICK x \in S : \A y \in S : ~ (<<y, x>> \in LT)
  BY <1>1
<1>4. ASSUME NEW y \in S
      PROVE  x =< y
  <2>1. ~ (y < x)
    BY <1>2, <1>3, Zenon
  <2>2. QED
    BY <2>1
<1>5. QED
  BY <1>4 DEF Min

-----------------------------------------------------------------------------
(* Types of the operators.                                                 *)

(* What the assumption on the constants says of a request.                 *)
LEMMA ConstantTypes ==
    /\ 0 \in Masters /\ Masters \subseteq Nat
    /\ ZeroConf \in ConfVal
    /\ ResetRq \in Lines /\ Requests \subseteq Lines /\ Lines \subseteq Request
    /\ IdleDev \in [st : DevStates, owner : Masters, rq : Lines]
<1>1. 0 \in Masters /\ Masters \subseteq Nat
  BY ConmaxAssumption DEF Masters
<1>2. ZeroConf \in ConfVal
  BY DEF ZeroConf, ConfVal, Levels
<1>3. ResetRq \in Request
  BY <1>2, ConmaxAssumption DEF ResetRq, Request
<1>4. QED
  BY <1>1, <1>2, <1>3, ConmaxAssumption DEF Lines, IdleDev, DevStates

(* An arbiter only ever grants an existing master, and keeps its grant     *)
(* while that master asks.                                                 *)
LEMMA ArbType ==
    ASSUME NEW g \in Masters, NEW req \in SUBSET Masters
    PROVE  /\ ArbNext(g, req) \in Masters
           /\ g \in req => ArbNext(g, req) = g
<1> DEFINE later == {m \in req : m > g}
<1>1. later \in SUBSET Nat /\ req \in SUBSET Nat
  BY ConstantTypes
<1>2. later # {} => Min(later) \in later
  BY <1>1, MinInSet
<1>3. req # {} => Min(req) \in req
  BY <1>1, MinInSet
<1>4. QED
  BY <1>2, <1>3 DEF ArbNext

(* The level of a master is one of the four.                               *)
LEMMA PriType ==
    ASSUME TypeOK, NEW s \in Slaves, NEW m \in Masters
    PROVE  Pri(s, m) \in Levels
<1>1. conf[s][m] \in 0 .. 3 /\ PriSel[s] \in 0 .. 2
  BY ConmaxAssumption DEF TypeOK, ConfVal, Levels
<1>2. QED
  BY <1>1 DEF Pri, Levels

(* The master connected to a port exists.                                  *)
LEMMA MastSelType ==
    ASSUME TypeOK, NEW s \in Slaves
    PROVE  MastSel(s) \in Masters
<1>1. pri_out[s] \in 0 .. 3 /\ PriSel[s] \in 0 .. 2
  BY ConmaxAssumption DEF TypeOK, Levels
<1>2. \A p \in 0 .. 3 : gnt[s][p] \in Masters
  BY DEF TypeOK, Levels
<1>3. QED
  BY <1>1, <1>2 DEF MastSel

(* What an edge reads from the port of the register file.                  *)
LEMMA PortRqType ==
    ASSUME TypeOK, NEW s \in Slaves
    PROVE  PortRq(s) \in Lines /\ PortRq(s).idx \in Slaves
           /\ PortRq(s).dat \in ConfVal
<1>1. PortRq(s) \in Lines
  BY MastSelType DEF TypeOK, PortRq
<1>2. QED
  BY <1>1, ConstantTypes DEF Request

(* The registers of the register file keep their types at an edge.         *)
LEMMA RfClockType ==
    ASSUME TypeOK, RfClock
    PROVE  rf_we' \in BOOLEAN /\ rf_ack' \in BOOLEAN /\ rf_dout' \in ConfVal
<1>1. PortRq(RfSlave).idx \in Slaves
  BY PortRqType, ConmaxAssumption
<1>2. QED
  BY <1>1, ConstantTypes DEF RfClock, TypeOK

(* So do the registers of the slave ports without reset.                   *)
LEMMA PortHistoryType ==
    ASSUME TypeOK, PortHistory
    PROVE  /\ m_cyc_r' \in [Slaves -> [Masters -> BOOLEAN]]
           /\ next' \in [Slaves -> BOOLEAN]
BY DEF PortHistory, TypeOK

(* Every register keeps its type at an edge without reset.                 *)
LEMMA TypeClock ==
    ASSUME TypeOK, Clock
    PROVE  TypeOK'
<1>1. mst' \in [Masters -> [ph : Phases, rq : Lines]]
  <2>1. \A m \in Masters : MasterNext(m) \in Phases /\ mst[m].rq \in Lines
    BY DEF TypeOK, MasterNext, Phases
  <2>2. QED
    BY <2>1 DEF Clock
<1>h. \A m \in Masters : mst'[m].ph = "hold" => m \in BlockMasters
  <2>1. \A m \in Masters : MasterNext(m) = "hold" => m \in BlockMasters
    BY DEF TypeOK, MasterNext, Phases
  <2>2. QED
    BY <2>1 DEF Clock
<1>2. s_cyc_o' \in [Masters -> [Slaves -> BOOLEAN]]
  <2>1. ASSUME NEW m \in Masters, NEW s \in Slaves
        PROVE  SCycNext(m, s) \in BOOLEAN
    <3>1. s_cyc_o[m][s] \in BOOLEAN
      BY DEF TypeOK
    <3>2. QED
      BY <3>1, Zenon DEF SCycNext, Cyc
  <2>2. QED
    BY <2>1 DEF Clock
<1>3. gnt' \in [Slaves -> [Levels -> Masters]]
  <2>1. \A s \in Slaves, p \in Levels : ArbNext(gnt[s][p], ReqP(s, p)) \in Masters
    BY ArbType DEF TypeOK, ReqP, Req
  <2>2. QED
    BY <2>1 DEF Clock
<1>4. pri_out' \in [Slaves -> Levels]
  BY DEF Clock, TypeOK, PriOutNext, PriOutD, Levels
<1>5. conf' \in [Slaves -> ConfVal]
  BY PortRqType, ConmaxAssumption DEF Clock, TypeOK
<1>6. dev' \in [Slaves -> [st : DevStates, owner : Masters, rq : Lines]]
  <2>1. \A s \in Slaves : DevNext(s) \in [st : DevStates, owner : Masters, rq : Lines]
    BY MastSelType, PortRqType, ConstantTypes DEF TypeOK, DevNext, DevStates
  <2>2. QED
    BY <2>1 DEF Clock
<1>7. QED
  BY <1>1, <1>h, <1>2, <1>3, <1>4, <1>5, <1>6, RfClockType, PortHistoryType
     DEF Clock, TypeOK

(* TypeOK is inductive.                                                    *)
LEMMA TypeStep == TypeOK /\ [Next]_vars => TypeOK'
<1> SUFFICES ASSUME TypeOK, [Next]_vars PROVE TypeOK'
  OBVIOUS
<1>1. CASE \E m \in Masters, r \in Requests : Raise(m, r)
  BY <1>1, ConstantTypes DEF Raise, TypeOK, Phases, matrix
<1>2. CASE \E m \in Masters, r \in Requests : Resume(m, r)
  BY <1>2, ConstantTypes DEF Resume, TypeOK, Phases, matrix
<1>3. CASE \E m \in Masters : Release(m)
  BY <1>3 DEF Release, TypeOK, Phases, matrix
<1>4. CASE \E s \in Live : Respond(s)
  BY <1>4, ConmaxAssumption DEF Respond, TypeOK, DevStates, matrix
<1>5. CASE Clock
  BY <1>5, TypeClock
<1>6. CASE Reset
  BY <1>6, ConstantTypes, RfClockType, PortHistoryType
     DEF Reset, TypeOK, Phases, Levels
<1>7. CASE UNCHANGED vars
  BY <1>7 DEF vars, matrix, TypeOK
<1>8. QED
  BY <1>1, <1>2, <1>3, <1>4, <1>5, <1>6, <1>7 DEF Next

(* The registers keep their types for every number of masters and slaves,  *)
(* every pri_sel and whatever is written to the register file.             *)
THEOREM TypeCorrect == Spec => []TypeOK
<1>1. Init => TypeOK
  <2> SUFFICES ASSUME Init PROVE TypeOK
    OBVIOUS
  <2> USE ConstantTypes DEF Init
  <2>1. mst \in [Masters -> [ph : Phases, rq : Lines]]
    BY DEF Phases
  <2>2. gnt \in [Slaves -> [Levels -> Masters]] /\ pri_out \in [Slaves -> Levels]
    BY DEF Levels
  <2>3. conf \in [Slaves -> ConfVal] /\ rf_dout \in ConfVal
    OBVIOUS
  <2>4. dev \in [Slaves -> [st : DevStates, owner : Masters, rq : Lines]]
    OBVIOUS
  <2>5. QED
    BY <2>1, <2>2, <2>3, <2>4 DEF TypeOK
<1>2. QED
  BY <1>1, TypeStep, PTL DEF Spec
-----------------------------------------------------------------------------
(* Who has a slave port.                                                   *)

(* Between two edges the ports do not move.                                *)
LEMMA PortsStable ==
    ASSUME UNCHANGED matrix, NEW s \in Slaves
    PROVE  MastSel(s)' = MastSel(s) /\ PortCyc(s)' = PortCyc(s)
BY DEF matrix, MastSel, PortCyc

(* At an edge the selected master keeps the port if it keeps asking and    *)
(* its level is, and stays, the selected one.                              *)
LEMMA KeepPort ==
    ASSUME TypeOK, Clock, NEW s \in Slaves,
           PortCyc(s), Cyc(MastSel(s)),
           Stb(MastSel(s)) => SlvSel(MastSel(s)) = s,
           Pri(s, MastSel(s)) = pri_out[s],
           pri_out'[s] = pri_out[s]
    PROVE  MastSel(s)' = MastSel(s) /\ PortCyc(s)'
<1> DEFINE m == MastSel(s)
           p == pri_out[s]
<1>1. m \in Masters /\ p \in Levels /\ PriSel[s] \in 0 .. 2
  BY MastSelType, ConmaxAssumption DEF TypeOK
<1>2. s_cyc_o[m][s]
  BY DEF PortCyc
<1>3. m = gnt[s][p] /\ MastSel(s)' = gnt'[s][p]
  <2>1. conf[s][m] \in 0 .. 3
    BY <1>1 DEF TypeOK, ConfVal, Levels
  <2>2. CASE PriSel[s] = 0
    BY <2>2 DEF MastSel, Pri
  <2>3. CASE PriSel[s] = 1
    <3>1. p = conf[s][m] % 2
      BY <2>3 DEF Pri
    <3>2. p % 2 = p
      BY <3>1, <2>1
    <3>3. QED
      BY <2>3, <3>2 DEF MastSel
  <2>4. CASE PriSel[s] = 2
    BY <2>4 DEF MastSel
  <2>5. QED
    BY <1>1, <2>2, <2>3, <2>4
<1>4. gnt'[s][p] = m
  <2>1. m \in ReqP(s, p) /\ ReqP(s, p) \in SUBSET Masters
    BY <1>1, <1>2 DEF ReqP, Req
  <2>2. gnt'[s][p] = ArbNext(gnt[s][p], ReqP(s, p))
    BY <1>1 DEF Clock
  <2>3. QED
    BY <1>1, <1>3, <2>1, <2>2, ArbType
<1>5. s_cyc_o'[m][s]
  <2>1. s_cyc_o'[m][s] = SCycNext(m, s)
    BY <1>1 DEF Clock
  <2>2. QED
    BY <1>2, <2>1 DEF SCycNext
<1>6. m_cyc_r'[s][m]
  BY <1>1, <1>2 DEF Clock, PortHistory
<1>7. QED
  BY <1>3, <1>4, <1>5, <1>6 DEF PortCyc

(* Whatever the priorities, a device can lose its master in the middle of  *)
(* a transfer only in the first cycle or after a rewrite of the level.     *)
THEOREM PreemptionWindow == Spec => PreemptOnlyInFirstCycle
<1>1. ASSUME TypeOK, [Next]_vars, ~Reset, NEW s \in Slaves,
             ~next[s], Pri(s, MastSel(s)) = pri_out[s]
      PROVE  KeepStep(s)
  <2>1. CASE Clock
    <3>1. pri_out'[s] = pri_out[s]
      BY <1>1, <2>1 DEF Clock, PriOutNext
    <3>2. QED
      BY <1>1, <2>1, <3>1, KeepPort DEF KeepStep
  <2>2. CASE UNCHANGED matrix
    BY <1>1, <2>2, PortsStable DEF KeepStep
  <2>3. QED
    BY <1>1, <2>1, <2>2 DEF Next, Raise, Resume, Release, Respond, vars
<1>2. TypeOK /\ [Next]_vars =>
        [Reset \/ \A s \in Slaves :
          ~next[s] /\ Pri(s, MastSel(s)) = pri_out[s] => KeepStep(s)]_vars
  BY <1>1
<1>3. QED
  BY <1>2, TypeCorrect, PTL DEF Spec, PreemptOnlyInFirstCycle

-----------------------------------------------------------------------------
(* The matrix without priorities.                                          *)

PriOutZero == \A s \in Slaves : pri_out[s] = 0

(* While all levels are 0 the selected level stays 0.                      *)
LEMMA PriOutZeroStep ==
    TypeOK /\ PriOutZero /\ PrioritiesOff /\ [Next]_vars => PriOutZero'
<1> SUFFICES ASSUME TypeOK, PriOutZero, PrioritiesOff, [Next]_vars
             PROVE  PriOutZero'
  OBVIOUS
<1>1. CASE Clock
  <2>1. ASSUME NEW s \in Slaves PROVE PriOutD(s) = 0
    BY DEF PrioritiesOff, PriOutD, ReqP, Req
  <2>2. QED
    BY <1>1, <2>1 DEF Clock, PriOutNext, PriOutZero
<1>2. CASE Reset
  BY <1>2 DEF Reset, PriOutZero
<1>3. CASE UNCHANGED matrix
  BY <1>3 DEF PriOutZero, matrix
<1>4. QED
  BY <1>1, <1>2, <1>3 DEF Next, Raise, Resume, Release, Respond, vars

(* A step without reset leaves a port with its master.                     *)
LEMMA KeepStepOff ==
    ASSUME TypeOK, PriOutZero, PrioritiesOff, [Next]_vars, Clock \/ ~Reset,
           NEW s \in Slaves
    PROVE  KeepStep(s)
<1>1. Pri(s, MastSel(s)) = pri_out[s] /\ pri_out'[s] = pri_out[s]
  BY MastSelType, PriOutZeroStep DEF PrioritiesOff, PriOutZero
<1>2. CASE Clock
  BY <1>1, <1>2, KeepPort DEF KeepStep
<1>3. CASE UNCHANGED matrix
  BY <1>3, PortsStable DEF KeepStep
<1>4. QED
  BY <1>2, <1>3 DEF Next, Raise, Resume, Release, Respond, vars

(* The selected level is 0 in every state.                                 *)
LEMMA PriOutZeroAlways == Spec /\ []PrioritiesOff => []PriOutZero
<1>1. Init => PriOutZero
  BY DEF Init, PriOutZero
<1>2. QED
  BY <1>1, PriOutZeroStep, TypeCorrect, PTL DEF Spec

(* Without priorities a master that has a slave port keeps it until it     *)
(* gives it up.                                                            *)
THEOREM OwnerStable == Spec /\ []PrioritiesOff => OwnerKeepsPort
<1>1. TypeOK /\ PriOutZero /\ PrioritiesOff /\ [Next]_vars =>
        [Reset \/ \A s \in Slaves : KeepStep(s)]_vars
  BY KeepStepOff
<1>2. QED
  BY <1>1, PriOutZeroAlways, TypeCorrect, PTL DEF Spec, OwnerKeepsPort

(* An access a port shows, and that gets no response in this cycle, is     *)
(* there unchanged after the edge.                                         *)
LEMMA PendingAccess ==
    ASSUME TypeOK, PriOutZero, PrioritiesOff, Clock, NEW s \in Slaves,
           PortCyc(s), PortStb(s), ~PortAck(s)
    PROVE  /\ MastSel(s)' = MastSel(s)
           /\ PortCyc(s)' /\ PortStb(s)' /\ PortRq(s)' = PortRq(s)
<1> DEFINE m == MastSel(s)
<1>1. m \in Masters /\ mst[m].ph = "req" /\ SlvSel(m) = s
  BY MastSelType DEF PortStb, Stb
<1>2. MastSel(s)' = m /\ PortCyc(s)'
  <2>1. KeepStep(s)
    BY KeepStepOff DEF Next
  <2>2. QED
    BY <1>1, <2>1 DEF KeepStep, Cyc
<1>3. ~MastAck(m)
  BY <1>1 DEF MastAck
<1>4. mst'[m] = [ph |-> "req", rq |-> mst[m].rq]
  BY <1>1, <1>3 DEF Clock, MasterNext
<1>5. QED
  BY <1>1, <1>2, <1>4 DEF PortStb, PortRq, Stb, SlvSel

(* Between two edges, an access stays: its master is neither idle nor in   *)
(* between the transfers of a block cycle.                                 *)
LEMMA AccessStable ==
    ASSUME TypeOK, UNCHANGED matrix, NEW s \in Slaves, PortStb(s),
           \/ mst' = mst
           \/ \E m \in Masters : /\ mst[m].ph # "req"
                                 /\ \E v : mst' = [mst EXCEPT ![m] = v]
    PROVE  /\ MastSel(s)' = MastSel(s) /\ PortCyc(s)' = PortCyc(s)
           /\ PortStb(s)' /\ PortRq(s)' = PortRq(s)
<1>1. MastSel(s)' = MastSel(s) /\ PortCyc(s)' = PortCyc(s)
  BY PortsStable
<1>2. MastSel(s) \in Masters /\ mst[MastSel(s)].ph = "req"
  BY MastSelType DEF PortStb, Stb
<1>3. mst'[MastSel(s)] = mst[MastSel(s)]
  BY <1>2 DEF TypeOK
<1>4. QED
  BY <1>1, <1>3 DEF PortStb, PortRq, Stb, SlvSel

(* The steps between two edges, as AccessStable wants them.                *)
LEMMA BetweenEdges ==
    ASSUME [Next]_vars, ~Clock, ~Reset
    PROVE  /\ UNCHANGED matrix
           /\ \/ mst' = mst
              \/ \E m \in Masters : /\ mst[m].ph # "req"
                                    /\ \E v : mst' = [mst EXCEPT ![m] = v]
<1>1. CASE \E m \in Masters, r \in Requests : Raise(m, r)
  BY <1>1 DEF Raise
<1>2. CASE \E m \in Masters, r \in Requests : Resume(m, r)
  BY <1>2 DEF Resume
<1>3. CASE \E m \in Masters : Release(m)
  BY <1>3 DEF Release
<1>4. CASE \E s \in Live : Respond(s)
  BY <1>4 DEF Respond
<1>5. CASE UNCHANGED vars
  BY <1>5 DEF vars
<1>6. QED
  BY <1>1, <1>2, <1>3, <1>4, <1>5 DEF Next

(* A step keeps TransferIntact.                                            *)
LEMMA TransferStep ==
    TypeOK /\ PriOutZero /\ PrioritiesOff /\ TransferIntact /\ [Next]_vars
        => TransferIntact'
<1> SUFFICES ASSUME TypeOK, PriOutZero, PrioritiesOff, TransferIntact, [Next]_vars,
                    NEW s \in Slaves, dev'[s].st # "idle"
             PROVE  /\ MastSel(s)' = dev'[s].owner
                    /\ PortRq(s)' = dev'[s].rq
                    /\ PortStb(s)' /\ DevCyc(s)'
  BY DEF TransferIntact
<1>1. ASSUME PortCyc(s)', PortRq(s)' = PortRq(s), PortCyc(s), PortStb(s), DevCyc(s)
      PROVE  DevCyc(s)'
  BY <1>1 DEF DevCyc, RfSel
<1>2. CASE Clock /\ ~Reset
  <2>1. dev'[s] = DevNext(s)
    BY <1>2 DEF Clock
  <2>2. PortStb(s) /\ DevCyc(s) /\ PortCyc(s) /\ dev[s].st # "ack"
        /\ dev'[s].owner = MastSel(s) /\ dev'[s].rq = PortRq(s)
    BY <2>1 DEF DevNext, TransferIntact, IdleDev, DevCyc
  <2>3. ~PortAck(s)
    BY <2>2 DEF PortAck, DevCyc
  <2>4. QED
    BY <1>1, <1>2, <2>2, <2>3, PendingAccess
<1>3. CASE Reset
  BY <1>3 DEF Reset, IdleDev
<1>4. CASE ~Clock /\ ~Reset
  <2>1. dev[s].st # "idle" /\ dev'[s].owner = dev[s].owner /\ dev'[s].rq = dev[s].rq
    <3>1. CASE dev' = dev
      BY <3>1
    <3>2. CASE \E d \in Live : Respond(d)
      <4>1. PICK d \in Live : Respond(d)
        BY <3>2
      <4>2. dev' = [dev EXCEPT ![d] = [st |-> "ack", owner |-> dev[d].owner,
                                       rq |-> dev[d].rq]]
        BY <4>1 DEF Respond
      <4>3. dev[d].st = "busy"
        BY <4>1 DEF Respond
      <4>4. QED
        BY <4>2, <4>3 DEF TypeOK
    <3>3. QED
      BY <1>4, <3>1, <3>2 DEF Next, Raise, Resume, Release, vars
  <2>2. MastSel(s) = dev[s].owner /\ PortRq(s) = dev[s].rq /\ PortStb(s)
        /\ DevCyc(s) /\ PortCyc(s)
    BY <2>1 DEF TransferIntact, DevCyc
  <2>3. QED
    BY <1>1, <1>4, <2>1, <2>2, BetweenEdges, AccessStable
<1>5. QED
  BY <1>2, <1>3, <1>4

(* Without priorities no device ever sees another master's access in the   *)
(* middle of a transfer, whatever the masters do and however long the      *)
(* devices take.                                                           *)
THEOREM TransfersIntact == Spec /\ []PrioritiesOff => []TransferIntact
<1>1. Init => TransferIntact
  BY DEF Init, TransferIntact, IdleDev
<1>2. QED
  BY <1>1, TransferStep, PriOutZeroAlways, TypeCorrect, PTL DEF Spec

(* Without priorities every response a master sees answers its own         *)
(* transfer.                                                               *)
THEOREM ResponsesMatch == Spec /\ []PrioritiesOff => []AckToRequester
<1>1. TypeOK /\ TransferIntact => AckToRequester
  <2> SUFFICES ASSUME TypeOK, TransferIntact,
                      NEW m \in Masters, mst[m].ph = "req", MastAck(m)
               PROVE  LET s == SlvSel(m)
                      IN  \/ /\ s = RfSlave /\ RfSel /\ MastSel(s) = m
                             /\ dev[s].st = "idle"
                          \/ /\ dev[s].st = "ack"
                             /\ dev[s].owner = m
                             /\ dev[s].rq = mst[m].rq
    BY DEF AckToRequester
  <2> DEFINE s == SlvSel(m)
  <2>1. s \in Slaves /\ MastSel(s) = m /\ PortAck(s)
    BY ConstantTypes DEF MastAck, SlvSel, TypeOK, Request
  <2>2. CASE s = RfSlave /\ RfSel
    BY <2>1, <2>2 DEF TransferIntact, DevCyc
  <2>3. CASE ~(s = RfSlave /\ RfSel)
    BY <2>1, <2>3 DEF TransferIntact, PortAck, PortRq
  <2>4. QED
    BY <2>2, <2>3
<1>2. QED
  BY <1>1, TransfersIntact, TypeCorrect, PTL
-----------------------------------------------------------------------------
(* The register file without priorities.                                   *)

(* The master connected to the register file after a step exists.          *)
LEMMA MastSelPrime == TypeOK' => MastSel(RfSlave)' \in Masters
<1> SUFFICES ASSUME TypeOK' PROVE MastSel(RfSlave)' \in Masters
  OBVIOUS
<1>1. pri_out'[RfSlave] \in 0 .. 3 /\ PriSel[RfSlave] \in 0 .. 2
  BY ConmaxAssumption DEF TypeOK, Levels
<1>2. \A p \in 0 .. 3 : gnt'[RfSlave][p] \in Masters
  BY ConmaxAssumption DEF TypeOK, Levels
<1>3. QED
  BY <1>1, <1>2 DEF MastSel

(* An edge without reset keeps RfIntact.                                   *)
LEMMA RfIntactClock ==
    ASSUME TypeOK, PriOutZero, PrioritiesOff, RfIntact, Clock, ~Reset
    PROVE  RfIntact'
<1> DEFINE rq == PortRq(RfSlave)
<1>1. RfSlave \in Slaves
  BY ConmaxAssumption
<1>2. JustReset => ~RfSel
  BY <1>1, MastSelType DEF JustReset, RfSel, PortStb, Stb
<1>3. CASE RfSel /\ ~rf_ack
  <2>1. PortCyc(RfSlave) /\ PortStb(RfSlave) /\ rq.rf /\ ~PortAck(RfSlave)
    BY <1>3 DEF RfSel, PortAck
  <2>2. PortRq(RfSlave)' = rq /\ PortCyc(RfSlave)' /\ PortStb(RfSlave)'
    BY <1>1, <2>1, PendingAccess
  <2>3. RfSel'
    BY <2>1, <2>2 DEF RfSel
  <2>4. ~rf_we
    BY <1>2, <1>3 DEF RfIntact
  <2>5. rf_ack' /\ (rf_we' <=> rq.we) /\ rf_dout' = conf[rq.idx] /\ conf' = conf
    BY <1>3, <2>4 DEF Clock, RfClock
  <2>6. QED
    BY <2>2, <2>3, <2>5 DEF RfIntact
<1>4. CASE ~(RfSel /\ ~rf_ack)
  <2>1. ~rf_ack' /\ ~rf_we'
    BY <1>4 DEF Clock, RfClock, RfIntact
  <2>2. QED
    BY <2>1 DEF RfIntact
<1>5. QED
  BY <1>3, <1>4

(* A step keeps RfIntact.                                                  *)
LEMMA RfIntactStep ==
    TypeOK /\ PriOutZero /\ PrioritiesOff /\ RfIntact /\ [Next]_vars => RfIntact'
<1> SUFFICES ASSUME TypeOK, PriOutZero, PrioritiesOff, RfIntact, [Next]_vars
             PROVE  RfIntact'
  OBVIOUS
<1>1. CASE Clock /\ ~Reset
  BY <1>1, RfIntactClock
<1>2. CASE Reset
  <2>1. JustReset'
    BY <1>2 DEF Reset, JustReset
  <2>2. ~RfSel'
    <3>1. mst'[MastSel(RfSlave)'].ph = "done"
      <4>1. MastSel(RfSlave)' \in Masters
        BY TypeStep, MastSelPrime
      <4>2. QED
        BY <2>1, <4>1 DEF JustReset
    <3>2. QED
      BY <3>1 DEF RfSel, PortStb, Stb
  <2>3. QED
    BY <2>1, <2>2 DEF RfIntact
<1>3. CASE ~Clock /\ ~Reset
  <2>1. UNCHANGED <<conf, rf_we, rf_ack, rf_dout>>
    BY <1>3, BetweenEdges DEF matrix
  <2>2. CASE RfSel
    <3>1. PortRq(RfSlave)' = PortRq(RfSlave) /\ PortStb(RfSlave)'
          /\ PortCyc(RfSlave)' = PortCyc(RfSlave)
      BY <1>3, <2>2, BetweenEdges, AccessStable, ConmaxAssumption DEF RfSel
    <3>2. RfSel'
      BY <2>2, <3>1 DEF RfSel
    <3>3. ~JustReset
      BY <2>2, MastSelType, ConmaxAssumption DEF JustReset, RfSel, PortStb, Stb
    <3>4. QED
      BY <2>1, <2>2, <3>1, <3>2, <3>3 DEF RfIntact
  <2>3. CASE ~rf_ack /\ ~rf_we
    BY <2>1, <2>3 DEF RfIntact
  <2>4. CASE JustReset
    <3>1. mst' = mst
      BY <1>3, <2>4, ConstantTypes
         DEF Next, Raise, Resume, Release, Respond, vars, JustReset
    <3>2. JustReset'
      BY <2>1, <2>4, <3>1 DEF JustReset
    <3>3. ~RfSel'
      <4>1. MastSel(RfSlave)' \in Masters
        BY TypeStep, MastSelPrime
      <4>2. mst'[MastSel(RfSlave)'].ph = "done"
        BY <3>2, <4>1 DEF JustReset
      <4>3. QED
        BY <4>2 DEF RfSel, PortStb, Stb
    <3>4. QED
      BY <3>2, <3>3 DEF RfIntact
  <2>5. QED
    BY <2>2, <2>3, <2>4 DEF RfIntact
<1>4. QED
  BY <1>1, <1>2, <1>3

(* Without priorities the register file answers and writes only on behalf  *)
(* of the access that selects it.                                          *)
THEOREM RegisterFileIntact == Spec /\ []PrioritiesOff => []RfIntact
<1>1. Init => RfIntact
  BY DEF Init, RfIntact
<1>2. QED
  BY <1>1, RfIntactStep, PriOutZeroAlways, TypeCorrect, PTL DEF Spec

(* Without priorities the priority registers take exactly the acknowledged *)
(* writes.                                                                 *)
THEOREM RegisterWrites == Spec /\ []PrioritiesOff => RfWriteAtAck
<1>1. ASSUME TypeOK, TransferIntact, RfIntact, [Next]_vars, ~Reset
      PROVE  [RfWriteStep]_vars
  <2> DEFINE rq == PortRq(RfSlave)
             o == MastSel(RfSlave)
  <2>1. o \in Masters /\ RfSlave \in Slaves
    BY <1>1, MastSelType, ConmaxAssumption
  <2>2. ASSUME NEW m \in Masters, AckedRfWrite(m)
        PROVE  rf_we /\ m = o
    <3>1. m = o /\ PortStb(RfSlave) /\ rq.rf /\ rq.we /\ PortAck(RfSlave)
      BY <2>2 DEF AckedRfWrite, MastAck, PortStb, Stb, PortRq
    <3>2. RfSel
      <4>1. CASE dev[RfSlave].st = "ack"
        BY <1>1, <2>1, <3>1, <4>1 DEF TransferIntact, DevCyc, RfSel
      <4>2. QED
        BY <3>1, <4>1 DEF PortAck
    <3>3. QED
      BY <1>1, <3>1, <3>2 DEF RfIntact, PortAck
  <2>3. CASE Clock /\ rf_we /\ ~JustReset
    <3>1. RfSel /\ rf_ack /\ rq.we
      BY <1>1, <2>3 DEF RfIntact
    <3>2. AckedRfWrite(o)
      BY <3>1 DEF AckedRfWrite, MastAck, PortAck, RfSel, PortStb, PortRq, Stb, SlvSel
    <3>3. conf' = [conf EXCEPT ![mst[o].rq.idx] = mst[o].rq.dat]
      BY <2>3 DEF Clock, PortRq
    <3>4. QED
      BY <2>1, <3>2, <3>3 DEF RfWriteStep
  <2>4. CASE Clock /\ rf_we /\ JustReset
    <3>1. \A m \in Masters : ~AckedRfWrite(m)
      BY <2>4 DEF JustReset, AckedRfWrite
    <3>2. conf' = [conf EXCEPT ![rq.idx] = ZeroConf]
      <4>1. rq = ResetRq
        BY <2>1, <2>4 DEF PortRq, JustReset
      <4>2. rq.dat = ZeroConf
        BY <4>1 DEF ResetRq
      <4>3. QED
        BY <2>4, <4>2 DEF Clock
    <3>3. conf' = conf
      BY <2>4, <3>2 DEF JustReset
    <3>4. QED
      BY <3>1, <3>3 DEF RfWriteStep
  <2>5. CASE Clock /\ ~rf_we
    <3>1. conf' = conf
      BY <2>5 DEF Clock
    <3>2. QED
      BY <2>2, <2>5, <3>1 DEF RfWriteStep
  <2>6. CASE ~Clock
    <3>1. conf' = conf
      BY <1>1, <2>6, BetweenEdges DEF matrix
    <3>2. QED
      BY <2>6, <3>1 DEF RfWriteStep
  <2>7. QED
    BY <2>3, <2>4, <2>5, <2>6
<1>2. TypeOK /\ TransferIntact /\ RfIntact /\ [Next]_vars
        => [Reset \/ RfWriteStep]_vars
  BY <1>1
<1>3. QED
  BY <1>2, TransfersIntact, RegisterFileIntact, TypeCorrect, PTL
     DEF Spec, RfWriteAtAck

-----------------------------------------------------------------------------
(* The SoC's software reads and writes devices, never the priority         *)
(* registers.                                                              *)
NoRegWrites == \A r \in Requests : ~(r.rf /\ r.we)
ConfAtReset == conf = [s \in Slaves |-> ZeroConf] /\ ~rf_we

(* Then the write strobe never rises and the registers keep their reset    *)
(* value.                                                                  *)
LEMMA ConfStep ==
    ASSUME NoRegWrites
    PROVE  TypeOK /\ ConfAtReset /\ [Next]_vars => ConfAtReset'
<1> SUFFICES ASSUME TypeOK, ConfAtReset, [Next]_vars
             PROVE  ConfAtReset'
  OBVIOUS
<1>1. ASSUME RfClock PROVE ~rf_we'
  <2>1. mst[MastSel(RfSlave)].rq \in Lines
    BY MastSelType, ConmaxAssumption DEF TypeOK
  <2>2. ~(PortRq(RfSlave).rf /\ PortRq(RfSlave).we)
    BY <2>1 DEF PortRq, Lines, ResetRq, NoRegWrites
  <2>3. QED
    BY <1>1, <2>2 DEF RfClock, RfSel
<1>2. CASE Clock
  BY <1>1, <1>2 DEF Clock, ConfAtReset
<1>3. CASE Reset
  BY <1>1, <1>3 DEF Reset, ConfAtReset
<1>4. CASE UNCHANGED matrix
  BY <1>4 DEF ConfAtReset, matrix
<1>5. QED
  BY <1>2, <1>3, <1>4 DEF Next, Raise, Resume, Release, Respond, vars

(* As the SoC is used, whatever pri_sel the ports were built with, no      *)
(* transfer changes hands and every response reaches the master that asked *)
(* for it.                                                                 *)
THEOREM SocTransfers ==
    ASSUME NoRegWrites
    PROVE  Spec => []TransferIntact /\ []AckToRequester
<1>1. Init => ConfAtReset
  BY DEF Init, ConfAtReset
<1>2. ConfAtReset => PrioritiesOff
  <2> SUFFICES ASSUME ConfAtReset, NEW s \in Slaves, NEW m \in Masters
               PROVE  Pri(s, m) = 0
    BY DEF PrioritiesOff
  <2>1. conf[s][m] = 0
    BY DEF ConfAtReset, ZeroConf
  <2>2. PriSel[s] \in 0 .. 2
    BY ConmaxAssumption
  <2>3. QED
    BY <2>1, <2>2 DEF Pri
<1>3. Spec => []PrioritiesOff
  BY <1>1, <1>2, ConfStep, TypeCorrect, PTL DEF Spec
<1>4. QED
  BY <1>3, TransfersIntact, ResponsesMatch, PTL

-----------------------------------------------------------------------------
(* Waiting.  The turn of a master comes nearer with every transfer that    *)
(* goes first: the number of transfers that have passed it and the steps   *)
(* the grant is away from it make N - 1 at most, or N while the transfer   *)
(* of the master that has the port is already among those counted.         *)

(* Steps of the rotation from master g to master m.                        *)
Dist(g, m) == IF m >= g THEN m - g ELSE (m + N) - g

(* The master that has port s has had its transfer: it is under way, being *)
(* answered by the register file, or over.                                 *)
Counted(s) ==
    \/ dev[s].st # "idle"
    \/ s = RfSlave /\ rf_ack /\ RfSel
    \/ mst[MastSel(s)].ph = "done"
    \/ ~s_cyc_o[MastSel(s)][s]

Turn(s, m) ==
    /\ passed[s][m] \in Nat
    /\ m = MastSel(s) => passed[s][m] <= N - 1
    /\ m # MastSel(s) => passed[s][m] + Dist(MastSel(s), m) <= N
    /\ m # MastSel(s) /\ ~Counted(s) => passed[s][m] + Dist(MastSel(s), m) <= N - 1
TurnInv == \A s \in Slaves, m \in Masters : Turn(s, m)

LEMMA DistType ==
    ASSUME NEW g \in Masters, NEW m \in Masters
    PROVE  /\ Dist(g, m) \in Nat /\ Dist(g, m) <= N - 1
           /\ m # g => Dist(g, m) >= 1
  BY ConmaxAssumption DEF Dist, Masters

(* The arbiter passes over no master that asks.                            *)
LEMMA ArbNearer ==
    ASSUME NEW g \in Masters, NEW req \in SUBSET Masters, g \notin req, NEW m \in req
    PROVE  /\ ArbNext(g, req) \in Masters
           /\ Dist(ArbNext(g, req), m) + 1 <= Dist(g, m)
<1> DEFINE later == {x \in req : x > g}
<1>1. later \in SUBSET Nat /\ req \in SUBSET Nat /\ req # {}
  BY ConstantTypes
<1>2. N \in Nat /\ g \in 0 .. N-1 /\ m \in 0 .. N-1 /\ m # g
  BY ConmaxAssumption DEF Masters
<1>3. CASE later # {}
  <2>1. PICK h \in later : ArbNext(g, req) = h /\ \A y \in later : h <= y
    BY <1>1, <1>3, MinInSet DEF ArbNext
  <2>2. h \in 0 .. N-1 /\ h > g /\ (m > g => h <= m)
    BY <2>1 DEF Masters
  <2>3. QED
    BY <1>2, <2>1, <2>2 DEF Dist, Masters
<1>4. CASE later = {}
  <2>1. PICK h \in req : ArbNext(g, req) = h /\ \A y \in req : h <= y
    BY <1>1, <1>4, MinInSet DEF ArbNext
  <2>2. h \in 0 .. N-1 /\ h <= m /\ ~(m > g)
    BY <1>4, <2>1 DEF Masters
  <2>3. QED
    BY <1>2, <2>1, <2>2 DEF Dist, Masters
<1>5. QED
  BY <1>3, <1>4

(* The port of a master without priorities, before and after an edge.      *)
LEMMA PlainPort ==
    ASSUME TypeOK, PriOutZero, PrioritiesOff, Clock, NEW s \in Slaves
    PROVE  /\ MastSel(s) = gnt[s][0] /\ gnt[s][0] \in Masters
           /\ MastSel(s)' = ArbNext(gnt[s][0], Req(s))
           /\ Req(s) \in SUBSET Masters
<1>1. PriSel[s] \in 0 .. 2 /\ pri_out[s] = 0 /\ 0 \in Levels
  BY ConmaxAssumption DEF PriOutZero, Levels
<1>2. MastSel(s) = gnt[s][0] /\ gnt[s][0] \in Masters
  BY <1>1 DEF MastSel, TypeOK
<1>3. ReqP(s, 0) = Req(s) /\ Req(s) \in SUBSET Masters
  BY DEF PrioritiesOff, ReqP, Req
<1>4. gnt'[s][0] = ArbNext(gnt[s][0], Req(s))
  BY <1>1, <1>3 DEF Clock
<1>5. pri_out'[s] = 0
  BY PriOutZeroStep DEF PriOutZero, Next
<1>6. MastSel(s)' = gnt'[s][0]
  BY <1>1, <1>5 DEF MastSel
<1>7. QED
  BY <1>2, <1>3, <1>4, <1>6

(* A transfer that is taken is counted, and stays so until the grant moves.*)
LEMMA CountedAfter ==
    ASSUME BlockMasters = {}, TypeOK, PriOutZero, PrioritiesOff, TransferIntact, Clock,
           NEW s \in Slaves, s_cyc_o[MastSel(s)][s], Taken(s) \/ Counted(s)
    PROVE  Counted(s)'
<1> DEFINE g == MastSel(s)
<1>1. g \in Masters /\ MastSel(s)' = g
  <2>1. g \in Req(s)
    BY MastSelType DEF Req
  <2>2. QED
    BY <2>1, PlainPort, ArbType
<1>2. dev'[s] = DevNext(s)
  BY DEF Clock
<1>3. ASSUME PortStb(s), PortAck(s)
      PROVE  Counted(s)'
  <2>1. mst[g].ph = "req" /\ MastAck(g)
    BY <1>3 DEF PortStb, Stb, MastAck
  <2>2. mst'[g].ph = "done"
    BY <1>1, <2>1 DEF Clock, MasterNext
  <2>3. QED
    BY <1>1, <2>2 DEF Counted
<1>4. CASE s \in Live /\ dev[s].st = "idle" /\ DevCyc(s) /\ PortStb(s)
  BY <1>2, <1>4 DEF DevNext, Counted
<1>5. CASE s = RfSlave /\ RfSel /\ ~rf_ack
  <2>1. PortCyc(s) /\ PortStb(s) /\ ~PortAck(s) /\ PortRq(s).rf
    BY <1>5 DEF RfSel, PortAck
  <2>2. PortCyc(s)' /\ PortStb(s)' /\ PortRq(s)' = PortRq(s)
    BY <2>1, PendingAccess
  <2>3. RfSel' /\ rf_ack'
    BY <1>5, <2>1, <2>2 DEF RfSel, Clock, RfClock
  <2>4. QED
    BY <1>5, <2>3 DEF Counted
<1>6. CASE dev[s].st # "idle"
  <2>1. PortStb(s) /\ DevCyc(s)
    BY <1>6 DEF TransferIntact
  <2>2. CASE dev[s].st = "ack"
    <3>1. PortAck(s)
      BY <2>1, <2>2 DEF PortAck, DevCyc
    <3>2. QED
      BY <1>3, <2>1, <3>1
  <2>3. CASE dev[s].st # "ack"
    BY <1>2, <1>6, <2>3 DEF DevNext, Counted
  <2>4. QED
    BY <2>2, <2>3
<1>7. CASE s = RfSlave /\ rf_ack /\ RfSel
  BY <1>3, <1>7 DEF RfSel, PortAck
<1>8. CASE mst[g].ph = "done"
  <2>1. ~SCycNext(g, s)
    BY <1>8 DEF SCycNext, Cyc
  <2>2. ~s_cyc_o'[g][s]
    BY <1>1, <2>1 DEF Clock
  <2>3. QED
    BY <1>1, <2>2 DEF Counted
<1>9. QED
  BY <1>4, <1>5, <1>6, <1>7, <1>8 DEF Taken, Counted

LEMMA TurnClock ==
    ASSUME BlockMasters = {}, TypeOK, PriOutZero, PrioritiesOff, TransferIntact, Clock,
           Count, NEW s \in Slaves, NEW m \in Masters, Turn(s, m)
    PROVE  Turn(s, m)'
<1> DEFINE g == MastSel(s)
           h == ArbNext(g, Req(s))
<1>1. /\ g \in Masters /\ MastSel(s)' = h /\ h \in Masters /\ Req(s) \in SUBSET Masters
      /\ N \in Nat \ {0}
  BY PlainPort, ArbType, ConmaxAssumption
<1>2. passed'[s][m] = IF ~s_cyc_o[m][s] \/ (g = m /\ Taken(s)) THEN 0
                      ELSE IF Taken(s) /\ passed[s][m] < N THEN passed[s][m] + 1
                      ELSE passed[s][m]
  BY DEF Count
<1>3. Taken(s) => s_cyc_o[g][s] /\ ~Counted(s)
  <2>1. Taken(s) => PortCyc(s) /\ PortStb(s)
    BY DEF Taken, DevCyc, RfSel
  <2>2. Taken(s) => dev[s].st = "idle" /\ ~(s = RfSlave /\ rf_ack /\ RfSel)
    BY DEF Taken, TransferIntact, DevCyc
  <2>3. QED
    BY <2>1, <2>2 DEF Counted, PortCyc, PortStb, Stb
<1>4. /\ passed[s][m] \in Nat
      /\ m = g => passed[s][m] <= N - 1
      /\ m # g => passed[s][m] + Dist(g, m) <= N
      /\ m # g /\ ~Counted(s) => passed[s][m] + Dist(g, m) <= N - 1
  BY DEF Turn
<1>5. Dist(g, m) \in Nat /\ (m # g => Dist(g, m) >= 1)
  BY <1>1, DistType
<1>6. Dist(h, m) \in Nat /\ Dist(h, m) <= N - 1
  BY <1>1, DistType
<1>7. SUFFICES /\ passed'[s][m] \in Nat
               /\ m = h => passed'[s][m] <= N - 1
               /\ m # h => passed'[s][m] + Dist(h, m) <= N
               /\ m # h /\ ~Counted(s)' => passed'[s][m] + Dist(h, m) <= N - 1
  BY <1>1 DEF Turn
<1> HIDE DEF g, h
<1>8. CASE passed'[s][m] = 0
  BY <1>1, <1>6, <1>8
<1>9. CASE passed'[s][m] # 0
  <2>1. s_cyc_o[m][s] /\ ~(g = m /\ Taken(s))
    BY <1>2, <1>9
  <2>2. m \in Req(s)
    BY <2>1 DEF Req
  <2>3. CASE g \notin Req(s)
    <3>1. ~Taken(s)
      BY <1>1, <1>3, <2>3 DEF Req
    <3>2. passed'[s][m] = passed[s][m] /\ m # g
      BY <1>2, <2>1, <2>2, <2>3, <3>1
    <3>3. Dist(h, m) + 1 <= Dist(g, m)
      BY <1>1, <2>2, <2>3, ArbNearer DEF h
    <3>4. passed[s][m] + Dist(h, m) <= N - 1
      BY <1>1, <1>4, <1>5, <1>6, <3>2, <3>3
    <3>5. QED
      BY <1>1, <1>4, <1>6, <3>2, <3>4
  <2>4. CASE g \in Req(s)
    <3>1. h = g /\ s_cyc_o[g][s]
      BY <1>1, <2>4, ArbType DEF h, Req
    <3>2. CASE m = g
      BY <1>2, <1>4, <2>1, <3>1, <3>2
    <3>3. CASE m # g /\ Taken(s)
      <4>1. Counted(s)'
        BY <3>1, <3>3, CountedAfter DEF g
      <4>2. passed[s][m] + Dist(g, m) <= N - 1
        BY <1>3, <1>4, <3>3
      <4>3. passed'[s][m] \in Nat /\ passed'[s][m] <= passed[s][m] + 1
        BY <1>2, <1>4
      <4>4. passed'[s][m] + Dist(g, m) <= N
        BY <1>1, <1>4, <1>5, <4>2, <4>3
      <4>5. QED
        BY <3>1, <3>3, <4>1, <4>3, <4>4
    <3>4. CASE m # g /\ ~Taken(s)
      <4>1. passed'[s][m] = passed[s][m]
        BY <1>2, <2>1, <3>4
      <4>2. Counted(s) => Counted(s)'
        BY <3>1, CountedAfter DEF g
      <4>3. QED
        BY <1>4, <3>1, <3>4, <4>1, <4>2
    <3>5. QED
      BY <3>2, <3>3, <3>4
  <2>5. QED
    BY <2>3, <2>4
<1>10. QED
  BY <1>8, <1>9


(* Between two edges nobody's turn changes.                                *)
LEMMA TurnBetween ==
    ASSUME TypeOK, TurnInv, UNCHANGED passed,
           \/ \E m \in Masters, r \in Requests : Raise(m, r)
           \/ \E s \in Live : Respond(s)
           \/ UNCHANGED vars
    PROVE  TurnInv'
<1> SUFFICES ASSUME NEW s \in Slaves, NEW m \in Masters
             PROVE  Turn(s, m)'
  BY DEF TurnInv
<1>1. /\ UNCHANGED matrix
      /\ \/ mst' = mst
         \/ \E x \in Masters : /\ mst[x].ph # "req"
                               /\ \E v : mst' = [mst EXCEPT ![x] = v]
  BY DEF Raise, Respond, vars
<1>2. MastSel(s)' = MastSel(s) /\ MastSel(s) \in Masters
  BY <1>1, PortsStable, MastSelType
<1>3. Counted(s) => Counted(s)'
  <2>1. CASE dev[s].st # "idle"
    <3>1. CASE dev' = dev
      BY <2>1, <3>1 DEF Counted
    <3>2. CASE \E d \in Live : Respond(d)
      BY <2>1, <3>2 DEF Respond, TypeOK, Counted
    <3>3. QED
      BY <3>1, <3>2 DEF Raise, vars
  <2>2. CASE s = RfSlave /\ rf_ack /\ RfSel
    <3>1. PortCyc(s)' /\ PortStb(s)' /\ PortRq(s)' = PortRq(s)
      BY <1>1, <2>2, AccessStable DEF RfSel
    <3>2. QED
      BY <1>1, <2>2, <3>1 DEF matrix, RfSel, Counted
  <2>3. CASE mst[MastSel(s)].ph = "done"
    <3>1. mst'[MastSel(s)] = mst[MastSel(s)]
      BY <1>2, <2>3 DEF Raise, Respond, vars, TypeOK
    <3>2. QED
      BY <1>2, <2>3, <3>1 DEF Counted
  <2>4. CASE ~s_cyc_o[MastSel(s)][s]
    BY <1>1, <1>2, <2>4 DEF matrix, Counted
  <2>5. QED
    BY <2>1, <2>2, <2>3, <2>4 DEF Counted
<1>4. QED
  BY <1>2, <1>3 DEF TurnInv, Turn

(* Nobody has been passed.                                                 *)
LEMMA NonePassedTurn == TypeOK /\ passed = NonePassed => TurnInv
<1> SUFFICES ASSUME TypeOK, passed = NonePassed, NEW s \in Slaves, NEW m \in Masters
             PROVE  Turn(s, m)
  BY DEF TurnInv
<1>1. passed[s][m] = 0
  BY DEF NonePassed
<1>2. Dist(MastSel(s), m) \in Nat /\ Dist(MastSel(s), m) <= N - 1
  BY MastSelType, DistType
<1>3. QED
  BY <1>1, <1>2, ConmaxAssumption DEF Turn

(* Round robin for any number of masters and slave ports: when all have    *)
(* the same level and give up cyc after each transfer, no master that      *)
(* waits at a port is passed by more transfers than there are others.      *)
THEOREM WaitsBounded ==
    ASSUME BlockMasters = {}
    PROVE  BypassSpec /\ []PrioritiesOff => []BoundedBypass
<1>1. BypassSpec => Spec
  <2>1. BypassInit => Init
    BY DEF BypassInit
  <2>2. [BypassNext]_fairvars => [Next]_vars
    BY DEF BypassNext, Next, fairvars
  <2>3. QED
    BY <2>1, <2>2, PTL DEF BypassSpec, Spec
<1>2. TypeOK /\ BypassInit => TurnInv
  BY NonePassedTurn DEF BypassInit
<1>3. /\ TypeOK /\ PriOutZero /\ PrioritiesOff /\ TransferIntact /\ TurnInv
      /\ [BypassNext]_fairvars
      => TurnInv'
  <2> SUFFICES ASSUME TypeOK, PriOutZero, PrioritiesOff, TransferIntact,
                      TurnInv, [BypassNext]_fairvars
               PROVE  TurnInv'
    OBVIOUS
  <2>1. CASE Clock /\ Count
    BY <2>1, TurnClock DEF TurnInv
  <2>2. CASE Reset /\ passed' = NonePassed
    <3> SUFFICES ASSUME NEW s \in Slaves, NEW m \in Masters
                 PROVE  Turn(s, m)'
      BY DEF TurnInv
    <3>1. passed'[s][m] = 0
      BY <2>2 DEF NonePassed
    <3>2. MastSel(s)' = 0 /\ 0 \in Masters
      <4>1. pri_out'[s] = 0 /\ gnt'[s][0] = 0 /\ PriSel[s] \in 0 .. 2
        BY <2>2, ConmaxAssumption DEF Reset, Levels
      <4>2. QED
        BY <4>1, ConmaxAssumption DEF MastSel, Masters
    <3>3. Dist(0, m) \in Nat /\ Dist(0, m) <= N - 1
      BY <3>2, DistType
    <3>4. QED
      BY <3>1, <3>2, <3>3, ConmaxAssumption DEF Turn
  <2>3. CASE /\ \/ \E m \in Masters, r \in Requests : Raise(m, r)
                \/ \E s \in Live : Respond(s)
             /\ UNCHANGED passed
    BY <2>3, TurnBetween
  <2>4. CASE UNCHANGED fairvars
    <3>1. UNCHANGED passed /\ UNCHANGED vars
      BY <2>4 DEF fairvars
    <3>2. QED
      BY <3>1, TurnBetween
  <2>5. QED
    BY <2>1, <2>2, <2>3, <2>4 DEF BypassNext
<1>4. TypeOK /\ TurnInv => BoundedBypass
  <2> SUFFICES ASSUME TypeOK, TurnInv, NEW s \in Slaves, NEW m \in Masters
               PROVE  passed[s][m] <= N - 1
    BY DEF BoundedBypass
  <2>1. Turn(s, m) /\ N \in Nat
    BY ConmaxAssumption DEF TurnInv
  <2>2. m # MastSel(s) => Dist(MastSel(s), m) \in Nat /\ Dist(MastSel(s), m) >= 1
    BY MastSelType, DistType
  <2>3. QED
    BY <2>1, <2>2 DEF Turn
<1>5. QED
  BY <1>1, <1>2, <1>3, <1>4, TypeCorrect, PriOutZeroAlways, TransfersIntact, PTL
     DEF BypassSpec
=============================================================================
