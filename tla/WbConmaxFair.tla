--------------------------- MODULE WbConmaxFair -----------------------------
(***************************************************************************)
(* WbConmax with a history variable that counts, for every master waiting  *)
(* at a slave port, the transfers of other masters that went first.        *)
(***************************************************************************)
EXTENDS WbConmax

VARIABLE passed

fairvars == <<vars, passed>>

NonePassed == [s \in Slaves |-> [m \in Masters |-> 0]]

(* A transfer is taken at this edge, by the device or the register file.   *)
Taken(s) ==
    \/ s \in Live /\ dev[s].st = "idle" /\ DevCyc(s) /\ PortStb(s)
    \/ s = RfSlave /\ RfSel /\ ~rf_ack

(* Overtakings are counted up to N, one beyond the bound.                  *)
Count ==
    passed' = [s \in Slaves |-> [m \in Masters |->
                 IF ~s_cyc_o[m][s] \/ (MastSel(s) = m /\ Taken(s)) THEN 0
                 ELSE IF Taken(s) /\ passed[s][m] < N THEN passed[s][m] + 1
                 ELSE passed[s][m]]]

BypassInit == Init /\ passed = NonePassed

BypassNext ==
    \/ Clock /\ Count
    \/ Reset /\ passed' = NonePassed
    \/ /\ \/ \E m \in Masters, r \in Requests : Raise(m, r)
          \/ \E s \in Live : Respond(s)
       /\ UNCHANGED passed

BypassSpec == BypassInit /\ [][BypassNext]_fairvars

(* As in WbConmax: the clock keeps running and devices respond.            *)
BypassFairSpec ==
    /\ BypassSpec
    /\ WF_fairvars(Clock /\ Count)
    /\ \A s \in Live : WF_fairvars(Respond(s) /\ UNCHANGED passed)

(* Round robin: no master that waits at a slave port is passed by more     *)
(* transfers than there are other masters (wb_conmax_arb's order, with     *)
(* masters that drop cyc after a transfer).                                *)
BoundedBypass ==
    \A s \in Slaves, m \in Masters : passed[s][m] <= N - 1
=============================================================================
