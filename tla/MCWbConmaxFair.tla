-------------------------- MODULE MCWbConmaxFair ----------------------------
(* Three masters; nothing answers on slave 0; slave 15 has the register    *)
(* file in front of a device and pri_sel = 2, as wb_conmax_top is built.   *)
(* Only the register of slave 0 is written, which has no levels, so that   *)
(* everybody has the same priority.                                        *)
EXTENDS WbConmaxFair, TLC

MCSlaves == {0, 15}
MCPriSel == 0 :> 0 @@ 15 :> 2

Access(s) == [slv |-> s, rf |-> FALSE, idx |-> 0, we |-> FALSE, dat |-> ZeroConf]
RfRead == [Access(15) EXCEPT !.rf = TRUE]
RfWrite(c) == [RfRead EXCEPT !.we = TRUE, !.dat = c]
TopLast == [m \in Masters |-> IF m = N-1 THEN 3 ELSE 0]
MCRequests == {Access(0), Access(15), RfRead, RfWrite(TopLast)}
=============================================================================
