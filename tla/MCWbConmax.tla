---------------------------- MODULE MCWbConmax ------------------------------
(* Priorities in use: three masters; slave 0 is populated, 5 is not, 15    *)
(* has the register file in front of a populated device; one port of each  *)
(* kind of pri_sel.                                                        *)
EXTENDS WbConmax, TLC

MCSlaves == {0, 5, 15}
MCLive == {0, 15}
MixedLevels == 0 :> 2 @@ 5 :> 0 @@ 15 :> 1

(* Priorities rewritten while transfers to the same port are under way.    *)
Access == [slv |-> 0, rf |-> FALSE, idx |-> 0, we |-> FALSE, dat |-> ZeroConf]
Rewrite(c) == [slv |-> 15, rf |-> TRUE, idx |-> 0, we |-> TRUE, dat |-> c]
Ladder == [m \in Masters |-> m]
TopLast == [m \in Masters |-> IF m = N-1 THEN 3 ELSE 0]
PrioRequests == {Access, Rewrite(Ladder), Rewrite(TopLast)}
=============================================================================
