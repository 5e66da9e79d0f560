------------------------------- MODULE MCYadmc ------------------------------
(* Small instances of Yadmc: lines of two words, two tags, four cache      *)
(* lines over two banks and two columns, so that tag and row coincide.     *)
(* Every cell of the chip starts with a content of its own.                *)
EXTENDS Yadmc

MCVal == 0 .. 202
MCDramInit ==
    [p \in Bank \X Row \X Col |->
       [b \in Beats |-> 1 + b + 4*(p[3] + Cols*(p[2] + 4*p[1]))]]
MCTiming == [rp |-> 2, rcd |-> 2, rfc |-> 3, wr |-> 2]
MCWait == [init |-> 1, pall |-> 1, pre |-> 1, aref |-> 2, act |-> 1, refresh |-> 6]

At(t, i, w) == [tag |-> t, idx |-> i, w |-> w]
Read(a) == [adr |-> a, we |-> FALSE, sel |-> {}, dat |-> [l \in Lanes |-> Zero]]
Write(a, s, v) ==
    [adr |-> a, we |-> TRUE, sel |-> s,
     dat |-> [l \in Lanes |-> IF l = "hi" THEN v ELSE v + 1]]

(* Two lines that compete for cache line 0, both written, each read in the *)
(* other word too; a line of another bank and column.                      *)
LineZero == {Read(At(1, 0, 1)), Read(At(0, 0, 0)),
             Write(At(0, 0, 1), {"hi", "lo"}, 200), Write(At(1, 0, 0), {"lo"}, 201)}
MCRest == Read(At(0, 0, 0))
MCRequests == LineZero \cup {Read(At(1, 3, 0))}

(* For resets: a line that competes for cache line 0 with the address of   *)
(* the idle bus, another line, and an initialization that outlasts a burst.*)
ResetRequests == {Write(At(1, 0, 1), {"hi", "lo"}, 200), Read(At(1, 1, 1)), MCRest}
ResetWait == [MCWait EXCEPT !.init = 8]
=============================================================================
