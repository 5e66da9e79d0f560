----------------------------- MODULE MCWbFlash -----------------------------
(* Instances of WbFlash: reads of every width, writes of words and halves. *)
EXTENDS WbFlash, TLC

AllRequests ==
    [adr : Word, we : {FALSE}, sel : Sels]
    \cup [adr : Word, we : {TRUE}, sel : Sels \ {"other"}]

SymWords == Permutations(Word)
=============================================================================
