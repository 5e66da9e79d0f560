------------------------------- MODULE Memory -------------------------------
(***************************************************************************)
(* What a memory behind a WISHBONE port promises: a request stays until it *)
(* is answered once; a read returns what was last written to each lane of  *)
(* the word, a write changes the selected lanes of the word and nothing    *)
(* else.  A cell the memory has not settled on yet (Undef) may read as     *)
(* anything; it may settle when a request is answered, for good.  A reset  *)
(* withdraws the request and may unsettle cells, but changes none.         *)
(***************************************************************************)
CONSTANTS
    Word,      \* word addresses
    Lanes,     \* the parts of a word that are selected separately
    Val,       \* contents of a lane
    Undef,     \* contents of a cell never written and not settled
    Requests   \* the requests the bus may make

(* A request: [adr : Word, we : BOOLEAN, sel : SUBSET Lanes,               *)
(* dat : [Lanes -> Val]].  Undef is not in Val.                            *)

VARIABLES up, bus, rsp, mem   \* up: the reset

memvars == <<up, bus, rsp, mem>>

MemInit ==
    /\ up = FALSE
    /\ bus \in [ph : {"idle"}, rq : Requests]
    /\ rsp \in [Lanes -> Val]
    /\ mem \in [Word -> [Lanes -> Val \cup {Undef}]]

(* The bus asks, the memory answers, the bus withdraws.                    *)
Ask ==
    /\ bus.ph = "idle"
    /\ \E r \in Requests : bus' = [ph |-> "req", rq |-> r]
    /\ UNCHANGED <<rsp, mem>>

(* No cell loses its contents, but for those in `written'.                 *)
Keeps(written) ==
    /\ mem' \in [Word -> [Lanes -> Val \cup {Undef}]]
    /\ \A a \in Word, l \in Lanes :
         mem[a][l] # Undef /\ <<a, l>> \notin written => mem'[a][l] = mem[a][l]

AnswerRead ==
    /\ bus.ph = "req" /\ ~bus.rq.we
    /\ bus' = [ph |-> "done", rq |-> bus.rq]
    /\ rsp' \in [Lanes -> Val]
    /\ \A l \in Lanes : mem[bus.rq.adr][l] # Undef => rsp'[l] = mem[bus.rq.adr][l]
    /\ Keeps({})

AnswerWrite ==
    /\ bus.ph = "req" /\ bus.rq.we
    /\ bus' = [ph |-> "done", rq |-> bus.rq]
    /\ Keeps({bus.rq.adr} \X bus.rq.sel)
    /\ \A l \in bus.rq.sel : mem'[bus.rq.adr][l] = bus.rq.dat[l]
    /\ UNCHANGED rsp

Withdraw ==
    /\ bus.ph = "done"
    /\ bus' = [ph |-> "idle", rq |-> bus.rq]
    /\ UNCHANGED <<rsp, mem>>

Works == ~up /\ ~up' /\ (Ask \/ AnswerRead \/ AnswerWrite \/ Withdraw)

(* What may happen as long as the reset is up.                             *)
Reset ==
    /\ up'
    /\ bus' \in [ph : {"idle"}, rq : Requests]
    /\ \A a \in Word, l \in Lanes :
         mem[a][l] # Undef => mem'[a][l] \in {mem[a][l], Undef}
    /\ UNCHANGED rsp

Release == up /\ ~up' /\ UNCHANGED <<bus, rsp, mem>>

MemNext == Works \/ Reset \/ Release

MemSpec == MemInit /\ [][MemNext]_memvars
=============================================================================
