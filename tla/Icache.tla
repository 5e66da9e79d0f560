------------------------------- MODULE Icache -------------------------------
(***************************************************************************)
(* The instruction side of the OR1200: the fetch unit (or1200_genpc,       *)
(* or1200_if, or1200_freeze), the page check of or1200_immu_top, the       *)
(* instruction cache (or1200_ic_top, or1200_ic_fsm and its two RAMs) and   *)
(* the bus interface (or1200_wb_biu), against a slave that takes any time  *)
(* to answer.  One step is one clock cycle.                                *)
(*                                                                         *)
(* The build: OR1200_REGISTERED_OUTPUTS and OR1200_NO_BURSTS; retry, CAB   *)
(* and B3 signals off; 8 KB cache and 8 KB pages, so that the tag of an    *)
(* address is its page.  The IMMU is off, or maps pages to themselves and  *)
(* marks some as cache inhibited.  Every address holds a different word,   *)
(* so a word is named by the address it was read from.                     *)
(***************************************************************************)
EXTENDS Naturals

CONSTANTS
    Pages,       \* pages, also the tags of the cache
    Lines,       \* line indices of the cache
    LineWords,   \* words of a line (four in the source)
    Inhibited,   \* pages whose translation sets the cache-inhibit bit
    Faulty,      \* pages whose slave answers with an error
    Ops,         \* instructions of interest that reach the EX stage
    NoWord       \* contents of the data RAM at power up

ASSUME IcacheAssumption ==
    /\ LineWords \in Nat \ {0, 1}
    /\ Inhibited \subseteq Pages /\ Faulty \subseteq Pages
    /\ Ops \subseteq ({"none"} \X {0}) \cup ({"ice"} \X {0, 1}) \cup ({"icbir"} \X Lines)
    /\ <<"none", 0>> \in Ops

Words == 0 .. LineWords - 1
Addr == [page : Pages, line : Lines, w : Words]

VARIABLES
    ic_en,   \* SR[ICE]
    ex,      \* the instruction in EX: <<"icbir", l>> writes SPR_ICBIR, <<"ice", b>> SR
    adr,     \* icpu_adr_i: the address presented in the last cycle
    kill,    \* the fetch unit went elsewhere: the next answer is not an instruction
    saved,   \* an instruction waits in insn_saved
    fsm,     \* or1200_ic_fsm: st, hitmiss_eval, load, cnt, cache_inhibit, saved_addr_r
    tags,    \* the tag RAM: page and valid bit of each line
    tagrd,   \* its registered address
    ram,     \* the data RAM
    ramrd,   \* its registered address
    biu,     \* or1200_wb_biu: wb_stb_o (wb_cyc_o is equal to it), wb_adr_o, aborted_r
    rsp      \* what the addressed slave drives: wb_ack_i, wb_err_i or neither

vars == <<ic_en, ex, adr, kill, saved, fsm, tags, tagrd, ram, ramrd, biu, rsp>>
-----------------------------------------------------------------------------
(* Wires of the current cycle.                                             *)

(* The answer, unless it belongs to a transfer given up earlier.           *)
biu_ack == rsp = "ack" /\ ~biu.aborted_r
biu_err == rsp = "err" /\ ~biu.aborted_r

(* Variant: the valid bit is not looked at.                                *)
tagcomp_missVariant == tags[tagrd].page # fsm.sa.page
tagcomp_miss == tags[tagrd] # [page |-> fsm.sa.page, v |-> TRUE]

biu_read == (fsm.eval /\ tagcomp_miss) \/ (~fsm.eval /\ fsm.load)

first_hit_ack == fsm.st = "cfetch" /\ fsm.eval /\ ~tagcomp_miss /\ ~fsm.ci
first_miss_ack == fsm.st = "cfetch" /\ biu_ack

ic_ack == IF ic_en THEN first_hit_ack \/ first_miss_ack ELSE biu_ack
ic_err == IF ic_en THEN fsm.st = "cfetch" /\ biu_err ELSE biu_err
ic_rty == ~ic_ack /\ ~ic_err

(* The word on icqmem_dat_o.                                               *)
ic_dat == IF first_miss_ack \/ ~ic_en THEN biu.adr ELSE ram[ramrd.line][ramrd.w]

ic_inv == ex[1] = "icbir"
-----------------------------------------------------------------------------
(* The fetch unit.  It presents `a' in this cycle: the address it waits    *)
(* for, an address it is sent to by a taken branch or an exception (go),   *)
(* or, once answered, the next one; a word that finds an instruction       *)
(* already saved, or that was killed, is asked for again.                  *)
Presents(a, go) ==
    go \/ (IF ic_rty \/ kill \/ (saved /\ ic_ack) THEN a = adr ELSE TRUE)

(* The address is cut off (page_cross) in the cycle it enters a new page,  *)
(* and its page arrives a cycle late.                                      *)
cycstb(a, on) == on /\ a.page = adr.page
start_addr(a) == [a EXCEPT !.page = adr.page]
ic_ci == adr.page \in Inhibited

(* The pipeline moves on (mv) when nothing freezes it: the next            *)
(* instruction is there, or a load ends its stall.  A frozen pipeline      *)
(* keeps what is in EX, and an answer that finds it frozen is saved.       *)
FetchUnit(a, go, mv, op) ==
    /\ Presents(a, go)
    /\ adr' = a
    /\ kill' = (ic_rty /\ (go \/ kill))
    /\ saved' = (~go /\ ~mv /\ (saved \/ (~ic_rty /\ ~kill)))
    /\ op # ex => mv
    /\ ex' = op
    /\ ic_en' = IF ex[1] = "ice" THEN ex[2] = 1 ELSE ic_en
-----------------------------------------------------------------------------
(* or1200_ic_fsm.                                                          *)
Quiet(f) == [f EXCEPT !.st = "idle", !.eval = FALSE, !.load = FALSE, !.ci = FALSE]

Wrap(x) == [x EXCEPT !.w = (@ + 1) % LineWords]

IcIdle(cs, start) ==
    IF ic_en /\ cs
    THEN [fsm EXCEPT !.st = "cfetch", !.sa = start, !.eval = TRUE, !.load = TRUE,
                     !.ci = ic_ci]
    ELSE Quiet(fsm)

IcFetch(cs, start) ==
    LET f == [fsm EXCEPT !.ci = @ \/ (cs /\ ic_ci),
                         !.sa.page = IF fsm.eval THEN start.page ELSE @]
    IN IF ~ic_en \/ (fsm.eval /\ ~cs) \/ biu_err \/ (fsm.ci /\ biu_ack) THEN Quiet(f)
       ELSE IF tagcomp_miss /\ biu_ack
       THEN [f EXCEPT !.st = "lrefill3", !.sa = Wrap(@), !.eval = FALSE,
                      !.cnt = LineWords - 2, !.ci = FALSE]
       ELSE IF ~cs THEN Quiet(f)
       ELSE IF ~tagcomp_miss /\ ~ic_ci
       THEN [f EXCEPT !.sa = start, !.ci = FALSE]
       ELSE [f EXCEPT !.eval = FALSE]

IcRefill(start) ==
    LET done == [fsm EXCEPT !.st = "idle", !.sa = start, !.eval = FALSE, !.load = FALSE]
    IN IF ~ic_en THEN done
       ELSE IF biu_ack /\ fsm.cnt # 0
       THEN [fsm EXCEPT !.cnt = @ - 1, !.sa = Wrap(@)]
       ELSE IF biu_ack THEN done
       ELSE fsm

(* The two RAMs: single port, the output shows the word at the registered  *)
(* address as it is after a write.                                         *)
ic_addr(start) == IF biu_read THEN fsm.sa ELSE start
(* Variant: words of cache-inhibited pages are kept.                       *)
ic_weVariant == biu_read /\ biu_ack
ic_we == biu_read /\ biu_ack /\ ~fsm.ci

Rams(start) ==
    LET x == ic_addr(start)
        t == IF ic_inv THEN ex[2] ELSE x.line
    IN /\ ram' = IF ic_en /\ ic_we THEN [ram EXCEPT ![x.line][x.w] = biu.adr] ELSE ram
       /\ ramrd' = IF ic_en THEN [line |-> x.line, w |-> x.w] ELSE ramrd
       /\ tags' = IF ic_inv \/ (ic_en /\ ic_we)
                  THEN [tags EXCEPT ![t] = [page |-> x.page, v |-> ~ic_inv]]
                  ELSE tags
       /\ tagrd' = IF ic_inv \/ ic_en THEN t ELSE tagrd
-----------------------------------------------------------------------------
(* or1200_wb_biu.  `cyc' is biu_cyc_i and biu_stb_i, `x' biu_adr_i.        *)
aborted(cyc) == biu.stb /\ ~cyc /\ rsp = "none"

(* Variant: the address follows the core while a transfer is open.         *)
LoadsAddressVariant(cyc) == cyc /\ rsp # "ack" /\ ~aborted(cyc)
LoadsAddress(cyc) == cyc /\ rsp # "ack" /\ ~aborted(cyc) /\ ~(biu.stb /\ rsp # "ack")

(* Variant: aborted_r outlives the answer it waited for.                   *)
WbBiuVariant(cyc, x) ==
    biu' = [stb |-> (cyc /\ rsp # "ack") \/ aborted(cyc),
            adr |-> IF LoadsAddress(cyc) THEN x ELSE biu.adr,
            aborted_r |-> biu.aborted_r \/ aborted(cyc)]

WbBiu(cyc, x) ==
    biu' = [stb |-> (cyc /\ rsp # "ack") \/ aborted(cyc),
            adr |-> IF LoadsAddress(cyc) THEN x ELSE biu.adr,
            aborted_r |-> rsp = "none" /\ (biu.aborted_r \/ aborted(cyc))]

(* External: the slave reached through the interconnect.  It answers when  *)
(* it likes a strobe that is still there, once.                            *)
Answers(x) == {"none", IF x.page \in Faulty THEN "err" ELSE "ack"}

Slave ==
    rsp' \in IF biu'.stb THEN Answers(biu'.adr) ELSE {"none"}
-----------------------------------------------------------------------------
Init ==
    /\ ic_en \in BOOLEAN
    /\ ex = <<"none", 0>>
    /\ adr \in Addr
    /\ kill = FALSE /\ saved = FALSE
    /\ fsm = [st |-> "idle", eval |-> FALSE, load |-> FALSE, cnt |-> 0, ci |-> FALSE,
              sa |-> adr]
    /\ tags = [l \in Lines |-> [page |-> adr.page, v |-> FALSE]]
    /\ tagrd = adr.line
    /\ ram = [l \in Lines |-> [w \in Words |-> NoWord]]
    /\ ramrd = [line |-> adr.line, w |-> adr.w]
    /\ biu = [stb |-> FALSE, adr |-> adr, aborted_r |-> FALSE]
    /\ rsp = "none"

Clock(a, on, go, mv, op, f) ==
    LET cs == cycstb(a, on)
        start == start_addr(a)
    IN /\ FetchUnit(a, go, mv, op)
       /\ fsm' = f
       /\ Rams(start)
       /\ WbBiu(IF ic_en THEN biu_read ELSE cs, ic_addr(start))
       /\ Slave

StepIdle(a, on, go, mv, op) ==
    /\ fsm.st = "idle"
    /\ Clock(a, on, go, mv, op, IcIdle(cycstb(a, on), start_addr(a)))

StepFetch(a, on, go, mv, op) ==
    /\ fsm.st = "cfetch"
    /\ Clock(a, on, go, mv, op, IcFetch(cycstb(a, on), start_addr(a)))

StepRefill(a, on, go, mv, op) ==
    /\ fsm.st = "lrefill3"
    /\ Clock(a, on, go, mv, op, IcRefill(start_addr(a)))

Next ==
    \E a \in Addr, on, go, mv \in BOOLEAN, op \in Ops :
        StepIdle(a, on, go, mv, op) \/ StepFetch(a, on, go, mv, op)
        \/ StepRefill(a, on, go, mv, op)

Spec == Init /\ [][Next]_vars

(* The discipline of the boot code (_ic_enable): lines are invalidated     *)
(* while the cache is off, which it is after reset, then it is switched on *)
(* and stays on.                                                           *)
BootInit == Init /\ ic_en = FALSE
BootNext == Next /\ (ex'[1] = "icbir" => ~ic_en') /\ ex' # <<"ice", 0>>
BootSpec == BootInit /\ [][BootNext]_vars
-----------------------------------------------------------------------------
TypeOK ==
    /\ ic_en \in BOOLEAN /\ kill \in BOOLEAN /\ saved \in BOOLEAN
    /\ ex \in Ops
    /\ adr \in Addr
    /\ fsm \in [st : {"idle", "cfetch", "lrefill3"}, eval : BOOLEAN, load : BOOLEAN,
                cnt : Words, ci : BOOLEAN, sa : Addr]
    /\ tags \in [Lines -> [page : Pages, v : BOOLEAN]]
    /\ tagrd \in Lines
    /\ ram \in [Lines -> [Words -> Addr \cup {NoWord}]]
    /\ ramrd \in [line : Lines, w : Words]
    /\ biu \in [stb : BOOLEAN, adr : Addr, aborted_r : BOOLEAN]
    /\ rsp \in {"none", "ack", "err"}

(* Every instruction the pipeline takes is the word at its address,        *)
(* whatever was fetched, given up, refilled or invalidated before: the     *)
(* answer to an abandoned fetch is never taken for a later one.            *)
FetchCorrect == ic_ack /\ ~kill /\ ~saved => ic_dat = adr

(* A bus error is reported only for a fetch from a page that answers with  *)
(* errors.                                                                 *)
ErrorCorrect == ic_err /\ ~kill /\ ~saved => adr.page \in Faulty

(* A line marked valid holds the words of its page, unless it is just      *)
(* being refilled: the valid bit is set with the first word of a refill,   *)
(* so nothing may end a refill before its last word.                       *)
LineFaithful ==
    \A l \in Lines :
        tags[l].v /\ ~(fsm.st = "lrefill3" /\ fsm.sa.line = l) =>
            \A w \in Words : ram[l][w] = [page |-> tags[l].page, line |-> l, w |-> w]

(* What the interconnect relies on: a transfer is held, with its address,  *)
(* until it is answered, also when the core has long gone elsewhere.       *)
TransferHeld ==
    [][biu.stb /\ rsp = "none" => biu'.stb /\ biu'.adr = biu.adr]_vars

(* Once the fetch unit stays with an address, and the slave answers every  *)
(* strobe in the end, its fetch is answered.                               *)
Steady == \E op \in Ops, mv \in BOOLEAN :
             StepIdle(adr, TRUE, FALSE, mv, op) \/ StepFetch(adr, TRUE, FALSE, mv, op)
             \/ StepRefill(adr, TRUE, FALSE, mv, op)
SlaveAnswers == []<>(~biu.stb \/ rsp # "none")
FetchServed == SlaveAnswers /\ <>[][Steady]_vars => []<>~ic_rty

LiveSpec == BootSpec /\ WF_vars(BootNext)
=============================================================================
