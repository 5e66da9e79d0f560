------------------------------- MODULE UartWb -------------------------------
(***************************************************************************)
(* The WISHBONE side of the UART (uart_wb): a request is sampled, makes    *)
(* the write or read enable of the registers high for one cycle, and is    *)
(* acknowledged.  One step is one edge of the clock.                       *)
(***************************************************************************)
EXTENDS Naturals

VARIABLES
    rq,        \* wb_cyc_i, wb_stb_i, wb_we_i, wb_adr_i, wb_dat_i
    is,        \* the sampled request
    wbstate,
    wre,
    ack,       \* wb_ack_o
    pulses     \* history: register enables made for the request, up to 2

wbVars == <<rq, is, wbstate, wre, ack, pulses>>

Regs == {"none", "tx", "rx", "ier", "iir", "fcr", "lsr", "msr"}
Rq(we, reg, dat) == [we |-> we, reg |-> reg, dat |-> dat]
NoRq == Rq(FALSE, "none", 0)
Read(reg) == Rq(FALSE, reg, 0)
Write(reg, dat) == Rq(TRUE, reg, dat)

Active(r) == r.reg # "none"

we_o(reg) == is.we /\ is.reg = reg /\ wre
re_o(reg) == ~is.we /\ is.reg = reg /\ wre

WbInit ==
    /\ rq = NoRq /\ is = NoRq
    /\ wbstate = 0 /\ wre = TRUE /\ ack = FALSE /\ pulses = 0

(* Variant: the enable comes back before the request has gone.             *)
WbEdgeVariant ==
    /\ is' = rq
    /\ \/ wbstate = 0 /\ Active(is) /\ wbstate' = 1 /\ ack' = TRUE /\ wre' = FALSE
       \/ wbstate = 0 /\ ~Active(is) /\ wbstate' = 0 /\ ack' = FALSE /\ wre' = TRUE
       \/ wbstate = 1 /\ wbstate' = 2 /\ ack' = FALSE /\ wre' = TRUE
       \/ wbstate = 2 /\ wbstate' = 0 /\ ack' = FALSE /\ wre' = FALSE
    /\ pulses' = IF ~Active(rq) /\ Active(rq') THEN 0
                 ELSE IF Active(is) /\ wre /\ pulses < 2 THEN pulses + 1 ELSE pulses

WbEdge ==
    /\ is' = rq
    /\ \/ wbstate = 0 /\ Active(is) /\ wbstate' = 1 /\ ack' = TRUE /\ wre' = FALSE
       \/ wbstate = 0 /\ ~Active(is) /\ wbstate' = 0 /\ ack' = FALSE /\ wre' = TRUE
       \/ wbstate = 1 /\ wbstate' = 2 /\ ack' = FALSE /\ wre' = FALSE
       \/ wbstate = 2 /\ wbstate' = 0 /\ ack' = FALSE /\ wre' = FALSE
    /\ pulses' = IF ~Active(rq) /\ Active(rq') THEN 0
                 ELSE IF Active(is) /\ wre /\ pulses < 2 THEN pulses + 1 ELSE pulses

WbTypeOK ==
    /\ rq \in [we : BOOLEAN, reg : Regs, dat : Nat]
    /\ is \in [we : BOOLEAN, reg : Regs, dat : Nat]
    /\ wbstate \in 0 .. 2 /\ wre \in BOOLEAN /\ ack \in BOOLEAN /\ pulses \in 0 .. 2

(* Registers with side effects are touched exactly once for each access    *)
(* the bus sees acknowledged: wre is down while the sampled request still  *)
(* stands, and up again when the next one may have arrived.                *)
AccessOnce == pulses <= 1 /\ (ack => pulses = 1)

(* Where an access can be: on the bus and not yet sampled, sampled with    *)
(* the enable up, answered, withdrawn; or there is none.                   *)
Sampling == wbstate = 0 /\ ~ack /\ ~Active(is) /\ (Active(rq) => pulses = 0)
Enabled == wbstate = 0 /\ ~ack /\ Active(rq) /\ is = rq /\ wre /\ pulses = 0
Answered == wbstate = 1 /\ ack /\ Active(rq) /\ is = rq /\ ~wre /\ pulses = 1
Withdrawn == wbstate = 2 /\ ~ack /\ ~Active(rq) /\ ~wre /\ pulses = 1
WbPhase == pulses <= 1 /\ (Sampling \/ Enabled \/ Answered \/ Withdrawn)
=============================================================================
