------------------------------ MODULE UartSend ------------------------------
(***************************************************************************)
(* The two drivers that send through the UART, of which one owns the port: *)
(* the polled one of the board programs (uart.c), uart_putc for one        *)
(* character after the other with uart_init in between; and the interrupt  *)
(* driven one of Linux (8250.c), whose buffer is filled by the system and  *)
(* emptied in bursts of tx_loadsz characters when the THRE interrupt       *)
(* comes.                                                                  *)
(*                                                                         *)
(* The registers uart_init sets that the transmitter's control does not    *)
(* depend on (line format, divisor, interrupts off) are left out.  Linux's *)
(* characters are numbered in the order they are put into the buffer.      *)
(***************************************************************************)
EXTENDS UartTx

CONSTANTS
    Newline, Return,    \* '\n' and '\r'
    PutChars,           \* arguments of uart_putc
    Size,               \* of the port's buffer (UART_XMIT_SIZE)
    InTime              \* a burst is over before block_cnt is

ASSUME SendAssumption ==
    /\ Newline \in PutChars /\ PutChars \subseteq Char /\ Return \in Char
    /\ Size \in Nat \ {0} /\ InTime \in BOOLEAN /\ 0 \in Char

VARIABLES
    pc,        \* uart.c: call (between calls), thre1, write1, thre2, write2, xmitr,
               \* init; 8250.c: run, or the register access the driver is at
    c,         \* the argument of uart_putc
    xmit,      \* characters in the buffer of the port
    next,      \* the first of them
    burst,     \* count of transmit_chars
    thri       \* UART_IER_THRI in up->ier

linux == <<xmit, next, burst, thri>>
vars == <<wbVars, txVars, pc, c, linux>>

PutcPcs == {"call", "thre1", "write1", "thre2", "write2", "xmitr", "init"}
LinuxPcs == {"run", "start", "iir", "lsr", "msr", "tx", "stop"}

After(ch) == IF ch + 1 \in Char THEN ch + 1 ELSE 0

(* The access made at each point.                                          *)
Access ==
    CASE pc \in {"thre1", "thre2", "xmitr"} -> Read("lsr")
      [] pc = "write1" -> Write("tx", c)
      [] pc = "write2" -> Write("tx", Return)
      [] pc = "init" -> Write("fcr", 0)
      [] pc = "start" -> Write("ier", 1)
      [] pc = "stop" -> Write("ier", 0)
      [] pc = "tx" -> Write("tx", next)
      [] pc \in {"iir", "lsr", "msr"} -> Read(pc)
-----------------------------------------------------------------------------
(* uart_putc, uart_init: what follows an access.                           *)
(* Variant: only the holding register is waited for at the end.            *)
PutcVariant ==
    /\ pc' = CASE pc = "thre1" -> IF dat_o.thre THEN "write1" ELSE "thre1"
               [] pc = "write1" -> IF c = Newline THEN "thre2" ELSE "xmitr"
               [] pc = "thre2" -> IF dat_o.thre THEN "write2" ELSE "thre2"
               [] pc = "write2" -> "xmitr"
               [] pc = "xmitr" -> IF dat_o.thre THEN "call" ELSE "xmitr"
               [] pc = "init" -> "call"
    /\ UNCHANGED linux
Putc ==
    /\ pc' = CASE pc = "thre1" -> IF dat_o.thre THEN "write1" ELSE "thre1"
               [] pc = "write1" -> IF c = Newline THEN "thre2" ELSE "xmitr"
               [] pc = "thre2" -> IF dat_o.thre THEN "write2" ELSE "thre2"
               [] pc = "write2" -> "xmitr"
               [] pc = "xmitr" -> IF dat_o.thre /\ dat_o.temt THEN "call" ELSE "xmitr"
               [] pc = "init" -> "call"
    /\ UNCHANGED linux

(* The program calls uart_putc or uart_init, or does something else.       *)
Program ==
    /\ rq' = NoRq
    /\ \/ pc' \in {"call", "init"} /\ c' = c
       \/ pc' = "thre1" /\ c' \in PutChars
    /\ UNCHANGED linux
-----------------------------------------------------------------------------
(* serial8250_interrupt, serial8250_handle_port: the registers read.       *)
Handler ==
    /\ pc' = CASE pc = "iir" -> IF dat_o.iir = "none" THEN "run" ELSE "lsr"
               [] pc = "lsr" -> "msr"
               [] pc = "msr" -> IF ~dat_o.thre THEN "iir"
                                ELSE IF xmit > 0 THEN "tx"
                                ELSE IF thri THEN "stop" ELSE "iir"
               [] pc = "start" -> "run"
               [] pc = "stop" -> "iir"
    /\ burst' = Depth
    /\ thri' = IF pc = "start" THEN TRUE ELSE IF pc = "stop" THEN FALSE ELSE thri
    /\ UNCHANGED <<xmit, next>>

(* transmit_chars: one character.                                          *)
Transmit ==
    /\ xmit' = xmit - 1 /\ next' = After(next) /\ burst' = burst - 1
    /\ pc' = IF xmit = 1 THEN IF thri THEN "stop" ELSE "iir"
             ELSE IF burst > 1 THEN "tx" ELSE "iir"
    /\ UNCHANGED thri

(* The system: more characters (serial8250_start_tx follows), or the       *)
(* interrupt is taken.                                                     *)
System ==
    /\ rq' = NoRq
    /\ \/ UNCHANGED <<pc, xmit>>
       \/ xmit < Size /\ xmit' = xmit + 1 /\ pc' = IF thri THEN "run" ELSE "start"
       \/ int_o /\ pc' = "iir" /\ UNCHANGED xmit
    /\ UNCHANGED <<c, next, burst, thri>>
-----------------------------------------------------------------------------
(* An access stays on the bus until it is acknowledged; then the bus is    *)
(* free for at least a cycle (wb_stb_o of the core's bus interface).       *)
Acknowledged ==
    /\ rq' = NoRq /\ c' = c
    /\ \/ pc \in PutcPcs /\ Putc
       \/ pc = "tx" /\ Transmit
       \/ pc \in LinuxPcs \ {"tx"} /\ Handler

Driver ==
    \/ Active(rq) /\ ~ack /\ UNCHANGED <<rq, pc, c, linux>>
    \/ Active(rq) /\ ack /\ Acknowledged
    \/ ~Active(rq) /\ pc = "call" /\ Program
    \/ ~Active(rq) /\ pc = "run" /\ System
    \/ ~Active(rq) /\ pc \notin {"call", "run"}
       /\ rq' \in {NoRq, Access} /\ UNCHANGED <<pc, c, linux>>

Init ==
    /\ TxInit /\ pc \in {"call", "run"} /\ c = Newline
    /\ xmit = 0 /\ next = 0 /\ burst = Depth /\ thri = FALSE

Clock(enable) ==
    /\ Driver /\ WbEdge /\ TxEdge(enable)
    /\ InTime /\ pc = "tx" => (block => block')

Next == \E enable \in BOOLEAN : Clock(enable)

Spec == Init /\ [][Next]_vars

(* The clock and the baud clock run, a character and block_cnt take a      *)
(* bounded time, the software goes on, and an interrupt is taken in the    *)
(* end.                                                                    *)
FairSpec ==
    /\ Spec /\ WF_vars(Next)
    /\ []<>(tstate # "send") /\ []<>(tstate # "pop") /\ []<>~block
    /\ []<>(tstate # "idle" \/ tf.count = 0)
    /\ []<>(Active(rq) \/ pc \in {"call", "run"})
    /\ []<>(pc = "iir" \/ ~int_o)
-----------------------------------------------------------------------------
TypeOK ==
    /\ TxTypeOK
    /\ pc \in PutcPcs \cup LinuxPcs /\ c \in PutChars
    /\ xmit \in 0 .. Size /\ next \in Char /\ burst \in 0 .. Depth /\ thri \in BOOLEAN

(* uart_putc returns only when its characters have left the UART, so that  *)
(* uart_init, which clears the FIFO, may follow.                           *)
PutcComplete == pc \in {"call", "init"} => owed = <<>> /\ tf.count = 0 /\ tstate = "idle"

(* uart_putc returns.                                                      *)
PutcReturns == (pc = "thre1") ~> (pc = "call")

(* The interrupt that keeps the transmitter going is never lost: what is   *)
(* in the buffer is written to the UART.                                   *)
BufferDrained == [](xmit > 0 => <>(pc = "tx"))
=============================================================================
