------------------------------- MODULE UartRx -------------------------------
(***************************************************************************)
(* The receiving half of the UART: receive FIFO, the line status register, *)
(* the receive interrupts; and the two drivers that read it, receive_chars *)
(* of Linux under interrupts and uart_getc of the board programs.          *)
(*                                                                         *)
(* A character arrives complete: its bits are not modelled.  The parity,   *)
(* framing and break flags of a character are one flag `err', bits 2 to 4  *)
(* of the line status register one bit (lsr3).                             *)
(***************************************************************************)
EXTENDS UartWb, Sequences

CONSTANTS
    Depth,         \* fifo_depth, a power of two
    Trigger,       \* trigger_level
    Chars,         \* received characters are numbered modulo this
    MinGap,        \* cycles between two characters, at least
    MayErr,        \* the values of err a character may have
    MayOverrun     \* characters may arrive when the FIFO is full

ASSUME RxAssumption ==
    /\ Depth \in Nat \ {0} /\ Trigger \in 1 .. Depth /\ Chars \in Nat \ {0}
    /\ MinGap \in Nat \ {0} /\ MayErr \subseteq BOOLEAN
    /\ MayOverrun \in BOOLEAN

VARIABLES
    linux,         \* who owns the port: Linux with interrupts, or uart_getc without
    rf,            \* receive FIFO: ram, fifo (the flags), top, bottom, count
    overrun,
    rf_pop,
    t0,            \* counter_t = 0
    lsr,           \* lsr0r, lsr1r, lsr3r as dr, oe, fe
    lsr_d,         \* lsr0_d, lsr1_d, lsr3_d
    int_d,         \* rls_int_d, rda_int_d, ti_int_d
    pnd,           \* rls_int_pnd, rda_int_pnd, ti_int_pnd
    int_o,
    iir,
    dat_o,         \* wb_dat_o as the driver sees it
    pc,            \* run, or the register access the driver is at
    gap,           \* cycles until the next character may arrive
    next,          \* its number
    queue,         \* history: characters taken by the FIFO and not yet read
    got            \* history: the character the last read was to return

rxVars == <<rf, overrun, rf_pop, t0, lsr, lsr_d, int_d, pnd, int_o, iir, dat_o>>
vars == <<wbVars, rxVars, linux, pc, gap, next, queue, got>>

Slots == 0 .. Depth - 1
Wrap(p) == (p + 1) % Depth
fifo_read == re_o("rx")
lsr_mask == re_o("lsr")
NoInts == [rls |-> FALSE, rda |-> FALSE, ti |-> FALSE]

ints ==
    [rls |-> linux /\ (lsr.oe \/ lsr.fe),
     rda |-> linux /\ rf.count >= Trigger,
     ti  |-> linux /\ t0 /\ rf.count > 0]
-----------------------------------------------------------------------------
(* uart_rfifo.  The RAM is written on every push, full or not; the flags   *)
(* of a slot are cleared when it is popped, unless there is a push too.    *)
RFifo(push, ch) ==
    LET in  == push /\ (rf_pop \/ rf.count < Depth)
        out == rf_pop /\ (push \/ rf.count > 0)
        ram == IF push THEN [rf.ram EXCEPT ![rf.top] = ch.dat] ELSE rf.ram
    IN /\ rf' = [ram    |-> ram,
                 fifo   |-> IF in THEN [rf.fifo EXCEPT ![rf.top] = ch.err]
                            ELSE IF out THEN [rf.fifo EXCEPT ![rf.bottom] = FALSE]
                            ELSE rf.fifo,
                 top    |-> IF in THEN Wrap(rf.top) ELSE rf.top,
                 bottom |-> IF out THEN Wrap(rf.bottom) ELSE rf.bottom,
                 count  |-> IF in /\ out THEN rf.count
                            ELSE IF in THEN rf.count + 1
                            ELSE IF out THEN rf.count - 1 ELSE rf.count]
       /\ overrun' = (~lsr_mask /\ (overrun \/ (push /\ ~in)))

(* counter_t of uart_receiver.                                             *)
Timeout(push) ==
    t0' \in IF push \/ rf_pop \/ rf.count = 0 THEN {FALSE} ELSE {t0, TRUE}

(* The line status register: bits are set when their condition rises.      *)
lsrCond(push) ==
    [dr |-> rf.count = 0 /\ push, oe |-> overrun, fe |-> rf.fifo[rf.bottom]]

(* Variant: the pop that empties the FIFO wins over the push.              *)
LineStatusVariant(push) ==
    LET cond == lsrCond(push)
        rise(b) == cond[b] /\ ~lsr_d[b]
    IN /\ lsr' = [dr |-> ~(rf.count = 1 /\ rf_pop) /\ (lsr.dr \/ rise("dr")),
                  oe |-> ~lsr_mask /\ (lsr.oe \/ rise("oe")),
                  fe |-> ~lsr_mask /\ (lsr.fe \/ rise("fe"))]
       /\ lsr_d' = cond

LineStatus(push) ==
    LET cond == lsrCond(push)
        rise(b) == cond[b] /\ ~lsr_d[b]
    IN /\ lsr' = [dr |-> ~(rf.count = 1 /\ rf_pop /\ ~push) /\ (lsr.dr \/ rise("dr")),
                  oe |-> ~lsr_mask /\ (lsr.oe \/ rise("oe")),
                  fe |-> ~lsr_mask /\ (lsr.fe \/ rise("fe"))]
       /\ lsr_d' = cond

(* Variant: the timeout interrupt is cleared by a read of any register.    *)
InterruptsVariant ==
    LET rise(i) == ints[i] /\ ~int_d[i]
    IN /\ int_d' = ints
       /\ pnd' = [rls |-> ~lsr_mask /\ (rise("rls") \/ (pnd.rls /\ linux)),
                  rda |-> ~(rf.count = Trigger /\ fifo_read)
                          /\ (rise("rda") \/ (pnd.rda /\ linux)),
                  ti  |-> ~(Active(is) /\ wre) /\ (rise("ti") \/ (pnd.ti /\ linux))]
       /\ int_o' = IF pnd.rls THEN ~lsr_mask
                   ELSE pnd.rda \/ (pnd.ti /\ ~fifo_read)
       /\ iir' = IF pnd.rls THEN "rls" ELSE IF ints.rda THEN "rda"
                 ELSE IF pnd.ti THEN "ti" ELSE "none"

Interrupts ==
    LET rise(i) == ints[i] /\ ~int_d[i]
    IN /\ int_d' = ints
       /\ pnd' = [rls |-> ~lsr_mask /\ (rise("rls") \/ (pnd.rls /\ linux)),
                  rda |-> ~(rf.count = Trigger /\ fifo_read)
                          /\ (rise("rda") \/ (pnd.rda /\ linux)),
                  ti  |-> ~fifo_read /\ (rise("ti") \/ (pnd.ti /\ linux))]
       /\ int_o' = IF pnd.rls THEN ~lsr_mask
                   ELSE pnd.rda \/ (pnd.ti /\ ~fifo_read)
       /\ iir' = IF pnd.rls THEN "rls" ELSE IF ints.rda THEN "rda"
                 ELSE IF pnd.ti THEN "ti" ELSE "none"

(* What a read returns; the read of a character pops it a cycle later.     *)
Reads ==
    /\ rf_pop' = (~rf_pop /\ fifo_read)
    /\ dat_o' = [dat_o EXCEPT !.ch = IF fifo_read THEN rf.ram[rf.bottom] ELSE @,
                              !.lsr = IF lsr_mask THEN lsr ELSE @,
                              !.iir = IF re_o("iir") THEN iir ELSE @]
-----------------------------------------------------------------------------
(* The drivers.  Linux: serial8250_interrupt reads IIR, and while there is *)
(* an interrupt, LSR, characters as long as LSR says there are, and MSR.   *)
(* Variant: a character is read whatever LSR says.                         *)
LinuxAfterVariant ==
    CASE pc = "iir" -> IF dat_o.iir = "none" THEN "run" ELSE "lsr"
      [] pc = "lsr" -> "rx"
      [] pc = "rx"  -> "lsr"
      [] pc = "msr" -> "iir"
LinuxAfter ==
    CASE pc = "iir" -> IF dat_o.iir = "none" THEN "run" ELSE "lsr"
      [] pc = "lsr" -> IF dat_o.lsr.dr THEN "rx" ELSE "msr"
      [] pc = "rx"  -> "lsr"
      [] pc = "msr" -> "iir"

(* uart_getc: LSR until it says there is a character.                      *)
GetcAfter == IF pc = "lsr" THEN IF dat_o.lsr.dr THEN "rx" ELSE "lsr" ELSE "run"

After == IF linux THEN LinuxAfter ELSE GetcAfter

Driver ==
    \/ Active(rq) /\ ~ack /\ UNCHANGED <<rq, pc>>
    \/ Active(rq) /\ ack /\ rq' = NoRq /\ pc' = After
    \/ ~Active(rq) /\ pc = "run" /\ rq' = NoRq
       /\ pc' \in IF linux THEN {"run"} \cup (IF int_o THEN {"iir"} ELSE {})
                  ELSE {"run", "lsr"}
    \/ ~Active(rq) /\ pc # "run" /\ rq' \in {NoRq, Read(pc)} /\ pc' = pc

(* A character arrives (rf_push_pulse), or none does.                      *)
Arrives(push) ==
    /\ push => gap = 0 /\ (MayOverrun \/ rf.count < Depth)
    /\ gap' = IF push THEN MinGap ELSE IF gap = 0 THEN 0 ELSE gap - 1
    /\ next' = IF push THEN (next + 1) % Chars ELSE next

History(push, ch) ==
    LET rest == IF fifo_read /\ queue # <<>> THEN Tail(queue) ELSE queue
        in   == push /\ (rf_pop \/ rf.count < Depth)
    IN /\ queue' = IF in THEN Append(rest, ch) ELSE rest
       /\ got' = IF fifo_read /\ queue # <<>> THEN <<Head(queue)>>
                 ELSE IF fifo_read THEN <<>> ELSE got

Init ==
    /\ WbInit /\ linux \in BOOLEAN
    /\ rf = [ram |-> [s \in Slots |-> 0], fifo |-> [s \in Slots |-> FALSE],
             top |-> 0, bottom |-> 0, count |-> 0]
    /\ overrun = FALSE /\ rf_pop = FALSE /\ t0 = FALSE
    /\ lsr = [dr |-> FALSE, oe |-> FALSE, fe |-> FALSE] /\ lsr_d = lsr
    /\ int_d = NoInts /\ pnd = NoInts /\ int_o = FALSE /\ iir = "none"
    /\ dat_o = [ch |-> 0, lsr |-> lsr, iir |-> "none"]
    /\ pc = "run" /\ gap = 0 /\ next = 0 /\ queue = <<>> /\ got = <<>>

Clock(push, err) ==
    LET ch == [dat |-> next, err |-> err]
    IN /\ Arrives(push) /\ Driver /\ WbEdge
       /\ RFifo(push, ch) /\ Timeout(push) /\ LineStatus(push)
       /\ Interrupts /\ Reads /\ History(push, ch) /\ UNCHANGED linux

Quiet == Clock(FALSE, FALSE)
Receive == \E err \in MayErr : Clock(TRUE, err)

Next == Quiet \/ Receive

Spec == Init /\ [][Next]_vars

(* The clock runs, an undisturbed timeout counter reaches zero, interrupts *)
(* are taken, and the driver goes on.                                      *)
FairSpec ==
    /\ Spec /\ WF_vars(Next)
    /\ []<>(t0 \/ rf_pop \/ rf.count = 0 \/ gap = MinGap)
    /\ []<>(pc # "run" \/ (linux /\ ~int_o))
    /\ []<>(Active(rq) \/ pc = "run")
-----------------------------------------------------------------------------
TypeOK ==
    LET bits == [dr : BOOLEAN, oe : BOOLEAN, fe : BOOLEAN]
        flags == [rls : BOOLEAN, rda : BOOLEAN, ti : BOOLEAN]
        kinds == {"rls", "rda", "ti", "none"}
        char == [dat : 0 .. Chars - 1, err : BOOLEAN]
    IN /\ WbTypeOK /\ linux \in BOOLEAN
       /\ rf \in [ram : [Slots -> 0 .. Chars - 1], fifo : [Slots -> BOOLEAN],
                  top : Slots, bottom : Slots, count : 0 .. Depth]
       /\ overrun \in BOOLEAN /\ rf_pop \in BOOLEAN /\ t0 \in BOOLEAN
       /\ lsr \in bits /\ lsr_d \in bits /\ int_d \in flags /\ pnd \in flags
       /\ int_o \in BOOLEAN /\ iir \in kinds
       /\ dat_o \in [ch : 0 .. Chars - 1, lsr : bits, iir : kinds]
       /\ pc \in {"run", "iir", "lsr", "rx", "msr"}
       /\ gap \in 0 .. MinGap /\ next \in 0 .. Chars - 1
       /\ queue \in Seq(char) /\ got \in Seq(char)

(* A read of the receive buffer is about to be handed to the driver.       *)
Taken == pc = "rx" /\ ack

(* Every character handed to the driver is the oldest one received and not *)
(* yet read; the driver never reads an empty FIFO.                         *)
ReadInOrder == Taken => got # <<>> /\ dat_o.ch = got[1].dat

(* Bit 0 of the line status register says whether there is a character,    *)
(* through pushes and pops in any cycles.                                  *)
DataReady == lsr.dr <=> rf.count > 0

(* A character that arrived with an error is handed over with the error    *)
(* bit of the line status register seen.                                   *)
ErrorReported == Taken /\ got # <<>> /\ got[1].err => dat_o.lsr.fe

(* A character that arrived well is not handed over with an error.         *)
ErrorTrue == Taken /\ got # <<>> /\ dat_o.lsr.fe => got[1].err

(* A character in the FIFO is read in the end, below the trigger level by  *)
(* the timeout.                                                            *)
CharTaken == [](rf.count > 0 => <>rf_pop)

(* An interrupt that is signalled is named by IIR before long, or goes     *)
(* away: the handler does not run for nothing forever.                     *)
InterruptNamed == []<>(~int_o \/ iir # "none")
=============================================================================
