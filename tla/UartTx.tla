------------------------------- MODULE UartTx -------------------------------
(***************************************************************************)
(* The transmitting half of the UART: transmit FIFO, transmitter, the THRE *)
(* and TEMT bits of the line status register, and the THRE interrupt.      *)
(*                                                                         *)
(* The baud clock `enable' comes at any edge, a bit sequence (start, data, *)
(* parity, stop) takes any number of enables, and so does block_cnt.       *)
(***************************************************************************)
EXTENDS UartWb, Sequences

CONSTANTS
    Depth,      \* fifo_depth, a power of two
    Char        \* what is sent, numbers

ASSUME TxAssumption == Depth \in Nat \ {0} /\ Char \subseteq Nat /\ Char # {}

VARIABLES
    tf,         \* transmit FIFO: ram, top, bottom, count
    tf_push,
    tf_pop,
    tx_reset,
    tstate,     \* idle, pop or send
    shift,      \* shift_out: the character being sent
    block,      \* block_cnt # 0
    lsr5r, lsr5_d, lsr6r, lsr6_d,
    ier,        \* the THRE enable of ier
    int_d,      \* thre_int_d
    pnd,        \* thre_int_pnd
    int_o,
    iir,        \* "thre" or "none"
    dat_o,      \* wb_dat_o as the driver sees it: the bits it looks at
    owed        \* history: characters written and not yet taken to be sent

txVars == <<tf, tf_push, tf_pop, tx_reset, tstate, shift, block, lsr5r, lsr5_d,
            lsr6r, lsr6_d, ier, int_d, pnd, int_o, iir, dat_o, owed>>

EmptyFifo == [ram |-> [i \in 0 .. Depth - 1 |-> CHOOSE c \in Char : TRUE],
              top |-> 0, bottom |-> 0, count |-> 0]

tf_data_out == tf.ram[tf.bottom]
fifo_write == we_o("tx")
iir_read == re_o("iir")
thre_set_en == ~block

lsr5 == tf.count = 0 /\ thre_set_en
lsr6 == tf.count = 0 /\ thre_set_en /\ tstate = "idle"

thre_int == ier /\ lsr5r
-----------------------------------------------------------------------------
(* uart_tfifo.  The RAM is written on every push, full or not.             *)
Wrap(p) == (p + 1) % Depth

(* Variant: a push and a pop in the same cycle are two counts.             *)
TFifoVariant ==
    LET ram == IF tf_push THEN [tf.ram EXCEPT ![tf.top] = is.dat] ELSE tf.ram
        in  == tf_push /\ (tf_pop \/ tf.count < Depth)
        out == tf_pop /\ (tf_push \/ tf.count > 0)
    IN tf' = IF tx_reset THEN [EmptyFifo EXCEPT !.ram = ram]
             ELSE [ram |-> ram,
                   top |-> IF in THEN Wrap(tf.top) ELSE tf.top,
                   bottom |-> IF out THEN Wrap(tf.bottom) ELSE tf.bottom,
                   count |-> IF out THEN tf.count - 1
                             ELSE IF in THEN tf.count + 1 ELSE tf.count]

TFifo ==
    LET ram == IF tf_push THEN [tf.ram EXCEPT ![tf.top] = is.dat] ELSE tf.ram
        in  == tf_push /\ (tf_pop \/ tf.count < Depth)
        out == tf_pop /\ (tf_push \/ tf.count > 0)
    IN tf' = IF tx_reset THEN [EmptyFifo EXCEPT !.ram = ram]
             ELSE [ram |-> ram,
                   top |-> IF in THEN Wrap(tf.top) ELSE tf.top,
                   bottom |-> IF out THEN Wrap(tf.bottom) ELSE tf.bottom,
                   count |-> IF in /\ out THEN tf.count
                             ELSE IF in THEN tf.count + 1
                             ELSE IF out THEN tf.count - 1 ELSE tf.count]

(* uart_transmitter.                                                       *)
Loads(enable) == enable /\ tstate = "pop"

Transmitter(enable) ==
    /\ tf_pop' = Loads(enable)
    /\ shift' = IF Loads(enable) THEN tf_data_out ELSE shift
    /\ \/ ~enable /\ tstate' = tstate
       \/ enable /\ tstate = "idle" /\ tstate' = IF tf.count = 0 THEN "idle" ELSE "pop"
       \/ enable /\ tstate = "pop" /\ tstate' = "send"
       \/ enable /\ tstate = "send" /\ tstate' \in {"send", "idle"}
-----------------------------------------------------------------------------
(* uart_regs: writes, the line status register and THRE's delay.           *)
Block(enable) ==
    block' \in IF lsr5r /\ fifo_write THEN {TRUE}
               ELSE IF enable /\ block THEN BOOLEAN ELSE {block}

(* Variant: bit 5 is the level of the FIFO.                                *)
LineStatusVariant ==
    /\ lsr5r' = lsr5 /\ lsr5_d' = lsr5
    /\ lsr6r' = (~fifo_write /\ (lsr6r \/ (lsr6 /\ ~lsr6_d)))
    /\ lsr6_d' = lsr6

(* Variant: a read of the register clears bit 6, as it does the error bits.*)
LineStatusMasked ==
    /\ lsr5r' = (~fifo_write /\ (lsr5r \/ (lsr5 /\ ~lsr5_d)))
    /\ lsr5_d' = lsr5
    /\ lsr6r' = (~fifo_write /\ ~re_o("lsr") /\ (lsr6r \/ (lsr6 /\ ~lsr6_d)))
    /\ lsr6_d' = lsr6

LineStatus ==
    /\ lsr5r' = (~fifo_write /\ (lsr5r \/ (lsr5 /\ ~lsr5_d)))
    /\ lsr5_d' = lsr5
    /\ lsr6r' = (~fifo_write /\ (lsr6r \/ (lsr6 /\ ~lsr6_d)))
    /\ lsr6_d' = lsr6

Writes ==
    /\ tf_push' = fifo_write
    /\ tx_reset' = we_o("fcr")
    /\ ier' = IF we_o("ier") THEN is.dat = 1 ELSE ier

(* Variant: an IIR read clears the interrupt whatever it reads.            *)
InterruptsVariant ==
    /\ int_d' = thre_int
    /\ pnd' = (~fifo_write /\ ~iir_read /\ ((thre_int /\ ~int_d) \/ (pnd /\ ier)))
    /\ int_o' = pnd
    /\ iir' = IF pnd THEN "thre" ELSE "none"

Interrupts ==
    /\ int_d' = thre_int
    /\ pnd' = (/\ ~fifo_write /\ ~(iir_read /\ iir = "thre")
               /\ (thre_int /\ ~int_d) \/ (pnd /\ ier))
    /\ int_o' = pnd
    /\ iir' = IF pnd THEN "thre" ELSE "none"

(* What a read returns, registered at the enable.                          *)
DatO ==
    dat_o' = IF re_o("lsr") THEN [dat_o EXCEPT !.thre = lsr5r, !.temt = lsr6r]
             ELSE IF iir_read THEN [dat_o EXCEPT !.iir = iir] ELSE dat_o

(* Characters are owed from the write; clearing the FIFO forgives them.    *)
Owed(enable) ==
    LET left == IF Loads(enable) /\ owed # <<>> THEN Tail(owed) ELSE owed
    IN owed' = IF we_o("fcr") THEN <<>>
               ELSE IF fifo_write THEN Append(left, is.dat) ELSE left
-----------------------------------------------------------------------------
TxInit ==
    /\ WbInit
    /\ tf = EmptyFifo /\ tf_push = FALSE /\ tf_pop = FALSE /\ tx_reset = FALSE
    /\ tstate = "idle" /\ shift \in Char /\ block = FALSE
    /\ lsr5r = TRUE /\ lsr5_d = TRUE /\ lsr6r = TRUE /\ lsr6_d = TRUE
    /\ ier = FALSE /\ int_d = FALSE /\ pnd = FALSE /\ int_o = FALSE /\ iir = "none"
    /\ dat_o = [thre |-> FALSE, temt |-> FALSE, iir |-> "none"]
    /\ owed = <<>>

TxEdge(enable) ==
    /\ TFifo /\ Transmitter(enable) /\ Block(enable)
    /\ LineStatus /\ Writes /\ Interrupts /\ DatO /\ Owed(enable)
-----------------------------------------------------------------------------
TxTypeOK ==
    /\ WbTypeOK
    /\ tf \in [ram : [0 .. Depth - 1 -> Char], top : 0 .. Depth - 1,
               bottom : 0 .. Depth - 1, count : 0 .. Depth]
    /\ tf_push \in BOOLEAN /\ tf_pop \in BOOLEAN /\ tx_reset \in BOOLEAN
    /\ tstate \in {"idle", "pop", "send"} /\ shift \in Char /\ block \in BOOLEAN
    /\ lsr5r \in BOOLEAN /\ lsr5_d \in BOOLEAN /\ lsr6r \in BOOLEAN /\ lsr6_d \in BOOLEAN
    /\ ier \in BOOLEAN /\ int_d \in BOOLEAN /\ pnd \in BOOLEAN /\ int_o \in BOOLEAN
    /\ iir \in {"thre", "none"}
    /\ dat_o \in [thre : BOOLEAN, temt : BOOLEAN, iir : {"thre", "none"}]
    /\ owed \in Seq(Char)

(* What is sent is what was written, in that order, each character once.   *)
TxInOrder ==
    [][tstate = "pop" /\ tstate' = "send" => owed # <<>> /\ shift' = Head(owed)]_
      <<tstate, shift, owed>>

(* THRE is set only when the FIFO has nothing left, also in the cycles in  *)
(* which a write is on its way to the FIFO.                                *)
ThreHonest == lsr5r => tf.count = 0 /\ ~tf_push
=============================================================================
