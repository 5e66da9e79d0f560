--------------------------- MODULE UartSendProofs ---------------------------
(***************************************************************************)
(* Proofs about the transmitting half of the UART under its two drivers,   *)
(* for every depth of the FIFO, every size of the port's buffer and any    *)
(* speed of the line.                                                      *)
(*                                                                         *)
(* The argument goes up in layers.  WbPhase: an access makes one enable.   *)
(* DriverInv: the enable belongs to the point the driver is at.  ThreInv:  *)
(* THRE is not set while something is in the FIFO or on its way to it; the *)
(* polled driver looks at it before every write, the interrupt driven one  *)
(* once for a burst, and then block_cnt must outlast the burst (InTime).   *)
(* TemtInv: the same for TEMT, on which uart_putc returns.  LevelInv: a    *)
(* write finds room and the transmitter finds a character.  QueueInv: the  *)
(* ring holds what is owed, in order.                                      *)
(***************************************************************************)
EXTENDS UartSend, TLAPS

(* The bus side of a step: an access stays until it is acknowledged, then  *)
(* it goes.                                                                *)
LEMMA BusHolds ==
    ASSUME Driver
    PROVE  /\ Active(rq) /\ ~ack => rq' = rq /\ UNCHANGED <<pc, c, linux>>
           /\ Active(rq) /\ ack => Acknowledged /\ ~Active(rq')
           /\ ~Active(rq) /\ pc = "call" => Program /\ ~Active(rq')
           /\ ~Active(rq) /\ pc = "run" => System /\ ~Active(rq')
           /\ ~Active(rq) /\ pc \notin {"call", "run"} =>
                rq' \in {NoRq, Access} /\ UNCHANGED <<pc, c, linux>>
BY DEF Driver, Acknowledged, Program, System, Active, NoRq, Rq

(* Each access makes one enable: see WbPhase.                              *)
LEMMA PhaseStep ==
    ASSUME WbPhase, Driver, WbEdge
    PROVE  WbPhase'
<1> USE DEF WbPhase
<1>1. CASE Sampling /\ Active(rq)
  <2>1. /\ rq' = rq /\ is' = rq /\ wbstate' = 0 /\ ~ack' /\ wre' /\ pulses' = 0
    BY <1>1, BusHolds DEF Sampling, WbEdge
  <2>2. QED
    BY <1>1, <2>1 DEF Enabled, Active
<1>2. CASE Sampling /\ ~Active(rq)
  <2>1. /\ is' = rq /\ wbstate' = 0 /\ ~ack'
        /\ pulses' = IF Active(rq') THEN 0 ELSE pulses
    BY <1>2 DEF Sampling, WbEdge
  <2>2. QED
    BY <1>2, <2>1 DEF Sampling, Active
<1>3. CASE Enabled
  <2>1. /\ rq' = rq /\ is' = rq /\ wbstate' = 1 /\ ack' /\ ~wre' /\ pulses' = 1
    BY <1>3, BusHolds DEF Enabled, WbEdge
  <2>2. QED
    BY <1>3, <2>1 DEF Enabled, Answered, Active
<1>4. CASE Answered
  <2>1. /\ ~Active(rq') /\ wbstate' = 2 /\ ~ack' /\ ~wre' /\ pulses' = 1
    BY <1>4, BusHolds DEF Answered, WbEdge
  <2>2. QED
    BY <2>1 DEF Withdrawn, Active
<1>5. CASE Withdrawn
  <2>1. /\ is' = rq /\ wbstate' = 0 /\ ~ack'
        /\ pulses' = IF Active(rq') THEN 0 ELSE pulses
    BY <1>5 DEF Withdrawn, WbEdge
  <2>2. QED
    BY <1>5, <2>1 DEF Withdrawn, Sampling, Active
<1>6. QED
  BY <1>1, <1>2, <1>3, <1>4, <1>5

(* The program counter belongs to the access that is on the bus, and what  *)
(* the registers hold of an access belongs to the one that is answered.    *)
DriverInv ==
    /\ Active(rq) => pc \notin {"call", "run"} /\ rq = Access
    /\ tf_push => ack /\ pc \in {"write1", "write2", "tx"}
    /\ tx_reset => ack /\ pc = "init"
    /\ tf_pop => tstate = "send"
    /\ pc = "tx" => xmit > 0 /\ burst > 0

Base == TypeOK /\ WbPhase /\ DriverInv

(* What the constants are.                                                 *)
LEMMA Constants == /\ Depth \in Nat \ {0} /\ Char \subseteq Nat /\ 0 \in Char
                   /\ PutChars \subseteq Char /\ Return \in Char /\ Size \in Nat \ {0}
BY TxAssumption, SendAssumption

(* The next slot of the ring.                                              *)
LEMMA WrapIs ==
    ASSUME NEW p \in 0 .. Depth - 1
    PROVE  Wrap(p) = IF p + 1 = Depth THEN 0 ELSE p + 1
<1>1. Depth \in Nat /\ Depth > 0
  BY Constants
<1>2. CASE p + 1 < Depth
  BY <1>1, <1>2 DEF Wrap
<1>3. CASE p + 1 = Depth
  BY <1>1, <1>3 DEF Wrap
<1>4. QED
  BY <1>1, <1>2, <1>3

(* The access at each point of the drivers.                                *)
LEMMA AccessIs ==
    ASSUME TypeOK
    PROVE  /\ pc \notin {"call", "run"} =>
                /\ Access \in [we : BOOLEAN, reg : Regs, dat : Nat]
                /\ Active(Access)
                /\ Access.we <=> pc \in {"write1", "write2", "tx", "init", "start", "stop"}
                /\ Access.reg = "tx" <=> pc \in {"write1", "write2", "tx"}
                /\ Access.reg = "fcr" <=> pc = "init"
                /\ Access.reg = "lsr" <=> pc \in {"thre1", "thre2", "xmitr", "lsr"}
                /\ Access.reg = "iir" <=> pc = "iir"
           /\ pc \in {"write1", "write2", "tx"} => Access.dat \in Char
BY Constants DEF TypeOK, PutcPcs, LinuxPcs, Access, Active, Rq, Read, Write, Regs

(* Which enable is up, and at which point of the drivers.                  *)
LEMMA Enables ==
    ASSUME TypeOK, WbPhase, DriverInv
    PROVE  /\ fifo_write <=> Enabled /\ pc \in {"write1", "write2", "tx"}
           /\ we_o("fcr") <=> Enabled /\ pc = "init"
           /\ re_o("lsr") <=> Enabled /\ pc \in {"thre1", "thre2", "xmitr", "lsr"}
           /\ fifo_write \/ tf_push => is.dat \in Char
<1>1. CASE Sampling \/ Withdrawn
  BY <1>1 DEF fifo_write, we_o, re_o, Sampling, Enabled, Withdrawn, DriverInv, Active
<1>2. CASE Enabled \/ Answered
  <2>1. is = Access /\ Active(rq) /\ pc \notin {"call", "run"}
    BY <1>2 DEF Enabled, Answered, DriverInv
  <2>2. QED
    BY <1>2, <2>1, AccessIs DEF fifo_write, we_o, re_o, Enabled, Answered, DriverInv
<1>3. QED
  BY <1>1, <1>2 DEF WbPhase

(* Where the drivers go from an access, read backwards.                    *)
LEMMA AckStep ==
    ASSUME Base, Active(rq), ack, Acknowledged
    PROVE  /\ pc' \in PutcPcs \cup LinuxPcs
           /\ pc' \in PutcPcs <=> pc \in PutcPcs
           /\ pc' # "init"
           /\ pc' = "write1" => pc = "thre1" /\ dat_o.thre
           /\ pc' = "write2" => pc = "thre2" /\ dat_o.thre
           /\ pc' = "call" => pc = "init" \/ (pc = "xmitr" /\ dat_o.temt)
           /\ pc' = "msr" => pc = "lsr"
           /\ pc' = "tx" =>
                \/ pc = "msr" /\ dat_o.thre /\ xmit > 0 /\ xmit' = xmit /\ burst' = Depth
                \/ /\ pc = "tx" /\ xmit > 1 /\ xmit' = xmit - 1
                   /\ burst > 1 /\ burst' = burst - 1
           /\ c' = c /\ xmit' \in 0 .. Size /\ next' \in Char
           /\ burst' \in 0 .. Depth /\ thri' \in BOOLEAN
<1> USE Constants DEF Base, TypeOK, PutcPcs, LinuxPcs
<1>1. pc \notin {"call", "run"}
  BY DEF DriverInv
<1>2. CASE pc \in PutcPcs /\ Putc
  BY <1>1, <1>2 DEF Acknowledged, Putc, linux
<1>3. CASE pc = "tx" /\ Transmit
  <2>1. xmit > 0 /\ burst > 0
    BY <1>3 DEF DriverInv
  <2>2. next' \in Char
    BY <1>3 DEF Transmit, After
  <2>3. QED
    BY <1>3, <2>1, <2>2 DEF Acknowledged, Transmit
<1>4. CASE pc \in LinuxPcs \ {"tx"} /\ Handler
  <2>1. /\ c' = c /\ xmit' = xmit /\ next' = next /\ burst' = Depth
        /\ thri' \in BOOLEAN
    BY <1>4 DEF Acknowledged, Handler
  <2>2. /\ pc' \in LinuxPcs
        /\ pc' = "msr" => pc = "lsr"
        /\ pc' = "tx" => pc = "msr" /\ dat_o.thre /\ xmit > 0
    BY <1>1, <1>4 DEF Handler
  <2>3. QED
    BY <1>4, <2>1, <2>2
<1>5. QED
  BY <1>2, <1>3, <1>4 DEF Acknowledged

(* The same for every step.                                                *)
LEMMA DriverStep ==
    ASSUME Base, Driver
    PROVE  /\ pc' \in PutcPcs \cup LinuxPcs
           /\ pc' \in PutcPcs <=> pc \in PutcPcs
           /\ c' \in PutChars /\ xmit' \in 0 .. Size /\ next' \in Char
           /\ burst' \in 0 .. Depth /\ thri' \in BOOLEAN
           /\ pc' \in {"call", "init"} =>
                \/ pc \in {"call", "init"}
                \/ Active(rq) /\ ack /\ pc = "xmitr" /\ dat_o.temt
           /\ pc' = "tx" => xmit' > 0 /\ burst' > 0
           /\ rq' = NoRq \/ (rq' = rq /\ Active(rq) /\ ~ack /\ UNCHANGED <<pc, c, linux>>)
              \/ (rq' = Access /\ pc \notin {"call", "run"} /\ UNCHANGED <<pc, c, linux>>)
<1>1. CASE Active(rq) /\ ack
  BY <1>1, AckStep, BusHolds, Constants DEF Base, TypeOK, Acknowledged
<1>2. CASE Active(rq) /\ ~ack
  BY <1>2, BusHolds DEF linux, Base, TypeOK, DriverInv
<1>3. CASE ~Active(rq) /\ pc = "call"
  BY <1>3, BusHolds DEF Program, linux, Base, TypeOK, PutcPcs
<1>4. CASE ~Active(rq) /\ pc = "run"
  BY <1>4, BusHolds, Constants DEF System, linux, Base, TypeOK, PutcPcs, LinuxPcs
<1>5. CASE ~Active(rq) /\ pc \notin {"call", "run"}
  BY <1>5, BusHolds DEF linux, Base, TypeOK, DriverInv
<1>6. QED
  BY <1>1, <1>2, <1>3, <1>4, <1>5

(* Every edge keeps DriverInv.                                             *)
LEMMA DriverInvStep ==
    ASSUME Base, NEW enable \in BOOLEAN, Clock(enable)
    PROVE  DriverInv'
<1>1. Driver /\ WbEdge /\ Writes /\ Transmitter(enable)
  BY DEF Clock, TxEdge
<1>2. Active(rq') => pc' \notin {"call", "run"} /\ rq' = Access'
  <2>1. UNCHANGED <<pc, c, linux>> => Access' = Access
    BY DEF linux, Access, Read, Write, Rq
  <2>2. ~Active(NoRq)
    BY DEF NoRq, Rq, Active
  <2>3. QED
    BY <1>1, <2>1, <2>2, DriverStep DEF Base, DriverInv
<1>3. Enabled => ack' /\ pc' = pc
  BY <1>1, BusHolds DEF Enabled, WbEdge
<1>4. tf_push' => ack' /\ pc' \in {"write1", "write2", "tx"}
  BY <1>1, <1>3, Enables DEF Base, Writes
<1>5. tx_reset' => ack' /\ pc' = "init"
  BY <1>1, <1>3, Enables DEF Base, Writes
<1>6. tf_pop' => tstate' = "send"
  BY <1>1 DEF Transmitter, Loads
<1>7. pc' = "tx" => xmit' > 0 /\ burst' > 0
  BY <1>1, DriverStep
<1>8. QED
  BY <1>2, <1>4, <1>5, <1>6, <1>7 DEF DriverInv, Active

(* The FIFO after an edge, field by field.                                 *)
FifoRam == IF tf_push THEN [tf.ram EXCEPT ![tf.top] = is.dat] ELSE tf.ram
FifoIn == tf_push /\ (tf_pop \/ tf.count < Depth)
FifoOut == tf_pop /\ (tf_push \/ tf.count > 0)

LEMMA FifoFields ==
    ASSUME TFifo
    PROVE  /\ tf' = [ram |-> tf'.ram, top |-> tf'.top, bottom |-> tf'.bottom,
                     count |-> tf'.count]
           /\ tf'.ram = FifoRam
           /\ tx_reset => tf'.top = 0 /\ tf'.bottom = 0 /\ tf'.count = 0
           /\ ~tx_reset =>
                /\ tf'.top = IF FifoIn THEN Wrap(tf.top) ELSE tf.top
                /\ tf'.bottom = IF FifoOut THEN Wrap(tf.bottom) ELSE tf.bottom
                /\ tf'.count = IF FifoIn /\ FifoOut THEN tf.count
                               ELSE IF FifoIn THEN tf.count + 1
                               ELSE IF FifoOut THEN tf.count - 1 ELSE tf.count
BY DEF TFifo, FifoRam, FifoIn, FifoOut, EmptyFifo

(* The FIFO keeps its types: an entry is counted in only where there is    *)
(* room and out only where there is one.                                   *)
LEMMA FifoTypes ==
    ASSUME Base, TFifo
    PROVE  tf' \in [ram : [0 .. Depth - 1 -> Char], top : 0 .. Depth - 1,
                    bottom : 0 .. Depth - 1, count : 0 .. Depth]
<1> USE Constants
<1>1. /\ tf.ram \in [0 .. Depth - 1 -> Char] /\ tf.top \in 0 .. Depth - 1
      /\ tf.bottom \in 0 .. Depth - 1 /\ tf.count \in 0 .. Depth
  BY DEF Base, TypeOK, TxTypeOK
<1>2. tf_push => is.dat \in Char
  BY Enables DEF Base
<1>3. tf'.ram \in [0 .. Depth - 1 -> Char]
  BY <1>1, <1>2, FifoFields DEF FifoRam
<1>4. tf'.top \in 0 .. Depth - 1 /\ tf'.bottom \in 0 .. Depth - 1
  <2>1. Wrap(tf.top) \in 0 .. Depth - 1 /\ Wrap(tf.bottom) \in 0 .. Depth - 1
    BY <1>1, WrapIs, SMTT(30)
  <2>2. 0 \in 0 .. Depth - 1
    OBVIOUS
  <2>3. QED
    BY <1>1, <2>1, <2>2, FifoFields, Zenon
<1>5. tf'.count \in 0 .. Depth
  <2>1. /\ FifoIn /\ ~FifoOut => tf.count < Depth
        /\ FifoOut /\ ~FifoIn => tf.count > 0
    BY <1>1 DEF FifoIn, FifoOut
  <2>2. QED
    BY <1>1, <2>1, FifoFields
<1>6. QED
  BY <1>3, <1>4, <1>5, FifoFields

(* Every edge keeps the types.                                             *)
LEMMA TypeStep ==
    ASSUME Base, NEW enable \in BOOLEAN, Clock(enable)
    PROVE  TypeOK'
<1> USE Constants
<1>1. /\ Driver /\ WbEdge /\ TFifo /\ Transmitter(enable) /\ Block(enable)
      /\ LineStatus /\ Writes /\ Interrupts /\ DatO /\ Owed(enable)
  BY DEF Clock, TxEdge
<1>2. TypeOK
  BY DEF Base
<1>3. WbTypeOK'
  <2>1. rq' \in [we : BOOLEAN, reg : Regs, dat : Nat]
    <3>1. NoRq \in [we : BOOLEAN, reg : Regs, dat : Nat]
      BY DEF NoRq, Rq, Regs
    <3>2. QED
      BY <1>1, <1>2, <3>1, DriverStep, AccessIs DEF TypeOK, TxTypeOK, WbTypeOK
  <2>2. is' \in [we : BOOLEAN, reg : Regs, dat : Nat]
    BY <1>1, <1>2 DEF WbEdge, TypeOK, TxTypeOK, WbTypeOK
  <2>3. wbstate' \in 0 .. 2
    BY <1>1 DEF WbEdge
  <2>4. wre' \in BOOLEAN /\ ack' \in BOOLEAN
    BY <1>1, Zenon DEF WbEdge
  <2>5. pulses' \in 0 .. 2
    BY <1>1, <1>2 DEF WbEdge, TypeOK, TxTypeOK, WbTypeOK
  <2>6. QED
    BY <2>1, <2>2, <2>3, <2>4, <2>5 DEF WbTypeOK
<1>4. /\ tf' \in [ram : [0 .. Depth - 1 -> Char], top : 0 .. Depth - 1,
                  bottom : 0 .. Depth - 1, count : 0 .. Depth]
  BY <1>1, FifoTypes
<1>5. shift' \in Char /\ tstate' \in {"idle", "pop", "send"}
  BY <1>1, <1>2 DEF Transmitter, tf_data_out, TypeOK, TxTypeOK
<1>6. /\ tf_push' \in BOOLEAN /\ tx_reset' \in BOOLEAN /\ tf_pop' \in BOOLEAN
  BY <1>1, Zenon DEF Writes, Transmitter, fifo_write, we_o, Loads
<1>7. ier' \in BOOLEAN
  BY <1>1, <1>2, Zenon DEF Writes, TypeOK, TxTypeOK
<1>8. block' \in BOOLEAN
  BY <1>1, <1>2 DEF Block, TypeOK, TxTypeOK
<1>9. /\ lsr5r' \in BOOLEAN /\ lsr5_d' \in BOOLEAN /\ lsr6r' \in BOOLEAN
      /\ lsr6_d' \in BOOLEAN
  BY <1>1, Zenon DEF LineStatus, lsr5, lsr6
<1>10. /\ int_d' \in BOOLEAN /\ pnd' \in BOOLEAN /\ int_o' \in BOOLEAN
  BY <1>1, <1>2, Zenon DEF Interrupts, thre_int, TypeOK, TxTypeOK
<1>11. iir' \in {"thre", "none"}
  BY <1>1 DEF Interrupts
<1>12. dat_o' \in [thre : BOOLEAN, temt : BOOLEAN, iir : {"thre", "none"}]
  BY <1>1, <1>2 DEF DatO, TypeOK, TxTypeOK
<1>13. owed' \in Seq(Char)
  <2>1. owed \in Seq(Char) /\ (fifo_write => is.dat \in Char)
    BY <1>2, Enables DEF Base, TypeOK, TxTypeOK
  <2>2. QED
    BY <1>1, <2>1 DEF Owed
<1>14. QED
  BY <1>1, <1>3, <1>4, <1>5, <1>6, <1>7, <1>8, <1>9, <1>10, <1>11, <1>12, <1>13,
     DriverStep, Zenon DEF TypeOK, TxTypeOK
-----------------------------------------------------------------------------
(* The polled driver never starts a character too early; the interrupt     *)
(* driven one does not if a burst is over in time.                         *)
Safe == InTime \/ pc \in PutcPcs

(* THRE and what the drivers make of it: it is seen before a write, and    *)
(* during a burst it is kept down by block_cnt.                            *)
ThreInv ==
    /\ ThreHonest
    /\ tf_push => block
    /\ pc \in {"write1", "write2"} /\ ~ack => lsr5r
    /\ pc \in {"thre1", "thre2", "lsr"} /\ ack /\ dat_o.thre => lsr5r
    /\ pc = "msr" /\ dat_o.thre => lsr5r
    /\ pc = "tx" /\ burst = Depth /\ ~ack => lsr5r
    /\ pc = "tx" /\ (burst < Depth \/ ack) => block

(* TEMT and what uart_putc makes of it.                                    *)
TemtInv ==
    /\ lsr6r => tf.count = 0 /\ ~tf_push /\ tstate = "idle"
    /\ pc = "xmitr" /\ ack /\ dat_o.temt => lsr6r
    /\ pc \in {"call", "init"} => tf.count = 0 /\ ~tf_push /\ tstate = "idle"

(* There is room for what is written, and something there for what is      *)
(* taken.                                                                  *)
One(p) == IF p THEN 1 ELSE 0
LevelInv ==
    /\ pc \in {"write1", "write2"} => tf.count = 0
    /\ pc = "tx" => tf.count + One(tf_push) <= Depth - burst + One(ack)
    /\ tf_push => tf.count < Depth
    /\ tf_pop => tf.count > 0
    /\ tstate = "pop" => tf.count > 0

(* The kinds of steps of the drivers.                                      *)
LEMMA Kinds ==
    ASSUME Base, Driver, WbEdge
    PROVE  /\ ack' <=> Enabled
           /\ Enabled => ~ack
           /\ \/ ~ack /\ UNCHANGED <<pc, burst>>
              \/ ~Enabled /\ ack /\ Active(rq) /\ Acknowledged
              \/ ~Enabled /\ ~ack /\ pc = "call" /\ pc' \in {"call", "init", "thre1"}
              \/ ~Enabled /\ ~ack /\ pc = "run" /\ pc' \in {"run", "start", "iir"}
<1>1. ack' <=> Enabled
  BY DEF Base, WbPhase, WbEdge, Sampling, Enabled, Answered, Withdrawn
<1>2. (ack => Active(rq)) /\ (Enabled => ~ack /\ Active(rq))
  BY DEF Base, WbPhase, Sampling, Enabled, Answered, Withdrawn
<1>3. CASE Active(rq)
  BY <1>1, <1>2, <1>3, BusHolds DEF linux
<1>4. CASE ~Active(rq)
  BY <1>1, <1>2, <1>4, BusHolds DEF linux, Program, System
<1>5. QED
  BY <1>3, <1>4

(* The line status bits after an edge.                                     *)
LEMMA LineAfter ==
    ASSUME LineStatus
    PROVE  /\ lsr5r' => ~fifo_write /\ (lsr5r \/ (tf.count = 0 /\ ~block))
           /\ lsr5r /\ ~fifo_write => lsr5r'
           /\ lsr6r' => \/ ~fifo_write /\ lsr6r
                        \/ ~fifo_write /\ tf.count = 0 /\ ~block /\ tstate = "idle"
           /\ lsr6r /\ ~fifo_write => lsr6r'
BY Zenon DEF LineStatus, lsr5, lsr6, thre_set_en

(* The level of the FIFO after an edge.                                    *)
LEMMA CountAfter ==
    ASSUME Base, LevelInv, TFifo
    PROVE  /\ tx_reset => tf'.count = 0
           /\ ~tx_reset => tf'.count = (tf.count + One(tf_push)) - One(tf_pop)
           /\ tf.count = 0 /\ ~tf_push => tf'.count = 0
           /\ tf'.count \in 0 .. Depth /\ tf.count \in 0 .. Depth
<1>1. tf.count \in 0 .. Depth /\ tf'.count \in 0 .. Depth
  BY FifoTypes DEF Base, TypeOK, TxTypeOK
<1>2. (FifoIn <=> tf_push) /\ (FifoOut <=> tf_pop)
  BY <1>1, Constants DEF LevelInv, FifoIn, FifoOut
<1>3. QED
  BY <1>1, <1>2, FifoFields, Constants DEF One, LevelInv

(* THRE stays honest.                                                      *)
LEMMA ThreStep ==
    ASSUME Base, Safe, ThreInv, LevelInv, NEW enable \in BOOLEAN, Clock(enable)
    PROVE  ThreInv'
<1>1. /\ Driver /\ WbEdge /\ TFifo /\ Block(enable) /\ LineStatus /\ Writes /\ DatO
  BY DEF Clock, TxEdge
<1>2. (tf_push' <=> fifo_write) /\ (tf_push => ack)
  BY <1>1 DEF Writes, Base, DriverInv
<1>3. pc = "tx" /\ block => block'
  BY DEF Clock, Safe, PutcPcs
<1>4. /\ fifo_write => Enabled /\ pc \in {"write1", "write2", "tx"}
      /\ Enabled /\ pc \in {"write1", "write2", "tx"} => fifo_write
  BY Enables DEF Base
<1>5. ThreHonest'
  BY <1>1, <1>2, LineAfter, CountAfter DEF ThreInv, ThreHonest
<1>6. fifo_write => block'
  <2>1. fifo_write /\ lsr5r => block'
    BY <1>1 DEF Block
  <2>2. fifo_write => lsr5r \/ (pc = "tx" /\ block)
    <3>1. burst \in 0 .. Depth
      BY DEF Base, TypeOK
    <3>2. QED
      BY <1>4, <3>1, Constants DEF ThreInv, Enabled
  <2>3. QED
    BY <1>3, <2>1, <2>2
<1>7. /\ re_o("lsr") => dat_o'.thre = lsr5r
      /\ ~re_o("lsr") => dat_o'.thre = dat_o.thre
  BY <1>1 DEF DatO, Base, TypeOK, TxTypeOK
<1>8. pc' \in {"write1", "write2"} /\ ~ack' => lsr5r'
  BY <1>1, <1>4, Kinds, AckStep, LineAfter DEF ThreInv
<1>9. pc' \in {"thre1", "thre2", "lsr"} /\ ack' /\ dat_o'.thre => lsr5r'
  BY <1>1, <1>4, <1>7, Kinds, Enables, LineAfter DEF Base
<1>10. pc' = "msr" /\ dat_o'.thre => lsr5r'
  BY <1>1, <1>4, <1>7, Kinds, AckStep, Enables, LineAfter DEF Base, ThreInv
<1>11. pc' = "tx" /\ burst' = Depth /\ ~ack' => lsr5r'
  <2>1. burst \in 0 .. Depth
    BY DEF Base, TypeOK
  <2>2. QED
    BY <1>1, <1>4, <2>1, Kinds, AckStep, LineAfter, Constants DEF ThreInv
<1>12. pc' = "tx" /\ (burst' < Depth \/ ack') => block'
  BY <1>1, <1>3, <1>4, <1>6, Kinds, AckStep, Constants DEF ThreInv
<1>13. QED
  BY <1>2, <1>5, <1>6, <1>8, <1>9, <1>10, <1>11, <1>12 DEF ThreInv

(* An idle transmitter with nothing to send stays idle.                    *)
LEMMA StaysIdle ==
    ASSUME NEW enable \in BOOLEAN, Transmitter(enable), tf.count = 0, tstate = "idle"
    PROVE  tstate' = "idle"
BY DEF Transmitter

(* TEMT stays honest, and uart_putc returns on it only.                    *)
LEMMA TemtStep ==
    ASSUME Base, ThreInv, TemtInv, LevelInv, NEW enable \in BOOLEAN, Clock(enable)
    PROVE  TemtInv'
<1>1. /\ Driver /\ WbEdge /\ TFifo /\ Transmitter(enable) /\ LineStatus /\ Writes /\ DatO
  BY DEF Clock, TxEdge
<1>2. (tf_push' <=> fifo_write)
  BY <1>1 DEF Writes
<1>3. fifo_write => Enabled /\ pc \in {"write1", "write2", "tx"}
  BY Enables DEF Base
<1>4. lsr6r' => tf'.count = 0 /\ ~tf_push' /\ tstate' = "idle"
  BY <1>1, <1>2, LineAfter, CountAfter, StaysIdle DEF ThreInv, TemtInv
<1>5. pc' = "xmitr" /\ ack' /\ dat_o'.temt => lsr6r'
  <2>1. re_o("lsr") => dat_o'.temt = lsr6r
    BY <1>1 DEF DatO, Base, TypeOK, TxTypeOK
  <2>2. QED
    BY <1>1, <1>3, <2>1, Kinds, Enables, LineAfter DEF Base
<1>6. pc' \in {"call", "init"} => tf'.count = 0 /\ ~tf_push' /\ tstate' = "idle"
  BY <1>1, <1>2, <1>3, DriverStep, Kinds, CountAfter, StaysIdle DEF TemtInv
<1>7. QED
  BY <1>4, <1>5, <1>6 DEF TemtInv

(* The FIFO neither overflows nor runs dry under the transmitter.          *)
LEMMA LevelStep ==
    ASSUME Base, ThreInv, TemtInv, LevelInv, NEW enable \in BOOLEAN, Clock(enable)
    PROVE  LevelInv'
<1>1. /\ Driver /\ WbEdge /\ TFifo /\ Transmitter(enable) /\ Writes
  BY DEF Clock, TxEdge
<1>2. (tf_push' <=> fifo_write) /\ (tf_push => ack)
  BY <1>1 DEF Writes, Base, DriverInv
<1>3. fifo_write => Enabled /\ pc \in {"write1", "write2", "tx"}
  BY Enables DEF Base
<1>4. /\ tx_reset => tf.count = 0 /\ ~tf_push /\ tstate = "idle"
      /\ tf_pop => tstate = "send"
  BY DEF Base, DriverInv, TemtInv
<1>5. pc' \in {"write1", "write2"} => tf'.count = 0
  BY <1>1, <1>2, Kinds, AckStep, CountAfter DEF ThreInv, ThreHonest
<1>6. pc' = "tx" => tf'.count + One(tf_push') <= Depth - burst' + One(ack')
  <2>1. burst \in 0 .. Depth /\ burst' \in 0 .. Depth
    BY <1>1, DriverStep DEF Base, TypeOK
  <2>2. tf'.count \in 0 .. Depth /\ tf.count \in 0 .. Depth
    BY <1>1, CountAfter
  <2>3. tf'.count <= tf.count + One(tf_push)
    BY <1>1, <2>2, CountAfter DEF One
  <2>4. CASE ~ack /\ UNCHANGED <<pc, burst>>
    <3>1. pc' = "tx" => tf.count <= Depth - burst
      BY <1>2, <2>1, <2>2, <2>4, Constants DEF LevelInv, One
    <3>2. (tf_push' => ack') /\ ~tf_push
      BY <1>1, <1>2, <1>3, <2>4, Kinds
    <3>3. QED
      BY <2>1, <2>2, <2>3, <2>4, <3>1, <3>2, Constants DEF One
  <2>5. CASE ~Enabled /\ ack /\ Active(rq) /\ Acknowledged
    <3>1. ~tf_push' /\ ~ack'
      BY <1>1, <1>2, <1>3, <2>5, Kinds
    <3>2. CASE pc = "msr" /\ dat_o.thre /\ burst' = Depth
      <4>1. tf'.count = 0
        BY <1>1, <3>2, CountAfter DEF ThreInv, ThreHonest
      <4>2. QED
        BY <3>1, <3>2, <4>1, Constants DEF One
    <3>3. CASE pc = "tx" /\ burst' = burst - 1
      <4>1. tf.count + One(tf_push) <= Depth - burst + 1
        BY <2>5, <3>3 DEF LevelInv, One
      <4>2. QED
        BY <2>1, <2>2, <2>3, <3>1, <3>3, <4>1, Constants DEF One
    <3>4. QED
      BY <2>5, <3>2, <3>3, AckStep
  <2>6. QED
    BY <1>1, <2>4, <2>5, Kinds
<1>7. tf_push' => tf'.count < Depth
  <2>1. tf_push' => pc' \in {"write1", "write2", "tx"} /\ ack'
    BY DriverInvStep DEF DriverInv
  <2>2. CASE pc' \in {"write1", "write2"}
    BY <1>5, <2>2, Constants
  <2>3. CASE pc' = "tx"
    <3>1. burst' \in Nat /\ burst' > 0
      BY <1>1, <2>3, DriverStep
    <3>2. tf'.count \in Nat
      BY <1>1, CountAfter
    <3>3. tf_push' => tf'.count + 1 <= Depth - burst' + 1
      BY <1>6, <2>1, <2>3 DEF One
    <3>4. QED
      BY <3>1, <3>2, <3>3, Constants
  <2>4. QED
    BY <2>1, <2>2, <2>3
<1>8. tstate = "pop" => tf'.count > 0
  BY <1>1, <1>4, CountAfter DEF LevelInv, One
<1>9. tf_pop' => tf'.count > 0
  BY <1>1, <1>8 DEF Transmitter, Loads
<1>10. tstate' = "pop" => tf'.count > 0
  <2>1. tstate' = "pop" => tstate = "pop" \/ (tstate = "idle" /\ tf.count # 0)
    BY <1>1 DEF Transmitter, Base, TypeOK, TxTypeOK
  <2>2. tstate = "idle" /\ tf.count # 0 => tf'.count > 0
    BY <1>1, <1>4, CountAfter DEF One
  <2>3. QED
    BY <1>8, <2>1, <2>2
<1>11. QED
  BY <1>5, <1>6, <1>7, <1>9, <1>10 DEF LevelInv, One
-----------------------------------------------------------------------------
(* The i-th place of the ring after b.                                     *)
Pos(b, i) == IF b + i < Depth THEN b + i ELSE b + i - Depth

(* Walking the ring.                                                       *)
LEMMA PosFacts ==
    ASSUME NEW b \in 0 .. Depth - 1, NEW i \in Nat, NEW j \in Nat, i + j <= Depth
    PROVE  /\ Pos(b, i) \in 0 .. Depth - 1
           /\ Pos(Pos(b, j), i) = Pos(b, j + i)
           /\ Pos(b, 0) = b
BY Constants DEF Pos

(* Places less than a round apart are different.                           *)
LEMMA PosDistinct ==
    ASSUME NEW b \in 0 .. Depth - 1, NEW i \in Nat, NEW j \in Nat, i < j, j < Depth
    PROVE  Pos(b, i) # Pos(b, j)
BY Constants DEF Pos

(* One place on.                                                           *)
LEMMA PosWrap ==
    ASSUME NEW b \in 0 .. Depth - 1
    PROVE  Pos(b, 1) = Wrap(b)
BY WrapIs, Constants DEF Pos

(* What is owed is what the FIFO holds: without the character that has     *)
(* been taken and not yet removed, with the one that is on its way in.     *)
QueueInv ==
    /\ tf.top = Pos(tf.bottom, tf.count)
    /\ Len(owed) = (tf.count - One(tf_pop)) + One(tf_push)
    /\ \A i \in 1 .. (tf.count - One(tf_pop)) :
         owed[i] = tf.ram[Pos(tf.bottom, (i - 1) + One(tf_pop))]
    /\ tf_push => owed[Len(owed)] = is.dat

(* After an edge the FIFO holds exactly what was owed before it.           *)
LEMMA QueueEdge ==
    ASSUME Base, TemtInv, LevelInv, QueueInv, TFifo
    PROVE  /\ tf'.top = Pos(tf'.bottom, tf'.count)
           /\ Len(owed) = tf'.count
           /\ \A i \in 1 .. tf'.count : owed[i] = tf'.ram[Pos(tf'.bottom, i - 1)]
<1> DEFINE pop == One(tf_pop)
           push == One(tf_push)
<1>1. /\ tf.ram \in [0 .. Depth - 1 -> Char] /\ tf.top \in 0 .. Depth - 1
      /\ tf.bottom \in 0 .. Depth - 1 /\ tf.count \in 0 .. Depth
      /\ tf'.count \in 0 .. Depth /\ tf'.bottom \in 0 .. Depth - 1
      /\ tf_push \in BOOLEAN /\ tf_pop \in BOOLEAN
  BY FifoTypes DEF Base, TypeOK, TxTypeOK
<1>2. pop \in {0, 1} /\ push \in {0, 1}
  BY <1>1 DEF One
<1>3. pop <= tf.count /\ tf.count + push <= Depth
  BY <1>1, Constants DEF LevelInv, One
<1>4. tf.top = Pos(tf.bottom, tf.count) /\ Len(owed) = (tf.count - pop) + push
  BY DEF QueueInv
<1>5. CASE tx_reset
  <2>1. tf.count = 0 /\ ~tf_push
    BY <1>5 DEF Base, DriverInv, TemtInv
  <2>2. ~tf_pop
    BY <2>1 DEF LevelInv
  <2>3. Len(owed) = 0
    BY <1>4, <2>1, <2>2 DEF One
  <2>4. QED
    BY <1>5, <2>3, FifoFields, Constants DEF Pos
<1>6. CASE ~tx_reset
  <2>1. (FifoIn <=> tf_push) /\ (FifoOut <=> tf_pop)
    BY <1>1, Constants DEF LevelInv, FifoIn, FifoOut
  <2>2. tf'.bottom = Pos(tf.bottom, pop) /\ tf'.top = Pos(tf.top, push)
    BY <1>1, <1>6, <2>1, FifoFields, PosWrap, PosFacts, Constants, SMTT(30) DEF One
  <2>3. tf'.count = (tf.count + push) - pop
    BY <1>6, CountAfter
  <2> HIDE DEF pop, push
  <2>4. tf'.top = Pos(tf.bottom, tf.count + push)
    <3>1. tf.count \in Nat /\ push \in Nat /\ push + tf.count <= Depth
      BY <1>1, <1>2, <1>3, Constants
    <3>2. Pos(Pos(tf.bottom, tf.count), push) = Pos(tf.bottom, tf.count + push)
      BY <1>1, <3>1, PosFacts
    <3>3. QED
      BY <1>4, <2>2, <3>2
  <2>5. ASSUME NEW i \in Nat, i + pop <= Depth
        PROVE  Pos(tf'.bottom, i) = Pos(tf.bottom, pop + i)
    BY <1>1, <1>2, <2>2, <2>5, PosFacts
  <2>6. tf'.top = Pos(tf'.bottom, tf'.count)
    <3>1. tf'.count + pop <= Depth /\ pop + tf'.count = tf.count + push
      BY <1>1, <1>2, <1>3, <2>3, Constants
    <3>2. QED
      BY <1>1, <2>4, <2>5, <3>1
  <2>7. ASSUME NEW i \in 1 .. tf'.count
        PROVE  owed[i] = tf'.ram[Pos(tf'.bottom, i - 1)]
    <3>1. /\ i - 1 \in Nat /\ (i - 1) + pop \in Nat /\ (i - 1) + pop <= Depth
          /\ \/ i \in 1 .. (tf.count - pop)
             \/ push = 1 /\ i = Len(owed) /\ (i - 1) + pop = tf.count
      BY <1>1, <1>2, <1>3, <1>4, <2>3, Constants, SMTT(30)
    <3>2. Pos(tf'.bottom, i - 1) = Pos(tf.bottom, (i - 1) + pop)
      BY <1>2, <2>5, <3>1
    <3>3. CASE i \in 1 .. (tf.count - pop)
      <4>1. owed[i] = tf.ram[Pos(tf.bottom, (i - 1) + pop)]
        BY <3>3 DEF QueueInv, pop
      <4>2. (i - 1) + pop < tf.count
        BY <1>1, <1>2, <3>3
      <4>3. tf_push => Pos(tf.bottom, (i - 1) + pop) # tf.top
        <5>1. tf_push => tf.count < Depth
          BY DEF LevelInv
        <5>2. QED
          BY <1>1, <1>4, <3>1, <4>2, <5>1, PosDistinct
      <4>4. Pos(tf.bottom, (i - 1) + pop) \in 0 .. Depth - 1
        BY <1>1, <3>1, PosFacts
      <4>5. QED
        BY <1>1, <3>2, <4>1, <4>3, <4>4, FifoFields DEF FifoRam
    <3>4. CASE push = 1 /\ i = Len(owed) /\ (i - 1) + pop = tf.count
      <4>1. tf_push
        BY <3>4 DEF push, One
      <4>2. owed[i] = is.dat
        BY <3>4, <4>1 DEF QueueInv
      <4>3. tf'.ram[tf.top] = is.dat
        BY <1>1, <4>1, FifoFields DEF FifoRam
      <4>4. QED
        BY <1>4, <3>2, <3>4, <4>2, <4>3
    <3>5. QED
      BY <3>1, <3>3, <3>4
  <2>8. Len(owed) = tf'.count
    BY <1>1, <1>2, <1>4, <2>3, Constants
  <2>9. QED
    BY <2>6, <2>7, <2>8
<1>7. QED
  BY <1>5, <1>6

(* Every edge keeps QueueInv: what is written is owed from the enable,     *)
(* what is taken is owed no more from the clock in which it is loaded.     *)
LEMMA QueueStep ==
    ASSUME Base, ThreInv, TemtInv, LevelInv, QueueInv,
           NEW enable \in BOOLEAN, Clock(enable)
    PROVE  QueueInv'
<1>1. /\ Driver /\ WbEdge /\ TFifo /\ Transmitter(enable) /\ Writes /\ Owed(enable)
  BY DEF Clock, TxEdge
<1>2. /\ owed \in Seq(Char) /\ tf'.count \in 0 .. Depth
      /\ Len(owed) = tf'.count
      /\ \A i \in 1 .. tf'.count : owed[i] = tf'.ram[Pos(tf'.bottom, i - 1)]
      /\ tf'.top = Pos(tf'.bottom, tf'.count)
  BY <1>1, QueueEdge, FifoTypes DEF Base, TypeOK, TxTypeOK
<1>3. /\ tf_push' <=> fifo_write
      /\ tf_pop' <=> Loads(enable)
  BY <1>1 DEF Writes, Transmitter
<1>4. tf_pop' => tf'.count > 0
  BY LevelStep DEF LevelInv
<1> DEFINE pop == One(tf_pop')
           left == IF tf_pop' THEN Tail(owed) ELSE owed
<1>5. pop \in {0, 1} /\ pop <= tf'.count
  BY <1>2, <1>4, Constants DEF One
<1>6. /\ left \in Seq(Char) /\ Len(left) = tf'.count - pop
      /\ \A i \in 1 .. tf'.count - pop : left[i] = owed[i + pop]
  <2>1. CASE tf_pop'
    <3>1. owed # <<>> /\ pop = 1
      BY <1>2, <1>4, <2>1 DEF One
    <3>2. left = Tail(owed)
      BY <2>1
    <3>3. left \in Seq(Char) /\ Len(left) = Len(owed) - 1
      BY <1>2, <3>1, <3>2
    <3>4. ASSUME NEW i \in 1 .. Len(owed) - 1 PROVE left[i] = owed[i + 1]
      BY <1>2, <3>1, <3>2
    <3>5. QED
      BY <1>2, <3>1, <3>3, <3>4
  <2>2. CASE ~tf_pop'
    BY <1>2, <2>2 DEF One
  <2>3. QED
    BY <2>1, <2>2
<1>7. ASSUME NEW i \in 1 .. tf'.count - pop
      PROVE  left[i] = tf'.ram[Pos(tf'.bottom, (i - 1) + pop)]
  <2> HIDE DEF left, pop
  <2>1. i + pop \in 1 .. tf'.count /\ (i + pop) - 1 = (i - 1) + pop
    BY <1>2, <1>5, <1>7, Constants
  <2>2. QED
    BY <1>2, <1>6, <2>1
<1>8. owed' = IF we_o("fcr") THEN <<>>
              ELSE IF fifo_write THEN Append(left, is.dat) ELSE left
  <2>1. tf_pop' => owed # <<>>
    BY <1>2, <1>4
  <2>2. QED
    BY <1>1, <1>3, <2>1 DEF Owed
<1> HIDE DEF left, pop
<1>9. CASE we_o("fcr")
  <2>1. Enabled /\ pc = "init"
    BY <1>9, Enables DEF Base
  <2>2. ~fifo_write
    BY <2>1, Enables DEF Base
  <2>3. tf'.count = 0
    BY <1>1, <2>1, CountAfter DEF TemtInv
  <2>4. ~tf_pop' /\ ~tf_push'
    BY <1>3, <1>4, <2>2, <2>3
  <2>5. owed' = <<>>
    BY <1>8, <1>9
  <2>6. QED
    BY <1>2, <2>3, <2>4, <2>5 DEF QueueInv, One
<1>10. CASE fifo_write
  <2>1. Enabled /\ ~we_o("fcr")
    BY <1>10, Enables DEF Base
  <2>2. is' = is /\ is.dat \in Char
    BY <1>1, <1>10, <2>1, Enables DEF WbEdge, Enabled, Base
  <2>3. owed' = Append(left, is.dat) /\ tf_push'
    BY <1>3, <1>8, <1>10, <2>1
  <2>4. Len(owed') = (tf'.count - pop) + 1
    BY <1>6, <2>2, <2>3
  <2>5. owed'[Len(owed')] = is'.dat
    BY <1>6, <2>2, <2>3
  <2>6. ASSUME NEW i \in 1 .. tf'.count - pop
        PROVE  owed'[i] = tf'.ram[Pos(tf'.bottom, (i - 1) + pop)]
    BY <1>6, <1>7, <2>2, <2>3
  <2>7. QED
    BY <1>2, <2>3, <2>4, <2>5, <2>6 DEF QueueInv, One, pop
<1>11. CASE ~we_o("fcr") /\ ~fifo_write
  <2>1. owed' = left /\ ~tf_push'
    BY <1>3, <1>8, <1>11
  <2>2. Len(owed') = tf'.count - pop /\ tf'.count - pop \in Nat
    BY <1>2, <1>5, <1>6, <2>1
  <2>3. ASSUME NEW i \in 1 .. tf'.count - pop
        PROVE  owed'[i] = tf'.ram[Pos(tf'.bottom, (i - 1) + pop)]
    BY <1>7, <2>1
  <2>4. QED
    BY <1>2, <2>1, <2>2, <2>3 DEF QueueInv, One, pop
<1>12. QED
  BY <1>9, <1>10, <1>11
-----------------------------------------------------------------------------
(* The inductive invariant of the two drivers and the transmitter.         *)
SendInv == Base /\ (Safe => ThreInv /\ TemtInv /\ LevelInv /\ QueueInv)

(* All parts of the invariant hold initially.                              *)
LEMMA SendInit ==
    ASSUME Init
    PROVE  SendInv
<1> USE Constants DEF Init, TxInit, WbInit
<1>1. TypeOK
  <2>1. rq \in [we : BOOLEAN, reg : Regs, dat : Nat]
        /\ is \in [we : BOOLEAN, reg : Regs, dat : Nat]
    BY DEF NoRq, Rq, Regs
  <2>2. /\ tf \in [ram : [0 .. Depth - 1 -> Char], top : 0 .. Depth - 1,
                   bottom : 0 .. Depth - 1, count : 0 .. Depth]
    <3>1. (CHOOSE ch \in Char : TRUE) \in Char
      BY TxAssumption
    <3>2. QED
      BY <3>1 DEF EmptyFifo
  <2>3. WbTypeOK
    <3>1. wbstate \in 0 .. 2 /\ pulses \in 0 .. 2
      OBVIOUS
    <3>2. QED
      BY <2>1, <3>1, Zenon DEF WbTypeOK
  <2>4. /\ owed \in Seq(Char)
        /\ dat_o \in [thre : BOOLEAN, temt : BOOLEAN, iir : {"thre", "none"}]
    OBVIOUS
  <2>5. TxTypeOK
    BY <2>2, <2>3, <2>4 DEF TxTypeOK
  <2>6. QED
    <3>1. xmit \in 0 .. Size /\ next \in Char /\ burst \in 0 .. Depth
      OBVIOUS
    <3>2. pc \in PutcPcs \cup LinuxPcs /\ c \in PutChars
      BY SendAssumption DEF PutcPcs, LinuxPcs
    <3>3. QED
      BY <2>5, <3>1, <3>2, Zenon DEF TypeOK
<1>2. ~Active(rq) /\ ~Active(is)
  BY DEF NoRq, Rq, Active
<1>3. WbPhase
  BY <1>2 DEF WbPhase, Sampling
<1>4. DriverInv
  BY <1>2 DEF DriverInv
<1>5. tf.count = 0 /\ tf.bottom = 0 /\ tf.top = 0
  BY DEF EmptyFifo
<1>6. ThreInv /\ TemtInv /\ LevelInv
  BY <1>5 DEF ThreInv, ThreHonest, TemtInv, LevelInv
<1>7. QueueInv
  BY <1>5 DEF QueueInv, One, Pos
<1>8. QED
  BY <1>1, <1>3, <1>4, <1>6, <1>7 DEF SendInv, Base

(* The invariant is inductive.                                             *)
LEMMA SendStep ==
    ASSUME SendInv, [Next]_vars
    PROVE  SendInv'
<1>1. CASE Next
  <2>1. PICK enable \in BOOLEAN : Clock(enable)
    BY <1>1 DEF Next
  <2>2. Driver /\ WbEdge /\ Base
    BY <2>1 DEF Clock, SendInv
  <2>3. Base'
    BY <2>1, <2>2, TypeStep, PhaseStep, DriverInvStep DEF Base
  <2>4. Safe' => Safe
    BY <2>2, DriverStep DEF Safe
  <2>5. ASSUME Safe PROVE ThreInv' /\ TemtInv' /\ LevelInv' /\ QueueInv'
    BY <2>1, <2>2, <2>5, ThreStep, TemtStep, LevelStep, QueueStep DEF SendInv
  <2>6. QED
    BY <2>3, <2>4, <2>5 DEF SendInv
<1>2. CASE UNCHANGED vars
  <2>1. /\ UNCHANGED wbVars /\ UNCHANGED txVars /\ UNCHANGED linux /\ UNCHANGED <<pc, c>>
    BY <1>2 DEF vars
  <2>2. Base'
    <3>1. TypeOK'
      BY <2>1 DEF SendInv, Base, TypeOK, TxTypeOK, WbTypeOK, wbVars, txVars, linux
    <3>2. WbPhase'
      BY <2>1 DEF SendInv, Base, WbPhase, Sampling, Enabled, Answered, Withdrawn, Active,
                  wbVars
    <3>3. Access' = Access
      BY <2>1 DEF Access, Read, Write, Rq, linux
    <3>4. DriverInv'
      BY <2>1, <3>3 DEF SendInv, Base, DriverInv, Active, wbVars, txVars, linux
    <3>5. QED
      BY <3>1, <3>2, <3>4 DEF Base
  <2>3. Safe' => Safe
    BY <2>1 DEF Safe
  <2>4. ASSUME Safe PROVE ThreInv' /\ TemtInv' /\ LevelInv'
    BY <2>1, <2>4 DEF SendInv, ThreInv, ThreHonest, TemtInv, LevelInv, One, wbVars, txVars,
                      linux
  <2>5. ASSUME Safe PROVE QueueInv'
    BY <2>1, <2>5 DEF SendInv, QueueInv, One, Pos, wbVars, txVars
  <2>6. QED
    BY <2>2, <2>3, <2>4, <2>5 DEF SendInv
<1>3. QED
  BY <1>1, <1>2

(* The invariant holds: the drivers, the bus interface, the FIFO and the   *)
(* transmitter agree on what is where.                                     *)
THEOREM SendInvariant == Spec => []SendInv
BY SendInit, SendStep, PTL DEF Spec

(* The types of the transmitter and its drivers.                           *)
THEOREM SendTypeCorrect == Spec => []TypeOK
<1>1. SendInv => TypeOK
  BY DEF SendInv, Base
<1>2. QED
  BY <1>1, SendInvariant, PTL

(* A register with side effects is touched once per acknowledged access.   *)
THEOREM RegistersOnce == Spec => []AccessOnce
<1>1. SendInv => AccessOnce
  BY DEF SendInv, Base, AccessOnce, WbPhase, Sampling, Enabled, Answered, Withdrawn
<1>2. QED
  BY <1>1, SendInvariant, PTL

(* THRE is never set while the FIFO holds a character or one is on its way *)
(* to it: for the polled driver always, for the interrupt driven one if    *)
(* block_cnt outlasts a burst.                                             *)
THEOREM ThreIsHonest == Spec => [](InTime \/ pc \in PutcPcs => ThreHonest)
<1>1. SendInv => (InTime \/ pc \in PutcPcs => ThreHonest)
  BY DEF SendInv, Safe, ThreInv
<1>2. QED
  BY <1>1, SendInvariant, PTL

(* uart_putc returns only when its characters have left the UART, whatever *)
(* the speed of the line: uart_init may clear the FIFO after it.           *)
THEOREM PutcWaits == Spec => []PutcComplete
<1>1. SendInv => PutcComplete
  <2> SUFFICES ASSUME SendInv, pc \in {"call", "init"}
               PROVE  owed = <<>> /\ tf.count = 0 /\ tstate = "idle"
    BY DEF PutcComplete
  <2>1. TemtInv /\ LevelInv /\ QueueInv
    BY DEF SendInv, Safe, PutcPcs
  <2>2. tf.count = 0 /\ tstate = "idle" /\ ~tf_push /\ ~tf_pop
    BY <2>1 DEF TemtInv, LevelInv
  <2>3. Len(owed) = 0
    BY <2>1, <2>2 DEF QueueInv, One
  <2>4. owed \in Seq(Char)
    BY DEF SendInv, Base, TypeOK, TxTypeOK
  <2>5. QED
    BY <2>2, <2>3, <2>4
<1>2. QED
  BY <1>1, SendInvariant, PTL

(* What is sent is what was written, in that order, each character once    *)
(* and none lost, if block_cnt outlasts a burst.                           *)
THEOREM SentInOrder ==
    ASSUME InTime
    PROVE  Spec => TxInOrder
<1>1. ASSUME SendInv, Next, tstate = "pop", tstate' = "send"
      PROVE  owed # <<>> /\ shift' = Head(owed)
  <2>1. PICK enable \in BOOLEAN : Transmitter(enable)
    BY <1>1 DEF Next, Clock, TxEdge
  <2>2. shift' = tf.ram[tf.bottom]
    BY <1>1, <2>1 DEF Transmitter, Loads, tf_data_out
  <2>3. Base /\ LevelInv /\ QueueInv
    BY <1>1 DEF SendInv, Safe
  <2>4. /\ owed \in Seq(Char) /\ tf.count \in 0 .. Depth /\ tf.bottom \in 0 .. Depth - 1
        /\ tf.count > 0 /\ ~tf_pop
    BY <1>1, <2>3 DEF Base, TypeOK, TxTypeOK, DriverInv, LevelInv
  <2>5. Len(owed) >= 1
    BY <2>3, <2>4, Constants DEF QueueInv, One
  <2>6. owed[1] = tf.ram[tf.bottom]
    <3>1. owed[1] = tf.ram[Pos(tf.bottom, (1 - 1) + One(tf_pop))]
      BY <2>3, <2>4, Constants DEF QueueInv, One
    <3>2. QED
      BY <2>4, <3>1, PosFacts, Constants DEF One, Pos
  <2>7. QED
    BY <2>2, <2>4, <2>5, <2>6
<1>2. SendInv /\ [Next]_vars =>
        [tstate = "pop" /\ tstate' = "send" => owed # <<>> /\ shift' = Head(owed)]_
          <<tstate, shift, owed>>
  BY <1>1 DEF vars, txVars
<1>3. QED
  BY <1>2, SendInvariant, PTL DEF Spec, TxInOrder
=============================================================================
