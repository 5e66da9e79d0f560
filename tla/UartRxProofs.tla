--------------------------- MODULE UartRxProofs ----------------------------
(***************************************************************************)
(* Proofs about the receiving half of the UART and the two drivers that    *)
(* read it, for every depth, trigger level and rate of arrival.            *)
(*                                                                         *)
(* A character leaves the FIFO in three clocks: the read enable, the       *)
(* acknowledge, in which rf_pop is up, and the edge that removes it; a     *)
(* character may arrive in each of them.  FlowInv says that the drivers    *)
(* start such a read only when there is a character and that bit 0 of the  *)
(* line status register follows the level; StoreInv that the ring holds    *)
(* what was received and not read, in order.  The second needs that no     *)
(* character arrives at a full FIFO, since the RAM is written even then.   *)
(***************************************************************************)
EXTENDS UartRx, TLAPS

(* What the constants are.                                                 *)
LEMMA Constants == /\ Depth \in Nat \ {0} /\ Chars \in Nat \ {0} /\ MinGap \in Nat \ {0}
                   /\ MayErr \subseteq BOOLEAN
BY RxAssumption

(* A number that is counted round does not leave its range.                *)
LEMMA RoundTypes ==
    ASSUME NEW n \in Nat \ {0}, NEW p \in 0 .. n - 1
    PROVE  (p + 1) % n = IF p + 1 = n THEN 0 ELSE p + 1
<1>1. CASE p + 1 < n
  BY <1>1
<1>2. CASE p + 1 = n
  BY <1>2
<1>3. QED
  BY <1>1, <1>2

(* The next slot of the ring.                                              *)
LEMMA WrapIs ==
    ASSUME NEW p \in Slots
    PROVE  Wrap(p) = (IF p + 1 = Depth THEN 0 ELSE p + 1) /\ Wrap(p) \in Slots
BY RoundTypes, Constants DEF Wrap, Slots

(* The bus side of a step.                                                 *)
LEMMA BusHolds ==
    ASSUME Driver
    PROVE  /\ Active(rq) /\ ~ack => rq' = rq /\ pc' = pc
           /\ Active(rq) /\ ack => rq' = NoRq /\ pc' = After
           /\ ~Active(rq) /\ pc = "run" => rq' = NoRq /\ pc' \in {"run", "iir", "lsr"}
           /\ ~Active(rq) /\ pc # "run" => rq' \in {NoRq, Read(pc)} /\ pc' = pc
           /\ ~Active(NoRq)
BY DEF Driver, Active, NoRq, Rq

(* Each access makes one enable: see WbPhase.                              *)
LEMMA PhaseStep ==
    ASSUME WbPhase, Driver, WbEdge
    PROVE  WbPhase'
<1> USE DEF WbPhase
<1>1. CASE Sampling /\ Active(rq)
  <2>1. /\ rq' = rq /\ is' = rq /\ wbstate' = 0 /\ ~ack' /\ wre' /\ pulses' = 0
    BY <1>1, BusHolds DEF Sampling, WbEdge
  <2>2. QED
    BY <1>1, <2>1 DEF Enabled, Active
<1>2. CASE Sampling /\ ~Active(rq)
  <2>1. /\ is' = rq /\ wbstate' = 0 /\ ~ack'
        /\ pulses' = IF Active(rq') THEN 0 ELSE pulses
    BY <1>2 DEF Sampling, WbEdge
  <2>2. QED
    BY <1>2, <2>1 DEF Sampling, Active
<1>3. CASE Enabled
  <2>1. /\ rq' = rq /\ is' = rq /\ wbstate' = 1 /\ ack' /\ ~wre' /\ pulses' = 1
    BY <1>3, BusHolds DEF Enabled, WbEdge
  <2>2. QED
    BY <1>3, <2>1 DEF Enabled, Answered, Active
<1>4. CASE Answered
  <2>1. /\ ~Active(rq') /\ wbstate' = 2 /\ ~ack' /\ ~wre' /\ pulses' = 1
    BY <1>4, BusHolds DEF Answered, WbEdge
  <2>2. QED
    BY <2>1 DEF Withdrawn, Active
<1>5. CASE Withdrawn
  <2>1. /\ is' = rq /\ wbstate' = 0 /\ ~ack'
        /\ pulses' = IF Active(rq') THEN 0 ELSE pulses
    BY <1>5 DEF Withdrawn, WbEdge
  <2>2. QED
    BY <1>5, <2>1 DEF Withdrawn, Sampling, Active
<1>6. QED
  BY <1>1, <1>2, <1>3, <1>4, <1>5

(* The point at which the driver is belongs to the access on the bus.      *)
AtInv ==
    /\ pc \in {"run", "iir", "lsr", "rx", "msr"}
    /\ Active(rq) => pc # "run" /\ rq = Read(pc)
    /\ rf_pop => ack /\ pc = "rx"
    /\ ~linux => pc \in {"run", "lsr", "rx"}

Base == TypeOK /\ WbPhase /\ AtInv

(* Which enable is up, and at which point of the driver.                   *)
LEMMA Enables ==
    ASSUME WbPhase, AtInv
    PROVE  /\ fifo_read <=> Enabled /\ pc = "rx"
           /\ lsr_mask <=> Enabled /\ pc = "lsr"
<1>1. CASE Sampling \/ Withdrawn
  BY <1>1 DEF fifo_read, lsr_mask, re_o, Sampling, Enabled, Withdrawn, Active
<1>2. CASE Enabled \/ Answered
  <2>1. is = Read(pc)
    BY <1>2 DEF Enabled, Answered, AtInv
  <2>2. QED
    BY <1>2, <2>1 DEF fifo_read, lsr_mask, re_o, Enabled, Answered, AtInv, Read, Rq
<1>3. QED
  BY <1>1, <1>2 DEF WbPhase

(* The kinds of steps of the drivers.                                      *)
LEMMA Kinds ==
    ASSUME WbPhase, AtInv, Driver, WbEdge, linux \in BOOLEAN
    PROVE  /\ ack' <=> Enabled
           /\ Enabled => ~ack /\ pc' = pc
           /\ \/ ~ack /\ pc' = pc
              \/ ~Enabled /\ ack /\ pc' = After
              \/ ~Enabled /\ ~ack /\ pc = "run" /\ pc' \in {"run", "iir", "lsr"}
           /\ pc' \in {"run", "iir", "lsr", "rx", "msr"}
           /\ pc' = "rx" => (pc = "rx" /\ ~ack) \/ (pc = "lsr" /\ ack /\ dat_o.lsr.dr)
<1>1. ack' <=> Enabled
  BY DEF WbPhase, WbEdge, Sampling, Enabled, Answered, Withdrawn
<1>2. (ack => Active(rq)) /\ (Enabled => ~ack /\ Active(rq))
  BY DEF WbPhase, Sampling, Enabled, Answered, Withdrawn
<1>3. CASE Active(rq) /\ ack
  BY <1>1, <1>2, <1>3, BusHolds DEF After, LinuxAfter, GetcAfter, AtInv
<1>4. CASE Active(rq) /\ ~ack
  BY <1>1, <1>2, <1>4, BusHolds DEF AtInv
<1>5. CASE ~Active(rq)
  BY <1>1, <1>2, <1>5, BusHolds DEF AtInv
<1>6. QED
  BY <1>3, <1>4, <1>5

(* A received character with its error flag.                               *)
Character == [dat : 0 .. Chars - 1, err : BOOLEAN]

(* Sequences keep the type of their elements.                              *)
LEMMA SeqTypes ==
    ASSUME NEW S, NEW q \in Seq(S), NEW e \in S
    PROVE  /\ q # <<>> => Head(q) \in S /\ Tail(q) \in Seq(S)
           /\ Append(q, e) \in Seq(S) /\ <<>> \in Seq(S) /\ <<e>> \in Seq(S)
OBVIOUS

(* Every edge keeps AtInv.                                                 *)
LEMMA AtStep ==
    ASSUME WbPhase, AtInv, Driver, WbEdge, Reads, linux \in BOOLEAN, linux' = linux
    PROVE  AtInv'
<1>1. pc' \in {"run", "iir", "lsr", "rx", "msr"}
  BY Kinds
<1>2. Active(rq') => pc' # "run" /\ rq' = Read(pc')
  BY BusHolds DEF AtInv
<1>3. rf_pop' => ack' /\ pc' = "rx"
  BY Kinds, Enables DEF Reads
<1>4. ~linux => pc' \in {"run", "lsr", "rx"}
  <2>1. CASE Active(rq) /\ ack
    BY <2>1, BusHolds DEF After, GetcAfter
  <2>2. CASE ~(Active(rq) /\ ack)
    BY <2>2 DEF Driver, AtInv
  <2>3. QED
    BY <2>1, <2>2
<1>5. QED
  BY <1>1, <1>2, <1>3, <1>4 DEF AtInv, Active, Read, Rq

(* The FIFO after an edge, field by field.                                 *)
FifoIn(push) == push /\ (rf_pop \/ rf.count < Depth)
FifoOut(push) == rf_pop /\ (push \/ rf.count > 0)

LEMMA FifoFields ==
    ASSUME NEW push \in BOOLEAN, NEW ch \in Character, RFifo(push, ch)
    PROVE  /\ rf' = [ram |-> rf'.ram, fifo |-> rf'.fifo, top |-> rf'.top,
                     bottom |-> rf'.bottom, count |-> rf'.count]
           /\ rf'.ram = IF push THEN [rf.ram EXCEPT ![rf.top] = ch.dat] ELSE rf.ram
           /\ rf'.fifo = IF FifoIn(push) THEN [rf.fifo EXCEPT ![rf.top] = ch.err]
                         ELSE IF FifoOut(push) THEN [rf.fifo EXCEPT ![rf.bottom] = FALSE]
                         ELSE rf.fifo
           /\ rf'.top = IF FifoIn(push) THEN Wrap(rf.top) ELSE rf.top
           /\ rf'.bottom = IF FifoOut(push) THEN Wrap(rf.bottom) ELSE rf.bottom
           /\ rf'.count = IF FifoIn(push) /\ FifoOut(push) THEN rf.count
                          ELSE IF FifoIn(push) THEN rf.count + 1
                          ELSE IF FifoOut(push) THEN rf.count - 1 ELSE rf.count
BY DEF RFifo, FifoIn, FifoOut

(* The FIFO keeps its types: an entry is counted in only where there is    *)
(* room and out only where there is one.                                   *)
LEMMA FifoTypes ==
    ASSUME TypeOK, NEW push \in BOOLEAN,
           NEW ch \in Character, RFifo(push, ch)
    PROVE  rf' \in [ram : [Slots -> 0 .. Chars - 1], fifo : [Slots -> BOOLEAN],
                    top : Slots, bottom : Slots, count : 0 .. Depth]
<1> USE Constants
<1>1. /\ rf.ram \in [Slots -> 0 .. Chars - 1] /\ rf.fifo \in [Slots -> BOOLEAN]
      /\ rf.top \in Slots /\ rf.bottom \in Slots /\ rf.count \in 0 .. Depth
  BY DEF TypeOK
<1>2. rf'.ram \in [Slots -> 0 .. Chars - 1]
  BY <1>1, FifoFields, ZenonT(60) DEF Character
<1>3. rf'.fifo \in [Slots -> BOOLEAN]
  <2>1. ch.err \in BOOLEAN
    BY DEF Character
  <2>2. rf'.fifo = IF FifoIn(push) THEN [rf.fifo EXCEPT ![rf.top] = ch.err]
                   ELSE IF FifoOut(push) THEN [rf.fifo EXCEPT ![rf.bottom] = FALSE]
                   ELSE rf.fifo
    BY FifoFields
  <2>3. QED
    BY <1>1, <2>1, <2>2
<1>4. rf'.top \in Slots /\ rf'.bottom \in Slots
  BY <1>1, FifoFields, WrapIs, ZenonT(60)
<1>5. rf'.count \in 0 .. Depth
  <2>1. /\ FifoIn(push) /\ ~FifoOut(push) => rf.count < Depth
        /\ FifoOut(push) /\ ~FifoIn(push) => rf.count > 0
    BY <1>1 DEF FifoIn, FifoOut
  <2>2. rf'.count = IF FifoIn(push) /\ FifoOut(push) THEN rf.count
                    ELSE IF FifoIn(push) THEN rf.count + 1
                    ELSE IF FifoOut(push) THEN rf.count - 1 ELSE rf.count
    BY FifoFields
  <2>3. QED
    BY <1>1, <2>1, <2>2
<1>6. rf' = [ram |-> rf'.ram, fifo |-> rf'.fifo, top |-> rf'.top,
             bottom |-> rf'.bottom, count |-> rf'.count]
  BY FifoFields
<1>7. QED
  BY <1>2, <1>3, <1>4, <1>5, <1>6

(* Every edge keeps the types.                                             *)
LEMMA TypeStep ==
    ASSUME Base, NEW push \in BOOLEAN, NEW err \in BOOLEAN, Clock(push, err)
    PROVE  TypeOK'
<1> USE Constants
<1> DEFINE ch == [dat |-> next, err |-> err]
<1>1. /\ Arrives(push) /\ Driver /\ WbEdge /\ RFifo(push, ch) /\ Timeout(push)
      /\ LineStatus(push) /\ Interrupts /\ Reads /\ History(push, ch) /\ linux' = linux
  BY DEF Clock
<1>2. TypeOK
  BY DEF Base
<1>3. WbTypeOK'
  <2>1. rq' \in [we : BOOLEAN, reg : Regs, dat : Nat]
    <3>1. \A p \in {"iir", "lsr", "rx", "msr"} :
            Read(p) \in [we : BOOLEAN, reg : Regs, dat : Nat]
      BY DEF Read, Rq, Regs
    <3>2. NoRq \in [we : BOOLEAN, reg : Regs, dat : Nat]
      BY DEF NoRq, Rq, Regs
    <3>3. QED
      BY <1>1, <1>2, <3>1, <3>2, BusHolds, SMTT(30) DEF Base, AtInv, TypeOK, WbTypeOK
  <2>2. is' \in [we : BOOLEAN, reg : Regs, dat : Nat]
    BY <1>1, <1>2 DEF WbEdge, TypeOK, WbTypeOK
  <2>3. wbstate' \in 0 .. 2
    BY <1>1 DEF WbEdge
  <2>4. wre' \in BOOLEAN /\ ack' \in BOOLEAN
    BY <1>1, Zenon DEF WbEdge
  <2>5. pulses' \in 0 .. 2
    BY <1>1, <1>2 DEF WbEdge, TypeOK, WbTypeOK
  <2>6. QED
    BY <2>1, <2>2, <2>3, <2>4, <2>5 DEF WbTypeOK
<1>4. ch \in Character
  BY <1>2 DEF TypeOK, Character
<1>5. rf' \in [ram : [Slots -> 0 .. Chars - 1], fifo : [Slots -> BOOLEAN],
               top : Slots, bottom : Slots, count : 0 .. Depth]
  BY <1>1, <1>2, <1>4, FifoTypes
<1>6. overrun' \in BOOLEAN /\ rf_pop' \in BOOLEAN
  BY <1>1, Zenon DEF RFifo, Reads
<1>7. t0' \in BOOLEAN
  BY <1>1, <1>2 DEF Timeout, TypeOK
<1>8. lsr' \in [dr : BOOLEAN, oe : BOOLEAN, fe : BOOLEAN]
      /\ lsr_d' \in [dr : BOOLEAN, oe : BOOLEAN, fe : BOOLEAN]
  BY <1>1, <1>2 DEF LineStatus, lsrCond, TypeOK
<1>9. int_d' \in [rls : BOOLEAN, rda : BOOLEAN, ti : BOOLEAN]
      /\ pnd' \in [rls : BOOLEAN, rda : BOOLEAN, ti : BOOLEAN]
  BY <1>1, <1>2 DEF Interrupts, ints, TypeOK
<1>10. int_o' \in BOOLEAN
  BY <1>1, Zenon DEF Interrupts
<1>11. iir' \in {"rls", "rda", "ti", "none"}
  BY <1>1 DEF Interrupts
<1>12. dat_o' \in [ch : 0 .. Chars - 1, lsr : [dr : BOOLEAN, oe : BOOLEAN, fe : BOOLEAN],
                   iir : {"rls", "rda", "ti", "none"}]
  BY <1>1, <1>2 DEF Reads, TypeOK
<1>13. pc' \in {"run", "iir", "lsr", "rx", "msr"} /\ linux' \in BOOLEAN
  BY <1>1, <1>2, Kinds DEF Base, TypeOK
<1>14. gap' \in 0 .. MinGap
  BY <1>1, <1>2 DEF Arrives, TypeOK
<1>15. next' \in 0 .. Chars - 1
  BY <1>1, <1>2, RoundTypes DEF Arrives, TypeOK
<1>16. queue' \in Seq(Character)
  <2>1. queue \in Seq(Character)
    BY <1>2, Zenon DEF TypeOK, Character
  <2>2. queue # <<>> => Tail(queue) \in Seq(Character)
    BY <1>4, <2>1, SeqTypes
  <2>3. ASSUME NEW q \in Seq(Character) PROVE Append(q, ch) \in Seq(Character)
    BY <1>4, <2>3, SeqTypes
  <2> HIDE DEF ch
  <2>4. QED
    BY <1>1, <2>1, <2>2, <2>3, Zenon DEF History
<1>17. got' \in Seq(Character)
  <2>1. queue \in Seq(Character) /\ got \in Seq(Character)
    BY <1>2, Zenon DEF TypeOK, Character
  <2>2. queue # <<>> => Head(queue) \in Character
    BY <1>4, <2>1, SeqTypes
  <2>3. queue # <<>> => <<Head(queue)>> \in Seq(Character)
    BY <2>1, <2>2, SeqTypes
  <2>4. <<>> \in Seq(Character)
    BY <1>4, <2>1, SeqTypes
  <2>5. QED
    BY <1>1, <2>1, <2>3, <2>4, Zenon DEF History
<1>18. QED
  BY <1>3, <1>5, <1>6, <1>7, <1>8, <1>9, <1>10, <1>11, <1>12, <1>13, <1>14, <1>15,
     <1>16, <1>17, Zenon DEF TypeOK, Character
-----------------------------------------------------------------------------
(* Counting a condition.                                                   *)
One(p) == IF p THEN 1 ELSE 0

(* Bit 0 of the line status register follows the level of the FIFO, and a  *)
(* read of a character is begun only when there is one, which stays there  *)
(* until it is removed.                                                    *)
FlowInv ==
    /\ DataReady
    /\ lsr_d.dr => rf.count > 0
    /\ rf_pop => rf.count > 0
    /\ pc = "rx" /\ ~ack => rf.count > 0
    /\ pc = "lsr" /\ ack /\ dat_o.lsr.dr => rf.count > 0

(* The level of the FIFO after an edge.                                    *)
LEMMA CountAfter ==
    ASSUME TypeOK, FlowInv, NEW push \in BOOLEAN, NEW ch \in Character, RFifo(push, ch)
    PROVE  /\ rf'.count = (rf.count + One(FifoIn(push))) - One(rf_pop)
           /\ rf.count \in 0 .. Depth /\ rf'.count \in 0 .. Depth
           /\ FifoOut(push) <=> rf_pop
<1>1. rf.count \in 0 .. Depth /\ rf'.count \in 0 .. Depth
  BY FifoTypes DEF TypeOK
<1>2. FifoOut(push) <=> rf_pop
  BY <1>1 DEF FifoOut, FlowInv
<1>3. rf'.count = IF FifoIn(push) /\ FifoOut(push) THEN rf.count
                  ELSE IF FifoIn(push) THEN rf.count + 1
                  ELSE IF FifoOut(push) THEN rf.count - 1 ELSE rf.count
  BY FifoFields
<1>4. QED
  BY <1>1, <1>2, <1>3, Constants DEF One

(* Every edge keeps FlowInv: what is pushed and popped in the same clock   *)
(* is counted right.                                                       *)
LEMMA FlowStep ==
    ASSUME Base, FlowInv, NEW push \in BOOLEAN, NEW err \in BOOLEAN, Clock(push, err)
    PROVE  FlowInv'
<1> DEFINE ch == [dat |-> next, err |-> err]
<1>1. /\ Driver /\ WbEdge /\ RFifo(push, ch) /\ LineStatus(push) /\ Reads
      /\ ch \in Character /\ TypeOK /\ WbPhase /\ AtInv /\ linux \in BOOLEAN
  BY Constants DEF Clock, Base, TypeOK, Character
<1> HIDE DEF ch
<1>2. /\ rf'.count = (rf.count + One(FifoIn(push))) - One(rf_pop)
      /\ rf.count \in 0 .. Depth /\ rf'.count \in 0 .. Depth
  BY <1>1, CountAfter
<1>3. rf.count > 0 /\ ~rf_pop => rf'.count > 0
  BY <1>2, Constants DEF One
<1>4. rf_pop => ack /\ pc = "rx"
  BY <1>1 DEF AtInv
<1>5. rf_pop' => rf'.count > 0
  BY <1>1, <1>3, <1>4, Enables, Kinds DEF Reads, FlowInv
<1>6. pc' = "rx" /\ ~ack' => rf'.count > 0
  BY <1>1, <1>3, <1>4, Kinds DEF FlowInv
<1>7. pc' = "lsr" /\ ack' /\ dat_o'.lsr.dr => rf'.count > 0
  <2>1. lsr_mask => dat_o'.lsr = lsr
    BY <1>1 DEF Reads, TypeOK
  <2>2. QED
    BY <1>1, <1>3, <1>4, <2>1, Enables, Kinds DEF FlowInv, DataReady
<1>8. rf.count = 0 /\ push => FifoIn(push) /\ ~rf_pop
  BY <1>2, Constants DEF FifoIn, FlowInv
<1>9. lsr_d'.dr => rf'.count > 0
  <2>1. lsr_d'.dr <=> rf.count = 0 /\ push
    BY <1>1 DEF LineStatus, lsrCond
  <2>2. ASSUME rf.count = 0, push PROVE rf'.count = 1
    BY <1>2, <1>8, <2>2 DEF One
  <2>3. QED
    BY <2>1, <2>2
<1>10. DataReady'
  <2>1. lsr'.dr <=> /\ ~(rf.count = 1 /\ rf_pop /\ ~push)
                    /\ lsr.dr \/ (rf.count = 0 /\ push /\ ~lsr_d.dr)
    BY <1>1 DEF LineStatus, lsrCond
  <2>2. CASE rf.count = 0
    <3>1. lsr'.dr <=> push
      BY <2>1, <2>2 DEF FlowInv, DataReady
    <3>2. rf'.count > 0 <=> push
      BY <1>2, <1>8, <2>2, Constants DEF One, FifoIn, FlowInv
    <3>3. QED
      BY <3>1, <3>2 DEF DataReady
  <2>3. CASE rf.count > 0
    <3>1. lsr'.dr <=> ~(rf.count = 1 /\ rf_pop /\ ~push)
      BY <1>2, <2>1, <2>3 DEF FlowInv, DataReady
    <3>2. rf'.count > 0 <=> ~(rf.count = 1 /\ rf_pop /\ ~push)
      BY <1>2, <2>3, Constants DEF One, FifoIn
    <3>3. QED
      BY <3>1, <3>2 DEF DataReady
  <2>4. QED
    BY <1>2, <2>2, <2>3, Constants
<1>11. QED
  BY <1>5, <1>6, <1>7, <1>9, <1>10 DEF FlowInv
-----------------------------------------------------------------------------
(* The i-th place of the ring after b.                                     *)
Pos(b, i) == IF b + i < Depth THEN b + i ELSE b + i - Depth

(* Walking the ring.                                                       *)
LEMMA PosFacts ==
    ASSUME NEW b \in Slots, NEW i \in Nat, NEW j \in Nat, i + j <= Depth
    PROVE  /\ Pos(b, i) \in Slots
           /\ Pos(Pos(b, j), i) = Pos(b, j + i)
           /\ Pos(b, 0) = b
BY Constants DEF Pos, Slots

(* Places less than a round apart are different.                           *)
LEMMA PosDistinct ==
    ASSUME NEW b \in Slots, NEW i \in Nat, NEW j \in Nat, i < j, j < Depth
    PROVE  Pos(b, i) # Pos(b, j)
BY Constants DEF Pos, Slots

(* One place on.                                                           *)
LEMMA PosWrap ==
    ASSUME NEW b \in Slots
    PROVE  Pos(b, 1) = Wrap(b) /\ Pos(b, 0) = b
BY WrapIs, Constants DEF Pos, Slots

(* The ring holds the characters that were received and not read: all but  *)
(* the one that has been read and not yet removed.                         *)
StoreInv ==
    /\ ReadInOrder
    /\ rf.top = Pos(rf.bottom, rf.count)
    /\ Len(queue) = rf.count - One(rf_pop)
    /\ \A i \in 1 .. (rf.count - One(rf_pop)) :
         queue[i].dat = rf.ram[Pos(rf.bottom, (i - 1) + One(rf_pop))]

(* The ring keeps what is received, through arrivals in any clock of a     *)
(* read.                                                                   *)
LEMMA StoreStep ==
    ASSUME Base, FlowInv, StoreInv, NEW push \in BOOLEAN, NEW err \in BOOLEAN,
           push => rf.count < Depth, Clock(push, err)
    PROVE  StoreInv'
<1> DEFINE ch == [dat |-> next, err |-> err]
           pop == One(rf_pop)
           in == One(push)
           pop1 == One(rf_pop')
<1>1. /\ Driver /\ WbEdge /\ RFifo(push, ch) /\ Reads /\ History(push, ch)
      /\ ch \in Character /\ TypeOK /\ WbPhase /\ AtInv /\ linux \in BOOLEAN
  BY Constants DEF Clock, Base, TypeOK, Character
<1>2. ch.dat = next
  OBVIOUS
<1> HIDE DEF ch
<1>3. /\ rf.ram \in [Slots -> 0 .. Chars - 1] /\ rf.top \in Slots
      /\ rf.bottom \in Slots /\ rf.count \in 0 .. Depth
      /\ rf_pop \in BOOLEAN /\ queue \in Seq(Character)
  BY <1>1 DEF TypeOK, Character
<1>4. FifoIn(push) <=> push
  BY DEF FifoIn
<1>5. /\ rf'.count = (rf.count + in) - pop /\ rf'.count \in 0 .. Depth
      /\ FifoOut(push) <=> rf_pop
  BY <1>1, <1>4, CountAfter DEF One
<1>6. /\ rf'.ram = IF push THEN [rf.ram EXCEPT ![rf.top] = next] ELSE rf.ram
      /\ rf'.top = Pos(rf.top, in) /\ rf'.bottom = Pos(rf.bottom, pop)
  BY <1>1, <1>2, <1>3, <1>4, <1>5, FifoFields, PosWrap DEF One
<1>7. /\ fifo_read => ~rf_pop /\ rf.count > 0
      /\ rf_pop' <=> fifo_read
  BY <1>1, Enables DEF AtInv, Enabled, FlowInv, Reads
<1>8. /\ pop \in {0, 1} /\ in \in {0, 1} /\ pop1 \in {0, 1}
      /\ pop + pop1 <= rf.count /\ rf.count + in <= Depth
  BY <1>3, <1>7, Constants DEF One, FlowInv
<1>9. rf.top = Pos(rf.bottom, rf.count) /\ Len(queue) = rf.count - pop
  BY DEF StoreInv
<1> DEFINE rest == IF fifo_read THEN Tail(queue) ELSE queue
<1>10. /\ rest \in Seq(Character) /\ Len(rest) = (rf.count - pop) - pop1
       /\ \A i \in 1 .. (rf.count - pop) - pop1 : rest[i] = queue[i + pop1]
  <2>1. CASE fifo_read
    <3>1. queue # <<>> /\ pop1 = 1
      BY <1>3, <1>7, <1>9, <2>1 DEF One
    <3>2. rest = Tail(queue)
      BY <2>1
    <3>3. rest \in Seq(Character) /\ Len(rest) = Len(queue) - 1
      BY <1>3, <3>1, <3>2
    <3>4. ASSUME NEW i \in 1 .. Len(queue) - 1 PROVE rest[i] = queue[i + 1]
      BY <1>3, <3>1, <3>2
    <3>5. QED
      BY <1>9, <3>1, <3>3, <3>4
  <2>2. CASE ~fifo_read
    BY <1>3, <1>7, <1>9, <2>2 DEF One
  <2>3. QED
    BY <2>1, <2>2
<1>11. queue' = IF push THEN Append(rest, ch) ELSE rest
  <2>1. fifo_read => queue # <<>>
    BY <1>3, <1>7, <1>9 DEF One
  <2>2. QED
    BY <1>1, <1>4, <2>1 DEF History, FifoIn
<1> HIDE DEF pop, in, pop1, rest
<1>12. Len(queue') = rf'.count - pop1
  <2>1. Len(queue') = Len(rest) + in
    BY <1>1, <1>10, <1>11 DEF in, One
  <2>2. QED
    BY <1>3, <1>5, <1>8, <1>10, <2>1, Constants, SMTT(30)
<1>13. ASSUME NEW k \in Nat, k + pop <= Depth
       PROVE  Pos(rf'.bottom, k) = Pos(rf.bottom, pop + k)
  BY <1>3, <1>6, <1>8, <1>13, PosFacts
<1>14. rf'.top = Pos(rf'.bottom, rf'.count)
  <2>1. rf.count \in Nat /\ in \in Nat /\ in + rf.count <= Depth
    BY <1>3, <1>8, Constants
  <2>2. rf'.top = Pos(rf.bottom, rf.count + in)
    BY <1>3, <1>6, <1>9, <2>1, PosFacts
  <2>3. rf'.count \in Nat /\ rf'.count + pop <= Depth /\ pop + rf'.count = rf.count + in
    BY <1>3, <1>5, <1>8, Constants
  <2>4. QED
    BY <1>13, <2>2, <2>3
<1>15. ASSUME NEW i \in 1 .. (rf'.count - pop1)
       PROVE  queue'[i].dat = rf'.ram[Pos(rf'.bottom, (i - 1) + pop1)]
  <2>1. /\ (i - 1) + pop1 \in Nat /\ ((i - 1) + pop1) + pop <= Depth
        /\ \/ i \in 1 .. (rf.count - pop) - pop1
           \/ in = 1 /\ i = Len(rest) + 1 /\ pop + ((i - 1) + pop1) = rf.count
    <3>1. /\ i \in Nat /\ i >= 1 /\ i <= ((rf.count + in) - pop) - pop1
          /\ rf.count \in Nat /\ Depth \in Nat
      BY <1>3, <1>5, <1>8, Constants
    <3>2. pop \in Nat /\ in \in Nat /\ pop1 \in Nat /\ in <= 1
      BY <1>8
    <3>3. (i - 1) + pop1 \in Nat
      BY <3>1, <3>2
    <3>4. ((i - 1) + pop1) + pop <= Depth
      BY <1>8, <3>1, <3>2
    <3>5. \/ i \in 1 .. (rf.count - pop) - pop1
          \/ /\ in = 1 /\ i = ((rf.count - pop) - pop1) + 1
             /\ pop + ((i - 1) + pop1) = rf.count
      BY <1>8, <3>1, <3>2
    <3>6. QED
      BY <1>10, <3>3, <3>4, <3>5
  <2>2. Pos(rf'.bottom, (i - 1) + pop1) = Pos(rf.bottom, pop + ((i - 1) + pop1))
    BY <1>13, <2>1
  <2>3. CASE i \in 1 .. (rf.count - pop) - pop1
    <3>1. /\ i + pop1 \in 1 .. rf.count - pop
          /\ ((i + pop1) - 1) + pop = pop + ((i - 1) + pop1)
          /\ pop + ((i - 1) + pop1) < rf.count
          /\ pop + ((i - 1) + pop1) \in Nat
      BY <1>3, <1>8, <2>3, Constants, SMTT(30)
    <3>2. queue'[i] = queue[i + pop1]
      BY <1>1, <1>10, <1>11, <2>3
    <3>3. queue'[i].dat = rf.ram[Pos(rf.bottom, pop + ((i - 1) + pop1))]
      BY <3>1, <3>2 DEF StoreInv, pop
    <3>4. push => Pos(rf.bottom, pop + ((i - 1) + pop1)) # rf.top
      BY <1>3, <1>9, <3>1, PosDistinct
    <3>5. Pos(rf.bottom, pop + ((i - 1) + pop1)) \in Slots
      <4>1. (pop + ((i - 1) + pop1)) + 0 <= Depth
        BY <1>3, <3>1, Constants
      <4>2. QED
        BY <1>3, <3>1, <4>1, PosFacts
    <3>6. QED
      BY <1>3, <1>6, <2>2, <3>3, <3>4, <3>5
  <2>4. CASE in = 1 /\ i = Len(rest) + 1 /\ pop + ((i - 1) + pop1) = rf.count
    <3>1. push
      BY <2>4 DEF in, One
    <3>2. queue'[i] = ch
      BY <1>1, <1>10, <1>11, <2>4, <3>1
    <3>3. rf'.ram[rf.top] = next
      BY <1>3, <1>6, <3>1
    <3>4. QED
      BY <1>2, <1>9, <2>2, <2>4, <3>2, <3>3
  <2>5. QED
    BY <2>1, <2>3, <2>4
<1>16. ReadInOrder'
  <2>1. SUFFICES ASSUME pc' = "rx", ack' PROVE got' # <<>> /\ dat_o'.ch = got'[1].dat
    BY DEF ReadInOrder, Taken
  <2>2. fifo_read
    BY <1>1, <2>1, Kinds, Enables
  <2>3. queue # <<>> /\ queue[1].dat = rf.ram[rf.bottom]
    <3>1. ~rf_pop /\ rf.count > 0
      BY <1>7, <2>2
    <3>2. Len(queue) = rf.count /\ queue[1].dat = rf.ram[Pos(rf.bottom, (1 - 1) + 0)]
      BY <1>3, <3>1, Constants DEF StoreInv, One
    <3>3. Pos(rf.bottom, (1 - 1) + 0) = rf.bottom
      BY <1>3, PosWrap
    <3>4. QED
      BY <1>3, <3>1, <3>2, <3>3
  <2>4. got' = <<Head(queue)>>
    BY <1>1, <2>2, <2>3 DEF History
  <2>5. dat_o'.ch = rf.ram[rf.bottom]
    BY <1>1, <2>2 DEF Reads, TypeOK
  <2>6. QED
    BY <1>3, <2>3, <2>4, <2>5
<1>17. QED
  BY <1>12, <1>14, <1>15, <1>16 DEF StoreInv, pop1
-----------------------------------------------------------------------------
(* All parts of the invariant hold initially.                              *)
LEMMA RxInit ==
    ASSUME Init
    PROVE  Base /\ FlowInv /\ StoreInv
<1> USE Constants DEF Init, WbInit
<1>1. TypeOK
  <2>1. rq \in [we : BOOLEAN, reg : Regs, dat : Nat]
        /\ is \in [we : BOOLEAN, reg : Regs, dat : Nat]
    BY DEF NoRq, Rq, Regs
  <2>2. WbTypeOK
    <3>1. wbstate \in 0 .. 2 /\ pulses \in 0 .. 2
      OBVIOUS
    <3>2. QED
      BY <2>1, <3>1, Zenon DEF WbTypeOK
  <2>3. rf \in [ram : [Slots -> 0 .. Chars - 1], fifo : [Slots -> BOOLEAN],
                top : Slots, bottom : Slots, count : 0 .. Depth]
    BY DEF Slots
  <2>4. /\ lsr \in [dr : BOOLEAN, oe : BOOLEAN, fe : BOOLEAN]
        /\ lsr_d \in [dr : BOOLEAN, oe : BOOLEAN, fe : BOOLEAN]
        /\ int_d \in [rls : BOOLEAN, rda : BOOLEAN, ti : BOOLEAN]
        /\ pnd \in [rls : BOOLEAN, rda : BOOLEAN, ti : BOOLEAN]
    BY DEF NoInts
  <2>5. dat_o \in [ch : 0 .. Chars - 1, lsr : [dr : BOOLEAN, oe : BOOLEAN, fe : BOOLEAN],
                   iir : {"rls", "rda", "ti", "none"}]
    BY <2>4
  <2>6. gap \in 0 .. MinGap /\ next \in 0 .. Chars - 1
    OBVIOUS
  <2>7. queue \in Seq(Character) /\ got \in Seq(Character)
    OBVIOUS
  <2>8. pc \in {"run", "iir", "lsr", "rx", "msr"} /\ iir \in {"rls", "rda", "ti", "none"}
    OBVIOUS
  <2>9. QED
    BY <2>2, <2>3, <2>4, <2>5, <2>6, <2>7, <2>8, Zenon DEF TypeOK, Character
<1>2. ~Active(rq) /\ ~Active(is)
  BY DEF NoRq, Rq, Active
<1>3. WbPhase /\ AtInv
  BY <1>2 DEF WbPhase, Sampling, AtInv
<1>4. FlowInv
  BY DEF FlowInv, DataReady
<1>5. StoreInv
  BY DEF StoreInv, ReadInOrder, Taken, One, Pos
<1>6. QED
  BY <1>1, <1>3, <1>4, <1>5 DEF Base

(* No part of the invariant looks at anything but the variables.           *)
LEMMA RxStutter ==
    ASSUME UNCHANGED vars
    PROVE  /\ Base => Base'
           /\ FlowInv => FlowInv'
           /\ StoreInv => StoreInv'
<1>1. UNCHANGED wbVars /\ UNCHANGED rxVars /\ UNCHANGED <<linux, pc, gap, next, queue, got>>
  BY DEF vars
<1>2. TypeOK => TypeOK'
  BY <1>1 DEF TypeOK, WbTypeOK, wbVars, rxVars
<1>3. WbPhase => WbPhase'
  BY <1>1 DEF WbPhase, Sampling, Enabled, Answered, Withdrawn, Active, wbVars
<1>4. AtInv => AtInv'
  BY <1>1 DEF AtInv, Active, Read, Rq, wbVars, rxVars
<1>5. FlowInv => FlowInv'
  BY <1>1 DEF FlowInv, DataReady, wbVars, rxVars
<1>6. StoreInv => StoreInv'
  BY <1>1 DEF StoreInv, ReadInOrder, Taken, One, Pos, wbVars, rxVars
<1>7. QED
  BY <1>2, <1>3, <1>4, <1>5, <1>6 DEF Base

(* The invariant is inductive.                                             *)
LEMMA FlowNext ==
    ASSUME Base, FlowInv, [Next]_vars
    PROVE  Base' /\ FlowInv'
<1>1. ASSUME NEW push \in BOOLEAN, NEW err \in BOOLEAN, Clock(push, err)
      PROVE  Base' /\ FlowInv'
  <2>1. Driver /\ WbEdge /\ Reads /\ linux' = linux
    BY <1>1 DEF Clock
  <2>2. QED
    BY <1>1, <2>1, TypeStep, PhaseStep, AtStep, FlowStep, ZenonT(60) DEF Base, TypeOK
<1>2. CASE Next
  BY <1>1, <1>2, Constants DEF Next, Quiet, Receive
<1>3. CASE UNCHANGED vars
  BY <1>3, RxStutter
<1>4. QED
  BY <1>2, <1>3

(* Bit 0 of the line status register is set exactly when there is a        *)
(* character, and no read is begun on an empty FIFO: for every rate of     *)
(* arrival, overruns included.                                             *)
THEOREM ReceiveFlow == Spec => [](Base /\ FlowInv)
BY RxInit, FlowNext, PTL DEF Spec

(* The types of the receiver.                                              *)
THEOREM RxTypeCorrect == Spec => []TypeOK
<1>1. Base => TypeOK
  BY DEF Base
<1>2. QED
  BY <1>1, ReceiveFlow, PTL

(* Data ready is the level of the FIFO, through pushes and pops in any     *)
(* clocks, overruns included.                                              *)
THEOREM DataReadyExact == Spec => []DataReady
<1>1. FlowInv => DataReady
  BY DEF FlowInv
<1>2. QED
  BY <1>1, ReceiveFlow, PTL

(* Reading a register has its side effect once per acknowledged access,    *)
(* for the receiving drivers as for the sending ones.                      *)
THEOREM ReadsOnce == Spec => []AccessOnce
<1>1. Base => AccessOnce
  BY DEF Base, AccessOnce, WbPhase, Sampling, Enabled, Answered, Withdrawn
<1>2. QED
  BY <1>1, ReceiveFlow, PTL

(* If no character arrives at a full FIFO, the drivers read every          *)
(* character once, in the order of arrival, and never read an empty FIFO.  *)
THEOREM ReceivedInOrder ==
    ASSUME ~MayOverrun
    PROVE  Spec => []ReadInOrder
<1>1. Base /\ FlowInv /\ StoreInv /\ [Next]_vars => StoreInv'
  <2> SUFFICES ASSUME Base, FlowInv, StoreInv, [Next]_vars PROVE StoreInv'
    OBVIOUS
  <2>1. ASSUME NEW push \in BOOLEAN, NEW err \in BOOLEAN, Clock(push, err)
        PROVE  StoreInv'
    <3>1. push => rf.count < Depth
      BY <2>1 DEF Clock, Arrives
    <3>2. QED
      BY <2>1, <3>1, StoreStep
  <2>2. CASE Next
    BY <2>1, <2>2, Constants DEF Next, Quiet, Receive
  <2>3. CASE UNCHANGED vars
    BY <2>3, RxStutter
  <2>4. QED
    BY <2>2, <2>3
<1>2. Init => StoreInv
  BY RxInit
<1>3. StoreInv => ReadInOrder
  BY DEF StoreInv
<1>4. QED
  BY <1>1, <1>2, <1>3, ReceiveFlow, PTL DEF Spec
=============================================================================
