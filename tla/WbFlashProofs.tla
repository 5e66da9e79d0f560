--------------------------- MODULE WbFlashProofs ----------------------------
(***************************************************************************)
(* Proofs about the flash interface, for all delays, access times and      *)
(* requests that FlashAssumption allows.  The argument has two layers.     *)
(* Control says, for each state of the machine, which request it belongs   *)
(* to, where address and data stand and which strobes are up; it needs     *)
(* nothing of the chip.  On top of it, and separately, AgeInv counts how   *)
(* long the chip has been selected, BusyInv where the chip may be at work, *)
(* DatInv what has been read and LogInv what has been written.  These need *)
(* what the delays of the source are there for, and each theorem names     *)
(* what it needs.                                                          *)
(***************************************************************************)
EXTENDS WbFlash, TLAPS

(* The delays in clocks are numbers.                                       *)
LEMMA CountTypes == ReadCount \in Nat /\ WriteCount \in Nat /\ AgeCap \in Nat
BY FlashAssumption DEF ReadCount, WriteCount, AgeCap

(* A counter below its limit does not wrap.                                *)
LEMMA IncCounts ==
    ASSUME NEW n \in Nat, n + 1 < DelayRange
    PROVE  Inc(n) = n + 1
BY DEF Inc, DelayRange

(* A counter that is tested against a limit stays near it.                 *)
LEMMA IncInRange ==
    ASSUME NEW n \in Nat, NEW m \in Nat, n <= m, m < DelayRange
    PROVE  Inc(n) \in 0 .. m + 1
BY DEF Inc, DelayRange

(* The states of an access, by direction and by half word.                 *)
Writing == {"write0", "write1", "write_next", "write_next0", "write2"}
Reading == {"read0", "read1", "read_next", "read_next0", "read_next1", "read2"}
FirstHalves == {"write0", "write1", "read0", "read1"}
SecondHalves == {"write_next", "write_next0", "read_next", "read_next0", "read_next1"}

(* A request stays until it has been acknowledged, and the machine is on   *)
(* the path that belongs to it.                                            *)
BusInv ==
    /\ ack <=> state \in {"write2", "read2"}
    /\ state \notin {"reset", "idle"} => stb
    /\ state \in Writing => rq.we
    /\ state \in Reading => ~rq.we
    /\ state \in FirstHalves => rq.sel # "lo"
    /\ state \in SecondHalves => rq.sel # "hi"

(* Address and data: where they stand in each state.                       *)
AddressInv ==
    /\ state \notin {"reset", "idle"} => pins.w = rq.adr
    /\ state = "check" => pins.h = FirstHalf
    /\ state \in FirstHalves => pins.h = "hi"
    /\ state \in {"write_next0", "read_next0", "read_next1"} => pins.h = "lo"
    /\ state = "write1" => pins.d = "hi"
    /\ state = "write_next0" => pins.d = "lo"

(* The delay counters: at rest outside an access, and what they have       *)
(* reached in one.                                                         *)
DelayInv ==
    /\ state \in {"reset", "idle", "check"} => read_delay = 0 /\ write_delay = 0
    /\ state \in Writing \cup {"read2"} => read_delay = 0
    /\ state \in Reading \cup {"write0"} => write_delay = 0
    /\ state \in {"read0", "read_next0"} => read_delay <= ReadCount
    /\ state \in {"write1", "write_next0"} => write_delay <= WriteCount

(* The strobes: which are up in each state.                                *)
StrobeInv ==
    /\ pins.drive <=> state \in Writing
    /\ state # "reset" => pins.rp
    /\ pins.oe <=> state \in {"read1", "read_next1"}
                   \/ (state \in {"read0", "read_next0"} /\ read_delay # 0)
    /\ pins.wr <=> state \in {"write1", "write_next0"} /\ write_delay # 0
    /\ pins.oe \/ pins.wr => pins.ce

(* How long the chip has been selected for a read.                         *)
AgeInv ==
    /\ state \in {"read0", "read_next0"} /\ read_delay # 0 => chip.age + 1 >= read_delay
    /\ state \in {"read1", "read_next1"} => chip.age >= ReadCount

(* Where an operation of the chip may be going on, and what STS says of it.*)
BusyInv ==
    /\ chip.busy => state \notin Reading \cup {"write0", "write1"}
    /\ chip.busy /\ state \in {"write_next", "write_next0"} => rq.sel # "lo"
    /\ chip.busy /\ sts =>
         /\ state # "check"
         /\ chip.lag <= BusyLag
         /\ state \in {"reset", "idle"} => chip.lag >= 1
         /\ state = "idle" => ~stb

(* What has been read.                                                     *)
DatInv ==
    /\ state \in SecondHalves \cap Reading /\ rq.sel # "lo" =>
         dat["hi"] = Cell(rq.adr, "hi")
    /\ state = "read2" /\ rq.sel # "lo" => dat["hi"] = Cell(rq.adr, "hi")
    /\ state = "read2" /\ rq.sel # "hi" => dat["lo"] = Cell(rq.adr, "lo")

(* What has been written.                                                  *)
LogHi == <<rq.adr, "hi", "hi">>
LogLo == <<rq.adr, "lo", "lo">>
LogInv ==
    /\ state \in Reading \cup {"check", "write0", "write1"} => log = <<>>
    /\ state \in {"write_next", "write_next0"} =>
         log = IF rq.sel = "lo" THEN <<>> ELSE <<LogHi>>
    /\ state = "write2" => log = Writes(rq)
    /\ state = "idle" => log \in {<<>>, Writes(rq)}
    /\ state = "reset" => \/ log = <<>> \/ log = Writes(rq)
                          \/ log = <<LogHi>> /\ rq.we /\ rq.sel # "lo"

(* The control of the machine: what each state of it means.                *)
Control == BusInv /\ AddressInv /\ DelayInv /\ StrobeInv

(* Each part of Control is kept by every step.  First: the machine is on   *)
(* the path of the request that is on the bus.                             *)
LEMMA BusStep ==
    ASSUME TypeOK, Control, Next
    PROVE  BusInv'
<1> USE FlashAssumption, CountTypes DEF Control, BusInv, Edge, Bus, TypeOK, Writing,
                                        Reading, FirstHalves, SecondHalves
<1>1. CASE StReset
  BY <1>1 DEF StReset
<1>2. CASE StIdle
  BY <1>2 DEF StIdle, FirstState, FirstHalf
<1>3. CASE StCheck
  BY <1>3 DEF StCheck, FirstState, FirstHalf
<1>4. CASE StWrite0
  BY <1>4 DEF StWrite0
<1>5. CASE StWrite1
  BY <1>5 DEF StWrite1
<1>6. CASE StWriteNext
  BY <1>6 DEF StWriteNext
<1>7. CASE StWriteNext0
  BY <1>7 DEF StWriteNext0
<1>8. CASE StWrite2
  BY <1>8 DEF StWrite2
<1>9. CASE StRead0
  BY <1>9 DEF StRead0, ReadWait
<1>10. CASE StRead1
  BY <1>10 DEF StRead1
<1>11. CASE StReadNext
  BY <1>11 DEF StReadNext
<1>12. CASE StReadNext0
  BY <1>12 DEF StReadNext0, ReadWait
<1>13. CASE StReadNext1
  BY <1>13 DEF StReadNext1
<1>14. CASE StRead2
  BY <1>14 DEF StRead2
<1>15. CASE Reset
  BY <1>15 DEF Reset, ResetPins
<1>16. QED
  BY <1>1, <1>2, <1>3, <1>4, <1>5, <1>6, <1>7, <1>8, <1>9, <1>10, <1>11, <1>12, <1>13,
     <1>14, <1>15
     DEF Next, Clock

(* The address is that of the request from the start of an access to its   *)
(* end, and the half word and the data belong together.                    *)
LEMMA AddressStep ==
    ASSUME TypeOK, Control, Next
    PROVE  AddressInv'
<1> USE FlashAssumption, CountTypes DEF Control, BusInv, AddressInv, FirstHalf,
                                        Edge, Bus, TypeOK, Writing, Reading,
                                        FirstHalves, SecondHalves
<1>1. CASE StReset
  BY <1>1 DEF StReset
<1>2. CASE StIdle
  <2>1. CASE stb
    <3>1. rq' = rq /\ pins'.w = rq.adr /\ pins'.h = FirstHalf
      BY <1>2, <2>1, ZenonT(60) DEF StIdle
    <3>2. /\ state' \in {"check", "write0", "write_next", "read0", "read_next"}
          /\ state' \in {"write0", "read0"} => rq.sel # "lo"
      BY <1>2, <2>1 DEF StIdle, FirstState
    <3>3. QED
      BY <3>1, <3>2
  <2>2. CASE ~stb
    BY <1>2, <2>2 DEF StIdle
  <2>3. QED
    BY <2>1, <2>2
<1>3. CASE StCheck
  BY <1>3 DEF StCheck, FirstState, FirstHalf
<1>4. CASE StWrite0
  BY <1>4 DEF StWrite0
<1>5. CASE StWrite1
  BY <1>5, ZenonT(60) DEF StWrite1
<1>6. CASE StWriteNext
  BY <1>6 DEF StWriteNext
<1>7. CASE StWriteNext0
  BY <1>7 DEF StWriteNext0
<1>8. CASE StWrite2
  BY <1>8 DEF StWrite2
<1>9. CASE StRead0
  BY <1>9 DEF StRead0, ReadWait
<1>10. CASE StRead1
  BY <1>10 DEF StRead1
<1>11. CASE StReadNext
  BY <1>11 DEF StReadNext
<1>12. CASE StReadNext0
  BY <1>12 DEF StReadNext0, ReadWait
<1>13. CASE StReadNext1
  BY <1>13 DEF StReadNext1
<1>14. CASE StRead2
  BY <1>14 DEF StRead2
<1>15. CASE Reset
  BY <1>15 DEF Reset, ResetPins
<1>16. QED
  BY <1>1, <1>2, <1>3, <1>4, <1>5, <1>6, <1>7, <1>8, <1>9, <1>10, <1>11, <1>12, <1>13,
     <1>14, <1>15
     DEF Next, Clock

(* The delay counters are cleared between the accesses that share them.    *)
LEMMA DelayStep ==
    ASSUME TypeOK, Control, Next
    PROVE  DelayInv'
<1> USE FlashAssumption, CountTypes DEF Control, DelayInv, Edge, TypeOK, Writing,
                                        Reading, FirstHalves, SecondHalves
<1>1. CASE StReset
  BY <1>1 DEF StReset
<1>2. CASE StIdle
  <2>1. CASE ~stb
    BY <1>2, <2>1 DEF StIdle, FirstState, FirstHalf
  <2>2. CASE stb
    BY <1>2, <2>2 DEF StIdle, FirstState, FirstHalf
  <2>3. QED
    BY <2>1, <2>2
<1>3. CASE StCheck
  BY <1>3 DEF StCheck, FirstState, FirstHalf
<1>4. CASE StWrite0
  BY <1>4 DEF StWrite0
<1>5. CASE StWrite1
  <2>1. CASE write_delay >= WriteCount
    BY <1>5, <2>1 DEF StWrite1
  <2>2. CASE write_delay < WriteCount
    <3>1. Inc(write_delay) = write_delay + 1
      BY <2>2, IncCounts DEF DelayRange
    <3>2. QED
      BY <1>5, <2>2, <3>1, SMTT(30) DEF StWrite1
  <2>3. QED
    BY <2>1, <2>2
<1>6. CASE StWriteNext
  BY <1>6 DEF StWriteNext
<1>7. CASE StWriteNext0
  <2>1. CASE write_delay >= WriteCount
    BY <1>7, <2>1 DEF StWriteNext0
  <2>2. CASE write_delay < WriteCount
    <3>1. Inc(write_delay) = write_delay + 1
      BY <2>2, IncCounts DEF DelayRange
    <3>2. QED
      BY <1>7, <2>2, <3>1 DEF StWriteNext0
  <2>3. QED
    BY <2>1, <2>2
<1>8. CASE StWrite2
  BY <1>8 DEF StWrite2
<1>9. CASE StRead0
  <2>1. CASE read_delay >= ReadCount
    BY <1>9, <2>1 DEF StRead0, ReadWait
  <2>2. CASE read_delay < ReadCount
    <3>1. Inc(read_delay) = read_delay + 1
      BY <2>2, IncCounts DEF DelayRange
    <3>2. QED
      BY <1>9, <2>2, <3>1 DEF StRead0, ReadWait
  <2>3. QED
    BY <2>1, <2>2
<1>10. CASE StRead1
  BY <1>10 DEF StRead1
<1>11. CASE StReadNext
  BY <1>11 DEF StReadNext
<1>12. CASE StReadNext0
  <2>1. CASE read_delay >= ReadCount
    BY <1>12, <2>1 DEF StReadNext0, ReadWait
  <2>2. CASE read_delay < ReadCount
    <3>1. Inc(read_delay) = read_delay + 1
      BY <2>2, IncCounts DEF DelayRange
    <3>2. QED
      BY <1>12, <2>2, <3>1 DEF StReadNext0, ReadWait
  <2>3. QED
    BY <2>1, <2>2
<1>13. CASE StReadNext1
  BY <1>13 DEF StReadNext1
<1>14. CASE StRead2
  BY <1>14 DEF StRead2
<1>15. CASE Reset
  BY <1>15 DEF Reset, ResetPins
<1>16. QED
  BY <1>1, <1>2, <1>3, <1>4, <1>5, <1>6, <1>7, <1>8, <1>9, <1>10, <1>11, <1>12, <1>13,
     <1>14, <1>15
     DEF Next, Clock

(* The strobes follow from the state and the delay counters.               *)
LEMMA StrobeStep ==
    ASSUME TypeOK, Control, Next
    PROVE  StrobeInv'
<1> USE FlashAssumption, CountTypes DEF Control, BusInv, DelayInv, StrobeInv, Edge,
                                        TypeOK, Writing, Reading, FirstHalves,
                                        SecondHalves
<1>1. CASE StReset
  BY <1>1 DEF StReset
<1>2. CASE StIdle
  BY <1>2, ZenonT(60) DEF StIdle, FirstState, FirstHalf
<1>3. CASE StCheck
  BY <1>3 DEF StCheck, FirstState, FirstHalf
<1>4. CASE StWrite0
  BY <1>4 DEF StWrite0
<1>5. CASE StWrite1
  <2>1. CASE write_delay >= WriteCount
    BY <1>5, <2>1, ZenonT(60) DEF StWrite1
  <2>2. CASE write_delay < WriteCount
    <3>1. Inc(write_delay) = write_delay + 1
      BY <2>2, IncCounts DEF DelayRange
    <3>2. /\ state' = "write1" /\ write_delay' # 0
          /\ pins' = [pins EXCEPT !.ce = TRUE, !.wr = TRUE]
      BY <1>5, <2>2, <3>1 DEF StWrite1
    <3>3. state = "write1"
      BY <1>5 DEF StWrite1
    <3>4. QED
      BY <3>2, <3>3
  <2>3. QED
    BY <2>1, <2>2
<1>6. CASE StWriteNext
  BY <1>6 DEF StWriteNext
<1>7. CASE StWriteNext0
  <2>1. CASE write_delay >= WriteCount
    BY <1>7, <2>1 DEF StWriteNext0
  <2>2. CASE write_delay < WriteCount
    <3>1. Inc(write_delay) = write_delay + 1
      BY <2>2, IncCounts DEF DelayRange
    <3>2. QED
      BY <1>7, <2>2, <3>1 DEF StWriteNext0
  <2>3. QED
    BY <2>1, <2>2
<1>8. CASE StWrite2
  BY <1>8 DEF StWrite2
<1>9. CASE StRead0
  <2>1. CASE read_delay >= ReadCount
    BY <1>9, <2>1 DEF StRead0, ReadWait
  <2>2. CASE read_delay < ReadCount
    <3>1. Inc(read_delay) = read_delay + 1
      BY <2>2, IncCounts DEF DelayRange
    <3>2. QED
      BY <1>9, <2>2, <3>1 DEF StRead0, ReadWait
  <2>3. QED
    BY <2>1, <2>2
<1>10. CASE StRead1
  BY <1>10 DEF StRead1
<1>11. CASE StReadNext
  BY <1>11 DEF StReadNext
<1>12. CASE StReadNext0
  <2>1. CASE read_delay >= ReadCount
    BY <1>12, <2>1 DEF StReadNext0, ReadWait
  <2>2. CASE read_delay < ReadCount
    <3>1. Inc(read_delay) = read_delay + 1
      BY <2>2, IncCounts DEF DelayRange
    <3>2. QED
      BY <1>12, <2>2, <3>1 DEF StReadNext0, ReadWait
  <2>3. QED
    BY <2>1, <2>2
<1>13. CASE StReadNext1
  BY <1>13 DEF StReadNext1
<1>14. CASE StRead2
  BY <1>14 DEF StRead2
<1>15. CASE Reset
  BY <1>15 DEF Reset, ResetPins
<1>16. QED
  BY <1>1, <1>2, <1>3, <1>4, <1>5, <1>6, <1>7, <1>8, <1>9, <1>10, <1>11, <1>12, <1>13,
     <1>14, <1>15
     DEF Next, Clock

(* An edge of the chip: STS and the bookkeeping keep their types.          *)
LEMMA ChipTypes ==
    ASSUME TypeOK, ChipEdge
    PROVE  /\ sts' \in BOOLEAN
           /\ chip' \in [busy : BOOLEAN, lag : Nat, age : Nat]
           /\ log' \in Seq(Word \X Halves \X Halves)
<1>1. chip' \in [busy : BOOLEAN, lag : Nat, age : Nat]
  <2> DEFINE same == Reads(pins) /\ Reads(pins') /\ <<pins.w, pins.h>> = <<pins'.w, pins'.h>>
             held == same \/ (pins.wr /\ pins'.wr)
             ends == chip.busy /\ ~sts /\ sts'
             busies == IF Latches THEN {chip.busy, TRUE} ELSE {chip.busy /\ ~ends}
             lag == IF chip.busy /\ sts THEN chip.lag + 1 ELSE 0
             age == IF ~held THEN 0 ELSE IF chip.age < AgeCap THEN chip.age + 1
                    ELSE chip.age
  <2>1. busies \subseteq BOOLEAN
    BY Zenon DEF TypeOK
  <2>2. lag \in Nat /\ age \in Nat
    <3> HIDE DEF held
    <3> QED
      BY DEF TypeOK
  <2>3. chip' \in [busy : busies, lag : {lag}, age : {age}]
    BY DEF ChipEdge
  <2>4. QED
    <3> HIDE DEF busies, lag, age
    <3> QED
      BY <2>1, <2>2, <2>3
<1>2. log' \in Seq(Word \X Halves \X Halves)
  <2>1. <<pins.w, pins.h, pins.d>> \in Word \X Halves \X Halves
    BY DEF TypeOK
  <2>2. QED
    BY <2>1 DEF TypeOK, ChipEdge
<1>3. QED
  BY <1>1, <1>2 DEF ChipEdge

(* Every step is an edge for the chip as well.                             *)
LEMMA EveryEdge == ASSUME Next PROVE ChipEdge
BY DEF Next, Clock, Edge, ReadWait, Reset, StReset, StIdle, StCheck, StWrite0, StWrite1,
       StWriteNext, StWriteNext0, StWrite2, StRead0, StRead1, StReadNext, StReadNext0,
       StReadNext1, StRead2

(* The word that stands for no data, or for no address, is a word.         *)
LEMMA JunkTypes ==
    ASSUME TypeOK
    PROVE  /\ ResetPins \in [w : Word, h : Halves, d : Halves, ce : BOOLEAN,
                             oe : BOOLEAN, wr : BOOLEAN, rp : BOOLEAN, drive : BOOLEAN]
           /\ Junk \in [w : Word, h : Halves \cup {"none"}]
           /\ D_I \in [w : Word, h : Halves \cup {"none"}]
<1>1. rq.adr \in Word
  BY FlashAssumption DEF TypeOK
<1>2. (CHOOSE w \in Word : TRUE) \in Word
  BY <1>1
<1>3. QED
  BY <1>2 DEF TypeOK, ResetPins, Junk, D_I, Cell, Halves

(* Every step keeps the types; the counters because their limits are       *)
(* tested.                                                                 *)
LEMMA TypeStep ==
    ASSUME TypeOK, Control, Next
    PROVE  TypeOK'
<1> USE FlashAssumption, CountTypes
<1>1. sts' \in BOOLEAN /\ chip' \in [busy : BOOLEAN, lag : Nat, age : Nat]
      /\ log' \in Seq(Word \X Halves \X Halves)
  BY EveryEdge, ChipTypes
<1>2. stb' \in BOOLEAN /\ rq' \in Requests
  BY DEF Edge, Bus, ReadWait, TypeOK, Next, Clock, StReset, StIdle, StCheck, StWrite0,
         StWrite1, StWriteNext, StWriteNext0, StWrite2, StRead0, StRead1, StReadNext,
         StReadNext0, StReadNext1, StRead2, Reset
<1>3. ack' \in BOOLEAN
  BY DEF ReadWait, TypeOK, Next, Clock, StReset, StIdle, StCheck, StWrite0, StWrite1,
         StWriteNext, StWriteNext0, StWrite2, StRead0, StRead1, StReadNext,
         StReadNext0, StReadNext1, StRead2, Reset
<1>4. state' \in {"reset", "idle", "check", "write0", "write1", "write_next",
                  "write_next0", "write2", "read0", "read1", "read_next", "read_next0",
                  "read_next1", "read2"}
  BY DEF Edge, ReadWait, FirstState, TypeOK, Next, Clock, StReset, StIdle, StCheck,
         StWrite0, StWrite1, StWriteNext, StWriteNext0, StWrite2, StRead0, StRead1,
         StReadNext, StReadNext0, StReadNext1, StRead2, Reset
<1>5. pins' \in [w : Word, h : Halves, d : Halves, ce : BOOLEAN, oe : BOOLEAN,
                 wr : BOOLEAN, rp : BOOLEAN, drive : BOOLEAN]
  <2>1. CASE Reset
    BY <2>1, JunkTypes DEF Reset, ResetPins
  <2>2. CASE StIdle
    <3>1. /\ rq.adr \in Word /\ FirstHalf \in Halves
          /\ ((sts /\ rq.we) \/ pins.drive) \in BOOLEAN
      BY Zenon DEF TypeOK, Halves, FirstHalf
    <3>2. QED
      BY <2>2, <3>1, ZenonT(60) DEF StIdle, Edge, TypeOK
  <2>3. CASE StWrite1
    BY <2>3, ZenonT(60) DEF Edge, TypeOK, Halves, StWrite1
  <2>4. CASE StCheck
    BY <2>4, ZenonT(60) DEF Edge, TypeOK, Halves, StCheck, FirstState, FirstHalf
  <2>5. CASE StWriteNext0
    BY <2>5 DEF Edge, TypeOK, Halves, StWriteNext0
  <2>6. CASE StReset \/ StWrite0 \/ StWriteNext \/ StWrite2
    BY <2>6, ZenonT(60) DEF Edge, TypeOK, Halves, StReset, StWrite0, StWriteNext, StWrite2
  <2>7. CASE StRead0 \/ StReadNext0
    BY <2>7 DEF Edge, ReadWait, TypeOK, Halves, StRead0, StReadNext0
  <2>8. CASE StRead1 \/ StReadNext \/ StReadNext1 \/ StRead2
    BY <2>8, ZenonT(60) DEF Edge, TypeOK, Halves, StRead1, StReadNext, StReadNext1, StRead2
  <2>9. QED
    BY <2>1, <2>2, <2>3, <2>4, <2>5, <2>6, <2>7, <2>8 DEF Next, Clock
<1>6. read_delay' \in 0 .. ReadCount + 1
  <2>1. CASE StRead0
    BY <2>1, IncInRange DEF TypeOK, Control, DelayInv, Reading, StRead0, ReadWait
  <2>2. CASE StReadNext0
    BY <2>2, IncInRange DEF TypeOK, Control, DelayInv, Reading, StReadNext0, ReadWait
  <2>3. QED
    BY <2>1, <2>2 DEF TypeOK, Next, Clock, StReset, StIdle, StCheck,
           StWrite0, StWrite1, StWriteNext, StWriteNext0, StWrite2, StRead1,
           StReadNext, StReadNext1, StRead2, Reset
<1>7. write_delay' \in 0 .. WriteCount + 1
  <2>1. CASE StWrite1
    BY <2>1, IncInRange DEF TypeOK, Control, DelayInv, Reading, StWrite1
  <2>2. CASE StWriteNext0
    BY <2>2, IncInRange DEF TypeOK, Control, DelayInv, Reading, StWriteNext0
  <2>3. QED
    BY <2>1, <2>2 DEF TypeOK, ReadWait, Next, Clock, StReset, StIdle,
           StCheck, StWrite0, StWriteNext, StWrite2, StRead0, StRead1, StReadNext,
           StReadNext0, StReadNext1, StRead2, Reset
<1>8. dat' \in [Halves -> [w : Word, h : Halves \cup {"none"}]]
  <2>1. CASE Reset
    BY <2>1, JunkTypes DEF Reset, ResetPins
  <2>2. CASE StRead1
    BY <2>2, JunkTypes DEF TypeOK, StRead1
  <2>3. CASE StReadNext1
    BY <2>3, JunkTypes DEF TypeOK, StReadNext1
  <2>4. QED
    BY <2>1, <2>2, <2>3 DEF TypeOK, ReadWait, Next, Clock, StReset,
           StIdle, StCheck, StWrite0, StWrite1, StWriteNext, StWriteNext0, StWrite2,
           StRead0, StReadNext, StReadNext0, StRead2
<1>9. QED
  BY <1>1, <1>2, <1>3, <1>4, <1>5, <1>6, <1>7, <1>8 DEF TypeOK

(* What the chip makes of an edge, in terms of the pins.                   *)
LEMMA ChipAfter ==
    ASSUME TypeOK, ChipEdge
    PROVE  /\ chip'.busy => chip.busy \/ Latches
           /\ chip'.busy /\ sts' /\ ~Latches => chip.busy /\ sts /\ chip.lag < BusyLag
           /\ chip.busy /\ sts => chip'.lag = chip.lag + 1
           /\ ~(chip.busy /\ sts) => chip'.lag = 0
           /\ chip.busy /\ sts /\ sts' => chip.lag < BusyLag
           /\ ~chip.busy => sts'
<1>1. chip'.lag = IF chip.busy /\ sts THEN chip.lag + 1 ELSE 0
  BY DEF ChipEdge
<1>2. /\ sts' \in BOOLEAN
      /\ ~chip.busy => sts'
      /\ chip.busy /\ sts /\ chip.lag >= BusyLag => ~sts'
  BY DEF ChipEdge
<1>3. ~Latches => chip'.busy = (chip.busy /\ ~(chip.busy /\ ~sts /\ sts'))
  BY DEF ChipEdge
<1>4. chip.lag \in Nat /\ chip.busy \in BOOLEAN /\ sts \in BOOLEAN
  BY DEF TypeOK
<1>5. chip.busy /\ sts /\ sts' => chip.lag < BusyLag
  BY <1>2, <1>4, FlashAssumption
<1>6. chip'.busy => chip.busy \/ Latches
  BY <1>3
<1>7. chip'.busy /\ sts' /\ ~Latches => chip.busy /\ sts
  BY <1>3
<1>8. QED
  BY <1>1, <1>2, <1>5, <1>6, <1>7

(* An access that goes on gets older.                                      *)
LEMMA AgeAfter ==
    ASSUME TypeOK, ChipEdge, Reads(pins), Reads(pins'), pins'.w = pins.w, pins'.h = pins.h
    PROVE  chip'.age = IF chip.age < AgeCap THEN chip.age + 1 ELSE chip.age
BY FlashAssumption, CountTypes DEF TypeOK, ChipEdge

(* A half word reaches the chip only at the end of its strobe.             *)
LEMMA LatchStates ==
    ASSUME TypeOK, Control, Next
    PROVE  Latches <=> /\ state \in {"write1", "write_next0"} /\ state' # "reset"
                       /\ write_delay >= WriteCount /\ write_delay # 0
<1> USE FlashAssumption, CountTypes DEF Latches, Control, DelayInv, StrobeInv, Edge,
                                        TypeOK, Writing, Reading
<1>1. CASE StReset
  BY <1>1 DEF StReset
<1>2. CASE StIdle
  BY <1>2 DEF StIdle, FirstState, FirstHalf
<1>3. CASE StCheck
  BY <1>3 DEF StCheck, FirstState, FirstHalf
<1>4. CASE StWrite0
  BY <1>4 DEF StWrite0
<1>5. CASE StWrite1
  <2>1. CASE write_delay >= WriteCount
    BY <1>5, <2>1 DEF StWrite1
  <2>2. CASE write_delay < WriteCount
    <3>1. Inc(write_delay) = write_delay + 1
      BY <2>2, IncCounts DEF DelayRange
    <3>2. QED
      BY <1>5, <2>2, <3>1 DEF StWrite1
  <2>3. QED
    BY <2>1, <2>2
<1>6. CASE StWriteNext
  BY <1>6 DEF StWriteNext
<1>7. CASE StWriteNext0
  <2>1. CASE write_delay >= WriteCount
    BY <1>7, <2>1 DEF StWriteNext0
  <2>2. CASE write_delay < WriteCount
    <3>1. Inc(write_delay) = write_delay + 1
      BY <2>2, IncCounts DEF DelayRange
    <3>2. QED
      BY <1>7, <2>2, <3>1 DEF StWriteNext0
  <2>3. QED
    BY <2>1, <2>2
<1>8. CASE StWrite2
  BY <1>8 DEF StWrite2
<1>9. CASE StRead0
  BY <1>9 DEF StRead0, ReadWait
<1>10. CASE StRead1
  BY <1>10 DEF StRead1
<1>11. CASE StReadNext
  BY <1>11 DEF StReadNext
<1>12. CASE StReadNext0
  BY <1>12 DEF StReadNext0, ReadWait
<1>13. CASE StReadNext1
  BY <1>13 DEF StReadNext1
<1>14. CASE StRead2
  BY <1>14 DEF StRead2
<1>15. CASE Reset
  BY <1>15 DEF Reset, ResetPins
<1>16. QED
  BY <1>1, <1>2, <1>3, <1>4, <1>5, <1>6, <1>7, <1>8, <1>9, <1>10, <1>11, <1>12, <1>13,
     <1>14, <1>15
     DEF Next, Clock

(* When the data is taken the chip has been selected for ReadCount clocks. *)
LEMMA AgeStep ==
    ASSUME TypeOK, Control, AgeInv, Next
    PROVE  AgeInv'
<1>1. ASSUME NEW next \in {"read1", "read_next1"}, ReadWait(next),
             state \in {"read0", "read_next0"}
      PROVE  AgeInv'
  <2>1. /\ read_delay \in Nat /\ read_delay <= ReadCount
        /\ ReadCount \in Nat /\ ReadCount < DelayRange
        /\ chip.age \in Nat /\ chip'.age \in Nat
    BY <1>1, FlashAssumption, CountTypes, EveryEdge, ChipTypes
       DEF TypeOK, Control, DelayInv
  <2>2. read_delay' = Inc(read_delay) /\ pins' = [pins EXCEPT !.ce = TRUE, !.oe = TRUE]
    BY <1>1 DEF ReadWait, Edge
  <2>3. state' = IF read_delay >= ReadCount THEN next ELSE state
    BY <1>1 DEF ReadWait, Edge
  <2>4. read_delay < ReadCount => read_delay' = read_delay + 1
    BY <2>1, <2>2, IncCounts DEF DelayRange
  <2>5. chip'.age >= read_delay
    <3>1. CASE read_delay # 0
      <4>1. Reads(pins) /\ Reads(pins') /\ pins'.w = pins.w /\ pins'.h = pins.h
        BY <1>1, <2>2, <3>1 DEF Reads, TypeOK, Control, StrobeInv
      <4>2. chip'.age = IF chip.age < AgeCap THEN chip.age + 1 ELSE chip.age
        BY <4>1, EveryEdge, AgeAfter
      <4>3. chip.age + 1 >= read_delay
        BY <1>1, <3>1 DEF AgeInv
      <4>4. AgeCap >= ReadCount
        BY FlashAssumption, CountTypes DEF AgeCap
      <4>5. QED
        BY <2>1, <4>2, <4>3, <4>4, CountTypes
    <3>2. QED
      BY <2>1, <3>1
  <2>6. CASE read_delay >= ReadCount
    <3>1. chip'.age >= ReadCount
      BY <2>1, <2>5, <2>6
    <3>2. QED
      BY <1>1, <2>3, <2>6, <3>1 DEF AgeInv
  <2>7. CASE read_delay < ReadCount
    <3>1. chip'.age + 1 >= read_delay'
      BY <2>1, <2>4, <2>5, <2>7
    <3>2. state' = state
      BY <2>1, <2>3, <2>7
    <3>3. QED
      BY <1>1, <3>1, <3>2 DEF AgeInv
  <2>8. QED
    BY <2>1, <2>6, <2>7
<1>2. CASE StRead0 \/ StReadNext0
  BY <1>1, <1>2 DEF StRead0, StReadNext0
<1>3. CASE ~(StRead0 \/ StReadNext0)
  <2>1. /\ state' \notin {"read1", "read_next1"}
        /\ state' \in {"read0", "read_next0"} => read_delay' = 0
    BY <1>3 DEF Control, DelayInv, Edge, FirstState, Next, Clock, StReset, StIdle,
           StCheck, StWrite0, StWrite1, StWriteNext, StWriteNext0, StWrite2,
            StRead1, StReadNext,
           StReadNext1, StRead2, Reset
  <2>2. QED
    BY <2>1 DEF AgeInv
<1>4. QED
  BY <1>2, <1>3

(* Where the chip may be at work: no read and no first half of a write     *)
(* begins before STS was seen, provided STS falls by the second edge after *)
(* a write.                                                                *)
LEMMA BusyStep ==
    ASSUME TypeOK, Control, BusyInv, Next, BusyLag <= 1
    PROVE  BusyInv'
<1> USE FlashAssumption, CountTypes DEF BusyInv, TypeOK
<1>1. ChipEdge
  BY EveryEdge
<1>2. CASE Latches
  <2>1. /\ state' \in {"write2", "write_next"} /\ rq' = rq
        /\ state' = "write_next" => rq.sel # "lo"
    <3>1. StWrite1 \/ StWriteNext0
      BY <1>2, LatchStates
         DEF Next, Clock, StReset, StIdle, StCheck, StWrite0, StWriteNext, StWrite2,
             StRead0, StRead1, StReadNext, StReadNext0, StReadNext1, StRead2, Reset
    <3>2. QED
      BY <1>2, <3>1, LatchStates
         DEF Control, BusInv, StWrite1, StWriteNext0, Edge, Bus, FirstHalves
  <2>2. chip'.busy /\ sts' => chip'.lag <= BusyLag
    BY <1>1, ChipAfter
  <2>3. QED
    BY <2>1, <2>2 DEF Reading
<1>3. CASE ~Latches
  <2>1. /\ chip'.busy => chip.busy
        /\ chip'.busy /\ sts' => /\ chip.busy /\ sts /\ chip.lag = 0
                                 /\ chip'.lag = 1 /\ 1 <= BusyLag
    BY <1>1, <1>3, ChipAfter
  <2>2. ASSUME chip.busy PROVE state' \notin Reading \cup {"write0", "write1"}
    BY <2>2 DEF Control, BusInv, Reading, Writing, Edge, FirstState, Next, Clock,
                ReadWait, StReset, StIdle, StCheck,
         StWrite0, StWrite1, StWriteNext, StWriteNext0, StWrite2, StRead0, StRead1,
         StReadNext, StReadNext0, StReadNext1, StRead2, Reset
  <2>3. ASSUME chip.busy, state' \in {"write_next", "write_next0"} PROVE rq'.sel # "lo"
    BY <2>3 DEF Control, BusInv, Reading, Writing, Edge, Bus, FirstState, Next,
                Clock, ReadWait, StReset, StIdle, StCheck,
         StWrite0, StWrite1, StWriteNext, StWriteNext0, StWrite2, StRead0, StRead1,
         StReadNext, StReadNext0, StReadNext1, StRead2, Reset
  <2>4. ASSUME chip.busy, sts, chip.lag = 0
        PROVE  state' # "check" /\ (state' = "idle" => ~stb')
    <3>1. state \notin {"reset", "idle", "check"} \cup Reading
      BY <2>4
    <3>2. state' # "check"
      BY <3>1 DEF Edge, Next, Clock, StReset, StIdle, StCheck, StWrite0, StWrite1,
             StWriteNext, StWriteNext0, StWrite2, StRead0, StRead1, StReadNext,
             StReadNext0, StReadNext1, StRead2, Reset, ReadWait, Reading
    <3>3. state' = "idle" => StWrite2
      BY <3>1 DEF Edge, Next, Clock, StReset, StIdle, StCheck, StWrite0, StWrite1,
             StWriteNext, StWriteNext0, StRead0, StRead1, StReadNext,
             StReadNext0, StReadNext1, StRead2, Reset, ReadWait, Reading
    <3>4. StWrite2 => ~stb'
      BY DEF StWrite2, Edge, Bus, Control, BusInv
    <3>5. QED
      BY <3>2, <3>3, <3>4
  <2>5. QED
    BY <2>1, <2>2, <2>3, <2>4
<1>4. QED
  BY <1>2, <1>3

(* What is taken from the data lines is the half word that was addressed,  *)
(* provided the delay covers the chip's access time.                       *)
LEMMA DatStep ==
    ASSUME TypeOK, Control, AgeInv, BusyInv, DatInv, Next, ReadCount + 1 >= AccessTime
    PROVE  DatInv'
<1> USE DEF DatInv, Reading, SecondHalves, Halves
<1>1. ASSUME state \in {"read1", "read_next1"}
      PROVE  D_I = Cell(rq.adr, pins.h)
  <2>1. chip.age + 1 >= AccessTime
    BY <1>1, FlashAssumption, CountTypes DEF AgeInv, TypeOK
  <2>2. QED
    BY <1>1, <2>1 DEF D_I, BusyInv, Control, AddressInv
<1>2. CASE StRead1
  <2>1. dat' = [dat EXCEPT !["hi"] = Cell(rq.adr, "hi")] /\ rq' = rq
    BY <1>1, <1>2 DEF StRead1, Control, AddressInv, BusInv, FirstHalves, Edge, Bus
  <2>2. state' = IF rq.sel = "hi" THEN "read2" ELSE "read_next"
    BY <1>2 DEF StRead1, Edge
  <2>3. QED
    BY <2>1, <2>2 DEF TypeOK
<1>3. CASE StReadNext1
  <2>1. dat' = [dat EXCEPT !["lo"] = Cell(rq.adr, "lo")] /\ rq' = rq
    BY <1>1, <1>3 DEF StReadNext1, Control, AddressInv, BusInv, Edge, Bus
  <2>2. state' = "read2" /\ state = "read_next1"
    BY <1>3 DEF StReadNext1, Edge
  <2>3. QED
    BY <2>1, <2>2 DEF TypeOK
<1>4. CASE StReadNext \/ StReadNext0
  BY <1>4 DEF StReadNext, StReadNext0, ReadWait, Edge, Bus, Control, BusInv
<1>5. CASE ~(StRead1 \/ StReadNext1 \/ StReadNext \/ StReadNext0)
  <2>1. /\ state' \notin {"read_next0", "read_next1", "read2"}
        /\ state' = "read_next" => rq'.sel = "lo"
    BY <1>5 DEF Control, BusInv, Edge, Bus, FirstState, ReadWait, Next, Clock,
                StReset, StIdle, StCheck,
           StWrite0, StWrite1, StWriteNext, StWriteNext0, StWrite2, StRead0, StRead2,
           Reset
  <2>2. QED
    BY <2>1
<1>6. QED
  BY <1>2, <1>3, <1>4, <1>5

(* The half words of each kind of request, written out.                    *)
LEMMA WritesAre ==
    ASSUME rq \in Requests
    PROVE  /\ ~rq.we => Writes(rq) = <<>>
           /\ rq.we /\ rq.sel = "hi" => Writes(rq) = <<LogHi>>
           /\ rq.we /\ rq.sel = "lo" => Writes(rq) = <<LogLo>>
           /\ rq.we /\ rq.sel \notin Halves => Writes(rq) = <<LogHi, LogLo>>
<1>1. /\ rq.sel = "hi" => Wanted(rq) = <<"hi">>
      /\ rq.sel = "lo" => Wanted(rq) = <<"lo">>
      /\ rq.sel \notin Halves => Wanted(rq) = <<"hi", "lo">>
  BY DEF Wanted, Halves
<1>2. QED
  BY <1>1 DEF Writes, LogHi, LogLo

(* What an edge does to the history of the request.                        *)
LEMMA LogAfter ==
    ASSUME ChipEdge
    PROVE  /\ state \in {"idle", "reset"} => log' = <<>>
           /\ state \notin {"idle", "reset"} /\ Latches =>
                log' = Append(log, <<pins.w, pins.h, pins.d>>)
           /\ state \notin {"idle", "reset"} /\ ~Latches => log' = log
BY DEF ChipEdge

(* The writes of a request reach the chip in order, provided the strobe is *)
(* up for a clock at least.                                                *)
LEMMA LogStep ==
    ASSUME TypeOK, Control, LogInv, Next, WriteCount >= 1
    PROVE  LogInv'
<1>1. CASE state \in {"idle", "reset"}
  <2>1. log' = <<>>
    BY <1>1, EveryEdge, LogAfter
  <2>2. state' \notin {"write1", "write_next0", "write2"}
    BY <1>1 DEF Edge, FirstState, ReadWait, Next, Clock, StReset, StIdle, StCheck,
           StWrite0, StWrite1, StWriteNext, StWriteNext0, StWrite2, StRead0, StRead1,
           StReadNext, StReadNext0, StReadNext1, StRead2, Reset
  <2>3. state' = "write_next" => rq'.sel = "lo"
    BY <1>1 DEF Edge, Bus, FirstState, ReadWait, Next, Clock, StReset, StIdle, StCheck,
           StWrite0, StWrite1, StWriteNext, StWriteNext0, StWrite2, StRead0, StRead1,
           StReadNext, StReadNext0, StReadNext1, StRead2, Reset
  <2>4. QED
    BY <2>1, <2>2, <2>3 DEF LogInv
<1>2. CASE state \notin {"idle", "reset"} /\ Latches
  <2>1. log' = Append(log, <<pins.w, pins.h, pins.d>>)
    BY <1>2, EveryEdge, LogAfter
  <2>2. CASE StWrite1
    <3>1. log' = <<LogHi>> /\ rq' = rq
      BY <2>1, <2>2 DEF StWrite1, LogInv, LogHi, Control, AddressInv, BusInv,
                        FirstHalves, Edge, Bus
    <3>2. state' = IF rq.sel = "hi" THEN "write2" ELSE "write_next"
      BY <1>2, <2>2, LatchStates DEF StWrite1, Edge
    <3>3. rq.we /\ rq.sel # "lo" /\ rq \in Requests
      BY <2>2 DEF StWrite1, Control, BusInv, Writing, FirstHalves, TypeOK
    <3>4. rq.sel = "hi" => log' = Writes(rq)
      BY <3>1, <3>3, WritesAre
    <3>5. QED
      BY <3>1, <3>2, <3>3, <3>4 DEF LogInv, LogHi, Reading
  <2>3. CASE StWriteNext0
    <3>1. /\ log' = IF rq.sel = "lo" THEN <<LogLo>> ELSE <<LogHi, LogLo>>
          /\ rq' = rq
      <4>1. /\ rq' = rq /\ pins.w = rq.adr /\ pins.h = "lo" /\ pins.d = "lo"
            /\ log = IF rq.sel = "lo" THEN <<>> ELSE <<LogHi>>
        BY <2>3 DEF StWriteNext0, LogInv, Control, AddressInv, BusInv, Edge, Bus
      <4>2. log' = Append(log, LogLo)
        BY <2>1, <4>1 DEF LogLo
      <4>3. QED
        BY <4>1, <4>2
    <3>2. state' = "write2"
      BY <1>2, <2>3, LatchStates DEF StWriteNext0, Edge
    <3>3. rq.we /\ rq.sel # "hi" /\ rq \in Requests
      BY <2>3 DEF StWriteNext0, Control, BusInv, Writing, SecondHalves, TypeOK
    <3>4. log' = Writes(rq)
      BY <3>1, <3>3, WritesAre DEF Halves
    <3>5. QED
      BY <3>1, <3>2, <3>4 DEF LogInv, Reading
  <2>4. QED
    BY <1>2, <2>2, <2>3, LatchStates
       DEF Next, Clock, StReset, StIdle, StCheck, StWrite0, StWriteNext, StWrite2,
           StRead0, StRead1, StReadNext, StReadNext0, StReadNext1, StRead2, Reset
<1>3. CASE state \notin {"idle", "reset"} /\ ~Latches
  <2>1. log' = log
    BY <1>3, EveryEdge, LogAfter
  <2>2. rq' = rq
    BY <1>3 DEF Control, BusInv, Edge, Bus, ReadWait, Next, Clock, StReset, StIdle,
                StCheck,
           StWrite0, StWrite1, StWriteNext, StWriteNext0, StWrite2, StRead0, StRead1,
           StReadNext, StReadNext0, StReadNext1, StRead2, Reset
  <2>3. LogHi' = LogHi /\ Writes(rq)' = Writes(rq)
    BY <2>2 DEF LogHi, Writes, Wanted
  <2>4. ~rq.we => Writes(rq) = <<>>
    BY WritesAre DEF TypeOK
  <2> USE DEF LogInv, Reading
  <2>5. CASE Reset
    <3>1. state' = "reset"
      BY <2>5 DEF Reset
    <3>2. \/ log = <<>> \/ log = Writes(rq)
          \/ log = <<LogHi>> /\ rq.we /\ rq.sel # "lo"
      BY <1>3 DEF TypeOK, Control, BusInv, Writing
    <3>3. QED
      BY <2>1, <2>2, <2>3, <3>1, <3>2
  <2>6. CASE StCheck
    <3>1. /\ state' \in {"check", "write0", "write_next", "read0", "read_next"}
          /\ state' = "write_next" => rq.sel = "lo"
      BY <2>6 DEF StCheck, Edge, FirstState
    <3>2. log = <<>>
      BY <2>6 DEF StCheck
    <3>3. QED
      BY <2>1, <2>2, <3>1, <3>2
  <2>7. CASE StWrite1
    <3>1. state = "write1" /\ state' = "write1"
      BY <1>3, <2>7, LatchStates, CountTypes DEF StWrite1, Edge, TypeOK
    <3>2. QED
      BY <2>1, <3>1
  <2>8. CASE StWriteNext0
    <3>1. state = "write_next0" /\ state' = "write_next0"
      BY <1>3, <2>8, LatchStates, CountTypes DEF StWriteNext0, Edge, TypeOK
    <3>2. QED
      BY <2>1, <2>2, <2>3, <3>1
  <2>9. CASE StWrite0 \/ StWriteNext \/ StWrite2
    BY <2>1, <2>2, <2>3, <2>9 DEF StWrite0, StWriteNext, StWrite2, Edge
  <2>10. CASE StRead0 \/ StRead1 \/ StReadNext \/ StReadNext0 \/ StReadNext1 \/ StRead2
    <3>1. state \in Reading /\ state' \in Reading \cup {"idle"}
      BY <2>10 DEF StRead0, StRead1, StReadNext, StReadNext0, StReadNext1, StRead2,
                   ReadWait, Edge
    <3>2. QED
      BY <2>1, <3>1
  <2>11. QED
    BY <1>3, <2>5, <2>6, <2>7, <2>8, <2>9, <2>10 DEF Next, Clock, StReset, StIdle
<1>4. QED
  BY <1>1, <1>2, <1>3
-----------------------------------------------------------------------------
(* All parts of the invariant hold initially.                              *)
LEMMA FlashInit ==
    ASSUME Init
    PROVE  TypeOK /\ Control /\ AgeInv /\ BusyInv /\ DatInv /\ LogInv
<1> USE FlashAssumption, CountTypes DEF Init
<1>1. TypeOK
  <2>1. rq.adr \in Word
    BY FlashAssumption
  <2>2. (CHOOSE w \in Word : TRUE) \in Word
    BY <2>1
  <2>3. chip \in [busy : BOOLEAN, lag : Nat, age : Nat]
    <3>1. (~sts) \in BOOLEAN
      OBVIOUS
    <3>2. QED
      BY <3>1
  <2>4. pins \in [w : Word, h : Halves, d : Halves, ce : BOOLEAN, oe : BOOLEAN,
                  wr : BOOLEAN, rp : BOOLEAN, drive : BOOLEAN]
    BY <2>2 DEF ResetPins, Halves
  <2>5. dat \in [Halves -> [w : Word, h : Halves \cup {"none"}]]
    BY <2>2 DEF Junk, Cell
  <2>6. log \in Seq(Word \X Halves \X Halves)
    OBVIOUS
  <2>7. read_delay \in 0 .. ReadCount + 1 /\ write_delay \in 0 .. WriteCount + 1
    OBVIOUS
  <2>8. stb \in BOOLEAN /\ ack \in BOOLEAN /\ sts \in BOOLEAN
    OBVIOUS
  <2>9. QED
    BY <2>3, <2>4, <2>5, <2>6, <2>7, <2>8, Zenon DEF TypeOK
<1>2. Control
  BY DEF Control, BusInv, AddressInv, DelayInv, StrobeInv, ResetPins, Writing, Reading,
         FirstHalves, SecondHalves
<1>3. AgeInv /\ DatInv /\ LogInv
  BY DEF AgeInv, DatInv, LogInv, Reading, SecondHalves
<1>4. BusyInv
  <2>1. ~(chip.busy /\ sts)
    OBVIOUS
  <2>2. QED
    BY <2>1 DEF BusyInv, Reading
<1>5. QED
  BY <1>1, <1>2, <1>3, <1>4

(* No part of the invariant looks at anything but the variables.           *)
LEMMA FlashStutter ==
    ASSUME UNCHANGED vars
    PROVE  /\ TypeOK => TypeOK'
           /\ Control => Control'
           /\ AgeInv => AgeInv'
           /\ BusyInv => BusyInv'
           /\ DatInv => DatInv'
           /\ LogInv => LogInv'
BY DEF vars, TypeOK, Control, BusInv, AddressInv, FirstHalf, DelayInv, StrobeInv,
       AgeInv,
       BusyInv, DatInv, LogInv, LogHi, LogLo, Writes, Wanted

(* Which state the machine is in says what the pins are.                   *)
THEOREM FlashControl == Spec => [](TypeOK /\ Control)
<1>1. Init => TypeOK /\ Control
  BY FlashInit
<1>2. TypeOK /\ Control /\ [Next]_vars => (TypeOK /\ Control)'
  <2> SUFFICES ASSUME TypeOK, Control, [Next]_vars PROVE TypeOK' /\ Control'
    OBVIOUS
  <2>1. CASE Next
    BY <2>1, TypeStep, BusStep, AddressStep, DelayStep, StrobeStep DEF Control
  <2>2. CASE UNCHANGED vars
    BY <2>2, FlashStutter
  <2>3. QED
    BY <2>1, <2>2
<1>3. QED
  BY <1>1, <1>2, PTL DEF Spec

(* Type correctness of the interface, its two delay counters included.     *)
THEOREM FlashTypeCorrect == Spec => []TypeOK
BY FlashControl, PTL

(* For all delays: address and data are driven, and do not change, from    *)
(* the fall of SnWR to the clock after its rise, unless a reset takes the  *)
(* chip down.                                                              *)
THEOREM WritesHeld == Spec => WriteHeld
<1>1. TypeOK /\ Control /\ Next /\ pins.wr /\ pins'.rp =>
        /\ pins.drive /\ pins'.drive
        /\ <<pins'.w, pins'.h, pins'.d>> = <<pins.w, pins.h, pins.d>>
  <2> SUFFICES ASSUME TypeOK, Control, Next, pins.wr, pins'.rp
               PROVE  /\ pins.drive /\ pins'.drive
                      /\ pins'.w = pins.w /\ pins'.h = pins.h /\ pins'.d = pins.d
    OBVIOUS
  <2>1. state \in {"write1", "write_next0"} /\ pins.drive
    BY DEF Control, StrobeInv, Writing
  <2>2. CASE StWrite1
    BY <2>1, <2>2 DEF StWrite1, Edge, TypeOK
  <2>3. CASE StWriteNext0
    BY <2>1, <2>3 DEF StWriteNext0, Edge, TypeOK
  <2>4. CASE Reset
    BY <2>4 DEF Reset, ResetPins
  <2>5. QED
    BY <2>1, <2>2, <2>3, <2>4
       DEF Next, Clock, StReset, StIdle, StCheck, StWrite0, StWriteNext, StWrite2,
           StRead0, StRead1, StReadNext, StReadNext0, StReadNext1, StRead2
<1>2. TypeOK /\ Control /\ [Next]_vars =>
        [pins.wr /\ pins'.rp =>
           /\ pins.drive /\ pins'.drive
           /\ <<pins'.w, pins'.h, pins'.d>> = <<pins.w, pins.h, pins.d>>]_vars
  BY <1>1
<1>3. QED
  BY <1>2, FlashControl, PTL DEF Spec, WriteHeld

(* For all delays: the interface and the chip do not drive the data lines  *)
(* in the same clock or in neighbouring ones.                              *)
THEOREM NoContention == Spec => Turnaround
<1>1. TypeOK /\ Control /\ Next => ~(pins.oe /\ pins'.drive) /\ ~(pins.drive /\ pins'.oe)
  <2> SUFFICES ASSUME TypeOK, Control, Next
               PROVE  ~(pins.oe /\ pins'.drive) /\ ~(pins.drive /\ pins'.oe)
    OBVIOUS
  <2>1. /\ pins.drive <=> state \in Writing
        /\ pins.oe => state \in Reading
    BY DEF Control, StrobeInv, Reading
  <2>2. /\ pins'.drive <=> state' \in Writing
        /\ pins'.oe => state' \in Reading
    BY StrobeStep DEF StrobeInv, Reading
  <2>3. /\ state \in Writing => state' \in Writing \cup {"idle", "reset"}
        /\ state \in Reading => state' \in Reading \cup {"idle", "reset"}
    BY DEF Writing, Reading, Edge, ReadWait, Next, Clock, StReset, StIdle, StCheck,
           StWrite0, StWrite1, StWriteNext, StWriteNext0, StWrite2, StRead0, StRead1,
           StReadNext, StReadNext0, StReadNext1, StRead2, Reset
  <2>4. QED
    BY <2>1, <2>2, <2>3 DEF Writing, Reading
<1>2. TypeOK /\ Control /\ [Next]_vars =>
        [~(pins.oe /\ pins'.drive) /\ ~(pins.drive /\ pins'.oe)]_vars
  BY <1>1
<1>3. QED
  BY <1>2, FlashControl, PTL DEF Spec, Turnaround

(* If STS reports a write by the second edge after it, the chip is never   *)
(* accessed while it is at work, but for the second half of a word write.  *)
(* A chip that reports later would be read while busy: STS is looked at    *)
(* once.                                                                   *)
THEOREM ReadyAtAccess ==
    ASSUME BusyLag <= 1
    PROVE  Spec => [](BusyInv /\ AccessReady)
<1>1. Init => BusyInv
  BY FlashInit
<1>2. TypeOK /\ Control /\ BusyInv /\ [Next]_vars => BusyInv'
  BY BusyStep, FlashStutter
<1>3. TypeOK /\ Control /\ BusyInv => AccessReady
  BY DEF AccessReady, BusyInv, Control, BusInv, AddressInv, StrobeInv, Reading, Writing
<1>4. QED
  BY <1>1, <1>2, <1>3, FlashControl, PTL DEF Spec

(* If in addition the read delay covers the chip's access time, an         *)
(* acknowledged read returns the half words of the address that was asked  *)
(* for.                                                                    *)
THEOREM ReadsCorrect ==
    ASSUME BusyLag <= 1, ReadCount + 1 >= AccessTime
    PROVE  Spec => []ReadCorrect
<1>1. Init => AgeInv /\ DatInv
  BY FlashInit
<1>2. TypeOK /\ Control /\ AgeInv /\ [Next]_vars => AgeInv'
  BY AgeStep, FlashStutter
<1>3. TypeOK /\ Control /\ AgeInv /\ BusyInv /\ DatInv /\ [Next]_vars => DatInv'
  BY DatStep, FlashStutter
<1>4. TypeOK /\ Control /\ DatInv => ReadCorrect
  <2> SUFFICES ASSUME TypeOK, Control, DatInv, ack, ~rq.we,
                      NEW i \in 1 .. Len(Wanted(rq))
               PROVE  dat[Wanted(rq)[i]] = Cell(rq.adr, Wanted(rq)[i])
    BY DEF ReadCorrect
  <2>1. state = "read2"
    BY DEF Control, BusInv, Writing
  <2>2. /\ Wanted(rq)[i] \in {"hi", "lo"}
        /\ Wanted(rq)[i] = "hi" => rq.sel # "lo"
        /\ Wanted(rq)[i] = "lo" => rq.sel # "hi"
    BY DEF Wanted
  <2>3. QED
    BY <2>1, <2>2 DEF DatInv
<1>5. QED
  BY <1>1, <1>2, <1>3, <1>4, FlashControl, ReadyAtAccess, PTL DEF Spec

(* If the write delay is one clock at least, what reaches the chip for a   *)
(* request is exactly its half words, in order, by the acknowledge.        *)
THEOREM WritesExact ==
    ASSUME WriteCount >= 1
    PROVE  Spec => []WriteExact
<1>1. Init => LogInv
  BY FlashInit
<1>2. TypeOK /\ Control /\ LogInv /\ [Next]_vars => LogInv'
  BY LogStep, FlashStutter
<1>3. TypeOK /\ Control /\ LogInv => WriteExact
  <2> SUFFICES ASSUME TypeOK, Control, LogInv PROVE WriteExact
    OBVIOUS
  <2>1. ack => log = Writes(rq)
    <3>1. CASE rq.we
      BY <3>1 DEF Control, BusInv, LogInv, Reading
    <3>2. CASE ~rq.we
      BY <3>2, WritesAre DEF Control, BusInv, LogInv, Reading, Writing, TypeOK
    <3>3. QED
      BY <3>1, <3>2
  <2>2. \/ log = <<>> \/ log = Writes(rq)
        \/ log = <<LogHi>> /\ rq.we /\ rq.sel # "lo"
    BY DEF TypeOK, Control, BusInv, LogInv, Reading, Writing
  <2>3. Writes(rq) \in Seq(Word \X Halves \X Halves)
    <3>1. LogHi \in Word \X Halves \X Halves /\ LogLo \in Word \X Halves \X Halves
      BY FlashAssumption DEF TypeOK, LogHi, LogLo, Halves
    <3>2. \/ Writes(rq) = <<>> \/ Writes(rq) = <<LogHi>> \/ Writes(rq) = <<LogLo>>
          \/ Writes(rq) = <<LogHi, LogLo>>
      BY WritesAre DEF TypeOK, Halves
    <3>3. /\ <<>> \in Seq(Word \X Halves \X Halves)
          /\ <<LogHi>> \in Seq(Word \X Halves \X Halves)
          /\ <<LogLo>> \in Seq(Word \X Halves \X Halves)
          /\ <<LogHi, LogLo>> \in Seq(Word \X Halves \X Halves)
      BY <3>1
    <3>4. QED
      BY <3>2, <3>3, Zenon
  <2>4. CASE log = <<>>
    BY <2>1, <2>3, <2>4 DEF WriteExact
  <2>5. CASE log = Writes(rq)
    BY <2>1, <2>3, <2>5 DEF WriteExact
  <2>6. CASE log = <<LogHi>> /\ rq.we /\ rq.sel # "lo"
    <3>1. Writes(rq) \in {<<LogHi>>, <<LogHi, LogLo>>}
      BY <2>6, WritesAre DEF TypeOK, Halves
    <3>2. <<LogHi>> = SubSeq(Writes(rq), 1, 1)
      BY <3>1
    <3>3. QED
      BY <2>1, <2>6, <3>2 DEF WriteExact
  <2>7. QED
    BY <2>2, <2>4, <2>5, <2>6
<1>4. QED
  BY <1>1, <1>2, <1>3, FlashControl, PTL DEF Spec
=============================================================================
