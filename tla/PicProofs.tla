----------------------------- MODULE PicProofs ------------------------------
(***************************************************************************)
(* Proofs about the interrupt controller and the interrupt code of Linux,  *)
(* for any set of lines and any drivers.                                   *)
(*                                                                         *)
(* PanicCause speaks of the moment do_IRQ calls; what keeps it true is     *)
(* that only lines with a handler are unmasked, at every point of          *)
(* request_irq and free_irq (MaskBound), so that PICSR and do_IRQ's copies *)
(* of it refer to lines with a handler or to one free_irq left behind      *)
(* (StatusKnown, CallKnown).  Of the drivers it is needed that they close  *)
(* what they have opened before they call free_irq, and nothing of when    *)
(* the devices raise their lines.                                          *)
(***************************************************************************)
EXTENDS Pic, TLAPS, WellFoundedInduction

(* Lines do_IRQ may find.                                                  *)
Known == handler \cup left

(* Only lines with a handler are unmasked; a process at work on a line has *)
(* its handler in place, and takes it away only once the line is masked.   *)
MaskBound ==
    /\ picmr \subseteq handler
    /\ task.op \in {"request", "free"} => task.mr \subseteq handler
    /\ task.op # "none" => task.irq \in handler
    /\ task.op = "unlink" => task.irq \notin picmr
    /\ open \subseteq handler
    /\ task.op \in {"close", "free", "unlink"} => task.irq \notin open

StatusKnown == picsr \subseteq Known

CallKnown ==
    /\ pc \in {"call", "clear", "write", "panic"} => irq \in Known
    /\ pc = "write" => tmp \subseteq Known

PicInv == MaskBound /\ StatusKnown /\ CallKnown
-----------------------------------------------------------------------------
(* Lowest picks a member of a set of lines that is not empty.              *)
LEMMA LowestInSet ==
    ASSUME NEW S \in SUBSET Nat, S # {}
    PROVE  Lowest(S) \in S
<1> DEFINE LT == OpToRel(<, Nat)
<1>1. \E x \in S : \A y \in S : ~ (<<y, x>> \in LT)
  <2>1. IsWellFoundedOn(LT, Nat)
    BY NatLessThanWellFounded
  <2> HIDE DEF LT
  <2>2. QED
    BY <2>1, WFMin, Zenon
<1>2. ASSUME NEW x \in S, NEW y \in S, y < x
      PROVE  <<y, x>> \in LT
  <2>1. <<y, x>> \in Nat \X Nat /\ <<y, x>>[1] < <<y, x>>[2]
    BY <1>2
  <2>2. QED
    BY <2>1, Zenon DEF OpToRel
<1> HIDE DEF LT
<1>3. PICK x \in S : \A y \in S : ~ (<<y, x>> \in LT)
  BY <1>1
<1>4. ASSUME NEW y \in S
      PROVE  x <= y
  <2>1. ~ (y < x)
    BY <1>2, <1>3, Zenon
  <2>2. QED
    BY <2>1
<1>5. QED
  BY <1>4 DEF Lowest

(* The registers and the kernel's data keep their types: do_IRQ only ever  *)
(* looks up lines that exist.                                              *)
THEOREM PicTypeCorrect == Spec => []TypeOK
<1> DEFINE Busy == task.op # "none" => task.irq \in Irqs
           Tasks == [op : {"none", "request", "start", "close", "free", "unlink"},
                     irq : Irqs \cup {0}, mr : SUBSET Irqs]
<1>1. Init => TypeOK /\ Busy
  BY DEF Init, TypeOK, None
<1>2. TypeOK /\ Busy /\ [Next]_vars => (TypeOK /\ Busy)'
  <2> SUFFICES ASSUME TypeOK, Busy, [Next]_vars
               PROVE  TypeOK' /\ Busy'
    OBVIOUS
  <2>1. CASE DoIrq \/ Clock
    <3>1. picsr # {} => Lowest(picsr) \in picsr
      BY LowestInSet, PicAssumption DEF TypeOK
    <3>2. CASE Kernel
      <4>1. open' \subseteq Irqs /\ cause' \subseteq Irqs /\ line' \subseteq Irqs
            /\ picsr' \subseteq Irqs /\ UNCHANGED <<picmr, handler, task, left>>
        BY <3>2 DEF Kernel, Devices, PicsrKeeps, um_ints, TypeOK
      <4>2. QED
        BY <2>1, <3>1, <3>2, <4>1
           DEF DoIrq, Clock, TakeInterrupt, ReadPending, ReadPicsr, CallHandler,
               WritePicsr, TypeOK
    <3>3. CASE CallHandler
      BY <3>3 DEF CallHandler, PicsrKeeps, um_ints, TypeOK
    <3>4. CASE WritePicsr
      BY <3>4 DEF WritePicsr, PicsrWrite, Devices, um_ints, TypeOK
    <3>5. QED
      BY <2>1, <3>2, <3>3, <3>4 DEF DoIrq, Clock, TakeInterrupt, ReadPending, ReadPicsr
  <2>2. ASSUME Runs, Devices, open' \subseteq Irqs, picmr' \subseteq Irqs,
               handler' \subseteq Irqs, left' \subseteq Irqs, iee' \in BOOLEAN, task' \in Tasks, Busy'
        PROVE  TypeOK' /\ Busy'
    <3>1. cause' \subseteq Irqs /\ line' \subseteq Irqs /\ picsr' \subseteq Irqs
          /\ UNCHANGED <<pc, irq, tmp>>
      BY <2>2 DEF Devices, Runs, PicsrKeeps, um_ints, TypeOK
    <3>2. QED
      BY <2>2, <3>1 DEF TypeOK
  <2>3. CASE Process
    <3>0. task \in Tasks /\ None \in Tasks /\ None.op = "none"
      BY DEF TypeOK, None
    <3>1. CASE Cli
      BY <3>0, <3>1, <2>2 DEF Cli, TypeOK
    <3>2. CASE Unmask
      BY <3>0, <3>2, <2>2 DEF Unmask, TypeOK
    <3>3. CASE Start
      BY <3>0, <3>3, <2>2 DEF Start, TypeOK
    <3>4. CASE Free
      BY <3>0, <3>4, <2>2 DEF Free, TypeOK
    <3>5. CASE Mask
      BY <3>0, <3>5, <2>2 DEF Mask, TypeOK
    <3>6. CASE Unlink
      BY <3>0, <3>6, <2>2 DEF Unlink, TypeOK
    <3>7. ASSUME NEW i \in Irqs, Request(i)
          PROVE  TypeOK' /\ Busy'
      BY <3>0, <3>7, <2>2 DEF Request, TypeOK
    <3>8. ASSUME NEW i \in Irqs, Close(i)
          PROVE  TypeOK' /\ Busy'
      BY <3>0, <3>8, <2>2 DEF Close, TypeOK
    <3>9. QED
      BY <2>3, <3>1, <3>2, <3>3, <3>4, <3>5, <3>6, <3>7, <3>8 DEF Process
  <2>4. CASE UNCHANGED vars
    BY <2>4 DEF vars, TypeOK
  <2>5. QED
    BY <2>1, <2>3, <2>4 DEF Next
<1>3. QED
  BY <1>1, <1>2, PTL DEF Spec

(* The steps of do_IRQ leave the masks, the handlers and the process       *)
(* alone.                                                                  *)
LEMMA DoIrqPic ==
    ASSUME TypeOK, PicInv, DoIrq \/ Clock
    PROVE  PicInv'
<1> USE DEF PicInv
<1>1. UNCHANGED <<open, picmr, handler, task, left>>
  BY DEF DoIrq, Clock, TakeInterrupt, ReadPending, CallHandler, ReadPicsr, WritePicsr, Kernel
<1>2. Known' = Known /\ MaskBound'
  BY <1>1 DEF Known, MaskBound
<1>3. um_ints \subseteq Known
  BY DEF um_ints, MaskBound, Known
<1>4. StatusKnown'
  <2>1. CASE PicsrKeeps
    BY <2>1, <1>2, <1>3 DEF PicsrKeeps, StatusKnown
  <2>2. CASE WritePicsr
    BY <2>2, <1>2, <1>3 DEF WritePicsr, PicsrWrite, StatusKnown, CallKnown
  <2>3. QED
    BY <2>1, <2>2
       DEF DoIrq, Clock, TakeInterrupt, ReadPending, CallHandler, ReadPicsr, Kernel
<1>5. CallKnown'
  <2>1. CASE TakeInterrupt
    BY <2>1, <1>2 DEF TakeInterrupt, CallKnown
  <2>2. CASE ReadPending
    <3>1. picsr # {} => Lowest(picsr) \in picsr
      BY LowestInSet, PicAssumption DEF TypeOK
    <3>2. QED
      BY <2>2, <3>1, <1>2 DEF ReadPending, CallKnown, StatusKnown
  <2>3. CASE CallHandler
    BY <2>3, <1>2 DEF CallHandler, CallKnown
  <2>4. CASE ReadPicsr
    BY <2>4, <1>2 DEF ReadPicsr, CallKnown, StatusKnown
  <2>5. CASE WritePicsr
    BY <2>5, <1>2 DEF WritePicsr, CallKnown
  <2>6. CASE Clock
    BY <2>6, <1>2 DEF Clock, CallKnown
  <2>7. QED
    BY <2>1, <2>2, <2>3, <2>4, <2>5, <2>6 DEF DoIrq
<1>6. QED
  BY <1>2, <1>4, <1>5

(* A step of a process: it runs only when do_IRQ does not, and PICSR takes *)
(* nothing but unmasked lines.                                             *)
LEMMA ProcessStep ==
    ASSUME PicInv, Runs, MaskBound', picsr \cup picmr \subseteq Known'
    PROVE  PicInv'
<1>1. StatusKnown'
  BY DEF Runs, PicsrKeeps, um_ints, StatusKnown
<1>2. CallKnown'
  BY DEF Runs, CallKnown
<1>3. QED
  BY <1>1, <1>2 DEF PicInv

LEMMA ProcessPic ==
    ASSUME TypeOK, PicInv, Process
    PROVE  PicInv'
<1> USE DEF PicInv
<1>1. picsr \cup picmr \subseteq Known
  BY DEF StatusKnown, MaskBound, Known
<1>2. CASE Cli \/ Start \/ Free \/ Mask
  <2>1. Runs /\ handler' = handler /\ left' = left
    BY <1>2 DEF Cli, Start, Free, Mask
  <2>2. MaskBound'
    <3>1. CASE Cli
      BY <3>1 DEF Cli, MaskBound
    <3>2. CASE Start
      BY <3>2 DEF Start, MaskBound, None
    <3>3. CASE Free
      BY <3>3 DEF Free, MaskBound, TypeOK
    <3>4. CASE Mask
      BY <3>4 DEF Mask, MaskBound, TypeOK
    <3>5. QED
      BY <1>2, <3>1, <3>2, <3>3, <3>4
  <2>3. QED
    BY <1>1, <2>1, <2>2, ProcessStep DEF Known
<1>3. CASE Unmask
  <2>1. MaskBound' /\ Known' = Known
    BY <1>3 DEF Unmask, MaskBound, TypeOK, Known
  <2>2. QED
    BY <1>1, <1>3, <2>1, ProcessStep DEF Unmask
<1>4. CASE Unlink
  <2>1. MaskBound'
    BY <1>4 DEF Unlink, MaskBound, None
  <2>2. picsr \cup picmr \subseteq Known'
    BY <1>1, <1>4 DEF Unlink, MaskBound, Known
  <2>3. QED
    BY <1>4, <2>1, <2>2, ProcessStep DEF Unlink
<1>5. ASSUME NEW i \in Irqs, Request(i)
      PROVE  PicInv'
  <2>1. MaskBound' /\ Known \subseteq Known'
    BY <1>5 DEF Request, MaskBound, Known
  <2>2. QED
    BY <1>1, <1>5, <2>1, ProcessStep DEF Request
<1>6. ASSUME NEW i \in Irqs, Close(i)
      PROVE  PicInv'
  <2>1. Runs /\ handler' = handler /\ left' = left /\ picmr' = picmr /\ open' = open \ {i}
        /\ task' = [op |-> "close", irq |-> i, mr |-> {}]
    BY <1>6 DEF Close
  <2>2. i \in handler
    BY <1>6 DEF Close, MaskBound
  <2>3. QED
    BY <1>1, <2>1, <2>2, ProcessStep DEF MaskBound, Known
<1>7. QED
  BY <1>2, <1>3, <1>4, <1>5, <1>6 DEF Process

(* do_IRQ finds a line without a handler, and panics, only if free_irq     *)
(* dropped that handler with the line's bit still set in PICSR.            *)
THEOREM PanicOnlyAfterFree == Spec => []PanicCause
<1>1. Init => PicInv
  BY DEF Init, PicInv, MaskBound, StatusKnown, CallKnown, Known, None
<1>2. TypeOK /\ PicInv /\ [Next]_vars => PicInv'
  <2> SUFFICES ASSUME TypeOK, PicInv, [Next]_vars
               PROVE  PicInv'
    OBVIOUS
  <2>1. CASE UNCHANGED vars
    BY <2>1 DEF vars, PicInv, MaskBound, StatusKnown, CallKnown, Known
  <2>2. QED
    BY <2>1, DoIrqPic, ProcessPic DEF Next
<1>3. PicInv => PanicCause
  BY DEF PicInv, CallKnown, Known, PanicCause
<1>4. QED
  BY <1>1, <1>2, <1>3, PicTypeCorrect, PTL DEF Spec
=============================================================================
