-------------------------------- MODULE Pic --------------------------------
(***************************************************************************)
(* The interrupt controller of the core (or1200_pic) and the interrupt     *)
(* code of Linux on top of it (arch/or32/kernel/irq.c): do_IRQ, and        *)
(* request_irq and free_irq of drivers that are opened and closed.  One    *)
(* step is one clock; an access of a special purpose register is one step  *)
(* of the processor, and there may be any number of clocks between two.    *)
(***************************************************************************)
EXTENDS Naturals, FiniteSets

CONSTANT Irqs     \* the lines in use, numbers

ASSUME PicAssumption == Irqs \subseteq Nat /\ IsFiniteSet(Irqs)

VARIABLES
    open,         \* devices whose own interrupts are enabled
    cause,        \* devices that want service
    line,         \* pic_int
    picmr, picsr,
    iee,          \* SR[IEE]
    handler,      \* irq_list entries with a handler
    pc,           \* run; read, call, clear, write in do_IRQ
    irq,          \* the interrupt do_IRQ is at
    tmp,          \* PICSR as read by do_IRQ
    task,         \* what the running process is at: [op, irq, mr]
    left          \* lines whose bit free_irq left in PICSR (history)

vars == <<open, cause, line, picmr, picsr, iee, handler, pc, irq, tmp, task, left>>

um_ints == line \cap picmr
intr == um_ints # {}

None == [op |-> "none", irq |-> 0, mr |-> {}]
-----------------------------------------------------------------------------
(* The lines follow the devices; any device that is open may want service. *)
Devices == line' = cause /\ \E new \in SUBSET open' : cause' = (cause \cap open') \cup new

(* PICSR collects what is not masked; a write gives it a value, and the    *)
(* lines that are up stay in.                                              *)
PicsrKeeps == picsr' = picsr \cup um_ints
PicsrWrite(v) == picsr' = v \cup um_ints
-----------------------------------------------------------------------------
(* do_IRQ.                                                                 *)
Kernel == open' = open /\ UNCHANGED <<picmr, handler, task, left>> /\ PicsrKeeps /\ Devices

TakeInterrupt ==
    /\ pc = "run" /\ iee /\ intr
    /\ pc' = "read" /\ iee' = FALSE
    /\ Kernel /\ UNCHANGED <<irq, tmp>>

(* pic_do_irq: the lowest bit of PICSR, whatever PICMR is now.             *)
(* Variant: the scan stops at the first line of the group.                 *)
LowestVariant(s) == CHOOSE i \in Irqs : \A j \in Irqs : i <= j
Lowest(s) == CHOOSE i \in s : \A j \in s : i <= j

ReadPending ==
    /\ pc = "read"
    /\ IF picsr = {} THEN pc' = "run" /\ iee' = TRUE /\ irq' = irq
       ELSE pc' = "call" /\ iee' = iee /\ irq' = Lowest(picsr)
    /\ Kernel /\ UNCHANGED tmp

(* The handler serves the device; without one the kernel panics.           *)
CallHandler ==
    /\ pc = "call"
    /\ pc' = IF irq \in handler THEN "clear" ELSE "panic"
    /\ line' = cause
    /\ \E new \in SUBSET open : cause' = (cause \ {irq}) \cup new
    /\ PicsrKeeps
    /\ UNCHANGED <<open, picmr, iee, handler, irq, tmp, task, left>>

ReadPicsr ==
    /\ pc = "clear" /\ pc' = "write" /\ tmp' = picsr
    /\ Kernel /\ UNCHANGED <<iee, irq>>

(* Variant: the bit stays.                                                 *)
WritePicsrVariant ==
    /\ pc = "write" /\ pc' = "read"
    /\ UNCHANGED <<open, picmr, iee, handler, irq, tmp, task, left>>
    /\ PicsrWrite(tmp) /\ Devices
WritePicsr ==
    /\ pc = "write" /\ pc' = "read"
    /\ UNCHANGED <<open, picmr, iee, handler, irq, tmp, task, left>>
    /\ PicsrWrite(tmp \ {irq}) /\ Devices

(* A clock between two accesses.                                           *)
Clock == Kernel /\ UNCHANGED <<pc, iee, irq, tmp>>
-----------------------------------------------------------------------------
(* The running process: it turns interrupts off for a while, and opens and *)
(* closes drivers.                                                         *)
Runs == pc = "run" /\ PicsrKeeps /\ UNCHANGED <<pc, irq, tmp>>

Cli == Runs /\ iee' = ~iee /\ UNCHANGED <<open, picmr, handler, task, left>> /\ Devices

(* request_irq sets the handler and unmasks the line.                      *)
Request(i) ==
    /\ Runs /\ task = None /\ i \notin handler
    /\ handler' = handler \cup {i} /\ left' = left \ {i}
    /\ task' = [op |-> "request", irq |-> i, mr |-> picmr]
    /\ UNCHANGED <<open, picmr, iee>> /\ Devices

Unmask ==
    /\ Runs /\ task.op = "request"
    /\ picmr' = task.mr \cup {task.irq} /\ task' = [task EXCEPT !.op = "start"]
    /\ UNCHANGED <<open, iee, handler, left>> /\ Devices

(* Then the driver enables its device.                                     *)
Start ==
    /\ Runs /\ task.op = "start"
    /\ open' = open \cup {task.irq} /\ task' = None
    /\ UNCHANGED <<picmr, iee, handler, left>> /\ Devices

(* The driver disables its device; then free_irq: the mask is read and     *)
(* written, and the handler is removed.                                    *)
Close(i) ==
    /\ Runs /\ task = None /\ i \in open
    /\ open' = open \ {i}
    /\ task' = [op |-> "close", irq |-> i, mr |-> {}]
    /\ UNCHANGED <<picmr, iee, handler, left>> /\ Devices

Free ==
    /\ Runs /\ task.op = "close"
    /\ task' = [task EXCEPT !.op = "free", !.mr = picmr]
    /\ UNCHANGED <<open, picmr, iee, handler, left>> /\ Devices

(* Variant: every line is masked.                                          *)
MaskVariant ==
    /\ Runs /\ task.op = "free"
    /\ picmr' = {} /\ task' = [task EXCEPT !.op = "unlink"]
    /\ UNCHANGED <<open, iee, handler, left>> /\ Devices
Mask ==
    /\ Runs /\ task.op = "free"
    /\ picmr' = task.mr \ {task.irq} /\ task' = [task EXCEPT !.op = "unlink"]
    /\ UNCHANGED <<open, iee, handler, left>> /\ Devices

Unlink ==
    /\ Runs /\ task.op = "unlink"
    /\ handler' = handler \ {task.irq} /\ task' = None
    /\ left' = left \cup ({task.irq} \cap picsr)
    /\ UNCHANGED <<open, picmr, iee>> /\ Devices
-----------------------------------------------------------------------------
Init ==
    /\ open = {} /\ cause = {} /\ line = {} /\ picmr = {} /\ picsr = {}
    /\ iee = TRUE /\ handler = {} /\ pc = "run" /\ irq = 0 /\ tmp = {} /\ task = None
    /\ left = {}

DoIrq == TakeInterrupt \/ ReadPending \/ CallHandler \/ ReadPicsr \/ WritePicsr

Process ==
    \/ Cli \/ Unmask \/ Start \/ Free \/ Mask \/ Unlink
    \/ \E i \in Irqs : Request(i) \/ Close(i)

Next == DoIrq \/ Clock \/ Process

Spec == Init /\ [][Next]_vars

(* do_IRQ runs to its end, an interrupt that keeps coming up with          *)
(* interrupts enabled is taken, and interrupts are enabled again.          *)
FairSpec ==
    /\ Spec
    /\ WF_vars(ReadPending) /\ WF_vars(CallHandler) /\ WF_vars(ReadPicsr)
    /\ WF_vars(WritePicsr) /\ SF_vars(TakeInterrupt) /\ SF_vars(Cli)
    /\ WF_vars(Unmask) /\ WF_vars(Start) /\ WF_vars(Mask) /\ WF_vars(Unlink)
-----------------------------------------------------------------------------
TypeOK ==
    /\ open \subseteq Irqs /\ cause \subseteq Irqs /\ line \subseteq Irqs
    /\ picmr \subseteq Irqs /\ picsr \subseteq Irqs /\ handler \subseteq Irqs
    /\ left \subseteq Irqs /\ iee \in BOOLEAN /\ tmp \subseteq Irqs /\ irq \in Irqs \cup {0}
    /\ pc \in {"run", "read", "call", "clear", "write", "panic"}
    /\ task \in [op : {"none", "request", "start", "close", "free", "unlink"},
                 irq : Irqs \cup {0}, mr : SUBSET Irqs]

(* do_IRQ never finds an interrupt without a handler: the kernel does not  *)
(* panic.                                                                  *)
HandlerKnown == pc = "call" => irq \in handler

(* An interrupt without a handler, and so the panic of do_IRQ, has one     *)
(* cause only: free_irq dropped the handler of that line while its bit was *)
(* set in PICSR, and no request_irq has come since.  No order of masking,  *)
(* unmasking, opening, closing and do_IRQ's own reads and writes of PICSR  *)
(* brings up another line.                                                 *)
PanicCause == pc \in {"call", "panic"} => irq \in handler \cup left

(* A device that wants service gets it, whatever other lines come up while *)
(* PICSR is read and written, unless lower ones keep coming, it closes or  *)
(* the kernel panics.                                                      *)
IrqServed ==
    \A i \in Irqs :
        []<>(\/ i \notin cause \/ (pc = "clear" /\ irq = i)
             \/ pc = "panic" \/ \E j \in cause : j < i)

(* do_IRQ comes to its end, unless in a panic, once the devices are quiet. *)
IrqReturns == (<>[](cause = {})) => []<>(pc \in {"run", "panic"})
=============================================================================
