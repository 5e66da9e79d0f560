----------------------------- MODULE TickTimer -----------------------------
(***************************************************************************)
(* The tick timer of the core (or1200_tt) in the restart mode Linux uses,  *)
(* the timer interrupt of arch/or32, and the wall clock on top: xtime, the *)
(* time of the last tick, and do_gettimeofday, which adds TTCR to it while *)
(* NTP may be adjusting the clock.  One step is one clock.                 *)
(***************************************************************************)
EXTENDS Integers

CONSTANTS
    SYS_CLK,      \* CONFIG_OR32_SYS_CLK: clocks in a microsecond
    TickUsec,     \* microseconds in a tick
    tickadj,
    Slew,         \* bound: microseconds by which NTP makes a tick shorter or longer
    Latency       \* bound: clocks for which other work goes before a pending tick

TP == SYS_CLK * TickUsec        \* TTMR[TP], SYS_TICK_PER

(* Enabling interrupts, taking the exception and BSP_tick need three more. *)
ASSUME TickAssumption ==
    /\ SYS_CLK \in Nat \ {0} /\ TickUsec \in Nat /\ tickadj \in Nat
    /\ Slew \in Nat /\ Slew <= TickUsec
    /\ Latency \in Nat /\ Latency + 3 <= TP

VARIABLES
    ttcr,
    ip,           \* TTMR[IP], the interrupt request
    pc,           \* run; off: interrupts disabled; get: do_gettimeofday; set:
                  \* do_settimeofday; tick, timer: timer_interrupt before BSP_tick
                  \* and do_timer
    slow,         \* time_adjust < 0
    behind,       \* matches that do_timer has not counted yet (history)
    prev, last,   \* the last two answers of gettimeofday, relative to xtime
    late,         \* a tick was pending at the last one (history)
    was,          \* it was given with time_adjust < 0 (history)
    turned        \* it was cut, and the one before given with time_adjust >= 0
                  \* (history)

answers == <<prev, last, late, was, turned>>
vars == <<ttcr, ip, pc, slow, behind, answers>>

match == ttcr = TP

(* Variant: the match is not held.                                         *)
PendingVariant == ip' = match
Pending == ip' = (ip \/ match)

(* One clock of the timer.                                                 *)
Count == ttcr' = IF match THEN 0 ELSE ttcr + 1

Clock == Count /\ behind' = behind + (IF match THEN 1 ELSE 0)
Quiet == Clock /\ Pending /\ UNCHANGED answers
-----------------------------------------------------------------------------
Hurry == ip /\ ttcr >= Latency

(* Time passes.                                                            *)
Work == Quiet /\ ~Hurry /\ pc' = pc /\ slow' = slow

(* local_irq_disable, or another exception, which goes before the tick.    *)
Disable == Quiet /\ ~Hurry /\ pc = "run" /\ pc' = "off" /\ slow' = slow
Enable == Quiet /\ pc = "off" /\ pc' = "run" /\ slow' = slow

TakeTick == Quiet /\ pc = "run" /\ ip /\ pc' = "tick" /\ slow' = slow

(* BSP_tick: a write of TTMR goes before a match in the same clock.        *)
BSP_tick ==
    /\ Clock /\ pc = "tick" /\ ip' = FALSE /\ pc' = "timer"
    /\ slow' = slow /\ UNCHANGED answers

(* do_timer moves xtime on by d; answers are kept relative to it, down to  *)
(* one tick.                                                               *)
(* Variant: xtime is left to somebody else.                                *)
BeforeVariant(t, d) == t
Before(t, d) == IF t - d < -TickUsec THEN -TickUsec ELSE t - d

(* At the end of a second second_overflow takes a part, or the rest, of    *)
(* time_adjust into the length of the ticks that follow.                   *)
second_overflow == slow' \in {slow, FALSE}

(* update_wall_time: the length of a tick is what NTP makes of it.         *)
do_timer ==
    /\ Count /\ Pending /\ behind' = behind + (IF match THEN 1 ELSE 0) - 1
    /\ pc = "timer" /\ pc' = "run"
    /\ \E d \in TickUsec - Slew .. TickUsec + Slew :
           prev' = Before(prev, d) /\ last' = Before(last, d)
    /\ second_overflow
    /\ UNCHANGED <<late, was, turned>>
-----------------------------------------------------------------------------
BSP_gettimeoffset == ttcr \div SYS_CLK

(* do_gettimeofday: interrupts are disabled, then TTCR is read; while NTP  *)
(* slows the clock the offset is cut.                                      *)
do_gettimeofday == Quiet /\ ~Hurry /\ pc = "run" /\ pc' = "get" /\ slow' = slow

Cut(usec) == IF slow /\ usec > tickadj THEN tickadj ELSE usec

Answer ==
    /\ Clock /\ Pending /\ pc = "get" /\ pc' = "run" /\ slow' = slow
    /\ prev' = last /\ last' = Cut(BSP_gettimeoffset)
    /\ late' = ip /\ was' = slow
    /\ turned' = (Cut(BSP_gettimeoffset) # BSP_gettimeoffset /\ ~was)

(* do_settimeofday: interrupts are disabled, xtime becomes the time given  *)
(* less the offset, so that relative to xtime the time given is the        *)
(* offset; from here on answers are compared with it.                      *)
do_settimeofday == Quiet /\ ~Hurry /\ pc = "run" /\ pc' = "set" /\ slow' = slow

SetXtime ==
    /\ Clock /\ Pending /\ pc = "set" /\ pc' = "run" /\ slow' = FALSE
    /\ prev' = BSP_gettimeoffset /\ last' = BSP_gettimeoffset
    /\ late' = ip /\ was' = FALSE /\ turned' = FALSE

(* do_adjtimex sets time_adjust, with interrupts disabled; the time it     *)
(* returns is an answer of do_gettimeofday like any other.                 *)
do_adjtimex == Quiet /\ ~Hurry /\ pc = "run" /\ pc' = "run" /\ slow' \in BOOLEAN
-----------------------------------------------------------------------------
Init ==
    /\ ttcr = 0 /\ ip = FALSE /\ pc = "run" /\ slow = FALSE /\ behind = 0
    /\ prev = 0 /\ last = 0 /\ late = FALSE /\ was = FALSE /\ turned = FALSE

Next ==
    \/ Work \/ Disable \/ Enable \/ TakeTick \/ BSP_tick \/ do_timer
    \/ do_gettimeofday \/ Answer \/ do_settimeofday \/ SetXtime \/ do_adjtimex

Spec == Init /\ [][Next]_vars
-----------------------------------------------------------------------------
TypeOK ==
    /\ ttcr \in 0..TP /\ ip \in BOOLEAN /\ slow \in BOOLEAN /\ behind \in 0..2
    /\ pc \in {"run", "off", "get", "set", "tick", "timer"}
    /\ prev \in (-TickUsec)..TickUsec /\ last \in (-TickUsec)..TickUsec
    /\ late \in BOOLEAN /\ was \in BOOLEAN /\ turned \in BOOLEAN

(* Every match of the counter is counted by do_timer once: between the two *)
(* it is in TTMR[IP] or in the handler.  A match may come between BSP_tick *)
(* and do_timer; none may come in the clock of BSP_tick.                   *)
NoTickLost ==
    behind = (IF ip THEN 1 ELSE 0) + (IF pc = "timer" THEN 1 ELSE 0)

(* The time gettimeofday answers goes back by more than NTP takes off a    *)
(* tick only in two cases: TTCR was read after it had restarted and before *)
(* the tick was counted, or it is the first answer that do_gettimeofday    *)
(* cut because time_adjust had become negative.  Else, and in particular   *)
(* while time_adjust stays negative and when that ends, an answer is not   *)
(* before the last one or before the time do_settimeofday has set.         *)
TimeForward == prev <= last + Slew \/ late \/ turned

(* gettimeofday never goes back.                                           *)
TimeMonotone == prev <= last

(* Slowing the clock does not make time go back (the comment in            *)
(* do_gettimeofday): a tick that has not been counted is the only reason.  *)
SlowedForward == prev <= last \/ late
=============================================================================
