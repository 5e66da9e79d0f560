-------------------------- MODULE TickTimerProofs ---------------------------
(***************************************************************************)
(* Proofs about the tick timer and the wall clock, for any period, any     *)
(* clock rate, any length NTP gives to a tick and any latency that leaves  *)
(* three clocks of the period.                                             *)
(*                                                                         *)
(* NoTickLost is not inductive: a match while a tick is pending would be   *)
(* lost.  InTime says how far the counter can be while a tick is pending,  *)
(* at each point of the software; TimeForward needs in addition that the   *)
(* last answer is not ahead of the counter, cut as the answer was          *)
(* (NotAhead).                                                             *)
(***************************************************************************)
EXTENDS TickTimer, TLAPS

(* How long a tick has been pending, and that the handler runs for one.    *)
InTime ==
    /\ pc = "tick" => ip
    /\ ip => ttcr <= Latency + (IF pc = "tick" THEN 2 ELSE IF pc = "run" THEN 1 ELSE 0)

(* The last answer is in the past, unless a tick is yet to be counted; if  *)
(* it was given with time_adjust < 0, also when the next one is cut.       *)
NotAhead ==
    ~ip /\ pc # "timer" =>
        /\ last <= BSP_gettimeoffset + Slew
        /\ was => last <= tickadj + Slew

TickInv == TypeOK /\ InTime /\ NoTickLost /\ NotAhead /\ TimeForward
-----------------------------------------------------------------------------
(* Division by the clock rate keeps the order and never exceeds a tick.    *)
LEMMA DivOrder ==
    ASSUME NEW k \in Nat \ {0}, NEW a \in Nat, NEW b \in Nat, a <= b
    PROVE  a \div k \in Nat /\ a \div k <= b \div k
<1>1. /\ a \div k \in Int /\ b \div k \in Int /\ a % k \in 0..k-1 /\ b % k \in 0..k-1
      /\ a = k * (a \div k) + (a % k) /\ b = k * (b \div k) + (b % k)
  BY Z3
<1> DEFINE q == a \div k
           p == b \div k
<1>2. q \in Int /\ p \in Int /\ k * q <= a /\ b < k * p + k /\ a < k * q + k
  BY <1>1
<1> HIDE DEF q, p
<1>3. ASSUME NEW x \in Int, NEW y \in Int, x >= y + 1
      PROVE  k * x >= k * y + k
  BY <1>3, Z3
<1>4. q <= p
  <2>1. SUFFICES ASSUME q >= p + 1 PROVE FALSE
    BY <1>2
  <2>2. k * q >= k * p + k
    BY <1>2, <1>3, <2>1
  <2>3. k * q \in Int /\ k * p \in Int
    BY <1>2
  <2>4. QED
    BY <1>2, <2>2, <2>3
<1>5. q >= 0
  <2>1. SUFFICES ASSUME 0 >= q + 1 PROVE FALSE
    BY <1>2
  <2>2. k * 0 >= k * q + k /\ k * 0 = 0
    BY <1>2, <1>3, <2>1
  <2>3. k * q \in Int
    BY <1>2
  <2>4. QED
    BY <1>2, <2>2, <2>3
<1>6. QED
  BY <1>2, <1>4, <1>5 DEF q, p

LEMMA PeriodType == TP \in Nat /\ TP >= Latency + 3 /\ TP \div SYS_CLK = TickUsec
<1>1. TP \in Nat
  BY TickAssumption DEF TP
<1>2. (SYS_CLK * TickUsec) \div SYS_CLK = TickUsec
  BY TickAssumption, Z3
<1>3. QED
  BY <1>1, <1>2, TickAssumption DEF TP

(* Offsets of two moments of the same tick.                                *)
LEMMA OffsetGrows ==
    ASSUME ttcr \in 0..TP
    PROVE  /\ BSP_gettimeoffset \in 0..TickUsec
           /\ ttcr' \in 0..TP => BSP_gettimeoffset' \in 0..TickUsec
           /\ ttcr' \in 0..TP /\ ttcr <= ttcr' => BSP_gettimeoffset <= BSP_gettimeoffset'
<1>1. ASSUME NEW a \in 0..TP
      PROVE  a \div SYS_CLK \in 0..TickUsec
  BY DivOrder, PeriodType, TickAssumption
<1>2. ASSUME NEW a \in 0..TP, NEW b \in 0..TP, a <= b
      PROVE  a \div SYS_CLK <= b \div SYS_CLK
  BY <1>2, DivOrder, PeriodType, TickAssumption
<1>3. QED
  BY <1>1, <1>2 DEF BSP_gettimeoffset

(* A match never finds a tick pending.                                     *)
LEMMA MatchFindsNone ==
    ASSUME TickInv, match
    PROVE  ~ip
BY TickAssumption, PeriodType DEF TickInv, TypeOK, InTime, match

(* Moving xtime on keeps the order of two answers and leaves them in       *)
(* range; an answer of the tick that ends is ahead by Slew at most.        *)
LEMMA BeforeOrder ==
    ASSUME NEW s \in (-TickUsec)..TickUsec, NEW t \in (-TickUsec)..TickUsec,
           NEW d \in TickUsec - Slew .. TickUsec + Slew
    PROVE  /\ Before(s, d) \in (-TickUsec)..TickUsec /\ Before(s, d) <= Slew
           /\ s <= t + Slew => Before(s, d) <= Before(t, d) + Slew
BY TickAssumption DEF Before

(* The counter stays in its range.                                         *)
LEMMA CountType ==
    ASSUME TypeOK, Count
    PROVE  ttcr' \in 0..TP /\ (match => ttcr' = 0) /\ (~match => ttcr' = ttcr + 1)
BY PeriodType DEF TypeOK, Count, match

(* The pending bit is set by a match and kept.                             *)
LEMMA PendingMeans ==
    ASSUME Pending, ip \in BOOLEAN
    PROVE  ip' \in BOOLEAN /\ (ip' <=> ip \/ match)
BY Zenon DEF Pending

(* The invariant in two parts: the Boolean registers, and the rest.        *)
Flags ==
    /\ ip \in BOOLEAN /\ slow \in BOOLEAN
    /\ late \in BOOLEAN /\ was \in BOOLEAN /\ turned \in BOOLEAN
Numbers ==
    /\ ttcr \in 0..TP /\ pc \in {"run", "off", "get", "set", "tick", "timer"}
    /\ prev \in (-TickUsec)..TickUsec /\ last \in (-TickUsec)..TickUsec

LEMMA Parts == TickInv <=> Flags /\ Numbers /\ InTime /\ NoTickLost /\ NotAhead /\ TimeForward
<1>1. NoTickLost => behind \in 0..2
  BY DEF NoTickLost
<1>2. QED
  BY <1>1, Zenon DEF TickInv, TypeOK, Flags, Numbers

(* The counter, the pending bit and the count of ticks after a clock in    *)
(* which TTMR is not written.                                              *)
LEMMA ClockStep ==
    ASSUME TickInv, Count, Pending,
           behind' = behind + (IF match THEN 1 ELSE 0)
                     - (IF pc = "timer" /\ pc' # "timer" THEN 1 ELSE 0),
           pc' = "timer" => pc = "timer",
           pc' = "tick" => ip,
           ip => ttcr + 1 <= Latency +
                   (IF pc' = "tick" THEN 2 ELSE IF pc' = "run" THEN 1 ELSE 0)
    PROVE  /\ ip' \in BOOLEAN /\ (ip' <=> ip \/ match)
           /\ ttcr' \in 0..TP /\ (match => ttcr' = 0 /\ ~ip) /\ (~match => ttcr' = ttcr + 1)
           /\ InTime' /\ NoTickLost'
<1>2. Flags /\ Numbers /\ InTime /\ NoTickLost
  BY Parts
<1>3. ip' \in BOOLEAN /\ (ip' <=> ip \/ match)
  BY <1>2, PendingMeans DEF Flags
<1>4. ttcr' \in 0..TP /\ (match => ttcr' = 0 /\ ~ip) /\ (~match => ttcr' = ttcr + 1)
  BY CountType, MatchFindsNone DEF TickInv
<1>5. InTime'
  BY <1>2, <1>3, <1>4, TickAssumption DEF InTime, Numbers
<1>6. NoTickLost'
  BY <1>2, <1>3, <1>4 DEF NoTickLost, Numbers
<1>7. QED
  BY <1>3, <1>4, <1>5, <1>6

(* A step of the software that leaves TTMR and the answers alone.          *)
LEMMA QuietStep ==
    ASSUME TickInv, Quiet, slow' \in BOOLEAN,
           pc' \in {"run", "off", "get", "set", "tick", "timer"},
           pc' = "tick" => ip,
           pc' = "timer" <=> pc = "timer",
           ip => ttcr + 1 <= Latency +
                   (IF pc' = "tick" THEN 2 ELSE IF pc' = "run" THEN 1 ELSE 0)
    PROVE  TickInv'
<1>1. Count /\ Pending /\ behind' = behind + (IF match THEN 1 ELSE 0)
      /\ prev' = prev /\ last' = last /\ late' = late /\ was' = was /\ turned' = turned
  BY DEF Quiet, Clock, answers
<1>2. Flags /\ Numbers /\ InTime /\ NoTickLost /\ NotAhead /\ TimeForward
  BY Parts
<1>b. behind' = behind + (IF match THEN 1 ELSE 0)
                - (IF pc = "timer" /\ pc' # "timer" THEN 1 ELSE 0)
  BY <1>1, <1>2 DEF NoTickLost
<1>3. /\ ip' \in BOOLEAN /\ (ip' <=> ip \/ match)
      /\ ttcr' \in 0..TP /\ (match => ttcr' = 0 /\ ~ip) /\ (~match => ttcr' = ttcr + 1)
      /\ InTime' /\ NoTickLost'
  BY <1>1, <1>b, ClockStep
<1>4. Flags'
  BY <1>1, <1>2, <1>3, Zenon DEF Flags
<1>5. Numbers'
  BY <1>1, <1>2, <1>3 DEF Numbers
<1>6. TimeForward'
  BY <1>1, <1>2, Zenon DEF TimeForward
<1>7. NotAhead'
  <2>1. SUFFICES ASSUME ~ip', pc' # "timer"
                 PROVE  last' <= BSP_gettimeoffset' + Slew /\ (was' => last' <= tickadj + Slew)
    BY DEF NotAhead
  <2>2. ~ip /\ ~match /\ pc # "timer" /\ ttcr' = ttcr + 1 /\ ttcr \in 0..TP
    BY <1>2, <1>3, <2>1 DEF Numbers
  <2>3. /\ BSP_gettimeoffset \in 0..TickUsec /\ BSP_gettimeoffset' \in 0..TickUsec
        /\ BSP_gettimeoffset <= BSP_gettimeoffset'
    BY <1>3, <2>2, OffsetGrows
  <2>4. last <= BSP_gettimeoffset + Slew /\ (was => last <= tickadj + Slew)
    BY <1>2, <2>2, Zenon DEF NotAhead
  <2>5. last' <= BSP_gettimeoffset' + Slew
    <3>1. last \in Int /\ Slew \in Nat /\ last' = last
      BY <1>1, <1>2, TickAssumption DEF Numbers
    <3>2. last <= BSP_gettimeoffset + Slew
      BY <2>4
    <3>3. ASSUME NEW x \in 0..TickUsec, NEW y \in 0..TickUsec, x <= y, last <= x + Slew
          PROVE  last <= y + Slew
      BY <3>1, <3>3, TickAssumption
    <3>4. QED
      BY <2>3, <3>1, <3>2, <3>3, Zenon
  <2>6. was' => last' <= tickadj + Slew
    BY <1>1, <2>4, Zenon
  <2>7. QED
    BY <2>5, <2>6
<1>8. QED
  BY <1>3, <1>4, <1>5, <1>6, <1>7, Parts, PTL

LEMMA InitTick == Init => TickInv
<1> SUFFICES ASSUME Init PROVE TickInv
  OBVIOUS
<1>1. Flags
  BY Zenon DEF Init, Flags
<1>2. BSP_gettimeoffset \in 0..TickUsec
  BY OffsetGrows, PeriodType DEF Init
<1>3. Numbers /\ InTime /\ NoTickLost /\ TimeForward
  BY TickAssumption, PeriodType DEF Init, Numbers, InTime, NoTickLost, TimeForward
<1>4. NotAhead
  BY <1>2, TickAssumption DEF Init, NotAhead
<1>5. QED
  BY <1>1, <1>3, <1>4, Parts

(* A step that reads TTCR: the new answer u is at most the offset, and not *)
(* ahead of what follows.                                                  *)
LEMMA ReadStep ==
    ASSUME TickInv, Clock, Pending, pc \in {"get", "set"}, pc' = "run",
           slow' \in BOOLEAN, was' \in BOOLEAN, turned' \in BOOLEAN,
           late' = ip, prev' \in (-TickUsec)..TickUsec,
           last' \in 0..BSP_gettimeoffset,
           was' => last' <= tickadj,
           TimeForward'
    PROVE  TickInv'
<1>2. Flags /\ Numbers /\ InTime /\ NoTickLost
  BY Parts
<1>b. behind' = behind + (IF match THEN 1 ELSE 0)
                - (IF pc = "timer" /\ pc' # "timer" THEN 1 ELSE 0)
  BY <1>2 DEF Clock, NoTickLost
<1>c. ip => ttcr + 1 <= Latency + (IF pc' = "tick" THEN 2 ELSE IF pc' = "run" THEN 1 ELSE 0)
  BY <1>2, TickAssumption DEF InTime, Numbers
<1>3. /\ ip' \in BOOLEAN /\ (ip' <=> ip \/ match)
      /\ ttcr' \in 0..TP /\ (match => ttcr' = 0 /\ ~ip) /\ (~match => ttcr' = ttcr + 1)
      /\ InTime' /\ NoTickLost'
  BY <1>b, <1>c, ClockStep DEF Clock
<1>4. Flags'
  BY <1>2, <1>3, Zenon DEF Flags
<1>5. BSP_gettimeoffset \in 0..TickUsec
  BY <1>2, OffsetGrows DEF Numbers
<1>6. Numbers'
  <2>1. last' \in (-TickUsec)..TickUsec
    <3>1. ASSUME NEW x \in 0..TickUsec, last' \in 0..x
          PROVE  last' \in (-TickUsec)..TickUsec
      BY <3>1, TickAssumption
    <3>2. QED
      BY <1>5, <3>1, Zenon
  <2>2. QED
    BY <1>3, <2>1, Zenon DEF Numbers
<1>7. NotAhead'
  <2>1. SUFFICES ASSUME ~ip'
                 PROVE  last' <= BSP_gettimeoffset' + Slew /\ (was' => last' <= tickadj + Slew)
    BY DEF NotAhead
  <2>2. ttcr' = ttcr + 1 /\ ttcr \in 0..TP
    BY <1>2, <1>3, <2>1 DEF Numbers
  <2>3. BSP_gettimeoffset' \in 0..TickUsec /\ BSP_gettimeoffset <= BSP_gettimeoffset'
    BY <1>3, <2>2, OffsetGrows
  <2>4. ASSUME NEW x \in 0..TickUsec, NEW y \in 0..TickUsec, x <= y, last' \in 0..x
        PROVE  last' <= y + Slew
    BY <2>4, TickAssumption
  <2>5. last' <= BSP_gettimeoffset' + Slew
    BY <1>5, <2>3, <2>4, Zenon
  <2>6. last' <= tickadj => last' <= tickadj + Slew
    <3>1. last' \in Int
      BY <1>6 DEF Numbers
    <3>2. QED
      BY <3>1, TickAssumption
  <2>7. QED
    BY <2>5, <2>6, Zenon
<1>8. QED
  BY <1>3, <1>4, <1>6, <1>7, Parts, PTL

LEMMA NextTick == TickInv /\ [Next]_vars => TickInv'
<1> SUFFICES ASSUME TickInv, [Next]_vars
             PROVE  TickInv'
  OBVIOUS
<1>a. Flags /\ Numbers /\ InTime /\ NoTickLost /\ NotAhead /\ TimeForward
  BY Parts
<1>b. slow \in BOOLEAN
  BY <1>a DEF Flags
<1>1. CASE Work
  BY <1>1, <1>a, <1>b, QuietStep, TickAssumption DEF Work, Hurry, Numbers, InTime
<1>2. CASE Disable
  BY <1>2, <1>a, <1>b, QuietStep, TickAssumption DEF Disable, Hurry, Numbers, InTime
<1>3. CASE Enable
  BY <1>3, <1>a, <1>b, QuietStep, TickAssumption DEF Enable, Numbers, InTime
<1>4. CASE TakeTick
  BY <1>4, <1>a, <1>b, QuietStep, TickAssumption DEF TakeTick, Numbers, InTime
<1>5. CASE do_gettimeofday \/ do_settimeofday \/ do_adjtimex
  BY <1>5, <1>a, <1>b, QuietStep, TickAssumption
     DEF do_gettimeofday, do_settimeofday, do_adjtimex, Hurry, Numbers, InTime
<1>6. CASE BSP_tick
  <2>1. Count /\ behind' = behind + (IF match THEN 1 ELSE 0) /\ pc = "tick"
        /\ pc' = "timer" /\ prev' = prev /\ last' = last /\ late' = late
        /\ was' = was /\ turned' = turned /\ slow' = slow
    BY <1>6 DEF BSP_tick, Clock, answers
  <2>2. ip /\ ~ip' /\ Flags' /\ ~match
    BY <1>6, <1>a, <2>1, MatchFindsNone, Zenon DEF BSP_tick, Flags, InTime
  <2>3. Numbers'
    BY <1>a, <2>1, CountType DEF TickInv, Numbers
  <2>4. TimeForward' /\ NotAhead'
    BY <1>a, <2>1, Zenon DEF NotAhead, TimeForward
  <2>5. InTime' /\ NoTickLost'
    BY <1>a, <2>1, <2>2 DEF InTime, NoTickLost
  <2>6. QED
    BY <2>2, <2>3, <2>4, <2>5, Parts, PTL
<1>7. CASE do_timer
  <2>1. Count /\ Pending /\ behind' = behind + (IF match THEN 1 ELSE 0) - 1
        /\ pc = "timer" /\ pc' = "run" /\ late' = late /\ was' = was /\ turned' = turned
    BY <1>7 DEF do_timer
  <2>2. PICK d \in TickUsec - Slew .. TickUsec + Slew :
            prev' = Before(prev, d) /\ last' = Before(last, d)
    BY <1>7 DEF do_timer
  <2>3. slow' \in BOOLEAN
    BY <1>7, <1>b, Zenon DEF do_timer, second_overflow
  <2>4. behind' = behind + (IF match THEN 1 ELSE 0)
                  - (IF pc = "timer" /\ pc' # "timer" THEN 1 ELSE 0)
    BY <2>1
  <2>5. ip => ttcr + 1 <= Latency + (IF pc' = "tick" THEN 2 ELSE IF pc' = "run" THEN 1 ELSE 0)
    BY <1>a, <2>1, TickAssumption DEF InTime, Numbers
  <2>6. /\ ip' \in BOOLEAN /\ (ip' <=> ip \/ match)
        /\ ttcr' \in 0..TP /\ (match => ttcr' = 0 /\ ~ip) /\ (~match => ttcr' = ttcr + 1)
        /\ InTime' /\ NoTickLost'
    BY <2>1, <2>4, <2>5, ClockStep
  <2>7. Flags'
    BY <1>a, <2>1, <2>3, <2>6, Zenon DEF Flags
  <2>8. /\ prev' \in (-TickUsec)..TickUsec /\ last' \in (-TickUsec)..TickUsec
        /\ last' <= Slew
        /\ prev <= last + Slew => prev' <= last' + Slew
    BY <1>a, <2>2, BeforeOrder DEF Numbers
  <2>9. Numbers'
    BY <2>1, <2>6, <2>8, Zenon DEF Numbers
  <2>10. TimeForward'
    BY <1>a, <2>1, <2>8, Zenon DEF TimeForward
  <2>11. NotAhead'
    <3>1. BSP_gettimeoffset' \in 0..TickUsec
      BY <1>a, <2>6, OffsetGrows DEF Numbers
    <3>2. ASSUME NEW y \in Nat
          PROVE  last' <= y + Slew
      BY <2>8, <3>2, TickAssumption
    <3>3. BSP_gettimeoffset' \in Nat /\ tickadj \in Nat
      BY <3>1, TickAssumption
    <3>4. QED
      BY <3>2, <3>3, Zenon DEF NotAhead
  <2>12. QED
    BY <2>6, <2>7, <2>9, <2>10, <2>11, Parts, PTL
<1>8. CASE Answer
  <2>1. Clock /\ Pending /\ pc = "get" /\ pc' = "run" /\ slow' = slow
        /\ prev' = last /\ last' = Cut(BSP_gettimeoffset) /\ late' = ip /\ was' = slow
    BY <1>8 DEF Answer
  <2>2. turned' \in BOOLEAN /\ (turned' <=> last' # BSP_gettimeoffset /\ ~was)
    BY <1>8, <2>1, <1>a, Zenon DEF Answer, Flags
  <2>3. BSP_gettimeoffset \in 0..TickUsec
    BY <1>a, OffsetGrows DEF Numbers
  <2>4. /\ last' \in 0..BSP_gettimeoffset
        /\ last' = BSP_gettimeoffset \/ last' = tickadj
        /\ slow => last' <= tickadj
    BY <2>1, <2>3, TickAssumption DEF Cut
  <2>5. TimeForward'
    <3>1. CASE ip
      BY <2>1, <3>1, Zenon DEF TimeForward
    <3>2. CASE turned'
      BY <3>2 DEF TimeForward
    <3>3. CASE ~ip /\ ~turned'
      <4>1. last <= BSP_gettimeoffset + Slew /\ (was => last <= tickadj + Slew)
        BY <1>a, <2>1, <3>3 DEF NotAhead
      <4>2. last <= last' + Slew
        BY <2>2, <2>4, <3>3, <4>1, Zenon
      <4>3. QED
        BY <2>1, <4>2, Zenon DEF TimeForward
    <3>4. QED
      BY <3>1, <3>2, <3>3
  <2>6. QED
    BY <1>a, <1>b, <2>1, <2>2, <2>4, <2>5, ReadStep, Zenon DEF Numbers
<1>9. CASE SetXtime
  <2>1. Clock /\ Pending /\ pc = "set" /\ pc' = "run" /\ slow' = FALSE
        /\ prev' = BSP_gettimeoffset /\ last' = BSP_gettimeoffset
        /\ late' = ip /\ was' = FALSE /\ turned' = FALSE
    BY <1>9 DEF SetXtime
  <2>2. BSP_gettimeoffset \in 0..TickUsec
    BY <1>a, OffsetGrows DEF Numbers
  <2>3. ASSUME NEW x \in 0..TickUsec
        PROVE  x \in 0..x /\ x \in (-TickUsec)..TickUsec /\ x <= x + Slew
    BY <2>3, TickAssumption
  <2>4. TimeForward' /\ prev' \in (-TickUsec)..TickUsec /\ last' \in 0..BSP_gettimeoffset
    BY <2>1, <2>2, <2>3, Zenon DEF TimeForward
  <2>5. QED
    BY <2>1, <2>4, ReadStep, Zenon
<1>10. CASE UNCHANGED vars
  BY <1>10, Zenon DEF vars, answers, TickInv, TypeOK, InTime, NoTickLost, NotAhead, TimeForward,
     BSP_gettimeoffset
<1>11. QED
  BY <1>1, <1>2, <1>3, <1>4, <1>5, <1>6, <1>7, <1>8, <1>9, <1>10 DEF Next

(* The inductive invariant.                                                *)
LEMMA TickInvariant == Spec => []TickInv
BY InitTick, NextTick, PTL DEF Spec

(* The timer's registers and the history of the answers keep their types.  *)
THEOREM TypeCorrect == Spec => []TypeOK
<1>1. TickInv => TypeOK
  BY DEF TickInv
<1>2. QED
  BY <1>1, TickInvariant, PTL

(* Every restart of the counter (or1200_tt) is counted by timer_interrupt  *)
(* once, however it falls between the steps of the handler.                *)
THEOREM TicksCounted == Spec => []NoTickLost
<1>1. TickInv => NoTickLost
  BY DEF TickInv
<1>2. QED
  BY <1>1, TickInvariant, PTL

(* do_gettimeofday goes back by more than NTP takes off a tick only when   *)
(* it reads TTCR with a tick pending, or with the first answer it cuts     *)
(* after time_adjust has become negative.                                  *)
THEOREM TimeGoesForward == Spec => []TimeForward
<1>1. TickInv => TimeForward
  BY DEF TickInv
<1>2. QED
  BY <1>1, TickInvariant, PTL
=============================================================================
