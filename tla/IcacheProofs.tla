---------------------------- MODULE IcacheProofs ----------------------------
(***************************************************************************)
(* Proofs about Icache, for any pages, lines and words of a line, any      *)
(* cache-inhibited and any faulty pages.  What a transfer promises the     *)
(* interconnect holds of every behaviour; what the fetch unit and the      *)
(* cache promise holds under the discipline of the boot code (BootSpec).   *)
(***************************************************************************)
EXTENDS Icache, TLAPS

FsmType == [st : {"idle", "cfetch", "lrefill3"}, eval : BOOLEAN, load : BOOLEAN,
            cnt : Words, ci : BOOLEAN, sa : Addr]
BiuType == [stb : BOOLEAN, adr : Addr, aborted_r : BOOLEAN]

-----------------------------------------------------------------------------
(* The address lines.                                                      *)

(* The fields of an address, and what makes two of them equal.             *)
LEMMA AddrFields ==
    ASSUME NEW x \in Addr, NEW y \in Addr
    PROVE  /\ x.page \in Pages /\ x.line \in Lines /\ x.w \in Words
           /\ x.page = y.page /\ x.line = y.line /\ x.w = y.w => x = y
           /\ x = [page |-> x.page, line |-> x.line, w |-> x.w]
  BY DEF Addr

(* The page of the presented address arrives a cycle late (start_addr);    *)
(* the cache is selected (cycstb) only when it has not changed.            *)
LEMMA StartFields ==
    ASSUME adr \in Addr, NEW a \in Addr, NEW on \in BOOLEAN
    PROVE  /\ start_addr(a) \in Addr
           /\ start_addr(a).page = adr.page
           /\ start_addr(a).line = a.line
           /\ start_addr(a).w = a.w
           /\ cycstb(a, on) \in BOOLEAN
           /\ cycstb(a, on) => a.page = adr.page
           /\ cycstb(a, on) => start_addr(a) = a
<1>1. /\ start_addr(a) \in Addr
      /\ start_addr(a).page = adr.page
      /\ start_addr(a).line = a.line
      /\ start_addr(a).w = a.w
  BY DEF start_addr, Addr
<1>2. cycstb(a, on) \in BOOLEAN /\ (cycstb(a, on) => a.page = adr.page)
  BY DEF cycstb
<1>3. cycstb(a, on) => start_addr(a) = a
  BY <1>1, <1>2, AddrFields
<1>4. QED
  BY <1>1, <1>2, <1>3

(* The address of the next word of a line, the first after the last.       *)
LEMMA WrapFields ==
    ASSUME NEW x \in Addr
    PROVE  /\ Wrap(x) \in Addr
           /\ Wrap(x).page = x.page
           /\ Wrap(x).line = x.line
           /\ Wrap(x).w = IF x.w + 1 = LineWords THEN 0 ELSE x.w + 1
<1>1. LineWords \in Nat /\ LineWords >= 2 /\ x.w \in Nat /\ x.w < LineWords
  BY IcacheAssumption, AddrFields DEF Words
<1>2. (x.w + 1) % LineWords = IF x.w + 1 = LineWords THEN 0 ELSE x.w + 1
  <2>1. CASE x.w + 1 = LineWords
    BY <1>1, <2>1
  <2>2. CASE x.w + 1 # LineWords
    BY <1>1, <2>2
  <2>3. QED
    BY <2>1, <2>2
<1>3. (x.w + 1) % LineWords \in Words
  BY <1>1, <1>2 DEF Words
<1>4. QED
  BY <1>2, <1>3 DEF Wrap, Addr

-----------------------------------------------------------------------------
(* The registers of or1200_ic_fsm after each kind of step.                 *)

LEMMA QuietFields ==
    ASSUME NEW f \in FsmType
    PROVE  /\ Quiet(f) \in FsmType
           /\ Quiet(f).st = "idle"
           /\ Quiet(f).eval = FALSE
           /\ Quiet(f).load = FALSE
  BY DEF Quiet, FsmType

(* From idle the cache starts to look an address up, or stays idle.        *)
LEMMA IdleFields ==
    ASSUME fsm \in FsmType, NEW cs \in BOOLEAN, NEW start \in Addr
    PROVE  LET f == IcIdle(cs, start)
           IN /\ f \in FsmType
              /\ \/ /\ ic_en /\ cs
                    /\ f.st = "cfetch" /\ f.sa = start
                    /\ f.eval = TRUE /\ f.load = TRUE /\ f.ci = ic_ci
                 \/ f.st = "idle" /\ f.eval = FALSE /\ f.load = FALSE
<1>1. CASE ic_en /\ cs
  <2>1. ic_ci \in BOOLEAN
    BY DEF ic_ci
  <2>2. QED
    BY <1>1, <2>1 DEF IcIdle, FsmType
<1>2. CASE ~(ic_en /\ cs)
  BY <1>2, QuietFields DEF IcIdle
<1>3. QED
  BY <1>1, <1>2

(* From cfetch: the lookup ends; the first word of a refill arrives; a     *)
(* hit goes on to the next address; a miss waits for the bus.              *)
LookupEnds(f) ==
    /\ f.st = "idle" /\ f.eval = FALSE /\ f.load = FALSE
    /\ ic_en /\ biu_ack => fsm.eval \/ fsm.ci \/ ~tagcomp_miss

RefillStarts(f) ==
    /\ ~fsm.ci /\ tagcomp_miss /\ biu_ack
    /\ f.st = "lrefill3" /\ f.eval = FALSE /\ f.load = fsm.load
    /\ f.ci = FALSE /\ f.cnt = LineWords - 2 /\ f.sa = Wrap(fsm.sa)

HitGoesOn(f, cs, start) ==
    /\ cs /\ ~tagcomp_miss /\ ~ic_ci
    /\ f.st = fsm.st /\ f.eval = fsm.eval /\ f.load = fsm.load
    /\ f.ci = FALSE /\ f.sa = start

MissWaits(f, cs) ==
    /\ cs /\ (tagcomp_miss \/ ic_ci)
    /\ ~(tagcomp_miss /\ biu_ack) /\ ~(fsm.ci /\ biu_ack) /\ ~biu_err
    /\ f.st = fsm.st /\ f.eval = FALSE /\ f.load = fsm.load
    /\ f.ci = (fsm.ci \/ ic_ci) /\ f.sa = fsm.sa

LEMMA FetchFields ==
    ASSUME fsm \in FsmType, NEW cs \in BOOLEAN, NEW start \in Addr,
           start.page = fsm.sa.page, NEW f, f = IcFetch(cs, start)
    PROVE  /\ f \in FsmType
           /\ LookupEnds(f) \/ RefillStarts(f) \/ HitGoesOn(f, cs, start) \/ MissWaits(f, cs)
<1> DEFINE g == [fsm EXCEPT !.ci = @ \/ (cs /\ ic_ci),
                            !.sa.page = IF fsm.eval THEN start.page ELSE @]
<1>1. /\ g \in FsmType
      /\ g.sa = fsm.sa
      /\ g.st = fsm.st /\ g.eval = fsm.eval /\ g.load = fsm.load
      /\ g.ci = (fsm.ci \/ (cs /\ ic_ci))
  <2>1. (fsm.ci \/ (cs /\ ic_ci)) \in BOOLEAN
    BY DEF FsmType
  <2>2. [fsm.sa EXCEPT !.page = IF fsm.eval THEN start.page ELSE @] = fsm.sa
    BY DEF FsmType, Addr
  <2>3. QED
    BY <2>1, <2>2 DEF FsmType
<1>2. LineWords - 2 \in Words
  BY IcacheAssumption DEF Words
<1>3. f =
        IF ~ic_en \/ (fsm.eval /\ ~cs) \/ biu_err \/ (fsm.ci /\ biu_ack) THEN Quiet(g)
        ELSE IF tagcomp_miss /\ biu_ack
        THEN [g EXCEPT !.st = "lrefill3", !.sa = Wrap(@), !.eval = FALSE,
                       !.cnt = LineWords - 2, !.ci = FALSE]
        ELSE IF ~cs THEN Quiet(g)
        ELSE IF ~tagcomp_miss /\ ~ic_ci
        THEN [g EXCEPT !.sa = start, !.ci = FALSE]
        ELSE [g EXCEPT !.eval = FALSE]
  BY DEF IcFetch
<1> HIDE DEF g
<1>4. CASE ~ic_en \/ (fsm.eval /\ ~cs) \/ biu_err \/ (fsm.ci /\ biu_ack)
  BY <1>1, <1>3, <1>4, QuietFields DEF LookupEnds, biu_ack, biu_err
<1>5. CASE ~cs /\ ~(tagcomp_miss /\ biu_ack)
  BY <1>1, <1>3, <1>5, QuietFields DEF LookupEnds
<1>6. CASE /\ ~(~ic_en \/ (fsm.eval /\ ~cs) \/ biu_err \/ (fsm.ci /\ biu_ack))
           /\ tagcomp_miss /\ biu_ack
  <2>1. f = [g EXCEPT !.st = "lrefill3", !.sa = Wrap(@), !.eval = FALSE,
                      !.cnt = LineWords - 2, !.ci = FALSE]
    BY <1>3, <1>6
  <2>2. Wrap(g.sa) \in Addr /\ Wrap(g.sa) = Wrap(fsm.sa)
    BY <1>1, WrapFields DEF FsmType
  <2>3. QED
    BY <1>1, <1>2, <1>6, <2>1, <2>2, ZenonT(60) DEF FsmType, RefillStarts
<1>7. CASE /\ ~(~ic_en \/ (fsm.eval /\ ~cs) \/ biu_err \/ (fsm.ci /\ biu_ack))
           /\ ~(tagcomp_miss /\ biu_ack) /\ cs
  <2>1. CASE ~tagcomp_miss /\ ~ic_ci
    BY <1>1, <1>3, <1>7, <2>1 DEF FsmType, HitGoesOn
  <2>2. CASE tagcomp_miss \/ ic_ci
    BY <1>1, <1>3, <1>7, <2>2 DEF FsmType, MissWaits
  <2>3. QED
    BY <2>1, <2>2
<1>8. QED
  BY <1>4, <1>5, <1>6, <1>7

(* While a line is refilled every word that arrives moves on to the next   *)
(* one, and the last one ends the refill.                                  *)
LEMMA RefillFields ==
    ASSUME fsm \in FsmType, NEW start \in Addr
    PROVE  LET f == IcRefill(start)
           IN /\ f \in FsmType
              /\ \/ ~ic_en /\ f.st = "idle" /\ f.eval = FALSE /\ f.load = FALSE
                 \/ /\ biu_ack /\ fsm.cnt = 0
                    /\ f.st = "idle" /\ f.eval = FALSE /\ f.load = FALSE
                 \/ /\ biu_ack /\ fsm.cnt # 0
                    /\ f.st = fsm.st /\ f.eval = fsm.eval /\ f.load = fsm.load
                    /\ f.ci = fsm.ci /\ f.cnt = fsm.cnt - 1 /\ f.sa = Wrap(fsm.sa)
                 \/ ~biu_ack /\ f = fsm
<1> DEFINE done == [fsm EXCEPT !.st = "idle", !.sa = start, !.eval = FALSE, !.load = FALSE]
<1>1. done \in FsmType /\ done.st = "idle" /\ done.eval = FALSE /\ done.load = FALSE
  BY DEF FsmType
<1>2. IcRefill(start) =
        IF ~ic_en THEN done
        ELSE IF biu_ack /\ fsm.cnt # 0 THEN [fsm EXCEPT !.cnt = @ - 1, !.sa = Wrap(@)]
        ELSE IF biu_ack THEN done
        ELSE fsm
  BY DEF IcRefill
<1> HIDE DEF done
<1>3. CASE ~ic_en \/ ~biu_ack \/ fsm.cnt = 0
  BY <1>1, <1>2, <1>3
<1>4. CASE ic_en /\ biu_ack /\ fsm.cnt # 0
  <2>1. Wrap(fsm.sa) \in Addr
    BY WrapFields DEF FsmType
  <2>2. fsm.cnt - 1 \in Words
    BY <1>4, IcacheAssumption DEF FsmType, Words
  <2>3. IcRefill(start) = [fsm EXCEPT !.cnt = @ - 1, !.sa = Wrap(@)]
    BY <1>2, <1>4
  <2>4. QED
    BY <1>4, <2>1, <2>2, <2>3 DEF FsmType
<1>5. QED
  BY <1>3, <1>4

-----------------------------------------------------------------------------
(* The bus interface and the slave.                                        *)

(* The registers of or1200_wb_biu: a transfer that is open and not         *)
(* answered stays as it is, given up or not; an acknowledge ends it.       *)
LEMMA BiuFields ==
    ASSUME biu \in BiuType, NEW cyc \in BOOLEAN, NEW x \in Addr, WbBiu(cyc, x)
    PROVE  /\ biu' \in BiuType
           /\ biu.stb /\ rsp = "none" =>
                /\ biu'.stb = TRUE /\ biu'.adr = biu.adr
                /\ biu'.aborted_r = (biu.aborted_r \/ ~cyc)
           /\ rsp = "ack" => biu'.stb = FALSE /\ biu'.aborted_r = FALSE
           /\ biu.stb /\ rsp = "err" =>
                biu'.stb = cyc /\ biu'.adr = biu.adr /\ biu'.aborted_r = FALSE
           /\ ~biu.stb /\ rsp = "none" =>
                /\ biu'.stb = cyc /\ biu'.aborted_r = biu.aborted_r
                /\ cyc => biu'.adr = x
<1> DEFINE s == (cyc /\ rsp # "ack") \/ aborted(cyc)
           d == IF LoadsAddress(cyc) THEN x ELSE biu.adr
           r == rsp = "none" /\ (biu.aborted_r \/ aborted(cyc))
<1>1. biu' = [stb |-> s, adr |-> d, aborted_r |-> r]
  BY DEF WbBiu
<1>2. s \in BOOLEAN /\ r \in BOOLEAN
  BY Zenon
<1>3. d \in Addr
  BY DEF BiuType
<1>4. /\ biu.stb /\ rsp = "none" => s = TRUE /\ d = biu.adr /\ r = (biu.aborted_r \/ ~cyc)
      /\ rsp = "ack" => s = FALSE /\ r = FALSE
      /\ biu.stb /\ rsp = "err" => s = cyc /\ d = biu.adr /\ r = FALSE
      /\ ~biu.stb /\ rsp = "none" => /\ s = cyc /\ r = biu.aborted_r
                                     /\ cyc => d = x
  BY <1>2 DEF aborted, LoadsAddress, BiuType
<1> HIDE DEF s, d, r
<1>5. QED
  BY <1>1, <1>2, <1>3, <1>4 DEF BiuType

(* The slave answers an open strobe only, with errors on the faulty pages  *)
(* and an acknowledge on the others.                                       *)
LEMMA SlaveFields ==
    ASSUME Slave
    PROVE  /\ rsp' \in {"none", "ack", "err"}
           /\ rsp' # "none" => biu'.stb
           /\ rsp' = "ack" => biu'.adr.page \notin Faulty
           /\ rsp' = "err" => biu'.adr.page \in Faulty
  BY DEF Slave, Answers

(* What the interconnect relies on holds in every cycle of every           *)
(* behaviour: nothing the core does withdraws or moves an open transfer.   *)
THEOREM TransfersHeld == Spec => TransferHeld
<1>1. ASSUME [Next]_vars, biu.stb, rsp = "none"
      PROVE  biu'.stb /\ biu'.adr = biu.adr
  <2>1. CASE UNCHANGED vars
    BY <1>1, <2>1 DEF vars
  <2>2. CASE Next
    <3>1. PICK a \in Addr, on \in BOOLEAN, go \in BOOLEAN, mv \in BOOLEAN, op \in Ops :
              StepIdle(a, on, go, mv, op) \/ StepFetch(a, on, go, mv, op)
              \/ StepRefill(a, on, go, mv, op)
      BY <2>2 DEF Next
    <3>2. PICK cyc, x : WbBiu(cyc, x)
      BY <3>1 DEF StepIdle, StepFetch, StepRefill, Clock
    <3>3. CASE cyc
      BY <1>1, <3>2, <3>3 DEF WbBiu, LoadsAddress, aborted
    <3>4. CASE ~cyc
      BY <1>1, <3>2, <3>4 DEF WbBiu, LoadsAddress, aborted
    <3>5. QED
      BY <3>3, <3>4
  <2>3. QED
    BY <1>1, <2>1, <2>2
<1>2. QED
  BY <1>1, PTL DEF Spec, TransferHeld

-----------------------------------------------------------------------------
(* Type correctness of every behaviour.  IcFetch rewrites the page of the  *)
(* address it looks up; while the cache looks up, the fetch unit cannot    *)
(* have changed pages, so the page it writes is the one that was there.    *)
PageInv == fsm.st = "cfetch" => fsm.sa.page = adr.page
TypeInv == TypeOK /\ PageInv

LEMMA TypeFields ==
    ASSUME TypeOK
    PROVE  fsm \in FsmType /\ biu \in BiuType
  BY DEF TypeOK, FsmType, BiuType

(* An instruction that invalidates names a line of the cache.              *)
LEMMA InvalidatedLine ==
    ASSUME ex \in Ops, ic_inv
    PROVE  ex[2] \in Lines
<1>1. ex \in ({"none"} \X {0}) \cup ({"ice"} \X {0, 1}) \cup ({"icbir"} \X Lines)
  BY IcacheAssumption
<1>2. QED
  BY <1>1 DEF ic_inv

(* The RAMs keep their types, and show the word they were asked for.       *)
LEMMA RamsType ==
    ASSUME TypeOK, NEW start \in Addr, Rams(start)
    PROVE  /\ ram' \in [Lines -> [Words -> Addr \cup {NoWord}]]
           /\ ramrd' \in [line : Lines, w : Words]
           /\ tags' \in [Lines -> [page : Pages, v : BOOLEAN]]
           /\ tagrd' \in Lines
<1> DEFINE x == ic_addr(start)
           t == IF ic_inv THEN ex[2] ELSE x.line
<1>1. x \in Addr
  BY TypeFields DEF ic_addr, FsmType
<1>2. x.page \in Pages /\ x.line \in Lines /\ x.w \in Words
  BY <1>1, AddrFields
<1>3. t \in Lines
  BY <1>2, InvalidatedLine DEF TypeOK
<1>4. biu.adr \in Addr
  BY DEF TypeOK
<1>5. (~ic_inv) \in BOOLEAN
  BY DEF ic_inv
<1>6. /\ ram' = IF ic_en /\ ic_we THEN [ram EXCEPT ![x.line][x.w] = biu.adr] ELSE ram
      /\ ramrd' = IF ic_en THEN [line |-> x.line, w |-> x.w] ELSE ramrd
      /\ tags' = IF ic_inv \/ (ic_en /\ ic_we)
                 THEN [tags EXCEPT ![t] = [page |-> x.page, v |-> ~ic_inv]]
                 ELSE tags
      /\ tagrd' = IF ic_inv \/ ic_en THEN t ELSE tagrd
  BY DEF Rams
<1> HIDE DEF x, t
<1>7. ram' \in [Lines -> [Words -> Addr \cup {NoWord}]]
  BY <1>2, <1>4, <1>6 DEF TypeOK
<1>8. tags' \in [Lines -> [page : Pages, v : BOOLEAN]]
  <2>1. [page |-> x.page, v |-> ~ic_inv] \in [page : Pages, v : BOOLEAN]
    BY <1>2, <1>5
  <2>2. QED
    BY <1>3, <1>6, <2>1 DEF TypeOK
<1>9. ramrd' \in [line : Lines, w : Words] /\ tagrd' \in Lines
  BY <1>2, <1>3, <1>6 DEF TypeOK
<1>10. QED
  BY <1>7, <1>8, <1>9

LEMMA FetchUnitType ==
    ASSUME TypeOK, NEW a \in Addr, NEW go \in BOOLEAN, NEW mv \in BOOLEAN, NEW op \in Ops,
           FetchUnit(a, go, mv, op)
    PROVE  /\ ic_en' \in BOOLEAN /\ kill' \in BOOLEAN /\ saved' \in BOOLEAN
           /\ ex' \in Ops /\ adr' \in Addr
<1>1. (ic_rty /\ (go \/ kill)) \in BOOLEAN
      /\ (~go /\ ~mv /\ (saved \/ (~ic_rty /\ ~kill))) \in BOOLEAN
  BY Zenon
<1>2. kill' \in BOOLEAN /\ saved' \in BOOLEAN
  BY <1>1 DEF FetchUnit
<1>3. ic_en' \in BOOLEAN
  BY DEF FetchUnit, TypeOK
<1>4. QED
  BY <1>2, <1>3 DEF FetchUnit

(* The state machine of the cache and of the bus interface.                *)
LEMMA ClockType ==
    ASSUME TypeOK, NEW a \in Addr, NEW on \in BOOLEAN, NEW go \in BOOLEAN,
           NEW mv \in BOOLEAN, NEW op \in Ops, NEW f \in FsmType,
           Clock(a, on, go, mv, op, f)
    PROVE  TypeOK'
<1>1. cycstb(a, on) \in BOOLEAN /\ start_addr(a) \in Addr
  BY StartFields DEF TypeOK
<1>2. /\ FetchUnit(a, go, mv, op) /\ fsm' = f /\ Rams(start_addr(a)) /\ Slave
      /\ WbBiu(IF ic_en THEN biu_read ELSE cycstb(a, on), ic_addr(start_addr(a)))
  BY DEF Clock
<1>3. /\ ic_en' \in BOOLEAN /\ kill' \in BOOLEAN /\ saved' \in BOOLEAN
      /\ ex' \in Ops /\ adr' \in Addr
  BY <1>2, FetchUnitType
<1>4. /\ ram' \in [Lines -> [Words -> Addr \cup {NoWord}]]
      /\ ramrd' \in [line : Lines, w : Words]
      /\ tags' \in [Lines -> [page : Pages, v : BOOLEAN]]
      /\ tagrd' \in Lines
  BY <1>1, <1>2, RamsType
<1>5. biu' \in BiuType
  <2>1. (IF ic_en THEN biu_read ELSE cycstb(a, on)) \in BOOLEAN
    BY <1>1 DEF biu_read, TypeOK
  <2>2. ic_addr(start_addr(a)) \in Addr
    BY <1>1, TypeFields DEF ic_addr, FsmType
  <2>3. QED
    BY <1>2, <2>1, <2>2, TypeFields, BiuFields
<1>6. rsp' \in {"none", "ack", "err"}
  BY <1>2, SlaveFields
<1>7. QED
  BY <1>2, <1>3, <1>4, <1>5, <1>6 DEF TypeOK, FsmType, BiuType

LEMMA StepType ==
    ASSUME TypeInv, Next
    PROVE  TypeInv'
<1>1. PICK a \in Addr, on \in BOOLEAN, go \in BOOLEAN, mv \in BOOLEAN, op \in Ops :
          StepIdle(a, on, go, mv, op) \/ StepFetch(a, on, go, mv, op)
          \/ StepRefill(a, on, go, mv, op)
  BY DEF Next
<1>2. /\ TypeOK /\ PageInv /\ adr \in Addr
      /\ fsm \in FsmType
      /\ cycstb(a, on) \in BOOLEAN /\ start_addr(a) \in Addr
      /\ start_addr(a).page = adr.page
      /\ cycstb(a, on) => a.page = adr.page
  BY TypeFields, StartFields DEF TypeInv, TypeOK
<1>3. CASE StepIdle(a, on, go, mv, op)
  <2>1. Clock(a, on, go, mv, op, IcIdle(cycstb(a, on), start_addr(a)))
    BY <1>3 DEF StepIdle
  <2>2. fsm' = IcIdle(cycstb(a, on), start_addr(a)) /\ adr' = a
    BY <2>1 DEF Clock, FetchUnit
  <2>3. IcIdle(cycstb(a, on), start_addr(a)) \in FsmType
    BY <1>2, IdleFields
  <2>4. TypeOK'
    BY <1>2, <2>1, <2>3, ClockType
  <2>5. PageInv'
    BY <1>2, <2>2, IdleFields DEF PageInv
  <2>6. QED
    BY <2>4, <2>5 DEF TypeInv
<1>4. CASE StepFetch(a, on, go, mv, op)
  <2>1. fsm.st = "cfetch" /\ Clock(a, on, go, mv, op, IcFetch(cycstb(a, on), start_addr(a)))
    BY <1>4 DEF StepFetch
  <2>2. fsm' = IcFetch(cycstb(a, on), start_addr(a)) /\ adr' = a
    BY <2>1 DEF Clock, FetchUnit
  <2>3. start_addr(a).page = fsm.sa.page
    BY <1>2, <2>1 DEF PageInv
  <2>4. IcFetch(cycstb(a, on), start_addr(a)) \in FsmType
    BY <1>2, <2>3, FetchFields
  <2>5. TypeOK'
    BY <1>2, <2>1, <2>4, ClockType
  <2>6. PageInv'
    <3>1. \/ LookupEnds(fsm') \/ RefillStarts(fsm')
          \/ HitGoesOn(fsm', cycstb(a, on), start_addr(a)) \/ MissWaits(fsm', cycstb(a, on))
      BY <1>2, <2>2, <2>3, FetchFields
    <3>2. QED
      BY <1>2, <2>2, <2>3, <3>1 DEF PageInv, LookupEnds, RefillStarts, HitGoesOn, MissWaits
  <2>7. QED
    BY <2>5, <2>6 DEF TypeInv
<1>5. CASE StepRefill(a, on, go, mv, op)
  <2>1. fsm.st = "lrefill3" /\ Clock(a, on, go, mv, op, IcRefill(start_addr(a)))
    BY <1>5 DEF StepRefill
  <2>2. fsm' = IcRefill(start_addr(a))
    BY <2>1 DEF Clock
  <2>3. IcRefill(start_addr(a)) \in FsmType
    BY <1>2, RefillFields
  <2>4. TypeOK'
    BY <1>2, <2>1, <2>3, ClockType
  <2>5. PageInv'
    BY <1>2, <2>1, <2>2, RefillFields DEF PageInv
  <2>6. QED
    BY <2>4, <2>5 DEF TypeInv
<1>6. QED
  BY <1>1, <1>3, <1>4, <1>5

LEMMA InitType == Init => TypeInv
<1> SUFFICES ASSUME Init PROVE TypeInv
  OBVIOUS
<1>1. adr \in Addr /\ adr.page \in Pages /\ adr.line \in Lines /\ adr.w \in Words
  BY AddrFields DEF Init
<1>2. ex \in Ops /\ 0 \in Words
  BY IcacheAssumption DEF Init, Words
<1>3. QED
  BY <1>1, <1>2 DEF Init, TypeInv, TypeOK, PageInv

(* Whatever runs on the core, every register keeps its type: a refill      *)
(* never counts below zero, and no invalidation leaves the cache.          *)
THEOREM IcacheTypeCorrect == Spec => []TypeOK
<1>1. TypeInv /\ [Next]_vars => TypeInv'
  <2>1. ASSUME TypeInv, UNCHANGED vars
        PROVE  TypeInv'
    BY <2>1 DEF TypeInv, TypeOK, PageInv, vars
  <2>2. QED
    BY <2>1, StepType
<1>2. TypeInv => TypeOK
  BY DEF TypeInv
<1>3. QED
  BY <1>1, <1>2, InitType, PTL DEF Spec

-----------------------------------------------------------------------------
(* The invariant of the boot discipline.                                   *)

(* Lines are invalidated while the cache is off, and once it is on nothing *)
(* switches it off.                                                        *)
BootOp == (ic_inv => ~ic_en) /\ ex # <<"ice", 0>>

RspInv ==
    /\ rsp # "none" => biu.stb
    /\ rsp = "ack" => biu.adr.page \notin Faulty
    /\ rsp = "err" => biu.adr.page \in Faulty

(* With the cache off, an open transfer that was not given up is for the   *)
(* address the fetch unit waits for, unless it waits for nothing (kill).   *)
(* The exception is a transfer that ended with an error: its strobe may    *)
(* stay for another one, to the old address, which can only be answered    *)
(* with another error.                                                     *)
OffInv ==
    ~ic_en =>
        /\ fsm.st = "idle"
        /\ biu.stb /\ ~biu.aborted_r /\ ~kill =>
             biu.adr = adr \/ biu.adr.page \in Faulty

IdleInv == fsm.st = "idle" => ~fsm.eval /\ ~fsm.load

(* During a lookup the state machine has the address the fetch unit waits  *)
(* for, the RAMs show its line, and an open transfer not given up is the   *)
(* one a miss has started.                                                 *)
FetchInv ==
    fsm.st = "cfetch" =>
        /\ ic_en /\ fsm.load
        /\ fsm.eval \/ ~kill => fsm.sa = adr
        /\ fsm.ci <=> adr.page \in Inhibited
        /\ tagrd = fsm.sa.line /\ ramrd = [line |-> fsm.sa.line, w |-> fsm.sa.w]
        /\ biu.stb /\ ~biu.aborted_r =>
             (~fsm.eval /\ biu.adr = fsm.sa) \/ biu.adr.page \in Faulty
        /\ ~fsm.eval /\ ~fsm.ci => tagcomp_miss

(* How many words after the one being fetched word w comes.                *)
Dist(w) == IF w >= fsm.sa.w THEN w - fsm.sa.w ELSE w + LineWords - fsm.sa.w

(* During a refill the words still to come are the next cnt + 1 ones; the  *)
(* others are in place, and the tag already names the page.                *)
RefillInv ==
    fsm.st = "lrefill3" =>
        /\ ic_en /\ fsm.load /\ ~fsm.eval /\ ~fsm.ci /\ ~biu.aborted_r
        /\ tags[fsm.sa.line] = [page |-> fsm.sa.page, v |-> TRUE]
        /\ biu.stb => biu.adr = fsm.sa
        /\ \A w \in Words : Dist(w) > fsm.cnt =>
             ram[fsm.sa.line][w] = [page |-> fsm.sa.page, line |-> fsm.sa.line, w |-> w]

(* No line of a cache-inhibited page is ever valid.                        *)
TagInv == \A l \in Lines : tags[l].v => tags[l].page \notin Inhibited

BootInv == /\ TypeInv /\ BootOp /\ RspInv /\ OffInv /\ IdleInv
           /\ FetchInv /\ RefillInv /\ TagInv /\ LineFaithful

LEMMA InitBoot == BootInit => BootInv
<1> SUFFICES ASSUME BootInit PROVE BootInv
  OBVIOUS
<1>1. TypeInv
  BY InitType DEF BootInit
<1>2. /\ ic_en = FALSE /\ ex = <<"none", 0>> /\ rsp = "none"
      /\ fsm.st = "idle" /\ fsm.eval = FALSE /\ fsm.load = FALSE
      /\ biu.stb = FALSE
      /\ \A l \in Lines : tags[l].v = FALSE
  BY DEF BootInit, Init
<1>3. QED
  BY <1>1, <1>2 DEF BootInv, BootOp, ic_inv, RspInv, OffInv, IdleInv, FetchInv,
                    RefillInv, TagInv, LineFaithful

(* Once on, the cache stays on, and is not invalidated.                    *)
LEMMA StaysOn ==
    ASSUME TypeOK, BootOp, ic_en, NEW a, NEW go, NEW mv, NEW op, FetchUnit(a, go, mv, op)
    PROVE  ic_en' /\ ~ic_inv
<1>1. ex \in ({"none"} \X {0}) \cup ({"ice"} \X {0, 1}) \cup ({"icbir"} \X Lines)
  BY IcacheAssumption DEF TypeOK
<1>2. ex[1] = "ice" => ex[2] = 1
  BY <1>1 DEF BootOp
<1>3. QED
  BY <1>2 DEF FetchUnit, BootOp

(* With the cache on, the RAMs take a word that arrives for the address of *)
(* the state machine, and nothing else.                                    *)
LEMMA OnRams ==
    ASSUME TypeOK, ic_en, ~ic_inv, NEW start \in Addr, Rams(start)
    PROVE  /\ ramrd' = [line |-> ic_addr(start).line, w |-> ic_addr(start).w]
           /\ tagrd' = ic_addr(start).line
           /\ ~ic_we => ram' = ram /\ tags' = tags
           /\ ic_we =>
                /\ ram' = [ram EXCEPT ![fsm.sa.line][fsm.sa.w] = biu.adr]
                /\ tags' = [tags EXCEPT ![fsm.sa.line] =
                                            [page |-> fsm.sa.page, v |-> TRUE]]
<1>1. ic_we => ic_addr(start) = fsm.sa
  BY DEF ic_we, ic_addr
<1>2. (~ic_inv) = TRUE
  BY DEF ic_inv
<1>3. QED
  BY <1>1, <1>2 DEF Rams

(* Cache off: the fetch unit asks the bus directly, and an invalidation    *)
(* clears the valid bit of its line.                                       *)
LEMMA OffStep ==
    ASSUME BootInv, ~ic_en, NEW a \in Addr, NEW on \in BOOLEAN, NEW go \in BOOLEAN,
           NEW mv \in BOOLEAN, NEW op \in Ops, StepIdle(a, on, go, mv, op)
    PROVE  OffInv' /\ IdleInv' /\ FetchInv' /\ RefillInv' /\ TagInv' /\ LineFaithful'
<1> DEFINE cs == cycstb(a, on)
           start == start_addr(a)
<1>1. /\ TypeOK /\ RspInv /\ OffInv /\ IdleInv /\ TagInv /\ LineFaithful
      /\ fsm \in FsmType /\ biu \in BiuType /\ adr \in Addr /\ fsm.st = "idle"
  BY TypeFields DEF BootInv, TypeInv, TypeOK, StepIdle
<1>2. /\ cs \in BOOLEAN /\ start \in Addr
      /\ cs => start = a
  BY <1>1, StartFields
<1>3. /\ FetchUnit(a, go, mv, op) /\ fsm' = IcIdle(cs, start) /\ Rams(start)
      /\ WbBiu(cs, ic_addr(start))
  BY DEF StepIdle, Clock
<1>4. ~biu_read /\ ic_addr(start) = start
  BY <1>1 DEF IdleInv, biu_read, ic_addr
<1> HIDE DEF cs, start
<1>5. fsm'.st = "idle" /\ fsm'.eval = FALSE /\ fsm'.load = FALSE
  BY <1>1, <1>2, <1>3, IdleFields
<1>6. IdleInv' /\ FetchInv' /\ RefillInv'
  BY <1>5 DEF IdleInv, FetchInv, RefillInv
<1>7. OffInv'
  <2> SUFFICES ASSUME biu'.stb, ~biu'.aborted_r, ~kill'
               PROVE  biu'.adr = adr' \/ biu'.adr.page \in Faulty
    BY <1>5 DEF OffInv
  <2>1. adr' = a /\ (ic_rty => ~go /\ ~kill /\ a = adr)
    <3>1. adr' = a /\ kill' = (ic_rty /\ (go \/ kill)) /\ Presents(a, go)
      BY <1>3 DEF FetchUnit
    <3>2. QED
      BY <3>1 DEF Presents
  <2>2. WbBiu(cs, start)
    BY <1>3, <1>4
  <2>3. CASE rsp = "ack"
    BY <1>1, <1>2, <2>2, <2>3, BiuFields
  <2>4. CASE rsp = "err"
    <3>1. biu.stb /\ biu.adr.page \in Faulty
      BY <1>1, <2>4 DEF RspInv
    <3>2. biu'.adr = biu.adr
      BY <1>1, <1>2, <2>2, <2>4, <3>1, BiuFields
    <3>3. QED
      BY <3>1, <3>2
  <2>5. CASE rsp = "none" /\ biu.stb
    <3>1. ic_rty
      BY <2>5 DEF ic_rty, ic_ack, ic_err, biu_ack, biu_err
    <3>2. biu'.adr = biu.adr /\ ~biu.aborted_r
      BY <1>1, <1>2, <2>2, <2>5, BiuFields
    <3>3. biu.adr = adr \/ biu.adr.page \in Faulty
      BY <1>1, <2>1, <2>5, <3>1, <3>2 DEF OffInv
    <3>4. QED
      BY <2>1, <3>1, <3>2, <3>3
  <2>6. CASE rsp = "none" /\ ~biu.stb
    <3>1. biu'.adr = start /\ cs
      BY <1>1, <1>2, <2>2, <2>6, BiuFields
    <3>2. QED
      BY <1>2, <2>1, <3>1
  <2>7. QED
    BY <1>1, <2>3, <2>4, <2>5, <2>6 DEF TypeOK
<1>8. /\ ram' = ram
      /\ \A l \in Lines : tags'[l].v => tags'[l] = tags[l]
  <2>1. ram' = ram
    BY <1>3 DEF Rams
  <2>2. CASE ic_inv
    <3>1. ex[2] \in Lines
      BY <1>1, <2>2, InvalidatedLine DEF TypeOK
    <3>2. tags' = [tags EXCEPT ![ex[2]] = [page |-> ic_addr(start).page, v |-> ~ic_inv]]
      BY <1>3, <2>2 DEF Rams
    <3>3. (~ic_inv) = FALSE
      BY <2>2
    <3>4. tags' = [tags EXCEPT ![ex[2]] = [page |-> ic_addr(start).page, v |-> FALSE]]
      BY <3>2, <3>3
    <3>5. QED
      BY <1>1, <2>1, <3>1, <3>4 DEF TypeOK
  <2>3. CASE ~ic_inv
    BY <1>3, <2>1, <2>3 DEF Rams
  <2>4. QED
    BY <2>2, <2>3
<1>9. TagInv' /\ LineFaithful'
  BY <1>1, <1>5, <1>8 DEF TagInv, LineFaithful
<1>10. QED
  BY <1>6, <1>7, <1>9

(* Cache on and idle: whatever transfer is open is given up, and a lookup  *)
(* starts with the address the fetch unit presents.                        *)
LEMMA IdleStep ==
    ASSUME BootInv, ic_en, NEW a \in Addr, NEW on \in BOOLEAN, NEW go \in BOOLEAN,
           NEW mv \in BOOLEAN, NEW op \in Ops, StepIdle(a, on, go, mv, op)
    PROVE  OffInv' /\ IdleInv' /\ FetchInv' /\ RefillInv' /\ TagInv' /\ LineFaithful'
<1> DEFINE cs == cycstb(a, on)
           start == start_addr(a)
<1>1. /\ TypeOK /\ RspInv /\ IdleInv /\ TagInv /\ LineFaithful /\ BootOp
      /\ fsm \in FsmType /\ biu \in BiuType /\ adr \in Addr /\ fsm.st = "idle"
  BY TypeFields DEF BootInv, TypeInv, TypeOK, StepIdle
<1>2. /\ cs \in BOOLEAN /\ start \in Addr
      /\ cs => start = a /\ a.page = adr.page
  BY <1>1, StartFields
<1>3. /\ FetchUnit(a, go, mv, op) /\ fsm' = IcIdle(cs, start) /\ Rams(start)
      /\ WbBiu(biu_read, ic_addr(start)) /\ adr' = a
  BY DEF StepIdle, Clock, FetchUnit
<1>4. biu_read = FALSE /\ ic_addr(start) = start /\ ~ic_we
  BY <1>1 DEF IdleInv, biu_read, ic_addr, ic_we
<1> HIDE DEF cs, start
<1>5. ic_en' /\ ~ic_inv
  BY <1>1, <1>3, StaysOn
<1>6. /\ ram' = ram /\ tags' = tags
      /\ tagrd' = start.line /\ ramrd' = [line |-> start.line, w |-> start.w]
  BY <1>1, <1>2, <1>3, <1>4, <1>5, OnRams
<1>7. biu'.stb => biu'.aborted_r
  <2>1. WbBiu(FALSE, start)
    BY <1>3, <1>4
  <2>2. rsp = "err" => biu.stb
    BY <1>1 DEF RspInv
  <2>3. QED
    BY <1>1, <1>2, <2>1, <2>2, BiuFields DEF TypeOK
<1>8. \/ /\ cs /\ fsm'.st = "cfetch" /\ fsm'.sa = start
         /\ fsm'.eval = TRUE /\ fsm'.load = TRUE /\ fsm'.ci = ic_ci
      \/ fsm'.st = "idle" /\ fsm'.eval = FALSE /\ fsm'.load = FALSE
  BY <1>1, <1>2, <1>3, IdleFields
<1>9. OffInv' /\ IdleInv' /\ RefillInv'
  BY <1>5, <1>8 DEF OffInv, IdleInv, RefillInv
<1>10. FetchInv'
  BY <1>2, <1>3, <1>5, <1>6, <1>7, <1>8 DEF FetchInv, ic_ci
<1>11. TagInv' /\ LineFaithful'
  BY <1>1, <1>6, <1>8 DEF TagInv, LineFaithful
<1>12. QED
  BY <1>9, <1>10, <1>11

(* The word that arrives leaves the set of those still to come, and no     *)
(* other one enters it.                                                    *)
LEMMA WordArrives ==
    ASSUME TypeOK, fsm'.sa = Wrap(fsm.sa),
           NEW n \in Words, NEW w \in Words, Dist(w)' > n
    PROVE  w = fsm.sa.w \/ (n < LineWords - 2 /\ Dist(w) > n + 1)
<1>1. fsm.sa \in Addr
  BY TypeFields DEF FsmType
<1>2. fsm'.sa.w = IF fsm.sa.w + 1 = LineWords THEN 0 ELSE fsm.sa.w + 1
  BY <1>1, WrapFields
<1>3. LineWords \in Nat /\ LineWords >= 2
  BY IcacheAssumption
<1>4. fsm.sa.w \in 0 .. LineWords - 1 /\ w \in 0 .. LineWords - 1 /\ n \in 0 .. LineWords - 1
  BY <1>1, AddrFields DEF Words
<1>5. QED
  BY <1>2, <1>3, <1>4 DEF Dist

(* The line of the word that arrives, and the others.                      *)
LEMMA WordWritten ==
    ASSUME TypeOK, ram' = [ram EXCEPT ![fsm.sa.line][fsm.sa.w] = fsm.sa],
           tags' = [tags EXCEPT ![fsm.sa.line] = [page |-> fsm.sa.page, v |-> TRUE]]
    PROVE  /\ tags'[fsm.sa.line] = [page |-> fsm.sa.page, v |-> TRUE]
           /\ ram'[fsm.sa.line][fsm.sa.w] =
                [page |-> fsm.sa.page, line |-> fsm.sa.line, w |-> fsm.sa.w]
           /\ \A w \in Words : w # fsm.sa.w => ram'[fsm.sa.line][w] = ram[fsm.sa.line][w]
           /\ \A l \in Lines : l # fsm.sa.line => ram'[l] = ram[l] /\ tags'[l] = tags[l]
<1>1. fsm.sa \in Addr
  BY TypeFields DEF FsmType
<1>2. /\ fsm.sa.line \in Lines /\ fsm.sa.w \in Words
      /\ fsm.sa = [page |-> fsm.sa.page, line |-> fsm.sa.line, w |-> fsm.sa.w]
  BY <1>1, AddrFields
<1>3. ram'[fsm.sa.line] = [ram[fsm.sa.line] EXCEPT ![fsm.sa.w] = fsm.sa]
  BY <1>2 DEF TypeOK
<1>4. ram[fsm.sa.line] \in [Words -> Addr \cup {NoWord}]
  BY <1>2 DEF TypeOK
<1>5. ram'[fsm.sa.line][fsm.sa.w] = fsm.sa
  BY <1>2, <1>3, <1>4
<1>6. \A w \in Words : w # fsm.sa.w => ram'[fsm.sa.line][w] = ram[fsm.sa.line][w]
  BY <1>2, <1>3, <1>4
<1>7. \A l \in Lines : l # fsm.sa.line => ram'[l] = ram[l]
  BY <1>2 DEF TypeOK
<1>8. /\ tags'[fsm.sa.line] = [page |-> fsm.sa.page, v |-> TRUE]
      /\ \A l \in Lines : l # fsm.sa.line => tags'[l] = tags[l]
  BY <1>2 DEF TypeOK
<1>9. QED
  BY <1>2, <1>5, <1>6, <1>7, <1>8

(* An acknowledge seen by the cache during a lookup answers its own miss.  *)
LEMMA LookupAck ==
    ASSUME BootInv, fsm.st = "cfetch", biu_ack
    PROVE  /\ ~fsm.eval /\ biu.adr = fsm.sa /\ biu_read
           /\ ~fsm.ci => tagcomp_miss
  BY DEF BootInv, RspInv, FetchInv, biu_ack, biu_read

(* A hit is in a page that may be cached.                                  *)
LEMMA HitCached ==
    ASSUME BootInv, fsm.st = "cfetch", ~tagcomp_miss
    PROVE  ~ic_ci
<1>1. tagrd \in Lines /\ tags[tagrd] = [page |-> fsm.sa.page, v |-> TRUE]
  BY DEF tagcomp_miss, BootInv, TypeInv, TypeOK
<1>2. fsm.sa.page \notin Inhibited
  BY <1>1 DEF BootInv, TagInv
<1>3. QED
  BY <1>2 DEF BootInv, TypeInv, PageInv, ic_ci

(* A lookup: hit, miss, first word of a refill, or given up.               *)
LEMMA FetchStep ==
    ASSUME BootInv, NEW a \in Addr, NEW on \in BOOLEAN, NEW go \in BOOLEAN,
           NEW mv \in BOOLEAN, NEW op \in Ops, StepFetch(a, on, go, mv, op)
    PROVE  OffInv' /\ IdleInv' /\ FetchInv' /\ RefillInv' /\ TagInv' /\ LineFaithful'
<1> DEFINE cs == cycstb(a, on)
           start == start_addr(a)
<1>1. /\ TypeOK /\ RspInv /\ FetchInv /\ TagInv /\ LineFaithful /\ BootOp /\ PageInv
      /\ fsm \in FsmType /\ biu \in BiuType /\ adr \in Addr /\ fsm.st = "cfetch"
      /\ ic_en /\ fsm.sa \in Addr
  BY TypeFields DEF BootInv, TypeInv, TypeOK, StepFetch, FetchInv
<1>2. /\ cs \in BOOLEAN /\ start \in Addr /\ start.page = fsm.sa.page
      /\ cs => start = a /\ a.page = adr.page
  BY <1>1, StartFields DEF PageInv
<1>3. /\ FetchUnit(a, go, mv, op) /\ fsm' = IcFetch(cs, start) /\ Rams(start)
      /\ WbBiu(biu_read, ic_addr(start)) /\ adr' = a
  BY <1>1 DEF StepFetch, Clock, FetchUnit
<1> HIDE DEF cs, start
<1>4. ic_en' /\ ~ic_inv
  BY <1>1, <1>3, StaysOn
<1>5. OffInv'
  BY <1>4 DEF OffInv
<1>6. biu_read \in BOOLEAN /\ ic_addr(start) \in Addr
  BY <1>1, <1>2 DEF biu_read, ic_addr, FsmType
<1>7. ASSUME ~ic_we, fsm'.st \in {"idle", "cfetch"}
      PROVE  ram' = ram /\ tags' = tags /\ TagInv' /\ LineFaithful' /\ RefillInv'
  <2>1. ram' = ram /\ tags' = tags
    BY <1>1, <1>2, <1>3, <1>4, <1>7, OnRams
  <2>2. TagInv' /\ RefillInv'
    BY <1>1, <1>7, <2>1 DEF TagInv, RefillInv
  <2>3. LineFaithful'
    BY <1>1, <2>1 DEF LineFaithful
  <2>4. QED
    BY <2>1, <2>2, <2>3
<1>8. CASE LookupEnds(fsm')
  <2>1. ~ic_we
    BY <1>1, <1>8, LookupAck DEF ic_we, LookupEnds
  <2>2. IdleInv' /\ FetchInv'
    BY <1>8 DEF IdleInv, FetchInv, LookupEnds
  <2>3. QED
    BY <1>5, <1>7, <1>8, <2>1, <2>2 DEF LookupEnds
<1>9. CASE RefillStarts(fsm')
  <2>1. biu_read /\ biu.adr = fsm.sa /\ ic_we
    BY <1>1, <1>9, LookupAck DEF ic_we, RefillStarts
  <2>2. /\ ram' = [ram EXCEPT ![fsm.sa.line][fsm.sa.w] = fsm.sa]
        /\ tags' = [tags EXCEPT ![fsm.sa.line] = [page |-> fsm.sa.page, v |-> TRUE]]
    BY <1>1, <1>2, <1>3, <1>4, <2>1, OnRams
  <2>3. fsm'.sa.page = fsm.sa.page /\ fsm'.sa.line = fsm.sa.line
    BY <1>1, <1>9, WrapFields DEF RefillStarts
  <2>4. biu'.stb = FALSE /\ biu'.aborted_r = FALSE
    BY <1>1, <1>3, <1>6, <1>9, BiuFields DEF biu_ack, RefillStarts
  <2>5. ASSUME NEW w \in Words, Dist(w)' > fsm'.cnt
        PROVE  w = fsm.sa.w
    <3>1. LineWords - 2 \in Words
      BY IcacheAssumption DEF Words
    <3>2. QED
      BY <1>1, <1>9, <2>5, <3>1, WordArrives, IcacheAssumption DEF RefillStarts
  <2>6. RefillInv'
    BY <1>1, <1>4, <1>9, <2>2, <2>3, <2>4, <2>5, WordWritten
       DEF RefillInv, FetchInv, RefillStarts
  <2>7. fsm.sa.page \notin Inhibited
    BY <1>1, <1>9 DEF FetchInv, PageInv, RefillStarts
  <2>8. TagInv'
    BY <1>1, <2>2, <2>7, WordWritten DEF TagInv
  <2>9. LineFaithful'
    BY <1>1, <1>9, <2>2, <2>3, WordWritten DEF LineFaithful, RefillStarts
  <2>10. IdleInv' /\ FetchInv'
    BY <1>9 DEF IdleInv, FetchInv, RefillStarts
  <2>11. QED
    BY <1>5, <2>6, <2>8, <2>9, <2>10
<1>10. CASE HitGoesOn(fsm', cs, start)
  <2>1. fsm.eval = TRUE
    BY <1>1, <1>10 DEF FetchInv, ic_ci, FsmType, HitGoesOn
  <2>2. biu_read = FALSE /\ ic_addr(start) = start /\ ~ic_we
    BY <1>10, <2>1 DEF biu_read, ic_addr, ic_we, HitGoesOn
  <2>3. tagrd' = start.line /\ ramrd' = [line |-> start.line, w |-> start.w]
    BY <1>1, <1>2, <1>3, <1>4, <2>2, OnRams
  <2>4. biu'.stb => biu'.aborted_r
    <3>1. WbBiu(FALSE, start)
      BY <1>3, <2>2
    <3>2. rsp = "err" => biu.stb
      BY <1>1 DEF RspInv
    <3>3. QED
      BY <1>1, <1>2, <3>1, <3>2, BiuFields DEF TypeOK
  <2>5. FetchInv'
    BY <1>1, <1>2, <1>3, <1>4, <1>10, <2>1, <2>3, <2>4 DEF FetchInv, ic_ci, HitGoesOn
  <2>6. IdleInv'
    BY <1>1, <1>10 DEF IdleInv, HitGoesOn
  <2>7. QED
    BY <1>1, <1>5, <1>7, <1>10, <2>2, <2>5, <2>6 DEF HitGoesOn
<1>11. CASE MissWaits(fsm', cs)
  <2>1. tagcomp_miss
    BY <1>1, <1>11, HitCached DEF MissWaits
  <2>2. biu_read = TRUE /\ ic_addr(start) = fsm.sa /\ ~ic_we
    BY <1>1, <1>11, <2>1 DEF biu_read, ic_addr, ic_we, FetchInv, MissWaits
  <2>3. /\ tagrd' = fsm.sa.line /\ ramrd' = [line |-> fsm.sa.line, w |-> fsm.sa.w]
        /\ tags' = tags
    BY <1>1, <1>2, <1>3, <1>4, <2>2, OnRams
  <2>4. ASSUME ~kill'
        PROVE  fsm.sa = adr'
    <3>1. ic_rty
      BY <1>1, <1>11, <2>1 DEF ic_rty, ic_ack, ic_err, first_hit_ack, first_miss_ack, MissWaits
    <3>2. ~go /\ ~kill /\ a = adr
      <4>1. kill' = (ic_rty /\ (go \/ kill)) /\ Presents(a, go)
        BY <1>3 DEF FetchUnit
      <4>2. QED
        BY <2>4, <3>1, <4>1 DEF Presents
    <3>3. QED
      BY <1>1, <1>3, <3>2 DEF FetchInv
  <2>5. ASSUME biu'.stb, ~biu'.aborted_r
        PROVE  biu'.adr = fsm.sa \/ biu'.adr.page \in Faulty
    <3>1. WbBiu(TRUE, fsm.sa)
      BY <1>3, <2>2
    <3>2. CASE rsp = "ack"
      BY <1>1, <2>5, <3>1, <3>2, BiuFields
    <3>3. CASE rsp = "err"
      <4>1. biu.stb /\ biu.adr.page \in Faulty
        BY <1>1, <3>3 DEF RspInv
      <4>2. biu'.adr = biu.adr
        BY <1>1, <3>1, <3>3, <4>1, BiuFields
      <4>3. QED
        BY <4>1, <4>2
    <3>4. CASE rsp = "none" /\ biu.stb
      <4>1. biu'.adr = biu.adr /\ ~biu.aborted_r
        BY <1>1, <2>5, <3>1, <3>4, BiuFields
      <4>2. QED
        BY <1>1, <3>4, <4>1 DEF FetchInv
    <3>5. CASE rsp = "none" /\ ~biu.stb
      BY <1>1, <3>1, <3>5, BiuFields
    <3>6. QED
      BY <1>1, <3>2, <3>3, <3>4, <3>5 DEF TypeOK
  <2>6. tagcomp_miss'
    BY <1>1, <1>11, <2>1, <2>3 DEF tagcomp_miss, FetchInv, MissWaits
  <2>7. fsm'.ci <=> adr'.page \in Inhibited
    BY <1>1, <1>2, <1>3, <1>11 DEF FetchInv, ic_ci, MissWaits
  <2>8. FetchInv'
    BY <1>1, <1>4, <1>11, <2>3, <2>4, <2>5, <2>6, <2>7 DEF FetchInv, MissWaits
  <2>9. IdleInv'
    BY <1>1, <1>11 DEF IdleInv, MissWaits
  <2>10. QED
    BY <1>1, <1>5, <1>7, <1>11, <2>2, <2>8, <2>9 DEF MissWaits
<1>12. LookupEnds(fsm') \/ RefillStarts(fsm') \/ HitGoesOn(fsm', cs, start)
       \/ MissWaits(fsm', cs)
  BY <1>1, <1>2, <1>3, FetchFields
<1>13. QED
  BY <1>8, <1>9, <1>10, <1>11, <1>12

(* A refill: every word goes to its place in the line, and the last one    *)
(* completes it.                                                           *)
LEMMA RefillStep ==
    ASSUME BootInv, NEW a \in Addr, NEW on \in BOOLEAN, NEW go \in BOOLEAN,
           NEW mv \in BOOLEAN, NEW op \in Ops, StepRefill(a, on, go, mv, op)
    PROVE  OffInv' /\ IdleInv' /\ FetchInv' /\ RefillInv' /\ TagInv' /\ LineFaithful'
<1> DEFINE start == start_addr(a)
<1>1. /\ TypeOK /\ RspInv /\ RefillInv /\ TagInv /\ LineFaithful /\ BootOp
      /\ fsm \in FsmType /\ biu \in BiuType /\ adr \in Addr /\ fsm.st = "lrefill3"
      /\ ic_en /\ fsm.sa \in Addr
  BY TypeFields DEF BootInv, TypeInv, TypeOK, StepRefill, RefillInv
<1>2. start \in Addr
  BY <1>1, StartFields
<1>3. /\ FetchUnit(a, go, mv, op) /\ fsm' = IcRefill(start) /\ Rams(start)
      /\ WbBiu(biu_read, ic_addr(start))
  BY <1>1 DEF StepRefill, Clock
<1> HIDE DEF start
<1>4. ic_en' /\ ~ic_inv
  BY <1>1, <1>3, StaysOn
<1>5. biu_read = TRUE /\ ic_addr(start) = fsm.sa /\ (ic_we <=> biu_ack)
  BY <1>1 DEF biu_read, ic_addr, ic_we, RefillInv
<1>6. WbBiu(TRUE, fsm.sa)
  BY <1>3, <1>5
<1>7. OffInv' /\ FetchInv'
  <2>1. fsm'.st # "cfetch"
    BY <1>1, <1>2, <1>3, RefillFields
  <2>2. QED
    BY <1>4, <2>1 DEF OffInv, FetchInv
<1>8. ASSUME biu_ack
      PROVE  /\ ram' = [ram EXCEPT ![fsm.sa.line][fsm.sa.w] = fsm.sa]
             /\ tags' = [tags EXCEPT ![fsm.sa.line] = [page |-> fsm.sa.page, v |-> TRUE]]
             /\ TagInv'
             /\ biu'.stb = FALSE /\ biu'.aborted_r = FALSE
  <2>1. biu.adr = fsm.sa
    BY <1>1, <1>8 DEF RefillInv, RspInv, biu_ack
  <2>2. /\ ram' = [ram EXCEPT ![fsm.sa.line][fsm.sa.w] = fsm.sa]
        /\ tags' = [tags EXCEPT ![fsm.sa.line] = [page |-> fsm.sa.page, v |-> TRUE]]
    BY <1>1, <1>2, <1>3, <1>4, <1>5, <1>8, <2>1, OnRams
  <2>3. fsm.sa.page \notin Inhibited
    BY <1>1, AddrFields DEF RefillInv, TagInv
  <2>4. TagInv'
    BY <1>1, <2>2, <2>3, WordWritten DEF TagInv
  <2>5. biu'.stb = FALSE /\ biu'.aborted_r = FALSE
    BY <1>1, <1>6, <1>8, BiuFields DEF biu_ack
  <2>6. QED
    BY <2>2, <2>4, <2>5
<1>9. CASE biu_ack /\ fsm.cnt = 0
  <2>1. fsm'.st = "idle" /\ fsm'.eval = FALSE /\ fsm'.load = FALSE
    BY <1>1, <1>2, <1>3, <1>9, RefillFields
  <2>2. IdleInv' /\ RefillInv'
    BY <2>1 DEF IdleInv, RefillInv
  <2>3. ASSUME NEW w \in Words, w # fsm.sa.w
        PROVE  Dist(w) > 0
    <3>1. LineWords \in Nat /\ fsm.sa.w \in 0 .. LineWords - 1 /\ w \in 0 .. LineWords - 1
      BY <1>1, IcacheAssumption, AddrFields DEF Words
    <3>2. QED
      BY <2>3, <3>1 DEF Dist
  <2>4. ASSUME NEW w \in Words
        PROVE  ram'[fsm.sa.line][w] = [page |-> fsm.sa.page, line |-> fsm.sa.line, w |-> w]
    BY <1>1, <1>8, <1>9, <2>3, WordWritten DEF RefillInv
  <2>5. LineFaithful'
    BY <1>1, <1>8, <1>9, <2>4, WordWritten DEF LineFaithful
  <2>6. QED
    BY <1>7, <1>8, <1>9, <2>2, <2>5
<1>10. CASE biu_ack /\ fsm.cnt # 0
  <2>1. /\ fsm'.st = fsm.st /\ fsm'.eval = fsm.eval /\ fsm'.load = fsm.load
        /\ fsm'.ci = fsm.ci /\ fsm'.cnt = fsm.cnt - 1 /\ fsm'.sa = Wrap(fsm.sa)
    BY <1>1, <1>2, <1>3, <1>10, RefillFields
  <2>2. fsm'.sa.page = fsm.sa.page /\ fsm'.sa.line = fsm.sa.line
    BY <1>1, <2>1, WrapFields
  <2>3. ASSUME NEW w \in Words, Dist(w)' > fsm'.cnt
        PROVE  ram'[fsm.sa.line][w] = [page |-> fsm.sa.page, line |-> fsm.sa.line, w |-> w]
    <3>1. /\ fsm.cnt \in Nat /\ fsm.cnt - 1 \in Words /\ (fsm.cnt - 1) + 1 = fsm.cnt
      BY <1>1, <1>10, IcacheAssumption DEF FsmType, Words
    <3>2. w = fsm.sa.w \/ Dist(w) > fsm.cnt
      BY <1>1, <2>1, <2>3, <3>1, WordArrives
    <3>3. QED
      BY <1>1, <1>8, <1>10, <3>2, WordWritten DEF RefillInv
  <2>4. RefillInv'
    BY <1>1, <1>4, <1>8, <1>10, <2>1, <2>2, <2>3, WordWritten DEF RefillInv
  <2>5. LineFaithful'
    BY <1>1, <1>8, <1>10, <2>1, <2>2, WordWritten DEF LineFaithful
  <2>6. IdleInv'
    BY <1>1, <2>1 DEF IdleInv
  <2>7. QED
    BY <1>7, <1>8, <1>10, <2>4, <2>5, <2>6
<1>11. CASE ~biu_ack
  <2>1. fsm' = fsm /\ ram' = ram /\ tags' = tags
    <3>1. ram' = ram /\ tags' = tags
      BY <1>1, <1>2, <1>3, <1>4, <1>5, <1>11, OnRams
    <3>2. fsm' = fsm
      BY <1>1, <1>3, <1>11 DEF IcRefill
    <3>3. QED
      BY <3>1, <3>2
  <2>2. ~biu'.aborted_r /\ (biu'.stb => biu'.adr = fsm.sa)
    <3>1. biu.aborted_r = FALSE /\ (biu.stb => biu.adr = fsm.sa) /\ rsp # "ack"
      BY <1>1, <1>11 DEF RefillInv, biu_ack, BiuType
    <3>2. rsp = "err" => biu.stb
      BY <1>1 DEF RspInv
    <3>3. CASE biu.stb
      BY <1>1, <1>6, <3>1, <3>3, BiuFields DEF TypeOK
    <3>4. CASE ~biu.stb
      BY <1>1, <1>6, <3>1, <3>2, <3>4, BiuFields DEF TypeOK
    <3>5. QED
      BY <3>3, <3>4
  <2>3. RefillInv'
    BY <1>1, <1>4, <2>1, <2>2 DEF RefillInv, Dist
  <2>4. IdleInv' /\ TagInv' /\ LineFaithful'
    BY <1>1, <2>1 DEF IdleInv, TagInv, LineFaithful
  <2>5. QED
    BY <1>7, <2>3, <2>4
<1>12. QED
  BY <1>9, <1>10, <1>11

LEMMA StepBoot ==
    ASSUME BootInv, BootNext
    PROVE  BootInv'
<1>1. TypeInv'
  BY StepType DEF BootInv, BootNext
<1>2. BootOp'
  BY DEF BootNext, BootOp, ic_inv
<1>3. PICK a \in Addr, on \in BOOLEAN, go \in BOOLEAN, mv \in BOOLEAN, op \in Ops :
          StepIdle(a, on, go, mv, op) \/ StepFetch(a, on, go, mv, op)
          \/ StepRefill(a, on, go, mv, op)
  BY DEF BootNext, Next
<1>4. RspInv'
  <2>1. Slave
    BY <1>3 DEF StepIdle, StepFetch, StepRefill, Clock
  <2>2. QED
    BY <2>1, SlaveFields DEF RspInv
<1>5. OffInv' /\ IdleInv' /\ FetchInv' /\ RefillInv' /\ TagInv' /\ LineFaithful'
  <2>1. CASE StepIdle(a, on, go, mv, op)
    BY <2>1, OffStep, IdleStep
  <2>2. CASE StepFetch(a, on, go, mv, op)
    BY <2>2, FetchStep
  <2>3. CASE StepRefill(a, on, go, mv, op)
    BY <2>3, RefillStep
  <2>4. QED
    BY <1>3, <2>1, <2>2, <2>3
<1>6. QED
  BY <1>1, <1>2, <1>4, <1>5 DEF BootInv

LEMMA InvariantBoot == BootSpec => []BootInv
<1>1. BootInv /\ [BootNext]_vars => BootInv'
  <2>1. ASSUME BootInv, UNCHANGED vars
        PROVE  BootInv'
    BY <2>1 DEF BootInv, TypeInv, TypeOK, PageInv, BootOp, ic_inv, RspInv, OffInv,
                IdleInv, FetchInv, RefillInv, Dist, TagInv, LineFaithful, tagcomp_miss,
                vars
  <2>2. QED
    BY <2>1, StepBoot
<1>2. QED
  BY <1>1, InitBoot, PTL DEF BootSpec

(* Under the boot discipline every line that is valid and not being        *)
(* refilled holds the words of its page: the valid bit, set with the first *)
(* word, is never left behind by a refill that stops half way.             *)
THEOREM LinesFaithful == BootSpec => []LineFaithful
<1>1. BootInv => LineFaithful
  BY DEF BootInv
<1>2. QED
  BY <1>1, InvariantBoot, PTL

(* Under the boot discipline every instruction handed to the pipeline is   *)
(* the word at the address the fetch unit asked for, whether it comes from *)
(* the bus or from the cache, after any sequence of abandoned fetches,     *)
(* page changes and bus errors.                                            *)
THEOREM FetchesCorrect == BootSpec => []FetchCorrect
<1>1. ASSUME BootInv, ic_ack, ~kill
      PROVE  ic_dat = adr
  <2>1. /\ TypeOK /\ RspInv /\ OffInv /\ FetchInv /\ LineFaithful /\ PageInv
        /\ fsm \in FsmType /\ fsm.sa \in Addr /\ adr \in Addr
    BY <1>1, TypeFields DEF BootInv, TypeInv, TypeOK
  <2>2. CASE ~ic_en
    BY <1>1, <2>1, <2>2 DEF ic_ack, ic_dat, biu_ack, RspInv, OffInv
  <2>3. CASE ic_en /\ first_miss_ack
    <3>1. biu.adr = fsm.sa
      BY <1>1, <2>3, LookupAck DEF first_miss_ack
    <3>2. fsm.sa = adr
      BY <1>1, <2>1, <2>3 DEF FetchInv, first_miss_ack
    <3>3. QED
      BY <2>3, <3>1, <3>2 DEF ic_dat
  <2>4. CASE ic_en /\ ~first_miss_ack
    <3>1. fsm.st = "cfetch" /\ fsm.eval /\ ~tagcomp_miss
      BY <1>1, <2>4 DEF ic_ack, first_hit_ack
    <3>2. /\ fsm.sa = adr /\ tagrd = fsm.sa.line
          /\ ramrd = [line |-> fsm.sa.line, w |-> fsm.sa.w]
      BY <2>1, <3>1 DEF FetchInv
    <3>3. tags[fsm.sa.line] = [page |-> fsm.sa.page, v |-> TRUE]
      BY <3>1, <3>2 DEF tagcomp_miss
    <3>4. ram[fsm.sa.line][fsm.sa.w] =
            [page |-> fsm.sa.page, line |-> fsm.sa.line, w |-> fsm.sa.w]
      BY <2>1, <3>1, <3>3, AddrFields DEF LineFaithful
    <3>5. ram[fsm.sa.line][fsm.sa.w] = fsm.sa
      BY <2>1, <3>4, AddrFields
    <3>6. QED
      BY <2>4, <3>2, <3>5 DEF ic_dat
  <2>5. QED
    BY <2>2, <2>3, <2>4
<1>2. BootInv => FetchCorrect
  BY <1>1 DEF FetchCorrect
<1>3. QED
  BY <1>2, InvariantBoot, PTL

(* The boot discipline only restricts what runs on the core.               *)
THEOREM BootTransfersHeld == BootSpec => TransferHeld
<1>1. BootInit => Init
  BY DEF BootInit
<1>2. [BootNext]_vars => [Next]_vars
  BY DEF BootNext
<1>3. BootSpec => Spec
  BY <1>1, <1>2, PTL DEF BootSpec, Spec
<1>4. QED
  BY <1>3, TransfersHeld, PTL
=============================================================================
