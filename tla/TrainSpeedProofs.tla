-------------------------- MODULE TrainSpeedProofs --------------------------
(***************************************************************************)
(* Proofs about the train speed scheduler, for every train, configuration, *)
(* number of sessions and number of commands.                              *)
(*                                                                         *)
(* LateAtMostOnce is not inductive: a goroutine about to send could carry  *)
(* a late command already.  The invariant adds that one which is asleep or *)
(* about to send has sent none late, which needs that a late command is    *)
(* only counted once the context is done, and that contexts stay done.     *)
(*                                                                         *)
(* Settles speaks of quiet moments.  Goals says how far a command has got  *)
(* at every step: which members the read loop has passed, and that each of *)
(* them is at its speed or has the one goroutine that leads there.         *)
(* Contexts adds which contexts are done, registered or about to be.       *)
(***************************************************************************)
EXTENDS TrainSpeed, SequenceTheorems, FiniteSetTheorems, TLAPS

USE DEF TrainAssumption

-----------------------------------------------------------------------------
(***************************************************************************)
(* Speeds.                                                                 *)
(***************************************************************************)
LEMMA DivNat ==
  ASSUME NEW x \in Nat, NEW y \in Nat \ {0}
  PROVE  x \div y \in Nat /\ y * (x \div y) <= x
  OBVIOUS

LEMMA WireNat ==
  ASSUME NEW s \in Nat
  PROVE  WireSpeedFromPayload(s) \in Nat /\ UISpeedFromWire(s) \in Nat
  BY DEF WireSpeedFromPayload, UISpeedFromWire

LEMMA MemberSpeedNat ==
  ASSUME NEW a \in Addr, NEW s \in Nat, NEW limit \in Nat
  PROVE  EffectiveMemberSpeed(a, ClampSpeedForControllerLimit(s, limit)) \in Nat
<1> DEFINE c == ClampSpeedForControllerLimit(s, limit)
           num == IF a = Members[1] \/ Cfg[a].num = 0 THEN 1 ELSE Cfg[a].num
           den == IF a = Members[1] \/ Cfg[a].num = 0 THEN 1 ELSE Cfg[a].den
<1>1. MaxSpeed \in Nat
  BY TrainAssumption
<1>2. c \in Nat
  <2>1. (MaxSpeed * limit + 50) \div 100 \in Nat
    BY <1>1
  <2> QED BY <1>1, <2>1 DEF ClampSpeedForControllerLimit, Least, Greatest
<1>3. num \in Nat /\ den \in Nat \ {0}
  BY TrainAssumption
<1> HIDE DEF c, num, den
<1>4. 2 * c * num + den \in Nat /\ 2 * den \in Nat \ {0}
  BY <1>2, <1>3
<1>5. (2 * c * num + den) \div (2 * den) \in Nat
  BY <1>4, DivNat
<1>6. EffectiveMemberSpeed(a, c) =
        IF c = 0 THEN 0 ELSE Least((2 * c * num + den) \div (2 * den), MaxSpeed)
  BY DEF EffectiveMemberSpeed, num, den
<1> QED BY <1>1, <1>5, <1>6 DEF Least, c

LEMMA PlanStepsPositive ==
  ASSUME NEW ms \in Nat, NEW k \in Nat
  PROVE  PlanSteps(ms, Steps(k)) \in Nat \ {0}
<1>1. ms \div MinStepMs \in Nat
  BY TrainAssumption, DivNat
<1> QED BY <1>1 DEF PlanSteps, Steps, Least, Greatest

\* i steps of the nth part of x do not exceed x.
LEMMA Parts ==
  ASSUME NEW x \in Nat, NEW n \in Nat \ {0}, NEW i \in 0 .. n
  PROVE  i * (x \div n) \in Nat /\ i * (x \div n) <= x
<1> DEFINE d == x \div n
<1>1. d \in Nat /\ n * d <= x
  BY DivNat
<1> HIDE DEF d
<1>2. (n - i) * d \in Nat /\ i * d \in Nat
  BY <1>1
<1>3. n * d = i * d + (n - i) * d
  BY <1>1
<1> QED BY <1>1, <1>2, <1>3 DEF d

\* AccelRampSpeeds, for every pair of speeds and every number of steps: each
\* speed lies between the current one and the target, they never turn back,
\* and the last one is the target.
THEOREM RampStaysBetween ==
  ASSUME NEW cur \in Nat, NEW target \in Nat, NEW n \in Nat \ {0}
  PROVE  LET r == RampSpeeds(cur, target, n)
         IN  /\ r \in Seq(Nat) /\ Len(r) = n /\ r[n] = target
             /\ cur <= target =>
                  \A i \in 1 .. n : /\ cur <= r[i] /\ r[i] <= target
                                    /\ i > 1 => r[i - 1] <= r[i]
             /\ target <= cur =>
                  \A i \in 1 .. n : /\ target <= r[i] /\ r[i] <= cur
                                    /\ i > 1 => r[i] <= r[i - 1]
<1> DEFINE x == IF target >= cur THEN target - cur ELSE cur - target
           d == x \div n
           r == RampSpeeds(cur, target, n)
<1>1. x \in Nat
  OBVIOUS
<1>2. d \in Nat /\ \A i \in 0 .. n : i * d \in Nat /\ i * d <= x
  BY <1>1, DivNat, Parts
<1>3. r = [i \in 1 .. n |-> IF i = n THEN target
                            ELSE IF target >= cur THEN cur + i * d ELSE cur - i * d]
  BY DEF RampSpeeds
<1> HIDE DEF d, r
<1>4. \A i \in 1 .. n : r[i] \in Nat
  BY <1>1, <1>2, <1>3
<1>5. r \in Seq(Nat) /\ Len(r) = n
  <2>1. r \in [1 .. n -> Nat]
    BY <1>3, <1>4
  <2> QED BY <2>1, SeqDef, LenProperties
<1>6. ASSUME NEW i \in 1 .. n, i > 1
      PROVE  (i - 1) * d \in Nat /\ i * d = (i - 1) * d + d
  BY <1>2
<1>7. ASSUME cur <= target, NEW i \in 1 .. n
      PROVE  /\ cur <= r[i] /\ r[i] <= target
             /\ i > 1 => r[i - 1] <= r[i]
  <2>1. cur <= r[i] /\ r[i] <= target
    BY <1>2, <1>3, <1>7
  <2>2. ASSUME i > 1 PROVE r[i - 1] <= r[i]
    <3>1. r[i - 1] = cur + (i - 1) * d /\ (i - 1) * d <= x
      BY <1>2, <1>3, <1>7, <2>2
    <3> QED BY <1>2, <1>3, <1>6, <1>7, <2>2, <3>1
  <2> QED BY <2>1, <2>2
<1>8. ASSUME target <= cur, NEW i \in 1 .. n
      PROVE  /\ target <= r[i] /\ r[i] <= cur
             /\ i > 1 => r[i] <= r[i - 1]
  <2>1. CASE target = cur
    <3>1. x = 0
      BY <2>1
    <3>2. \A k \in 1 .. n : r[k] = cur
      BY <1>2, <1>3, <2>1, <3>1
    <3> QED BY <2>1, <3>2
  <2>2. CASE target < cur
    <3>1. target <= r[i] /\ r[i] <= cur
      BY <1>2, <1>3, <2>2
    <3>2. ASSUME i > 1 PROVE r[i] <= r[i - 1]
      <4>1. r[i - 1] = cur - (i - 1) * d /\ (i - 1) * d <= x
        BY <1>2, <1>3, <2>2, <3>2
      <4> QED BY <1>2, <1>3, <1>6, <2>2, <3>2, <4>1
    <3> QED BY <3>1, <3>2
  <2> QED BY <1>8, <2>1, <2>2
<1>9. r[n] = target
  BY <1>3
<1> QED BY <1>5, <1>7, <1>8, <1>9 DEF r

-----------------------------------------------------------------------------
(***************************************************************************)
(* The inductive invariant.                                                *)
(***************************************************************************)

\* A goroutine sent at most one late command, and none before its next one.
JobInv(j) ==
  /\ j.todo # <<>> /\ j.late <= 1
  /\ j.pc \in {"sleep", "apply"} => j.late = 0
  /\ j.late # 0 => j.ctx \in cancelled

\* A read loop inside Apply has a context and members left; the goroutines it
\* plans have sent nothing.
CallerInv(t) ==
  /\ t.pc # "idle" => t.ctx \in Ctx
  /\ t.pc = "store" => t.i <= Len(Members)
  /\ \A j \in t.new : j.todo # <<>> /\ j.late = 0

Inv ==
  /\ TypeOK
  /\ \A j \in jobs : JobInv(j)
  /\ \A c \in Caller : CallerInv(caller[c])

LEMMA MemberAddr ==
  ASSUME NEW i \in 1 .. Len(Members)
  PROVE  Members[i] \in Addr
  BY TrainAssumption DEF Addr

\* Contexts stay done, so a goroutine keeps its invariant while others move.
LEMMA JobInvStable ==
  ASSUME NEW j, JobInv(j), cancelled \subseteq cancelled'
  PROVE  JobInv(j)'
  BY DEF JobInv

LEMMA OutcomeType ==
  ASSUME NEW w \in Nat, NEW o \in Outcome(w)
  PROVE  o.sent \in BOOLEAN /\ o.retry \in BOOLEAN /\ (o.retry => w <= 1)
  BY DEF Outcome

LEMMA SetSpeedType ==
  ASSUME TypeOK, NEW a \in Addr, NEW w \in Nat, NEW ctx \in Ctx, NEW o,
         SetSpeed(a, w, ctx, o)
  PROVE  speed' \in [Addr -> Nat] /\ retries' \subseteq Retry
<1>1. o.sent \in BOOLEAN /\ o.retry \in BOOLEAN /\ (o.retry => w <= 1)
  BY OutcomeType DEF SetSpeed
<1>2. speed' \in [Addr -> Nat]
  BY DEF SetSpeed, TypeOK
<1>3. o.retry => [a |-> a, ctx |-> ctx, wire |-> w, left |-> BrakeRetries] \in Retry
  BY <1>1, TrainAssumption DEF Retry
<1> QED BY <1>2, <1>3 DEF SetSpeed, TypeOK

LEMMA TargetNat ==
  ASSUME TypeOK, NEW c \in Caller, NEW a \in Addr
  PROVE  Target(c, a) \in Nat
<1>1. caller[c].cmd \in Nat /\ LimitOf[c] \in Nat
  BY TrainAssumption DEF TypeOK, CallerState
<1> QED BY <1>1, MemberSpeedNat DEF Target

\* What Apply plans is a goroutine that has something to send.
LEMMA PlannedType ==
  ASSUME TypeOK, NEW c \in Caller, caller[c].ctx \in Ctx, NEW a \in Addr,
         NEW j \in Planned(c, a)
  PROVE  j \in Job /\ j.todo # <<>> /\ j.late = 0
<1> DEFINE t == caller[c]
           k == Cfg[a]
<1>1. t.cur[a] \in Nat /\ Target(c, a) \in Nat
  BY TargetNat DEF TypeOK, CallerState
<1>2. /\ PlanSteps(k.accelMs, Steps(k.accelSteps)) \in Nat \ {0}
      /\ PlanSteps(k.brakeMs, Steps(k.brakeSteps)) \in Nat \ {0}
  BY PlanStepsPositive, TrainAssumption
<1>3. ASSUME NEW n \in Nat \ {0}
      PROVE  RampSpeeds(t.cur[a], Target(c, a), n) \in Seq(Nat) \ {<<>>}
  <2>1. /\ RampSpeeds(t.cur[a], Target(c, a), n) \in Seq(Nat)
        /\ Len(RampSpeeds(t.cur[a], Target(c, a), n)) = n
    BY <1>1, RampStaysBetween
  <2> QED BY <2>1, EmptySeq
<1>4. ASSUME NEW ramp \in BOOLEAN, NEW todo \in Seq(Nat) \ {<<>>},
             j = NewJob(t.ctx, a, ramp, todo)
      PROVE  j \in Job /\ j.todo # <<>> /\ j.late = 0
  BY <1>4 DEF NewJob, Job, JobPC
<1>5. <<Target(c, a)>> \in Seq(Nat) \ {<<>>}
  BY <1>1
<1>6. \/ j = NewJob(t.ctx, a, TRUE, RampSpeeds(t.cur[a], Target(c, a),
                      PlanSteps(k.accelMs, Steps(k.accelSteps))))
      \/ j = NewJob(t.ctx, a, TRUE, RampSpeeds(t.cur[a], Target(c, a),
                      PlanSteps(k.brakeMs, Steps(k.brakeSteps))))
      \/ j = NewJob(t.ctx, a, FALSE, <<Target(c, a)>>)
  BY DEF Planned
<1> QED BY <1>2, <1>3, <1>4, <1>5, <1>6

\* A step that replaces goroutine j by the members of S.
LEMMA JobStep ==
  ASSUME Inv, NEW j \in jobs, NEW S, JobBecomes(j, S),
         cancelled' = cancelled, \A k \in S : k \in Job /\ JobInv(k)'
  PROVE  /\ jobs' \subseteq Job /\ \A k \in jobs' : k.todo # <<>>
         /\ \A k \in jobs' : JobInv(k)'
<1>1. \A k \in jobs' : k \in Job /\ JobInv(k)'
  BY JobInvStable DEF JobBecomes, Inv, TypeOK
<1>2. \A k \in jobs' : k.todo # <<>>
  BY <1>1 DEF JobInv
<1> QED BY <1>1, <1>2

\* A step in which only read loop c moves, to t.
LEMMA CallerStep ==
  ASSUME Inv, NEW c \in Caller, NEW t \in CallerState, CallerInv(t),
         caller' = [caller EXCEPT ![c] = t]
  PROVE  /\ caller' \in [Caller -> CallerState]
         /\ \A d \in Caller : CallerInv(caller[d])'
<1>1. \A d \in Caller : caller'[d] = IF d = c THEN t ELSE caller[d]
  BY DEF Inv, TypeOK
<1>2. caller' \in [Caller -> CallerState]
  BY DEF Inv, TypeOK
<1>3. \A d \in Caller : CallerInv(caller'[d])
  BY <1>1 DEF Inv
<1> QED BY <1>2, <1>3 DEF CallerInv

LEMMA IdleOK == IdleCaller \in CallerState /\ CallerInv(IdleCaller)
<1>1. 1 \in 1 .. Len(Members) + 1
  BY TrainAssumption, LenProperties
<1> QED BY <1>1 DEF IdleCaller, CallerState, CallerInv

-----------------------------------------------------------------------------
LEMMA InitInv == Init => Inv
<1> SUFFICES ASSUME Init PROVE Inv
  OBVIOUS
<1>1. TypeOK
  BY IdleOK DEF Init, TypeOK, NoCtx
<1>2. \A c \in Caller : CallerInv(caller[c])
  BY IdleOK DEF Init
<1>3. \A j \in jobs : JobInv(j)
  BY DEF Init
<1> QED BY <1>1, <1>2, <1>3 DEF Inv

LEMMA HandleInv ==
  ASSUME Inv, NEW c \in Caller, NEW p \in Payloads, HandleTrainSetSpeed(c, p)
  PROVE  Inv'
<1> DEFINE ctx == Cardinality({k \in Ctx : owner[k] # {}}) + 1
           t == [pc |-> "cancel", ctx |-> ctx, cmd |-> p, cur |-> store,
                 i |-> 1, atStart |-> IsStart(store[Members[1]]), new |-> {}]
<1>0. p \in Nat /\ LimitOf[c] \in Nat
  BY TrainAssumption
<1>1. ctx \in Ctx /\ caller' = [caller EXCEPT ![c] = t]
      /\ owner' = [owner EXCEPT ![ctx] = {c}]
  BY DEF HandleTrainSetSpeed
<1> HIDE DEF ctx
<1>2. IsStart(store[Members[1]]) \in BOOLEAN
  BY DEF IsStart
<1>3. t \in CallerState /\ CallerInv(t)
  <2>1. 1 \in 1 .. Len(Members) + 1
    BY TrainAssumption, LenProperties
  <2>2. store \in [Addr -> Nat]
    BY DEF Inv, TypeOK
  <2>3. t \in CallerState
    BY <1>0, <1>1, <1>2, <2>1, <2>2 DEF CallerState
  <2>4. CallerInv(t)
    BY <1>1 DEF CallerInv
  <2> QED BY <2>3, <2>4
<1> HIDE DEF t
<1>4. caller' \in [Caller -> CallerState] /\ \A d \in Caller : CallerInv(caller[d])'
  BY <1>1, <1>3, CallerStep
<1>5. goal' \in [Addr -> Nat]
  BY <1>0, MemberSpeedNat DEF HandleTrainSetSpeed
<1>6. owner' \in [Ctx -> SUBSET Caller]
  BY <1>1 DEF Inv, TypeOK
<1>7. TypeOK'
  BY <1>4, <1>5, <1>6 DEF Inv, TypeOK, HandleTrainSetSpeed
<1>8. \A j \in jobs' : JobInv(j)'
  BY JobInvStable DEF Inv, HandleTrainSetSpeed
<1> QED BY <1>4, <1>7, <1>8 DEF Inv

LEMMA CancelInv ==
  ASSUME Inv, NEW c \in Caller, CancelTrain(c)
  PROVE  Inv'
<1> DEFINE t == [caller[c] EXCEPT !.pc = "member"]
<1>1. caller' = [caller EXCEPT ![c] = t]
  BY DEF CancelTrain
<1>2. t \in CallerState /\ CallerInv(t)
  <2>1. caller[c] \in CallerState /\ CallerInv(caller[c])
    BY DEF Inv, TypeOK
  <2>2. t \in CallerState
    BY <2>1 DEF CallerState
  <2>3. CallerInv(t)
    BY <2>1 DEF CallerInv, CancelTrain, CallerState
  <2> QED BY <2>2, <2>3
<1> HIDE DEF t
<1>3. caller' \in [Caller -> CallerState] /\ \A d \in Caller : CallerInv(caller[d])'
  BY <1>1, <1>2, CallerStep
<1>4. clean' \in BOOLEAN
  BY DEF CancelTrain
<1>5. TypeOK'
  BY <1>3, <1>4 DEF Inv, TypeOK, CancelTrain
<1>6. \A j \in jobs' : JobInv(j)'
  BY JobInvStable DEF Inv, CancelTrain
<1> QED BY <1>3, <1>5, <1>6 DEF Inv

LEMMA ApplyMemberInv ==
  ASSUME Inv, NEW c \in Caller, ApplyMember(c)
  PROVE  Inv'
<1> DEFINE t == caller[c]
           a == Members[t.i]
           w == WireSpeedFromPayload(Target(c, a))
<1>1. t \in CallerState /\ CallerInv(t) /\ TypeOK
  BY DEF Inv, TypeOK
<1>2. t.i \in 1 .. Len(Members) /\ t.pc = "member" /\ t.ctx \in Ctx
  <2>1. t.i \in 1 .. Len(Members) + 1 /\ t.i <= Len(Members) /\ t.pc = "member"
    BY <1>1 DEF ApplyMember, CallerState
  <2>2. Len(Members) \in Nat
    BY TrainAssumption, LenProperties
  <2> QED BY <1>1, <2>1, <2>2 DEF CallerInv
<1>3. a \in Addr
  BY <1>2, MemberAddr
<1>4. w \in Nat
  BY <1>1, <1>3, TargetNat, WireNat
<1>5. t.i + 1 \in 1 .. Len(Members) + 1
  BY <1>2, TrainAssumption, LenProperties
<1>6. ASSUME NEW n \in CallerState, CallerInv(n), caller' = [caller EXCEPT ![c] = n],
             speed' \in [Addr -> Nat], retries' \subseteq Retry
      PROVE  Inv'
  <2>1. /\ caller' \in [Caller -> CallerState]
        /\ \A d \in Caller : CallerInv(caller[d])'
    BY <1>6, CallerStep
  <2>2. TypeOK'
    BY <1>6, <2>1 DEF Inv, TypeOK, ApplyMember
  <2>3. \A j \in jobs' : JobInv(j)'
    BY JobInvStable DEF Inv, ApplyMember
  <2> QED BY <2>1, <2>2, <2>3 DEF Inv
<1>7. ASSUME /\ Planned(c, a) # {}
             /\ caller' = [caller EXCEPT ![c].new = t.new \cup Planned(c, a),
                                         ![c].i = t.i + 1]
             /\ UNCHANGED <<speed, retries>>
      PROVE  Inv'
  <2> DEFINE n == [t EXCEPT !.new = t.new \cup Planned(c, a), !.i = t.i + 1]
  <2>1. caller' = [caller EXCEPT ![c] = n]
    BY <1>7, <1>1 DEF TypeOK
  <2>2. \A j \in Planned(c, a) : j \in Job /\ j.todo # <<>> /\ j.late = 0
    BY <1>1, <1>2, <1>3, PlannedType
  <2>3. t.new \cup Planned(c, a) \subseteq Job
    BY <1>1, <2>2 DEF CallerState
  <2>4. n \in CallerState
    BY <1>1, <1>5, <2>3 DEF CallerState
  <2>5. /\ n.pc = "member" /\ n.ctx = t.ctx
        /\ n.new = t.new \cup Planned(c, a)
    BY <1>1, <1>2 DEF CallerState
  <2> HIDE DEF n
  <2>6. CallerInv(n)
    BY <1>1, <1>2, <2>2, <2>5 DEF CallerInv
  <2>7. speed' \in [Addr -> Nat] /\ retries' \subseteq Retry
    BY <1>1, <1>7 DEF TypeOK
  <2> QED BY <1>6, <2>1, <2>4, <2>6, <2>7
<1>8. ASSUME NEW o, SetSpeed(a, w, t.ctx, o),
             caller' = IF o.sent THEN [caller EXCEPT ![c].pc = "store"]
                       ELSE [caller EXCEPT ![c].i = t.i + 1]
      PROVE  Inv'
  <2> DEFINE n == IF o.sent THEN [t EXCEPT !.pc = "store"]
                  ELSE [t EXCEPT !.i = t.i + 1]
  <2>1. caller' = [caller EXCEPT ![c] = n]
    BY <1>8
  <2>2. n \in CallerState
    BY <1>1, <1>5 DEF CallerState
  <2>3. CallerInv(n)
    BY <1>1, <1>2 DEF CallerInv, CallerState
  <2>4. speed' \in [Addr -> Nat] /\ retries' \subseteq Retry
    BY <1>1, <1>2, <1>3, <1>4, <1>8, SetSpeedType
  <2> HIDE DEF n
  <2> QED BY <1>6, <2>1, <2>2, <2>3, <2>4
<1> QED BY <1>7, <1>8 DEF ApplyMember

LEMMA StoreMemberInv ==
  ASSUME Inv, NEW c \in Caller, StoreMember(c)
  PROVE  Inv'
<1> DEFINE t == caller[c]
           a == Members[t.i]
           n == [t EXCEPT !.pc = "member", !.i = t.i + 1]
           u == UISpeedFromWire(WireSpeedFromPayload(Target(c, a)))
<1>1. t \in CallerState /\ CallerInv(t) /\ TypeOK
  BY DEF Inv, TypeOK
<1>2. t.i \in 1 .. Len(Members) /\ t.ctx \in Ctx
  <2>1. t.i \in 1 .. Len(Members) + 1 /\ t.i <= Len(Members) /\ t.ctx \in Ctx
    BY <1>1 DEF StoreMember, CallerState, CallerInv
  <2> QED BY <2>1, TrainAssumption, LenProperties
<1>3. a \in Addr
  BY <1>2, MemberAddr
<1>4. u \in Nat
  BY <1>1, <1>3, TargetNat, WireNat
<1>5. store' = [store EXCEPT ![a] = u] /\ caller' = [caller EXCEPT ![c] = n]
  BY DEF StoreMember
<1>6. t.i + 1 \in 1 .. Len(Members) + 1
  BY <1>2, TrainAssumption, LenProperties
<1>7. n \in CallerState
  BY <1>1, <1>6 DEF CallerState
<1>8. CallerInv(n)
  BY <1>1, <1>2 DEF CallerInv, CallerState
<1> HIDE DEF n, u
<1>9. caller' \in [Caller -> CallerState] /\ \A d \in Caller : CallerInv(caller[d])'
  BY <1>5, <1>7, <1>8, CallerStep
<1>10. store' \in [Addr -> Nat]
  BY <1>1, <1>4, <1>5 DEF TypeOK
<1>11. TypeOK'
  BY <1>9, <1>10 DEF Inv, TypeOK, StoreMember
<1>12. \A j \in jobs' : JobInv(j)'
  BY JobInvStable DEF Inv, StoreMember
<1> QED BY <1>9, <1>11, <1>12 DEF Inv

LEMMA ScheduleInv ==
  ASSUME Inv, NEW c \in Caller, ScheduleDelayed(c)
  PROVE  Inv'
<1> DEFINE t == caller[c]
<1>1. t \in CallerState /\ CallerInv(t) /\ t.pc = "member" /\ TypeOK
  BY DEF Inv, TypeOK, ScheduleDelayed
<1>2. pending' \in Ctx \cup {NoCtx}
  BY <1>1 DEF ScheduleDelayed, CallerInv, TypeOK
<1>3. \A j \in t.new : j \in Job /\ j.todo # <<>> /\ j.late = 0
  BY <1>1 DEF CallerState, CallerInv
<1>4. \A j \in jobs' : j \in Job /\ JobInv(j)'
  <2>1. ASSUME NEW j \in t.new PROVE JobInv(j)
    BY <1>3 DEF JobInv
  <2>2. \A j \in jobs' : j \in Job /\ JobInv(j)
    BY <1>1, <1>3, <2>1 DEF ScheduleDelayed, Inv, TypeOK
  <2>3. cancelled \subseteq cancelled'
    BY DEF ScheduleDelayed
  <2> QED BY <2>2, <2>3, JobInvStable
<1>5. caller' = [caller EXCEPT ![c] = IdleCaller]
  BY DEF ScheduleDelayed
<1>6. caller' \in [Caller -> CallerState] /\ \A d \in Caller : CallerInv(caller[d])'
  BY <1>5, IdleOK, CallerStep
<1>7. \A j \in jobs' : j.todo # <<>>
  BY <1>4 DEF JobInv
<1>8. TypeOK'
  BY <1>2, <1>4, <1>6, <1>7 DEF Inv, TypeOK, ScheduleDelayed
<1> QED BY <1>4, <1>6, <1>8 DEF Inv

LEMMA GoroutineInv ==
  ASSUME Inv, NEW j \in jobs, Goroutine(j)
  PROVE  Inv'
<1>1. j \in Job /\ JobInv(j) /\ TypeOK
  BY DEF Inv, TypeOK
<1>2. Head(j.todo) \in Nat /\ j.a \in Addr /\ j.ctx \in Ctx
  <2>1. j.todo \in Seq(Nat) /\ j.todo # <<>> /\ j.a \in Addr /\ j.ctx \in Ctx
    BY <1>1 DEF Job, JobInv
  <2> QED BY <2>1, HeadTailProperties
<1> DEFINE w == WireSpeedFromPayload(Head(j.todo))
<1>3. w \in Nat /\ UISpeedFromWire(w) \in Nat
  BY <1>2, WireNat
<1>4. ASSUME NEW S, JobBecomes(j, S), \A k \in S : k \in Job /\ JobInv(k),
             speed' \in [Addr -> Nat], retries' \subseteq Retry,
             store' \in [Addr -> Nat], clean' \in BOOLEAN,
             UNCHANGED <<pending, cancelled, owner, caller, estopping, phase,
                         toStop, goal>>
      PROVE  Inv'
  <2>1. \A k \in S : k \in Job /\ JobInv(k)'
    BY <1>4, JobInvStable
  <2>2. /\ jobs' \subseteq Job /\ \A k \in jobs' : k.todo # <<>>
        /\ \A k \in jobs' : JobInv(k)'
    BY <1>4, <2>1, JobStep
  <2>3. TypeOK'
    BY <1>1, <1>4, <2>2 DEF TypeOK
  <2>4. \A d \in Caller : CallerInv(caller[d])'
    BY <1>4 DEF Inv, CallerInv
  <2> QED BY <2>2, <2>3, <2>4 DEF Inv
<1>5. CASE DelayElapses(j)
  <2> DEFINE n == [j EXCEPT !.pc = "apply"]
  <2>1. n \in Job /\ JobInv(n)
    <3>1. n \in Job
      BY <1>1 DEF Job, JobPC
    <3>2. JobInv(n)
      BY <1>1, <1>5 DEF JobInv, DelayElapses, Job
    <3> QED BY <3>1, <3>2
  <2>2. JobBecomes(j, IF j.ctx \in cancelled THEN {} ELSE {n})
    BY <1>5 DEF DelayElapses
  <2> HIDE DEF n
  <2>3. /\ speed' \in [Addr -> Nat] /\ retries' \subseteq Retry
        /\ store' \in [Addr -> Nat] /\ clean' \in BOOLEAN
        /\ UNCHANGED <<pending, cancelled, owner, caller, estopping, phase,
                       toStop, goal>>
    BY <1>1, <1>5 DEF DelayElapses, TypeOK
  <2> QED BY <1>4, <2>1, <2>2, <2>3
<1>6. CASE JobApplies(j)
  <2>1. PICK o \in Outcome(w) :
          /\ SetSpeed(j.a, w, j.ctx, o)
          /\ JobBecomes(j, {[j EXCEPT !.pc = IF o.sent THEN "store" ELSE "check",
                                      !.late = IF j.ctx \in cancelled
                                               THEN j.late + 1 ELSE j.late]})
    BY <1>6 DEF JobApplies
  <2> DEFINE l == IF j.ctx \in cancelled THEN j.late + 1 ELSE j.late
             q == IF o.sent THEN "store" ELSE "check"
             n == [j EXCEPT !.pc = q, !.late = l]
  <2>2. j.late = 0
    BY <1>1, <1>6 DEF JobInv, JobApplies
  <2>3. l \in Nat /\ l <= 1 /\ (l # 0 => j.ctx \in cancelled) /\ q \in {"store", "check"}
    BY <2>2
  <2>4. JobBecomes(j, {n})
    BY <2>1
  <2> HIDE DEF l, q
  <2>5. n \in Job
    BY <1>1, <2>3 DEF Job, JobPC
  <2>6. JobInv(n)
    BY <1>1, <2>3 DEF JobInv, Job
  <2> HIDE DEF n
  <2>7. /\ speed' \in [Addr -> Nat] /\ retries' \subseteq Retry
    BY <1>1, <1>2, <1>3, <2>1, SetSpeedType
  <2>8. /\ store' \in [Addr -> Nat]
        /\ UNCHANGED <<pending, cancelled, owner, caller, estopping, phase,
                       toStop, goal>>
    BY <1>1, <1>6 DEF JobApplies, TypeOK
  <2>9. clean' \in BOOLEAN
    BY <1>6 DEF JobApplies
  <2> QED BY <1>4, <2>4, <2>5, <2>6, <2>7, <2>8, <2>9
<1>7. CASE JobStores(j)
  <2> DEFINE n == [j EXCEPT !.pc = "check"]
  <2>1. n \in Job
    BY <1>1 DEF Job, JobPC
  <2>2. JobInv(n)
    BY <1>1, <1>7 DEF JobInv, JobStores, Job
  <2>3. JobBecomes(j, {n})
    BY <1>7 DEF JobStores
  <2> HIDE DEF n
  <2>4. /\ speed' \in [Addr -> Nat] /\ retries' \subseteq Retry /\ clean' \in BOOLEAN
        /\ UNCHANGED <<pending, cancelled, owner, caller, estopping, phase,
                       toStop, goal>>
    BY <1>1, <1>7 DEF JobStores, TypeOK
  <2>5. store' \in [Addr -> Nat]
    BY <1>1, <1>2, <1>3, <1>7 DEF JobStores, TypeOK
  <2> QED BY <1>4, <2>1, <2>2, <2>3, <2>4, <2>5
<1>8. CASE JobChecks(j)
  <2> DEFINE T == Tail(j.todo)
             n == [j EXCEPT !.pc = "apply", !.todo = T]
             go == ~(~j.ramp \/ j.ctx \in cancelled \/ Len(j.todo) = 1)
  <2>1. JobBecomes(j, IF ~j.ramp \/ j.ctx \in cancelled \/ Len(j.todo) = 1
                      THEN {} ELSE {n})
    BY <1>8 DEF JobChecks
  <2>2. ASSUME go PROVE n \in Job /\ JobInv(n)
    <3>1. j.todo \in Seq(Nat) /\ j.todo # <<>> /\ Len(j.todo) # 1
      BY <1>1, <2>2 DEF Job, JobInv
    <3>2. T \in Seq(Nat) /\ Len(T) = Len(j.todo) - 1
      BY <3>1, HeadTailProperties
    <3>3. T # <<>>
      <4>1. Len(j.todo) \in Nat /\ Len(j.todo) # 0 /\ Len(j.todo) - 1 # 0
        BY <3>1, LenProperties, EmptySeq
      <4> QED BY <3>2, <4>1, EmptySeq
    <3> HIDE DEF T
    <3>4. n \in Job
      BY <1>1, <3>2 DEF Job, JobPC
    <3>5. JobInv(n)
      BY <1>1, <2>2, <3>3 DEF JobInv, Job
    <3> QED BY <3>4, <3>5
  <2> HIDE DEF n
  <2>3. /\ speed' \in [Addr -> Nat] /\ retries' \subseteq Retry
        /\ store' \in [Addr -> Nat] /\ clean' \in BOOLEAN
        /\ UNCHANGED <<pending, cancelled, owner, caller, estopping, phase,
                       toStop, goal>>
    BY <1>1, <1>8 DEF JobChecks, TypeOK
  <2>4. CASE go
    <3>1. JobBecomes(j, {n})
      BY <2>1, <2>4
    <3> QED BY <1>4, <2>2, <2>3, <2>4, <3>1
  <2>5. CASE ~go
    <3>1. JobBecomes(j, {})
      BY <2>1, <2>5
    <3> QED BY <1>4, <2>3, <3>1
  <2> QED BY <2>4, <2>5
<1> QED BY <1>5, <1>6, <1>7, <1>8 DEF Goroutine

LEMMA RetryInv ==
  ASSUME Inv, NEW r \in retries, RetrySetSpeed(r)
  PROVE  Inv'
<1>1. r \in Retry /\ TypeOK
  BY DEF Inv, TypeOK
<1>2. speed' \in [Addr -> Nat]
  <2>1. r.a \in Addr /\ r.wire \in Nat /\ speed \in [Addr -> Nat]
    BY <1>1 DEF Retry, TypeOK
  <2>2. speed' = [speed EXCEPT ![r.a] = r.wire] \/ speed' = speed
    BY DEF RetrySetSpeed
  <2> QED BY <2>1, <2>2
<1>3. ASSUME r.left > 1 PROVE [r EXCEPT !.left = r.left - 1] \in Retry
  BY <1>1, <1>3 DEF Retry
<1>4. retries' \subseteq Retry
  BY <1>1, <1>3 DEF RetrySetSpeed, TypeOK
<1>5. TypeOK'
  BY <1>2, <1>4 DEF Inv, TypeOK, RetrySetSpeed
<1>6. \A j \in jobs' : JobInv(j)'
  BY JobInvStable DEF Inv, RetrySetSpeed
<1>7. \A d \in Caller : CallerInv(caller[d])'
  BY DEF Inv, CallerInv, RetrySetSpeed
<1> QED BY <1>5, <1>6, <1>7 DEF Inv

LEMMA EnvironmentInv ==
  ASSUME Inv, Environment
  PROVE  Inv'
<1>1. ASSUME NEW a \in Addr, EStopStation(a) PROVE Inv'
  <2>1. speed' \in [Addr -> Nat] /\ estopping' \subseteq Addr
    <3>1. speed \in [Addr -> Nat] /\ estopping \subseteq Addr
      BY DEF Inv, TypeOK
    <3>2. \/ speed' = [speed EXCEPT ![a] = 1] /\ estopping' = estopping \cup {a}
          \/ speed' = speed /\ estopping' = estopping
      BY <1>1 DEF EStopStation
    <3> QED BY <3>1, <3>2
  <2>2. TypeOK'
    BY <1>1, <2>1 DEF EStopStation, Inv, TypeOK
  <2> QED BY <1>1, <2>2, JobInvStable DEF EStopStation, Inv, CallerInv
<1>2. ASSUME NEW a \in Addr, EStopStore(a) PROVE Inv'
  BY <1>2, JobInvStable DEF EStopStore, Inv, TypeOK, CallerInv
<1>3. ASSUME NEW a \in Addr, ShutdownStops(a) PROVE Inv'
  BY <1>3, JobInvStable DEF ShutdownStops, Inv, TypeOK, CallerInv
<1>4. ASSUME NEW c \in Caller, SessionEnds(c) PROVE Inv'
  BY <1>4, JobInvStable DEF SessionEnds, Inv, TypeOK, CallerInv
<1>5. CASE ShutdownCancels
  <2>1. cancelled' \subseteq Ctx /\ cancelled \subseteq cancelled'
        /\ pending' \in Ctx \cup {NoCtx}
    BY <1>5 DEF ShutdownCancels, Inv, TypeOK
  <2>2. TypeOK'
    BY <1>5, <2>1 DEF ShutdownCancels, Inv, TypeOK
  <2> QED BY <1>5, <2>1, <2>2, JobInvStable DEF ShutdownCancels, Inv, CallerInv
<1> QED BY <1>1, <1>2, <1>3, <1>4, <1>5 DEF Environment

LEMMA StutterInv ==
  ASSUME Inv, UNCHANGED vars
  PROVE  Inv'
<1>1. TypeOK'
  BY DEF Inv, TypeOK, vars
<1>2. \A j \in jobs' : JobInv(j)'
  BY JobInvStable DEF Inv, vars
<1>3. \A c \in Caller : CallerInv(caller[c])'
  BY DEF Inv, CallerInv, vars
<1> QED BY <1>1, <1>2, <1>3 DEF Inv

LEMMA NextInv == Inv /\ [Next]_vars => Inv'
<1> SUFFICES ASSUME Inv, [Next]_vars PROVE Inv'
  OBVIOUS
<1>1. ASSUME NEW c \in Caller, Handler(c) PROVE Inv'
  BY <1>1, CancelInv, ApplyMemberInv, StoreMemberInv, ScheduleInv DEF Handler
<1> QED BY <1>1, HandleInv, GoroutineInv, RetryInv, EnvironmentInv, StutterInv
           DEF Next

LEMMA Invariance == Spec => []Inv
  BY InitInv, NextInv, PTL DEF Spec

\* The scheduler, its goroutines and the read loops keep their types in every
\* execution: a goroutine always has a command left to send, also across
\* failed commands and retries.
THEOREM TypeCorrect == Spec => []TypeOK
<1>1. Inv => TypeOK
  BY DEF Inv
<1> QED BY <1>1, Invariance, PTL

\* For every train and any number of sessions and commands, a delay or ramp
\* that was cancelled sends at most one command more.
THEOREM LateBounded == Spec => []LateAtMostOnce
<1>1. Inv => LateAtMostOnce
  BY DEF Inv, JobInv, LateAtMostOnce
<1> QED BY <1>1, Invariance, PTL

-----------------------------------------------------------------------------
(***************************************************************************)
(* The shape of a ramp.                                                    *)
(***************************************************************************)
LEMMA DivBounds ==
  ASSUME NEW x \in Nat, NEW y \in Nat \ {0}
  PROVE  /\ x \div y \in Nat
         /\ y * (x \div y) <= x /\ x < y * ((x \div y) + 1)
  OBVIOUS

LEMMA Monotone ==
  ASSUME NEW x \in Nat, NEW y \in Nat, x <= y, NEW z \in Nat
  PROVE  z * x <= z * y /\ x * z <= y * z
<1>1. (y - x) * z \in Nat /\ y * z = x * z + (y - x) * z
  OBVIOUS
<1> QED BY <1>1

\* Steps m and more apart in x, and the first number of steps too many.
LEMMA ApartEnough ==
  ASSUME NEW x \in Nat, NEW n \in Nat \ {0}, NEW m \in Nat \ {0}
  PROVE  /\ n <= x \div m => x \div n >= m
         /\ n >= x \div m => x \div (n + 1) < m
<1> DEFINE q == x \div m
           e == x \div n
           f == x \div (n + 1)
<1>1. /\ q \in Nat /\ m * q <= x /\ x < m * (q + 1)
      /\ e \in Nat /\ n * e <= x /\ x < n * (e + 1)
      /\ f \in Nat /\ (n + 1) * f <= x
  BY DivBounds
<1> HIDE DEF q, e, f
<1>2. ASSUME n <= q, e < m PROVE FALSE
  <2>1. n * (e + 1) <= n * m
    BY <1>1, <1>2, Monotone
  <2>2. n * m <= q * m
    BY <1>1, <1>2, Monotone
  <2> QED BY <1>1, <2>1, <2>2
<1>3. ASSUME n >= q, f >= m PROVE FALSE
  <2>1. (n + 1) * m <= (n + 1) * f
    BY <1>1, <1>3, Monotone
  <2>2. (q + 1) * m <= (n + 1) * m
    BY <1>1, <1>3, Monotone
  <2> QED BY <1>1, <2>1, <2>2
<1> QED BY <1>1, <1>2, <1>3 DEF q, e, f

LEMMA PlanStepsShape ==
  ASSUME NEW ms \in Nat, NEW k \in Nat, NEW n, n = PlanSteps(ms, Steps(k))
  PROVE  /\ n = 1 \/ ms \div n >= MinStepMs
         /\ n >= k \/ ms \div (n + 1) < MinStepMs
<1> DEFINE q == ms \div MinStepMs
<1>1. MinStepMs \in Nat \ {0} /\ n \in Nat \ {0}
  BY TrainAssumption, PlanStepsPositive
<1>2. q \in Nat
  BY <1>1, DivBounds
<1> HIDE DEF q
<1>3. /\ n = 1 \/ n <= q
      /\ n >= k \/ n >= q
  BY <1>1, <1>2 DEF PlanSteps, Steps, Least, Greatest, q
<1> QED BY <1>1, <1>3, ApartEnough DEF q

\* A ramp from cur to target over ms in at most k steps, as RampShape has it.
Ramped(todo, cur, target, ms, k) ==
  LET n == Len(todo)
  IN  /\ n \in Nat \ {0} /\ todo[n] = target
      /\ n = 1 \/ ms \div n >= MinStepMs
      /\ n >= k \/ ms \div (n + 1) < MinStepMs
      /\ \A i \in 1 .. n : LET before == IF i = 1 THEN cur ELSE todo[i - 1]
                           IN  IF target > cur
                               THEN before <= todo[i] /\ todo[i] <= target
                               ELSE before >= todo[i] /\ todo[i] >= target

LEMMA RampRamped ==
  ASSUME NEW cur \in Nat, NEW target \in Nat, NEW ms \in Nat, NEW k \in Nat
  PROVE  Ramped(RampSpeeds(cur, target, PlanSteps(ms, Steps(k))),
                cur, target, ms, k)
<1> DEFINE n == PlanSteps(ms, Steps(k))
           r == RampSpeeds(cur, target, n)
<1>1. n \in Nat \ {0}
  BY PlanStepsPositive
<1>2. /\ n = 1 \/ ms \div n >= MinStepMs
      /\ n >= k \/ ms \div (n + 1) < MinStepMs
  BY PlanStepsShape
<1> HIDE DEF n
<1>3. /\ r \in Seq(Nat) /\ Len(r) = n /\ r[n] = target
      /\ cur <= target =>
           \A i \in 1 .. n : /\ cur <= r[i] /\ r[i] <= target
                             /\ i > 1 => r[i - 1] <= r[i]
      /\ target <= cur =>
           \A i \in 1 .. n : /\ target <= r[i] /\ r[i] <= cur
                             /\ i > 1 => r[i] <= r[i - 1]
  BY <1>1, RampStaysBetween
<1> HIDE DEF r
<1>4. \A i \in 1 .. n : i = 1 \/ i > 1
  BY <1>1
<1>5. \A i \in 1 .. n : r[i] \in Nat /\ (i > 1 => r[i - 1] \in Nat)
  BY <1>1, <1>3
<1>6. \A i \in 1 .. n : LET before == IF i = 1 THEN cur ELSE r[i - 1]
                        IN  IF target > cur
                            THEN before <= r[i] /\ r[i] <= target
                            ELSE before >= r[i] /\ r[i] >= target
  BY <1>3, <1>4, <1>5
<1>7. Ramped(r, cur, target, ms, k)
  BY <1>1, <1>2, <1>3, <1>6 DEF Ramped
<1> QED BY <1>7 DEF r, n

\* The one goroutine Apply plans for a member.
LEMMA PlannedFacts ==
  ASSUME TypeOK, NEW c \in Caller, NEW a \in Addr, NEW j \in Planned(c, a)
  PROVE  /\ Planned(c, a) = {j}
         /\ j.a = a /\ j.ctx = caller[c].ctx /\ j.pc \in {"apply", "sleep"}
         /\ j.todo[Len(j.todo)] = Target(c, a)
         /\ ~j.ramp => Len(j.todo) = 1
         /\ j.ramp => LET up == Target(c, a) > caller[c].cur[a]
                      IN  Ramped(j.todo, caller[c].cur[a], Target(c, a),
                                 IF up THEN Cfg[a].accelMs ELSE Cfg[a].brakeMs,
                                 IF up THEN Cfg[a].accelSteps ELSE Cfg[a].brakeSteps)
<1> DEFINE t == caller[c]
           k == Cfg[a]
           cur == t.cur[a]
           target == Target(c, a)
           R(todo) == NewJob(t.ctx, a, TRUE, todo)
           D(todo) == NewJob(t.ctx, a, FALSE, todo)
           up == RampSpeeds(cur, target, PlanSteps(k.accelMs, Steps(k.accelSteps)))
           down == RampSpeeds(cur, target, PlanSteps(k.brakeMs, Steps(k.brakeSteps)))
<1>1. cur \in Nat /\ target \in Nat
  BY TargetNat DEF TypeOK, CallerState
<1>2. /\ Ramped(up, cur, target, k.accelMs, k.accelSteps)
      /\ Ramped(down, cur, target, k.brakeMs, k.brakeSteps)
  BY <1>1, RampRamped, TrainAssumption
<1>3. \A todo :
        /\ R(todo).a = a /\ R(todo).ctx = t.ctx /\ R(todo).pc = "apply"
        /\ R(todo).todo = todo /\ R(todo).ramp = TRUE
        /\ D(todo).a = a /\ D(todo).ctx = t.ctx /\ D(todo).pc = "sleep"
        /\ D(todo).todo = todo /\ D(todo).ramp = FALSE
  BY DEF NewJob
<1>4. \/ Planned(c, a) = {R(up)} /\ target > cur
      \/ Planned(c, a) = {R(down)} /\ target < cur
      \/ Planned(c, a) = {D(<<target>>)}
      \/ Planned(c, a) = {}
  BY DEF Planned, ShouldApplyAccelRamp, ShouldApplyBrakeRamp
<1>5. Len(<<target>>) = 1 /\ <<target>>[1] = target
  OBVIOUS
<1> HIDE DEF up, down, R, D, target, cur
<1>6. CASE Planned(c, a) = {R(up)} /\ target > cur
  <2>1. /\ j = R(up) /\ j.todo = up /\ j.ramp = TRUE
        /\ j.a = a /\ j.ctx = t.ctx /\ j.pc \in {"apply", "sleep"}
    BY <1>3, <1>6
  <2>2. up[Len(up)] = target
    BY <1>2 DEF Ramped
  <2> QED BY <1>2, <1>6, <2>1, <2>2 DEF cur, target
<1>7. CASE Planned(c, a) = {R(down)} /\ target < cur
  <2>1. /\ j = R(down) /\ j.todo = down /\ j.ramp = TRUE
        /\ j.a = a /\ j.ctx = t.ctx /\ j.pc \in {"apply", "sleep"}
    BY <1>3, <1>7
  <2>2. down[Len(down)] = target /\ ~(target > cur)
    BY <1>1, <1>2, <1>7 DEF Ramped
  <2> QED BY <1>2, <1>7, <2>1, <2>2 DEF cur, target
<1>8. CASE Planned(c, a) = {D(<<target>>)}
  <2>1. /\ j = D(<<target>>) /\ j.todo = <<target>> /\ j.ramp = FALSE
        /\ j.a = a /\ j.ctx = t.ctx /\ j.pc \in {"apply", "sleep"}
    BY <1>3, <1>8
  <2> QED BY <1>5, <1>8, <2>1 DEF target
<1> QED BY <1>4, <1>6, <1>7, <1>8

\* What a read loop has planned it planned for members it has passed, from the
\* speeds it read and its command.
Plans ==
  \A c \in Caller : \A j \in caller[c].new :
    /\ j.a \in Addr /\ j \in Planned(c, j.a)
    /\ \E k \in 1 .. caller[c].i - 1 : j.a = Members[k]

LEMMA PlansShape == TypeOK /\ Plans => RampShape
<1> SUFFICES ASSUME TypeOK, Plans, NEW c \in Caller, NEW j \in caller[c].new, j.ramp
             PROVE  LET n == Len(j.todo)
                        target == Target(c, j.a)
                        cur == caller[c].cur[j.a]
                        ms == IF target > cur THEN Cfg[j.a].accelMs
                              ELSE Cfg[j.a].brakeMs
                        k == IF target > cur THEN Cfg[j.a].accelSteps
                             ELSE Cfg[j.a].brakeSteps
                    IN  Ramped(j.todo, cur, target, ms, k)
  BY DEF RampShape, Ramped
<1>1. j.a \in Addr /\ j \in Planned(c, j.a)
  BY DEF Plans
<1> QED BY <1>1, PlannedFacts

\* The plan of a member depends on the command and the speeds that were read.
LEMMA PlannedSame ==
  ASSUME NEW c, NEW a,
         /\ caller'[c].ctx = caller[c].ctx /\ caller'[c].cmd = caller[c].cmd
         /\ caller'[c].cur = caller[c].cur
         /\ caller'[c].atStart = caller[c].atStart
  PROVE  Planned(c, a)' = Planned(c, a) /\ Target(c, a)' = Target(c, a)
  BY DEF Planned, Target

-----------------------------------------------------------------------------
(***************************************************************************)
(* What the steps of a read loop do to its own state.                      *)
(***************************************************************************)
SameCommand(c) ==
  /\ caller'[c].ctx = caller[c].ctx /\ caller'[c].cmd = caller[c].cmd
  /\ caller'[c].cur = caller[c].cur /\ caller'[c].atStart = caller[c].atStart

OnlyCaller(c) == \A d \in Caller \ {c} : caller'[d] = caller[d]

LEMMA CallerAlone ==
  ASSUME TypeOK, NEW c \in Caller, NEW t, caller' = [caller EXCEPT ![c] = t]
  PROVE  OnlyCaller(c) /\ caller'[c] = t
  BY DEF TypeOK, OnlyCaller

LEMMA HandleFacts ==
  ASSUME Inv, NEW c \in Caller, NEW p \in Payloads, HandleTrainSetSpeed(c, p)
  PROVE  /\ OnlyCaller(c)
         /\ caller'[c].pc = "cancel" /\ caller'[c].new = {} /\ caller'[c].i = 1
         /\ caller'[c].ctx = Cardinality({k \in Ctx : owner[k] # {}}) + 1
         /\ caller'[c].ctx \in Ctx
         /\ owner' = [owner EXCEPT ![caller'[c].ctx] = {c}]
         /\ \A a \in Addr : goal'[a] = Target(c, a)'
<1> DEFINE ctx == Cardinality({k \in Ctx : owner[k] # {}}) + 1
           t == [pc |-> "cancel", ctx |-> ctx, cmd |-> p, cur |-> store,
                 i |-> 1, atStart |-> IsStart(store[Members[1]]), new |-> {}]
<1>1. ctx \in Ctx /\ caller' = [caller EXCEPT ![c] = t]
      /\ owner' = [owner EXCEPT ![ctx] = {c}]
  BY DEF HandleTrainSetSpeed
<1> HIDE DEF ctx
<1>2. /\ t.pc = "cancel" /\ t.new = {} /\ t.i = 1 /\ t.ctx = ctx /\ t.cmd = p
  OBVIOUS
<1> HIDE DEF t
<1>3. OnlyCaller(c) /\ caller'[c] = t
  BY <1>1, CallerAlone DEF Inv
<1>4. \A a \in Addr : goal'[a] = Target(c, a)'
  BY <1>2, <1>3 DEF HandleTrainSetSpeed, Target
<1> QED BY <1>1, <1>2, <1>3, <1>4 DEF ctx

LEMMA CancelFacts ==
  ASSUME Inv, NEW c \in Caller, CancelTrain(c)
  PROVE  /\ OnlyCaller(c) /\ SameCommand(c)
         /\ caller[c].pc = "cancel" /\ caller'[c].pc = "member"
         /\ caller'[c].new = caller[c].new /\ caller'[c].i = caller[c].i
<1> DEFINE t == [caller[c] EXCEPT !.pc = "member"]
<1>1. caller[c] \in CallerState /\ caller' = [caller EXCEPT ![c] = t]
  BY DEF CancelTrain, Inv, TypeOK
<1>2. /\ t.pc = "member" /\ t.new = caller[c].new /\ t.i = caller[c].i
      /\ t.ctx = caller[c].ctx /\ t.cmd = caller[c].cmd
      /\ t.cur = caller[c].cur /\ t.atStart = caller[c].atStart
  BY <1>1 DEF CallerState
<1> HIDE DEF t
<1>3. OnlyCaller(c) /\ caller'[c] = t
  BY <1>1, CallerAlone DEF Inv
<1> QED BY <1>2, <1>3 DEF SameCommand, CancelTrain

LEMMA ApplyFacts ==
  ASSUME Inv, NEW c \in Caller, ApplyMember(c)
  PROVE  /\ OnlyCaller(c) /\ SameCommand(c) /\ caller[c].pc = "member"
         /\ caller[c].i \in 1 .. Len(Members)
         /\ LET a == Members[caller[c].i]
            IN  \/ /\ caller'[c].pc = "member" /\ caller'[c].i = caller[c].i + 1
                   /\ caller'[c].new = caller[c].new \cup Planned(c, a)
                   /\ Planned(c, a) # {} /\ UNCHANGED <<speed, retries, clean>>
                \/ /\ caller'[c].pc = "store" /\ caller'[c].i = caller[c].i
                   /\ caller'[c].new = caller[c].new
                   /\ speed' = [speed EXCEPT ![a] =
                                  WireSpeedFromPayload(Target(c, a))]
                   /\ clean' => clean /\ retries' = retries
                \/ /\ caller'[c].pc = "member" /\ caller'[c].i = caller[c].i + 1
                   /\ caller'[c].new = caller[c].new /\ ~clean'
<1> DEFINE t == caller[c]
           a == Members[t.i]
           P == Planned(c, a)
           w == WireSpeedFromPayload(Target(c, a))
           n1 == [t EXCEPT !.new = t.new \cup P, !.i = t.i + 1]
           n2 == [t EXCEPT !.pc = "store"]
           n3 == [t EXCEPT !.i = t.i + 1]
<1>1. t \in CallerState /\ TypeOK /\ t.pc = "member" /\ t.i <= Len(Members)
  BY DEF Inv, TypeOK, ApplyMember
<1>2. t.i \in 1 .. Len(Members)
  BY <1>1, TrainAssumption, LenProperties DEF CallerState
<1>3. \/ caller' = [caller EXCEPT ![c] = n1] /\ P # {} /\ UNCHANGED <<speed, retries, clean>>
      \/ \E o : /\ SetSpeed(a, w, t.ctx, o) /\ o.sent \in BOOLEAN
                /\ caller' = IF o.sent THEN [caller EXCEPT ![c] = n2]
                             ELSE [caller EXCEPT ![c] = n3]
                /\ clean' = (clean /\ o.sent /\ ~o.retry)
  <2>1. CASE P # {}
    BY <1>1, <2>1 DEF ApplyMember, TypeOK
  <2>2. CASE P = {}
    BY <1>1, <2>2 DEF ApplyMember, TypeOK, Outcome
  <2> QED BY <2>1, <2>2
<1> HIDE DEF P
<1>4. /\ n1.pc = "member" /\ n1.new = t.new \cup P /\ n1.i = t.i + 1
      /\ n1.ctx = t.ctx /\ n1.cmd = t.cmd /\ n1.cur = t.cur /\ n1.atStart = t.atStart
      /\ n2.pc = "store" /\ n2.new = t.new /\ n2.i = t.i
      /\ n2.ctx = t.ctx /\ n2.cmd = t.cmd /\ n2.cur = t.cur /\ n2.atStart = t.atStart
      /\ n3.pc = "member" /\ n3.new = t.new /\ n3.i = t.i + 1
      /\ n3.ctx = t.ctx /\ n3.cmd = t.cmd /\ n3.cur = t.cur /\ n3.atStart = t.atStart
  BY <1>1 DEF CallerState
<1> HIDE DEF n1, n2, n3
<1>5. CASE caller' = [caller EXCEPT ![c] = n1] /\ P # {} /\ UNCHANGED <<speed, retries, clean>>
  <2>1. OnlyCaller(c) /\ caller'[c] = n1
    BY <1>1, <1>5, CallerAlone
  <2> QED BY <1>1, <1>2, <1>4, <1>5, <2>1 DEF SameCommand, P
<1>6. ASSUME NEW o, SetSpeed(a, w, t.ctx, o), o.sent,
             caller' = [caller EXCEPT ![c] = n2],
             clean' = (clean /\ o.sent /\ ~o.retry)
      PROVE  /\ OnlyCaller(c) /\ SameCommand(c) /\ caller'[c] = n2
             /\ speed' = [speed EXCEPT ![a] = w]
             /\ clean' => clean /\ retries' = retries
  <2>1. OnlyCaller(c) /\ caller'[c] = n2
    BY <1>1, <1>6, CallerAlone
  <2>2. speed' = [speed EXCEPT ![a] = w] /\ (~o.retry => retries' = retries)
    BY <1>6 DEF SetSpeed
  <2> QED BY <1>4, <1>6, <2>1, <2>2 DEF SameCommand
<1>7. ASSUME NEW o, ~o.sent, caller' = [caller EXCEPT ![c] = n3],
             clean' = (clean /\ o.sent /\ ~o.retry)
      PROVE  OnlyCaller(c) /\ SameCommand(c) /\ caller'[c] = n3 /\ ~clean'
  <2>1. OnlyCaller(c) /\ caller'[c] = n3
    BY <1>1, <1>7, CallerAlone
  <2> QED BY <1>4, <1>7, <2>1 DEF SameCommand
<1>8. \/ /\ OnlyCaller(c) /\ SameCommand(c) /\ caller'[c] = n2
         /\ speed' = [speed EXCEPT ![a] = w]
         /\ clean' => clean /\ retries' = retries
      \/ OnlyCaller(c) /\ SameCommand(c) /\ caller'[c] = n3 /\ ~clean'
      \/ caller' = [caller EXCEPT ![c] = n1] /\ P # {} /\ UNCHANGED <<speed, retries, clean>>
  BY <1>3, <1>6, <1>7
<1> QED BY <1>1, <1>2, <1>4, <1>5, <1>8

LEMMA StoreFacts ==
  ASSUME Inv, NEW c \in Caller, StoreMember(c)
  PROVE  /\ OnlyCaller(c) /\ SameCommand(c) /\ caller[c].pc = "store"
         /\ caller[c].i \in 1 .. Len(Members)
         /\ caller'[c].pc = "member" /\ caller'[c].i = caller[c].i + 1
         /\ caller'[c].new = caller[c].new
<1> DEFINE t == caller[c]
           n == [t EXCEPT !.pc = "member", !.i = t.i + 1]
<1>1. t \in CallerState /\ CallerInv(t) /\ TypeOK /\ t.pc = "store"
  BY DEF Inv, TypeOK, StoreMember
<1>2. t.i \in 1 .. Len(Members)
  BY <1>1, TrainAssumption, LenProperties DEF CallerState, CallerInv
<1>3. /\ n.pc = "member" /\ n.new = t.new /\ n.i = t.i + 1
      /\ n.ctx = t.ctx /\ n.cmd = t.cmd /\ n.cur = t.cur /\ n.atStart = t.atStart
  BY <1>1 DEF CallerState
<1>4. caller' = [caller EXCEPT ![c] = n]
  BY DEF StoreMember
<1> HIDE DEF n
<1>5. OnlyCaller(c) /\ caller'[c] = n
  BY <1>1, <1>4, CallerAlone
<1> QED BY <1>1, <1>2, <1>3, <1>5 DEF SameCommand

LEMMA ScheduleFacts ==
  ASSUME Inv, NEW c \in Caller, ScheduleDelayed(c)
  PROVE  /\ OnlyCaller(c) /\ caller[c].pc = "member"
         /\ caller[c].i = Len(Members) + 1
         /\ caller'[c].pc = "idle" /\ caller'[c].new = {}
<1>1. caller[c] \in CallerState /\ TypeOK
  BY DEF Inv, TypeOK
<1>2. caller[c].i = Len(Members) + 1
  BY <1>1, TrainAssumption, LenProperties DEF ScheduleDelayed, CallerState
<1>3. OnlyCaller(c) /\ caller'[c] = IdleCaller
  BY <1>1, CallerAlone DEF ScheduleDelayed
<1> QED BY <1>2, <1>3 DEF IdleCaller, ScheduleDelayed

\* A read loop keeps what it planned, and plans for the members it passes.
LEMMA PlansGrow ==
  ASSUME Inv, Plans, NEW c \in Caller, OnlyCaller(c), SameCommand(c),
         caller'[c].i >= caller[c].i,
         \A j \in caller'[c].new : j \in caller[c].new \/
           /\ j.a \in Addr /\ j \in Planned(c, j.a)
           /\ \E k \in 1 .. caller'[c].i - 1 : j.a = Members[k],
         caller'[c].i \in Nat
  PROVE  Plans'
<1> SUFFICES ASSUME NEW d \in Caller, NEW j \in caller'[d].new
             PROVE  /\ j.a \in Addr /\ j \in Planned(d, j.a)'
                    /\ \E k \in 1 .. caller'[d].i - 1 : j.a = Members[k]
  BY DEF Plans, Addr
<1>1. caller[c].i \in Nat /\ caller[d].i \in Nat
  BY TrainAssumption, LenProperties, SMTT(30) DEF Inv, TypeOK, CallerState
<1>2. CASE d # c
  <2>1. caller'[d] = caller[d]
    BY <1>2 DEF OnlyCaller
  <2>2. Planned(d, j.a)' = Planned(d, j.a)
    BY <2>1, PlannedSame
  <2> QED BY <2>1, <2>2 DEF Plans
<1>3. CASE d = c
  <2>1. Planned(c, j.a)' = Planned(c, j.a)
    BY PlannedSame DEF SameCommand
  <2>2. j \in caller[c].new =>
          /\ j.a \in Addr /\ j \in Planned(c, j.a)
          /\ \E k \in 1 .. caller[c].i - 1 : j.a = Members[k]
    BY DEF Plans
  <2>3. \A k \in 1 .. caller[c].i - 1 : k \in 1 .. caller'[c].i - 1
    BY <1>1
  <2> QED BY <1>3, <2>1, <2>2, <2>3
<1> QED BY <1>2, <1>3

LEMMA PlansCleared ==
  ASSUME Plans, NEW c \in Caller, OnlyCaller(c), caller'[c].new = {}
  PROVE  Plans'
<1> SUFFICES ASSUME NEW d \in Caller, NEW j \in caller'[d].new
             PROVE  /\ j.a \in Addr /\ j \in Planned(d, j.a)'
                    /\ \E k \in 1 .. caller'[d].i - 1 : j.a = Members[k]
  BY DEF Plans, Addr
<1>1. d # c
  OBVIOUS
<1>2. caller'[d] = caller[d]
  BY <1>1 DEF OnlyCaller
<1>3. Planned(d, j.a)' = Planned(d, j.a)
  BY <1>2, PlannedSame
<1> QED BY <1>2, <1>3 DEF Plans

LEMMA PlansSame == Plans /\ UNCHANGED caller => Plans'
<1> SUFFICES ASSUME Plans, UNCHANGED caller PROVE Plans'
  OBVIOUS
<1>1. \A c \in Caller : \A a : Planned(c, a)' = Planned(c, a)
  BY PlannedSame
<1> QED BY <1>1 DEF Plans, Addr

LEMMA HandlerPlans ==
  ASSUME Inv, Plans, NEW c \in Caller, Handler(c)
  PROVE  Plans'
<1>1. CASE CancelTrain(c)
  <2>1. /\ OnlyCaller(c) /\ SameCommand(c)
        /\ caller'[c].new = caller[c].new /\ caller'[c].i = caller[c].i
    BY <1>1, CancelFacts
  <2>2. caller[c].i \in Nat
    BY TrainAssumption, LenProperties DEF Inv, TypeOK, CallerState
  <2> QED BY <2>1, <2>2, PlansGrow
<1>2. CASE ApplyMember(c)
  <2> DEFINE i == caller[c].i
             a == Members[i]
  <2>1. /\ OnlyCaller(c) /\ SameCommand(c) /\ i \in 1 .. Len(Members)
        /\ caller'[c].i \in {i, i + 1}
        /\ \/ caller'[c].new = caller[c].new
           \/ caller'[c].new = caller[c].new \cup Planned(c, a) /\ caller'[c].i = i + 1
    BY <1>2, ApplyFacts
  <2>2. i \in Nat \ {0} /\ a \in Addr
    BY <2>1, TrainAssumption, LenProperties DEF Addr
  <2>3. \A j \in Planned(c, a) : j.a = a
    BY <2>2, PlannedFacts DEF Inv
  <2> HIDE DEF i
  <2>4. i \in 1 .. (i + 1) - 1
    BY <2>2
  <2>5. \A j \in caller'[c].new : j \in caller[c].new \/
          /\ j.a \in Addr /\ j \in Planned(c, j.a)
          /\ \E k \in 1 .. caller'[c].i - 1 : j.a = Members[k]
    BY <2>1, <2>2, <2>3, <2>4
  <2>6. caller'[c].i \in Nat /\ caller'[c].i >= i
    BY <2>1, <2>2
  <2> QED BY <2>1, <2>5, <2>6, PlansGrow DEF i
<1>3. CASE StoreMember(c)
  <2>1. /\ OnlyCaller(c) /\ SameCommand(c)
        /\ caller'[c].new = caller[c].new /\ caller'[c].i = caller[c].i + 1
    BY <1>3, StoreFacts
  <2>2. caller[c].i \in Nat
    BY TrainAssumption, LenProperties DEF Inv, TypeOK, CallerState
  <2>3. caller'[c].i >= caller[c].i /\ caller'[c].i \in Nat
    BY <2>1, <2>2
  <2> QED BY <2>1, <2>3, PlansGrow
<1>4. CASE ScheduleDelayed(c)
  BY <1>4, ScheduleFacts, PlansCleared
<1> QED BY <1>1, <1>2, <1>3, <1>4 DEF Handler

LEMMA NextPlans == Inv /\ Plans /\ [Next]_vars => Plans'
<1> SUFFICES ASSUME Inv, Plans, [Next]_vars PROVE Plans'
  OBVIOUS
<1>1. ASSUME NEW c \in Caller, Handler(c) PROVE Plans'
  BY <1>1, HandlerPlans
<1>2. ASSUME NEW c \in Caller, NEW p \in Payloads, HandleTrainSetSpeed(c, p)
      PROVE  Plans'
  BY <1>2, HandleFacts, PlansCleared
<1>3. ASSUME NEW j \in jobs, Goroutine(j) PROVE Plans'
  BY <1>3, PlansSame DEF Goroutine, DelayElapses, JobApplies, JobStores, JobChecks
<1>4. ASSUME NEW r \in retries, RetrySetSpeed(r) PROVE Plans'
  BY <1>4, PlansSame DEF RetrySetSpeed
<1>5. CASE Environment
  BY <1>5, PlansSame DEF Environment, EStopStation, EStopStore, ShutdownStops,
     SessionEnds, ShutdownCancels
<1>6. CASE UNCHANGED vars
  BY <1>6, PlansSame DEF vars
<1> QED BY <1>1, <1>2, <1>3, <1>4, <1>5, <1>6 DEF Next

\* Every ramp that Apply plans, for any number of sessions that drive the
\* train at once, moves towards its target and never past it, ends there and
\* has as many steps as fit MinSpeedRampStepMs apart (planSpeedRampIntervals).
THEOREM RampsKeepShape == Spec => []RampShape
<1>1. Init => Plans
  BY DEF Init, Plans, IdleCaller
<1>2. Inv /\ Plans => RampShape
  BY PlansShape DEF Inv
<1> QED BY <1>1, <1>2, NextPlans, Invariance, PTL DEF Spec

-----------------------------------------------------------------------------
(***************************************************************************)
(* Contexts.  From here on one session at a time drives the train.         *)
(***************************************************************************)
Single == \A c, d \in Caller : c = d

\* The contexts that were made: a command takes the next number.
Used == {k \in Ctx : owner[k] # {}}

\* What the read loop c has of a command it is working on: a context that is
\* neither done nor registered, nothing registered once CancelTrain ran, and
\* the goals of the members.
Commanding(c) ==
  /\ caller[c].pc # "idle" =>
       /\ caller[c].ctx \in Used \ cancelled /\ caller[c].ctx # pending
       /\ \A a \in Addr : goal[a] = Target(c, a)
  /\ caller[c].pc \in {"member", "store"} => pending = NoCtx
  /\ caller[c].pc = "cancel" => caller[c].new = {} /\ caller[c].i = 1

Contexts ==
  /\ \E m \in 0 .. MaxCommands : Used = 1 .. m
  /\ cancelled \subseteq Used /\ pending \in Used \cup {NoCtx}
  /\ Cancellable
  /\ \A c \in Caller : Commanding(c)

LEMMA FreshContext ==
  ASSUME Inv, Contexts, NEW c, NEW ctx \in Ctx, ctx = Cardinality(Used) + 1,
         owner' = [owner EXCEPT ![ctx] = {c}]
  PROVE  /\ ctx \notin Used /\ ctx \in Used' /\ Used \subseteq Used'
         /\ \E m \in 0 .. MaxCommands : Used' = 1 .. m
<1>1. PICK m \in 0 .. MaxCommands : Used = 1 .. m
  BY DEF Contexts
<1>2. Cardinality(1 .. m) = m /\ m \in Nat
  <2>1. m \in Nat /\ 1 \in Int /\ m \in Int
    BY TrainAssumption
  <2>2. Cardinality(1 .. m) = IF 1 > m THEN 0 ELSE m - 1 + 1
    BY <2>1, FS_Interval
  <2> QED BY <2>1, <2>2
<1>3. ctx = m + 1 /\ ctx <= MaxCommands
  BY <1>1, <1>2, TrainAssumption DEF Ctx
<1>4. ctx \notin Used
  BY <1>1, <1>2, <1>3
<1>5. Used' = Used \cup {ctx}
  BY DEF Used, Inv, TypeOK
<1>6. Used' = 1 .. (m + 1) /\ m + 1 \in 0 .. MaxCommands
  BY <1>1, <1>2, <1>3, <1>5, TrainAssumption
<1> QED BY <1>4, <1>5, <1>6

LEMMA CtxPositive == NoCtx \notin Ctx /\ Used \subseteq Ctx
  BY TrainAssumption DEF NoCtx, Ctx, Used

\* The goroutines keep their contexts.
LEMMA CancellableKept ==
  ASSUME Cancellable, cancelled \subseteq cancelled',
         pending \in cancelled' \/ pending' = pending,
         \A j \in jobs' : \E k \in jobs : j.ctx = k.ctx
  PROVE  Cancellable'
  BY DEF Cancellable

\* Nobody else drives the train.
LEMMA Alone ==
  ASSUME Single, NEW c \in Caller, Commanding(c)'
  PROVE  \A d \in Caller : Commanding(d)'
<1>1. \A d \in Caller : d = c
  BY DEF Single
<1> QED BY <1>1

LEMMA HandleContexts ==
  ASSUME Single, Inv, Contexts, NEW c \in Caller, NEW p \in Payloads,
         HandleTrainSetSpeed(c, p)
  PROVE  Contexts'
<1> DEFINE ctx == caller'[c].ctx
<1>1. /\ caller'[c].pc = "cancel" /\ caller'[c].new = {} /\ caller'[c].i = 1
      /\ ctx = Cardinality(Used) + 1 /\ ctx \in Ctx
      /\ owner' = [owner EXCEPT ![ctx] = {c}]
      /\ \A a \in Addr : goal'[a] = Target(c, a)'
  BY HandleFacts DEF Used
<1> HIDE DEF ctx
<1>2. /\ ctx \notin Used /\ ctx \in Used' /\ Used \subseteq Used'
      /\ \E m \in 0 .. MaxCommands : Used' = 1 .. m
  BY <1>1, FreshContext
<1>3. UNCHANGED <<pending, cancelled, jobs>>
  BY DEF HandleTrainSetSpeed
<1>4. Cancellable'
  BY <1>3 DEF Contexts, Cancellable
<1>5. ctx \notin cancelled' /\ ctx # pending'
  BY <1>1, <1>2, <1>3, CtxPositive DEF Contexts
<1>6. Commanding(c)'
  BY <1>1, <1>2, <1>5 DEF Commanding, ctx
<1>7. cancelled' \subseteq Used' /\ pending' \in Used' \cup {NoCtx}
  BY <1>2, <1>3 DEF Contexts
<1> QED BY <1>2, <1>4, <1>6, <1>7, Alone DEF Contexts

\* A step of the handler c that leaves its command alone.
LEMMA CommandingKept ==
  ASSUME Inv, NEW c \in Caller, Commanding(c), SameCommand(c), caller[c].pc # "idle",
         UNCHANGED <<owner, goal>>, caller[c].ctx \notin cancelled',
         pending' = NoCtx, caller'[c].pc # "cancel"
  PROVE  Commanding(c)'
<1>1. \A a : Target(c, a)' = Target(c, a)
  BY PlannedSame DEF SameCommand
<1>2. caller'[c].ctx = caller[c].ctx /\ Used' = Used
  BY DEF SameCommand, Used
<1> QED BY <1>1, <1>2, CtxPositive DEF Commanding

LEMMA HandlerContexts ==
  ASSUME Single, Inv, Plans, Contexts, NEW c \in Caller, Handler(c)
  PROVE  Contexts'
<1>1. Commanding(c) /\ Used' = Used
  BY DEF Contexts, Handler, CancelTrain, ApplyMember, StoreMember, ScheduleDelayed, Used
<1>2. CASE CancelTrain(c)
  <2>1. /\ SameCommand(c) /\ caller[c].pc = "cancel" /\ caller'[c].pc = "member"
    BY <1>2, CancelFacts
  <2>2. /\ cancelled' = cancelled \cup ({pending} \ {NoCtx}) /\ pending' = NoCtx
        /\ UNCHANGED <<owner, goal, jobs>>
    BY <1>2 DEF CancelTrain
  <2>3. Commanding(c)'
    BY <1>1, <2>1, <2>2, CommandingKept DEF Commanding
  <2>4. Cancellable'
    <3>1. SUFFICES ASSUME NEW j \in jobs PROVE j.ctx \in cancelled'
      BY <2>2 DEF Cancellable
    <3>2. j.ctx \in Ctx
      BY DEF Inv, TypeOK, Job
    <3> QED BY <2>2, <3>2, CtxPositive DEF Contexts, Cancellable
  <2>5. cancelled' \subseteq Used' /\ pending' \in Used' \cup {NoCtx}
    BY <1>1, <2>2 DEF Contexts
  <2> QED BY <1>1, <2>3, <2>4, <2>5, Alone DEF Contexts
<1>3. CASE ApplyMember(c) \/ StoreMember(c)
  <2>1. /\ SameCommand(c) /\ caller[c].pc \in {"member", "store"}
        /\ caller'[c].pc \in {"member", "store"}
    BY <1>3, ApplyFacts, StoreFacts
  <2>2. UNCHANGED <<owner, goal, jobs, cancelled, pending>>
    BY <1>3 DEF ApplyMember, StoreMember
  <2>3. Commanding(c)'
    BY <1>1, <2>1, <2>2, CommandingKept DEF Commanding
  <2> QED BY <1>1, <2>2, <2>3, Alone DEF Contexts, Cancellable
<1>4. CASE ScheduleDelayed(c)
  <2>1. caller[c].pc = "member" /\ caller'[c].pc = "idle"
    BY <1>4, ScheduleFacts
  <2>2. /\ pending' = IF caller[c].new = {} THEN pending ELSE caller[c].ctx
        /\ jobs' = jobs \cup caller[c].new
        /\ UNCHANGED <<owner, goal, cancelled>>
    BY <1>4 DEF ScheduleDelayed
  <2>3. pending = NoCtx /\ caller[c].ctx \in Used
    BY <1>1, <2>1 DEF Commanding
  <2>4. Commanding(c)'
    BY <2>1 DEF Commanding
  <2>5. Cancellable'
    <3>1. \A j \in jobs : j.ctx \in cancelled
      <4>1. \A j \in jobs : j.ctx \in Ctx
        BY DEF Inv, TypeOK, Job
      <4> QED BY <2>3, <4>1, CtxPositive DEF Contexts, Cancellable
    <3>2. \A j \in caller[c].new : j.ctx = caller[c].ctx
      BY PlannedFacts DEF Plans, Inv
    <3> QED BY <2>2, <3>1, <3>2 DEF Cancellable
  <2> QED BY <1>1, <2>2, <2>3, <2>4, <2>5, Alone DEF Contexts
<1> QED BY <1>2, <1>3, <1>4 DEF Handler

\* What a goroutine becomes: itself at another step, or nothing.
LEMMA GoroutineFacts ==
  ASSUME Inv, NEW j \in jobs, Goroutine(j)
  PROVE  /\ UNCHANGED <<pending, cancelled, owner, caller, estopping, phase, goal>>
         /\ clean' => clean /\ retries' = retries
         /\ \A k \in jobs' : k \in jobs \/ (k.ctx = j.ctx /\ k.a = j.a)
<1>0. j \in Job
  BY DEF Inv, TypeOK
<1>1. CASE DelayElapses(j)
  BY <1>0, <1>1 DEF DelayElapses, JobBecomes, Job
<1>2. CASE JobApplies(j)
  <2>1. PICK o \in Outcome(WireSpeedFromPayload(Head(j.todo))) :
          /\ SetSpeed(j.a, WireSpeedFromPayload(Head(j.todo)), j.ctx, o)
          /\ JobBecomes(j, {[j EXCEPT !.pc = IF o.sent THEN "store" ELSE "check",
                                      !.late = IF j.ctx \in cancelled
                                               THEN j.late + 1 ELSE j.late]})
          /\ clean' = (clean /\ o.sent /\ ~o.retry)
    BY <1>2 DEF JobApplies
  <2>2. clean' => clean /\ retries' = retries
    BY <2>1 DEF SetSpeed
  <2>3. \A k \in jobs' : k \in jobs \/ (k.ctx = j.ctx /\ k.a = j.a)
    BY <1>0, <2>1 DEF JobBecomes, Job
  <2> QED BY <1>2, <2>2, <2>3 DEF JobApplies
<1>3. CASE JobStores(j)
  BY <1>0, <1>3 DEF JobStores, JobBecomes, Job
<1>4. CASE JobChecks(j)
  BY <1>0, <1>4 DEF JobChecks, JobBecomes, Job
<1> QED BY <1>1, <1>2, <1>3, <1>4 DEF Goroutine

\* The read loops work on while others move.
LEMMA CommandingSame ==
  ASSUME NEW c \in Caller, Commanding(c), UNCHANGED <<caller, owner, goal>>,
         caller[c].pc = "idle" \/
           /\ caller[c].ctx \notin cancelled' \ cancelled
           /\ pending' \in {pending, NoCtx}
  PROVE  Commanding(c)'
<1>1. \A a : Target(c, a)' = Target(c, a)
  BY PlannedSame
<1>2. Used' = Used
  BY DEF Used
<1>3. CASE caller[c].pc = "idle"
  BY <1>3 DEF Commanding
<1>4. CASE caller[c].pc # "idle"
  <2>1. caller[c].ctx # NoCtx /\ caller[c].ctx \notin cancelled'
    BY <1>4, CtxPositive DEF Commanding
  <2> QED BY <1>1, <1>2, <1>4, <2>1 DEF Commanding
<1> QED BY <1>3, <1>4

LEMMA OthersContexts ==
  ASSUME Contexts, UNCHANGED <<caller, owner, goal>>,
         \A c \in Caller : caller[c].pc = "idle" \/
           /\ caller[c].ctx \notin cancelled' \ cancelled
           /\ pending' \in {pending, NoCtx},
         cancelled \subseteq cancelled', cancelled' \subseteq Used,
         pending' = pending \/ (pending' = NoCtx /\ pending \in cancelled' \cup {NoCtx}),
         \A j \in jobs' : \E k \in jobs : j.ctx = k.ctx,
         \A j \in jobs : j.ctx \in Ctx
  PROVE  Contexts'
<1>1. \A c \in Caller : Commanding(c)'
  BY CommandingSame DEF Contexts
<1>2. Used' = Used
  BY DEF Used
<1>3. Cancellable'
  BY CtxPositive DEF Contexts, Cancellable
<1> QED BY <1>1, <1>2, <1>3 DEF Contexts

LEMMA NextContexts ==
  ASSUME Single, Inv, Plans, Contexts, [Next]_vars
  PROVE  Contexts'
<1>0. \A j \in jobs : j.ctx \in Ctx
  BY DEF Inv, TypeOK, Job
<1>1. ASSUME NEW c \in Caller, Handler(c) PROVE Contexts'
  BY <1>1, HandlerContexts
<1>2. ASSUME NEW c \in Caller, NEW p \in Payloads, HandleTrainSetSpeed(c, p)
      PROVE  Contexts'
  BY <1>2, HandleContexts
<1>3. ASSUME NEW j \in jobs, Goroutine(j) PROVE Contexts'
  <2>1. /\ UNCHANGED <<pending, cancelled, owner, caller, goal>>
        /\ \A k \in jobs' : k \in jobs \/ k.ctx = j.ctx
    BY <1>3, GoroutineFacts
  <2>2. \A k \in jobs' : \E i \in jobs : k.ctx = i.ctx
    BY <2>1
  <2>3. cancelled' \subseteq Used /\ cancelled' \ cancelled = {}
    BY <2>1 DEF Contexts
  <2> QED BY <1>0, <2>1, <2>2, <2>3, OthersContexts
<1>4. CASE UNCHANGED <<pending, cancelled, owner, caller, goal, jobs>>
  <2>1. cancelled' \subseteq Used /\ cancelled' \ cancelled = {}
    BY <1>4 DEF Contexts
  <2> QED BY <1>0, <1>4, <2>1, OthersContexts
<1>5. ASSUME NEW c \in Caller, SessionEnds(c) PROVE Contexts'
  <2>1. /\ UNCHANGED <<pending, owner, caller, goal, jobs>>
        /\ cancelled \subseteq cancelled' /\ caller[c].pc = "idle"
    BY <1>5 DEF SessionEnds
  <2>2. cancelled' \subseteq Used
    BY <1>5 DEF SessionEnds, Contexts, Used
  <2>3. \A d \in Caller : caller[d].pc = "idle"
    BY <2>1 DEF Single
  <2> QED BY <1>0, <2>1, <2>2, <2>3, OthersContexts
<1>6. CASE ShutdownCancels
  <2>1. /\ UNCHANGED <<owner, caller, goal, jobs>> /\ pending' = NoCtx
        /\ cancelled' = cancelled \cup ({pending} \ {NoCtx})
    BY <1>6 DEF ShutdownCancels
  <2>2. cancelled' \subseteq Used
    BY <2>1 DEF Contexts
  <2>3. \A c \in Caller : caller[c].pc = "idle" \/
          (caller[c].ctx \notin cancelled' \ cancelled /\ pending' \in {pending, NoCtx})
    BY <2>1 DEF Contexts, Commanding
  <2> QED BY <1>0, <2>1, <2>2, <2>3, OthersContexts
<1>7. CASE \E r \in retries : RetrySetSpeed(r)
  BY <1>4, <1>7 DEF RetrySetSpeed
<1>8. CASE \E a \in Addr : EStopStation(a) \/ EStopStore(a) \/ ShutdownStops(a)
  BY <1>4, <1>8 DEF EStopStation, EStopStore, ShutdownStops
<1>9. CASE UNCHANGED vars
  BY <1>4, <1>9 DEF vars
<1> QED BY <1>1, <1>2, <1>3, <1>5, <1>6, <1>7, <1>8, <1>9 DEF Next, Environment

LEMMA ContextsAlways == Single /\ Spec => [](Inv /\ Plans /\ Contexts)
<1> SUFFICES ASSUME Single PROVE Spec => [](Inv /\ Plans /\ Contexts)
  OBVIOUS
<1>1. Init => Plans /\ Contexts
  <2>1. Init => Used = 1 .. 0 /\ 0 \in 0 .. MaxCommands
    BY TrainAssumption DEF Init, Used, Ctx
  <2>2. Init => \A c \in Caller : caller[c].pc = "idle" /\ caller[c].new = {}
    BY DEF Init, IdleCaller
  <2>3. Init => Plans /\ (\A c \in Caller : Commanding(c))
    BY <2>2 DEF Plans, Commanding
  <2>4. Init => cancelled = {} /\ pending = NoCtx /\ jobs = {}
    BY DEF Init
  <2> QED BY <2>1, <2>3, <2>4 DEF Contexts, Cancellable
<1>2. Inv /\ Plans /\ Contexts /\ [Next]_vars => Plans' /\ Contexts'
  BY NextPlans, NextContexts
<1> QED BY <1>1, <1>2, Invariance, PTL DEF Spec

-----------------------------------------------------------------------------
(***************************************************************************)
(* Where a command has got to.                                             *)
(***************************************************************************)

\* The member a has its speed, and the store knows it.
Reached(a) == /\ speed[a] = WireSpeedFromPayload(goal[a])
              /\ store[a] = UISpeedFromWire(speed[a])

\* While nothing went wrong no stop and no retry is under way.
Touched == clean => phase = "up" /\ estopping = {} /\ retries = {}

\* The members the read loop has passed are at their speed or will be ramped.
Passed(c) ==
  \A k \in 1 .. caller[c].i - 1 :
    Reached(Members[k]) \/ \E j \in caller[c].new : j.a = Members[k]

\* Inside Apply no goroutine runs, and a command that was sent is on its way
\* to the store.
Working(c) ==
  clean /\ caller[c].pc \in {"member", "store"} =>
    /\ jobs = {} /\ Passed(c)
    /\ caller[c].pc = "store" =>
         speed[Members[caller[c].i]] =
           WireSpeedFromPayload(goal[Members[caller[c].i]])

\* A goroutine leads to the goal of its member and knows what it has sent.
JobGoal(j) ==
  /\ j.todo[Len(j.todo)] = goal[j.a]
  /\ ~j.ramp => Len(j.todo) = 1
  /\ j.ctx \notin cancelled
  /\ j.pc \in {"store", "check"} =>
       speed[j.a] = WireSpeedFromPayload(Head(j.todo))
  /\ j.pc = "check" => store[j.a] = UISpeedFromWire(speed[j.a])

\* Every member is at its speed or has the one goroutine that leads there.
Underway ==
  /\ \A j \in jobs : JobGoal(j)
  /\ \A j, k \in jobs : j.a = k.a => j = k
  /\ \A a \in Addr : Reached(a) \/ \E j \in jobs : j.a = a

Resting == clean /\ (\A c \in Caller : caller[c].pc = "idle") => Underway

Goals == Touched /\ Resting /\ \A c \in Caller : Working(c)

\* While the read loop is busy only its own progress matters.
LEMMA BusyGoals ==
  ASSUME Single, NEW c \in Caller, Touched', Working(c)', caller'[c].pc # "idle"
  PROVE  Goals'
<1>1. \A d \in Caller : d = c
  BY DEF Single
<1>2. Resting'
  BY DEF Resting
<1> QED BY <1>1, <1>2 DEF Goals

LEMMA LostGoals ==
  ASSUME clean' = FALSE
  PROVE  Goals'
  BY DEF Goals, Touched, Resting, Working

LEMMA HandleGoals ==
  ASSUME Single, Inv, Goals, NEW c \in Caller, NEW p \in Payloads,
         HandleTrainSetSpeed(c, p)
  PROVE  Goals'
<1>1. caller'[c].pc = "cancel"
  BY HandleFacts
<1>2. Working(c)'
  BY <1>1 DEF Working
<1>3. Touched'
  BY DEF HandleTrainSetSpeed, Goals, Touched
<1> QED BY <1>1, <1>2, <1>3, BusyGoals

LEMMA CancelGoals ==
  ASSUME Single, Inv, Contexts, NEW c \in Caller, CancelTrain(c)
  PROVE  Goals'
<1>1. caller'[c].pc = "member" /\ caller'[c].i = 1
  BY CancelFacts DEF Contexts, Commanding
<1>2. clean' => jobs' = {} /\ retries' = {} /\ estopping' = {} /\ phase' = "up"
  BY DEF CancelTrain
<1>3. Passed(c)'
  BY <1>1 DEF Passed
<1>4. Working(c)' /\ Touched'
  BY <1>1, <1>2, <1>3 DEF Working, Touched
<1> QED BY <1>1, <1>4, BusyGoals

\* The members differ, so a command to one leaves the others where they are.
LEMMA ReachedSame ==
  ASSUME NEW a, Reached(a), goal' = goal,
         speed'[a] = speed[a], store'[a] = store[a]
  PROVE  Reached(a)'
  BY DEF Reached

LEMMA PassedOn ==
  ASSUME Inv, NEW c \in Caller, Passed(c), caller[c].i \in 1 .. Len(Members),
         NEW b, b = Members[caller[c].i],
         goal' = goal, caller[c].new \subseteq caller'[c].new,
         \A a \in Addr : a # b => speed'[a] = speed[a] /\ store'[a] = store[a],
         \/ caller'[c].i = caller[c].i
         \/ /\ caller'[c].i = caller[c].i + 1
            /\ Reached(b)' \/ \E j \in caller'[c].new : j.a = b
  PROVE  Passed(c)'
<1> DEFINE i == caller[c].i
<1>1. i \in Nat /\ i <= Len(Members) /\ Len(Members) \in Nat
  BY TrainAssumption, LenProperties
<1>2. \A k \in 1 .. i - 1 : Members[k] \in Addr /\ Members[k] # Members[i]
  <2>1. DOMAIN Members = 1 .. Len(Members) /\ i \in DOMAIN Members
    BY TrainAssumption, LenProperties
  <2> SUFFICES ASSUME NEW k \in 1 .. i - 1
               PROVE  Members[k] \in Addr /\ Members[k] # Members[i]
    OBVIOUS
  <2>2. k \in DOMAIN Members /\ k # i
    BY <1>1, <2>1
  <2> QED BY <2>1, <2>2, TrainAssumption DEF Addr
<1>3. \A k \in 1 .. caller[c].i - 1 :
        Reached(Members[k])' \/ \E j \in caller'[c].new : j.a = Members[k]
  BY <1>2, ReachedSame DEF Passed
<1>4. \A k \in 1 .. caller'[c].i - 1 : k \in 1 .. i - 1 \/ (k = i /\ caller'[c].i = i + 1)
  BY <1>1
<1> HIDE DEF i
<1>5. \A k \in 1 .. caller'[c].i - 1 :
        Reached(Members[k])' \/ \E j \in caller'[c].new : j.a = Members[k]
  <2> SUFFICES ASSUME NEW k \in 1 .. caller'[c].i - 1
               PROVE  Reached(Members[k])' \/ \E j \in caller'[c].new : j.a = Members[k]
    OBVIOUS
  <2>1. CASE k \in 1 .. i - 1
    BY <1>3, <2>1
  <2>2. CASE k = i /\ caller'[c].i = i + 1
    <3>1. caller'[c].i # caller[c].i
      BY <1>1, <2>2 DEF i
    <3>2. Members[k] = b
      BY <2>2 DEF i
    <3> QED BY <3>1, <3>2 DEF Reached
  <2> QED BY <1>4, <2>1, <2>2
<1> QED BY <1>5 DEF Passed

LEMMA ApplyGoals ==
  ASSUME Single, Inv, Contexts, Goals, NEW c \in Caller, ApplyMember(c)
  PROVE  Goals'
<1>1. PICK b : b = Members[caller[c].i]
  OBVIOUS
<1>2. /\ caller[c].pc = "member" /\ caller[c].i \in 1 .. Len(Members)
      /\ \/ /\ caller'[c].pc = "member" /\ caller'[c].i = caller[c].i + 1
            /\ caller'[c].new = caller[c].new \cup Planned(c, b)
            /\ Planned(c, b) # {} /\ UNCHANGED <<speed, retries, clean>>
         \/ /\ caller'[c].pc = "store" /\ caller'[c].i = caller[c].i
            /\ caller'[c].new = caller[c].new
            /\ speed' = [speed EXCEPT ![b] = WireSpeedFromPayload(Target(c, b))]
            /\ clean' => clean /\ retries' = retries
         \/ ~clean'
  BY <1>1, ApplyFacts
<1>3. UNCHANGED <<jobs, store, estopping, phase, goal>>
  BY DEF ApplyMember
<1>4. b \in Addr /\ goal[b] = Target(c, b)
  BY <1>1, <1>2, MemberAddr DEF Contexts, Commanding
<1>5. CASE ~clean'
  BY <1>5 DEF Goals, Touched, Resting, Working
<1>6. CASE /\ caller'[c].pc = "member" /\ caller'[c].i = caller[c].i + 1
           /\ caller'[c].new = caller[c].new \cup Planned(c, b)
           /\ Planned(c, b) # {} /\ UNCHANGED <<speed, retries, clean>>
  <2>1. \E j \in caller'[c].new : j.a = b
    BY <1>4, <1>6, PlannedFacts DEF Inv
  <2>2. ASSUME clean PROVE jobs = {} /\ Passed(c)'
    <3>1. jobs = {} /\ Passed(c)
      BY <1>2, <2>2 DEF Goals, Working
    <3>2. caller[c].new \subseteq caller'[c].new
      BY <1>6
    <3>3. \A a \in Addr : speed'[a] = speed[a] /\ store'[a] = store[a]
      BY <1>3, <1>6
    <3> QED BY <1>1, <1>2, <1>3, <1>6, <2>1, <3>1, <3>2, <3>3, PassedOn
  <2>3. Working(c)' /\ Touched'
    BY <1>3, <1>6, <2>2 DEF Working, Touched, Goals
  <2> QED BY <1>6, <2>3, BusyGoals
<1>7. CASE /\ caller'[c].pc = "store" /\ caller'[c].i = caller[c].i
           /\ caller'[c].new = caller[c].new
           /\ speed' = [speed EXCEPT ![b] = WireSpeedFromPayload(Target(c, b))]
           /\ clean' => clean /\ retries' = retries
  <2>1. ASSUME clean PROVE jobs = {} /\ Passed(c)'
    <3>1. jobs = {} /\ Passed(c)
      BY <1>2, <2>1 DEF Goals, Working
    <3>2. \A a \in Addr : a # b => speed'[a] = speed[a] /\ store'[a] = store[a]
      BY <1>3, <1>7 DEF Inv, TypeOK
    <3> QED BY <1>1, <1>2, <1>3, <1>7, <3>1, <3>2, PassedOn
  <2>2. speed'[b] = WireSpeedFromPayload(goal'[b]) /\ Members[caller'[c].i] = b
    BY <1>1, <1>3, <1>4, <1>7 DEF Inv, TypeOK
  <2>3. speed'[Members[caller'[c].i]] = WireSpeedFromPayload(goal'[Members[caller'[c].i]])
    BY <2>2
  <2>4. Working(c)' /\ Touched'
    BY <1>3, <1>7, <2>1, <2>3 DEF Working, Touched, Goals
  <2> QED BY <1>7, <2>4, BusyGoals
<1> QED BY <1>2, <1>5, <1>6, <1>7

LEMMA StoreGoals ==
  ASSUME Single, Inv, Contexts, Goals, NEW c \in Caller, StoreMember(c)
  PROVE  Goals'
<1>1. PICK b : b = Members[caller[c].i]
  OBVIOUS
<1>2. /\ caller[c].pc = "store" /\ caller[c].i \in 1 .. Len(Members)
      /\ caller'[c].pc = "member" /\ caller'[c].i = caller[c].i + 1
      /\ caller'[c].new = caller[c].new
  BY StoreFacts
<1>3. /\ UNCHANGED <<jobs, retries, speed, estopping, phase, goal, clean>>
      /\ store' = [store EXCEPT ![b] = UISpeedFromWire(WireSpeedFromPayload(Target(c, b)))]
  BY <1>1 DEF StoreMember
<1>4. b \in Addr /\ goal[b] = Target(c, b)
  BY <1>1, <1>2, MemberAddr DEF Contexts, Commanding
<1>5. ASSUME clean PROVE jobs = {} /\ Passed(c)'
  <2>1. jobs = {} /\ Passed(c) /\ speed[b] = WireSpeedFromPayload(goal[b])
    BY <1>1, <1>2, <1>5 DEF Goals, Working
  <2>2. Reached(b)'
    BY <1>3, <1>4, <2>1 DEF Reached, Inv, TypeOK
  <2>3. \A a \in Addr : a # b => speed'[a] = speed[a] /\ store'[a] = store[a]
    BY <1>3 DEF Inv, TypeOK
  <2> QED BY <1>1, <1>2, <1>3, <2>1, <2>2, <2>3, PassedOn
<1>6. Working(c)' /\ Touched'
  BY <1>2, <1>3, <1>5 DEF Working, Touched, Goals
<1> QED BY <1>2, <1>6, BusyGoals

\* The goroutines that scheduleDelayed starts, and the members that were
\* written at once, are all the members there are.
LEMMA ScheduleGoals ==
  ASSUME Single, Inv, Plans, Contexts, Goals, NEW c \in Caller, ScheduleDelayed(c)
  PROVE  Goals'
<1>1. /\ caller[c].pc = "member" /\ caller[c].i = Len(Members) + 1
      /\ caller'[c].pc = "idle"
  BY ScheduleFacts
<1>2. /\ jobs' = jobs \cup caller[c].new
      /\ UNCHANGED <<cancelled, retries, speed, store, estopping, phase, goal, clean>>
  BY DEF ScheduleDelayed
<1>3. Commanding(c) /\ Working(c)
  BY DEF Contexts, Goals
<1>4. ASSUME clean PROVE Underway'
  <2>1. jobs' = caller[c].new /\ Passed(c)
    BY <1>1, <1>2, <1>3, <1>4 DEF Working
  <2>2. \A j \in caller[c].new : j.a \in Addr /\ j \in Planned(c, j.a)
    BY DEF Plans
  <2>3. ASSUME NEW j \in caller[c].new PROVE JobGoal(j)'
    <3>1. /\ j.a \in Addr /\ j.ctx = caller[c].ctx /\ j.pc \in {"apply", "sleep"}
          /\ j.todo[Len(j.todo)] = Target(c, j.a)
          /\ ~j.ramp => Len(j.todo) = 1
      BY <2>2, PlannedFacts DEF Inv
    <3>2. j.ctx \notin cancelled /\ goal[j.a] = Target(c, j.a)
      BY <1>1, <1>3, <3>1 DEF Commanding
    <3> QED BY <1>2, <3>1, <3>2 DEF JobGoal
  <2>4. ASSUME NEW j \in caller[c].new, NEW k \in caller[c].new, j.a = k.a
        PROVE  j = k
    <3>1. Planned(c, j.a) = {j} /\ k \in Planned(c, j.a)
      BY <2>2, <2>4, PlannedFacts DEF Inv
    <3> QED BY <3>1
  <2>5. ASSUME NEW a \in Addr
        PROVE  Reached(a)' \/ \E j \in caller[c].new : j.a = a
    <3>1. PICK k \in DOMAIN Members : a = Members[k]
      BY DEF Addr
    <3>2. k \in 1 .. caller[c].i - 1
      BY <1>1, <3>1, TrainAssumption, LenProperties
    <3>3. Reached(a) \/ \E j \in caller[c].new : j.a = a
      BY <2>1, <3>1, <3>2 DEF Passed
    <3> QED BY <1>2, <3>3, ReachedSame
  <2> QED BY <2>1, <2>3, <2>4, <2>5 DEF Underway
<1>5. \A d \in Caller : d = c
  BY DEF Single
<1>6. Touched' /\ Working(c)'
  BY <1>1, <1>2 DEF Touched, Working, Goals
<1> QED BY <1>2, <1>4, <1>5, <1>6 DEF Goals, Resting

LEMMA JobGoalSame ==
  ASSUME NEW k, JobGoal(k), UNCHANGED <<goal, cancelled>>,
         speed'[k.a] = speed[k.a], store'[k.a] = store[k.a]
  PROVE  JobGoal(k)'
  BY DEF JobGoal

\* One goroutine moves on, or ends with its member at its speed.
LEMMA OneJobMoves ==
  ASSUME Inv, Underway, NEW j \in jobs, NEW S, JobBecomes(j, S),
         UNCHANGED <<goal, cancelled>>,
         \A a \in Addr : a # j.a => speed'[a] = speed[a] /\ store'[a] = store[a],
         \A n \in S : n.a = j.a /\ JobGoal(n)',
         \A n, m \in S : n = m,
         S = {} => Reached(j.a)'
  PROVE  Underway'
<1>0. jobs' = (jobs \ {j}) \cup S
  BY DEF JobBecomes
<1>1. \A k \in jobs \ {j} : k.a \in Addr /\ k.a # j.a
  BY DEF Underway, Inv, TypeOK, Job
<1>2. ASSUME NEW k \in jobs \ {j} PROVE JobGoal(k)'
  <2>1. speed'[k.a] = speed[k.a] /\ store'[k.a] = store[k.a]
    BY <1>1
  <2>2. JobGoal(k)
    BY DEF Underway
  <2> QED BY <2>1, <2>2, JobGoalSame
<1>3. \A k \in jobs' : JobGoal(k)'
  BY <1>0, <1>2
<1>4. \A k, m \in jobs' : k.a = m.a => k = m
  BY <1>0, <1>1 DEF Underway
<1>5. ASSUME NEW a \in Addr PROVE Reached(a)' \/ \E k \in jobs' : k.a = a
  <2>1. CASE a = j.a
    BY <1>0, <2>1
  <2>2. CASE a # j.a
    <3>1. Reached(a) \/ \E k \in jobs \ {j} : k.a = a
      BY <2>2 DEF Underway
    <3> QED BY <1>0, <2>2, <3>1, ReachedSame
  <2> QED BY <2>1, <2>2
<1> QED BY <1>3, <1>4, <1>5 DEF Underway

\* What is left of a ramp ends where the ramp ends.
LEMMA TailEnds ==
  ASSUME NEW s \in Seq(Nat), s # <<>>, Len(s) # 1
  PROVE  /\ Tail(s) \in Seq(Nat) /\ Tail(s)[Len(Tail(s))] = s[Len(s)]
<1>1. Len(s) \in Nat /\ Len(s) > 1
  <2>1. Len(s) \in Nat /\ Len(s) # 0
    BY LenProperties, EmptySeq
  <2>2. \A l \in Nat : l # 0 /\ l # 1 => l > 1
    OBVIOUS
  <2> QED BY <2>1, <2>2
<1>2. Tail(s) \in Seq(Nat) /\ Len(Tail(s)) = Len(s) - 1
      /\ \A i \in 1 .. Len(Tail(s)) : Tail(s)[i] = s[i + 1]
  BY HeadTailProperties
<1>3. Len(s) - 1 \in 1 .. Len(Tail(s)) /\ (Len(s) - 1) + 1 = Len(s)
  BY <1>1, <1>2
<1> QED BY <1>2, <1>3

LEMMA DelayUnderway ==
  ASSUME Inv, Underway, NEW j \in jobs, DelayElapses(j)
  PROVE  Underway'
<1> DEFINE n == [j EXCEPT !.pc = "apply"]
<1>1. j \in Job /\ JobGoal(j)
  BY DEF Inv, TypeOK, Underway
<1>2. JobBecomes(j, {n}) /\ UNCHANGED <<goal, cancelled, speed, store>>
  BY <1>1 DEF DelayElapses, JobGoal
<1>3. /\ n.ctx = j.ctx /\ n.a = j.a /\ n.ramp = j.ramp /\ n.todo = j.todo
      /\ n.pc = "apply"
  BY <1>1 DEF Job
<1> HIDE DEF n
<1>4. JobGoal(n)'
  BY <1>1, <1>2, <1>3 DEF JobGoal
<1>5. /\ \A k \in {n} : k.a = j.a /\ JobGoal(k)'
      /\ \A k, m \in {n} : k = m /\ {n} # {}
  BY <1>3, <1>4
<1>6. \A a \in Addr : speed'[a] = speed[a] /\ store'[a] = store[a]
  BY <1>2
<1> QED BY <1>2, <1>5, <1>6, OneJobMoves

LEMMA ApplyUnderway ==
  ASSUME Inv, Underway, NEW j \in jobs, JobApplies(j), clean'
  PROVE  Underway'
<1> DEFINE w == WireSpeedFromPayload(Head(j.todo))
           N(pc, late) == [j EXCEPT !.pc = pc, !.late = late]
<1>1. j \in Job /\ JobGoal(j) /\ j.a \in Addr
  BY DEF Inv, TypeOK, Underway, Job
<1>2. PICK o \in Outcome(w) :
        /\ SetSpeed(j.a, w, j.ctx, o)
        /\ JobBecomes(j, {N(IF o.sent THEN "store" ELSE "check",
                            IF j.ctx \in cancelled THEN j.late + 1 ELSE j.late)})
        /\ clean' = (clean /\ o.sent /\ ~o.retry)
  BY DEF JobApplies
<1>3. UNCHANGED <<goal, cancelled, store>>
  BY DEF JobApplies
<1>4. o.sent
  BY <1>2
<1>5. speed' = [speed EXCEPT ![j.a] = w]
  BY <1>2, <1>4 DEF SetSpeed
<1>6. PICK n : n = N(IF o.sent THEN "store" ELSE "check",
                     IF j.ctx \in cancelled THEN j.late + 1 ELSE j.late)
  OBVIOUS
<1>7. /\ n.ctx = j.ctx /\ n.a = j.a /\ n.ramp = j.ramp /\ n.todo = j.todo
      /\ n.pc = "store"
  BY <1>1, <1>4, <1>6 DEF Job
<1>8. JobBecomes(j, {n})
  BY <1>2, <1>6
<1>9. speed'[j.a] = w /\ \A a \in Addr : a # j.a => speed'[a] = speed[a]
  BY <1>1, <1>5 DEF Inv, TypeOK
<1>10. JobGoal(n)'
  BY <1>1, <1>3, <1>7, <1>9 DEF JobGoal
<1>11. /\ \A k \in {n} : k.a = j.a /\ JobGoal(k)'
       /\ \A k, m \in {n} : k = m /\ {n} # {}
  BY <1>7, <1>10
<1> QED BY <1>3, <1>8, <1>9, <1>11, OneJobMoves

LEMMA StoreUnderway ==
  ASSUME Inv, Underway, NEW j \in jobs, JobStores(j)
  PROVE  Underway'
<1> DEFINE n == [j EXCEPT !.pc = "check"]
<1>1. j \in Job /\ JobGoal(j) /\ j.a \in Addr
  BY DEF Inv, TypeOK, Underway, Job
<1>2. /\ JobBecomes(j, {n}) /\ UNCHANGED <<goal, cancelled, speed>>
      /\ store' = [store EXCEPT ![j.a] =
                     UISpeedFromWire(WireSpeedFromPayload(Head(j.todo)))]
      /\ j.pc = "store"
  BY DEF JobStores
<1>3. /\ n.ctx = j.ctx /\ n.a = j.a /\ n.ramp = j.ramp /\ n.todo = j.todo
      /\ n.pc = "check"
  BY <1>1 DEF Job
<1> HIDE DEF n
<1>4. /\ store'[j.a] = UISpeedFromWire(WireSpeedFromPayload(Head(j.todo)))
      /\ \A a \in Addr : a # j.a => speed'[a] = speed[a] /\ store'[a] = store[a]
  BY <1>1, <1>2 DEF Inv, TypeOK
<1>5. speed[j.a] = WireSpeedFromPayload(Head(j.todo))
  BY <1>1, <1>2 DEF JobGoal
<1>6. JobGoal(n)'
  BY <1>1, <1>2, <1>3, <1>4, <1>5 DEF JobGoal
<1>7. /\ \A k \in {n} : k.a = j.a /\ JobGoal(k)'
      /\ \A k, m \in {n} : k = m /\ {n} # {}
  BY <1>3, <1>6
<1> QED BY <1>2, <1>4, <1>7, OneJobMoves

LEMMA CheckUnderway ==
  ASSUME Inv, Underway, NEW j \in jobs, JobChecks(j)
  PROVE  Underway'
<1> DEFINE n == [j EXCEPT !.pc = "apply", !.todo = Tail(j.todo)]
<1>1. /\ j \in Job /\ JobGoal(j) /\ j.a \in Addr
      /\ j.todo \in Seq(Nat) /\ j.todo # <<>>
  BY DEF Inv, TypeOK, Underway, Job
<1>2. /\ JobBecomes(j, IF ~j.ramp \/ j.ctx \in cancelled \/ Len(j.todo) = 1
                       THEN {} ELSE {n})
      /\ UNCHANGED <<goal, cancelled, speed, store>> /\ j.pc = "check"
  BY DEF JobChecks
<1>3. /\ n.ctx = j.ctx /\ n.a = j.a /\ n.ramp = j.ramp /\ n.todo = Tail(j.todo)
      /\ n.pc = "apply"
  BY <1>1 DEF Job
<1> HIDE DEF n
<1>4. \A a \in Addr : speed'[a] = speed[a] /\ store'[a] = store[a]
  BY <1>2
<1>5. CASE Len(j.todo) = 1
  <2>1. j.todo[1] = Head(j.todo)
    BY <1>1, HeadTailProperties
  <2>2. Reached(j.a)
    BY <1>1, <1>2, <1>5, <2>1 DEF JobGoal, Reached
  <2>3. Reached(j.a)'
    BY <1>2, <2>2 DEF Reached
  <2>4. JobBecomes(j, {})
    BY <1>2, <1>5
  <2> QED BY <1>2, <1>4, <2>3, <2>4, OneJobMoves
<1>6. CASE Len(j.todo) # 1
  <2>1. JobBecomes(j, {n}) /\ j.ramp
    BY <1>1, <1>2, <1>6 DEF JobGoal
  <2>2. Tail(j.todo)[Len(Tail(j.todo))] = j.todo[Len(j.todo)]
    BY <1>1, <1>6, TailEnds
  <2>3. JobGoal(n)'
    BY <1>1, <1>2, <1>3, <2>1, <2>2 DEF JobGoal
  <2>4. /\ \A k \in {n} : k.a = j.a /\ JobGoal(k)'
        /\ \A k, m \in {n} : k = m /\ {n} # {}
    BY <1>3, <2>3
  <2> QED BY <1>2, <1>4, <2>1, <2>4, OneJobMoves
<1> QED BY <1>5, <1>6

LEMMA GoroutineGoals ==
  ASSUME Inv, Goals, NEW j \in jobs, Goroutine(j)
  PROVE  Goals'
<1>1. /\ UNCHANGED <<caller, estopping, phase>>
      /\ clean' => clean /\ retries' = retries
  BY GoroutineFacts
<1>2. Touched'
  BY <1>1 DEF Goals, Touched
<1>3. \A c \in Caller : Working(c)'
  BY <1>1 DEF Goals, Working
<1>4. ASSUME clean', \A c \in Caller : caller'[c].pc = "idle"
      PROVE  Underway'
  <2>1. Underway
    BY <1>1, <1>4 DEF Goals, Resting
  <2> QED BY <1>4, <2>1, DelayUnderway, ApplyUnderway, StoreUnderway, CheckUnderway
             DEF Goroutine
<1> QED BY <1>2, <1>3, <1>4 DEF Goals, Resting

LEMMA NextGoals ==
  ASSUME Single, Inv, Plans, Contexts, Goals, [Next]_vars
  PROVE  Goals'
<1>1. ASSUME NEW c \in Caller, Handler(c) PROVE Goals'
  BY <1>1, CancelGoals, ApplyGoals, StoreGoals, ScheduleGoals DEF Handler
<1>2. ASSUME NEW c \in Caller, NEW p \in Payloads, HandleTrainSetSpeed(c, p)
      PROVE  Goals'
  BY <1>2, HandleGoals
<1>3. ASSUME NEW j \in jobs, Goroutine(j) PROVE Goals'
  BY <1>3, GoroutineGoals
<1>4. ASSUME ~clean, clean' = clean PROVE Goals'
  BY <1>4 DEF Goals, Touched, Resting, Working
<1>5. ASSUME NEW r \in retries, RetrySetSpeed(r) PROVE Goals'
  <2>1. ~clean /\ clean' = clean
    BY <1>5 DEF Goals, Touched, RetrySetSpeed
  <2> QED BY <2>1, <1>4
<1>6. ASSUME NEW a \in Addr, EStopStation(a) PROVE Goals'
  BY <1>6, LostGoals DEF EStopStation
<1>7. ASSUME NEW a \in Addr, EStopStore(a) PROVE Goals'
  <2>1. ~clean /\ clean' = clean
    BY <1>7 DEF Goals, Touched, EStopStore
  <2> QED BY <2>1, <1>4
<1>8. ASSUME NEW a \in Addr, ShutdownStops(a) PROVE Goals'
  <2>1. ~clean /\ clean' = clean
    BY <1>8 DEF Goals, Touched, ShutdownStops
  <2> QED BY <2>1, <1>4
<1>9. ASSUME NEW c \in Caller, SessionEnds(c) PROVE Goals'
  BY <1>9, LostGoals DEF SessionEnds
<1>10. CASE ShutdownCancels
  BY <1>10, LostGoals DEF ShutdownCancels
<1>11. CASE UNCHANGED vars
  <2>1. /\ Touched' /\ \A c \in Caller : Working(c)'
    BY <1>11 DEF Goals, Touched, Working, Passed, Reached, vars
  <2>2. Underway => Underway'
    BY <1>11 DEF Underway, JobGoal, Reached, vars
  <2> QED BY <1>11, <2>1, <2>2 DEF Goals, Resting, vars
<1> QED BY <1>1, <1>2, <1>3, <1>5, <1>6, <1>7, <1>8, <1>9, <1>10, <1>11
           DEF Next, Environment

LEMMA GoalsAlways == Single /\ Spec => [](Inv /\ Plans /\ Contexts /\ Goals)
<1> SUFFICES ASSUME Single PROVE Spec => [](Inv /\ Plans /\ Contexts /\ Goals)
  OBVIOUS
<1>1. Init => Goals
  <2>1. Init => /\ phase = "up" /\ estopping = {} /\ retries = {} /\ jobs = {}
                /\ \A c \in Caller : caller[c].pc = "idle"
    BY DEF Init, IdleCaller
  <2>2. Init => \A a \in Addr : Reached(a)
    BY DEF Init, Reached, WireSpeedFromPayload, UISpeedFromWire
  <2> QED BY <2>1, <2>2 DEF Goals, Touched, Resting, Working, Underway
<1>2. Inv /\ Plans /\ Contexts /\ Goals /\ [Next]_vars => Goals'
  BY NextGoals
<1>3. Spec => [](Inv /\ Plans /\ Contexts)
  BY ContextsAlways, PTL
<1> QED BY <1>1, <1>2, <1>3, PTL DEF Spec

\* With one session at a time, in every execution a train command that
\* interrupts nothing, that no call fails and no stop follows, has brought
\* every member to its own target once everything has run; what still runs
\* can be cancelled and every ramp has its shape (applyTrainSetSpeed,
\* scheduleDelayed, runStartDelay, runSpeedRamp).
THEOREM TrainSettles == Single /\ Spec => []Settles
<1>1. Inv /\ Plans /\ Contexts /\ Goals => Settles
  <2> SUFFICES ASSUME Inv, Plans, Contexts, Goals PROVE Settles
    OBVIOUS
  <2>1. TypeOK /\ RampShape /\ Cancellable
    BY PlansShape DEF Inv, Contexts
  <2>2. Settled
    BY DEF Settled, Quiet, Goals, Resting, Underway, Reached
  <2> QED BY <2>1, <2>2 DEF Settles
<1> QED BY <1>1, GoalsAlways, PTL

=============================================================================
