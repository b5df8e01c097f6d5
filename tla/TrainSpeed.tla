----------------------------- MODULE TrainSpeed -----------------------------
(***************************************************************************)
(* The train speed scheduler of the dcc-bus daemon                         *)
(* (dcc-bus/service/train_speed_scheduler.go) with its caller              *)
(* HandleTrainSetSpeed, the brake retry of DCCWriter, the emergency stops  *)
(* that share its locomotives and the shutdown that cancels it.  One train *)
(* is modelled: trains share nothing but the mutex.                        *)
(*                                                                         *)
(* A command to a member is two steps, the station call and the update of  *)
(* the state store; goroutines interleave between them.                    *)
(***************************************************************************)
EXTENDS Integers, Sequences, FiniteSets

CONSTANTS
  Members,         \* the powered members in order; the first one leads
  Cfg,             \* per member: speed multiplier, delay and ramps
  Caller,          \* WebSocket sessions that drive the train
  Payloads,        \* speeds a throttle sends
  MaxSpeed,        \* MaxSpeedForSpeedSteps
  LimitOf,         \* ControllerSpeedLimits per caller, 0 = none
  MinStepMs,       \* MinSpeedRampStepMs
  BrakeRetries,    \* brakeRetryCount
  StationMayFail,  \* may a station call fail or be superseded?
  MaxCommands,     \* bound on the number of train.setSpeed commands
  Ops              \* the events the environment uses

Addr == {Members[i] : i \in DOMAIN Members}

ASSUME TrainAssumption ==
  /\ Members \in Seq(Addr) /\ Members # <<>>
  /\ \A i, j \in DOMAIN Members : Members[i] = Members[j] => i = j
  /\ Payloads \subseteq Nat /\ MaxSpeed \in Nat
  /\ LimitOf \in [Caller -> Nat]
  /\ MinStepMs \in Nat \ {0} /\ BrakeRetries \in Nat /\ MaxCommands \in Nat
  /\ StationMayFail \in BOOLEAN
  /\ \A a \in Addr :
       /\ Cfg[a].num \in Nat /\ Cfg[a].den \in Nat \ {0}
       /\ Cfg[a].delayMs \in Nat /\ Cfg[a].accelMs \in Nat
       /\ Cfg[a].brakeMs \in Nat
       /\ Cfg[a].accelSteps \in Nat /\ Cfg[a].brakeSteps \in Nat

VARIABLES
  pending,         \* TrainSpeedScheduler.pending: the registered context
  cancelled,       \* the contexts that are done
  owner,           \* the session whose request context is the parent
  jobs,            \* runStartDelay and runSpeedRamp goroutines
  retries,         \* retrySetSpeed goroutines
  caller,          \* what each session's read loop is doing
  speed,           \* the wire speed each decoder has
  store,           \* LocoStateStore: the UI speed of each loco
  estopping,       \* emergency stops between station and store
  phase,           \* "up", "stopping", "stopped"
  toStop,          \* roster locos applyEStopAll has not reached
  goal,            \* history: the member speeds of the last command
  clean            \* history: it interrupted nothing and nothing went wrong

vars == <<pending, cancelled, owner, jobs, retries, caller, speed, store,
          estopping, phase, toStop, goal, clean>>

NoCtx == 0
Ctx == 1 .. MaxCommands

(***************************************************************************)
(* Speeds.                                                                 *)
(***************************************************************************)
Least(x, y) == IF x <= y THEN x ELSE y
Greatest(x, y) == IF x <= y THEN y ELSE x

\* Wire speed 1 is the emergency brake: payload 1 drives at 2, and a reading
\* of 1 is shown as 0.
WireSpeedFromPayload(p) == IF p = 1 THEN 2 ELSE p
UISpeedFromWire(w) == IF w = 1 THEN 0 ELSE w

Moving(a) == speed[a] > 1

\* A controller's percentage of the top step, but at least step 2.
ClampSpeedForControllerLimit(s, limit) ==
  IF limit = 0 \/ limit >= 100 \/ MaxSpeed = 0 THEN s
  ELSE Least(s, Greatest(2, (MaxSpeed * limit + 50) \div 100))

\* The leading speed times the member's multiplier, rounded half up.
EffectiveMemberSpeed(a, s) ==
  LET num == IF a = Members[1] \/ Cfg[a].num = 0 THEN 1 ELSE Cfg[a].num
      den == IF a = Members[1] \/ Cfg[a].num = 0 THEN 1 ELSE Cfg[a].den
  IN  IF s = 0 THEN 0 ELSE Least((2 * s * num + den) \div (2 * den), MaxSpeed)

\* Members whose step count is not set ramp in one step.
Steps(k) == IF k = 0 THEN 1 ELSE k

\* The loop of planSpeedRampIntervals: the most steps, at most k, that stay
\* MinStepMs apart, and one at least.
PlanSteps(ms, k) == Least(k, Greatest(1, ms \div MinStepMs))

\* The speeds of a ramp: equal increments, the last one to the target.
RampSpeeds(cur, target, n) ==
  LET d == (IF target >= cur THEN target - cur ELSE cur - target) \div n
  IN  [i \in 1 .. n |-> IF i = n THEN target
                        ELSE IF target >= cur THEN cur + i * d ELSE cur - i * d]

IsStart(s) == s <= 1

ShouldApplyAccelRamp(cmd, cur, target, c) ==
  /\ cmd # 0 /\ c.accelMs > 0 /\ target > cur
  /\ ~IsStart(cur) \/ c.delayMs = 0

ShouldApplyBrakeRamp(cur, target, c) == c.brakeMs > 0 /\ target < cur

ShouldApplyStartDelay(cmd, atStart, cur, target, c) ==
  /\ cmd # 0 /\ atStart /\ c.delayMs > 0
  /\ IsStart(cur) /\ target > cur
  /\ ~ShouldApplyAccelRamp(cmd, cur, target, c)

(***************************************************************************)
(* Goroutines.                                                             *)
(***************************************************************************)
JobPC == {"sleep", "apply", "store", "check"}

Job == [ctx : Ctx, a : Addr, ramp : BOOLEAN, todo : Seq(Nat), pc : JobPC,
        late : Nat]

NewJob(ctx, a, ramp, todo) ==
  [ctx |-> ctx, a |-> a, ramp |-> ramp, todo |-> todo,
   pc |-> IF ramp THEN "apply" ELSE "sleep", late |-> 0]

Retry == [a : Addr, ctx : Ctx, wire : 0 .. 1, left : Nat]

CallerState ==
  [pc : {"idle", "cancel", "member", "store"}, ctx : Ctx \cup {NoCtx},
   cmd : Nat, atStart : BOOLEAN, cur : [Addr -> Nat],
   i : 1 .. Len(Members) + 1, new : SUBSET Job]

IdleCaller == [pc |-> "idle", ctx |-> NoCtx, cmd |-> 0, atStart |-> FALSE,
               cur |-> [a \in Addr |-> 0], i |-> 1, new |-> {}]

\* The goroutine j goes on as a member of S, or ends when S is empty.
JobBecomes(j, S) == jobs' = (jobs \ {j}) \cup S

\* What a station call may do: reach the decoder or not, and start a
\* background retry when a stop failed.  An error of the slot is answered by
\* one more call, so a retry may run although the command got through; a
\* superseded or refused command does neither.
Outcome(w) ==
  {o \in [sent : BOOLEAN, retry : BOOLEAN] :
     IF StationMayFail THEN o.retry => w <= 1 ELSE o.sent /\ ~o.retry}

SetSpeed(a, w, ctx, o) ==
  /\ o \in Outcome(w)
  /\ speed' = IF o.sent THEN [speed EXCEPT ![a] = w] ELSE speed
  /\ retries' = IF o.retry /\ BrakeRetries > 0
                THEN retries \cup {[a |-> a, ctx |-> ctx, wire |-> w,
                                    left |-> BrakeRetries]}
                ELSE retries

(***************************************************************************)
(* HandleTrainSetSpeed and Apply.                                          *)
(***************************************************************************)

\* The handler reads the store before it takes the scheduler's lock.
HandleTrainSetSpeed(c, p) ==
  LET ctx == Cardinality({k \in Ctx : owner[k] # {}}) + 1
  IN  /\ caller[c].pc = "idle" /\ phase = "up" /\ ctx \in Ctx
      /\ caller' = [caller EXCEPT ![c] =
           [pc |-> "cancel", ctx |-> ctx, cmd |-> p, cur |-> store, i |-> 1,
            atStart |-> IsStart(store[Members[1]]), new |-> {}]]
      /\ owner' = [owner EXCEPT ![ctx] = {c}]
      /\ goal' = [a \in Addr |->
           EffectiveMemberSpeed(a, ClampSpeedForControllerLimit(p, LimitOf[c]))]
      /\ UNCHANGED <<pending, cancelled, jobs, retries, speed, store,
                     estopping, phase, toStop, clean>>

\* CancelTrain.
CancelTrain(c) ==
  /\ caller[c].pc = "cancel"
  /\ cancelled' = cancelled \cup ({pending} \ {NoCtx})
  /\ pending' = NoCtx
  /\ caller' = [caller EXCEPT ![c].pc = "member"]
  /\ clean' = (jobs = {} /\ retries = {} /\ estopping = {} /\ phase = "up")
  /\ UNCHANGED <<owner, jobs, retries, speed, store, estopping, phase, toStop,
                 goal>>

Target(c, a) ==
  EffectiveMemberSpeed(a, ClampSpeedForControllerLimit(caller[c].cmd, LimitOf[c]))

\* The goroutine Apply plans for member a, none when it is written at once.
Planned(c, a) ==
  LET t == caller[c]
      cur == t.cur[a]
      target == Target(c, a)
      k == Cfg[a]
  IN  IF ShouldApplyAccelRamp(t.cmd, cur, target, k)
      THEN {NewJob(t.ctx, a, TRUE, RampSpeeds(cur, target,
                     PlanSteps(k.accelMs, Steps(k.accelSteps))))}
      ELSE IF ShouldApplyBrakeRamp(cur, target, k)
      THEN {NewJob(t.ctx, a, TRUE, RampSpeeds(cur, target,
                     PlanSteps(k.brakeMs, Steps(k.brakeSteps))))}
      ELSE IF ShouldApplyStartDelay(t.cmd, t.atStart, cur, target, k)
      THEN {NewJob(t.ctx, a, FALSE, <<target>>)}
      ELSE {}

ApplyMember(c) ==
  LET t == caller[c]
      a == Members[t.i]
  IN  /\ t.pc = "member" /\ t.i <= Len(Members)
      /\ \/ /\ Planned(c, a) # {}
            /\ caller' = [caller EXCEPT ![c].new = t.new \cup Planned(c, a),
                                        ![c].i = t.i + 1]
            /\ UNCHANGED <<speed, retries, clean>>
         \/ /\ Planned(c, a) = {}
            /\ \E o \in Outcome(WireSpeedFromPayload(Target(c, a))) :
                 /\ SetSpeed(a, WireSpeedFromPayload(Target(c, a)), t.ctx, o)
                 /\ caller' = IF o.sent THEN [caller EXCEPT ![c].pc = "store"]
                              ELSE [caller EXCEPT ![c].i = t.i + 1]
                 /\ clean' = (clean /\ o.sent /\ ~o.retry)
      /\ UNCHANGED <<pending, cancelled, owner, jobs, store, estopping, phase,
                     toStop, goal>>

StoreMember(c) ==
  LET t == caller[c]
      a == Members[t.i]
  IN  /\ t.pc = "store"
      /\ store' = [store EXCEPT ![a] =
                     UISpeedFromWire(WireSpeedFromPayload(Target(c, a)))]
      /\ caller' = [caller EXCEPT ![c].pc = "member", ![c].i = t.i + 1]
      /\ UNCHANGED <<pending, cancelled, owner, jobs, retries, speed,
                     estopping, phase, toStop, goal, clean>>

\* scheduleDelayed: register the context, whatever is registered already.
ScheduleDelayed(c) ==
  LET t == caller[c]
  IN  /\ t.pc = "member" /\ t.i > Len(Members)
      /\ pending' = IF t.new = {} THEN pending ELSE t.ctx
      /\ jobs' = jobs \cup t.new
      /\ caller' = [caller EXCEPT ![c] = IdleCaller]
      /\ UNCHANGED <<cancelled, owner, retries, speed, store, estopping, phase,
                     toStop, goal, clean>>

(***************************************************************************)
(* runStartDelay and runSpeedRamp.                                         *)
(***************************************************************************)

\* The start delay has passed: the context is looked at before the command.
DelayElapses(j) ==
  /\ j.pc = "sleep"
  /\ JobBecomes(j, IF j.ctx \in cancelled THEN {}
                   ELSE {[j EXCEPT !.pc = "apply"]})
  /\ UNCHANGED <<pending, cancelled, owner, retries, caller, speed, store,
                 estopping, phase, toStop, goal, clean>>

\* The command itself, without another look at the context.
JobApplies(j) ==
  /\ j.pc = "apply"
  /\ \E o \in Outcome(WireSpeedFromPayload(Head(j.todo))) :
       /\ SetSpeed(j.a, WireSpeedFromPayload(Head(j.todo)), j.ctx, o)
       /\ JobBecomes(j, {[j EXCEPT !.pc = IF o.sent THEN "store" ELSE "check",
                                   !.late = IF j.ctx \in cancelled
                                            THEN j.late + 1 ELSE j.late]})
       /\ clean' = (clean /\ o.sent /\ ~o.retry)
  /\ UNCHANGED <<pending, cancelled, owner, caller, store, estopping, phase,
                 toStop, goal>>

JobStores(j) ==
  /\ j.pc = "store"
  /\ store' = [store EXCEPT ![j.a] =
                 UISpeedFromWire(WireSpeedFromPayload(Head(j.todo)))]
  /\ JobBecomes(j, {[j EXCEPT !.pc = "check"]})
  /\ UNCHANGED <<pending, cancelled, owner, retries, caller, speed, estopping,
                 phase, toStop, goal, clean>>

\* Mutants: the ramp ends one step early, never looks at its context, or does
\* not move on to the next step.
JobChecksEarly(j) ==
  /\ j.pc = "check"
  /\ JobBecomes(j, IF ~j.ramp \/ j.ctx \in cancelled \/ Len(j.todo) <= 2 THEN {}
                   ELSE {[j EXCEPT !.pc = "apply", !.todo = Tail(j.todo)]})
  /\ UNCHANGED <<pending, cancelled, owner, retries, caller, speed, store,
                 estopping, phase, toStop, goal, clean>>

JobChecksNothing(j) ==
  /\ j.pc = "check"
  /\ JobBecomes(j, IF ~j.ramp \/ Len(j.todo) = 1 THEN {}
                   ELSE {[j EXCEPT !.pc = "apply", !.todo = Tail(j.todo)]})
  /\ UNCHANGED <<pending, cancelled, owner, retries, caller, speed, store,
                 estopping, phase, toStop, goal, clean>>

JobChecksStuck(j) ==
  /\ j.pc = "check"
  /\ JobBecomes(j, IF ~j.ramp \/ j.ctx \in cancelled \/ Len(j.todo) = 1 THEN {}
                   ELSE {[j EXCEPT !.pc = "apply"]})
  /\ UNCHANGED <<pending, cancelled, owner, retries, caller, speed, store,
                 estopping, phase, toStop, goal, clean>>

\* A ramp looks at its context after a command, then sleeps and goes on.
JobChecks(j) ==
  /\ j.pc = "check"
  /\ JobBecomes(j, IF ~j.ramp \/ j.ctx \in cancelled \/ Len(j.todo) = 1 THEN {}
                   ELSE {[j EXCEPT !.pc = "apply", !.todo = Tail(j.todo)]})
  /\ UNCHANGED <<pending, cancelled, owner, retries, caller, speed, store,
                 estopping, phase, toStop, goal, clean>>

(***************************************************************************)
(* retrySetSpeed, the emergency stops, the end of a session, Shutdown.     *)
(***************************************************************************)

\* A retried stop knows of no newer command, and the store is not told.
RetrySetSpeed(r) ==
  /\ r \in retries
  /\ \/ /\ speed' = [speed EXCEPT ![r.a] = r.wire]
        /\ retries' = retries \ {r}
     \/ /\ StationMayFail
        /\ retries' = (retries \ {r}) \cup
             (IF r.left > 1 THEN {[r EXCEPT !.left = r.left - 1]} ELSE {})
        /\ UNCHANGED speed
  /\ UNCHANGED <<pending, cancelled, owner, jobs, caller, store, estopping,
                 phase, toStop, goal, clean>>

\* applyEmergencyStop and applyEStopTarget for one loco: no ramp is cancelled.
EStopStation(a) ==
  /\ "estop" \in Ops /\ store[a] # 0 /\ a \notin estopping
  /\ \/ speed' = [speed EXCEPT ![a] = 1] /\ estopping' = estopping \cup {a}
     \/ StationMayFail /\ UNCHANGED <<speed, estopping>>
  /\ clean' = FALSE
  /\ UNCHANGED <<pending, cancelled, owner, jobs, retries, caller, store,
                 phase, toStop, goal>>

EStopStore(a) ==
  /\ a \in estopping
  /\ store' = [store EXCEPT ![a] = 0]
  /\ estopping' = estopping \ {a}
  /\ UNCHANGED <<pending, cancelled, owner, jobs, retries, caller, speed,
                 phase, toStop, goal, clean>>

\* The request context ends with the WebSocket session's read loop.
SessionEnds(c) ==
  LET S == {k \in Ctx : owner[k] = {c}} \ cancelled
  IN  /\ "close" \in Ops /\ caller[c].pc = "idle" /\ S # {}
      /\ cancelled' = cancelled \cup S
      /\ clean' = FALSE
      /\ UNCHANGED <<pending, owner, jobs, retries, caller, speed, store,
                     estopping, phase, toStop, goal>>

\* Shutdown: CancelAll, then applyEStopAll over the roster; the store is set
\* to 0 also when the station call failed.
ShutdownCancels ==
  /\ "shutdown" \in Ops /\ phase = "up"
  /\ cancelled' = cancelled \cup ({pending} \ {NoCtx})
  /\ pending' = NoCtx
  /\ phase' = "stopping" /\ toStop' = Addr /\ clean' = FALSE
  /\ UNCHANGED <<owner, jobs, retries, caller, speed, store, estopping, goal>>

ShutdownStops(a) ==
  /\ phase = "stopping" /\ a \in toStop
  /\ \/ speed' = [speed EXCEPT ![a] = 1] /\ store' = [store EXCEPT ![a] = 0]
     \/ StationMayFail /\ UNCHANGED speed /\ store' = [store EXCEPT ![a] = 0]
     \/ StationMayFail /\ UNCHANGED <<speed, store>>
  /\ toStop' = toStop \ {a}
  /\ phase' = IF toStop = {a} THEN "stopped" ELSE phase
  /\ UNCHANGED <<pending, cancelled, owner, jobs, retries, caller, estopping,
                 goal, clean>>

(***************************************************************************)
(* The specification.                                                      *)
(***************************************************************************)
Init ==
  /\ pending = NoCtx /\ cancelled = {}
  /\ owner = [k \in Ctx |-> {}]
  /\ jobs = {} /\ retries = {}
  /\ caller = [c \in Caller |-> IdleCaller]
  /\ speed = [a \in Addr |-> 0] /\ store = [a \in Addr |-> 0]
  /\ estopping = {} /\ phase = "up" /\ toStop = {}
  /\ goal = [a \in Addr |-> 0] /\ clean = TRUE

Handler(c) ==
  CancelTrain(c) \/ ApplyMember(c) \/ StoreMember(c) \/ ScheduleDelayed(c)

Goroutine(j) == DelayElapses(j) \/ JobApplies(j) \/ JobStores(j) \/ JobChecks(j)

Environment ==
  \/ \E a \in Addr : EStopStation(a) \/ EStopStore(a) \/ ShutdownStops(a)
  \/ \E c \in Caller : SessionEnds(c)
  \/ ShutdownCancels

Next ==
  \/ \E c \in Caller : Handler(c) \/ \E p \in Payloads : HandleTrainSetSpeed(c, p)
  \/ \E j \in jobs : Goroutine(j)
  \/ \E r \in retries : RetrySetSpeed(r)
  \/ Environment

Spec == Init /\ [][Next]_vars

\* Every handler and every goroutine that is not asleep runs on, and sleeps
\* end.
Fairness ==
  /\ \A c \in Caller : WF_vars(Handler(c))
  /\ WF_vars(\E j \in jobs : Goroutine(j))
  /\ WF_vars(\E r \in retries : RetrySetSpeed(r))

FairSpec == Spec /\ Fairness

(***************************************************************************)
(* Properties.                                                             *)
(***************************************************************************)
\* Every variable has its type; a goroutine has a command left to send.
TypeOK ==
  /\ pending \in Ctx \cup {NoCtx} /\ cancelled \subseteq Ctx
  /\ owner \in [Ctx -> SUBSET Caller]
  /\ jobs \subseteq Job /\ \A j \in jobs : j.todo # <<>>
  /\ retries \subseteq Retry
  /\ caller \in [Caller -> CallerState]
  /\ speed \in [Addr -> Nat] /\ store \in [Addr -> Nat]
  /\ estopping \subseteq Addr /\ toStop \subseteq Addr
  /\ phase \in {"up", "stopping", "stopped"}
  /\ goal \in [Addr -> Nat] /\ clean \in BOOLEAN

\* A cancelled delay or ramp sends at most one more command: the context is
\* looked at once between two commands, never before the command itself.
LateAtMostOnce == \A j \in jobs : j.late <= 1

\* Every goroutine that is not cancelled can be: its context is the one the
\* next CancelTrain takes.
Cancellable == \A j \in jobs : j.ctx \in cancelled \/ j.ctx = pending

\* A ramp moves towards its target and never past it, its last command is the
\* target, and it has as many steps as fit at least MinStepMs apart.
RampShape ==
  \A c \in Caller : \A j \in caller[c].new : j.ramp =>
    LET n == Len(j.todo)
        target == Target(c, j.a)
        cur == caller[c].cur[j.a]
        ms == IF target > cur THEN Cfg[j.a].accelMs ELSE Cfg[j.a].brakeMs
        k == IF target > cur THEN Cfg[j.a].accelSteps ELSE Cfg[j.a].brakeSteps
    IN  /\ j.todo[n] = target
        /\ n = 1 \/ ms \div n >= MinStepMs
        /\ n >= k \/ ms \div (n + 1) < MinStepMs
        /\ \A i \in 1 .. n : LET before == IF i = 1 THEN cur ELSE j.todo[i - 1]
                             IN  IF target > cur
                                 THEN before <= j.todo[i] /\ j.todo[i] <= target
                                 ELSE before >= j.todo[i] /\ j.todo[i] >= target

Quiet == /\ jobs = {} /\ retries = {} /\ estopping = {}
         /\ \A c \in Caller : caller[c].pc = "idle"

\* When everything has run, a command that interrupted nothing, that no call
\* failed and no stop followed, has brought every member, ramped, delayed or
\* immediate, to its own target.
Settled ==
  Quiet /\ clean => \A a \in Addr : speed[a] = WireSpeedFromPayload(goal[a])
                                    /\ store[a] = UISpeedFromWire(speed[a])

\* Delays and ramps come to an end.
JobsEnd == jobs # {} ~> jobs = {}

\* A train command that nothing disturbs brings every member to its target
\* over ramps of the right shape, and what still runs can be cancelled
\* (applyTrainSetSpeed, scheduleDelayed, CancelTrain).
Settles == TypeOK /\ Cancellable /\ RampShape /\ Settled
=============================================================================
