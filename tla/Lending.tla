------------------------------ MODULE Lending -------------------------------
(***************************************************************************)
(* Who may drive a vehicle or train: the leases that owners grant          *)
(* (server/cmd/lease.go), the takeovers of signalmen (server/cmd/          *)
(* takeover.go, interlocking_occupancy.go), the Redis rows behind both and *)
(* the roster that tells the dcc-bus daemons (layout_roster_snapshot.go).  *)
(*                                                                         *)
(* A handler, and the callback of a timer, is a goroutine that makes one   *)
(* access to Redis or to the timer maps per step; between two steps other  *)
(* goroutines run, time passes, and the server may crash.  One owner has   *)
(* all targets on one layout, and there is one interlocking.  Who calls    *)
(* (owner, lessee or admin) decides only whether the call is refused, so   *)
(* callers are left out; Redis answers every command.                      *)
(***************************************************************************)
EXTENDS Integers, FiniteSets

CONSTANTS
  Vehicle, Train,     \* the targets on the roster
  Member,             \* Member[t]: the vehicles of a train
  Owner,              \* owner of every target
  User,               \* the other users: lessees and signalmen
  Proc,               \* goroutines of the server
  Duration,           \* the durations a lease may be given
  Limit,              \* speed limits
  Window,             \* TakeoverWindow, the driver's time to reject
  Hold,               \* TakeoverLeaseDuration
  Slack,              \* the 30 s a request outlives its timer in Redis
  MaxReq,             \* bound on the takeover requests
  MaxCalls,           \* bound on the calls of users
  MaxTime,            \* bound on the clock
  None

Target == Vehicle \cup Train
Id == 1 .. MaxReq
Time == 0 .. MaxTime
Due == 0 .. (MaxTime + Window + Hold + Slack + CHOOSE m \in Duration : \A d \in Duration : d <= m)

ASSUME LendingAssumption ==
  /\ Vehicle \cap Train = {} /\ Member \in [Train -> SUBSET Vehicle]
  /\ Owner \notin User
  /\ Duration \subseteq Nat \ {0} /\ \E m \in Duration : \A d \in Duration : d <= m
  /\ 0 \in Limit /\ IsFiniteSet(Proc)
  /\ Window \in Nat \ {0} /\ Hold \in Nat \ {0} /\ Slack \in Nat \ {0}
  /\ MaxReq \in Nat /\ MaxCalls \in Nat /\ MaxTime \in Nat
  /\ None \notin {Owner} \cup User \cup Target

VARIABLES
  now,        \* the clock
  up,         \* is the server running?
  lease,      \* Redis: the lease of a target, gone when its TTL is over
  idx,        \* Redis: the keys in the owner's and the lessees' index
  req,        \* Redis: the active takeover requests
  pending,    \* Redis: the pending request of a target
  made,       \* Redis: the request counter
  roster,     \* Redis: who may drive each target, nobody for the owner
  box,        \* the open session of the interlocking
  ltimer,     \* Lease.timers: when each one fires
  gtimer,     \* Takeover.grantTimers
  rtimer,     \* Takeover.releaseTimers
  proc,       \* the goroutines
  calls,      \* the calls so far
  owed,       \* history: a lent target that has not been braked since
  overlap     \* history: did two goroutines ever run at once?

redis == <<lease, idx, req, pending, made>>
timers == <<ltimer, gtimer, rtimer>>
vars == <<now, up, redis, roster, box, timers, proc, calls, owed, overlap>>

Lease == [to : User, limit : Limit, exp : Due, src : {"manual", "takeover"}]
Request == [st : {"pending", "granted"}, t : Target, sig : User, at : Due,
            until : Due]
Right == [to : User, limit : Limit]

ASSUME NoneAssumption == None \notin Lease \cup Request \cup Due \cup Id

Idle == [pc |-> "idle", t |-> None, id |-> None, row |-> None, todo |-> {},
         then |-> "idle", old |-> FALSE]

(***************************************************************************)
(* The lease store (repo/leases_redis.go).                                 *)
(***************************************************************************)

\* The indexes without the key of t's lease.
Unindexed(t) ==
  [u \in DOMAIN idx |->
     IF lease[t] # None /\ u \in {Owner, lease[t].to} THEN idx[u] \ {t}
     ELSE idx[u]]

Indexed(index, t, u) ==
  [index EXCEPT ![Owner] = @ \cup {t}, ![u] = @ \cup {t}]

\* leaseCreateNXScript: the key and the indexes, unless the key exists.
CreateNX(t, row) ==
  /\ lease[t] = None
  /\ lease' = [lease EXCEPT ![t] = row]
  /\ idx' = Indexed(idx, t, row.to)

\* createLeaseOverwrite: replaces the row of whoever has the target.
CreateOverwrite(t, row) ==
  /\ lease' = [lease EXCEPT ![t] = row]
  /\ idx' = Indexed(Unindexed(t), t, row.to)

\* revokeLeaseKey: removes whichever row is there.
RevokeKey(t) ==
  /\ lease' = [lease EXCEPT ![t] = None]
  /\ idx' = Unindexed(t)

\* updateLeaseKey: SET XX of the whole row.  A row that has run out lives one
\* second more but is never active.
UpdateKey(t, row) ==
  /\ lease' = [lease EXCEPT ![t] = IF row.exp > now THEN row ELSE None]
  /\ UNCHANGED idx

\* ListAll scans the keys of all leases.
ListAll == {t \in Target : lease[t] # None}

\* Keys of an index whose lease has run out: a list removes them.
StaleKeys(u) == {t \in idx[u] : lease[t] = None}

\* ListReceived: every lease under the user's index.
ListReceived(u) == idx[u] \ StaleKeys(u)

(***************************************************************************)
(* The takeover store (repo/takeover_requests_redis.go).                   *)
(***************************************************************************)

SavePending(id, row) ==
  /\ req' = [req EXCEPT ![id] = row]
  /\ pending' = [pending EXCEPT ![row.t] = id]

SaveGranted(id, row) ==
  /\ req' = [req EXCEPT ![id] = row]
  /\ pending' = [pending EXCEPT ![row.t] = None]

\* deleteActive also deletes the pending key of the target, whose ever it is.
DeleteActive(id, t) ==
  /\ req' = [req EXCEPT ![id] = None]
  /\ pending' = [pending EXCEPT ![t] = None]

InState(id, st) == req[id] # None /\ req[id].st = st

FindPendingForTarget(t) ==
  pending[t] # None /\ req[pending[t]] # None

GrantedTo(u) == {<<id, req[id].t>> : id \in
                   {i \in Id : InState(i, "granted") /\ req[i].sig = u}}

(***************************************************************************)
(* Goroutines.                                                             *)
(***************************************************************************)

Busy == {p \in Proc : proc[p].pc # "idle"}

\* The server starts a goroutine whose first access leaves it at state s.
Start(p, s) ==
  /\ up /\ proc[p].pc = "idle"
  /\ proc' = [proc EXCEPT ![p] = s]
  /\ overlap' = (overlap \/ (Busy # {} /\ s.pc # "idle"))

\* A step of a running goroutine.
Step(p, from, s) ==
  /\ proc[p].pc = from
  /\ proc' = [proc EXCEPT ![p] = s]
  /\ UNCHANGED <<now, up, box, overlap>>

To(p, pc) == [proc[p] EXCEPT !.pc = pc]

(***************************************************************************)
(* The roster.                                                             *)
(***************************************************************************)

RightOf(t) ==
  IF lease[t] = None THEN {}
  ELSE {[to |-> lease[t].to, limit |-> lease[t].limit]}

\* A vehicle may be driven under its own lease and under those of its trains.
LesseesByVehicle(v) ==
  RightOf(v) \cup UNION {RightOf(k) : k \in {j \in Train : v \in Member[j]}}

TrainLessees(k) == RightOf(k)

Snapshot == [t \in Target |->
               IF t \in Vehicle THEN LesseesByVehicle(t) ELSE TrainLessees(t)]

\* SyncLayoutRosterToRedis reads the leases...
SyncRead(p) ==
  /\ Step(p, "read", [To(p, "publish") EXCEPT !.row = Snapshot])
  /\ UNCHANGED <<redis, roster, timers, owed>>

\* ... and publishes what it read.
SyncPublish(p) ==
  /\ Step(p, "publish",
          IF proc[p].then = "idle" THEN Idle
          ELSE [To(p, proc[p].then) EXCEPT !.row = None, !.then = "idle"])
  /\ roster' = proc[p].row
  /\ UNCHANGED <<redis, timers, owed>>

(***************************************************************************)
(* Leases.                                                                 *)
(***************************************************************************)

\* Create: the checks and the row.
Create(p, t, u, l, d) ==
  /\ CreateNX(t, [to |-> u, limit |-> l, exp |-> now + d, src |-> "manual"])
  /\ Start(p, [Idle EXCEPT !.pc = "arm", !.t = t, !.row = now + d,
                           !.then = "read"])
  /\ owed' = [owed EXCEPT ![t] = TRUE]
  /\ UNCHANGED <<now, up, box, req, pending, made, roster, timers>>

\* scheduleExpiry replaces the timer of the target.
ScheduleExpiry(p) ==
  /\ Step(p, "arm", IF proc[p].then = "idle" THEN Idle
                    ELSE [To(p, "read") EXCEPT !.row = None, !.then = "idle"])
  /\ ltimer' = [ltimer EXCEPT ![proc[p].t] = proc[p].row]
  /\ UNCHANGED <<redis, roster, gtimer, rtimer, owed>>

\* The daemons are told to stop the locomotives of the target.
StopLeasedTarget(t) == [owed EXCEPT ![t] = FALSE]

\* Revoke brakes the target first...
Revoke(p, t) ==
  /\ lease[t] # None
  /\ Start(p, [Idle EXCEPT !.pc = "revoke", !.t = t])
  /\ owed' = StopLeasedTarget(t)
  /\ UNCHANGED <<now, up, box, redis, roster, timers>>

\* ... then removes the row...
RevokeStore(p) ==
  /\ Step(p, "revoke", To(p, "disarm"))
  /\ RevokeKey(proc[p].t)
  /\ UNCHANGED <<req, pending, made, roster, timers, owed>>

\* ... and the timer.
CancelTimer(p) ==
  /\ Step(p, "disarm", To(p, "read"))
  /\ ltimer' = [ltimer EXCEPT ![proc[p].t] = None]
  /\ UNCHANGED <<redis, roster, gtimer, rtimer, owed>>

\* UpdateSpeedLimit and UpdateDuration load the row, change it...
UpdateSpeedLimit(p, t, l) ==
  /\ lease[t] # None /\ lease[t].limit # l
  /\ Start(p, [Idle EXCEPT !.pc = "update", !.t = t, !.then = "read",
                           !.row = [lease[t] EXCEPT !.limit = l]])
  /\ UNCHANGED <<now, up, box, redis, roster, timers, owed>>

UpdateDuration(p, t, d) ==
  /\ lease[t] # None
  /\ Start(p, [Idle EXCEPT !.pc = "update", !.t = t, !.then = "arm",
                           !.row = [lease[t] EXCEPT !.exp = now + d]])
  /\ UNCHANGED <<now, up, box, redis, roster, timers, owed>>

\* ... and write it back whole, if there is a row still.
UpdateStore(p) ==
  LET s == proc[p]
  IN  /\ s.pc = "update"
      /\ IF lease[s.t] = None
         THEN /\ Step(p, "update", Idle)
              /\ UNCHANGED <<lease, idx>>
         ELSE /\ Step(p, "update",
                      IF s.then = "arm"
                      THEN [To(p, "arm") EXCEPT !.row = s.row.exp, !.then = "read"]
                      ELSE [To(p, "read") EXCEPT !.row = None, !.then = "idle"])
              /\ UpdateKey(s.t, s.row)
      /\ UNCHANGED <<req, pending, made, roster, timers, owed>>

\* The timer of a lease fires: expireLease arms it again if the lease was
\* renewed or taken over.
ExpiryFires(p, t) ==
  /\ ltimer[t] # None /\ ltimer[t] <= now
  /\ ltimer' = [ltimer EXCEPT ![t] = None]
  /\ Start(p, IF lease[t] # None
              THEN [Idle EXCEPT !.pc = "arm", !.t = t, !.row = lease[t].exp]
              ELSE [Idle EXCEPT !.pc = "expired", !.t = t])
  /\ UNCHANGED <<now, up, box, redis, roster, gtimer, rtimer, owed>>

\* Mutant: the daemons are not told.
ExpireUnsynced(p) ==
  /\ Step(p, "expired", Idle)
  /\ ltimer' = [ltimer EXCEPT ![proc[p].t] = None]
  /\ owed' = StopLeasedTarget(proc[p].t)
  /\ UNCHANGED <<redis, roster, gtimer, rtimer>>

\* Mutant: the target is not braked.
ExpireUnbraked(p) ==
  /\ Step(p, "expired", To(p, "read"))
  /\ ltimer' = [ltimer EXCEPT ![proc[p].t] = None]
  /\ UNCHANGED <<redis, roster, gtimer, rtimer, owed>>

\* Otherwise it removes the timer, brakes the target and syncs the roster.
ExpireLease(p) ==
  /\ Step(p, "expired", To(p, "read"))
  /\ ltimer' = [ltimer EXCEPT ![proc[p].t] = None]
  /\ owed' = StopLeasedTarget(proc[p].t)
  /\ UNCHANGED <<redis, roster, gtimer, rtimer>>

\* ListByOwner, ListByLessee: read the index and its rows...
ListLeases(p, u) ==
  /\ StaleKeys(u) # {}
  /\ Start(p, [Idle EXCEPT !.pc = "clean", !.id = u, !.todo = StaleKeys(u)])
  /\ UNCHANGED <<now, up, box, redis, roster, timers, owed>>

\* ... and drop the keys that had no row.
CleanIndex(p) ==
  /\ Step(p, "clean", Idle)
  /\ idx' = [idx EXCEPT ![proc[p].id] = @ \ proc[p].todo]
  /\ UNCHANGED <<lease, req, pending, made, roster, timers, owed>>

(***************************************************************************)
(* Takeovers.                                                              *)
(***************************************************************************)

\* Request: the caller staffs the box and nobody else asks for the target.
RequestTakeover(p, t, s) ==
  /\ box = s /\ ~FindPendingForTarget(t)
  /\ now + Window + Slack <= MaxTime
  /\ made + Cardinality({q \in Busy : proc[q].pc = "insert"}) < MaxReq
  /\ Start(p, [Idle EXCEPT !.pc = "insert", !.t = t, !.id = s])
  /\ UNCHANGED <<now, up, box, redis, roster, timers, owed>>

InsertRequest(p) ==
  LET id == made + 1
  IN  /\ Step(p, "insert", [To(p, "window") EXCEPT !.id = id])
      /\ made' = id
      /\ SavePending(id, [st |-> "pending", t |-> proc[p].t, sig |-> proc[p].id,
                          at |-> now + Window, until |-> now + Window + Slack])
      /\ UNCHANGED <<lease, idx, roster, timers, owed>>

\* Mutant: the timer is set to the time of the request.
ScheduleAtOnce(p) ==
  /\ Step(p, "window", Idle)
  /\ gtimer' = [gtimer EXCEPT ![proc[p].id] = now]
  /\ UNCHANGED <<redis, roster, ltimer, rtimer, owed>>

ScheduleAutoGrant(p) ==
  /\ Step(p, "window", Idle)
  /\ gtimer' = [gtimer EXCEPT ![proc[p].id] = now + Window]
  /\ UNCHANGED <<redis, roster, ltimer, rtimer, owed>>

\* The driver rejects or the signalman cancels: both load a pending request...
LoadPending(p, id) ==
  /\ InState(id, "pending")
  /\ Start(p, [Idle EXCEPT !.pc = "decide", !.id = id, !.t = req[id].t])
  /\ UNCHANGED <<now, up, box, redis, roster, timers, owed>>

Reject(p, id) == LoadPending(p, id)
Cancel(p, id) == LoadPending(p, id)

\* ... remove it...
Decide(p) ==
  /\ Step(p, "decide", To(p, "ungrant"))
  /\ DeleteActive(proc[p].id, proc[p].t)
  /\ UNCHANGED <<lease, idx, made, roster, timers, owed>>

\* ... and its timer.
CancelGrantTimer(p) ==
  /\ Step(p, "ungrant", Idle)
  /\ gtimer' = [gtimer EXCEPT ![proc[p].id] = None]
  /\ UNCHANGED <<redis, roster, ltimer, rtimer, owed>>

\* The window is over: autoGrant loads the request...
AutoGrant(p, id) ==
  /\ gtimer[id] # None /\ gtimer[id] <= now
  /\ gtimer' = [gtimer EXCEPT ![id] = None]
  /\ Start(p, IF InState(id, "pending")
              THEN [Idle EXCEPT !.pc = "grant", !.id = id, !.t = req[id].t,
                       !.row = [st |-> "granted", t |-> req[id].t,
                                sig |-> req[id].sig, at |-> now,
                                until |-> now + Hold + Slack]]
              ELSE Idle)
  /\ UNCHANGED <<now, up, box, redis, roster, ltimer, rtimer, owed>>

\* ... gives the target to the signalman, whoever has it...
GrantLease(p) ==
  LET s == proc[p]
  IN  /\ Step(p, "grant", To(p, "granted"))
      /\ CreateOverwrite(s.t, [to |-> s.row.sig, limit |-> 0,
                               exp |-> s.row.at + Hold, src |-> "takeover"])
      /\ owed' = [owed EXCEPT ![s.t] = FALSE]
      /\ UNCHANGED <<req, pending, made, roster, timers>>

\* ... and writes the request back.
GrantRequest(p) ==
  /\ Step(p, "granted", [To(p, "read") EXCEPT !.row = None, !.then = "watch",
                                              !.todo = {proc[p].row.at + Hold}])
  /\ SaveGranted(proc[p].id, proc[p].row)
  /\ UNCHANGED <<lease, idx, made, roster, timers, owed>>

ScheduleLeaseRelease(p) ==
  /\ Step(p, "watch", Idle)
  /\ rtimer' = [rtimer EXCEPT ![proc[p].id] = CHOOSE d \in proc[p].todo : TRUE]
  /\ UNCHANGED <<redis, roster, ltimer, gtimer, owed>>

Releasing(id, t, todo) ==
  [Idle EXCEPT !.pc = "release", !.id = id, !.t = t, !.todo = todo]

\* Release by the signalman.
Release(p, id) ==
  /\ InState(id, "granted")
  /\ Start(p, Releasing(id, req[id].t, {}))
  /\ UNCHANGED <<now, up, box, redis, roster, timers, owed>>

\* The takeover has run out.
ReleaseFires(p, id) ==
  /\ rtimer[id] # None /\ rtimer[id] <= now
  /\ rtimer' = [rtimer EXCEPT ![id] = None]
  /\ Start(p, IF InState(id, "granted") THEN Releasing(id, req[id].t, {})
              ELSE Idle)
  /\ UNCHANGED <<now, up, box, redis, roster, ltimer, gtimer, owed>>

\* release: the timers and the lease, whose ever it is by now...
ReleaseLease(p) ==
  LET s == proc[p]
  IN  /\ Step(p, "release", To(p, "released"))
      /\ gtimer' = [gtimer EXCEPT ![s.id] = None]
      /\ rtimer' = [rtimer EXCEPT ![s.id] = None]
      /\ RevokeKey(s.t)
      /\ owed' = [owed EXCEPT ![s.t] = FALSE]
      /\ UNCHANGED <<req, pending, made, roster, ltimer>>

\* ... then the request.
ReleaseRequest(p) ==
  /\ Step(p, "released", [To(p, "read") EXCEPT
                            !.then = IF proc[p].todo = {} THEN "idle" ELSE "next"])
  /\ DeleteActive(proc[p].id, proc[p].t)
  /\ UNCHANGED <<lease, idx, made, roster, timers, owed>>

\* ReleaseAllForSignalman goes on with the next of the rows it has loaded.
ReleaseNext(p) ==
  \E r \in proc[p].todo :
    /\ Step(p, "next", Releasing(r[1], r[2], proc[p].todo \ {r}))
    /\ UNCHANGED <<redis, roster, timers, owed>>

(***************************************************************************)
(* The interlocking (server/cmd/interlocking_occupancy.go).                *)
(***************************************************************************)

\* The signalman u is out of the box: end the takeovers, with the requests
\* granted by then.
EndShift(p, u) ==
  Start(p, IF GrantedTo(u) = {} THEN Idle
           ELSE [Idle EXCEPT !.pc = "next", !.todo = GrantedTo(u)])

\* Join; with force, the occupant is displaced.
Join(p, s) ==
  /\ box # s
  /\ box' = s
  /\ IF box = None THEN Start(p, Idle) ELSE EndShift(p, box)
  /\ UNCHANGED <<now, up, redis, roster, timers, owed>>

Leave(p) ==
  /\ box # None
  /\ box' = None
  /\ EndShift(p, box)
  /\ UNCHANGED <<now, up, redis, roster, timers, owed>>

(***************************************************************************)
(* Time, crashes and restarts.                                             *)
(***************************************************************************)

\* Is a timer of the function tm overdue by d?
Overdue(tm, d) == \E x \in DOMAIN tm : tm[x] # None /\ tm[x] + d <= now

\* Time passes; Redis drops what has run out.  A timer of a running server is
\* less than Slack (30 s) late, and a goroutine sees the clock move once.
Tick ==
  LET dead == {i \in Id : req[i] # None /\ req[i].until <= now + 1}
  IN  /\ now < MaxTime
      /\ ~Overdue(ltimer, Slack - 1) /\ ~Overdue(gtimer, Slack - 1)
      /\ ~Overdue(rtimer, Slack - 1)
      /\ \A p \in Proc : ~proc[p].old
      /\ proc' = [p \in Proc |-> [proc[p] EXCEPT !.old = (p \in Busy)]]
      /\ now' = now + 1
      /\ lease' = [t \in Target |->
                     IF lease[t] # None /\ lease[t].exp <= now + 1 THEN None
                     ELSE lease[t]]
      /\ req' = [i \in Id |-> IF i \in dead THEN None ELSE req[i]]
      /\ pending' = [t \in Target |-> IF pending[t] \in dead THEN None
                                      ELSE pending[t]]
      /\ UNCHANGED <<up, idx, made, roster, box, timers, owed, overlap>>

Crash ==
  /\ up
  /\ up' = FALSE
  /\ proc' = [p \in Proc |-> Idle]
  /\ ltimer' = [t \in Target |-> None]
  /\ gtimer' = [i \in Id |-> None]
  /\ rtimer' = [i \in Id |-> None]
  /\ UNCHANGED <<now, redis, roster, box, owed, overlap>>

\* Mutant: only manual leases are watched after a restart.
RecoverManual ==
  [t \in Target |-> IF lease[t] # None /\ lease[t].src = "manual"
                    THEN lease[t].exp ELSE None]

\* Lease.RecoverPending: a timer for every lease that is still active.
RecoverLeases ==
  [t \in Target |-> IF t \in ListAll THEN lease[t].exp ELSE None]

\* Takeover.RecoverPending: a timer for every pending request; one whose
\* window is over is granted at once.
RecoverRequests ==
  [i \in Id |-> IF InState(i, "pending")
                THEN IF req[i].at > now THEN req[i].at ELSE now
                ELSE None]

\* The server starts: nobody is in the box, timers are set again, and the
\* roster is published.  A lease that ran out meanwhile is nobody's business.
Restart(p) ==
  /\ ~up
  /\ up' = TRUE
  /\ box' = None
  /\ ltimer' = RecoverLeases
  /\ gtimer' = RecoverRequests
  /\ proc' = [proc EXCEPT ![p] = [Idle EXCEPT !.pc = "read"]]
  /\ owed' = [t \in Target |-> owed[t] /\ lease[t] # None]
  /\ UNCHANGED <<now, redis, roster, rtimer, overlap>>

-----------------------------------------------------------------------------
Init ==
  /\ now = 0 /\ up = TRUE
  /\ lease = [t \in Target |-> None]
  /\ idx = [u \in User \cup {Owner} |-> {}]
  /\ req = [i \in Id |-> None] /\ pending = [t \in Target |-> None] /\ made = 0
  /\ roster = [t \in Target |-> {}]
  /\ box = None
  /\ ltimer = [t \in Target |-> None]
  /\ gtimer = [i \in Id |-> None] /\ rtimer = [i \in Id |-> None]
  /\ proc = [p \in Proc |-> Idle]
  /\ owed = [t \in Target |-> FALSE]
  /\ calls = 0 /\ overlap = FALSE

\* What users ask for: the lease routes, the messages of a takeover, and the
\* routes of the interlocking.
LeaseCalls(p) ==
  \/ \E t \in Target :
       \/ \E u \in User, l \in Limit, d \in Duration : Create(p, t, u, l, d)
       \/ Revoke(p, t)
       \/ \E l \in Limit : UpdateSpeedLimit(p, t, l)
       \/ \E d \in Duration : UpdateDuration(p, t, d)
  \/ \E u \in User \cup {Owner} : ListLeases(p, u)

TakeoverCalls(p) ==
  \/ \E t \in Target, s \in User : RequestTakeover(p, t, s)
  \/ \E i \in Id : Reject(p, i) \/ Cancel(p, i) \/ Release(p, i)

BoxCalls(p) == Leave(p) \/ \E s \in User : Join(p, s)

\* What the timers start.
Fires(p) ==
  \/ \E t \in Target : ExpiryFires(p, t)
  \/ \E i \in Id : AutoGrant(p, i) \/ ReleaseFires(p, i)

\* What a running goroutine does next.
Runs(p) ==
  \/ SyncRead(p) \/ SyncPublish(p) \/ ScheduleExpiry(p) \/ RevokeStore(p)
  \/ CancelTimer(p) \/ UpdateStore(p) \/ ExpireLease(p) \/ CleanIndex(p)
  \/ InsertRequest(p) \/ ScheduleAutoGrant(p) \/ Decide(p)
  \/ CancelGrantTimer(p) \/ GrantLease(p) \/ GrantRequest(p)
  \/ ScheduleLeaseRelease(p) \/ ReleaseLease(p) \/ ReleaseRequest(p)
  \/ ReleaseNext(p)

Next ==
  \/ /\ calls < MaxCalls /\ calls' = calls + 1
     /\ \E p \in Proc : LeaseCalls(p) \/ TakeoverCalls(p) \/ BoxCalls(p)
  \/ /\ UNCHANGED calls
     /\ \/ \E p \in Proc : Fires(p) \/ Runs(p) \/ Restart(p)
        \/ Tick \/ Crash

Spec == Init /\ [][Next]_vars

-----------------------------------------------------------------------------
TypeOK ==
  /\ now \in Time /\ up \in BOOLEAN /\ overlap \in BOOLEAN
  /\ lease \in [Target -> Lease \cup {None}]
  /\ idx \in [User \cup {Owner} -> SUBSET Target]
  /\ req \in [Id -> Request \cup {None}]
  /\ pending \in [Target -> Id \cup {None}] /\ made \in 0 .. MaxReq
  /\ calls \in 0 .. MaxCalls
  /\ roster \in [Target -> SUBSET Right]
  /\ box \in User \cup {None}
  /\ ltimer \in [Target -> Due \cup {None}]
  /\ gtimer \in [Id -> Due \cup {None}] /\ rtimer \in [Id -> Due \cup {None}]
  /\ DOMAIN proc = Proc /\ owed \in [Target -> BOOLEAN]

\* No goroutine runs and no timer is due.
Quiet ==
  /\ up /\ Busy = {}
  /\ ~Overdue(ltimer, 0) /\ ~Overdue(gtimer, 0) /\ ~Overdue(rtimer, 0)

\* As long as handlers do not overlap, a running lease is watched by a timer
\* that fires no later than its end: its own, or that of the takeover it came
\* from (scheduleExpiry, expireLease, RecoverPending, scheduleLeaseRelease).
LeaseWatched ==
  up /\ Busy = {} /\ ~overlap =>
    \A t \in Target : lease[t] # None =>
      \/ ltimer[t] # None /\ ltimer[t] <= lease[t].exp
      \/ \E i \in Id : /\ InState(i, "granted") /\ req[i].t = t
                       /\ rtimer[i] # None /\ rtimer[i] <= lease[t].exp

\* As long as handlers do not overlap, whenever the server is quiet the
\* daemons know who may drive: no right survives the end of its lease, also
\* across restarts (SyncLayoutRosterToRedis after every change).
RosterFollows == Quiet /\ ~overlap => roster = Snapshot

\* As long as handlers do not overlap, a target whose lease ran out while the
\* server was up has been braked (expireLease, Revoke).
BrakedAtEnd ==
  Quiet /\ ~overlap => \A t \in Target : owed[t] => lease[t] # None

\* As long as handlers do not overlap, the owner and the lessee of a lease
\* find it in their list (the indexes of leases_redis.go).
ListedToParties ==
  ~overlap => \A t \in Target :
    lease[t] # None => t \in ListReceived(lease[t].to) \cap ListReceived(Owner)

\* The driver always has the whole window to reject, also if the server
\* restarts meanwhile (scheduleAutoGrant, RecoverPending).
NoEarlyGrant ==
  [][\A i \in Id : InState(i, "pending") /\ InState(i, "granted")'
                     => now >= req[i].at]_vars

\* Whatever overlaps, a pending request has a timer, or a goroutine that is
\* about to set it, grant it or remove it: the signalman never waits for
\* nothing (RecoverPending, scheduleAutoGrant, the timer maps keyed by request).
RequestWatched ==
  up => \A i \in Id : InState(i, "pending") =>
          \/ gtimer[i] # None
          \/ \E p \in Proc : proc[p].pc \in {"window", "grant", "granted"}
                             /\ proc[p].id = i

\* Nothing waits for a timer that is not there: leases end and requests are
\* answered, also after a restart (RecoverPending).
Watched == TypeOK /\ LeaseWatched /\ RequestWatched

\* What the daemons and the two parties are shown follows the leases
\* (SyncLayoutRosterToRedis, the indexes of leases_redis.go).
ViewsFollow == RosterFollows /\ ListedToParties
=============================================================================
