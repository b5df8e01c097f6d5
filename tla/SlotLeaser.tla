----------------------------- MODULE SlotLeaser -----------------------------
(***************************************************************************)
(* The slot leaser of the dcc-bus daemon (dcc-bus/slotlease/leaser.go):    *)
(* the reference-counted ledger of who drives which locomotive address,    *)
(* with a per-user cap, a command-station slot budget, a switcher-grace    *)
(* window, a background release worker, an idle sweep and a reconciler.    *)
(*                                                                         *)
(* One action is one critical section of Leaser.mu, or one call to the     *)
(* command station made without the lock.  A goroutine that is between two *)
(* of them has a program counter in th[p].                                 *)
(***************************************************************************)
EXTENDS Integers, FiniteSets, Sequences

CONSTANTS
  Addr,            \* DCC addresses
  User,            \* BigFred users (UserID # 0)
  Session,         \* driver sessions; a session belongs to one user
  UserOf,          \* [Session -> User]
  WsSession,       \* the sessions whose HolderKey.Source is "ws"
  MayDrive,        \* what the DriveGate allows: a subset of User \X Addr
  Client,          \* goroutines that call the leaser for a session
  Worker,          \* the goroutine of RunReleaseWorker
  Sweeper,         \* the goroutine of RunIdleSweep
  Reconciler,      \* the goroutine of RunSlotReconcile
  External,        \* the synthetic holder of a slot seen on the bus
  NoAddr, NoSession,
  MaxPerUser,      \* Config.MaxPerUser
  MaxSlots,        \* Config.MaxSlots, 0 = unlimited
  GraceEvictMax,   \* defaultGraceEvictMax
  QueueSize,       \* releaseQueueSize
  Retries,         \* slotReleaseRetryCount
  ReconcileMax,    \* slotReconcileMaxPerCycle
  StationMayFail,  \* may the command station refuse a call?
  Ops              \* the entry points the environment uses

Proc == Client \cup {Worker, Sweeper, Reconciler}

ASSUME ConstantsAssumption ==
  /\ IsFiniteSet(Addr) /\ IsFiniteSet(Session)
  /\ UserOf \in [Session -> User]
  /\ WsSession \subseteq Session
  /\ MayDrive \subseteq User \X Addr
  /\ External \notin Session /\ NoAddr \notin Addr /\ NoSession \notin Session
  /\ MaxPerUser \in Nat \ {0} /\ MaxSlots \in Nat
  /\ GraceEvictMax \in Nat /\ QueueSize \in Nat
  /\ Retries \in Nat \ {0} /\ ReconcileMax \in Nat \ {0}
  /\ StationMayFail \in BOOLEAN

VARIABLES
  leases,          \* Leaser.leases
  perUser,         \* Leaser.perUser
  turn,            \* Leaser.userAddrOrder: turn[u][a] is a's rank, 0 = absent
  releasing,       \* Leaser.releasing
  releasePending,  \* Leaser.releasePending
  queue,           \* Leaser.releaseCh
  suppressExternal,\* Leaser.suppressExternal
  slot,            \* the station's slot table: is the address IN_USE?
  moving,          \* has the decoder a non-zero speed?
  probed,          \* acquiredAt of the reconciler's candidates, -1 = none
  th               \* what every goroutine is doing

ledger == <<leases, perUser, turn, releasing, releasePending>>
vars == <<leases, perUser, turn, releasing, releasePending, queue,
          suppressExternal, slot, moving, probed, th>>

Holder == Session \cup {External}

(***************************************************************************)
(* Times.  acquiredAt is only compared with zero and, by the reconciler,   *)
(* with the value it read earlier, so two stamps are enough: Now(a) is one *)
(* the reconciler does not hold.  releaseAt and the FIFO order are only    *)
(* compared with each other: they are kept as ranks.                       *)
(***************************************************************************)
Stamp == 0 .. 2

Now(a) == IF probed[a] = 1 THEN 2 ELSE 1

Lease == [live : BOOLEAN, holders : SUBSET Holder, driven : SUBSET Session,
          acquiredAt : Stamp, acquiring : BOOLEAN, releaseAfter : BOOLEAN,
          releaseAt : Nat]

NoLease == [live |-> FALSE, holders |-> {}, driven |-> {}, acquiredAt |-> 0,
            acquiring |-> FALSE, releaseAfter |-> FALSE, releaseAt |-> 0]

\* Rank of x among the non-zero entries of f, and f with x enlisted last.
Rank(f, x) == Cardinality({y \in DOMAIN f : 0 < f[y] /\ f[y] <= f[x]})

Enlist(f, x) ==
  IF f[x] # 0 THEN f
  ELSE [y \in DOMAIN f |->
          IF y = x THEN 1 + Cardinality({z \in DOMAIN f : f[z] # 0})
                   ELSE Rank(f, y)]

(***************************************************************************)
(* Goroutines.  A thread carries the call it serves (op, s, a), the slots  *)
(* it still needs, its counters, the train members left and taken, the     *)
(* address it is releasing and where to go on after the release.           *)
(***************************************************************************)
PCs == {"idle", "budget", "trainBudget", "evict", "add", "check", "acquire",
        "acquired", "refused", "drive", "next", "rollback", "enqueue",
        "scheduled", "reuse1", "estop", "reuse2", "reuse3", "release",
        "park", "drain", "drained", "probe", "confirm"}

Thread == [pc : PCs, op : {"none", "drive", "select", "train"},
           s : Session \cup {NoSession}, a : Addr \cup {NoAddr},
           need : Nat, n : Nat, rest : SUBSET Addr, got : SUBSET Addr,
           rel : Addr \cup {NoAddr}, todo : SUBSET Addr, r : Nat,
           back : PCs, draining : BOOLEAN]

Idle == [pc |-> "idle", op |-> "none", s |-> NoSession, a |-> NoAddr,
         need |-> 0, n |-> 0, rest |-> {}, got |-> {}, rel |-> NoAddr,
         todo |-> {}, r |-> 0, back |-> "idle", draining |-> FALSE]

Become(p, t) == th' = [th EXCEPT ![p] = t]

At(p, pc) == th[p].pc = pc

\* The end of a release sub-routine: back to the code that called it.
Return(t) == IF t.back = "idle" THEN Idle
             ELSE [t EXCEPT !.pc = t.back, !.rel = NoAddr, !.r = 0,
                            !.back = "idle"]

\* The loop over toRelease (or, when draining, over releasePending).
NextRelease(p, t) ==
  \/ /\ t.todo = {}
     /\ Become(p, Return(t))
  \/ \E b \in t.todo :
       Become(p, [t EXCEPT !.pc = IF t.draining THEN "reuse3" ELSE "reuse1",
                           !.rel = b, !.todo = t.todo \ {b}, !.r = 0])

\* The call in t succeeded, or failed: what its caller does next.
Succeed(p, t) ==
  Become(p, CASE t.op = "drive" -> [t EXCEPT !.pc = "drive"]
              [] t.op = "train" -> [t EXCEPT !.pc = "next",
                                             !.got = t.got \cup {t.a}]
              [] OTHER -> Idle)

Fail(p, t) ==
  Become(p, IF t.op = "train" THEN [t EXCEPT !.pc = "rollback"] ELSE Idle)

(***************************************************************************)
(* Views of the ledger.                                                    *)
(***************************************************************************)
HeldBy(u, a) == {s \in Session : s \in leases[a].holders /\ UserOf[s] = u}

Occupies(a) == leases[a].live
               /\ (leases[a].acquiredAt # 0 \/ leases[a].releaseAt # 0)

BudgetActive == Cardinality({a \in Addr : Occupies(a)})

Headroom(needed) ==
  MaxSlots = 0 \/ needed = 0 \/ BudgetActive + needed <= MaxSlots

Graced == {a \in Addr : leases[a].live /\ leases[a].releaseAt # 0
                                       /\ leases[a].holders = {}}

Evictable(u, skip) ==
  {a \in Addr : a # skip /\ turn[u][a] # 0 /\ leases[a].live
                /\ HeldBy(u, a) # {}}

OldestEvictable(u, skip) ==
  {a \in Evictable(u, skip) :
     \A b \in Evictable(u, skip) : turn[u][a] <= turn[u][b]}

Monus(m, k) == IF k <= m THEN m - k ELSE 0

(***************************************************************************)
(* Changes to the ledger made inside one critical section.                 *)
(***************************************************************************)

\* Mutant: the FIFO keeps the address.
RemoveHolderStaysListed(s, S) ==
  /\ perUser' = [perUser EXCEPT ![UserOf[s]] = Monus(@, Cardinality(S))]
  /\ UNCHANGED turn

\* removeHolderLocked for session s on every address of S.
RemoveHolder(s, S) ==
  /\ perUser' = [perUser EXCEPT ![UserOf[s]] = Monus(@, Cardinality(S))]
  /\ turn' = [turn EXCEPT ![UserOf[s]] =
                [a \in Addr |-> IF a \in S THEN 0 ELSE turn[UserOf[s]][a]]]

LastHolder(a, s) == leases[a].holders = {s}

\* The lease of a without s; releaseAfter when s was the last holder of a
\* lease that is still being acquired.
WithoutHolder(a, s) ==
  [leases[a] EXCEPT
     !.holders = leases[a].holders \ {s},
     !.driven = leases[a].driven \ {s},
     !.releaseAfter = leases[a].releaseAfter
                      \/ (leases[a].acquiring /\ LastHolder(a, s))]

\* Mutant: the drivers of a dropped lease stay counted.
DropLeasesUncounted(S) ==
  /\ leases' = [a \in Addr |-> IF a \in S THEN NoLease ELSE leases[a]]
  /\ turn' = [u \in User |-> [a \in Addr |->
                IF a \in S /\ HeldBy(u, a) # {} THEN 0 ELSE turn[u][a]]]
  /\ releasing' = releasing \ S
  /\ releasePending' = releasePending \ S
  /\ UNCHANGED perUser

\* dropLeaseBookkeepingLocked for every address of S.
DropLeases(S) ==
  /\ leases' = [a \in Addr |-> IF a \in S THEN NoLease ELSE leases[a]]
  /\ perUser' = [u \in User |->
                   Monus(perUser[u],
                         Cardinality({h \in S \X Session :
                                        h[2] \in HeldBy(u, h[1])}))]
  /\ turn' = [u \in User |-> [a \in Addr |->
                IF a \in S /\ HeldBy(u, a) # {} THEN 0 ELSE turn[u][a]]]
  /\ releasing' = releasing \ S
  /\ releasePending' = releasePending \ S

\* The lease of a once the driver reported its slot IN_USE: a known lease is
\* confirmed, an unknown slot becomes an external lease.
Confirmed(a) ==
  IF leases[a].live
  THEN [leases[a] EXCEPT !.acquiredAt =
          IF leases[a].acquiredAt = 0 THEN Now(a) ELSE leases[a].acquiredAt]
  ELSE IF suppressExternal THEN leases[a]
  ELSE [NoLease EXCEPT !.live = TRUE, !.holders = {External},
                       !.acquiredAt = Now(a)]

\* OnSlotInUse: the driver saw the slot of a become IN_USE.
OnSlotInUse(a) ==
  /\ leases' = [leases EXCEPT ![a] = Confirmed(a)]
  /\ UNCHANGED <<perUser, turn, releasing, releasePending>>

\* OnSlotReleased: the driver saw the slot of a leave IN_USE.
OnSlotReleased(a) ==
  IF leases[a].live THEN DropLeases({a}) ELSE UNCHANGED ledger

(***************************************************************************)
(* Reserve.                                                                *)
(***************************************************************************)

\* The lease of a with driver s: a scheduled or deferred release is cancelled
\* and its slot, still IN_USE, is reused.
WithHolder(a, s) ==
  [leases[a] EXCEPT
     !.live = TRUE,
     !.holders = leases[a].holders \cup {s},
     !.driven = leases[a].driven \cup {s},
     !.acquiredAt = IF a \in releasing /\ leases[a].acquiredAt = 0
                    THEN Now(a) ELSE leases[a].acquiredAt,
     !.releaseAt = 0]

\* Reserve's last critical section.
AddHolder(p, t) ==
  LET u == UserOf[t.s]
      a == t.a
  IN  /\ leases' = [leases EXCEPT ![a] = WithHolder(a, t.s)]
      /\ releasing' = releasing \ {a}
      /\ IF t.s \in leases[a].holders THEN UNCHANGED <<perUser, turn>>
         ELSE /\ perUser' = [perUser EXCEPT ![u] = @ + 1]
              /\ turn' = [turn EXCEPT ![u] = Enlist(@, a)]
      /\ UNCHANGED releasePending
      /\ IF t.op = "drive" THEN Succeed(p, t)
                           ELSE Become(p, [t EXCEPT !.pc = "check"])

\* takeDeferredReleasesLocked(1): drop the newest grace lease and mark it.
EvictGrace(p, t, back) ==
  /\ t.n < GraceEvictMax
  /\ \E a \in Graced :
       /\ \A b \in Graced : leases[b].releaseAt <= leases[a].releaseAt
       /\ leases' = [leases EXCEPT ![a] = NoLease]
       /\ releasing' = releasing \cup {a}
       /\ Become(p, [t EXCEPT !.pc = "enqueue", !.rel = a, !.n = t.n + 1,
                              !.back = back])
  /\ UNCHANGED <<perUser, turn, releasePending>>

BudgetRefused(p, t) ==
  /\ t.n = GraceEvictMax \/ Graced = {}
  /\ Fail(p, t)
  /\ UNCHANGED ledger

\* Mutant: the cap is tested with <=.
CheckCapPast(p, t) ==
  LET u == UserOf[t.s]
  IN  \/ perUser[u] <= MaxPerUser /\ AddHolder(p, t)
      \/ /\ perUser[u] > MaxPerUser
         /\ \/ Evictable(u, t.a) = {} /\ Fail(p, t)
            \/ \E v \in OldestEvictable(u, t.a) :
                 Become(p, [t EXCEPT !.pc = "evict", !.rel = v])
         /\ UNCHANGED ledger

\* The per-user cap, in the same critical section as the budget check.
CheckCap(p, t) ==
  LET u == UserOf[t.s]
  IN  \/ perUser[u] < MaxPerUser /\ AddHolder(p, t)
      \/ /\ perUser[u] >= MaxPerUser
         /\ \/ Evictable(u, t.a) = {} /\ Fail(p, t)
            \/ \E v \in OldestEvictable(u, t.a) :
                 Become(p, [t EXCEPT !.pc = "evict", !.rel = v])
         /\ UNCHANGED ledger

ReserveLocked(p, t) ==
  \/ Headroom(t.need) /\ CheckCap(p, t)
  \/ ~Headroom(t.need) /\ EvictGrace(p, t, "budget")
  \/ ~Headroom(t.need) /\ BudgetRefused(p, t)

NeedsSlot(a) == IF Occupies(a) THEN 0 ELSE 1

\* Entry of Reserve (as part of a set-speed) and of Select.
Call(p, op, s, a) ==
  /\ At(p, "idle") /\ op \in Ops
  /\ <<UserOf[s], a>> \in MayDrive
  /\ ReserveLocked(p, [Idle EXCEPT !.op = op, !.s = s, !.a = a,
                                   !.need = NeedsSlot(a)])
  /\ UNCHANGED <<queue, suppressExternal, slot, moving, probed>>

\* Reserve after ensureBudgetHeadroomLocked dropped and re-took the lock.
ResumeBudget(p) ==
  /\ At(p, "budget")
  /\ ReserveLocked(p, th[p])
  /\ UNCHANGED <<queue, suppressExternal, slot, moving, probed>>

\* Reserve's call of deselect(user, session, evictAddr, cap evict, async).
CapEvict(p) ==
  LET t == th[p]
      a == t.rel
      on == [t EXCEPT !.pc = "add", !.rel = NoAddr]
  IN  /\ At(p, "evict")
      /\ IF t.s \notin leases[a].holders
         THEN Become(p, on) /\ UNCHANGED ledger
         ELSE /\ RemoveHolder(t.s, {a})
              /\ UNCHANGED releasePending
              /\ IF ~LastHolder(a, t.s) \/ leases[a].acquiring
                 THEN /\ leases' = [leases EXCEPT ![a] = WithoutHolder(a, t.s)]
                      /\ UNCHANGED releasing
                      /\ Become(p, on)
                 ELSE /\ leases' = [leases EXCEPT ![a] = NoLease]
                      /\ releasing' = releasing \cup {a}
                      /\ Become(p, [t EXCEPT !.pc = "enqueue",
                                             !.back = "add"])
      /\ UNCHANGED <<queue, suppressExternal, slot, moving, probed>>

\* Reserve after the eviction: the cap and the budget are not checked again.
ResumeReserve(p) ==
  /\ At(p, "add")
  /\ AddHolder(p, th[p])
  /\ UNCHANGED <<queue, suppressExternal, slot, moving, probed>>

\* applyMemberSetSpeed after Reserve: the driver takes the slot and moves.
Drive(p) ==
  /\ At(p, "drive")
  /\ \/ /\ slot' = [slot EXCEPT ![th[p].a] = TRUE]
        /\ moving' = [moving EXCEPT ![th[p].a] = TRUE]
        /\ IF slot[th[p].a] THEN UNCHANGED ledger ELSE OnSlotInUse(th[p].a)
     \/ StationMayFail /\ UNCHANGED <<ledger, slot, moving>>
  /\ Become(p, Idle)
  /\ UNCHANGED <<queue, suppressExternal, probed>>

(***************************************************************************)
(* Select and SelectTrain.                                                 *)
(***************************************************************************)

\* Select's second critical section: does this caller acquire the slot?
SelectCheck(p) ==
  LET a == th[p].a
      acquire == /\ Cardinality(leases[a].holders) = 1
                 /\ ~leases[a].acquiring /\ leases[a].acquiredAt = 0
  IN  /\ At(p, "check")
      /\ IF acquire
         THEN /\ leases' = [leases EXCEPT ![a].acquiring = TRUE]
              /\ Become(p, [th[p] EXCEPT !.pc = "acquire"])
         ELSE Succeed(p, th[p]) /\ UNCHANGED leases
      /\ UNCHANGED <<perUser, turn, releasing, releasePending, queue,
                     suppressExternal, slot, moving, probed>>

\* station.AcquireSlot, without the lock; the driver reports the slot.
AcquireSlot(p) ==
  LET a == th[p].a
  IN  /\ At(p, "acquire")
      /\ \/ /\ slot' = [slot EXCEPT ![a] = TRUE]
            /\ OnSlotInUse(a)
            /\ Become(p, [th[p] EXCEPT !.pc = "acquired"])
         \/ /\ StationMayFail
            /\ Become(p, [th[p] EXCEPT !.pc = "refused"])
            /\ UNCHANGED <<ledger, slot>>
      /\ UNCHANGED <<queue, suppressExternal, moving, probed>>

\* Mutant: acquiring is not cleared.
SelectAcquiredStillAcquiring(p) ==
  LET t == th[p]
      le == leases[t.a]
  IN  /\ At(p, "acquired")
      /\ IF le.live
         THEN leases' = [leases EXCEPT ![t.a] =
                           [le EXCEPT !.acquiredAt = Now(t.a)]]
         ELSE UNCHANGED leases
      /\ Succeed(p, t)
      /\ UNCHANGED <<perUser, turn, releasing, releasePending, queue,
                     suppressExternal, slot, moving, probed>>

\* Select's last critical section after a successful acquire.
SelectAcquired(p) ==
  LET t == th[p]
      le == leases[t.a]
  IN  /\ At(p, "acquired")
      /\ IF ~le.live THEN Succeed(p, t) /\ UNCHANGED leases
         ELSE /\ leases' = [leases EXCEPT ![t.a] =
                   [le EXCEPT !.acquiring = FALSE, !.releaseAfter = FALSE,
                              !.acquiredAt = Now(t.a)]]
              /\ IF le.releaseAfter
                 THEN Become(p, [t EXCEPT !.pc = "reuse1", !.rel = t.a,
                        !.got = t.got \cup (IF t.op = "train" THEN {t.a} ELSE {}),
                        !.back = IF t.op = "train" THEN "next" ELSE "idle"])
                 ELSE Succeed(p, t)
      /\ UNCHANGED <<perUser, turn, releasing, releasePending, queue,
                     suppressExternal, slot, moving, probed>>

\* Mutant: the roll back of a refused acquire forgets removeHolderLocked.
SelectRefusedUncounted(p) ==
  LET t == th[p]
      left == leases[t.a].holders \ {t.s}
  IN  /\ At(p, "refused")
      /\ leases' = [leases EXCEPT ![t.a] =
           IF left = {} THEN NoLease
           ELSE [WithoutHolder(t.a, t.s) EXCEPT
                   !.acquiring = FALSE, !.releaseAfter = FALSE]]
      /\ Fail(p, t)
      /\ UNCHANGED <<perUser, turn, releasing, releasePending, queue,
                     suppressExternal, slot, moving, probed>>

\* Select's last critical section after AcquireSlot returned an error.
SelectRefused(p) ==
  LET t == th[p]
      held == t.s \in leases[t.a].holders
      left == leases[t.a].holders \ {t.s}
  IN  /\ At(p, "refused")
      /\ IF ~leases[t.a].live THEN UNCHANGED <<leases, perUser, turn>>
         ELSE /\ leases' = [leases EXCEPT ![t.a] =
                   IF left = {} THEN NoLease
                   ELSE [WithoutHolder(t.a, t.s) EXCEPT
                           !.acquiring = FALSE, !.releaseAfter = FALSE]]
              /\ IF held THEN RemoveHolder(t.s, {t.a})
                         ELSE UNCHANGED <<perUser, turn>>
      /\ Fail(p, t)
      /\ UNCHANGED <<releasing, releasePending, queue, suppressExternal,
                     slot, moving, probed>>

\* SelectTrain's first critical section, and after it re-took the lock.
TrainLocked(p, t) ==
  \/ Headroom(t.need) /\ Become(p, [t EXCEPT !.pc = "next", !.n = 0])
     /\ UNCHANGED ledger
  \/ ~Headroom(t.need) /\ EvictGrace(p, t, "trainBudget")
  \/ ~Headroom(t.need) /\ BudgetRefused(p, [t EXCEPT !.op = "none"])

SelectTrain(p, s, M) ==
  /\ At(p, "idle") /\ "train" \in Ops
  /\ perUser[UserOf[s]] + Cardinality(M) <= MaxPerUser
  /\ TrainLocked(p, [Idle EXCEPT !.op = "train", !.s = s, !.rest = M,
                       !.need = Cardinality({a \in M : ~Occupies(a)})])
  /\ UNCHANGED <<queue, suppressExternal, slot, moving, probed>>

ResumeTrain(p) ==
  /\ At(p, "trainBudget")
  /\ TrainLocked(p, th[p])
  /\ UNCHANGED <<queue, suppressExternal, slot, moving, probed>>

\* The loop over the members: gate, then Select.
TrainNext(p) ==
  LET t == th[p]
  IN  /\ At(p, "next")
      /\ \/ t.rest = {} /\ Become(p, Idle) /\ UNCHANGED ledger
         \/ \E a \in t.rest :
              IF <<UserOf[t.s], a>> \in MayDrive
              THEN ReserveLocked(p, [t EXCEPT !.a = a, !.rest = t.rest \ {a},
                                      !.need = NeedsSlot(a), !.n = 0])
              ELSE Fail(p, t) /\ UNCHANGED ledger
      /\ UNCHANGED <<queue, suppressExternal, slot, moving, probed>>

(***************************************************************************)
(* Deselect, DeselectDeferred, ReleaseSession, ForceRelease, Touch.        *)
(***************************************************************************)

\* The thread that goes on to e-stop and release the addresses of S.
StartRelease(p, t, S) == NextRelease(p, [t EXCEPT !.todo = S])

\* deselect(..., async = false) by a thread t that resumes as t.
DeselectLocked(p, t, s, a, deferred) ==
  /\ RemoveHolder(s, {a})
  /\ UNCHANGED <<releasing, releasePending>>
  /\ \/ /\ ~LastHolder(a, s) \/ leases[a].acquiring
        /\ leases' = [leases EXCEPT ![a] = WithoutHolder(a, s)]
        /\ Become(p, Return(t))
     \/ /\ LastHolder(a, s) /\ ~leases[a].acquiring /\ deferred
        /\ LET at == Enlist([b \in Addr |-> leases[b].releaseAt], a)
           IN  leases' = [b \in Addr |->
                 IF b = a THEN [WithoutHolder(a, s) EXCEPT !.releaseAt = at[a]]
                 ELSE [leases[b] EXCEPT !.releaseAt = at[b]]]
        /\ Become(p, Return(t))
     \/ /\ LastHolder(a, s) /\ ~leases[a].acquiring /\ ~deferred
        /\ leases' = [leases EXCEPT ![a] = NoLease]
        /\ StartRelease(p, t, {a})

Deselect(p, s, a, deferred) ==
  /\ At(p, "idle") /\ (IF deferred THEN "defer" ELSE "deselect") \in Ops
  /\ s \in leases[a].holders
  /\ DeselectLocked(p, Idle, s, a, deferred)
  /\ UNCHANGED <<queue, suppressExternal, slot, moving, probed>>

\* SelectTrain's roll back: Deselect every member taken so far.
TrainRollback(p) ==
  LET t == th[p]
  IN  /\ At(p, "rollback")
      /\ \/ t.got = {} /\ Become(p, Idle) /\ UNCHANGED ledger
         \/ \E a \in t.got :
              LET on == [t EXCEPT !.got = t.got \ {a}, !.back = "rollback"]
              IN  IF t.s \in leases[a].holders
                  THEN DeselectLocked(p, on, t.s, a, FALSE)
                  ELSE Become(p, Return(on)) /\ UNCHANGED ledger
      /\ UNCHANGED <<queue, suppressExternal, slot, moving, probed>>

ReleaseSession(p, s) ==
  LET S == {a \in Addr : s \in leases[a].holders}
      gone == {a \in S : LastHolder(a, s) /\ ~leases[a].acquiring}
  IN  /\ At(p, "idle") /\ "close" \in Ops /\ S # {}
      /\ leases' = [a \in Addr |->
           IF a \in gone THEN NoLease
           ELSE IF a \in S THEN WithoutHolder(a, s) ELSE leases[a]]
      /\ RemoveHolder(s, S)
      /\ StartRelease(p, Idle, gone)
      /\ UNCHANGED <<releasing, releasePending, queue, suppressExternal,
                     slot, moving, probed>>

ForceRelease(p, a) ==
  /\ At(p, "idle") /\ "force" \in Ops
  /\ leases[a].live
  /\ DropLeases({a})
  /\ StartRelease(p, Idle, {a})
  /\ UNCHANGED <<queue, suppressExternal, slot, moving, probed>>

\* Touch: drive activity of a handset; lastDriveAt is young again.
Touch(p, s, a) ==
  /\ At(p, "idle") /\ "touch" \in Ops
  /\ s \in leases[a].holders /\ s \notin leases[a].driven
  /\ leases' = [leases EXCEPT ![a].driven = @ \cup {s}]
  /\ UNCHANGED <<perUser, turn, releasing, releasePending, queue,
                 suppressExternal, slot, moving, probed, th>>

(***************************************************************************)
(* The sweeps.                                                             *)
(***************************************************************************)

\* idleTimeout passes without drive activity of s on a.
IdleElapse(s, a) ==
  /\ "sweepIdle" \in Ops
  /\ s \in leases[a].driven
  /\ leases' = [leases EXCEPT ![a].driven = @ \ {s}]
  /\ UNCHANGED <<perUser, turn, releasing, releasePending, queue,
                 suppressExternal, slot, moving, probed, th>>

IdleExpired ==
  {a \in Addr : /\ leases[a].live /\ ~leases[a].acquiring
                /\ leases[a].holders \cap Session # {}
                /\ leases[a].holders \cap WsSession = {}
                /\ leases[a].driven = {}}

\* SweepIdle does nothing at all when the idle timeout is disabled.
SweepIdle ==
  LET p == Sweeper
  IN  /\ At(p, "idle") /\ "sweepIdle" \in Ops
      /\ IdleExpired # {} \/ releasePending # {}
      /\ DropLeases(IdleExpired)
      /\ StartRelease(p, [Idle EXCEPT !.back = "drain"], IdleExpired)
      /\ UNCHANGED <<queue, suppressExternal, slot, moving, probed>>

\* Mutant: an expired lease is deleted and its slot not released.
SweepDeferredForgets ==
  \E now \in {leases[b].releaseAt : b \in Addr} \ {0} :
    /\ At(Sweeper, "idle") /\ "sweepDeferred" \in Ops
    /\ leases' = [a \in Addr |->
         IF leases[a].releaseAt # 0 /\ leases[a].releaseAt <= now
         THEN NoLease ELSE leases[a]]
    /\ UNCHANGED <<perUser, turn, releasing, releasePending, queue,
                   suppressExternal, slot, moving, probed, th>>

SweepDeferred ==
  \E now \in {leases[b].releaseAt : b \in Addr} \ {0} :
    LET S == {a \in Addr : leases[a].releaseAt # 0
                           /\ leases[a].releaseAt <= now}
    IN  /\ At(Sweeper, "idle") /\ "sweepDeferred" \in Ops
        /\ leases' = [a \in Addr |-> IF a \in S THEN NoLease ELSE leases[a]]
        /\ StartRelease(Sweeper, Idle, S)
        /\ UNCHANGED <<perUser, turn, releasing, releasePending, queue,
                       suppressExternal, slot, moving, probed>>

\* drainReleasePending: snapshot the pending set, then try each one.
Drain(p) ==
  /\ At(p, "drain")
  /\ StartRelease(p, [th[p] EXCEPT !.draining = TRUE], releasePending)
  /\ UNCHANGED <<ledger, queue, suppressExternal, slot, moving, probed>>

Drained(p) ==
  /\ At(p, "drained")
  /\ releasePending' = releasePending \ {th[p].rel}
  /\ NextRelease(p, th[p])
  /\ UNCHANGED <<leases, perUser, turn, releasing, queue, suppressExternal,
                 slot, moving, probed>>

(***************************************************************************)
(* enqueueRelease, the release worker and stopAndRelease.                  *)
(***************************************************************************)

EnqueueRelease(p) ==
  /\ At(p, "enqueue")
  /\ IF Len(queue) < QueueSize
     THEN /\ queue' = Append(queue, th[p].rel)
          /\ Become(p, Return(th[p]))
     ELSE /\ Become(p, [th[p] EXCEPT !.pc = "scheduled"])
          /\ UNCHANGED queue
  /\ UNCHANGED <<ledger, suppressExternal, slot, moving, probed>>

WorkerTakes ==
  /\ At(Worker, "idle") /\ queue # <<>>
  /\ queue' = Tail(queue)
  /\ Become(Worker, [Idle EXCEPT !.pc = "scheduled", !.rel = Head(queue)])
  /\ UNCHANGED <<ledger, suppressExternal, slot, moving, probed>>

\* Mutant: the release of a moving loco is put off.
ReleasePutOff(p) ==
  LET a == th[p].rel
      off == moving[a]
  IN  /\ At(p, "scheduled")
      /\ releasing' = IF off THEN releasing ELSE releasing \ {a}
      /\ queue' = IF off THEN Append(queue, a) ELSE queue
      /\ IF a \in releasing /\ ~leases[a].live /\ ~off
         THEN Become(p, [th[p] EXCEPT !.pc = "reuse1"])
         ELSE NextRelease(p, th[p])
      /\ UNCHANGED <<leases, perUser, turn, releasePending, suppressExternal,
                     slot, moving, probed>>

ReleaseScheduled(p) ==
  LET a == th[p].rel
  IN  /\ At(p, "scheduled")
      /\ releasing' = releasing \ {a}
      /\ IF a \in releasing /\ ~leases[a].live
         THEN Become(p, [th[p] EXCEPT !.pc = "reuse1"])
         ELSE NextRelease(p, th[p])
      /\ UNCHANGED <<leases, perUser, turn, releasePending, queue,
                     suppressExternal, slot, moving, probed>>

\* releaseAbortedByReuse at its three call sites; an aborted drain counts as
\* a success (releaseSlotWithRetry returns nil).
ReuseCheck(p, pc, go) ==
  LET t == th[p]
  IN  /\ At(p, pc)
      /\ IF leases[t.rel].live
         THEN /\ releasing' = releasing \ {t.rel}
              /\ IF t.draining THEN Become(p, [t EXCEPT !.pc = "drained"])
                               ELSE NextRelease(p, t)
         ELSE /\ Become(p, [t EXCEPT !.pc = go])
              /\ UNCHANGED releasing
      /\ UNCHANGED <<leases, perUser, turn, releasePending, queue,
                     suppressExternal, slot, moving, probed>>

ReleaseAbortedByReuse(p) ==
  \/ ReuseCheck(p, "reuse1", "estop")
  \/ ReuseCheck(p, "reuse2", "reuse3")
  \/ ReuseCheck(p, "reuse3", "release")

\* writer.SetSpeed(addr, 0, emergency): the driver takes a slot for it without
\* telling the observer; an error is only waited out.
EStop(p) ==
  /\ At(p, "estop")
  /\ \/ /\ moving' = [moving EXCEPT ![th[p].rel] = FALSE]
        /\ slot' = [slot EXCEPT ![th[p].rel] = TRUE]
     \/ StationMayFail /\ UNCHANGED <<moving, slot>>
  /\ Become(p, [th[p] EXCEPT !.pc = "reuse2"])
  /\ UNCHANGED <<ledger, queue, suppressExternal, probed>>

\* Mutant: no attempt is the last one.
ReleaseSlotForever(p) ==
  LET t == th[p]
      a == t.rel
  IN  /\ At(p, "release")
      /\ \/ /\ slot' = [slot EXCEPT ![a] = FALSE]
            /\ IF slot[a] THEN OnSlotReleased(a) ELSE UNCHANGED ledger
            /\ IF t.draining THEN Become(p, [t EXCEPT !.pc = "drained"])
                             ELSE NextRelease(p, t)
         \/ /\ StationMayFail
            /\ Become(p, [t EXCEPT !.r = (t.r + 1) % Retries])
            /\ UNCHANGED <<ledger, slot>>
      /\ UNCHANGED <<queue, suppressExternal, moving, probed>>

\* One attempt of station.ReleaseSlot; the driver reports a released slot.
ReleaseSlot(p) ==
  LET t == th[p]
      a == t.rel
  IN  /\ At(p, "release")
      /\ \/ /\ slot' = [slot EXCEPT ![a] = FALSE]
            /\ IF slot[a] THEN OnSlotReleased(a) ELSE UNCHANGED ledger
            /\ IF t.draining THEN Become(p, [t EXCEPT !.pc = "drained"])
                             ELSE NextRelease(p, t)
         \/ /\ StationMayFail
            /\ IF t.r + 1 < Retries THEN Become(p, [t EXCEPT !.r = t.r + 1])
               ELSE IF t.draining THEN NextRelease(p, t)
               ELSE Become(p, [t EXCEPT !.pc = "park"])
            /\ UNCHANGED <<ledger, slot>>
      /\ UNCHANGED <<queue, suppressExternal, moving, probed>>

\* stopAndRelease after the last failed attempt.
Park(p) ==
  /\ At(p, "park")
  /\ releasePending' = releasePending \cup {th[p].rel}
  /\ NextRelease(p, th[p])
  /\ UNCHANGED <<leases, perUser, turn, releasing, queue, suppressExternal,
                 slot, moving, probed>>

(***************************************************************************)
(* ReconcileSlots.                                                         *)
(***************************************************************************)
ReconcileSnapshot ==
  LET C == {a \in Addr : ~leases[a].acquiring /\ Occupies(a)}
  IN  /\ At(Reconciler, "idle") /\ "reconcile" \in Ops
      /\ \E S \in SUBSET C :
           /\ S # {} /\ Cardinality(S) <= ReconcileMax
           /\ S = C \/ Cardinality(S) = ReconcileMax
           /\ probed' = [a \in Addr |->
                           IF a \in S THEN leases[a].acquiredAt ELSE -1]
      /\ Become(Reconciler, [Idle EXCEPT !.pc = "probe"])
      /\ UNCHANGED <<ledger, queue, suppressExternal, slot, moving>>

\* prober.SlotStatus: an error or an unknown status keeps the lease.
Probe ==
  /\ At(Reconciler, "probe")
  /\ \/ /\ \A a \in Addr : probed[a] = -1
        /\ Become(Reconciler, Idle)
        /\ UNCHANGED probed
     \/ \E a \in Addr :
          /\ probed[a] # -1
          /\ \/ /\ slot[a] \/ StationMayFail
                /\ probed' = [probed EXCEPT ![a] = -1]
                /\ UNCHANGED th
             \/ /\ ~slot[a]
                /\ Become(Reconciler, [Idle EXCEPT !.pc = "confirm",
                                                   !.rel = a])
                /\ UNCHANGED probed
  /\ UNCHANGED <<ledger, queue, suppressExternal, slot, moving>>

ReconcileDrop ==
  LET a == th[Reconciler].rel
  IN  /\ At(Reconciler, "confirm")
      /\ IF leases[a].live /\ leases[a].acquiredAt = probed[a]
         THEN DropLeases({a}) ELSE UNCHANGED ledger
      /\ probed' = [probed EXCEPT ![a] = -1]
      /\ Become(Reconciler, [Idle EXCEPT !.pc = "probe"])
      /\ UNCHANGED <<queue, suppressExternal, slot, moving>>

(***************************************************************************)
(* The rest of the layout: physical throttles and the station itself.      *)
(***************************************************************************)

\* A physical throttle (or boot-stop) takes the slot of a.
ThrottleTakes(a) ==
  /\ "throttle" \in Ops /\ ~slot[a]
  /\ slot' = [slot EXCEPT ![a] = TRUE]
  /\ OnSlotInUse(a)
  /\ UNCHANGED <<queue, suppressExternal, moving, probed, th>>

\* The station frees the slot (purge, dispatch), and the driver sees it.
SlotFreed(a) ==
  /\ "throttle" \in Ops /\ slot[a]
  /\ slot' = [slot EXCEPT ![a] = FALSE]
  /\ OnSlotReleased(a)
  /\ UNCHANGED <<queue, suppressExternal, moving, probed, th>>

\* The same, but the bus event is missed.
SlotFreedUnseen(a) ==
  /\ "missed" \in Ops /\ slot[a]
  /\ slot' = [slot EXCEPT ![a] = FALSE]
  /\ UNCHANGED <<ledger, queue, suppressExternal, moving, probed, th>>

\* HandleBootStop returns: SuppressExternal(false).
BootStopEnds ==
  /\ suppressExternal
  /\ suppressExternal' = FALSE
  /\ UNCHANGED <<ledger, queue, slot, moving, probed, th>>

(***************************************************************************)
(* The specification.                                                      *)
(***************************************************************************)
Init ==
  /\ leases = [a \in Addr |-> NoLease]
  /\ perUser = [u \in User |-> 0]
  /\ turn = [u \in User |-> [a \in Addr |-> 0]]
  /\ releasing = {} /\ releasePending = {}
  /\ queue = <<>>
  /\ suppressExternal = ("bootStop" \in Ops)
  /\ slot = [a \in Addr |-> FALSE] /\ moving = [a \in Addr |-> FALSE]
  /\ probed = [a \in Addr |-> -1]
  /\ th = [p \in Proc |-> Idle]

Begin(p) ==
  \/ \E s \in Session, a \in Addr :
       \/ \E op \in {"drive", "select"} : Call(p, op, s, a)
       \/ \E deferred \in BOOLEAN : Deselect(p, s, a, deferred)
       \/ Touch(p, s, a)
  \/ \E s \in Session : ReleaseSession(p, s)
  \/ \E s \in Session, M \in (SUBSET Addr) \ {{}} : SelectTrain(p, s, M)
  \/ \E a \in Addr : ForceRelease(p, a)

Step(p) ==
  \/ ResumeBudget(p) \/ CapEvict(p) \/ ResumeReserve(p) \/ Drive(p)
  \/ SelectCheck(p) \/ AcquireSlot(p) \/ SelectAcquired(p) \/ SelectRefused(p)
  \/ ResumeTrain(p) \/ TrainNext(p) \/ TrainRollback(p)
  \/ EnqueueRelease(p) \/ ReleaseScheduled(p) \/ ReleaseAbortedByReuse(p)
  \/ EStop(p) \/ ReleaseSlot(p) \/ Park(p) \/ Drain(p) \/ Drained(p)

Reconcile == ReconcileSnapshot \/ Probe \/ ReconcileDrop

Station ==
  \/ \E a \in Addr : ThrottleTakes(a) \/ SlotFreed(a) \/ SlotFreedUnseen(a)
  \/ \E s \in Session, a \in Addr : IdleElapse(s, a)
  \/ BootStopEnds

Next ==
  \/ \E p \in Client : Begin(p)
  \/ \E p \in Proc : Step(p)
  \/ WorkerTakes \/ SweepIdle \/ SweepDeferred
  \/ Reconcile
  \/ Station

Spec == Init /\ [][Next]_vars

(***************************************************************************)
(* Fairness: the Go scheduler runs every goroutine that is not blocked,    *)
(* the release worker ranges over its channel, and every tick of the sweep *)
(* loop calls SweepIdle and then SweepDeferred, so the second never waits  *)
(* forever for the first: strong fairness.                                 *)
(***************************************************************************)
Fairness ==
  /\ \A p \in Client \cup {Worker, Sweeper} : WF_vars(Step(p))
  /\ WF_vars(WorkerTakes) /\ SF_vars(SweepDeferred)

FairSpec == Spec /\ Fairness

(***************************************************************************)
(* Properties.                                                             *)
(***************************************************************************)

\* Every variable has its type and a deleted lease keeps no residue.
TypeOK ==
  /\ leases \in [Addr -> Lease]
  /\ \A a \in Addr : ~leases[a].live => leases[a] = NoLease
  /\ perUser \in [User -> Nat]
  /\ turn \in [User -> [Addr -> Nat]]
  /\ releasing \subseteq Addr /\ releasePending \subseteq Addr
  /\ queue \in Seq(Addr)
  /\ suppressExternal \in BOOLEAN
  /\ slot \in [Addr -> BOOLEAN] /\ moving \in [Addr -> BOOLEAN]
  /\ probed \in [Addr -> -1 .. 2]
  /\ th \in [Proc -> Thread]

\* The holds of user u: one (address, session) pair per driver on a lease.
Holds(u) == {h \in Addr \X Session : h[2] \in HeldBy(u, h[1])}

\* The per-user counter that the cap is checked against never drifts from the
\* holders in the table, whichever path adds or removes them (Reserve, both
\* deselects, session close, idle sweep, force release, reconcile, observer).
LedgerBalanced == \A u \in User : perUser[u] = Cardinality(Holds(u))

\* A lease in its grace window has no driver: SweepDeferred and the budget
\* eviction delete it without touching perUser, so a driver there would leave
\* the counter behind for good.
GraceUnheld ==
  \A a \in Addr : leases[a].releaseAt # 0 => leases[a].holders = {}

\* A releasing mark belongs to a job that is still to run and to an address
\* that nobody drives: Reserve trusts it as proof that the slot is IN_USE.
MarkHasJob ==
  \A a \in releasing :
    /\ leases[a].holders \cap Session = {}
    /\ \/ \E i \in DOMAIN queue : queue[i] = a
       \/ \E p \in Proc : th[p].rel = a /\ th[p].pc \in {"enqueue", "scheduled"}

\* The FIFO that the cap evicts from lists only addresses the user drives, at
\* distinct ranks.
FifoSound ==
  \A u \in User : \A a \in Addr : turn[u][a] # 0 =>
    /\ HeldBy(u, a) # {}
    /\ \A b \in Addr \ {a} : turn[u][b] # turn[u][a]

\* An acquiring lease has a Select in flight that will clear the flag: sweeps
\* and the reconciler skip such a lease, so a stale flag would pin it.
AcquiringOwned ==
  \A a \in Addr : leases[a].acquiring =>
    \E p \in Proc : th[p].a = a /\ th[p].pc \in {"acquire", "acquired", "refused"}

WithinCap == \A u \in User :
  Cardinality({a \in Addr : HeldBy(u, a) # {}}) <= MaxPerUser

\* A thread that still has to release a, or has taken a's slot and not yet
\* told the ledger.
InCharge(p, a) ==
  \/ a \in th[p].todo
  \/ /\ th[p].rel = a
     /\ th[p].pc \in {"enqueue", "scheduled", "reuse1", "estop", "reuse2",
                      "reuse3", "release", "park", "drained"}

\* "A slot is never silently leaked": a slot that is IN_USE has a lease, a
\* release job, a pending retry or a goroutine working on it.
NoSilentLeak ==
  \A a \in Addr : slot[a] =>
    \/ leases[a].live \/ a \in releasing \/ a \in releasePending
    \/ \E p \in Proc : InCharge(p, a)

\* Reserve's mark is not forgotten: the worker reaches every scheduled release
\* (or a Reserve or the observer cancels it), even when the queue overflows.
MarkCleared == \A a \in Addr : a \in releasing ~> a \notin releasing

\* A grace window ends: the lease is released by a sweep or an eviction, or a
\* driver comes back for it.
GraceEnds ==
  \A a \in Addr : leases[a].releaseAt # 0 ~> leases[a].releaseAt = 0

\* Every call of the leaser returns: the budget loop, the inline release of a
\* full queue and the roll back of a train always come to an end.
CallsReturn == \A p \in Client : th[p].pc # "idle" ~> th[p].pc = "idle"

\* The ledger is sound: every slot that is IN_USE has a lease or somebody who
\* is about to release it, a lease in its grace has no holder, and a releasing
\* mark has its job (Reserve, releaseOnce, enqueueRelease).
SlotsKept == TypeOK /\ GraceUnheld /\ MarkHasJob /\ NoSilentLeak

\* Nothing of the leaser hangs: marks are cleared, graces end and every call
\* returns, with a full release queue too (enqueueRelease, SweepDeferred).
Progress == MarkCleared /\ GraceEnds /\ CallsReturn
=============================================================================
