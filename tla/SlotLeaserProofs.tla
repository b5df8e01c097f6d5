-------------------------- MODULE SlotLeaserProofs --------------------------
(***************************************************************************)
(* Proofs about the slot leaser, for every set of addresses, users,        *)
(* sessions and client goroutines and every limit.                         *)
(*                                                                         *)
(* The inductive invariant is Inv: the types, what a thread must carry at  *)
(* each program counter, GraceUnheld, LedgerBalanced and FifoSound.        *)
(* GraceUnheld is needed for the ledger because SweepDeferred and the      *)
(* budget eviction delete a grace lease without the bookkeeping.           *)
(*                                                                         *)
(* On top of Inv, every action is shown to respect the duties of the other *)
(* goroutines: who clears an acquiring flag, who has the job of a mark and *)
(* who releases a slot (Duties, Covered).  The last holds where nothing is *)
(* forgotten (Calm), which a tame layout guarantees (Tranquil).            *)
(***************************************************************************)
EXTENDS SlotLeaser, FiniteSetTheorems, TLAPS

\* Program counters at which a thread serves a call for (s, a), at which it
\* serves a train, and at which it releases rel.
CallPC == {"budget", "evict", "add", "check", "acquire", "acquired",
           "refused", "drive"}
TrainPC == {"trainBudget", "next", "rollback"}
ReleasePC == {"evict", "enqueue", "scheduled", "reuse1", "estop", "reuse2",
              "reuse3", "release", "park", "drained", "confirm"}

\* What t must carry to run at (or to return to) pc.
Carries(t, pc) ==
  /\ pc \in CallPC => t.a \in Addr
  /\ pc \in CallPC \cup TrainPC => t.s \in Session

ThreadOK(t) ==
  /\ t \in Thread
  /\ Carries(t, t.pc) /\ Carries(t, t.back)
  /\ t.op = "train" => t.s \in Session
  /\ t.pc \in ReleasePC => t.rel \in Addr
  /\ t.back \notin ReleasePC

ThreadsOK == \A p \in Proc : ThreadOK(th[p])

USE DEF ConstantsAssumption

LEMMA IdleOK == ThreadOK(Idle)
  BY DEF ThreadOK, Thread, Idle, Carries, CallPC, TrainPC, ReleasePC, PCs

\* Assigning a well-formed thread keeps all threads well formed.
LEMMA BecomeOK ==
  ASSUME th \in [Proc -> Thread], ThreadsOK, NEW p \in Proc,
         NEW t, ThreadOK(t), Become(p, t)
  PROVE  th' \in [Proc -> Thread] /\ ThreadsOK'
  BY DEF Become, ThreadsOK, ThreadOK

LEMMA ReturnOK ==
  ASSUME NEW t, ThreadOK(t)
  PROVE  ThreadOK(Return(t))
<1>1. CASE t.back = "idle"
  BY <1>1, IdleOK DEF Return
<1>2. CASE t.back # "idle"
  <2> DEFINE n == Return(t)
  <2>1. /\ n \in Thread
        /\ n.pc = t.back /\ n.back = "idle"
        /\ n.a = t.a /\ n.s = t.s /\ n.op = t.op
    BY <1>2, ZenonT(60) DEF ThreadOK, Return, Thread, PCs
  <2> HIDE DEF n
  <2>2. Carries(n, n.pc) /\ (n.op = "train" => n.s \in Session)
        /\ n.pc \notin ReleasePC
    BY <2>1 DEF ThreadOK, Carries
  <2>3. Carries(n, n.back) /\ n.back \notin ReleasePC
    BY <2>1 DEF Carries, CallPC, TrainPC, ReleasePC
  <2> QED BY <2>1, <2>2, <2>3 DEF ThreadOK, n
<1> QED BY <1>1, <1>2

LEMMA NextReleaseOK ==
  ASSUME th \in [Proc -> Thread], ThreadsOK, NEW p \in Proc,
         NEW t, ThreadOK(t), NextRelease(p, t)
  PROVE  th' \in [Proc -> Thread] /\ ThreadsOK'
<1>1. CASE t.todo = {} /\ Become(p, Return(t))
  BY <1>1, ReturnOK, BecomeOK
<1>2. ASSUME NEW b \in t.todo,
             Become(p, [t EXCEPT !.pc = IF t.draining THEN "reuse3" ELSE "reuse1",
                                 !.rel = b, !.todo = t.todo \ {b}, !.r = 0])
      PROVE  th' \in [Proc -> Thread] /\ ThreadsOK'
  <2> DEFINE n == [t EXCEPT !.pc = IF t.draining THEN "reuse3" ELSE "reuse1",
                            !.rel = b, !.todo = t.todo \ {b}, !.r = 0]
  <2>1. /\ n \in Thread
        /\ n.pc \in {"reuse1", "reuse3"} /\ n.rel \in Addr
        /\ n.back = t.back /\ n.a = t.a /\ n.s = t.s /\ n.op = t.op
    BY ZenonT(60) DEF ThreadOK, Thread, PCs
  <2> HIDE DEF n
  <2>2. ThreadOK(n)
    BY <2>1 DEF ThreadOK, Carries, CallPC, TrainPC
  <2> QED BY <1>2, <2>2, BecomeOK DEF n
<1> QED BY <1>1, <1>2 DEF NextRelease

LEMMA SucceedOK ==
  ASSUME th \in [Proc -> Thread], ThreadsOK, NEW p \in Proc,
         NEW t, ThreadOK(t), t.a \in Addr, t.s \in Session, Succeed(p, t)
  PROVE  th' \in [Proc -> Thread] /\ ThreadsOK'
<1> DEFINE d == [t EXCEPT !.pc = "drive"]
           n == [t EXCEPT !.pc = "next", !.got = t.got \cup {t.a}]
<1>1. ThreadOK(d)
  BY DEF ThreadOK, Thread, Carries, CallPC, TrainPC, ReleasePC, PCs
<1>2. /\ n \in Thread
      /\ n.pc = "next" /\ n.back = t.back
      /\ n.a = t.a /\ n.s = t.s /\ n.op = t.op
  BY DEF ThreadOK, Thread, PCs
<1>3. ThreadOK(n)
  BY <1>2 DEF ThreadOK, Carries, CallPC, TrainPC, ReleasePC
<1>4. Become(p, d) \/ Become(p, n) \/ Become(p, Idle)
  BY DEF Succeed
<1> QED BY <1>1, <1>3, <1>4, IdleOK, BecomeOK

LEMMA FailOK ==
  ASSUME th \in [Proc -> Thread], ThreadsOK, NEW p \in Proc,
         NEW t, ThreadOK(t), Fail(p, t)
  PROVE  th' \in [Proc -> Thread] /\ ThreadsOK'
<1>1. CASE t.op = "train"
  <2>1. ThreadOK([t EXCEPT !.pc = "rollback"])
    BY <1>1 DEF ThreadOK, Thread, Carries, CallPC, TrainPC, ReleasePC, PCs
  <2> QED BY <1>1, <2>1, BecomeOK DEF Fail
<1>2. CASE t.op # "train"
  BY <1>2, IdleOK, BecomeOK DEF Fail
<1> QED BY <1>1, <1>2

-----------------------------------------------------------------------------
(***************************************************************************)
(* The ledger: its type, and how Holds(u) changes with the holders.        *)
(***************************************************************************)
LedgerType ==
  /\ leases \in [Addr -> Lease]
  /\ \A a \in Addr : ~leases[a].live => leases[a] = NoLease
  /\ perUser \in [User -> Nat]
  /\ turn \in [User -> [Addr -> Nat]]
  /\ releasing \subseteq Addr /\ releasePending \subseteq Addr

Books == LedgerType /\ GraceUnheld /\ LedgerBalanced /\ FifoSound

LEMMA HoldsFinite ==
  ASSUME NEW u
  PROVE  IsFiniteSet(Holds(u)) /\ Cardinality(Holds(u)) \in Nat
<1>1. IsFiniteSet(Addr \X Session)
  BY ConstantsAssumption, FS_Product
<1>2. Holds(u) \in SUBSET (Addr \X Session)
  BY DEF Holds
<1> QED BY <1>1, <1>2, FS_Subset, FS_CardinalityType

\* Steps that keep every driver keep the balance.
LEMMA SameHolders ==
  ASSUME LedgerBalanced, perUser' = perUser,
         \A a \in Addr : \A s \in Session :
            s \in leases'[a].holders <=> s \in leases[a].holders
  PROVE  LedgerBalanced'
<1>1. \A u \in User : Holds(u)' = Holds(u)
  BY DEF Holds, HeldBy
<1> QED BY <1>1 DEF LedgerBalanced

\* Removing a set of holds from the table and its size from the counter.
LEMMA RemoveHolds ==
  ASSUME LedgerBalanced, NEW u \in User, NEW D, D \subseteq Holds(u),
         Holds(u)' = Holds(u) \ D,
         perUser'[u] = Monus(perUser[u], Cardinality(D))
  PROVE  perUser'[u] = Cardinality(Holds(u)')
<1>1. D \in SUBSET Holds(u) /\ Holds(u) \cap D = D
  OBVIOUS
<1>2. /\ IsFiniteSet(D)
      /\ Cardinality(D) \in Nat /\ Cardinality(D) <= Cardinality(Holds(u))
  BY <1>1, HoldsFinite, FS_Subset, FS_CardinalityType
<1>3. Cardinality(Holds(u) \ D) = Cardinality(Holds(u)) - Cardinality(D)
  BY <1>1, HoldsFinite, FS_Difference
<1>4. perUser[u] = Cardinality(Holds(u))
  BY DEF LedgerBalanced
<1> QED BY <1>2, <1>3, <1>4, HoldsFinite DEF Monus

\* Ranks that stay are those of addresses that are still driven.
LEMMA FifoKept ==
  ASSUME FifoSound,
         \A u \in User : \A a \in Addr : turn'[u][a] # 0 =>
           turn'[u][a] = turn[u][a] /\ HeldBy(u, a)' # {}
  PROVE  FifoSound'
  BY DEF FifoSound

\* Steps that take no driver away and leave the ranks alone.
LEMMA FifoSame ==
  ASSUME FifoSound, turn' = turn,
         \A a \in Addr : \A s \in Session :
            s \in leases[a].holders => s \in leases'[a].holders
  PROVE  FifoSound'
<1>1. \A u \in User : \A a \in Addr : HeldBy(u, a) \subseteq HeldBy(u, a)'
  BY DEF HeldBy
<1> QED BY <1>1 DEF FifoSound

\* removeHolderLocked keeps the ledger balanced.
LEMMA RemoveHolderBalanced ==
  ASSUME LedgerType, LedgerBalanced, NEW s \in Session, NEW S \in SUBSET Addr,
         \A a \in S : s \in leases[a].holders,
         RemoveHolder(s, S),
         \A a \in Addr : \A q \in Session :
            q \in leases'[a].holders <=>
              q \in leases[a].holders /\ ~(q = s /\ a \in S)
  PROVE  LedgerBalanced'
<1> SUFFICES ASSUME NEW u \in User PROVE perUser'[u] = Cardinality(Holds(u)')
  BY DEF LedgerBalanced
<1>1. UserOf[s] \in User
  BY ConstantsAssumption
<1>2. CASE u # UserOf[s]
  <2>1. Holds(u)' = Holds(u)
    BY <1>2 DEF Holds, HeldBy
  <2>2. perUser'[u] = perUser[u]
    BY <1>2 DEF RemoveHolder, LedgerType
  <2> QED BY <2>1, <2>2 DEF LedgerBalanced
<1>3. CASE u = UserOf[s]
  <2> DEFINE D == S \X {s}
  <2>1. D \subseteq Holds(u)
    BY <1>3 DEF Holds, HeldBy
  <2>2. Holds(u)' = Holds(u) \ D
    BY <1>3 DEF Holds, HeldBy
  <2>3. IsFiniteSet(S) /\ Cardinality(S) \in Nat
    BY ConstantsAssumption, FS_Subset, FS_CardinalityType
  <2>4. Cardinality(D) = Cardinality(S)
    <3>1. IsFiniteSet({s}) /\ Cardinality({s}) = 1
      BY FS_Singleton
    <3>2. Cardinality(D) = Cardinality(S) * 1
      BY <3>1, <2>3, FS_Product
    <3> QED BY <3>2, <2>3
  <2>5. perUser'[u] = Monus(perUser[u], Cardinality(D))
    BY <1>1, <1>3, <2>4 DEF RemoveHolder, LedgerType
  <2> HIDE DEF D
  <2> QED BY <2>1, <2>2, <2>5, RemoveHolds
<1> QED BY <1>2, <1>3

LEMMA RemoveHolderType ==
  ASSUME LedgerType, NEW s \in Session, NEW S \in SUBSET Addr,
         RemoveHolder(s, S)
  PROVE  perUser' \in [User -> Nat] /\ turn' \in [User -> [Addr -> Nat]]
<1>1. UserOf[s] \in User /\ IsFiniteSet(S) /\ Cardinality(S) \in Nat
  BY ConstantsAssumption, FS_Subset, FS_CardinalityType
<1> QED BY <1>1 DEF RemoveHolder, LedgerType, Monus

LEMMA RemoveHolderFifo ==
  ASSUME LedgerType, FifoSound, NEW s \in Session, NEW S \in SUBSET Addr,
         RemoveHolder(s, S),
         \A a \in Addr : \A q \in Session :
            q \in leases[a].holders /\ ~(q = s /\ a \in S)
              => q \in leases'[a].holders
  PROVE  FifoSound'
<1>1. UserOf[s] \in User
  BY ConstantsAssumption
<1>2. ASSUME NEW u \in User, NEW a \in Addr, turn'[u][a] # 0
      PROVE  turn'[u][a] = turn[u][a] /\ ~(u = UserOf[s] /\ a \in S)
  BY <1>1, <1>2 DEF RemoveHolder, LedgerType
<1>3. ASSUME NEW u \in User, NEW a \in Addr, turn'[u][a] # 0
      PROVE  HeldBy(u, a)' # {}
  <2>1. HeldBy(u, a) # {} /\ ~(u = UserOf[s] /\ a \in S)
    BY <1>2, <1>3 DEF FifoSound
  <2> QED BY <2>1 DEF HeldBy
<1> QED BY <1>2, <1>3, FifoKept

LEMMA NoLeaseType == NoLease \in Lease
  BY DEF NoLease, Lease, Stamp

\* Replacing one lease by a well-formed one.
LEMMA LeaseUpdate ==
  ASSUME LedgerType, NEW a \in Addr, NEW le \in Lease,
         ~le.live => le = NoLease,
         leases' = [leases EXCEPT ![a] = le]
  PROVE  /\ leases' \in [Addr -> Lease]
         /\ \A b \in Addr : ~leases'[b].live => leases'[b] = NoLease
  BY DEF LedgerType

\* dropLeaseBookkeepingLocked keeps the books.
LEMMA DropLeasesBooks ==
  ASSUME Books, NEW S \in SUBSET Addr, DropLeases(S)
  PROVE  Books'
<1> DEFINE D(u) == {h \in S \X Session : h[2] \in HeldBy(u, h[1])}
<1>1. ASSUME NEW u \in User
      PROVE  /\ D(u) \subseteq Holds(u) /\ Cardinality(D(u)) \in Nat
             /\ Holds(u)' = Holds(u) \ D(u)
  <2>1. D(u) \subseteq Holds(u)
    BY DEF Holds
  <2>2. Cardinality(D(u)) \in Nat
    BY <2>1, HoldsFinite, FS_Subset, FS_CardinalityType
  <2>3. \A h \in Addr \X Session :
          h[2] \in leases'[h[1]].holders <=>
            h[2] \in leases[h[1]].holders /\ h[1] \notin S
    BY DEF DropLeases, NoLease
  <2>4. Holds(u)' = {h \in Addr \X Session :
                       h[2] \in leases'[h[1]].holders /\ UserOf[h[2]] = u}
    BY DEF Holds, HeldBy
  <2>5. Holds(u) = {h \in Addr \X Session :
                       h[2] \in leases[h[1]].holders /\ UserOf[h[2]] = u}
    BY DEF Holds, HeldBy
  <2>6. D(u) = {h \in S \X Session :
                       h[2] \in leases[h[1]].holders /\ UserOf[h[2]] = u}
    BY DEF HeldBy
  <2> QED BY <2>1, <2>2, <2>3, <2>4, <2>5, <2>6
<1>2. \A u \in User : perUser'[u] = Monus(perUser[u], Cardinality(D(u)))
  BY DEF DropLeases
<1> HIDE DEF D
<1>3. LedgerBalanced'
  BY <1>1, <1>2, RemoveHolds DEF LedgerBalanced, Books
<1>4. perUser' \in [User -> Nat]
  <2>1. \A u \in User : perUser'[u] \in Nat
    BY <1>1, <1>2 DEF Monus, Books, LedgerType
  <2> QED BY <2>1 DEF DropLeases
<1>5. LedgerType'
  <2>1. leases' \in [Addr -> Lease]
    BY NoLeaseType DEF DropLeases, Books, LedgerType
  <2>2. \A a \in Addr : ~leases'[a].live => leases'[a] = NoLease
    BY DEF DropLeases, Books, LedgerType
  <2>3. turn' \in [User -> [Addr -> Nat]]
    BY DEF DropLeases, Books, LedgerType
  <2>4. releasing' \subseteq Addr /\ releasePending' \subseteq Addr
    BY DEF DropLeases, Books, LedgerType
  <2> QED BY <1>4, <2>1, <2>2, <2>3, <2>4 DEF LedgerType
<1>6. GraceUnheld'
  BY DEF DropLeases, Books, GraceUnheld, NoLease
<1>7. FifoSound'
  <2>1. ASSUME NEW u \in User, NEW a \in Addr, turn'[u][a] # 0
        PROVE  turn'[u][a] = turn[u][a] /\ HeldBy(u, a) # {} /\ a \notin S
    BY <2>1 DEF DropLeases, Books, FifoSound
  <2>2. ASSUME NEW u \in User, NEW a \in Addr, turn'[u][a] # 0
        PROVE  HeldBy(u, a)' # {}
    <3>1. leases'[a] = leases[a]
      BY <2>1, <2>2 DEF DropLeases
    <3> QED BY <2>1, <2>2, <3>1 DEF HeldBy
  <2> QED BY <2>1, <2>2, FifoKept DEF Books
<1> QED BY <1>3, <1>5, <1>6, <1>7 DEF Books

LEMMA NowStamp == \A a : Now(a) \in Stamp /\ Now(a) # 0
  BY DEF Now, Stamp

\* The observer callbacks keep the books.
LEMMA OnSlotInUseBooks ==
  ASSUME Books, NEW a \in Addr, OnSlotInUse(a)
  PROVE  Books'
<1>1. LedgerType'
  <2> DEFINE le == leases[a]
             new == Confirmed(a)
  <2>1. le \in Lease /\ (~le.live => le = NoLease)
    BY DEF Books, LedgerType
  <2>2. new \in Lease
    <3>1. CASE le.live
      BY <2>1, <3>1, NowStamp DEF Lease, Confirmed
    <3>2. CASE ~le.live /\ ~suppressExternal
      BY <3>2, NowStamp DEF Lease, NoLease, Holder, Confirmed
    <3> QED BY <2>1, <3>1, <3>2 DEF Confirmed
  <2>3. ~new.live => new = NoLease
    <3>1. CASE le.live
      <4>1. new.live = le.live
        BY <2>1, <3>1 DEF Lease, Confirmed
      <4> QED BY <3>1, <4>1
    <3>2. CASE ~le.live /\ ~suppressExternal
      <4>1. new.live = TRUE
        BY <3>2 DEF NoLease, Confirmed
      <4> QED BY <4>1
    <3>3. CASE ~le.live /\ suppressExternal
      <4>1. new = le
        BY <3>3 DEF Confirmed
      <4> QED BY <2>1, <3>3, <4>1
    <3> QED BY <3>1, <3>2, <3>3
  <2>4. leases' = [leases EXCEPT ![a] = new]
    BY DEF OnSlotInUse
  <2> HIDE DEF new
  <2>5. /\ leases' \in [Addr -> Lease]
        /\ \A b \in Addr : ~leases'[b].live => leases'[b] = NoLease
    BY <2>2, <2>3, <2>4, LeaseUpdate DEF Books
  <2> QED BY <2>5 DEF OnSlotInUse, Books, LedgerType
<1>2. GraceUnheld'
  BY DEF OnSlotInUse, Confirmed, Books, GraceUnheld, NoLease, LedgerType, Lease
<1>3. \A b \in Addr : \A s \in Session :
         s \in leases'[b].holders <=> s \in leases[b].holders
  BY ConstantsAssumption DEF OnSlotInUse, Confirmed, Books, NoLease, LedgerType, Lease
<1>4. LedgerBalanced' /\ FifoSound'
  BY <1>3, SameHolders, FifoSame DEF OnSlotInUse, Books
<1> QED BY <1>1, <1>2, <1>4 DEF Books

LEMMA OnSlotReleasedBooks ==
  ASSUME Books, NEW a \in Addr, OnSlotReleased(a)
  PROVE  Books'
<1>1. CASE leases[a].live
  BY <1>1, DropLeasesBooks DEF OnSlotReleased
<1>2. CASE UNCHANGED ledger
  BY <1>2 DEF ledger, Books, LedgerType, GraceUnheld, LedgerBalanced, FifoSound,
              Holds, HeldBy
<1> QED BY <1>1, <1>2 DEF OnSlotReleased

LEMMA UnchangedBooks ==
  ASSUME Books, UNCHANGED ledger
  PROVE  Books'
  BY DEF ledger, Books, LedgerType, GraceUnheld, LedgerBalanced, FifoSound,
         Holds, HeldBy

\* A list keeps natural ranks.
LEMMA EnlistType ==
  ASSUME NEW f \in [Addr -> Nat], NEW x \in Addr
  PROVE  Enlist(f, x) \in [Addr -> Nat]
<1>1. \A y \in Addr : Rank(f, y) \in Nat
  <2> TAKE y \in Addr
  <2>1. {z \in DOMAIN f : 0 < f[z] /\ f[z] <= f[y]} \in SUBSET Addr
    OBVIOUS
  <2> QED BY <2>1, ConstantsAssumption, FS_Subset, FS_CardinalityType DEF Rank
<1>2. Cardinality({z \in DOMAIN f : f[z] # 0}) \in Nat
  <2>1. {z \in DOMAIN f : f[z] # 0} \in SUBSET Addr
    OBVIOUS
  <2> QED BY <2>1, ConstantsAssumption, FS_Subset, FS_CardinalityType
<1> QED BY <1>1, <1>2, SMTT(30) DEF Enlist

\* Enlisting a leaves the addresses without a rank alone.
LEMMA EnlistZero ==
  ASSUME NEW f \in [Addr -> Nat], NEW x \in Addr, NEW y \in Addr \ {x},
         f[y] = 0
  PROVE  Enlist(f, x)[y] = 0
<1>1. {z \in DOMAIN f : 0 < f[z] /\ f[z] <= f[y]} = {}
  OBVIOUS
<1>2. Rank(f, y) = 0
  BY <1>1, FS_EmptySet DEF Rank
<1> QED BY <1>2 DEF Enlist

\* Enlisting keeps the ranks distinct: it renumbers them without gaps in
\* their order, and the new one is above all others.
LEMMA EnlistSound ==
  ASSUME NEW f \in [Addr -> Nat], NEW x \in Addr,
         \A b \in Addr : f[b] # 0 => \A c \in Addr \ {b} : f[c] # f[b]
  PROVE  \A b \in Addr : Enlist(f, x)[b] # 0 =>
           /\ f[b] # 0 \/ b = x
           /\ \A c \in Addr \ {b} : Enlist(f, x)[c] # Enlist(f, x)[b]
<1> DEFINE g == Enlist(f, x)
           upTo(y) == {z \in DOMAIN f : 0 < f[z] /\ f[z] <= f[y]}
           listed == {z \in DOMAIN f : f[z] # 0}
<1>1. CASE f[x] # 0
  BY <1>1 DEF Enlist
<1>2. CASE f[x] = 0
  <2>1. /\ g[x] = 1 + Cardinality(listed)
        /\ \A y \in Addr \ {x} : g[y] = Cardinality(upTo(y))
    BY <1>2 DEF Enlist, Rank
  <2>2. ASSUME NEW y \in Addr
        PROVE  IsFiniteSet(upTo(y)) /\ IsFiniteSet(listed)
               /\ Cardinality(upTo(y)) \in Nat /\ Cardinality(listed) \in Nat
    <3>1. upTo(y) \in SUBSET Addr /\ listed \in SUBSET Addr
      OBVIOUS
    <3> QED BY <3>1, ConstantsAssumption, FS_Subset, FS_CardinalityType
  <2>3. ASSUME NEW y \in Addr PROVE Cardinality(upTo(y)) <= Cardinality(listed)
    <3>1. upTo(y) \in SUBSET listed
      OBVIOUS
    <3> QED BY <2>2, <3>1, FS_Subset
  <2>4. ASSUME NEW y \in Addr, NEW z \in Addr, f[y] < f[z]
        PROVE  Cardinality(upTo(y)) < Cardinality(upTo(z))
    <3>1. upTo(y) \in SUBSET upTo(z) /\ z \in upTo(z) /\ z \notin upTo(y)
      BY <2>4
    <3>2. Cardinality(upTo(y)) <= Cardinality(upTo(z))
          /\ Cardinality(upTo(y)) # Cardinality(upTo(z))
      BY <2>2, <3>1, FS_Subset
    <3>3. Cardinality(upTo(y)) \in Nat /\ Cardinality(upTo(z)) \in Nat
      BY <2>2
    <3> HIDE DEF upTo
    <3> QED BY <3>2, <3>3
  <2>5. \A y \in Addr \ {x} : f[y] = 0 => g[y] = 0
    BY EnlistZero
  <2> HIDE DEF g, upTo, listed
  <2>6. ASSUME NEW b \in Addr, g[b] # 0, NEW c \in Addr \ {b}
        PROVE  g[c] # g[b]
    <3>1. CASE b = x
      BY <2>1, <2>2, <2>3, <3>1
    <3>2. CASE c = x
      BY <2>1, <2>2, <2>3, <3>2
    <3>3. CASE b # x /\ c # x
      <4>1. f[b] # 0 /\ f[c] # f[b]
        BY <2>5, <2>6, <3>3
      <4>2. f[b] < f[c] \/ f[c] < f[b]
        BY <4>1
      <4> QED BY <2>1, <2>2, <2>4, <3>3, <4>2
    <3> QED BY <3>1, <3>2, <3>3
  <2> QED BY <2>5, <2>6 DEF g
<1> QED BY <1>1, <1>2

-----------------------------------------------------------------------------
(***************************************************************************)
(* The critical sections that several actions share.                       *)
(***************************************************************************)
Threads == th \in [Proc -> Thread] /\ ThreadsOK

\* Deleting a lease without drivers and without the bookkeeping.
LEMMA DeleteUnheld ==
  ASSUME Books, NEW S \in SUBSET Addr,
         \A a \in S : leases[a].holders \cap Session = {},
         leases' = [a \in Addr |-> IF a \in S THEN NoLease ELSE leases[a]],
         perUser' = perUser, turn' = turn,
         releasing' \subseteq Addr, releasePending' = releasePending
  PROVE  Books'
<1>1. leases' \in [Addr -> Lease]
  BY NoLeaseType DEF Books, LedgerType
<1>2. LedgerType'
  BY <1>1 DEF Books, LedgerType
<1>3. GraceUnheld'
  BY DEF Books, GraceUnheld, NoLease
<1>4. LedgerBalanced'
  <2>1. \A a \in Addr : \A s \in Session :
           s \in leases'[a].holders <=> s \in leases[a].holders
    BY DEF NoLease
  <2> QED BY <2>1, SameHolders DEF Books
<1>5. FifoSound'
  <2>1. \A a \in Addr : \A s \in Session :
           s \in leases[a].holders => s \in leases'[a].holders
    OBVIOUS
  <2> QED BY <2>1, FifoSame DEF Books
<1> QED BY <1>2, <1>3, <1>4, <1>5 DEF Books

LEMMA WithHolderType ==
  ASSUME Books, NEW a \in Addr, NEW s \in Session
  PROVE  /\ WithHolder(a, s) \in Lease
         /\ WithHolder(a, s).live /\ WithHolder(a, s).releaseAt = 0
         /\ WithHolder(a, s).holders = leases[a].holders \cup {s}
<1>1. leases[a] \in Lease
  BY DEF Books, LedgerType
<1> QED BY <1>1, NowStamp DEF WithHolder, Lease, Holder

LEMMA AddHolderOK ==
  ASSUME Books, Threads, NEW p \in Proc, NEW t, ThreadOK(t),
         t.a \in Addr, t.s \in Session, AddHolder(p, t)
  PROVE  Books' /\ Threads'
<1> DEFINE a == t.a
           s == t.s
           u == UserOf[s]
           le == WithHolder(a, s)
<1>0. u \in User
  BY ConstantsAssumption
<1>1. leases' = [leases EXCEPT ![a] = le]
  BY DEF AddHolder
<1>2. /\ le \in Lease /\ le.live /\ le.releaseAt = 0
      /\ le.holders = leases[a].holders \cup {s}
  BY WithHolderType
<1> HIDE DEF le
<1>3. /\ leases' \in [Addr -> Lease]
      /\ \A b \in Addr : ~leases'[b].live => leases'[b] = NoLease
  BY <1>1, <1>2, LeaseUpdate DEF Books
<1>4. GraceUnheld'
  BY <1>1, <1>2 DEF Books, GraceUnheld, LedgerType
<1>5. ASSUME s \in leases[a].holders PROVE Books'
  <2>1. UNCHANGED <<perUser, turn>> /\ releasing' = releasing \ {a}
        /\ UNCHANGED releasePending
    BY <1>5 DEF AddHolder
  <2>2. \A b \in Addr : \A q \in Session :
          q \in leases'[b].holders <=> q \in leases[b].holders
    BY <1>1, <1>2, <1>5 DEF Books, LedgerType
  <2>3. LedgerBalanced' /\ FifoSound'
    BY <2>1, <2>2, SameHolders, FifoSame DEF Books
  <2>4. LedgerType'
    BY <1>3, <2>1 DEF Books, LedgerType
  <2> QED BY <1>4, <2>3, <2>4 DEF Books
<1>6. ASSUME s \notin leases[a].holders PROVE Books'
  <2>1. /\ perUser' = [perUser EXCEPT ![u] = perUser[u] + 1]
        /\ turn' = [turn EXCEPT ![u] = Enlist(turn[u], a)]
        /\ releasing' = releasing \ {a} /\ UNCHANGED releasePending
    BY <1>6 DEF AddHolder
  <2>2. turn' \in [User -> [Addr -> Nat]]
    BY <1>0, <2>1, EnlistType DEF Books, LedgerType
  <2>3. LedgerType'
    BY <1>0, <1>3, <2>1, <2>2 DEF Books, LedgerType
  <2>4. LedgerBalanced'
    <3> SUFFICES ASSUME NEW v \in User
                 PROVE  perUser'[v] = Cardinality(Holds(v)')
      BY DEF LedgerBalanced
    <3>1. perUser[v] = Cardinality(Holds(v))
      BY DEF Books, LedgerBalanced
    <3>2. \A b \in Addr : \A q \in Session :
            q \in leases'[b].holders <=>
              q \in leases[b].holders \/ (q = s /\ b = a)
      BY <1>1, <1>2 DEF Books, LedgerType
    <3>3. CASE v # u
      <4>1. Holds(v)' = Holds(v)
        BY <3>2, <3>3 DEF Holds, HeldBy
      <4> QED BY <2>1, <3>1, <3>3, <4>1 DEF Books, LedgerType
    <3>4. CASE v = u
      <4>1. Holds(v)' = Holds(v) \cup {<<a, s>>}
        BY <3>2, <3>4 DEF Holds, HeldBy
      <4>2. <<a, s>> \notin Holds(v)
        BY <1>6 DEF Holds, HeldBy
      <4>3. Cardinality(Holds(v)') = Cardinality(Holds(v)) + 1
        BY <4>1, <4>2, HoldsFinite, FS_AddElement
      <4> QED BY <1>0, <2>1, <3>1, <3>4, <4>3 DEF Books, LedgerType
    <3> QED BY <3>3, <3>4
  <2>5. FifoSound'
    <3>1. \A v \in User : \A b \in Addr : HeldBy(v, b) \subseteq HeldBy(v, b)'
      BY <1>1, <1>2 DEF Books, LedgerType, HeldBy
    <3>2. HeldBy(u, a)' # {}
      BY <1>1, <1>2 DEF Books, LedgerType, HeldBy
    <3>3. turn[u] \in [Addr -> Nat] /\ turn'[u] = Enlist(turn[u], a)
      BY <1>0, <2>1 DEF Books, LedgerType
    <3>4. \A b \in Addr : turn[u][b] # 0 =>
            HeldBy(u, b) # {} /\ \A c \in Addr \ {b} : turn[u][c] # turn[u][b]
      BY <1>0 DEF Books, FifoSound
    <3>5. \A b \in Addr : turn'[u][b] # 0 =>
            /\ turn[u][b] # 0 \/ b = a
            /\ \A c \in Addr \ {b} : turn'[u][c] # turn'[u][b]
      BY <3>3, <3>4, EnlistSound
    <3>6. \A v \in User \ {u} : turn'[v] = turn[v]
      BY <2>1 DEF Books, LedgerType
    <3> QED BY <3>1, <3>2, <3>4, <3>5, <3>6 DEF Books, FifoSound
  <2> QED BY <1>4, <2>3, <2>4, <2>5 DEF Books
<1>7. Threads'
  <2>1. CASE t.op = "drive"
    BY <2>1, SucceedOK DEF AddHolder, Threads
  <2>2. CASE t.op # "drive"
    <3> DEFINE n == [t EXCEPT !.pc = "check"]
    <3>1. ThreadOK(n)
      BY DEF ThreadOK, Thread, PCs, Carries, CallPC, TrainPC, ReleasePC
    <3> QED BY <2>2, <3>1, BecomeOK DEF AddHolder, Threads
  <2> QED BY <2>1, <2>2
<1> QED BY <1>5, <1>6, <1>7

LEMMA EvictGraceOK ==
  ASSUME Books, Threads, NEW p \in Proc, NEW t, ThreadOK(t),
         NEW back \in {"budget", "trainBudget"}, t.s \in Session,
         back = "budget" => t.a \in Addr,
         EvictGrace(p, t, back)
  PROVE  Books' /\ Threads'
<1>1. PICK a \in Graced :
        /\ leases' = [leases EXCEPT ![a] = NoLease]
        /\ releasing' = releasing \cup {a}
        /\ Become(p, [t EXCEPT !.pc = "enqueue", !.rel = a, !.n = t.n + 1,
                               !.back = back])
  BY DEF EvictGrace
<1>2. a \in Addr /\ leases[a].holders = {}
  BY DEF Graced
<1>3. leases' = [b \in Addr |-> IF b \in {a} THEN NoLease ELSE leases[b]]
  BY <1>1 DEF Books, LedgerType
<1>4. Books'
  <2>1. /\ perUser' = perUser /\ turn' = turn
        /\ releasing' \subseteq Addr /\ releasePending' = releasePending
    BY <1>1, <1>2 DEF EvictGrace, Books, LedgerType
  <2>2. \A b \in {a} : leases[b].holders \cap Session = {}
    BY <1>2
  <2>3. {a} \in SUBSET Addr
    BY <1>2
  <2> QED BY <1>3, <2>1, <2>2, <2>3, DeleteUnheld
<1>5. Threads'
  <2> DEFINE n == [t EXCEPT !.pc = "enqueue", !.rel = a, !.n = t.n + 1,
                            !.back = back]
  <2>0. "enqueue" \in PCs /\ back \in PCs
    BY DEF PCs
  <2>1. /\ n \in Thread
        /\ n.pc = "enqueue" /\ n.rel = a /\ n.back = back
        /\ n.a = t.a /\ n.s = t.s /\ n.op = t.op
    <3>1. t \in Thread /\ t.n + 1 \in Nat
      BY DEF ThreadOK, Thread
    <3>2. n \in Thread
      BY <1>2, <2>0, <3>1 DEF Thread
    <3> QED BY <3>1, <3>2 DEF Thread
  <2> HIDE DEF n
  <2>2. Carries(n, "enqueue") /\ Carries(n, "trainBudget")
        /\ (back = "budget" => Carries(n, "budget"))
    BY <2>1 DEF Carries, CallPC, TrainPC
  <2>3. back \notin ReleasePC
    BY DEF ReleasePC
  <2>4. ThreadOK(n)
    BY <1>2, <2>1, <2>2, <2>3 DEF ThreadOK
  <2> QED BY <1>1, <2>4, BecomeOK DEF n, Threads
<1> QED BY <1>4, <1>5

LEMMA BudgetRefusedOK ==
  ASSUME Books, Threads, NEW p \in Proc, NEW t, ThreadOK(t),
         BudgetRefused(p, t)
  PROVE  Books' /\ Threads'
  BY FailOK, UnchangedBooks DEF BudgetRefused, Threads

LEMMA CheckCapOK ==
  ASSUME Books, Threads, NEW p \in Proc, NEW t, ThreadOK(t),
         t.a \in Addr, t.s \in Session, CheckCap(p, t)
  PROVE  Books' /\ Threads'
<1> DEFINE n(v) == [t EXCEPT !.pc = "evict", !.rel = v]
<1>1. CASE AddHolder(p, t)
  BY <1>1, AddHolderOK
<1>2. CASE Fail(p, t) /\ UNCHANGED ledger
  BY <1>2, FailOK, UnchangedBooks DEF Threads
<1>3. ASSUME NEW v \in Addr, Become(p, n(v)), UNCHANGED ledger
      PROVE  Books' /\ Threads'
  <2>1. /\ n(v) \in Thread /\ n(v).pc = "evict" /\ n(v).rel \in Addr
        /\ n(v).back = t.back /\ n(v).a = t.a /\ n(v).s = t.s /\ n(v).op = t.op
    BY DEF ThreadOK, Thread, PCs
  <2> HIDE DEF n
  <2>2. ThreadOK(n(v))
    BY <2>1 DEF ThreadOK, Carries, CallPC, TrainPC, ReleasePC
  <2> QED BY <1>3, <2>2, BecomeOK, UnchangedBooks DEF Threads
<1>4. OldestEvictable(UserOf[t.s], t.a) \subseteq Addr
  BY DEF OldestEvictable, Evictable
<1> QED BY <1>1, <1>2, <1>3, <1>4 DEF CheckCap

LEMMA ReserveLockedOK ==
  ASSUME Books, Threads, NEW p \in Proc, NEW t, ThreadOK(t),
         t.a \in Addr, t.s \in Session, ReserveLocked(p, t)
  PROVE  Books' /\ Threads'
<1>1. CASE CheckCap(p, t)
  BY <1>1, CheckCapOK
<1>2. CASE EvictGrace(p, t, "budget")
  BY <1>2, EvictGraceOK
<1>3. CASE BudgetRefused(p, t)
  BY <1>3, BudgetRefusedOK
<1> QED BY <1>1, <1>2, <1>3 DEF ReserveLocked

LEMMA TrainLockedOK ==
  ASSUME Books, Threads, NEW p \in Proc, NEW t, ThreadOK(t),
         t.s \in Session, TrainLocked(p, t)
  PROVE  Books' /\ Threads'
<1> DEFINE n == [t EXCEPT !.pc = "next", !.n = 0]
           m == [t EXCEPT !.op = "none"]
<1>1. CASE Become(p, n) /\ UNCHANGED ledger
  <2>1. /\ n \in Thread /\ n.pc = "next"
        /\ n.back = t.back /\ n.a = t.a /\ n.s = t.s /\ n.op = t.op
    BY DEF ThreadOK, Thread, PCs
  <2> HIDE DEF n
  <2>2. ThreadOK(n)
    BY <2>1 DEF ThreadOK, Carries, CallPC, TrainPC, ReleasePC
  <2> QED BY <1>1, <2>2, BecomeOK, UnchangedBooks DEF Threads
<1>2. CASE EvictGrace(p, t, "trainBudget")
  BY <1>2, EvictGraceOK
<1>3. CASE BudgetRefused(p, m)
  <2>1. /\ m \in Thread /\ m.pc = t.pc /\ m.back = t.back
        /\ m.a = t.a /\ m.s = t.s /\ m.rel = t.rel
    BY DEF ThreadOK, Thread, PCs
  <2> HIDE DEF m
  <2>2. ThreadOK(m)
    BY <2>1 DEF ThreadOK, Carries
  <2> QED BY <1>3, <2>2, BudgetRefusedOK
<1> QED BY <1>1, <1>2, <1>3 DEF TrainLocked

LEMMA WithoutHolderType ==
  ASSUME Books, NEW a \in Addr, NEW s \in Session
  PROVE  /\ WithoutHolder(a, s) \in Lease
         /\ WithoutHolder(a, s).live = leases[a].live
         /\ WithoutHolder(a, s).releaseAt = leases[a].releaseAt
         /\ WithoutHolder(a, s).holders = leases[a].holders \ {s}
<1>1. leases[a] \in Lease
  BY DEF Books, LedgerType
<1> QED BY <1>1 DEF WithoutHolder, Lease

\* A held lease exists.
LEMMA HeldLive ==
  ASSUME Books, NEW a \in Addr, NEW s, s \in leases[a].holders
  PROVE  leases[a].live /\ leases[a].releaseAt = 0
<1>1. NoLease.holders = {}
  BY DEF NoLease
<1> QED BY <1>1 DEF Books, LedgerType, GraceUnheld

\* What every way of taking session s off the addresses of S has to show.
LEMMA LeaveBooks ==
  ASSUME Books, NEW s \in Session, NEW S \in SUBSET Addr,
         \A a \in S : s \in leases[a].holders,
         RemoveHolder(s, S),
         leases' \in [Addr -> Lease],
         \A a \in Addr : ~leases'[a].live => leases'[a] = NoLease,
         \A a \in Addr : leases'[a].holders =
                           IF a \in S THEN leases[a].holders \ {s}
                                      ELSE leases[a].holders,
         GraceUnheld',
         releasing' \subseteq Addr, releasePending' \subseteq Addr
  PROVE  Books'
<1>1. LedgerType'
  BY RemoveHolderType DEF Books, LedgerType
<1>2. LedgerBalanced'
  BY RemoveHolderBalanced DEF Books
<1>3. FifoSound'
  <2>1. \A a \in Addr : \A q \in Session :
           q \in leases[a].holders /\ ~(q = s /\ a \in S)
             => q \in leases'[a].holders
    OBVIOUS
  <2> QED BY <2>1, RemoveHolderFifo DEF Books
<1> QED BY <1>1, <1>2, <1>3 DEF Books

\* The two outcomes of taking s off a: the lease stays without s, or goes.
LEMMA LeaveOne ==
  ASSUME Books, NEW a \in Addr, NEW s \in Session, s \in leases[a].holders,
         RemoveHolder(s, {a}),
         \/ leases' = [leases EXCEPT ![a] = WithoutHolder(a, s)]
         \/ /\ LastHolder(a, s)
            /\ leases' = [leases EXCEPT ![a] = NoLease],
         releasing' \subseteq Addr, releasePending' \subseteq Addr
  PROVE  Books'
<1> DEFINE le == IF leases' = [leases EXCEPT ![a] = WithoutHolder(a, s)]
                 THEN WithoutHolder(a, s) ELSE NoLease
<1>1. leases' = [leases EXCEPT ![a] = le]
  OBVIOUS
<1>2. /\ le \in Lease /\ (~le.live => le = NoLease)
      /\ le.holders = leases[a].holders \ {s}
      /\ le.releaseAt = 0
  <2>1. leases[a].live /\ leases[a].releaseAt = 0
    BY HeldLive
  <2>2. CASE le = WithoutHolder(a, s)
    BY <2>1, <2>2, WithoutHolderType
  <2>3. CASE LastHolder(a, s) /\ le = NoLease
    BY <2>3, NoLeaseType DEF LastHolder, NoLease
  <2> QED BY <2>2, <2>3
<1> HIDE DEF le
<1>3. /\ leases' \in [Addr -> Lease]
      /\ \A b \in Addr : ~leases'[b].live => leases'[b] = NoLease
  BY <1>1, <1>2, LeaseUpdate DEF Books
<1>4. \A b \in Addr : leases'[b].holders =
                        IF b \in {a} THEN leases[b].holders \ {s}
                                     ELSE leases[b].holders
  BY <1>1, <1>2 DEF Books, LedgerType
<1>5. GraceUnheld'
  BY <1>1, <1>2 DEF Books, GraceUnheld, LedgerType
<1> QED BY <1>3, <1>4, <1>5, LeaveBooks

\* Deferring the release of a keeps the books: the lease has no driver left.
LEMMA LeaveDeferred ==
  ASSUME Books, NEW a \in Addr, NEW s \in Session, LastHolder(a, s),
         RemoveHolder(s, {a}), NEW at \in [Addr -> Nat],
         \A b \in Addr : leases[b].releaseAt = 0 /\ b # a => at[b] = 0,
         leases' = [b \in Addr |->
            IF b = a THEN [WithoutHolder(a, s) EXCEPT !.releaseAt = at[a]]
            ELSE [leases[b] EXCEPT !.releaseAt = at[b]]],
         UNCHANGED <<releasing, releasePending>>
  PROVE  Books'
<1> DEFINE new(b) == leases'[b]
<1>1. leases[a].live /\ leases[a].releaseAt = 0 /\ leases[a].holders \ {s} = {}
      /\ s \in leases[a].holders
  BY HeldLive DEF LastHolder
<1>2. /\ leases'[a] \in Lease /\ leases'[a].live
      /\ leases'[a].holders = {}
  BY <1>1, WithoutHolderType DEF Lease
<1>3. ASSUME NEW b \in Addr, b # a
      PROVE  /\ leases'[b] \in Lease /\ leases'[b].live = leases[b].live
             /\ leases'[b].holders = leases[b].holders
             /\ leases'[b].releaseAt = at[b]
             /\ at[b] = leases[b].releaseAt => leases'[b] = leases[b]
  <2>1. leases[b] \in Lease /\ leases'[b] = [leases[b] EXCEPT !.releaseAt = at[b]]
    BY <1>3 DEF Books, LedgerType
  <2> QED BY <2>1 DEF Lease
<1>4. leases' \in [Addr -> Lease]
  BY <1>2, <1>3
<1>5. \A b \in Addr : ~leases'[b].live => leases'[b] = NoLease
  <2> SUFFICES ASSUME NEW b \in Addr, ~leases'[b].live
               PROVE  leases'[b] = NoLease
    OBVIOUS
  <2>1. b # a /\ leases[b] = NoLease
    BY <1>2, <1>3 DEF Books, LedgerType
  <2>2. leases[b].releaseAt = 0 /\ at[b] = 0
    BY <2>1 DEF NoLease
  <2> QED BY <1>3, <2>1, <2>2
<1>6. \A b \in Addr : leases'[b].holders =
                        IF b \in {a} THEN leases[b].holders \ {s}
                                     ELSE leases[b].holders
  BY <1>1, <1>2, <1>3, ZenonT(60)
<1>7. GraceUnheld'
  BY <1>2, <1>3 DEF Books, GraceUnheld
<1>8. releasing' \subseteq Addr /\ releasePending' \subseteq Addr
      /\ \A b \in {a} : s \in leases[b].holders
  BY <1>1 DEF Books, LedgerType
<1> QED BY <1>4, <1>5, <1>6, <1>7, <1>8, LeaveBooks

LEMMA StartReleaseOK ==
  ASSUME Threads, NEW p \in Proc, NEW t, ThreadOK(t), NEW S \in SUBSET Addr,
         StartRelease(p, t, S)
  PROVE  Threads'
<1> DEFINE n == [t EXCEPT !.todo = S]
<1>1. /\ n \in Thread /\ n.pc = t.pc /\ n.back = t.back
      /\ n.a = t.a /\ n.s = t.s /\ n.rel = t.rel /\ n.op = t.op
  BY DEF ThreadOK, Thread
<1> HIDE DEF n
<1>2. ThreadOK(n)
  BY <1>1 DEF ThreadOK, Carries
<1> QED BY <1>2, NextReleaseOK DEF n, StartRelease, Threads

LEMMA DeselectLockedOK ==
  ASSUME Books, Threads, NEW p \in Proc, NEW t, ThreadOK(t),
         NEW a \in Addr, NEW s \in Session, s \in leases[a].holders,
         NEW deferred \in BOOLEAN, DeselectLocked(p, t, s, a, deferred)
  PROVE  Books' /\ Threads'
<1>0. RemoveHolder(s, {a}) /\ UNCHANGED <<releasing, releasePending>>
      /\ releasing' \subseteq Addr /\ releasePending' \subseteq Addr
  BY DEF DeselectLocked, Books, LedgerType
<1>1. CASE /\ leases' = [leases EXCEPT ![a] = WithoutHolder(a, s)]
           /\ Become(p, Return(t))
  <2>1. Books'
    BY <1>0, <1>1, LeaveOne
  <2> QED BY <1>1, <2>1, ReturnOK, BecomeOK DEF Threads
<1>2. CASE /\ LastHolder(a, s)
           /\ LET at == Enlist([b \in Addr |-> leases[b].releaseAt], a)
              IN  leases' = [b \in Addr |->
                    IF b = a THEN [WithoutHolder(a, s) EXCEPT !.releaseAt = at[a]]
                    ELSE [leases[b] EXCEPT !.releaseAt = at[b]]]
           /\ Become(p, Return(t))
  <2> DEFINE f == [b \in Addr |-> leases[b].releaseAt]
             at == Enlist(f, a)
  <2>1. f \in [Addr -> Nat]
    BY DEF Books, LedgerType, Lease
  <2>2. at \in [Addr -> Nat]
    BY <2>1, EnlistType
  <2>3. \A b \in Addr : leases[b].releaseAt = 0 /\ b # a => at[b] = 0
    BY <2>1, EnlistZero
  <2>4. leases' = [b \in Addr |->
            IF b = a THEN [WithoutHolder(a, s) EXCEPT !.releaseAt = at[a]]
            ELSE [leases[b] EXCEPT !.releaseAt = at[b]]]
    BY <1>2
  <2>5. LastHolder(a, s)
    BY <1>2
  <2> HIDE DEF at
  <2>6. Books'
    BY ONLY <1>0, <2>2, <2>3, <2>4, <2>5, LeaveDeferred, Books
  <2> QED BY <1>2, <2>6, ReturnOK, BecomeOK DEF Threads
<1>3. CASE /\ LastHolder(a, s)
           /\ leases' = [leases EXCEPT ![a] = NoLease]
           /\ StartRelease(p, t, {a})
  <2>1. Books'
    BY <1>0, <1>3, LeaveOne
  <2> QED BY <1>3, <2>1, StartReleaseOK
<1> QED BY <1>1, <1>2, <1>3 DEF DeselectLocked

-----------------------------------------------------------------------------
(***************************************************************************)
(* The invariant and its preservation by each action.                      *)
(***************************************************************************)
Rest ==
  /\ queue \in Seq(Addr) /\ suppressExternal \in BOOLEAN
  /\ slot \in [Addr -> BOOLEAN] /\ moving \in [Addr -> BOOLEAN]
  /\ probed \in [Addr -> -1 .. 2]

Inv == Books /\ Threads /\ Rest

LEMMA RestSame ==
  ASSUME Rest, UNCHANGED <<queue, suppressExternal, slot, moving, probed>>
  PROVE  Rest'
  BY DEF Rest

LEMMA CallStep ==
  ASSUME Inv, NEW p \in Proc, NEW op \in {"drive", "select"},
         NEW s \in Session, NEW a \in Addr, Call(p, op, s, a)
  PROVE  Inv'
<1> DEFINE n == [Idle EXCEPT !.op = op, !.s = s, !.a = a, !.need = NeedsSlot(a)]
<1>1. NeedsSlot(a) \in Nat
  BY DEF NeedsSlot
<1>2. /\ n \in Thread /\ n.pc = "idle" /\ n.back = "idle"
      /\ n.a = a /\ n.s = s /\ n.op = op
  BY <1>1 DEF Idle, Thread, PCs
<1>3. ReserveLocked(p, n) /\ UNCHANGED <<queue, suppressExternal, slot, moving, probed>>
  BY DEF Call
<1> HIDE DEF n
<1>4. ThreadOK(n)
  BY <1>2 DEF ThreadOK, Carries, CallPC, TrainPC, ReleasePC
<1>5. Books' /\ Threads'
  BY <1>2, <1>3, <1>4, ReserveLockedOK DEF Inv
<1> QED BY <1>3, <1>5, RestSame DEF Inv

LEMMA ResumeStep ==
  ASSUME Inv, NEW p \in Proc,
         ResumeBudget(p) \/ ResumeReserve(p) \/ ResumeTrain(p)
  PROVE  Inv'
<1>1. ThreadOK(th[p])
  BY DEF Inv, Threads, ThreadsOK
<1>2. CASE ResumeBudget(p)
  <2>1. th[p].a \in Addr /\ th[p].s \in Session
    BY <1>1, <1>2 DEF ResumeBudget, At, ThreadOK, Carries, CallPC
  <2>2. Books' /\ Threads'
    BY <1>1, <1>2, <2>1, ReserveLockedOK DEF ResumeBudget, Inv
  <2> QED BY <1>2, <2>2, RestSame DEF ResumeBudget, Inv
<1>3. CASE ResumeReserve(p)
  <2>1. th[p].a \in Addr /\ th[p].s \in Session
    BY <1>1, <1>3 DEF ResumeReserve, At, ThreadOK, Carries, CallPC
  <2>2. Books' /\ Threads'
    BY <1>1, <1>3, <2>1, AddHolderOK DEF ResumeReserve, Inv
  <2> QED BY <1>3, <2>2, RestSame DEF ResumeReserve, Inv
<1>4. CASE ResumeTrain(p)
  <2>1. th[p].s \in Session
    BY <1>1, <1>4 DEF ResumeTrain, At, ThreadOK, Carries, TrainPC
  <2>2. Books' /\ Threads'
    BY <1>1, <1>4, <2>1, TrainLockedOK DEF ResumeTrain, Inv
  <2> QED BY <1>4, <2>2, RestSame DEF ResumeTrain, Inv
<1> QED BY <1>2, <1>3, <1>4

LEMMA CapEvictStep ==
  ASSUME Inv, NEW p \in Proc, CapEvict(p)
  PROVE  Inv'
<1> DEFINE t == th[p]
           a == t.rel
           on == [t EXCEPT !.pc = "add", !.rel = NoAddr]
           enq == [t EXCEPT !.pc = "enqueue", !.back = "add"]
<1>1. ThreadOK(t)
  BY DEF Inv, Threads, ThreadsOK
<1>2. t.a \in Addr /\ t.s \in Session /\ a \in Addr
  BY <1>1 DEF CapEvict, At, ThreadOK, Carries, CallPC, ReleasePC
<1>3. ThreadOK(on)
  <2>1. /\ on \in Thread /\ on.pc = "add" /\ on.back = t.back
        /\ on.a = t.a /\ on.s = t.s /\ on.op = t.op
    BY <1>1 DEF ThreadOK, Thread, PCs
  <2> HIDE DEF on
  <2> QED BY <1>1, <1>2, <2>1 DEF ThreadOK, Carries, CallPC, TrainPC, ReleasePC
<1>4. ThreadOK(enq)
  <2>1. /\ enq \in Thread /\ enq.pc = "enqueue" /\ enq.back = "add"
        /\ enq.a = t.a /\ enq.s = t.s /\ enq.op = t.op /\ enq.rel = t.rel
    BY <1>1, ZenonT(60) DEF ThreadOK, Thread, PCs
  <2> HIDE DEF enq
  <2> QED BY <1>1, <1>2, <2>1 DEF ThreadOK, Carries, CallPC, TrainPC, ReleasePC
<1> HIDE DEF on, enq
<1>5. CASE t.s \notin leases[a].holders
  <2>1. Become(p, on) /\ UNCHANGED ledger
    BY <1>5 DEF CapEvict, on
  <2>2. Books' /\ Threads'
    BY <1>3, <2>1, BecomeOK, UnchangedBooks DEF Inv, Threads
  <2> QED BY <2>2, RestSame DEF CapEvict, Inv
<1>6. CASE t.s \in leases[a].holders
  <2>1. RemoveHolder(t.s, {a}) /\ releasePending' = releasePending
    BY <1>6 DEF CapEvict
  <2>2. \/ /\ leases' = [leases EXCEPT ![a] = WithoutHolder(a, t.s)]
           /\ releasing' = releasing /\ Become(p, on)
        \/ /\ LastHolder(a, t.s) /\ leases' = [leases EXCEPT ![a] = NoLease]
           /\ releasing' = releasing \cup {a} /\ Become(p, enq)
    BY <1>6 DEF CapEvict, on, enq
  <2>3. releasing' \subseteq Addr /\ releasePending' \subseteq Addr
    BY <1>2, <2>1, <2>2 DEF Inv, Books, LedgerType
  <2>4. Books'
    BY <1>2, <1>6, <2>1, <2>2, <2>3, LeaveOne DEF Inv
  <2>5. Threads'
    BY <1>3, <1>4, <2>2, BecomeOK DEF Inv, Threads
  <2> QED BY <2>4, <2>5, RestSame DEF CapEvict, Inv
<1> QED BY <1>5, <1>6

LEMMA DriveStep ==
  ASSUME Inv, NEW p \in Proc, Drive(p)
  PROVE  Inv'
<1>1. th[p].a \in Addr
  BY DEF Inv, Threads, ThreadsOK, ThreadOK, Carries, CallPC, Drive, At
<1>2. Books'
  BY <1>1, OnSlotInUseBooks, UnchangedBooks DEF Drive, Inv
<1>3. Threads'
  BY IdleOK, BecomeOK DEF Drive, Inv, Threads
<1>4. Rest'
  BY DEF Drive, Inv, Rest
<1> QED BY <1>2, <1>3, <1>4 DEF Inv

\* A thread moves to a program counter for which it carries what is needed.
LEMMA MoveOK ==
  ASSUME NEW t, ThreadOK(t), NEW pc \in PCs, Carries(t, pc),
         pc \in ReleasePC => t.rel \in Addr
  PROVE  ThreadOK([t EXCEPT !.pc = pc])
<1> DEFINE n == [t EXCEPT !.pc = pc]
<1>1. /\ n \in Thread /\ n.pc = pc /\ n.back = t.back
      /\ n.a = t.a /\ n.s = t.s /\ n.op = t.op /\ n.rel = t.rel
  BY DEF ThreadOK, Thread
<1> HIDE DEF n
<1>2. ThreadOK(n)
  BY <1>1 DEF ThreadOK, Carries
<1> QED BY <1>2 DEF n

\* A lease that changes without a driver coming or going.
LEMMA SameBooks ==
  ASSUME Books, NEW a \in Addr, NEW le \in Lease, ~le.live => le = NoLease,
         le.holders = leases[a].holders,
         le.releaseAt = leases[a].releaseAt,
         leases' = [leases EXCEPT ![a] = le],
         UNCHANGED <<perUser, turn, releasing, releasePending>>
  PROVE  Books'
<1>1. /\ leases' \in [Addr -> Lease]
      /\ \A b \in Addr : ~leases'[b].live => leases'[b] = NoLease
  BY LeaseUpdate DEF Books
<1>2. \A b \in Addr : leases'[b].holders = leases[b].holders
                      /\ leases'[b].releaseAt = leases[b].releaseAt
  BY DEF Books, LedgerType
<1>3. LedgerType'
  BY <1>1 DEF Books, LedgerType
<1>4. GraceUnheld'
  BY <1>2 DEF Books, GraceUnheld
<1>5. LedgerBalanced' /\ FifoSound'
  BY <1>2, SameHolders, FifoSame DEF Books
<1> QED BY <1>3, <1>4, <1>5 DEF Books

LEMMA SelectCheckStep ==
  ASSUME Inv, NEW p \in Proc, SelectCheck(p)
  PROVE  Inv'
<1> DEFINE t == th[p]
           a == t.a
           le == [leases[a] EXCEPT !.acquiring = TRUE]
<1>1. ThreadOK(t) /\ a \in Addr /\ t.s \in Session
  BY DEF Inv, Threads, ThreadsOK, ThreadOK, Carries, CallPC, SelectCheck, At
<1>2. CASE /\ Cardinality(leases[a].holders) = 1
           /\ leases' = [leases EXCEPT ![a].acquiring = TRUE]
           /\ Become(p, [t EXCEPT !.pc = "acquire"])
  <2>1. leases[a] \in Lease /\ (~leases[a].live => leases[a] = NoLease)
    BY <1>1 DEF Inv, Books, LedgerType
  <2>2. leases[a].live
    <3>1. Cardinality(NoLease.holders) = 0
      BY FS_EmptySet DEF NoLease
    <3> QED BY <1>2, <2>1, <3>1
  <2>3. /\ le \in Lease /\ le.live /\ le.holders = leases[a].holders
        /\ le.releaseAt = leases[a].releaseAt
    BY <2>1, <2>2 DEF Lease
  <2>4. leases' = [leases EXCEPT ![a] = le]
    BY <1>2
  <2>5. UNCHANGED <<perUser, turn, releasing, releasePending>>
    BY DEF SelectCheck
  <2> HIDE DEF le
  <2>6. Books'
    BY <1>1, <2>3, <2>4, <2>5, SameBooks DEF Inv
  <2>7. ThreadOK([t EXCEPT !.pc = "acquire"])
    <3>1. Carries(t, "acquire") /\ "acquire" \in PCs /\ "acquire" \notin ReleasePC
      BY <1>1 DEF Carries, PCs, ReleasePC
    <3> QED BY <1>1, <3>1, MoveOK
  <2>8. Threads'
    BY <1>2, <2>7, BecomeOK DEF Inv, Threads
  <2> QED BY <2>6, <2>8, RestSame DEF SelectCheck, Inv
<1>3. CASE Succeed(p, t) /\ UNCHANGED leases
  <2>1. Books'
    BY <1>3, UnchangedBooks DEF SelectCheck, Inv, ledger
  <2>2. Threads'
    BY <1>1, <1>3, SucceedOK DEF Inv, Threads
  <2> QED BY <2>1, <2>2, RestSame DEF SelectCheck, Inv
<1> QED BY <1>2, <1>3 DEF SelectCheck

LEMMA AcquireSlotStep ==
  ASSUME Inv, NEW p \in Proc, AcquireSlot(p)
  PROVE  Inv'
<1> DEFINE t == th[p]
<1>1. ThreadOK(t) /\ t.a \in Addr /\ t.s \in Session
  BY DEF Inv, Threads, ThreadsOK, ThreadOK, Carries, CallPC, AcquireSlot, At
<1>2. Books'
  BY <1>1, OnSlotInUseBooks, UnchangedBooks DEF AcquireSlot, Inv
<1>3. ASSUME NEW pc \in {"acquired", "refused"}
      PROVE  ThreadOK([t EXCEPT !.pc = pc])
  <2>1. Carries(t, pc) /\ pc \in PCs /\ pc \notin ReleasePC
    BY <1>1 DEF Carries, PCs, ReleasePC
  <2> QED BY <1>1, <2>1, MoveOK
<1>4. Threads'
  BY <1>3, BecomeOK DEF AcquireSlot, Inv, Threads
<1>5. Rest'
  BY <1>1 DEF AcquireSlot, Inv, Rest
<1> QED BY <1>2, <1>4, <1>5 DEF Inv

LEMMA SelectAcquiredStep ==
  ASSUME Inv, NEW p \in Proc, SelectAcquired(p)
  PROVE  Inv'
<1> DEFINE t == th[p]
           a == t.a
           le == [leases[a] EXCEPT !.acquiring = FALSE, !.releaseAfter = FALSE,
                                   !.acquiredAt = Now(a)]
           n == [t EXCEPT !.pc = "reuse1", !.rel = a,
                  !.got = t.got \cup (IF t.op = "train" THEN {a} ELSE {}),
                  !.back = IF t.op = "train" THEN "next" ELSE "idle"]
<1>1. ThreadOK(t) /\ a \in Addr /\ t.s \in Session
  BY DEF Inv, Threads, ThreadsOK, ThreadOK, Carries, CallPC, SelectAcquired, At
<1>2. UNCHANGED <<perUser, turn, releasing, releasePending>>
  BY DEF SelectAcquired
<1>3. Books'
  <2>1. CASE UNCHANGED leases
    BY <1>2, <2>1, UnchangedBooks DEF Inv, ledger
  <2>2. CASE leases[a].live /\ leases' = [leases EXCEPT ![a] = le]
    <3>1. leases[a] \in Lease
      BY <1>1 DEF Inv, Books, LedgerType
    <3>2. /\ le \in Lease /\ le.live /\ le.holders = leases[a].holders
          /\ le.releaseAt = leases[a].releaseAt
      BY <2>2, <3>1, NowStamp DEF Lease
    <3> HIDE DEF le
    <3> QED BY <1>1, <1>2, <2>2, <3>2, SameBooks DEF Inv
  <2> QED BY <2>1, <2>2 DEF SelectAcquired
<1>4. Threads'
  <2>1. CASE Succeed(p, t)
    BY <1>1, <2>1, SucceedOK DEF Inv, Threads
  <2>2. CASE Become(p, n)
    <3>0. "reuse1" \in PCs /\ (IF t.op = "train" THEN "next" ELSE "idle") \in PCs
      BY DEF PCs
    <3>1. /\ n \in Thread /\ n.pc = "reuse1" /\ n.rel = a
          /\ n.back \in {"next", "idle"} /\ n.a = a /\ n.s = t.s /\ n.op = t.op
      BY <1>1, <3>0 DEF ThreadOK, Thread
    <3> HIDE DEF n
    <3>2. ThreadOK(n)
      BY <1>1, <3>1 DEF ThreadOK, Carries, CallPC, TrainPC, ReleasePC
    <3> QED BY <2>2, <3>2, BecomeOK DEF Inv, Threads
  <2> QED BY <2>1, <2>2 DEF SelectAcquired
<1> QED BY <1>3, <1>4, RestSame DEF SelectAcquired, Inv

LEMMA SelectRefusedStep ==
  ASSUME Inv, NEW p \in Proc, SelectRefused(p)
  PROVE  Inv'
<1> DEFINE t == th[p]
           a == t.a
           s == t.s
           left == leases[a].holders \ {s}
           le == IF left = {} THEN NoLease
                 ELSE [WithoutHolder(a, s) EXCEPT
                         !.acquiring = FALSE, !.releaseAfter = FALSE]
<1>1. ThreadOK(t) /\ a \in Addr /\ s \in Session
  BY DEF Inv, Threads, ThreadsOK, ThreadOK, Carries, CallPC, SelectRefused, At
<1>2. UNCHANGED <<releasing, releasePending>>
      /\ releasing' \subseteq Addr /\ releasePending' \subseteq Addr
  BY DEF SelectRefused, Inv, Books, LedgerType
<1>3. Books'
  <2>1. CASE ~leases[a].live
    BY <1>2, <2>1, UnchangedBooks DEF SelectRefused, Inv, ledger
  <2>2. CASE leases[a].live
    <3>1. leases' = [leases EXCEPT ![a] = le]
      BY <2>2 DEF SelectRefused
    <3>2. /\ le \in Lease /\ (~le.live => le = NoLease) /\ le.holders = left
          /\ le.releaseAt = 0 \/ (le.releaseAt = leases[a].releaseAt /\ left # {})
      <4>1. CASE left = {}
        BY <4>1, NoLeaseType DEF NoLease
      <4>2. CASE left # {}
        <5> DEFINE w == WithoutHolder(a, s)
        <5>1. /\ w \in Lease /\ w.live /\ w.holders = left
              /\ w.releaseAt = leases[a].releaseAt
          BY <1>1, <2>2, WithoutHolderType DEF Inv
        <5>2. le = [w EXCEPT !.acquiring = FALSE, !.releaseAfter = FALSE]
          BY <4>2
        <5> HIDE DEF w, le
        <5>3. /\ le \in Lease /\ le.live /\ le.holders = w.holders
              /\ le.releaseAt = w.releaseAt
          BY <5>1, <5>2 DEF Lease
        <5> QED BY <4>2, <5>1, <5>3
      <4> QED BY <4>1, <4>2
    <3> HIDE DEF le
    <3>3. /\ leases' \in [Addr -> Lease]
          /\ \A b \in Addr : ~leases'[b].live => leases'[b] = NoLease
      BY <1>1, <3>1, <3>2, LeaseUpdate DEF Inv, Books
    <3>4. GraceUnheld'
      BY <1>1, <3>1, <3>2 DEF Inv, Books, GraceUnheld, LedgerType
    <3>5. \A b \in Addr : leases'[b].holders =
                            IF b \in {a} THEN leases[b].holders \ {s}
                                         ELSE leases[b].holders
      BY <1>1, <3>1, <3>2 DEF Inv, Books, LedgerType
    <3>6. CASE s \in leases[a].holders
      <4>1. RemoveHolder(s, {a})
        BY <2>2, <3>6 DEF SelectRefused
      <4>2. Books /\ {a} \in SUBSET Addr /\ \A b \in {a} : s \in leases[b].holders
        BY <1>1, <3>6 DEF Inv
      <4> QED BY ONLY <1>1, <1>2, <3>3, <3>4, <3>5, <4>1, <4>2, LeaveBooks, ZenonT(60)
    <3>7. CASE s \notin leases[a].holders
      <4>1. UNCHANGED <<perUser, turn>>
        BY <2>2, <3>7 DEF SelectRefused
      <4>2. \A b \in Addr : leases'[b].holders = leases[b].holders
        BY <3>5, <3>7
      <4>3. LedgerBalanced' /\ FifoSound'
        BY <4>1, <4>2, SameHolders, FifoSame DEF Inv, Books
      <4> QED BY <1>2, <3>3, <3>4, <4>1, <4>3 DEF Inv, Books, LedgerType
    <3> QED BY <3>6, <3>7
  <2> QED BY <2>1, <2>2
<1>4. Threads'
  BY <1>1, FailOK DEF SelectRefused, Inv, Threads
<1> QED BY <1>3, <1>4, RestSame DEF SelectRefused, Inv

LEMMA SelectTrainStep ==
  ASSUME Inv, NEW p \in Proc, NEW s \in Session, NEW M \in SUBSET Addr,
         SelectTrain(p, s, M)
  PROVE  Inv'
<1> DEFINE k == Cardinality({a \in M : ~Occupies(a)})
           n == [Idle EXCEPT !.op = "train", !.s = s, !.rest = M, !.need = k]
<1>1. k \in Nat
  <2>1. {a \in M : ~Occupies(a)} \in SUBSET Addr
    OBVIOUS
  <2> QED BY <2>1, FS_Subset, FS_CardinalityType, ConstantsAssumption
<1>2. /\ TrainLocked(p, n)
      /\ UNCHANGED <<queue, suppressExternal, slot, moving, probed>>
  BY DEF SelectTrain
<1> HIDE DEF k
<1>3. /\ n \in Thread /\ n.pc = "idle" /\ n.back = "idle" /\ n.s = s
  BY <1>1 DEF Idle, Thread, PCs
<1> HIDE DEF n
<1>4. ThreadOK(n)
  BY <1>3 DEF ThreadOK, Carries, CallPC, TrainPC, ReleasePC
<1>5. Books' /\ Threads'
  BY <1>2, <1>3, <1>4, TrainLockedOK DEF Inv
<1> QED BY <1>2, <1>5, RestSame DEF Inv

LEMMA TrainNextStep ==
  ASSUME Inv, NEW p \in Proc, TrainNext(p)
  PROVE  Inv'
<1> DEFINE t == th[p]
           n(a) == [t EXCEPT !.a = a, !.rest = t.rest \ {a},
                             !.need = NeedsSlot(a), !.n = 0]
<1>1. ThreadOK(t) /\ t.s \in Session /\ t.pc = "next"
  BY DEF Inv, Threads, ThreadsOK, ThreadOK, Carries, TrainPC, TrainNext, At
<1>2. t.rest \subseteq Addr
  BY <1>1 DEF ThreadOK, Thread
<1>3. CASE Become(p, Idle) /\ UNCHANGED ledger
  <2>1. Books' /\ Threads'
    BY <1>3, IdleOK, BecomeOK, UnchangedBooks DEF Inv, Threads
  <2> QED BY <2>1, RestSame DEF TrainNext, Inv
<1>4. CASE Fail(p, t) /\ UNCHANGED ledger
  <2>1. Books' /\ Threads'
    BY <1>1, <1>4, FailOK, UnchangedBooks DEF Inv, Threads
  <2> QED BY <2>1, RestSame DEF TrainNext, Inv
<1>5. ASSUME NEW a \in t.rest, ReserveLocked(p, n(a))
      PROVE  Inv'
  <2>0. NeedsSlot(a) \in Nat /\ a \in Addr
    BY <1>2 DEF NeedsSlot
  <2>1. /\ n(a) \in Thread /\ n(a).pc = "next" /\ n(a).back = t.back
        /\ n(a).a = a /\ n(a).s = t.s /\ n(a).op = t.op
    BY <1>1, <2>0 DEF ThreadOK, Thread
  <2> HIDE DEF n
  <2>2. ThreadOK(n(a))
    BY <1>1, <2>0, <2>1 DEF ThreadOK, Carries, CallPC, TrainPC, ReleasePC
  <2>3. Books' /\ Threads'
    BY <1>1, <1>5, <2>0, <2>1, <2>2, ReserveLockedOK DEF Inv
  <2> QED BY <2>3, RestSame DEF TrainNext, Inv
<1> QED BY <1>3, <1>4, <1>5 DEF TrainNext

LEMMA DeselectStep ==
  ASSUME Inv, NEW p \in Proc, NEW s \in Session, NEW a \in Addr,
         NEW deferred \in BOOLEAN, Deselect(p, s, a, deferred)
  PROVE  Inv'
<1>1. Books' /\ Threads'
  BY IdleOK, DeselectLockedOK DEF Deselect, Inv
<1> QED BY <1>1, RestSame DEF Deselect, Inv

LEMMA TrainRollbackStep ==
  ASSUME Inv, NEW p \in Proc, TrainRollback(p)
  PROVE  Inv'
<1> DEFINE t == th[p]
           on(a) == [t EXCEPT !.got = t.got \ {a}, !.back = "rollback"]
<1>1. ThreadOK(t) /\ t.s \in Session /\ t.pc = "rollback"
  BY DEF Inv, Threads, ThreadsOK, ThreadOK, Carries, TrainPC, TrainRollback, At
<1>2. t.got \subseteq Addr
  BY <1>1 DEF ThreadOK, Thread
<1>3. CASE Become(p, Idle) /\ UNCHANGED ledger
  <2>1. Books' /\ Threads'
    BY <1>3, IdleOK, BecomeOK, UnchangedBooks DEF Inv, Threads
  <2> QED BY <2>1, RestSame DEF TrainRollback, Inv
<1>4. ASSUME NEW a \in t.got
      PROVE  ThreadOK(on(a))
  <2>1. /\ on(a) \in Thread /\ on(a).pc = t.pc /\ on(a).back = "rollback"
        /\ on(a).a = t.a /\ on(a).s = t.s /\ on(a).op = t.op
    BY <1>1, ZenonT(60) DEF ThreadOK, Thread, PCs
  <2> HIDE DEF on
  <2> QED BY <1>1, <2>1 DEF ThreadOK, Carries, CallPC, TrainPC, ReleasePC
<1> HIDE DEF on
<1>5. ASSUME NEW a \in t.got, t.s \in leases[a].holders,
             DeselectLocked(p, on(a), t.s, a, FALSE)
      PROVE  Inv'
  <2>1. Books' /\ Threads'
    BY <1>1, <1>2, <1>4, <1>5, DeselectLockedOK DEF Inv
  <2> QED BY <2>1, RestSame DEF TrainRollback, Inv
<1>6. ASSUME NEW a \in t.got, Become(p, Return(on(a))), UNCHANGED ledger
      PROVE  Inv'
  <2>1. Books' /\ Threads'
    BY <1>4, <1>6, ReturnOK, BecomeOK, UnchangedBooks DEF Inv, Threads
  <2> QED BY <2>1, RestSame DEF TrainRollback, Inv
<1> QED BY <1>3, <1>5, <1>6 DEF TrainRollback, on

LEMMA ReleaseSessionStep ==
  ASSUME Inv, NEW p \in Proc, NEW s \in Session, ReleaseSession(p, s)
  PROVE  Inv'
<1> DEFINE S == {a \in Addr : s \in leases[a].holders}
           gone == {a \in S : LastHolder(a, s) /\ ~leases[a].acquiring}
<1>1. /\ leases' = [a \in Addr |->
           IF a \in gone THEN NoLease
           ELSE IF a \in S THEN WithoutHolder(a, s) ELSE leases[a]]
      /\ RemoveHolder(s, S) /\ StartRelease(p, Idle, gone)
      /\ UNCHANGED <<releasing, releasePending>>
  BY DEF ReleaseSession
<1>2. ASSUME NEW a \in Addr
      PROVE  /\ leases'[a] \in Lease
             /\ ~leases'[a].live => leases'[a] = NoLease
             /\ leases'[a].holders = IF a \in S THEN leases[a].holders \ {s}
                                                ELSE leases[a].holders
             /\ leases'[a].releaseAt # 0 => leases'[a].holders = {}
  <2>1. CASE a \in gone
    <3>1. leases'[a] = NoLease /\ leases[a].holders = {s} /\ a \in S
      BY <1>1, <2>1 DEF LastHolder
    <3> QED BY <3>1, NoLeaseType DEF NoLease
  <2>2. CASE a \in S /\ a \notin gone
    <3>1. leases'[a] = WithoutHolder(a, s)
      BY <1>1, <2>2
    <3>2. leases[a].live /\ leases[a].releaseAt = 0
      BY <2>2, HeldLive DEF Inv
    <3> QED BY <2>2, <3>1, <3>2, WithoutHolderType DEF Inv
  <2>3. CASE a \notin S
    BY <1>1, <2>3 DEF Inv, Books, LedgerType, GraceUnheld
  <2> QED BY <2>1, <2>2, <2>3
<1>3. Books'
  <2>1. S \in SUBSET Addr /\ \A a \in S : s \in leases[a].holders
    OBVIOUS
  <2>2. leases' \in [Addr -> Lease]
    BY <1>1, <1>2
  <2>3. GraceUnheld'
    BY <1>2 DEF GraceUnheld
  <2>4. releasing' \subseteq Addr /\ releasePending' \subseteq Addr /\ Books
    BY <1>1 DEF Inv, Books, LedgerType
  <2> HIDE DEF S
  <2> QED BY <1>1, <1>2, <2>1, <2>2, <2>3, <2>4, LeaveBooks
<1>4. Threads'
  BY <1>1, IdleOK, StartReleaseOK DEF Inv
<1> QED BY <1>3, <1>4, RestSame DEF ReleaseSession, Inv

LEMMA ForceReleaseStep ==
  ASSUME Inv, NEW p \in Proc, NEW a \in Addr, ForceRelease(p, a)
  PROVE  Inv'
<1>1. Books'
  BY DropLeasesBooks DEF ForceRelease, Inv
<1>2. Threads'
  BY IdleOK, StartReleaseOK DEF ForceRelease, Inv
<1> QED BY <1>1, <1>2, RestSame DEF ForceRelease, Inv

\* Touch and the passing of the idle timeout only move lastDriveAt.
LEMMA DrivenStep ==
  ASSUME Inv, NEW s \in Session, NEW a \in Addr,
         IdleElapse(s, a) \/ \E p \in Proc : Touch(p, s, a)
  PROVE  Inv'
<1> DEFINE D == IF s \in leases[a].driven /\ IdleElapse(s, a)
                THEN leases[a].driven \ {s} ELSE leases[a].driven \cup {s}
           le == [leases[a] EXCEPT !.driven = D]
<1>1. leases[a] \in Lease /\ leases[a].live
  <2>1. leases[a] \in Lease /\ (~leases[a].live => leases[a] = NoLease)
    BY DEF Inv, Books, LedgerType
  <2>2. NoLease.driven = {} /\ NoLease.holders = {}
    BY DEF NoLease
  <2>3. s \in leases[a].driven \/ s \in leases[a].holders
    BY DEF IdleElapse, Touch
  <2> QED BY <2>1, <2>2, <2>3
<1>2. /\ UNCHANGED <<perUser, turn, releasing, releasePending, queue,
                     suppressExternal, slot, moving, probed, th>>
  BY DEF IdleElapse, Touch
<1>3. leases' = [leases EXCEPT ![a] = le]
  <2>1. CASE IdleElapse(s, a)
    BY <2>1 DEF IdleElapse
  <2>2. CASE ~IdleElapse(s, a) /\ \E p \in Proc : Touch(p, s, a)
    BY <2>2 DEF Touch
  <2> QED BY <2>1, <2>2
<1>4. D \in SUBSET Session
  BY <1>1 DEF Lease
<1> HIDE DEF D
<1>5. /\ le \in Lease /\ le.live /\ le.holders = leases[a].holders
      /\ le.releaseAt = leases[a].releaseAt
  BY <1>1, <1>4 DEF Lease
<1> HIDE DEF le
<1>6. Books'
  BY <1>2, <1>3, <1>5, SameBooks DEF Inv
<1>7. Threads'
  BY <1>2 DEF Inv, Threads, ThreadsOK
<1> QED BY <1>2, <1>6, <1>7, RestSame DEF Inv

LEMMA SweepIdleStep ==
  ASSUME Inv, SweepIdle
  PROVE  Inv'
<1> DEFINE n == [Idle EXCEPT !.back = "drain"]
<1>1. IdleExpired \in SUBSET Addr /\ Sweeper \in Proc
  BY DEF IdleExpired, Proc
<1>2. ThreadOK(n)
  BY DEF ThreadOK, Thread, Idle, Carries, CallPC, TrainPC, ReleasePC, PCs
<1>3. Books'
  BY <1>1, DropLeasesBooks DEF SweepIdle, Inv
<1> HIDE DEF n
<1>4. StartRelease(Sweeper, n, IdleExpired)
  BY DEF SweepIdle, n
<1>5. Threads'
  BY <1>1, <1>2, <1>4, StartReleaseOK DEF Inv
<1> QED BY <1>3, <1>5, RestSame DEF SweepIdle, Inv

LEMMA SweepDeferredStep ==
  ASSUME Inv, SweepDeferred
  PROVE  Inv'
<1>1. PICK now : LET S == {a \in Addr : leases[a].releaseAt # 0
                                         /\ leases[a].releaseAt <= now}
                 IN  /\ leases' = [a \in Addr |-> IF a \in S THEN NoLease ELSE leases[a]]
                     /\ StartRelease(Sweeper, Idle, S)
                     /\ UNCHANGED <<perUser, turn, releasing, releasePending, queue,
                                    suppressExternal, slot, moving, probed>>
  BY DEF SweepDeferred
<1> DEFINE S == {a \in Addr : leases[a].releaseAt # 0 /\ leases[a].releaseAt <= now}
<1>2. /\ S \in SUBSET Addr /\ \A a \in S : leases[a].holders \cap Session = {}
      /\ Sweeper \in Proc
  BY DEF Inv, Books, GraceUnheld, Proc
<1>3. /\ leases' = [a \in Addr |-> IF a \in S THEN NoLease ELSE leases[a]]
      /\ StartRelease(Sweeper, Idle, S)
      /\ UNCHANGED <<perUser, turn, releasing, releasePending, queue,
                     suppressExternal, slot, moving, probed>>
      /\ releasing' \subseteq Addr
  BY <1>1 DEF Inv, Books, LedgerType
<1> HIDE DEF S
<1>4. Books'
  BY <1>2, <1>3, DeleteUnheld DEF Inv
<1>5. Threads'
  BY <1>2, <1>3, IdleOK, StartReleaseOK DEF Inv
<1> QED BY <1>3, <1>4, <1>5, RestSame DEF Inv

LEMMA DrainStep ==
  ASSUME Inv, NEW p \in Proc, Drain(p) \/ Drained(p) \/ Park(p)
  PROVE  Inv'
<1> DEFINE t == th[p]
           n == [t EXCEPT !.draining = TRUE]
<1>1. ThreadOK(t)
  BY DEF Inv, Threads, ThreadsOK
<1>2. CASE Drain(p)
  <2>1. /\ n \in Thread /\ n.pc = t.pc /\ n.back = t.back /\ n.a = t.a
        /\ n.s = t.s /\ n.op = t.op /\ n.rel = t.rel
    BY <1>1 DEF ThreadOK, Thread
  <2>2. StartRelease(p, n, releasePending) /\ UNCHANGED ledger
    BY <1>2 DEF Drain
  <2> HIDE DEF n
  <2>3. ThreadOK(n)
    BY <1>1, <2>1 DEF ThreadOK, Carries
  <2>4. releasePending \in SUBSET Addr
    BY DEF Inv, Books, LedgerType
  <2>5. Books' /\ Threads'
    BY <2>2, <2>3, <2>4, StartReleaseOK, UnchangedBooks DEF Inv
  <2> QED BY <1>2, <2>5, RestSame DEF Drain, Inv
<1>3. CASE Drained(p) \/ Park(p)
  <2>1. t.rel \in Addr
    BY <1>1, <1>3 DEF Drained, Park, At, ThreadOK, ReleasePC
  <2>2. /\ NextRelease(p, t)
        /\ UNCHANGED <<leases, perUser, turn, releasing, queue, suppressExternal,
                       slot, moving, probed>>
        /\ releasePending' \subseteq Addr
    BY <1>3, <2>1 DEF Drained, Park, Inv, Books, LedgerType
  <2>3. Books'
    BY <2>2 DEF Inv, Books, LedgerType, GraceUnheld, LedgerBalanced, FifoSound,
       Holds, HeldBy
  <2>4. Threads'
    BY <1>1, <2>2, NextReleaseOK DEF Inv, Threads
  <2> QED BY <2>2, <2>3, <2>4, RestSame DEF Inv
<1> QED BY <1>2, <1>3

LEMMA EnqueueReleaseStep ==
  ASSUME Inv, NEW p \in Proc, EnqueueRelease(p)
  PROVE  Inv'
<1>1. ThreadOK(th[p]) /\ th[p].rel \in Addr
  BY DEF Inv, Threads, ThreadsOK, ThreadOK, ReleasePC, EnqueueRelease, At
<1>2. Books'
  BY UnchangedBooks DEF EnqueueRelease, Inv
<1>3. ThreadOK([th[p] EXCEPT !.pc = "scheduled"])
  <2>1. "scheduled" \in PCs /\ Carries(th[p], "scheduled")
    BY DEF PCs, Carries, CallPC, TrainPC
  <2> QED BY <1>1, <2>1, MoveOK
<1>4. Threads'
  BY <1>1, <1>3, ReturnOK, BecomeOK DEF EnqueueRelease, Inv, Threads
<1>5. Rest'
  BY <1>1 DEF EnqueueRelease, Inv, Rest
<1> QED BY <1>2, <1>4, <1>5 DEF Inv

LEMMA WorkerTakesStep ==
  ASSUME Inv, WorkerTakes
  PROVE  Inv'
<1> DEFINE n == [Idle EXCEPT !.pc = "scheduled", !.rel = Head(queue)]
<1>1. Head(queue) \in Addr /\ Tail(queue) \in Seq(Addr) /\ Worker \in Proc
  BY DEF WorkerTakes, Inv, Rest, Proc
<1>2. /\ n \in Thread /\ n.pc = "scheduled" /\ n.back = "idle"
      /\ n.rel \in Addr /\ n.op = "none"
  BY <1>1 DEF Idle, Thread, PCs
<1>3. Become(Worker, n)
  BY DEF WorkerTakes
<1> HIDE DEF n
<1>4. ThreadOK(n)
  BY <1>2 DEF ThreadOK, Carries, CallPC, TrainPC, ReleasePC
<1>5. Threads'
  BY <1>1, <1>3, <1>4, BecomeOK DEF Inv, Threads
<1>6. Books'
  BY UnchangedBooks DEF WorkerTakes, Inv
<1>7. Rest'
  BY <1>1 DEF WorkerTakes, Inv, Rest
<1> QED BY <1>5, <1>6, <1>7 DEF Inv

\* The steps of a release that only read the table or drop a mark.
LEMMA ReleaseCheckStep ==
  ASSUME Inv, NEW p \in Proc, ReleaseScheduled(p) \/ ReleaseAbortedByReuse(p)
  PROVE  Inv'
<1> DEFINE t == th[p]
<1>1. /\ UNCHANGED <<leases, perUser, turn, releasePending, queue,
                     suppressExternal, slot, moving, probed>>
      /\ releasing' \subseteq releasing
  BY DEF ReleaseScheduled, ReleaseAbortedByReuse, ReuseCheck
<1>2. Books'
  BY <1>1 DEF Inv, Books, LedgerType, GraceUnheld, LedgerBalanced, FifoSound,
       Holds, HeldBy
<1>3. ThreadOK(t) /\ t.rel \in Addr
  BY DEF Inv, Threads, ThreadsOK, ThreadOK, ReleasePC, ReleaseScheduled,
         ReleaseAbortedByReuse, ReuseCheck, At
<1>4. ASSUME NEW pc \in {"reuse1", "estop", "reuse3", "release", "drained"}
      PROVE  ThreadOK([t EXCEPT !.pc = pc])
  <2>1. pc \in PCs /\ Carries(t, pc)
    BY DEF PCs, Carries, CallPC, TrainPC
  <2> QED BY <1>3, <2>1, MoveOK
<1>5. \/ NextRelease(p, t)
      \/ \E pc \in {"reuse1", "estop", "reuse3", "release", "drained"} :
           Become(p, [t EXCEPT !.pc = pc])
  BY DEF ReleaseScheduled, ReleaseAbortedByReuse, ReuseCheck
<1>6. Threads'
  BY <1>3, <1>4, <1>5, NextReleaseOK, BecomeOK DEF Inv, Threads
<1> QED BY <1>1, <1>2, <1>6, RestSame DEF Inv

LEMMA EStopStep ==
  ASSUME Inv, NEW p \in Proc, EStop(p)
  PROVE  Inv'
<1>1. ThreadOK(th[p]) /\ th[p].rel \in Addr
  BY DEF Inv, Threads, ThreadsOK, ThreadOK, ReleasePC, EStop, At
<1>2. ThreadOK([th[p] EXCEPT !.pc = "reuse2"])
  <2>1. "reuse2" \in PCs /\ Carries(th[p], "reuse2")
    BY DEF PCs, Carries, CallPC, TrainPC
  <2> QED BY <1>1, <2>1, MoveOK
<1>3. Books'
  BY UnchangedBooks DEF EStop, Inv
<1>4. Threads'
  BY <1>2, BecomeOK DEF EStop, Inv, Threads
<1>5. Rest'
  BY <1>1 DEF EStop, Inv, Rest
<1> QED BY <1>3, <1>4, <1>5 DEF Inv

LEMMA ReleaseSlotStep ==
  ASSUME Inv, NEW p \in Proc, ReleaseSlot(p)
  PROVE  Inv'
<1> DEFINE t == th[p]
           again == [t EXCEPT !.r = t.r + 1]
<1>1. ThreadOK(t) /\ t.rel \in Addr
  BY DEF Inv, Threads, ThreadsOK, ThreadOK, ReleasePC, ReleaseSlot, At
<1>2. Books'
  BY <1>1, OnSlotReleasedBooks, UnchangedBooks DEF ReleaseSlot, Inv
<1>3. ASSUME NEW pc \in {"drained", "park"}
      PROVE  ThreadOK([t EXCEPT !.pc = pc])
  <2>1. pc \in PCs /\ Carries(t, pc)
    BY DEF PCs, Carries, CallPC, TrainPC
  <2> QED BY <1>1, <2>1, MoveOK
<1>4. ThreadOK(again)
  <2>0. t.r + 1 \in Nat
    BY <1>1 DEF ThreadOK, Thread
  <2>1. /\ again \in Thread /\ again.pc = t.pc /\ again.back = t.back
        /\ again.a = t.a /\ again.s = t.s /\ again.op = t.op /\ again.rel = t.rel
    BY <1>1, <2>0 DEF ThreadOK, Thread
  <2> HIDE DEF again
  <2> QED BY <1>1, <2>1 DEF ThreadOK, Carries
<1>5. \/ NextRelease(p, t) \/ Become(p, again)
      \/ \E pc \in {"drained", "park"} : Become(p, [t EXCEPT !.pc = pc])
  BY DEF ReleaseSlot
<1> HIDE DEF again
<1>6. Threads'
  BY <1>1, <1>3, <1>4, <1>5, NextReleaseOK, BecomeOK DEF Inv, Threads
<1>7. Rest'
  BY <1>1 DEF ReleaseSlot, Inv, Rest
<1> QED BY <1>2, <1>6, <1>7 DEF Inv

\* Forgetting a candidate of the reconciler.
LEMMA UnprobeOK ==
  ASSUME probed \in [Addr -> -1 .. 2], NEW a,
         probed' = [probed EXCEPT ![a] = -1]
  PROVE  probed' \in [Addr -> -1 .. 2]
<1>1. -1 \in -1 .. 2
  OBVIOUS
<1> QED BY <1>1

LEMMA ReconcileStep ==
  ASSUME Inv, Reconcile
  PROVE  Inv'
<1> DEFINE n(a) == [Idle EXCEPT !.pc = "confirm", !.rel = a]
           probing == [Idle EXCEPT !.pc = "probe"]
<1>1. Reconciler \in Proc /\ UNCHANGED <<queue, suppressExternal, slot, moving>>
  BY DEF Reconcile, ReconcileSnapshot, Probe, ReconcileDrop, Proc
<1>2. ThreadOK(probing)
  BY DEF ThreadOK, Thread, Idle, Carries, CallPC, TrainPC, ReleasePC, PCs
<1>3. ASSUME NEW a \in Addr PROVE ThreadOK(n(a))
  <2>1. /\ n(a) \in Thread /\ n(a).pc = "confirm" /\ n(a).back = "idle"
        /\ n(a).rel \in Addr /\ n(a).op = "none"
    BY DEF Idle, Thread, PCs
  <2> HIDE DEF n
  <2> QED BY <2>1 DEF ThreadOK, Carries, CallPC, TrainPC, ReleasePC
<1>4. CASE ReconcileSnapshot
  <2>1. Books'
    BY <1>4, UnchangedBooks DEF ReconcileSnapshot, Inv
  <2>2. Threads'
    BY <1>1, <1>2, <1>4, BecomeOK DEF ReconcileSnapshot, Inv, Threads
  <2>3. probed' \in [Addr -> -1 .. 2]
    <3>1. \A a \in Addr : leases[a].acquiredAt \in 0 .. 2
      BY DEF Inv, Books, LedgerType, Lease, Stamp
    <3> QED BY <1>4, <3>1 DEF ReconcileSnapshot
  <2> QED BY <1>1, <2>1, <2>2, <2>3 DEF Inv, Rest
<1>5. CASE Probe
  <2>1. Books'
    BY <1>5, UnchangedBooks DEF Probe, Inv
  <2>2. Threads'
    <3>1. \/ UNCHANGED th \/ Become(Reconciler, Idle)
          \/ \E a \in Addr : Become(Reconciler, n(a))
      BY <1>5 DEF Probe
    <3> HIDE DEF n
    <3> QED BY <1>1, <1>3, <3>1, IdleOK, BecomeOK DEF Inv, Threads, ThreadsOK
  <2>3. probed' \in [Addr -> -1 .. 2]
    BY <1>5, UnprobeOK DEF Probe, Inv, Rest
  <2> QED BY <1>1, <2>1, <2>2, <2>3 DEF Inv, Rest
<1>6. CASE ReconcileDrop
  <2> DEFINE a == th[Reconciler].rel
  <2>1. a \in Addr
    BY <1>1, <1>6 DEF ReconcileDrop, At, Inv, Threads, ThreadsOK, ThreadOK, ReleasePC
  <2>2. Books'
    BY <1>6, <2>1, DropLeasesBooks, UnchangedBooks DEF ReconcileDrop, Inv
  <2>3. Threads'
    BY <1>1, <1>2, <1>6, BecomeOK DEF ReconcileDrop, Inv, Threads
  <2>4. probed' \in [Addr -> -1 .. 2]
    BY <1>6, UnprobeOK DEF ReconcileDrop, Inv, Rest
  <2> QED BY <1>1, <2>2, <2>3, <2>4 DEF Inv, Rest
<1> QED BY <1>4, <1>5, <1>6 DEF Reconcile

LEMMA StationStep ==
  ASSUME Inv, Station
  PROVE  Inv'
<1>1. ASSUME NEW a \in Addr,
             ThrottleTakes(a) \/ SlotFreed(a) \/ SlotFreedUnseen(a)
      PROVE  Inv'
  <2>1. Books'
    BY <1>1, OnSlotInUseBooks, OnSlotReleasedBooks, UnchangedBooks
       DEF ThrottleTakes, SlotFreed, SlotFreedUnseen, Inv
  <2>2. UNCHANGED th /\ Rest'
    BY <1>1 DEF ThrottleTakes, SlotFreed, SlotFreedUnseen, Inv, Rest
  <2> QED BY <2>1, <2>2 DEF Inv, Threads, ThreadsOK
<1>2. CASE BootStopEnds
  <2>1. Books'
    BY <1>2, UnchangedBooks DEF BootStopEnds, Inv
  <2>2. UNCHANGED th /\ Rest'
    BY <1>2 DEF BootStopEnds, Inv, Rest
  <2> QED BY <2>1, <2>2 DEF Inv, Threads, ThreadsOK
<1> QED BY <1>1, <1>2, DrivenStep DEF Station

LEMMA InitInv == Init => Inv
<1> SUFFICES ASSUME Init PROVE Inv
  OBVIOUS
<1>1. LedgerType
  BY NoLeaseType DEF Init, LedgerType
<1>2. GraceUnheld
  BY DEF Init, GraceUnheld, NoLease
<1>3. LedgerBalanced
  <2>1. \A u \in User : Holds(u) = {}
    BY DEF Init, Holds, HeldBy, NoLease
  <2> QED BY <2>1, FS_EmptySet DEF Init, LedgerBalanced
<1>4. Threads
  BY IdleOK DEF Init, Threads, ThreadsOK, ThreadOK
<1>5. Rest
  BY DEF Init, Rest
<1>6. FifoSound
  BY DEF Init, FifoSound
<1> QED BY <1>1, <1>2, <1>3, <1>4, <1>5, <1>6 DEF Inv, Books

LEMMA StepInv ==
  ASSUME Inv, NEW p \in Proc, Step(p)
  PROVE  Inv'
<1>1. CASE ResumeBudget(p) \/ ResumeReserve(p) \/ ResumeTrain(p)
  BY <1>1, ResumeStep
<1>2. CASE CapEvict(p)
  BY <1>2, CapEvictStep
<1>3. CASE Drive(p)
  BY <1>3, DriveStep
<1>4. CASE SelectCheck(p) \/ AcquireSlot(p)
  BY <1>4, SelectCheckStep, AcquireSlotStep
<1>5. CASE SelectAcquired(p) \/ SelectRefused(p)
  BY <1>5, SelectAcquiredStep, SelectRefusedStep
<1>6. CASE TrainNext(p) \/ TrainRollback(p)
  BY <1>6, TrainNextStep, TrainRollbackStep
<1>7. CASE EnqueueRelease(p) \/ ReleaseScheduled(p) \/ ReleaseAbortedByReuse(p)
  BY <1>7, EnqueueReleaseStep, ReleaseCheckStep
<1>8. CASE EStop(p) \/ ReleaseSlot(p)
  BY <1>8, EStopStep, ReleaseSlotStep
<1>9. CASE Park(p) \/ Drain(p) \/ Drained(p)
  BY <1>9, DrainStep
<1> QED BY <1>1, <1>2, <1>3, <1>4, <1>5, <1>6, <1>7, <1>8, <1>9 DEF Step

LEMMA NextInv == Inv /\ [Next]_vars => Inv'
<1> SUFFICES ASSUME Inv, [Next]_vars PROVE Inv'
  OBVIOUS
<1>1. ASSUME NEW p \in Client, Begin(p) PROVE Inv'
  <2> p \in Proc
    BY DEF Proc
  <2>1. ASSUME NEW s \in Session, NEW a \in Addr, NEW op \in {"drive", "select"},
               Call(p, op, s, a)
        PROVE  Inv'
    BY <2>1, CallStep
  <2>2. ASSUME NEW s \in Session, NEW a \in Addr, NEW deferred \in BOOLEAN,
               Deselect(p, s, a, deferred)
        PROVE  Inv'
    BY <2>2, DeselectStep
  <2>3. ASSUME NEW s \in Session, NEW a \in Addr, Touch(p, s, a)
        PROVE  Inv'
    BY <2>3, DrivenStep
  <2>4. ASSUME NEW s \in Session, ReleaseSession(p, s)
        PROVE  Inv'
    BY <2>4, ReleaseSessionStep
  <2>5. ASSUME NEW s \in Session, NEW M \in (SUBSET Addr) \ {{}},
               SelectTrain(p, s, M)
        PROVE  Inv'
    BY <2>5, SelectTrainStep
  <2>6. ASSUME NEW a \in Addr, ForceRelease(p, a)
        PROVE  Inv'
    BY <2>6, ForceReleaseStep
  <2> QED BY <1>1, <2>1, <2>2, <2>3, <2>4, <2>5, <2>6 DEF Begin
<1>2. ASSUME NEW p \in Proc, Step(p) PROVE Inv'
  BY <1>2, StepInv
<1>3. CASE WorkerTakes
  BY <1>3, WorkerTakesStep
<1>4. CASE SweepIdle
  BY <1>4, SweepIdleStep
<1>5. CASE SweepDeferred
  BY <1>5, SweepDeferredStep
<1>6. CASE Reconcile
  BY <1>6, ReconcileStep
<1>7. CASE Station
  BY <1>7, StationStep
<1>8. CASE UNCHANGED vars
  <2>1. Books'
    BY <1>8, UnchangedBooks DEF vars, ledger, Inv
  <2> QED BY <1>8, <2>1 DEF vars, Inv, Threads, ThreadsOK, Rest
<1> QED BY <1>1, <1>2, <1>3, <1>4, <1>5, <1>6, <1>7, <1>8 DEF Next

-----------------------------------------------------------------------------
(***************************************************************************)
(* The theorems.                                                           *)
(***************************************************************************)
LEMMA InvAlways == Spec => []Inv
<1>1. Init => Inv
  BY InitInv
<1>2. Inv /\ [Next]_vars => Inv'
  BY NextInv
<1> QED BY <1>1, <1>2, PTL DEF Spec

\* The leaser's tables and every goroutine's state stay well formed, and a
\* deleted lease keeps no residue (leaser.go: every critical section).
THEOREM TypeCorrect == Spec => []TypeOK
<1>1. Inv => TypeOK
  BY DEF Inv, Books, LedgerType, Threads, Rest, TypeOK
<1> QED BY <1>1, InvAlways, PTL

\* However many users, sessions, addresses and goroutines there are, and
\* however calls, callbacks, sweeps and releases interleave, the per-user
\* counter the cap is checked against equals the number of holds in the table
\* (Reserve, removeHolderLocked, dropLeaseBookkeepingLocked, the sweeps).
THEOREM LedgerStaysBalanced == Spec => []LedgerBalanced
<1>1. Inv => LedgerBalanced
  BY DEF Inv, Books
<1> QED BY <1>1, InvAlways, PTL

\* The FIFO that the cap evicts from never lists an address its user no longer
\* drives, nor two addresses at one rank: the victim of the cap is one address,
\* and the user drives it (appendUserAddrLocked, removeUserAddrLocked,
\* oldestEvictableAddrLocked).
THEOREM FifoStaysSound == Spec => []FifoSound
<1>1. Inv => FifoSound
  BY DEF Inv, Books
<1> QED BY <1>1, InvAlways, PTL

\* A lease in its grace window never has a driver, so SweepDeferred and the
\* budget eviction may delete it without the bookkeeping.
THEOREM GraceStaysUnheld == Spec => []GraceUnheld
<1>1. Inv => GraceUnheld
  BY DEF Inv, Books
<1> QED BY <1>1, InvAlways, PTL

-----------------------------------------------------------------------------
(***************************************************************************)
(* Duties: the flags, marks and slots that some goroutine still has to see *)
(* to.  Inv says nothing of them; it is used below as a known invariant.   *)
(***************************************************************************)

\* A goroutine at these points will clear the acquiring flag of its address,
\* has a mark to see to, or releases rel and then the addresses of todo.
SelectPC == {"acquire", "acquired", "refused"}
MarkPC == {"enqueue", "scheduled"}
Chain == {"reuse1", "estop", "reuse2", "reuse3", "release", "park"}

Charge(t, a) ==
  \/ t.pc \in Chain /\ t.rel = a
  \/ t.pc \in Chain \cup {"drained"} /\ a \in t.todo

Held(a) == leases[a].live \/ a \in releasing \/ a \in releasePending

\* Nobody is in charge of a slot that is forgotten: stronger than NoSilentLeak,
\* because a job that finds its mark gone does not release anything.
Covered ==
  \A a \in Addr : slot[a] => Held(a) \/ \E p \in Proc : Charge(th[p], a)

\* What a critical section of goroutine p does to the duties: other goroutines
\* stay where they are, no flag appears, a new mark has p as its job, and what
\* was held is held or p is in charge of it.
Others(p) == \A q \in Proc \ {p} : th'[q] = th[q]

KeepsFlags == \A a \in Addr : leases'[a].acquiring => leases[a].acquiring

KeepsMarks(p) ==
  \A a \in releasing' :
    \/ a \in releasing
       /\ leases'[a].holders \cap Session \subseteq leases[a].holders
    \/ /\ th'[p].rel = a /\ th'[p].pc = "enqueue"
       /\ leases'[a].holders \cap Session = {}

KeepsHeld(p) == \A a \in Addr : Held(a) => Held(a)' \/ Charge(th'[p], a)

Frame(p) == Others(p) /\ KeepsFlags /\ KeepsMarks(p) /\ KeepsHeld(p)

LEMMA BecomeAlone ==
  ASSUME th \in [Proc -> Thread], NEW p \in Proc, NEW t, Become(p, t)
  PROVE  Others(p) /\ th'[p] = t
  BY DEF Become, Others

LEMMA FlagsKept ==
  ASSUME AcquiringOwned, NEW p \in Proc, Others(p), KeepsFlags,
         th[p].pc \notin SelectPC
  PROVE  AcquiringOwned'
<1> SUFFICES ASSUME NEW a \in Addr, leases'[a].acquiring
             PROVE  \E q \in Proc : th'[q].a = a
                      /\ th'[q].pc \in {"acquire", "acquired", "refused"}
  BY DEF AcquiringOwned
<1>1. PICK q \in Proc : th[q].a = a /\ th[q].pc \in SelectPC
  BY DEF AcquiringOwned, KeepsFlags, SelectPC
<1>2. th'[q] = th[q]
  BY <1>1 DEF Others
<1> QED BY <1>1, <1>2 DEF SelectPC

LEMMA MarksKept ==
  ASSUME MarkHasJob, NEW p \in Proc, Others(p), KeepsMarks(p), queue' = queue,
         th[p].pc \in MarkPC => th[p].rel \notin releasing'
  PROVE  MarkHasJob'
<1> SUFFICES ASSUME NEW a \in releasing'
             PROVE  /\ leases'[a].holders \cap Session = {}
                    /\ \/ \E i \in DOMAIN queue' : queue'[i] = a
                       \/ \E q \in Proc : th'[q].rel = a
                            /\ th'[q].pc \in {"enqueue", "scheduled"}
  BY DEF MarkHasJob
<1>1. CASE a \in releasing
           /\ leases'[a].holders \cap Session \subseteq leases[a].holders
  <2>1. leases[a].holders \cap Session = {}
    BY <1>1 DEF MarkHasJob
  <2>2. CASE \E i \in DOMAIN queue : queue[i] = a
    BY <1>1, <2>1, <2>2
  <2>3. ASSUME NEW q \in Proc, th[q].rel = a, th[q].pc \in MarkPC
        PROVE  th'[q] = th[q]
    <3>1. q # p
      BY <2>3
    <3> QED BY <3>1 DEF Others
  <2> QED BY <1>1, <2>1, <2>2, <2>3 DEF MarkHasJob, MarkPC
<1>2. CASE /\ th'[p].rel = a /\ th'[p].pc = "enqueue"
           /\ leases'[a].holders \cap Session = {}
  BY <1>2
<1> QED BY <1>1, <1>2 DEF KeepsMarks

\* The general form, and the one for a goroutine that is in charge of nothing.
LEMMA CoveredKept ==
  ASSUME Covered, NEW p \in Proc, Others(p),
         \A a \in Addr : slot'[a] =>
           \/ Held(a)' \/ Charge(th'[p], a)
           \/ slot[a] /\ ~Held(a) /\ ~Charge(th[p], a)
  PROVE  Covered'
<1> SUFFICES ASSUME NEW a \in Addr, slot'[a],
                    slot[a] /\ ~Held(a) /\ ~Charge(th[p], a)
             PROVE  \E q \in Proc : Charge(th'[q], a)
  BY DEF Covered
<1>1. PICK q \in Proc : Charge(th[q], a)
  BY DEF Covered
<1>2. th'[q] = th[q]
  BY <1>1 DEF Others
<1> QED BY <1>1, <1>2

LEMMA CoveredFrame ==
  ASSUME Covered, NEW p \in Proc, Others(p), KeepsHeld(p), slot' = slot,
         th[p].pc \notin Chain \cup {"drained"}
  PROVE  Covered'
<1>1. \A a \in Addr : ~Charge(th[p], a)
  BY DEF Charge
<1> QED BY <1>1, CoveredKept DEF KeepsHeld

LEMMA UnchangedFrame ==
  ASSUME NEW p \in Proc, Others(p), UNCHANGED ledger
  PROVE  Frame(p)
  BY DEF Frame, KeepsFlags, KeepsMarks, KeepsHeld, Held, ledger

\* Going on with a release takes charge of all that is left to do.
LEMMA NextReleaseCharge ==
  ASSUME th \in [Proc -> Thread], NEW p \in Proc, NEW t \in Thread,
         NextRelease(p, t)
  PROVE  Others(p) /\ \A a \in t.todo : Charge(th'[p], a)
<1>1. CASE t.todo = {} /\ Become(p, Return(t))
  BY <1>1, BecomeAlone
<1>2. ASSUME NEW b \in t.todo,
             Become(p, [t EXCEPT !.pc = IF t.draining THEN "reuse3" ELSE "reuse1",
                                 !.rel = b, !.todo = t.todo \ {b}, !.r = 0])
      PROVE  Others(p) /\ \A a \in t.todo : Charge(th'[p], a)
  <2> DEFINE n == [t EXCEPT !.pc = IF t.draining THEN "reuse3" ELSE "reuse1",
                            !.rel = b, !.todo = t.todo \ {b}, !.r = 0]
  <2>1. n.pc \in Chain /\ n.rel = b /\ n.todo = t.todo \ {b}
    BY DEF Thread, Chain
  <2> HIDE DEF n
  <2>2. Others(p) /\ th'[p] = n
    BY <1>2, BecomeAlone DEF n
  <2> QED BY <2>1, <2>2 DEF Charge
<1> QED BY <1>1, <1>2 DEF NextRelease

LEMMA StartReleaseCharge ==
  ASSUME th \in [Proc -> Thread], NEW p \in Proc, NEW t \in Thread,
         NEW S \in SUBSET Addr, StartRelease(p, t, S)
  PROVE  Others(p) /\ \A a \in S : Charge(th'[p], a)
<1> DEFINE n == [t EXCEPT !.todo = S]
<1>1. n \in Thread /\ n.todo = S
  BY DEF Thread
<1> HIDE DEF n
<1> QED BY <1>1, NextReleaseCharge DEF n, StartRelease

LEMMA ReturnAlone ==
  ASSUME th \in [Proc -> Thread], NEW p \in Proc, NEW t,
         Succeed(p, t) \/ Fail(p, t)
  PROVE  Others(p)
<1>1. \E n : Become(p, n)
  BY DEF Succeed, Fail
<1> QED BY <1>1, BecomeAlone

LEMMA AddHolderFrame ==
  ASSUME Books, Threads, NEW p \in Proc, NEW t,
         t.a \in Addr, t.s \in Session, AddHolder(p, t)
  PROVE  Frame(p)
<1> DEFINE a == t.a
           le == WithHolder(a, t.s)
<1>1. /\ leases' = [leases EXCEPT ![a] = le]
      /\ releasing' = releasing \ {a} /\ releasePending' = releasePending
  BY DEF AddHolder
<1>2. le.live /\ le.acquiring = leases[a].acquiring
  BY DEF WithHolder, Books, LedgerType, Lease
<1> HIDE DEF le
<1>3. leases'[a] = le /\ \A b \in Addr \ {a} : leases'[b] = leases[b]
  BY <1>1 DEF Books, LedgerType
<1>4. Others(p)
  <2>1. \E n : Become(p, n)
    BY DEF AddHolder, Succeed
  <2> QED BY <2>1, BecomeAlone DEF Threads
<1>5. KeepsFlags
  BY <1>2, <1>3 DEF KeepsFlags
<1>6. KeepsMarks(p)
  BY <1>1, <1>3 DEF KeepsMarks, Books, LedgerType
<1>7. KeepsHeld(p)
  BY <1>1, <1>2, <1>3 DEF KeepsHeld, Held
<1> QED BY <1>4, <1>5, <1>6, <1>7 DEF Frame

LEMMA EvictGraceFrame ==
  ASSUME Books, Threads, NEW p \in Proc, NEW t, ThreadOK(t), NEW back,
         EvictGrace(p, t, back)
  PROVE  Frame(p)
<1>1. PICK a \in Graced :
        /\ leases' = [leases EXCEPT ![a] = NoLease]
        /\ releasing' = releasing \cup {a}
        /\ Become(p, [t EXCEPT !.pc = "enqueue", !.rel = a, !.n = t.n + 1,
                               !.back = back])
  BY DEF EvictGrace
<1>2. a \in Addr /\ releasePending' = releasePending
  BY DEF Graced, EvictGrace
<1>3. leases'[a] = NoLease /\ \A b \in Addr \ {a} : leases'[b] = leases[b]
  BY <1>1, <1>2 DEF Books, LedgerType
<1>4. Others(p) /\ th'[p].rel = a /\ th'[p].pc = "enqueue"
  <2> DEFINE n == [t EXCEPT !.pc = "enqueue", !.rel = a, !.n = t.n + 1,
                            !.back = back]
  <2>1. n.rel = a /\ n.pc = "enqueue"
    BY DEF ThreadOK, Thread
  <2> HIDE DEF n
  <2> QED BY <1>1, <2>1, BecomeAlone DEF Threads, n
<1>5. KeepsFlags
  BY <1>3 DEF KeepsFlags, NoLease
<1>6. KeepsMarks(p)
  BY <1>1, <1>3, <1>4 DEF KeepsMarks, NoLease, Books, LedgerType
<1>7. KeepsHeld(p)
  BY <1>1, <1>2, <1>3 DEF KeepsHeld, Held
<1> QED BY <1>4, <1>5, <1>6, <1>7 DEF Frame

LEMMA BudgetRefusedFrame ==
  ASSUME Threads, NEW p \in Proc, NEW t, BudgetRefused(p, t)
  PROVE  Frame(p)
  BY ReturnAlone, UnchangedFrame DEF BudgetRefused, Threads

LEMMA ReserveFrame ==
  ASSUME Books, Threads, NEW p \in Proc, NEW t, ThreadOK(t),
         t.a \in Addr, t.s \in Session, ReserveLocked(p, t)
  PROVE  Frame(p)
<1>1. CASE AddHolder(p, t)
  BY <1>1, AddHolderFrame
<1>2. CASE Fail(p, t) /\ UNCHANGED ledger
  BY <1>2, ReturnAlone, UnchangedFrame DEF Threads
<1>3. ASSUME NEW v, Become(p, [t EXCEPT !.pc = "evict", !.rel = v]),
             UNCHANGED ledger
      PROVE  Frame(p)
  BY <1>3, BecomeAlone, UnchangedFrame DEF Threads
<1>4. CASE CheckCap(p, t)
  BY <1>1, <1>2, <1>3, <1>4 DEF CheckCap
<1>5. CASE EvictGrace(p, t, "budget")
  BY <1>5, EvictGraceFrame
<1>6. CASE BudgetRefused(p, t)
  BY <1>6, BudgetRefusedFrame
<1> QED BY <1>4, <1>5, <1>6 DEF ReserveLocked

LEMMA TrainFrame ==
  ASSUME Books, Threads, NEW p \in Proc, NEW t, ThreadOK(t), TrainLocked(p, t)
  PROVE  Frame(p)
<1>1. CASE Become(p, [t EXCEPT !.pc = "next", !.n = 0]) /\ UNCHANGED ledger
  BY <1>1, BecomeAlone, UnchangedFrame DEF Threads
<1>2. CASE EvictGrace(p, t, "trainBudget")
  BY <1>2, EvictGraceFrame
<1>3. CASE BudgetRefused(p, [t EXCEPT !.op = "none"])
  BY <1>3, BudgetRefusedFrame
<1> QED BY <1>1, <1>2, <1>3 DEF TrainLocked

\* Dropping leases: what is not dropped is held as before.
LEMMA DropFrame ==
  ASSUME Books, NEW S \in SUBSET Addr, DropLeases(S), NEW p
  PROVE  /\ KeepsFlags /\ KeepsMarks(p)
         /\ \A a \in Addr \ S : Held(a) => Held(a)'
<1>1. /\ \A a \in S : leases'[a] = NoLease
      /\ \A a \in Addr \ S : leases'[a] = leases[a]
      /\ releasing' = releasing \ S /\ releasePending' = releasePending \ S
  BY DEF DropLeases
<1>2. KeepsFlags
  BY <1>1 DEF KeepsFlags, NoLease
<1>3. KeepsMarks(p)
  BY <1>1 DEF KeepsMarks, Books, LedgerType
<1>4. \A a \in Addr \ S : Held(a) => Held(a)'
  BY <1>1 DEF Held
<1> QED BY <1>2, <1>3, <1>4

LEMMA WithoutHolderFlags ==
  ASSUME Books, NEW a \in Addr, NEW s
  PROVE  /\ WithoutHolder(a, s).live = leases[a].live
         /\ WithoutHolder(a, s).acquiring = leases[a].acquiring
         /\ WithoutHolder(a, s).holders \subseteq leases[a].holders
  BY DEF WithoutHolder, Books, LedgerType, Lease

\* Leases that lose a driver, or are deleted with p in charge.
LEMMA LeaveFrame ==
  ASSUME Books, NEW p \in Proc, Others(p),
         UNCHANGED <<releasing, releasePending>>,
         \A a \in Addr :
           \/ leases'[a] = NoLease /\ Charge(th'[p], a)
           \/ /\ leases'[a].live = leases[a].live
              /\ leases'[a].acquiring = leases[a].acquiring
              /\ leases'[a].holders \subseteq leases[a].holders
  PROVE  Frame(p)
<1>1. KeepsFlags
  BY DEF KeepsFlags, NoLease
<1>2. KeepsMarks(p)
  BY DEF KeepsMarks, NoLease, Books, LedgerType
<1>3. KeepsHeld(p)
  BY DEF KeepsHeld, Held
<1> QED BY <1>1, <1>2, <1>3 DEF Frame

LEMMA DeselectFrame ==
  ASSUME Books, Threads, NEW p \in Proc, NEW t, ThreadOK(t),
         NEW a \in Addr, NEW s \in Session,
         NEW deferred \in BOOLEAN, DeselectLocked(p, t, s, a, deferred)
  PROVE  Frame(p)
<1>0. UNCHANGED <<releasing, releasePending>> /\ t \in Thread
      /\ th \in [Proc -> Thread] /\ leases \in [Addr -> Lease]
  BY DEF DeselectLocked, ThreadOK, Threads, Books, LedgerType
<1>1. CASE /\ leases' = [leases EXCEPT ![a] = WithoutHolder(a, s)]
           /\ Become(p, Return(t))
  <2>1. leases'[a] = WithoutHolder(a, s)
        /\ \A b \in Addr \ {a} : leases'[b] = leases[b]
    BY <1>0, <1>1
  <2>2. Others(p)
    BY <1>0, <1>1, BecomeAlone
  <2> QED BY <1>0, <2>1, <2>2, WithoutHolderFlags, LeaveFrame
<1>2. CASE /\ LET at == Enlist([b \in Addr |-> leases[b].releaseAt], a)
              IN  leases' = [b \in Addr |->
                    IF b = a THEN [WithoutHolder(a, s) EXCEPT !.releaseAt = at[a]]
                    ELSE [leases[b] EXCEPT !.releaseAt = at[b]]]
           /\ Become(p, Return(t))
  <2> DEFINE at == Enlist([b \in Addr |-> leases[b].releaseAt], a)
             w == WithoutHolder(a, s)
  <2>1. leases'[a] = [w EXCEPT !.releaseAt = at[a]]
        /\ \A b \in Addr \ {a} : leases'[b] = [leases[b] EXCEPT !.releaseAt = at[b]]
    BY <1>2
  <2>2. Others(p)
    BY <1>0, <1>2, BecomeAlone
  <2>3. w \in Lease
    BY WithoutHolderType
  <2> HIDE DEF at, w
  <2>4. /\ leases'[a].live = w.live /\ leases'[a].acquiring = w.acquiring
        /\ leases'[a].holders = w.holders
    BY <2>1, <2>3 DEF Lease
  <2>5. ASSUME NEW b \in Addr \ {a}
        PROVE  /\ leases'[b].live = leases[b].live
               /\ leases'[b].acquiring = leases[b].acquiring
               /\ leases'[b].holders = leases[b].holders
    <3>1. leases[b] \in Lease /\ leases'[b] = [leases[b] EXCEPT !.releaseAt = at[b]]
      BY <1>0, <2>1
    <3> QED BY <3>1 DEF Lease
  <2>6. /\ w.live = leases[a].live /\ w.acquiring = leases[a].acquiring
        /\ w.holders \subseteq leases[a].holders
    BY WithoutHolderFlags DEF w
  <2> QED BY <1>0, <2>2, <2>4, <2>5, <2>6, LeaveFrame
<1>3. CASE /\ leases' = [leases EXCEPT ![a] = NoLease]
           /\ StartRelease(p, t, {a})
  <2>1. leases'[a] = NoLease /\ \A b \in Addr \ {a} : leases'[b] = leases[b]
    BY <1>0, <1>3
  <2>2. Others(p) /\ Charge(th'[p], a)
    <3>1. {a} \in SUBSET Addr
      OBVIOUS
    <3> QED BY <1>0, <1>3, <3>1, StartReleaseCharge
  <2> QED BY <1>0, <2>1, <2>2, LeaveFrame
<1> QED BY <1>1, <1>2, <1>3 DEF DeselectLocked

\* A critical section of a goroutine that has no duty of its own yet.
FreePC == PCs \ (SelectPC \cup MarkPC \cup Chain \cup {"drained"})

Plainly(p) ==
  Frame(p) /\ th[p].pc \in FreePC /\ queue' = queue /\ slot' = slot

LEMMA FrameOfCall ==
  ASSUME Inv, NEW p \in Proc, NEW op \in {"drive", "select"},
         NEW s \in Session, NEW a \in Addr, Call(p, op, s, a)
  PROVE  Plainly(p)
<1> DEFINE n == [Idle EXCEPT !.op = op, !.s = s, !.a = a, !.need = NeedsSlot(a)]
<1>1. NeedsSlot(a) \in Nat
  BY DEF NeedsSlot
<1>2. /\ n \in Thread /\ n.pc = "idle" /\ n.back = "idle"
      /\ n.a = a /\ n.s = s /\ n.op = op
  BY <1>1 DEF Idle, Thread, PCs
<1>3. ReserveLocked(p, n) /\ th[p].pc = "idle" /\ queue' = queue /\ slot' = slot
  BY DEF Call, At
<1> HIDE DEF n
<1>4. ThreadOK(n)
  BY <1>2 DEF ThreadOK, Carries, CallPC, TrainPC, ReleasePC
<1>5. Frame(p)
  BY <1>2, <1>3, <1>4, ReserveFrame DEF Inv
<1> QED BY <1>3, <1>5 DEF Plainly, FreePC, PCs, SelectPC, MarkPC, Chain

LEMMA FrameOfResume ==
  ASSUME Inv, NEW p \in Proc,
         ResumeBudget(p) \/ ResumeReserve(p) \/ ResumeTrain(p)
  PROVE  Plainly(p)
<1>1. ThreadOK(th[p])
  BY DEF Inv, Threads, ThreadsOK
<1>2. /\ queue' = queue /\ slot' = slot
      /\ th[p].pc \in {"budget", "add", "trainBudget"}
  BY DEF ResumeBudget, ResumeReserve, ResumeTrain, At
<1>3. Frame(p)
  <2>1. CASE ResumeBudget(p)
    <3>1. th[p].a \in Addr /\ th[p].s \in Session
      BY <1>1, <2>1 DEF ResumeBudget, At, ThreadOK, Carries, CallPC
    <3> QED BY <1>1, <2>1, <3>1, ReserveFrame DEF ResumeBudget, Inv
  <2>2. CASE ResumeReserve(p)
    <3>1. th[p].a \in Addr /\ th[p].s \in Session
      BY <1>1, <2>2 DEF ResumeReserve, At, ThreadOK, Carries, CallPC
    <3> QED BY <1>1, <2>2, <3>1, AddHolderFrame DEF ResumeReserve, Inv
  <2>3. CASE ResumeTrain(p)
    BY <1>1, <2>3, TrainFrame DEF ResumeTrain, Inv
  <2> QED BY <2>1, <2>2, <2>3
<1> QED BY <1>2, <1>3 DEF Plainly, FreePC, PCs, SelectPC, MarkPC, Chain

LEMMA FrameOfCapEvict ==
  ASSUME Inv, NEW p \in Proc, CapEvict(p)
  PROVE  Plainly(p)
<1> DEFINE t == th[p]
           a == t.rel
           on == [t EXCEPT !.pc = "add", !.rel = NoAddr]
           enq == [t EXCEPT !.pc = "enqueue", !.back = "add"]
<1>1. t \in Thread /\ t.pc = "evict" /\ a \in Addr
  BY DEF Inv, Threads, ThreadsOK, ThreadOK, ReleasePC, CapEvict, At
<1>2. queue' = queue /\ slot' = slot /\ th \in [Proc -> Thread]
      /\ leases \in [Addr -> Lease] /\ releasing \subseteq Addr
  BY DEF CapEvict, Inv, Threads, Books, LedgerType
<1>3. CASE t.s \notin leases[a].holders
  <2>1. Become(p, on) /\ UNCHANGED ledger
    BY <1>3 DEF CapEvict
  <2>2. Frame(p)
    BY <1>2, <2>1, BecomeAlone, UnchangedFrame
  <2> QED BY <1>1, <1>2, <2>2 DEF Plainly, FreePC, PCs, SelectPC, MarkPC, Chain
<1>4. CASE t.s \in leases[a].holders
  <2>1. releasePending' = releasePending
    BY <1>4 DEF CapEvict
  <2>2. ASSUME leases' = [leases EXCEPT ![a] = WithoutHolder(a, t.s)],
               releasing' = releasing, Become(p, on)
        PROVE  Frame(p)
    <3>1. leases'[a] = WithoutHolder(a, t.s)
          /\ \A b \in Addr \ {a} : leases'[b] = leases[b]
      BY <1>1, <1>2, <2>2
    <3>2. Others(p)
      BY <1>2, <2>2, BecomeAlone
    <3>3. Books
      BY DEF Inv
    <3> QED BY <1>1, <2>1, <2>2, <3>1, <3>2, <3>3, WithoutHolderFlags, LeaveFrame
  <2>3. ASSUME leases' = [leases EXCEPT ![a] = NoLease],
               releasing' = releasing \cup {a}, Become(p, enq)
        PROVE  Frame(p)
    <3>1. leases'[a] = NoLease /\ \A b \in Addr \ {a} : leases'[b] = leases[b]
      BY <1>1, <1>2, <2>3
    <3>2. enq.rel = a /\ enq.pc = "enqueue"
      BY <1>1 DEF Thread
    <3>3. Others(p) /\ th'[p].rel = a /\ th'[p].pc = "enqueue"
      BY <1>2, <2>3, <3>2, BecomeAlone
    <3>4. KeepsFlags
      BY <3>1 DEF KeepsFlags, NoLease
    <3>5. KeepsMarks(p)
      BY <1>2, <2>3, <3>1, <3>3 DEF KeepsMarks, NoLease
    <3>6. KeepsHeld(p)
      BY <2>1, <2>3, <3>1 DEF KeepsHeld, Held
    <3> QED BY <3>3, <3>4, <3>5, <3>6 DEF Frame
  <2>4. Frame(p)
    BY <1>4, <2>2, <2>3 DEF CapEvict
  <2> QED BY <1>1, <1>2, <2>4 DEF Plainly, FreePC, PCs, SelectPC, MarkPC, Chain
<1> QED BY <1>3, <1>4

LEMMA FrameOfTrain ==
  ASSUME Inv, NEW p \in Proc, NEW s \in Session, NEW S \in SUBSET Addr,
         SelectTrain(p, s, S)
  PROVE  Plainly(p)
<1> DEFINE k == Cardinality({a \in S : ~Occupies(a)})
           n == [Idle EXCEPT !.op = "train", !.s = s, !.rest = S, !.need = k]
<1>1. k \in Nat
  <2>1. {a \in S : ~Occupies(a)} \in SUBSET Addr
    OBVIOUS
  <2> QED BY <2>1, FS_Subset, FS_CardinalityType, ConstantsAssumption
<1>2. TrainLocked(p, n) /\ th[p].pc = "idle" /\ queue' = queue /\ slot' = slot
  BY DEF SelectTrain, At
<1> HIDE DEF k
<1>3. n \in Thread /\ n.pc = "idle" /\ n.back = "idle" /\ n.s = s
  BY <1>1 DEF Idle, Thread, PCs
<1> HIDE DEF n
<1>4. ThreadOK(n)
  BY <1>3 DEF ThreadOK, Carries, CallPC, TrainPC, ReleasePC
<1>5. Frame(p)
  BY <1>2, <1>4, TrainFrame DEF Inv
<1> QED BY <1>2, <1>5 DEF Plainly, FreePC, PCs, SelectPC, MarkPC, Chain

LEMMA FrameOfTrainNext ==
  ASSUME Inv, NEW p \in Proc, TrainNext(p)
  PROVE  Plainly(p)
<1> DEFINE t == th[p]
           n(a) == [t EXCEPT !.a = a, !.rest = t.rest \ {a},
                             !.need = NeedsSlot(a), !.n = 0]
<1>1. ThreadOK(t) /\ t.s \in Session /\ t.pc = "next"
  BY DEF Inv, Threads, ThreadsOK, ThreadOK, Carries, TrainPC, TrainNext, At
<1>2. t.rest \subseteq Addr /\ queue' = queue /\ slot' = slot
  BY <1>1 DEF ThreadOK, Thread, TrainNext
<1>3. ASSUME Become(p, Idle) \/ Fail(p, t), UNCHANGED ledger PROVE Frame(p)
  BY <1>3, BecomeAlone, ReturnAlone, UnchangedFrame DEF Inv, Threads
<1>4. ASSUME NEW a \in t.rest, ReserveLocked(p, n(a))
      PROVE  Frame(p)
  <2>0. NeedsSlot(a) \in Nat /\ a \in Addr
    BY <1>2 DEF NeedsSlot
  <2>1. /\ n(a) \in Thread /\ n(a).pc = "next" /\ n(a).back = t.back
        /\ n(a).a = a /\ n(a).s = t.s /\ n(a).op = t.op
    BY <1>1, <2>0 DEF ThreadOK, Thread
  <2> HIDE DEF n
  <2>2. ThreadOK(n(a))
    BY <1>1, <2>0, <2>1 DEF ThreadOK, Carries, CallPC, TrainPC, ReleasePC
  <2> QED BY <1>1, <1>4, <2>0, <2>1, <2>2, ReserveFrame DEF Inv
<1>5. Frame(p)
  BY <1>3, <1>4 DEF TrainNext
<1> QED BY <1>1, <1>2, <1>5 DEF Plainly, FreePC, PCs, SelectPC, MarkPC, Chain

LEMMA FrameOfDeselect ==
  ASSUME Inv, NEW p \in Proc, NEW s \in Session, NEW a \in Addr,
         NEW deferred \in BOOLEAN, Deselect(p, s, a, deferred)
  PROVE  Plainly(p)
<1>1. Frame(p)
  BY IdleOK, DeselectFrame DEF Deselect, Inv
<1>2. th[p].pc = "idle" /\ queue' = queue /\ slot' = slot
  BY DEF Deselect, At
<1> QED BY <1>1, <1>2 DEF Plainly, FreePC, PCs, SelectPC, MarkPC, Chain

LEMMA FrameOfRollback ==
  ASSUME Inv, NEW p \in Proc, TrainRollback(p)
  PROVE  Plainly(p)
<1> DEFINE t == th[p]
           on(a) == [t EXCEPT !.got = t.got \ {a}, !.back = "rollback"]
<1>1. ThreadOK(t) /\ t.s \in Session /\ t.pc = "rollback"
  BY DEF Inv, Threads, ThreadsOK, ThreadOK, Carries, TrainPC, TrainRollback, At
<1>2. t.got \subseteq Addr /\ queue' = queue /\ slot' = slot
  BY <1>1 DEF ThreadOK, Thread, TrainRollback
<1>3. ASSUME NEW n, Become(p, n), UNCHANGED ledger PROVE Frame(p)
  BY <1>3, BecomeAlone, UnchangedFrame DEF Inv, Threads
<1>4. ASSUME NEW a \in t.got
      PROVE  ThreadOK(on(a))
  <2>1. /\ on(a) \in Thread /\ on(a).pc = t.pc /\ on(a).back = "rollback"
        /\ on(a).a = t.a /\ on(a).s = t.s /\ on(a).op = t.op
    BY <1>1, ZenonT(60) DEF ThreadOK, Thread, PCs
  <2> HIDE DEF on
  <2> QED BY <1>1, <2>1 DEF ThreadOK, Carries, CallPC, TrainPC, ReleasePC
<1> HIDE DEF on
<1>5. ASSUME NEW a \in t.got, DeselectLocked(p, on(a), t.s, a, FALSE)
      PROVE  Frame(p)
  BY <1>1, <1>2, <1>4, <1>5, DeselectFrame DEF Inv
<1>6. Frame(p)
  BY <1>3, <1>5 DEF TrainRollback, on
<1> QED BY <1>1, <1>2, <1>6 DEF Plainly, FreePC, PCs, SelectPC, MarkPC, Chain

LEMMA FrameOfClose ==
  ASSUME Inv, NEW p \in Proc, NEW s \in Session, ReleaseSession(p, s)
  PROVE  Plainly(p)
<1> DEFINE S == {a \in Addr : s \in leases[a].holders}
           gone == {a \in S : LastHolder(a, s) /\ ~leases[a].acquiring}
<1>1. /\ \A a \in gone : leases'[a] = NoLease
      /\ \A a \in S \ gone : leases'[a] = WithoutHolder(a, s)
      /\ \A a \in Addr \ S : leases'[a] = leases[a]
      /\ StartRelease(p, Idle, gone)
      /\ UNCHANGED <<releasing, releasePending>>
      /\ th[p].pc = "idle" /\ queue' = queue /\ slot' = slot
  BY DEF ReleaseSession, At
<1>2. Others(p) /\ \A a \in gone : Charge(th'[p], a)
  <2>1. gone \in SUBSET Addr /\ Idle \in Thread /\ th \in [Proc -> Thread]
    BY IdleOK DEF ThreadOK, Inv, Threads
  <2> HIDE DEF gone
  <2> QED BY <1>1, <2>1, StartReleaseCharge
<1>3. Books /\ S \subseteq Addr /\ gone \subseteq S
  BY DEF Inv
<1> HIDE DEF S, gone
<1>4. Frame(p)
  BY <1>1, <1>2, <1>3, WithoutHolderFlags, LeaveFrame
<1> QED BY <1>1, <1>4 DEF Plainly, FreePC, PCs, SelectPC, MarkPC, Chain

\* Dropping leases with the bookkeeping and going on to release them.
LEMMA DropAndRelease ==
  ASSUME Inv, NEW p \in Proc, NEW t \in Thread, NEW S \in SUBSET Addr,
         DropLeases(S), StartRelease(p, t, S)
  PROVE  Frame(p)
<1>1. Others(p) /\ \A a \in S : Charge(th'[p], a)
  BY StartReleaseCharge DEF Inv, Threads
<1>2. KeepsFlags /\ KeepsMarks(p) /\ \A a \in Addr \ S : Held(a) => Held(a)'
  BY DropFrame DEF Inv
<1> QED BY <1>1, <1>2 DEF Frame, KeepsHeld

LEMMA FrameOfForce ==
  ASSUME Inv, NEW p \in Proc, NEW a \in Addr, ForceRelease(p, a)
  PROVE  Plainly(p)
<1>1. Idle \in Thread /\ {a} \in SUBSET Addr
  BY IdleOK DEF ThreadOK
<1>2. Frame(p)
  BY <1>1, DropAndRelease DEF ForceRelease
<1>3. th[p].pc = "idle" /\ queue' = queue /\ slot' = slot
  BY DEF ForceRelease, At
<1> QED BY <1>2, <1>3 DEF Plainly, FreePC, PCs, SelectPC, MarkPC, Chain

LEMMA FrameOfSweeps ==
  ASSUME Inv, SweepIdle \/ SweepDeferred
  PROVE  Sweeper \in Proc /\ Plainly(Sweeper)
<1>0. Sweeper \in Proc /\ th \in [Proc -> Thread]
  BY DEF Proc, Inv, Threads
<1>1. ASSUME SweepIdle PROVE Frame(Sweeper)
  <2> DEFINE n == [Idle EXCEPT !.back = "drain"]
  <2>1. n \in Thread /\ IdleExpired \in SUBSET Addr
    BY DEF Idle, Thread, PCs, IdleExpired
  <2> QED BY <1>0, <1>1, <2>1, DropAndRelease DEF SweepIdle
<1>2. ASSUME SweepDeferred PROVE Frame(Sweeper)
  <2>1. PICK now : LET S == {a \in Addr : leases[a].releaseAt # 0
                                           /\ leases[a].releaseAt <= now}
                   IN  /\ leases' = [a \in Addr |-> IF a \in S THEN NoLease ELSE leases[a]]
                       /\ StartRelease(Sweeper, Idle, S)
                       /\ UNCHANGED <<releasing, releasePending>>
    BY <1>2 DEF SweepDeferred
  <2> DEFINE S == {a \in Addr : leases[a].releaseAt # 0 /\ leases[a].releaseAt <= now}
  <2>2. /\ \A a \in S : leases'[a] = NoLease
        /\ \A a \in Addr \ S : leases'[a] = leases[a]
        /\ StartRelease(Sweeper, Idle, S)
        /\ UNCHANGED <<releasing, releasePending>>
        /\ S \in SUBSET Addr
    BY <2>1
  <2> HIDE DEF S
  <2>3. Others(Sweeper) /\ \A a \in S : Charge(th'[Sweeper], a)
    BY <1>0, <2>2, IdleOK, StartReleaseCharge DEF ThreadOK
  <2>4. Books
    BY DEF Inv
  <2> QED BY <1>0, <2>2, <2>3, <2>4, LeaveFrame
<1>3. th[Sweeper].pc = "idle" /\ queue' = queue /\ slot' = slot
  BY DEF SweepIdle, SweepDeferred, At
<1> QED BY <1>0, <1>1, <1>2, <1>3 DEF Plainly, FreePC, PCs, SelectPC, MarkPC, Chain

LEMMA FrameOfDrain ==
  ASSUME Inv, NEW p \in Proc, Drain(p)
  PROVE  Plainly(p)
<1> DEFINE n == [th[p] EXCEPT !.draining = TRUE]
<1>1. n \in Thread /\ releasePending \in SUBSET Addr /\ th \in [Proc -> Thread]
  BY ZenonT(60) DEF Inv, Threads, Thread, Books, LedgerType
<1>2. Others(p)
  BY <1>1, StartReleaseCharge DEF Drain
<1>3. Frame(p)
  BY <1>2, UnchangedFrame DEF Drain
<1>4. th[p].pc = "drain" /\ queue' = queue /\ slot' = slot
  BY DEF Drain, At
<1> QED BY <1>3, <1>4 DEF Plainly, FreePC, PCs, SelectPC, MarkPC, Chain

\* Where the duties are kept without further conditions.
Duties == AcquiringOwned /\ MarkHasJob

LEMMA PlainlyKept ==
  ASSUME NEW p \in Proc, Plainly(p)
  PROVE  (Duties => Duties') /\ (Covered => Covered')
<1>1. /\ th[p].pc \notin SelectPC /\ th[p].pc \notin MarkPC
      /\ th[p].pc \notin Chain \cup {"drained"}
  BY DEF Plainly, FreePC
<1> QED BY <1>1, FlagsKept, MarksKept, CoveredFrame DEF Plainly, Frame, Duties

\* The goroutine that owns a flag clears it.
LEMMA FlagCleared ==
  ASSUME AcquiringOwned, NEW p \in Proc, Others(p), KeepsFlags,
         ~leases'[th[p].a].acquiring
  PROVE  AcquiringOwned'
<1> SUFFICES ASSUME NEW a \in Addr, leases'[a].acquiring
             PROVE  \E q \in Proc : th'[q].a = a
                      /\ th'[q].pc \in {"acquire", "acquired", "refused"}
  BY DEF AcquiringOwned
<1>1. PICK q \in Proc : th[q].a = a /\ th[q].pc \in SelectPC
  BY DEF AcquiringOwned, KeepsFlags, SelectPC
<1>2. q # p
  BY <1>1
<1>3. th'[q] = th[q]
  BY <1>2 DEF Others
<1> QED BY <1>1, <1>3 DEF SelectPC

\* The observer callbacks.
LEMMA InUseFrame ==
  ASSUME Books, NEW a \in Addr, OnSlotInUse(a), NEW p
  PROVE  /\ KeepsFlags /\ KeepsMarks(p)
         /\ \A b \in Addr : Held(b) => Held(b)'
         /\ ~suppressExternal => Held(a)'
<1>1. /\ leases'[a] = Confirmed(a) /\ \A b \in Addr \ {a} : leases'[b] = leases[b]
      /\ releasing' = releasing /\ releasePending' = releasePending
  BY DEF OnSlotInUse, Books, LedgerType
<1>2. CASE leases[a].live
  <2>1. /\ leases'[a].live /\ leases'[a].acquiring = leases[a].acquiring
        /\ leases'[a].holders = leases[a].holders
    BY <1>1, <1>2 DEF Confirmed, Books, LedgerType, Lease
  <2> QED BY <1>1, <2>1 DEF KeepsFlags, KeepsMarks, Held, Books, LedgerType
<1>3. CASE ~leases[a].live /\ suppressExternal
  <2>1. leases'[a] = leases[a]
    BY <1>1, <1>3 DEF Confirmed
  <2> QED BY <1>1, <1>3, <2>1 DEF KeepsFlags, KeepsMarks, Held, Books, LedgerType
<1>4. CASE ~leases[a].live /\ ~suppressExternal
  <2>1. /\ leases'[a].live /\ ~leases'[a].acquiring
        /\ leases'[a].holders \cap Session = {}
    BY <1>1, <1>4, ConstantsAssumption DEF Confirmed, NoLease
  <2> QED BY <1>1, <2>1 DEF KeepsFlags, KeepsMarks, Held, Books, LedgerType
<1> QED BY <1>2, <1>3, <1>4

LEMMA ReleasedFrame ==
  ASSUME Books, NEW a \in Addr, OnSlotReleased(a), NEW p
  PROVE  /\ KeepsFlags /\ KeepsMarks(p)
         /\ \A b \in Addr \ {a} : Held(b) => Held(b)'
<1>1. CASE DropLeases({a})
  <2>1. {a} \in SUBSET Addr
    OBVIOUS
  <2> QED BY <1>1, <2>1, DropFrame
<1>2. CASE UNCHANGED ledger
  BY <1>2 DEF ledger, KeepsFlags, KeepsMarks, Held
<1> QED BY <1>1, <1>2 DEF OnSlotReleased

LEMMA DutiesOfDrive ==
  ASSUME Inv, NEW p \in Proc, Drive(p)
  PROVE  /\ Duties => Duties'
         /\ Covered /\ ~suppressExternal => Covered'
<1>0. PICK a \in Addr : a = th[p].a
  BY DEF Inv, Threads, ThreadsOK, ThreadOK, Carries, CallPC, Drive, At
<1>1. /\ a \in Addr /\ th[p].pc = "drive" /\ Books /\ queue' = queue
      /\ th \in [Proc -> Thread] /\ slot \in [Addr -> BOOLEAN]
  BY DEF Inv, Threads, ThreadsOK, ThreadOK, Carries, CallPC, Drive, At, Rest
<1>2. Others(p)
  BY <1>1, BecomeAlone DEF Drive
<1>3. KeepsFlags /\ KeepsMarks(p) /\ \A b \in Addr : Held(b) => Held(b)'
  <2>1. CASE OnSlotInUse(a)
    BY <1>1, <2>1, InUseFrame
  <2>2. CASE UNCHANGED ledger
    BY <2>2 DEF ledger, KeepsFlags, KeepsMarks, Held
  <2> QED BY <1>0, <2>1, <2>2 DEF Drive
<1>4. th[p].pc \notin SelectPC /\ th[p].pc \notin MarkPC
      /\ \A b \in Addr : ~Charge(th[p], b)
  BY <1>1 DEF SelectPC, MarkPC, Charge, Chain
<1>5. \A b \in Addr : slot'[b] => slot[b] \/ (OnSlotInUse(a) /\ b = a)
  BY <1>0, <1>1 DEF Drive
<1>6. ASSUME ~suppressExternal, OnSlotInUse(a) PROVE Held(a)'
  BY <1>1, <1>6, InUseFrame
<1>7. Duties => Duties'
  BY <1>1, <1>2, <1>3, <1>4, FlagsKept, MarksKept DEF Duties
<1>8. ASSUME Covered, ~suppressExternal PROVE Covered'
  <2>1. \A b \in Addr : slot'[b] =>
          Held(b)' \/ (slot[b] /\ ~Held(b) /\ ~Charge(th[p], b))
    BY <1>3, <1>4, <1>5, <1>6, <1>8
  <2> QED BY <1>2, <1>8, <2>1, CoveredKept
<1> QED BY <1>7, <1>8

LEMMA DutiesOfCheck ==
  ASSUME Inv, NEW p \in Proc, SelectCheck(p)
  PROVE  (Duties => Duties') /\ (Covered => Covered')
<1> DEFINE t == th[p]
           a == t.a
           le == [leases[a] EXCEPT !.acquiring = TRUE]
           n == [t EXCEPT !.pc = "acquire"]
<1>1. /\ a \in Addr /\ t.pc = "check" /\ Books /\ queue' = queue /\ t \in Thread
      /\ th \in [Proc -> Thread] /\ slot' = slot /\ leases[a] \in Lease
      /\ UNCHANGED <<releasing, releasePending>>
  BY DEF Inv, Threads, ThreadsOK, ThreadOK, Carries, CallPC, SelectCheck, At,
         Books, LedgerType
<1>2. /\ th[p].pc \notin SelectPC /\ th[p].pc \notin MarkPC
      /\ th[p].pc \notin Chain \cup {"drained"}
  BY <1>1 DEF SelectPC, MarkPC, Chain
<1>3. CASE Succeed(p, t) /\ UNCHANGED leases
  <2>1. Others(p)
    BY <1>1, <1>3, ReturnAlone
  <2>2. KeepsFlags /\ KeepsMarks(p) /\ KeepsHeld(p)
    BY <1>1, <1>3 DEF KeepsFlags, KeepsMarks, KeepsHeld, Held
  <2> QED BY <1>1, <1>2, <2>1, <2>2, FlagsKept, MarksKept, CoveredFrame DEF Duties
<1>4. CASE leases' = [leases EXCEPT ![a].acquiring = TRUE] /\ Become(p, n)
  <2>1. /\ le.live = leases[a].live /\ le.holders = leases[a].holders
        /\ n.pc = "acquire" /\ n.a = a
    BY <1>1 DEF Lease, Thread
  <2>2. leases'[a] = le /\ \A b \in Addr \ {a} : leases'[b] = leases[b]
    BY <1>1, <1>4 DEF Books, LedgerType
  <2>3. Others(p) /\ th'[p] = n
    BY <1>1, <1>4, BecomeAlone
  <2> HIDE DEF le, n
  <2>4. KeepsMarks(p) /\ KeepsHeld(p)
    BY <1>1, <2>1, <2>2 DEF KeepsMarks, KeepsHeld, Held, Books, LedgerType
  <2>5. AcquiringOwned => AcquiringOwned'
    <3> SUFFICES ASSUME AcquiringOwned, NEW b \in Addr, leases'[b].acquiring
                 PROVE  \E q \in Proc : th'[q].a = b
                          /\ th'[q].pc \in {"acquire", "acquired", "refused"}
      BY DEF AcquiringOwned
    <3>1. CASE b = a
      BY <2>1, <2>3, <3>1
    <3>2. CASE b # a
      <4>1. PICK q \in Proc : th[q].a = b /\ th[q].pc \in SelectPC
        BY <2>2, <3>2 DEF AcquiringOwned, SelectPC
      <4>2. th'[q] = th[q]
        BY <1>2, <2>3, <4>1 DEF Others
      <4> QED BY <4>1, <4>2 DEF SelectPC
    <3> QED BY <3>1, <3>2
  <2> QED BY <1>1, <1>2, <2>3, <2>4, <2>5, MarksKept, CoveredFrame DEF Duties
<1> QED BY <1>3, <1>4 DEF SelectCheck

LEMMA DutiesOfAcquire ==
  ASSUME Inv, NEW p \in Proc, AcquireSlot(p)
  PROVE  /\ Duties => Duties'
         /\ Covered /\ ~suppressExternal => Covered'
<1> DEFINE t == th[p]
           n(pc) == [t EXCEPT !.pc = pc]
<1>0. PICK a \in Addr : a = t.a
  BY DEF Inv, Threads, ThreadsOK, ThreadOK, Carries, CallPC, AcquireSlot, At
<1>1. /\ a = t.a /\ t.pc = "acquire" /\ Books /\ queue' = queue /\ t \in Thread
      /\ th \in [Proc -> Thread] /\ slot \in [Addr -> BOOLEAN]
  BY <1>0 DEF Inv, Threads, AcquireSlot, At, Rest
<1>2. Others(p) /\ th'[p].a = a /\ th'[p].pc \in SelectPC
  <2>1. \A pc \in {"acquired", "refused"} : n(pc).a = a /\ n(pc).pc = pc
    BY <1>1 DEF Thread
  <2>2. \E pc \in {"acquired", "refused"} : Become(p, n(pc))
    BY DEF AcquireSlot
  <2> HIDE DEF n
  <2> QED BY <1>1, <2>1, <2>2, BecomeAlone DEF SelectPC
<1>3. KeepsFlags /\ KeepsMarks(p) /\ \A b \in Addr : Held(b) => Held(b)'
  <2>1. CASE OnSlotInUse(a)
    BY <1>1, <2>1, InUseFrame
  <2>2. CASE UNCHANGED ledger
    BY <2>2 DEF ledger, KeepsFlags, KeepsMarks, Held
  <2> QED BY <1>1, <2>1, <2>2 DEF AcquireSlot
<1>4. th[p].pc \notin MarkPC /\ \A b \in Addr : ~Charge(th[p], b)
  BY <1>1 DEF SelectPC, MarkPC, Charge, Chain
<1>5. \A b \in Addr : slot'[b] => slot[b] \/ (OnSlotInUse(a) /\ b = a)
  BY <1>1 DEF AcquireSlot
<1>6. ASSUME ~suppressExternal, OnSlotInUse(a) PROVE Held(a)'
  BY <1>1, <1>6, InUseFrame
<1>7. AcquiringOwned => AcquiringOwned'
  <2> SUFFICES ASSUME AcquiringOwned, NEW b \in Addr, leases'[b].acquiring
               PROVE  \E q \in Proc : th'[q].a = b
                        /\ th'[q].pc \in {"acquire", "acquired", "refused"}
    BY DEF AcquiringOwned
  <2>1. PICK q \in Proc : th[q].a = b /\ th[q].pc \in SelectPC
    BY <1>3 DEF AcquiringOwned, SelectPC, KeepsFlags
  <2>2. th'[q].a = th[q].a /\ th'[q].pc \in SelectPC
    BY <1>1, <1>2, <2>1 DEF Others
  <2> QED BY <2>1, <2>2 DEF SelectPC
<1>8. Duties => Duties'
  BY <1>1, <1>2, <1>3, <1>4, <1>7, MarksKept DEF Duties
<1>9. ASSUME Covered, ~suppressExternal PROVE Covered'
  <2>1. \A b \in Addr : slot'[b] =>
          Held(b)' \/ (slot[b] /\ ~Held(b) /\ ~Charge(th[p], b))
    BY <1>3, <1>4, <1>5, <1>6, <1>9
  <2> QED BY <1>2, <1>9, <2>1, CoveredKept
<1> QED BY <1>8, <1>9

LEMMA DutiesOfAcquired ==
  ASSUME Inv, NEW p \in Proc, SelectAcquired(p)
  PROVE  (Duties => Duties') /\ (Covered => Covered')
<1> DEFINE t == th[p]
           a == t.a
           le == [leases[a] EXCEPT !.acquiring = FALSE, !.releaseAfter = FALSE,
                                   !.acquiredAt = Now(a)]
<1>1. /\ a \in Addr /\ t.pc = "acquired" /\ queue' = queue /\ slot' = slot
      /\ th \in [Proc -> Thread] /\ leases \in [Addr -> Lease]
      /\ (~leases[a].live => leases[a] = NoLease)
      /\ releasing \subseteq Addr
      /\ UNCHANGED <<releasing, releasePending>>
  BY DEF Inv, Threads, ThreadsOK, ThreadOK, Carries, CallPC, SelectAcquired, At,
         Books, LedgerType
<1>2. Others(p)
  <2>1. \E n : Become(p, n)
    BY DEF SelectAcquired, Succeed
  <2> QED BY <1>1, <2>1, BecomeAlone
<1>3. /\ ~leases'[a].acquiring /\ leases'[a].live = leases[a].live
      /\ leases'[a].holders = leases[a].holders
      /\ \A b \in Addr \ {a} : leases'[b] = leases[b]
  <2>1. CASE ~leases[a].live
    BY <1>1, <2>1 DEF SelectAcquired, NoLease
  <2>2. CASE leases[a].live
    <3>1. leases' = [leases EXCEPT ![a] = le]
      BY <2>2 DEF SelectAcquired
    <3>2. ~le.acquiring /\ le.live = leases[a].live /\ le.holders = leases[a].holders
      BY <1>1 DEF Lease
    <3> HIDE DEF le
    <3> QED BY <1>1, <3>1, <3>2
  <2> QED BY <2>1, <2>2
<1>4. KeepsFlags /\ KeepsMarks(p) /\ KeepsHeld(p)
  BY <1>1, <1>3 DEF KeepsFlags, KeepsMarks, KeepsHeld, Held
<1>5. th[p].pc \notin MarkPC /\ th[p].pc \notin Chain \cup {"drained"}
  BY <1>1 DEF MarkPC, Chain
<1> QED BY <1>1, <1>2, <1>3, <1>4, <1>5, FlagCleared, MarksKept, CoveredFrame
        DEF Duties

LEMMA DutiesOfRefused ==
  ASSUME Inv, NEW p \in Proc, SelectRefused(p)
  PROVE  Duties => Duties'
<1> DEFINE t == th[p]
           a == t.a
           s == t.s
           left == leases[a].holders \ {s}
           w == WithoutHolder(a, s)
           le == [w EXCEPT !.acquiring = FALSE, !.releaseAfter = FALSE]
<1>1. /\ a \in Addr /\ s \in Session /\ t.pc = "refused" /\ queue' = queue
      /\ th \in [Proc -> Thread] /\ leases \in [Addr -> Lease]
      /\ (~leases[a].live => leases[a] = NoLease)
      /\ releasing \subseteq Addr /\ Books
      /\ UNCHANGED <<releasing, releasePending>>
  BY DEF Inv, Threads, ThreadsOK, ThreadOK, Carries, CallPC, SelectRefused, At,
         Books, LedgerType
<1>2. Others(p)
  BY <1>1, ReturnAlone DEF SelectRefused
<1>3. /\ ~leases'[a].acquiring
      /\ leases'[a].holders \subseteq leases[a].holders
      /\ \A b \in Addr \ {a} : leases'[b] = leases[b]
  <2>1. CASE ~leases[a].live
    BY <1>1, <2>1 DEF SelectRefused, NoLease
  <2>2. CASE leases[a].live /\ left = {}
    <3>1. leases' = [leases EXCEPT ![a] = NoLease]
      BY <2>2 DEF SelectRefused
    <3> QED BY <1>1, <3>1 DEF NoLease
  <2>3. CASE leases[a].live /\ left # {}
    <3>1. leases' = [leases EXCEPT ![a] = le]
      BY <2>3 DEF SelectRefused
    <3>2. w \in Lease /\ w.holders \subseteq leases[a].holders
      BY <1>1, WithoutHolderType
    <3> HIDE DEF w
    <3>3. ~le.acquiring /\ le.holders = w.holders
      BY <3>2 DEF Lease
    <3> HIDE DEF le
    <3> QED BY <1>1, <3>1, <3>2, <3>3
  <2> QED BY <2>1, <2>2, <2>3
<1>4. KeepsFlags /\ KeepsMarks(p)
  BY <1>1, <1>3 DEF KeepsFlags, KeepsMarks
<1>5. th[p].pc \notin MarkPC
  BY <1>1 DEF MarkPC
<1> QED BY <1>1, <1>2, <1>3, <1>4, <1>5, FlagCleared, MarksKept DEF Duties

\* enqueueRelease hands the mark to the queue or keeps it.
LEMMA DutiesOfEnqueue ==
  ASSUME Inv, NEW p \in Proc, EnqueueRelease(p)
  PROVE  (Duties => Duties') /\ (Covered => Covered')
<1> DEFINE t == th[p]
           n == [t EXCEPT !.pc = "scheduled"]
<1>1. /\ t.pc = "enqueue" /\ t \in Thread /\ t.rel \in Addr /\ slot' = slot
      /\ th \in [Proc -> Thread] /\ queue \in Seq(Addr) /\ UNCHANGED ledger
  BY DEF Inv, Threads, ThreadsOK, ThreadOK, ReleasePC, EnqueueRelease, At, Rest
<1>2. Others(p)
  <2>1. \E m : Become(p, m)
    BY DEF EnqueueRelease
  <2> QED BY <1>1, <2>1, BecomeAlone
<1>3. KeepsFlags /\ KeepsHeld(p)
  BY <1>2, UnchangedFrame, <1>1 DEF Frame
<1>4. /\ th[p].pc \notin SelectPC /\ th[p].pc \notin Chain \cup {"drained"}
  BY <1>1 DEF SelectPC, Chain
<1>5. MarkHasJob => MarkHasJob'
  <2> SUFFICES ASSUME MarkHasJob, NEW a \in releasing
               PROVE  \/ \E i \in DOMAIN queue' : queue'[i] = a
                      \/ \E q \in Proc : th'[q].rel = a
                           /\ th'[q].pc \in {"enqueue", "scheduled"}
    BY <1>1 DEF MarkHasJob, ledger
  <2>1. \/ queue' = Append(queue, t.rel)
        \/ queue' = queue /\ Become(p, n)
    BY DEF EnqueueRelease
  <2>2. ASSUME NEW i \in DOMAIN queue, queue[i] = a
        PROVE  \E j \in DOMAIN queue' : queue'[j] = a
    BY <1>1, <2>1, <2>2
  <2>3. ASSUME NEW q \in Proc \ {p}, th[q].rel = a, th[q].pc \in MarkPC
        PROVE  th'[q].rel = a /\ th'[q].pc \in MarkPC
    BY <1>2, <2>3 DEF Others
  <2>4. CASE a = t.rel /\ queue' = Append(queue, t.rel)
    <3>1. Len(queue) + 1 \in DOMAIN queue' /\ queue'[Len(queue) + 1] = a
      BY <1>1, <2>4
    <3> QED BY <3>1
  <2>5. CASE a = t.rel /\ queue' = queue /\ Become(p, n)
    <3>1. n.rel = a /\ n.pc = "scheduled"
      BY <1>1, <2>5 DEF Thread
    <3> HIDE DEF n
    <3>2. th'[p] = n
      BY <1>1, <2>5, BecomeAlone
    <3> QED BY <3>1, <3>2
  <2> QED BY <2>1, <2>2, <2>3, <2>4, <2>5 DEF MarkHasJob, MarkPC
<1> QED BY <1>1, <1>2, <1>3, <1>4, <1>5, FlagsKept, CoveredFrame DEF Duties

LEMMA DutiesOfWorker ==
  ASSUME Inv, WorkerTakes
  PROVE  (Duties => Duties') /\ (Covered => Covered')
<1> DEFINE n == [Idle EXCEPT !.pc = "scheduled", !.rel = Head(queue)]
<1>1. /\ Worker \in Proc /\ th[Worker].pc = "idle" /\ slot' = slot
      /\ th \in [Proc -> Thread] /\ queue \in Seq(Addr) /\ UNCHANGED ledger
      /\ queue # << >> /\ queue' = Tail(queue) /\ Become(Worker, n)
  BY DEF Inv, Threads, WorkerTakes, At, Rest, Proc
<1>2. Others(Worker) /\ th'[Worker].pc = "scheduled" /\ th'[Worker].rel = Head(queue)
  <2>1. n.pc = "scheduled" /\ n.rel = Head(queue)
    BY DEF Idle
  <2> HIDE DEF n
  <2> QED BY <1>1, <2>1, BecomeAlone
<1>3. KeepsFlags /\ KeepsHeld(Worker)
  BY <1>1, <1>2, UnchangedFrame DEF Frame
<1>4. th[Worker].pc \notin SelectPC /\ th[Worker].pc \notin Chain \cup {"drained"}
  BY <1>1 DEF SelectPC, Chain
<1>5. MarkHasJob => MarkHasJob'
  <2> SUFFICES ASSUME MarkHasJob, NEW a \in releasing
               PROVE  \/ \E i \in DOMAIN queue' : queue'[i] = a
                      \/ \E q \in Proc : th'[q].rel = a
                           /\ th'[q].pc \in {"enqueue", "scheduled"}
    BY <1>1 DEF MarkHasJob, ledger
  <2>1. ASSUME NEW i \in DOMAIN queue, queue[i] = a, i = 1
        PROVE  th'[Worker].rel = a
    BY <1>1, <1>2, <2>1
  <2>2. ASSUME NEW i \in DOMAIN queue, queue[i] = a, i # 1
        PROVE  \E j \in DOMAIN queue' : queue'[j] = a
    <3>1. i - 1 \in DOMAIN queue' /\ queue'[i - 1] = queue[i]
      BY <1>1, <2>2
    <3> QED BY <2>2, <3>1
  <2>3. ASSUME NEW q \in Proc, th[q].rel = a, th[q].pc \in MarkPC
        PROVE  th'[q].rel = a /\ th'[q].pc \in MarkPC
    <3>1. q # Worker
      BY <1>1, <2>3 DEF MarkPC
    <3> QED BY <1>2, <2>3, <3>1 DEF Others
  <2> QED BY <1>1, <1>2, <2>1, <2>2, <2>3 DEF MarkHasJob, MarkPC
<1> QED BY <1>1, <1>2, <1>3, <1>4, <1>5, FlagsKept, CoveredFrame DEF Duties

LEMMA DutiesOfScheduled ==
  ASSUME Inv, NEW p \in Proc, ReleaseScheduled(p)
  PROVE  (Duties => Duties') /\ (Covered => Covered')
<1> DEFINE t == th[p]
           n == [t EXCEPT !.pc = "reuse1"]
<1>1. /\ t.pc = "scheduled" /\ t \in Thread /\ t.rel \in Addr
      /\ slot' = slot /\ queue' = queue /\ th \in [Proc -> Thread]
      /\ leases' = leases /\ releasePending' = releasePending
      /\ releasing' = releasing \ {t.rel}
  BY DEF Inv, Threads, ThreadsOK, ThreadOK, ReleasePC, ReleaseScheduled, At
<1>2. /\ n.pc = "reuse1" /\ n.rel = t.rel
  BY <1>1 DEF Thread
<1>3. \/ /\ Become(p, n)
      \/ /\ NextRelease(p, t) /\ (t.rel \notin releasing \/ leases[t.rel].live)
  BY DEF ReleaseScheduled
<1> HIDE DEF n
<1>4. Others(p)
  BY <1>1, <1>3, BecomeAlone, NextReleaseCharge
<1>5. KeepsFlags /\ KeepsMarks(p)
  BY <1>1 DEF KeepsFlags, KeepsMarks
<1>6. KeepsHeld(p)
  <2>1. CASE Become(p, n)
    <3>1. Charge(th'[p], t.rel)
      BY <1>1, <1>2, <2>1, BecomeAlone DEF Charge, Chain
    <3> QED BY <1>1, <3>1 DEF KeepsHeld, Held
  <2>2. CASE t.rel \notin releasing \/ leases[t.rel].live
    BY <1>1, <2>2 DEF KeepsHeld, Held
  <2> QED BY <1>3, <2>1, <2>2
<1>7. th[p].pc \notin SelectPC /\ th[p].pc \notin Chain \cup {"drained"}
      /\ th[p].rel \notin releasing'
  BY <1>1 DEF SelectPC, Chain
<1> QED BY <1>1, <1>4, <1>5, <1>6, <1>7, FlagsKept, MarksKept, CoveredFrame DEF Duties

\* A goroutine on its way through a release: what it is in charge of it stays
\* in charge of, or somebody holds it, or its slot is free.
LEMMA ChainKept ==
  ASSUME NEW p \in Proc, th[p].pc \in Chain \cup {"drained"}, queue' = queue,
         Others(p), KeepsFlags, KeepsMarks(p)
  PROVE  /\ Duties => Duties'
         /\ (/\ Covered
             /\ \A a \in Addr : slot'[a] =>
                  /\ slot[a] \/ Charge(th'[p], a)
                  /\ Held(a) \/ Charge(th[p], a) => Held(a)' \/ Charge(th'[p], a))
            => Covered'
<1>1. th[p].pc \notin SelectPC /\ th[p].pc \notin MarkPC
  BY DEF SelectPC, MarkPC, Chain
<1>2. Duties => Duties'
  BY <1>1, FlagsKept, MarksKept DEF Duties
<1>3. ASSUME Covered,
             \A a \in Addr : slot'[a] =>
               /\ slot[a] \/ Charge(th'[p], a)
               /\ Held(a) \/ Charge(th[p], a) => Held(a)' \/ Charge(th'[p], a)
      PROVE  Covered'
  BY <1>3, CoveredKept
<1> QED BY <1>2, <1>3

LEMMA DutiesOfReuseCheck ==
  ASSUME Inv, NEW p \in Proc, ReleaseAbortedByReuse(p)
  PROVE  (Duties => Duties') /\ (Covered => Covered')
<1> DEFINE t == th[p]
           n(pc) == [t EXCEPT !.pc = pc]
<1>1. /\ t.pc \in {"reuse1", "reuse2", "reuse3"} /\ t \in Thread /\ t.rel \in Addr
      /\ slot' = slot /\ queue' = queue /\ th \in [Proc -> Thread]
      /\ leases' = leases /\ releasePending' = releasePending
  BY DEF Inv, Threads, ThreadsOK, ThreadOK, ReleasePC, ReleaseAbortedByReuse,
         ReuseCheck, At
<1>2. \A pc \in {"estop", "reuse3", "release", "drained"} :
        n(pc).pc = pc /\ n(pc).rel = t.rel /\ n(pc).todo = t.todo
  BY <1>1 DEF Thread
<1>3. \/ /\ leases[t.rel].live /\ releasing' = releasing \ {t.rel}
         /\ Become(p, n("drained")) \/ NextRelease(p, t)
      \/ /\ releasing' = releasing
         /\ \E pc \in {"estop", "reuse3", "release"} : Become(p, n(pc))
  BY DEF ReleaseAbortedByReuse, ReuseCheck
<1> HIDE DEF n
<1>4. Others(p)
  BY <1>1, <1>3, BecomeAlone, NextReleaseCharge
<1>5. KeepsFlags /\ KeepsMarks(p)
  BY <1>1, <1>3 DEF KeepsFlags, KeepsMarks
<1>6. th[p].pc \in Chain \cup {"drained"}
  BY <1>1 DEF Chain
<1>7. \A a \in Addr : Charge(th[p], a) => a = t.rel \/ a \in t.todo
  BY DEF Charge
<1>8. ASSUME NEW a \in Addr, Held(a) \/ Charge(th[p], a)
      PROVE  Held(a)' \/ Charge(th'[p], a)
  <2>1. CASE leases[t.rel].live /\ Become(p, n("drained"))
             /\ releasing' = releasing \ {t.rel}
    <3>1. th'[p] = n("drained")
      BY <1>1, <2>1, BecomeAlone
    <3>2. \A b \in t.todo : Charge(th'[p], b)
      BY <1>2, <3>1 DEF Charge
    <3> QED BY <1>1, <1>7, <1>8, <2>1, <3>2 DEF Held
  <2>2. CASE leases[t.rel].live /\ NextRelease(p, t)
             /\ releasing' = releasing \ {t.rel}
    <3>1. \A b \in t.todo : Charge(th'[p], b)
      BY <1>1, <2>2, NextReleaseCharge
    <3> QED BY <1>1, <1>7, <1>8, <2>2, <3>1 DEF Held
  <2>3. ASSUME NEW pc \in {"estop", "reuse3", "release"}, Become(p, n(pc)),
               releasing' = releasing
        PROVE  Held(a)' \/ Charge(th'[p], a)
    <3>1. th'[p] = n(pc)
      BY <1>1, <2>3, BecomeAlone
    <3>2. Charge(th'[p], t.rel) /\ \A b \in t.todo : Charge(th'[p], b)
      BY <1>2, <2>3, <3>1 DEF Charge, Chain
    <3> QED BY <1>1, <1>7, <1>8, <2>3, <3>2 DEF Held
  <2> QED BY <1>3, <2>1, <2>2, <2>3
<1> QED BY <1>1, <1>4, <1>5, <1>6, <1>8, ChainKept

LEMMA DutiesOfEStop ==
  ASSUME Inv, NEW p \in Proc, EStop(p)
  PROVE  (Duties => Duties') /\ (Covered => Covered')
<1> DEFINE t == th[p]
           n == [t EXCEPT !.pc = "reuse2"]
<1>1. /\ t.pc = "estop" /\ t \in Thread /\ t.rel \in Addr
      /\ queue' = queue /\ th \in [Proc -> Thread] /\ slot \in [Addr -> BOOLEAN]
      /\ UNCHANGED ledger /\ Become(p, n)
      /\ \A a \in Addr : slot'[a] => slot[a] \/ a = t.rel
  BY DEF Inv, Threads, ThreadsOK, ThreadOK, ReleasePC, EStop, At, Rest
<1>2. n.pc = "reuse2" /\ n.rel = t.rel /\ n.todo = t.todo
  BY <1>1 DEF Thread
<1> HIDE DEF n
<1>3. Others(p) /\ th'[p] = n
  BY <1>1, BecomeAlone
<1>4. KeepsFlags /\ KeepsMarks(p) /\ \A a \in Addr : Held(a) => Held(a)'
  BY <1>1 DEF KeepsFlags, KeepsMarks, Held, ledger
<1>5. th[p].pc \in Chain \cup {"drained"}
  BY <1>1 DEF Chain
<1>6. Charge(th'[p], t.rel) /\ \A a \in Addr : Charge(th[p], a) => Charge(th'[p], a)
  BY <1>2, <1>3 DEF Charge, Chain
<1> QED BY <1>1, <1>3, <1>4, <1>5, <1>6, ChainKept

\* One attempt of station.ReleaseSlot; a drain whose last attempt fails forgets
\* what it is in charge of.
LEMMA DutiesOfReleaseSlot ==
  ASSUME Inv, NEW p \in Proc, ReleaseSlot(p)
  PROVE  /\ Duties => Duties'
         /\ Covered /\ (th[p].draining => ~StationMayFail) => Covered'
<1> DEFINE t == th[p]
           n(pc) == [t EXCEPT !.pc = pc]
           m == [t EXCEPT !.r = t.r + 1]
<1>0. PICK b \in Addr : b = t.rel
  BY DEF Inv, Threads, ThreadsOK, ThreadOK, ReleasePC, ReleaseSlot, At
<1>1. /\ t.pc = "release" /\ t \in Thread /\ t.rel = b /\ Books
      /\ queue' = queue /\ th \in [Proc -> Thread] /\ slot \in [Addr -> BOOLEAN]
  BY <1>0 DEF Inv, Threads, ReleaseSlot, At, Rest
<1>2. /\ \A pc \in {"park", "drained"} :
           n(pc).pc = pc /\ n(pc).rel = b /\ n(pc).todo = t.todo
      /\ m.pc = "release" /\ m.rel = b /\ m.todo = t.todo
  BY <1>1 DEF Thread
<1>3. \/ /\ slot' = [slot EXCEPT ![b] = FALSE]
         /\ OnSlotReleased(b) \/ UNCHANGED ledger
         /\ Become(p, n("drained")) \/ NextRelease(p, t)
      \/ /\ UNCHANGED <<ledger, slot>>
         /\ StationMayFail
         /\ Become(p, m) \/ Become(p, n("park")) \/ (t.draining /\ NextRelease(p, t))
  BY <1>1 DEF ReleaseSlot
<1> HIDE DEF n, m
<1>4. Others(p)
  BY <1>1, <1>3, BecomeAlone, NextReleaseCharge
<1>5. KeepsFlags /\ KeepsMarks(p) /\ \A a \in Addr \ {b} : Held(a) => Held(a)'
  <2>1. CASE OnSlotReleased(b)
    BY <1>1, <2>1, ReleasedFrame
  <2>2. CASE UNCHANGED ledger
    BY <2>2 DEF ledger, KeepsFlags, KeepsMarks, Held
  <2> QED BY <1>3, <2>1, <2>2
<1>6. th[p].pc \in Chain \cup {"drained"}
  BY <1>1 DEF Chain
<1>7. \A a \in Addr : Charge(th[p], a) => a = b \/ a \in t.todo
  BY <1>1 DEF Charge
<1>8. \A a \in t.todo : Charge(th'[p], a)
  <2>1. CASE NextRelease(p, t)
    BY <1>1, <2>1, NextReleaseCharge
  <2>2. CASE Become(p, n("drained"))
    BY <1>1, <1>2, <2>2, BecomeAlone DEF Charge
  <2>3. CASE Become(p, n("park"))
    BY <1>1, <1>2, <2>3, BecomeAlone DEF Charge, Chain
  <2>4. CASE Become(p, m)
    BY <1>1, <1>2, <2>4, BecomeAlone DEF Charge, Chain
  <2> QED BY <1>3, <2>1, <2>2, <2>3, <2>4
<1>9. ASSUME t.draining => ~StationMayFail, slot'[b]
      PROVE  Charge(th'[p], b)
  <2>1. Become(p, m) \/ Become(p, n("park"))
    BY <1>1, <1>3, <1>9
  <2>2. th'[p] \in {m, n("park")}
    BY <1>1, <2>1, BecomeAlone
  <2> QED BY <1>2, <2>2 DEF Charge, Chain
<1>10. \A a \in Addr : slot'[a] => slot[a]
  BY <1>1, <1>3
<1> QED BY <1>1, <1>4, <1>5, <1>6, <1>7, <1>8, <1>9, <1>10, ChainKept

LEMMA DutiesOfPark ==
  ASSUME Inv, NEW p \in Proc, Park(p)
  PROVE  (Duties => Duties') /\ (Covered => Covered')
<1> DEFINE t == th[p]
<1>1. /\ t.pc = "park" /\ t \in Thread /\ t.rel \in Addr
      /\ queue' = queue /\ th \in [Proc -> Thread] /\ slot' = slot
      /\ UNCHANGED <<leases, releasing>>
      /\ releasePending' = releasePending \cup {t.rel} /\ NextRelease(p, t)
  BY DEF Inv, Threads, ThreadsOK, ThreadOK, ReleasePC, Park, At
<1>2. Others(p) /\ \A a \in t.todo : Charge(th'[p], a)
  BY <1>1, NextReleaseCharge
<1>3. /\ KeepsFlags /\ KeepsMarks(p)
      /\ \A a \in Addr : Held(a) \/ a = t.rel => Held(a)'
  BY <1>1 DEF KeepsFlags, KeepsMarks, Held
<1>4. \A a \in Addr : Charge(th[p], a) => a = t.rel \/ a \in t.todo
  BY DEF Charge
<1>5. th[p].pc \in Chain \cup {"drained"}
  BY <1>1 DEF Chain
<1> QED BY <1>1, <1>2, <1>3, <1>4, <1>5, ChainKept

\* The end of a drain removes the pending mark of an address that may have been
\* parked again in the meantime.
LEMMA DutiesOfDrained ==
  ASSUME Inv, NEW p \in Proc, Drained(p)
  PROVE  /\ Duties => Duties'
         /\ Covered /\ releasePending = {} => Covered'
<1> DEFINE t == th[p]
<1>1. /\ t.pc = "drained" /\ t \in Thread
      /\ queue' = queue /\ th \in [Proc -> Thread] /\ slot' = slot
      /\ UNCHANGED <<leases, releasing>>
      /\ releasePending' = releasePending \ {t.rel} /\ NextRelease(p, t)
  BY DEF Inv, Threads, Drained, At
<1>2. Others(p) /\ \A a \in t.todo : Charge(th'[p], a)
  BY <1>1, NextReleaseCharge
<1>3. /\ KeepsFlags /\ KeepsMarks(p)
      /\ releasePending = {} => \A a \in Addr : Held(a) => Held(a)'
  BY <1>1 DEF KeepsFlags, KeepsMarks, Held
<1>4. \A a \in Addr : Charge(th[p], a) => a \in t.todo
  BY <1>1 DEF Charge, Chain
<1> QED BY <1>1, <1>2, <1>3, <1>4, ChainKept

\* A step of the layout or of a clock: no goroutine moves.
LEMMA StillKept ==
  ASSUME NEW p \in Proc, UNCHANGED <<th, queue>>, KeepsFlags, KeepsMarks(p)
  PROVE  /\ Duties => Duties'
         /\ (/\ Covered
             /\ \A a \in Addr : slot'[a] => Held(a)' \/ (slot[a] /\ ~Held(a)))
            => Covered'
<1>1. AcquiringOwned => AcquiringOwned'
  BY DEF AcquiringOwned, KeepsFlags
<1>2. ASSUME MarkHasJob PROVE MarkHasJob'
  <2> SUFFICES ASSUME NEW a \in releasing'
               PROVE  /\ leases'[a].holders \cap Session = {}
                      /\ \/ \E i \in DOMAIN queue : queue[i] = a
                         \/ \E q \in Proc : th[q].rel = a
                              /\ th[q].pc \in {"enqueue", "scheduled"}
    BY DEF MarkHasJob
  <2>1. CASE a \in releasing
             /\ leases'[a].holders \cap Session \subseteq leases[a].holders
    <3>1. leases[a].holders \cap Session = {}
      BY <1>2, <2>1 DEF MarkHasJob
    <3>2. leases'[a].holders \cap Session = {}
      BY <2>1, <3>1
    <3> QED BY <1>2, <2>1, <3>2 DEF MarkHasJob
  <2>2. CASE /\ th'[p].rel = a /\ th'[p].pc = "enqueue"
             /\ leases'[a].holders \cap Session = {}
    BY <2>2
  <2> QED BY <2>1, <2>2 DEF KeepsMarks
<1>3. ASSUME Covered,
             \A a \in Addr : slot'[a] => Held(a)' \/ (slot[a] /\ ~Held(a))
      PROVE  Covered'
  BY <1>3 DEF Covered
<1> QED BY <1>1, <1>2, <1>3 DEF Duties

LEMMA DrivenKept ==
  ASSUME Inv, NEW s, NEW a \in Addr, NEW q, Touch(q, s, a) \/ IdleElapse(s, a)
  PROVE  (Duties => Duties') /\ (Covered => Covered')
<1> DEFINE l(D) == [leases[a] EXCEPT !.driven = D]
<1>0. Books /\ Worker \in Proc /\ leases \in [Addr -> Lease] /\ releasing \subseteq Addr
  BY DEF Inv, Proc, Books, LedgerType
<1>1. /\ UNCHANGED <<th, queue, slot, releasing, releasePending>>
      /\ \E D : leases' = [leases EXCEPT ![a] = l(D)]
  BY <1>0 DEF Touch, IdleElapse
<1>2. \A D : /\ l(D).live = leases[a].live /\ l(D).holders = leases[a].holders
             /\ l(D).acquiring = leases[a].acquiring
  BY <1>0 DEF Lease
<1> HIDE DEF l
<1>3. \A b \in Addr : /\ leases'[b].live = leases[b].live
                      /\ leases'[b].holders = leases[b].holders
                      /\ leases'[b].acquiring = leases[b].acquiring
  BY <1>0, <1>1, <1>2
<1>4. KeepsFlags /\ KeepsMarks(Worker) /\ \A b \in Addr : Held(b) <=> Held(b)'
  BY <1>0, <1>1, <1>3 DEF KeepsFlags, KeepsMarks, Held
<1> QED BY <1>0, <1>1, <1>4, StillKept

LEMMA DutiesOfStation ==
  ASSUME Inv, Station
  PROVE  /\ Duties => Duties'
         /\ Covered /\ ~suppressExternal => Covered'
<1>0. /\ Books /\ slot \in [Addr -> BOOLEAN] /\ Worker \in Proc
      /\ leases \in [Addr -> Lease]
  BY DEF Inv, Rest, Proc, Books, LedgerType
<1>1. ASSUME NEW a \in Addr, ThrottleTakes(a)
      PROVE  /\ Duties => Duties'
             /\ Covered /\ ~suppressExternal => Covered'
  <2>1. /\ UNCHANGED <<th, queue>> /\ OnSlotInUse(a)
        /\ \A b \in Addr : slot'[b] => slot[b] \/ b = a
    BY <1>0, <1>1 DEF ThrottleTakes
  <2>2. /\ KeepsFlags /\ KeepsMarks(Worker)
        /\ \A b \in Addr : Held(b) => Held(b)'
        /\ ~suppressExternal => Held(a)'
    BY <1>0, <2>1, InUseFrame
  <2> QED BY <1>0, <2>1, <2>2, StillKept
<1>2. ASSUME NEW a \in Addr, SlotFreed(a)
      PROVE  (Duties => Duties') /\ (Covered => Covered')
  <2>1. /\ UNCHANGED <<th, queue>> /\ OnSlotReleased(a)
        /\ \A b \in Addr : slot'[b] => slot[b] /\ b # a
    BY <1>0, <1>2 DEF SlotFreed
  <2>2. /\ KeepsFlags /\ KeepsMarks(Worker)
        /\ \A b \in Addr \ {a} : Held(b) => Held(b)'
    BY <1>0, <2>1, ReleasedFrame
  <2> QED BY <1>0, <2>1, <2>2, StillKept
<1>3. ASSUME UNCHANGED <<th, queue, ledger>>,
             \A b \in Addr : slot'[b] => slot[b]
      PROVE  (Duties => Duties') /\ (Covered => Covered')
  <2>1. KeepsFlags /\ KeepsMarks(Worker) /\ \A b \in Addr : Held(b) => Held(b)'
    BY <1>3 DEF KeepsFlags, KeepsMarks, Held, ledger
  <2> QED BY <1>0, <1>3, <2>1, StillKept
<1>4. ASSUME NEW a \in Addr, SlotFreedUnseen(a)
      PROVE  (Duties => Duties') /\ (Covered => Covered')
  <2>1. UNCHANGED <<th, queue, ledger>> /\ \A b \in Addr : slot'[b] => slot[b]
    BY <1>0, <1>4 DEF SlotFreedUnseen
  <2> QED BY <1>3, <2>1
<1>5. CASE BootStopEnds
  BY <1>3, <1>5 DEF BootStopEnds
<1>6. ASSUME NEW s \in Session, NEW a \in Addr, IdleElapse(s, a)
      PROVE  (Duties => Duties') /\ (Covered => Covered')
  BY <1>6, DrivenKept
<1> QED BY <1>1, <1>2, <1>4, <1>5, <1>6 DEF Station

\* The reconciler has no duty; only its drop touches the ledger.
LEMMA DutiesOfReconcile ==
  ASSUME Inv, Reconcile
  PROVE  /\ Duties => Duties'
         /\ Covered /\ th[Reconciler].pc # "confirm" => Covered'
<1> DEFINE p == Reconciler
<1>0. /\ Books /\ p \in Proc /\ th \in [Proc -> Thread] /\ ThreadOK(th[p])
  BY DEF Inv, Proc, Threads, ThreadsOK
<1>1. /\ queue' = queue /\ slot' = slot
      /\ th[p].pc \in {"idle", "probe", "confirm"}
  BY DEF Reconcile, ReconcileSnapshot, Probe, ReconcileDrop, At
<1>2. Others(p)
  <2>1. (\E n : Become(p, n)) \/ th' = th
    BY DEF Reconcile, ReconcileSnapshot, Probe, ReconcileDrop
  <2>2. CASE th' = th
    BY <2>2 DEF Others
  <2> QED BY <1>0, <2>1, <2>2, BecomeAlone
<1>3. /\ th[p].pc \notin SelectPC /\ th[p].pc \notin MarkPC
      /\ th[p].pc \notin Chain \cup {"drained"}
  BY <1>1 DEF SelectPC, MarkPC, Chain
<1>4. CASE UNCHANGED ledger
  <2>1. Frame(p)
    BY <1>0, <1>2, <1>4, UnchangedFrame
  <2> QED BY <1>0, <1>1, <1>2, <1>3, <2>1, FlagsKept, MarksKept, CoveredFrame
          DEF Frame, Duties
<1>5. CASE th[p].pc = "confirm" /\ DropLeases({th[p].rel})
  <2>1. {th[p].rel} \in SUBSET Addr
    BY <1>0, <1>5 DEF ThreadOK, ReleasePC
  <2>2. KeepsFlags /\ KeepsMarks(p)
    BY <1>0, <1>5, <2>1, DropFrame
  <2> QED BY <1>0, <1>1, <1>2, <1>3, <1>5, <2>2, FlagsKept, MarksKept DEF Duties
<1> QED BY <1>4, <1>5 DEF Reconcile, ReconcileSnapshot, Probe, ReconcileDrop, At

\* The conditions under which nothing is forgotten in this step.
Calm ==
  /\ ~suppressExternal
  /\ \A p \in Proc :
       /\ th[p].pc \notin {"refused", "confirm"}
       /\ th[p].pc = "drained" => releasePending = {}
       /\ th[p].draining => ~StationMayFail

LEMMA DutiesOfStep ==
  ASSUME Inv, NEW p \in Proc, Step(p)
  PROVE  (Duties => Duties') /\ (Covered /\ Calm => Covered')
<1>0. Calm => /\ ~suppressExternal /\ th[p].pc # "refused"
              /\ th[p].pc = "drained" => releasePending = {}
              /\ th[p].draining => ~StationMayFail
  BY DEF Calm
<1>1. CASE ResumeBudget(p) \/ ResumeReserve(p) \/ ResumeTrain(p)
  BY <1>1, FrameOfResume, PlainlyKept
<1>2. CASE CapEvict(p)
  BY <1>2, FrameOfCapEvict, PlainlyKept
<1>3. CASE Drive(p)
  BY <1>0, <1>3, DutiesOfDrive
<1>4. CASE SelectCheck(p)
  BY <1>4, DutiesOfCheck
<1>5. CASE AcquireSlot(p)
  BY <1>0, <1>5, DutiesOfAcquire
<1>6. CASE SelectAcquired(p)
  BY <1>6, DutiesOfAcquired
<1>7. CASE SelectRefused(p)
  BY <1>0, <1>7, DutiesOfRefused DEF SelectRefused, At
<1>8. CASE TrainNext(p)
  BY <1>8, FrameOfTrainNext, PlainlyKept
<1>9. CASE TrainRollback(p)
  BY <1>9, FrameOfRollback, PlainlyKept
<1>10. CASE EnqueueRelease(p)
  BY <1>10, DutiesOfEnqueue
<1>11. CASE ReleaseScheduled(p)
  BY <1>11, DutiesOfScheduled
<1>12. CASE ReleaseAbortedByReuse(p)
  BY <1>12, DutiesOfReuseCheck
<1>13. CASE EStop(p)
  BY <1>13, DutiesOfEStop
<1>14. CASE ReleaseSlot(p)
  BY <1>0, <1>14, DutiesOfReleaseSlot
<1>15. CASE Park(p)
  BY <1>15, DutiesOfPark
<1>16. CASE Drain(p)
  BY <1>16, FrameOfDrain, PlainlyKept
<1>17. CASE Drained(p)
  BY <1>0, <1>17, DutiesOfDrained DEF Drained, At
<1> QED BY <1>1, <1>2, <1>3, <1>4, <1>5, <1>6, <1>7, <1>8, <1>9, <1>10, <1>11,
           <1>12, <1>13, <1>14, <1>15, <1>16, <1>17 DEF Step

LEMMA DutiesOfBegin ==
  ASSUME Inv, NEW p \in Client, Begin(p)
  PROVE  (Duties => Duties') /\ (Covered => Covered')
<1> p \in Proc
  BY DEF Proc
<1>1. ASSUME NEW s \in Session, NEW a \in Addr, NEW op \in {"drive", "select"},
             Call(p, op, s, a)
      PROVE  (Duties => Duties') /\ (Covered => Covered')
  BY <1>1, FrameOfCall, PlainlyKept
<1>2. ASSUME NEW s \in Session, NEW a \in Addr, NEW deferred \in BOOLEAN,
             Deselect(p, s, a, deferred)
      PROVE  (Duties => Duties') /\ (Covered => Covered')
  BY <1>2, FrameOfDeselect, PlainlyKept
<1>3. ASSUME NEW s \in Session, NEW a \in Addr, Touch(p, s, a)
      PROVE  (Duties => Duties') /\ (Covered => Covered')
  BY <1>3, DrivenKept
<1>4. ASSUME NEW s \in Session, ReleaseSession(p, s)
      PROVE  (Duties => Duties') /\ (Covered => Covered')
  BY <1>4, FrameOfClose, PlainlyKept
<1>5. ASSUME NEW s \in Session, NEW M \in (SUBSET Addr) \ {{}},
             SelectTrain(p, s, M)
      PROVE  (Duties => Duties') /\ (Covered => Covered')
  BY <1>5, FrameOfTrain, PlainlyKept
<1>6. ASSUME NEW a \in Addr, ForceRelease(p, a)
      PROVE  (Duties => Duties') /\ (Covered => Covered')
  BY <1>6, FrameOfForce, PlainlyKept
<1> QED BY <1>1, <1>2, <1>3, <1>4, <1>5, <1>6 DEF Begin

LEMMA DutiesStep ==
  ASSUME Inv, [Next]_vars
  PROVE  (Duties => Duties') /\ (Covered /\ Calm => Covered')
<1>0. Worker \in Proc /\ Sweeper \in Proc /\ Reconciler \in Proc
  BY DEF Proc
<1>1. ASSUME NEW p \in Client, Begin(p)
      PROVE  (Duties => Duties') /\ (Covered => Covered')
  BY <1>1, DutiesOfBegin
<1>2. ASSUME NEW p \in Proc, Step(p)
      PROVE  (Duties => Duties') /\ (Covered /\ Calm => Covered')
  BY <1>2, DutiesOfStep
<1>3. CASE WorkerTakes
  BY <1>3, DutiesOfWorker
<1>4. CASE SweepIdle \/ SweepDeferred
  BY <1>0, <1>4, FrameOfSweeps, PlainlyKept
<1>5. CASE Reconcile
  <2>1. Calm => th[Reconciler].pc # "confirm"
    BY <1>0 DEF Calm
  <2> QED BY <1>5, <2>1, DutiesOfReconcile
<1>6. CASE Station
  <2>1. Calm => ~suppressExternal
    BY DEF Calm
  <2> QED BY <1>6, <2>1, DutiesOfStation
<1>7. CASE UNCHANGED vars
  <2>1. UNCHANGED <<th, queue, slot, ledger>>
    BY <1>7 DEF vars, ledger
  <2>2. KeepsFlags /\ KeepsMarks(Worker) /\ \A b \in Addr : Held(b) => Held(b)'
    BY <2>1 DEF KeepsFlags, KeepsMarks, Held, ledger
  <2> QED BY <1>0, <2>1, <2>2, StillKept
<1> QED BY <1>1, <1>2, <1>3, <1>4, <1>5, <1>6, <1>7 DEF Next

LEMMA DutiesAlways == Spec => []Duties
<1>1. Init => Duties
  BY DEF Init, Duties, AcquiringOwned, MarkHasJob, NoLease
<1>2. Inv /\ Duties /\ [Next]_vars => Duties'
  BY DutiesStep
<1> QED BY <1>1, <1>2, InvAlways, PTL DEF Spec

-----------------------------------------------------------------------------
(***************************************************************************)
(* No slot is leaked, where the code can promise it.  It cannot during the *)
(* boot stop (SuppressExternal), nor against a reconciler whose probe has  *)
(* become stale; with a station that may refuse a call, a Select that is   *)
(* refused and a drain that ends both forget what another goroutine did.   *)
(***************************************************************************)
Tame ==
  /\ "bootStop" \notin Ops /\ "reconcile" \notin Ops
  /\ StationMayFail => Ops \cap {"select", "train", "sweepIdle"} = {}

\* Where a goroutine can be in a tame layout: with a station that may fail it
\* is in a set-speed or a release; otherwise nothing fails.
ServePC == {"budget", "evict", "add", "drive"}
Odd == {"park", "refused", "probe", "confirm"}

Quiet(t) ==
  /\ StationMayFail =>
       /\ t.pc \in {"idle"} \cup ServePC \cup MarkPC \cup Chain
       /\ t.back \in {"idle", "budget", "add"}
       /\ ~t.draining
       /\ t.pc \in ServePC \/ t.back # "idle" => t.op = "drive"
  /\ ~StationMayFail => t.pc \notin Odd /\ t.back \notin Odd

\* A thread in the middle of a Reserve.
Serves(t) == t \in Thread /\ Quiet(t) /\ (StationMayFail => t.op = "drive")

Tranquil ==
  /\ ~suppressExternal
  /\ \A p \in Proc : Quiet(th[p])
  /\ ~StationMayFail => releasePending = {}

LEMMA TranquilCalm == Tranquil => Calm
  BY DEF Tranquil, Calm, Quiet, ServePC, MarkPC, Chain, Odd

LEMMA QuietIdle == Quiet(Idle)
  BY DEF Quiet, Idle, ServePC, MarkPC, Chain, Odd

\* A thread that moves to a quiet place.
LEMMA QuietBecome ==
  ASSUME th \in [Proc -> Thread], NEW p \in Proc, NEW t, Become(p, t), Quiet(t)
  PROVE  Quiet(th'[p])
  BY BecomeAlone

LEMMA QuietReturn ==
  ASSUME NEW t \in Thread, Quiet(t)
  PROVE  Quiet(Return(t))
<1>1. CASE t.back = "idle"
  BY <1>1, QuietIdle DEF Return
<1>2. CASE t.back # "idle"
  <2> DEFINE n == Return(t)
  <2>1. /\ n.pc = t.back /\ n.back = "idle" /\ n.op = t.op
        /\ n.draining = t.draining
    BY <1>2 DEF Return, Thread
  <2> HIDE DEF n
  <2>2. Quiet(n)
    BY <1>2, <2>1 DEF Quiet, ServePC, MarkPC, Chain, Odd
  <2> QED BY <2>2 DEF n
<1> QED BY <1>1, <1>2

LEMMA QuietNext ==
  ASSUME th \in [Proc -> Thread], NEW p \in Proc, NEW t \in Thread, Quiet(t),
         NextRelease(p, t)
  PROVE  Quiet(th'[p])
<1>1. CASE t.todo = {} /\ Become(p, Return(t))
  BY <1>1, QuietReturn, QuietBecome
<1>2. ASSUME NEW b \in t.todo,
             Become(p, [t EXCEPT !.pc = IF t.draining THEN "reuse3" ELSE "reuse1",
                                 !.rel = b, !.todo = t.todo \ {b}, !.r = 0])
      PROVE  Quiet(th'[p])
  <2> DEFINE n == [t EXCEPT !.pc = IF t.draining THEN "reuse3" ELSE "reuse1",
                            !.rel = b, !.todo = t.todo \ {b}, !.r = 0]
  <2>1. /\ n.pc \in {"reuse1", "reuse3"} /\ n.back = t.back /\ n.op = t.op
        /\ n.draining = t.draining
    BY DEF Thread
  <2> HIDE DEF n
  <2>2. Quiet(n)
    BY <2>1 DEF Quiet, ServePC, MarkPC, Chain, Odd
  <2> QED BY <1>2, <2>2, QuietBecome DEF n
<1> QED BY <1>1, <1>2 DEF NextRelease

LEMMA QuietStart ==
  ASSUME th \in [Proc -> Thread], NEW p \in Proc, NEW t \in Thread, Quiet(t),
         NEW S \in SUBSET Addr, StartRelease(p, t, S)
  PROVE  Quiet(th'[p])
<1> DEFINE n == [t EXCEPT !.todo = S]
<1>1. /\ n \in Thread /\ n.pc = t.pc /\ n.back = t.back /\ n.op = t.op
      /\ n.draining = t.draining
  BY DEF Thread
<1> HIDE DEF n
<1>2. Quiet(n)
  BY <1>1 DEF Quiet
<1> QED BY <1>1, <1>2, QuietNext DEF n, StartRelease

\* Only the program counter changes.
LEMMA QuietMove ==
  ASSUME th \in [Proc -> Thread], NEW p \in Proc, NEW t \in Thread, Quiet(t),
         NEW pc \in {"enqueue", "scheduled", "reuse1", "estop", "reuse2",
                     "reuse3", "release"},
         Become(p, [t EXCEPT !.pc = pc])
  PROVE  Quiet(th'[p])
<1> DEFINE n == [t EXCEPT !.pc = pc]
<1>1. /\ n.pc = pc /\ n.back = t.back /\ n.op = t.op /\ n.draining = t.draining
  BY DEF Thread
<1> HIDE DEF n
<1>2. Quiet(n)
  BY <1>1 DEF Quiet, ServePC, MarkPC, Chain, Odd
<1> QED BY <1>2, QuietBecome DEF n

LEMMA QuietSucceed ==
  ASSUME th \in [Proc -> Thread], NEW p \in Proc, NEW t, Serves(t), Succeed(p, t)
  PROVE  Quiet(th'[p])
<1> DEFINE d == [t EXCEPT !.pc = "drive"]
           n == [t EXCEPT !.pc = "next", !.got = t.got \cup {t.a}]
<1>1. /\ d.pc = "drive" /\ d.back = t.back /\ d.op = t.op
      /\ d.draining = t.draining
      /\ n.pc = "next" /\ n.back = t.back
  BY DEF Serves, Thread
<1>2. Become(p, d) \/ (t.op = "train" /\ Become(p, n)) \/ Become(p, Idle)
  BY DEF Succeed
<1> HIDE DEF d, n
<1>3. Quiet(d)
  BY <1>1, <1>2 DEF Serves, Quiet, ServePC, Odd
<1>4. t.op = "train" => Quiet(n)
  BY <1>1 DEF Serves, Quiet, Odd
<1> QED BY <1>2, <1>3, <1>4, QuietIdle, QuietBecome

LEMMA QuietFail ==
  ASSUME th \in [Proc -> Thread], NEW p \in Proc, NEW t, Serves(t), Fail(p, t)
  PROVE  Quiet(th'[p])
<1> DEFINE n == [t EXCEPT !.pc = "rollback"]
<1>1. n.pc = "rollback" /\ n.back = t.back
  BY DEF Serves, Thread
<1>2. (t.op = "train" /\ Become(p, n)) \/ Become(p, Idle)
  BY DEF Fail
<1> HIDE DEF n
<1>3. t.op = "train" => Quiet(n)
  BY <1>1 DEF Serves, Quiet, Odd
<1> QED BY <1>2, <1>3, QuietIdle, QuietBecome

LEMMA QuietAddHolder ==
  ASSUME th \in [Proc -> Thread], NEW p \in Proc, NEW t, Serves(t),
         AddHolder(p, t)
  PROVE  Quiet(th'[p])
<1> DEFINE n == [t EXCEPT !.pc = "check"]
<1>1. n.pc = "check" /\ n.back = t.back
  BY DEF Serves, Thread
<1>2. Succeed(p, t) \/ (t.op # "drive" /\ Become(p, n))
  BY DEF AddHolder
<1> HIDE DEF n
<1>3. t.op # "drive" => Quiet(n)
  BY <1>1 DEF Serves, Quiet, Odd
<1> QED BY <1>2, <1>3, QuietSucceed, QuietBecome

LEMMA QuietEvictGrace ==
  ASSUME th \in [Proc -> Thread], NEW p \in Proc, NEW t, Serves(t),
         NEW back \in {"budget", "trainBudget"},
         back = "trainBudget" => ~StationMayFail,
         EvictGrace(p, t, back)
  PROVE  Quiet(th'[p])
<1> DEFINE n(a) == [t EXCEPT !.pc = "enqueue", !.rel = a, !.n = t.n + 1,
                             !.back = back]
<1>1. \A a : /\ n(a).pc = "enqueue" /\ n(a).back = back /\ n(a).op = t.op
             /\ n(a).draining = t.draining
  BY DEF Serves, Thread
<1>2. \E a \in Graced : Become(p, n(a))
  BY DEF EvictGrace
<1> HIDE DEF n
<1>3. \A a : Quiet(n(a))
  BY <1>1 DEF Serves, Quiet, ServePC, MarkPC, Odd
<1> QED BY <1>2, <1>3, QuietBecome

LEMMA QuietReserve ==
  ASSUME th \in [Proc -> Thread], NEW p \in Proc, NEW t, Serves(t),
         ReserveLocked(p, t)
  PROVE  Quiet(th'[p])
<1>1. CASE AddHolder(p, t)
  BY <1>1, QuietAddHolder
<1>2. CASE Fail(p, t)
  BY <1>2, QuietFail
<1>3. ASSUME NEW v, Become(p, [t EXCEPT !.pc = "evict", !.rel = v])
      PROVE  Quiet(th'[p])
  <2> DEFINE n == [t EXCEPT !.pc = "evict", !.rel = v]
  <2>1. /\ n.pc = "evict" /\ n.back = t.back /\ n.op = t.op
        /\ n.draining = t.draining
    BY DEF Serves, Thread
  <2> HIDE DEF n
  <2>2. Quiet(n)
    BY <2>1 DEF Serves, Quiet, ServePC, Odd
  <2> QED BY <1>3, <2>2, QuietBecome DEF n
<1>4. CASE EvictGrace(p, t, "budget")
  BY <1>4, QuietEvictGrace
<1> QED BY <1>1, <1>2, <1>3, <1>4 DEF ReserveLocked, CheckCap, BudgetRefused

\* A train runs only where the station does not fail.
LEMMA QuietTrain ==
  ASSUME th \in [Proc -> Thread], NEW p \in Proc, NEW t \in Thread, Quiet(t),
         ~StationMayFail, TrainLocked(p, t)
  PROVE  Quiet(th'[p])
<1> DEFINE n == [t EXCEPT !.pc = "next", !.n = 0]
           m == [t EXCEPT !.op = "none"]
<1>1. /\ n.pc = "next" /\ n.back = t.back
      /\ m \in Thread /\ m.pc = t.pc /\ m.back = t.back
  BY DEF Thread
<1>2. Become(p, n) \/ EvictGrace(p, t, "trainBudget") \/ Fail(p, m)
  BY DEF TrainLocked, BudgetRefused
<1> HIDE DEF n, m
<1>3. Quiet(n) /\ Serves(m) /\ Serves(t)
  BY <1>1 DEF Quiet, Serves, Odd
<1> QED BY <1>2, <1>3, QuietBecome, QuietEvictGrace, QuietFail

LEMMA QuietDeselect ==
  ASSUME th \in [Proc -> Thread], NEW p \in Proc, NEW t \in Thread, Quiet(t),
         NEW s, NEW a \in Addr, NEW deferred, DeselectLocked(p, t, s, a, deferred)
  PROVE  Quiet(th'[p])
<1>1. Become(p, Return(t)) \/ StartRelease(p, t, {a})
  BY DEF DeselectLocked
<1>2. {a} \in SUBSET Addr
  OBVIOUS
<1> QED BY <1>1, <1>2, QuietReturn, QuietBecome, QuietStart

LEMMA QuietBegin ==
  ASSUME Tame, th \in [Proc -> Thread], NEW p \in Client, Begin(p),
         Quiet(th[p])
  PROVE  Quiet(th'[p])
<1>0. p \in Proc /\ Idle \in Thread
  BY DEF Proc, Idle, Thread, PCs
<1>1. ASSUME NEW s \in Session, NEW a \in Addr, NEW op \in {"drive", "select"},
             Call(p, op, s, a)
      PROVE  Quiet(th'[p])
  <2> DEFINE n == [Idle EXCEPT !.op = op, !.s = s, !.a = a, !.need = NeedsSlot(a)]
  <2>1. NeedsSlot(a) \in Nat
    BY DEF NeedsSlot
  <2>2. /\ n \in Thread /\ n.pc = "idle" /\ n.back = "idle" /\ n.op = op
        /\ ~n.draining
    BY <2>1 DEF Idle, Thread, PCs
  <2>3. ReserveLocked(p, n) /\ op \in Ops
    BY <1>1 DEF Call
  <2> HIDE DEF n
  <2>4. Serves(n)
    BY <2>2, <2>3 DEF Serves, Quiet, Odd, ServePC, Tame
  <2> QED BY <1>0, <2>3, <2>4, QuietReserve
<1>2. ASSUME NEW s \in Session, NEW a \in Addr, NEW deferred \in BOOLEAN,
             Deselect(p, s, a, deferred)
      PROVE  Quiet(th'[p])
  BY <1>0, <1>2, QuietIdle, QuietDeselect DEF Deselect
<1>3. ASSUME NEW s \in Session, NEW a \in Addr, Touch(p, s, a)
      PROVE  Quiet(th'[p])
  BY <1>3 DEF Touch
<1>4. ASSUME NEW s \in Session, ReleaseSession(p, s)
      PROVE  Quiet(th'[p])
  <2>1. \E S \in SUBSET Addr : StartRelease(p, Idle, S)
    BY <1>4 DEF ReleaseSession
  <2> QED BY <1>0, <2>1, QuietIdle, QuietStart
<1>5. ASSUME NEW s \in Session, NEW M \in (SUBSET Addr) \ {{}},
             SelectTrain(p, s, M)
      PROVE  Quiet(th'[p])
  <2> DEFINE k == Cardinality({a \in M : ~Occupies(a)})
             n == [Idle EXCEPT !.op = "train", !.s = s, !.rest = M, !.need = k]
  <2>1. k \in Nat
    <3>1. IsFiniteSet({a \in M : ~Occupies(a)})
      BY FS_Subset, ConstantsAssumption
    <3> QED BY <3>1, FS_CardinalityType
  <2> HIDE DEF k
  <2>2. n \in Thread /\ n.pc = "idle" /\ n.back = "idle"
    BY <2>1 DEF Idle, Thread, PCs
  <2>3. TrainLocked(p, n) /\ "train" \in Ops
    BY <1>5 DEF SelectTrain, k
  <2> HIDE DEF n
  <2>4. Quiet(n) /\ ~StationMayFail
    BY <2>2, <2>3 DEF Quiet, Odd, Tame
  <2> QED BY <1>0, <2>2, <2>3, <2>4, QuietTrain
<1>6. ASSUME NEW a \in Addr, ForceRelease(p, a)
      PROVE  Quiet(th'[p])
  <2>1. {a} \in SUBSET Addr
    OBVIOUS
  <2> QED BY <1>0, <1>6, <2>1, QuietIdle, QuietStart DEF ForceRelease
<1> QED BY <1>1, <1>2, <1>3, <1>4, <1>5, <1>6 DEF Begin

LEMMA QuietSelect ==
  ASSUME Inv, NEW p \in Proc, Quiet(th[p]),
         SelectCheck(p) \/ AcquireSlot(p) \/ SelectAcquired(p) \/ SelectRefused(p)
  PROVE  Quiet(th'[p])
<1> DEFINE t == th[p]
           n(pc) == [t EXCEPT !.pc = pc]
           m == [t EXCEPT !.pc = "reuse1", !.rel = t.a,
                   !.got = t.got \cup (IF t.op = "train" THEN {t.a} ELSE {}),
                   !.back = IF t.op = "train" THEN "next" ELSE "idle"]
<1>1. /\ th \in [Proc -> Thread] /\ t \in Thread
      /\ t.pc \in {"check", "acquire", "acquired", "refused"}
  BY DEF Inv, Threads, SelectCheck, AcquireSlot, SelectAcquired, SelectRefused, At
<1>2. /\ \A pc \in {"acquire", "acquired"} : n(pc).pc = pc /\ n(pc).back = t.back
      /\ m.pc = "reuse1" /\ m.back \in {"idle", "next"}
  BY <1>1 DEF Thread
<1>3. ~StationMayFail /\ Serves(t)
  BY <1>1 DEF Quiet, Serves, ServePC, MarkPC, Chain
<1>4. \/ Succeed(p, t) \/ Fail(p, t)
      \/ \E pc \in {"acquire", "acquired"} : Become(p, n(pc))
      \/ Become(p, m)
  BY <1>3 DEF SelectCheck, AcquireSlot, SelectAcquired, SelectRefused
<1> HIDE DEF n, m
<1>5. Quiet(m) /\ \A pc \in {"acquire", "acquired"} : Quiet(n(pc))
  BY <1>2, <1>3 DEF Quiet, Serves, Odd
<1> QED BY <1>1, <1>3, <1>4, <1>5, QuietSucceed, QuietFail, QuietBecome

LEMMA QuietTrainStep ==
  ASSUME Inv, NEW p \in Proc, Quiet(th[p]),
         ResumeTrain(p) \/ TrainNext(p) \/ TrainRollback(p) \/ Drain(p) \/ Drained(p)
  PROVE  Quiet(th'[p])
<1> DEFINE t == th[p]
<1>1. /\ th \in [Proc -> Thread] /\ t \in Thread /\ releasePending \in SUBSET Addr
      /\ t.pc \in {"trainBudget", "next", "rollback", "drain", "drained"}
  BY DEF Inv, Threads, ResumeTrain, TrainNext, TrainRollback, Drain, Drained, At,
         Books, LedgerType
<1>2. ~StationMayFail /\ Serves(t)
  BY <1>1 DEF Quiet, Serves, ServePC, MarkPC, Chain
<1>3. CASE ResumeTrain(p)
  BY <1>1, <1>2, <1>3, QuietTrain DEF ResumeTrain
<1>4. CASE TrainNext(p)
  <2>1. CASE Become(p, Idle)
    BY <1>1, <2>1, QuietIdle, QuietBecome
  <2>2. CASE Fail(p, t)
    BY <1>1, <1>2, <2>2, QuietFail
  <2>3. ASSUME NEW a \in t.rest,
               ReserveLocked(p, [t EXCEPT !.a = a, !.rest = t.rest \ {a},
                                          !.need = NeedsSlot(a), !.n = 0])
        PROVE  Quiet(th'[p])
    <3> DEFINE k == NeedsSlot(a)
               n == [t EXCEPT !.a = a, !.rest = t.rest \ {a},
                              !.need = k, !.n = 0]
    <3>1. k \in Nat
      BY DEF NeedsSlot
    <3> HIDE DEF k
    <3>2. n \in Thread /\ n.pc = t.pc /\ n.back = t.back
      BY <1>1, <3>1 DEF Thread
    <3>3. ReserveLocked(p, n)
      BY <2>3 DEF k
    <3> HIDE DEF n
    <3>4. Serves(n)
      BY <1>2, <3>2 DEF Serves, Quiet
    <3> QED BY <1>1, <3>3, <3>4, QuietReserve
  <2> QED BY <1>4, <2>1, <2>2, <2>3 DEF TrainNext
<1>5. CASE TrainRollback(p)
  <2>1. CASE Become(p, Idle)
    BY <1>1, <2>1, QuietIdle, QuietBecome
  <2>2. ASSUME NEW a \in t.got, NEW on,
               on = [t EXCEPT !.got = t.got \ {a}, !.back = "rollback"],
               DeselectLocked(p, on, t.s, a, FALSE) \/ Become(p, Return(on))
        PROVE  Quiet(th'[p])
    <3>1. on \in Thread /\ on.pc = t.pc /\ on.back = "rollback" /\ a \in Addr
      BY <1>1, <2>2, ZenonT(60) DEF Thread, PCs
    <3>2. Quiet(on)
      BY <1>2, <3>1 DEF Quiet, Odd
    <3> QED BY <1>1, <2>2, <3>1, <3>2, QuietDeselect, QuietReturn, QuietBecome
  <2> QED BY <1>5, <2>1, <2>2 DEF TrainRollback
<1>6. CASE Drain(p)
  <2> DEFINE n == [t EXCEPT !.draining = TRUE]
  <2>1. n \in Thread /\ n.pc = t.pc /\ n.back = t.back
    BY <1>1 DEF Thread
  <2>2. StartRelease(p, n, releasePending)
    BY <1>6 DEF Drain
  <2> HIDE DEF n
  <2>3. Quiet(n)
    BY <1>2, <2>1 DEF Quiet
  <2> QED BY <1>1, <2>1, <2>2, <2>3, QuietStart
<1>7. CASE Drained(p)
  BY <1>1, <1>7, QuietNext DEF Drained
<1> QED BY <1>3, <1>4, <1>5, <1>6, <1>7

LEMMA QuietCapEvict ==
  ASSUME Inv, NEW p \in Proc, Quiet(th[p]), CapEvict(p)
  PROVE  Quiet(th'[p])
<1> DEFINE t == th[p]
           on == [t EXCEPT !.pc = "add", !.rel = NoAddr]
           n == [t EXCEPT !.pc = "enqueue", !.back = "add"]
<1>1. th \in [Proc -> Thread] /\ t \in Thread /\ t.pc = "evict"
  BY DEF Inv, Threads, CapEvict, At
<1>2. /\ on.pc = "add" /\ on.back = t.back /\ on.op = t.op
      /\ on.draining = t.draining
      /\ n.pc = "enqueue" /\ n.back = "add" /\ n.op = t.op
      /\ n.draining = t.draining
  BY <1>1 DEF Thread
<1>3. Become(p, on) \/ Become(p, n)
  BY DEF CapEvict
<1> HIDE DEF on, n
<1>4. Quiet(on) /\ Quiet(n)
  BY <1>1, <1>2 DEF Quiet, ServePC, MarkPC, Odd
<1> QED BY <1>1, <1>3, <1>4, QuietBecome

LEMMA QuietReleaseStep ==
  ASSUME Inv, NEW p \in Proc, Quiet(th[p]),
         \/ EnqueueRelease(p) \/ ReleaseScheduled(p) \/ ReleaseAbortedByReuse(p)
         \/ EStop(p) \/ ReleaseSlot(p) \/ Park(p)
  PROVE  Quiet(th'[p])
<1> DEFINE t == th[p]
           n == [t EXCEPT !.pc = "park"]
           m == [t EXCEPT !.r = t.r + 1]
           d == [t EXCEPT !.pc = "drained"]
<1>1. th \in [Proc -> Thread] /\ t \in Thread
  BY DEF Inv, Threads
<1>2. CASE EnqueueRelease(p)
  BY <1>1, <1>2, QuietReturn, QuietBecome, QuietMove DEF EnqueueRelease
<1>3. CASE ReleaseScheduled(p)
  BY <1>1, <1>3, QuietNext, QuietMove DEF ReleaseScheduled
<1>4. CASE EStop(p)
  BY <1>1, <1>4, QuietMove DEF EStop
<1>5. CASE Park(p)
  BY <1>1, <1>5, QuietNext DEF Park
<1>6. /\ n.pc = "park" /\ n.back = t.back /\ n.op = t.op /\ n.draining = t.draining
      /\ m.pc = t.pc /\ m.back = t.back /\ m.op = t.op /\ m.draining = t.draining
      /\ d.pc = "drained" /\ d.back = t.back
  BY <1>1 DEF Thread
<1>7. /\ Quiet(m)
      /\ StationMayFail => Quiet(n)
      /\ t.draining => Quiet(d)
  BY <1>6 DEF Quiet, ServePC, MarkPC, Chain, Odd
<1>8. CASE ReleaseAbortedByReuse(p)
  <2>1. \/ t.draining /\ Become(p, d)
        \/ NextRelease(p, t)
        \/ \E pc \in {"estop", "reuse3", "release"} : Become(p, [t EXCEPT !.pc = pc])
    BY <1>8 DEF ReleaseAbortedByReuse, ReuseCheck
  <2> HIDE DEF d
  <2> QED BY <1>1, <1>7, <2>1, QuietNext, QuietMove, QuietBecome
<1>9. CASE ReleaseSlot(p)
  <2>1. \/ t.draining /\ Become(p, d)
        \/ NextRelease(p, t)
        \/ StationMayFail /\ Become(p, n)
        \/ Become(p, m)
    BY <1>9 DEF ReleaseSlot
  <2> HIDE DEF d, n, m
  <2> QED BY <1>1, <1>7, <2>1, QuietNext, QuietBecome
<1> QED BY <1>2, <1>3, <1>4, <1>5, <1>8, <1>9

LEMMA QuietStep ==
  ASSUME Inv, NEW p \in Proc, Quiet(th[p]), Step(p)
  PROVE  Quiet(th'[p])
<1>0. th \in [Proc -> Thread] /\ th[p] \in Thread
  BY DEF Inv, Threads
<1>1. CASE ResumeBudget(p) \/ ResumeReserve(p)
  <2>1. Serves(th[p])
    BY <1>0, <1>1 DEF Serves, Quiet, ServePC, ResumeBudget, ResumeReserve, At
  <2> QED BY <1>0, <1>1, <2>1, QuietReserve, QuietAddHolder
          DEF ResumeBudget, ResumeReserve
<1>2. CASE CapEvict(p)
  BY <1>2, QuietCapEvict
<1>3. CASE Drive(p)
  BY <1>0, <1>3, QuietIdle, QuietBecome DEF Drive
<1>4. CASE SelectCheck(p) \/ AcquireSlot(p) \/ SelectAcquired(p) \/ SelectRefused(p)
  BY <1>4, QuietSelect
<1>5. CASE ResumeTrain(p) \/ TrainNext(p) \/ TrainRollback(p) \/ Drain(p) \/ Drained(p)
  BY <1>5, QuietTrainStep
<1>6. CASE \/ EnqueueRelease(p) \/ ReleaseScheduled(p) \/ ReleaseAbortedByReuse(p)
           \/ EStop(p) \/ ReleaseSlot(p) \/ Park(p)
  BY <1>6, QuietReleaseStep
<1> QED BY <1>1, <1>2, <1>3, <1>4, <1>5, <1>6 DEF Step

\* What else a goroutine's step does: only itself moves, and only a release
\* that is parked adds a pending mark.
Orderly(p) ==
  /\ \E n : Become(p, n)
  /\ releasePending' \subseteq releasePending \/ th[p].pc = "park"
  /\ suppressExternal' = suppressExternal

LEMMA NextReleaseMoves ==
  ASSUME NEW p, NEW t, NextRelease(p, t)
  PROVE  \E n : Become(p, n)
  BY DEF NextRelease

LEMMA ReserveOrderly ==
  ASSUME NEW p, NEW t,
         ReserveLocked(p, t) \/ AddHolder(p, t) \/ TrainLocked(p, t)
  PROVE  (\E n : Become(p, n)) /\ releasePending' = releasePending
<1>1. CASE ReserveLocked(p, t) \/ AddHolder(p, t)
  BY <1>1 DEF ReserveLocked, CheckCap, AddHolder, EvictGrace, BudgetRefused,
              Succeed, Fail, ledger
<1>2. CASE TrainLocked(p, t)
  BY <1>2 DEF TrainLocked, EvictGrace, BudgetRefused, Fail, ledger
<1> QED BY <1>1, <1>2

LEMMA DeselectOrderly ==
  ASSUME NEW p, NEW t, NEW s, NEW a, NEW d, DeselectLocked(p, t, s, a, d)
  PROVE  (\E n : Become(p, n)) /\ releasePending' = releasePending
  BY NextReleaseMoves DEF DeselectLocked, StartRelease

LEMMA BeginOrderly ==
  ASSUME NEW p \in Client, Begin(p)
  PROVE  Orderly(p) \/ UNCHANGED <<th, releasePending, suppressExternal>>
<1>1. ASSUME NEW s \in Session, NEW a \in Addr, NEW op \in {"drive", "select"},
             Call(p, op, s, a)
      PROVE  Orderly(p)
  BY <1>1, ReserveOrderly DEF Call, Orderly
<1>2. ASSUME NEW s \in Session, NEW a \in Addr, NEW deferred \in BOOLEAN,
             Deselect(p, s, a, deferred)
      PROVE  Orderly(p)
  BY <1>2, DeselectOrderly DEF Deselect, Orderly
<1>3. ASSUME NEW s \in Session, NEW a \in Addr, Touch(p, s, a)
      PROVE  UNCHANGED <<th, releasePending, suppressExternal>>
  BY <1>3 DEF Touch
<1>4. ASSUME NEW s \in Session, ReleaseSession(p, s)
      PROVE  Orderly(p)
  BY <1>4, NextReleaseMoves DEF ReleaseSession, StartRelease, Orderly
<1>5. ASSUME NEW s \in Session, NEW M \in (SUBSET Addr) \ {{}},
             SelectTrain(p, s, M)
      PROVE  Orderly(p)
  BY <1>5, ReserveOrderly DEF SelectTrain, Orderly
<1>6. ASSUME NEW a \in Addr, ForceRelease(p, a)
      PROVE  Orderly(p)
  BY <1>6, NextReleaseMoves DEF ForceRelease, StartRelease, DropLeases, Orderly
<1> QED BY <1>1, <1>2, <1>3, <1>4, <1>5, <1>6 DEF Begin

LEMMA StepOrderly ==
  ASSUME NEW p \in Proc, Step(p)
  PROVE  Orderly(p)
<1>1. CASE ResumeBudget(p) \/ ResumeReserve(p) \/ ResumeTrain(p)
  BY <1>1, ReserveOrderly DEF ResumeBudget, ResumeReserve, ResumeTrain, Orderly
<1>2. CASE CapEvict(p)
  BY <1>2 DEF CapEvict, ledger, Orderly
<1>3. CASE Drive(p)
  BY <1>3 DEF Drive, OnSlotInUse, ledger, Orderly
<1>4. CASE SelectCheck(p)
  BY <1>4 DEF SelectCheck, Succeed, Orderly
<1>5. CASE AcquireSlot(p)
  BY <1>5 DEF AcquireSlot, OnSlotInUse, ledger, Orderly
<1>6. CASE SelectAcquired(p)
  BY <1>6 DEF SelectAcquired, Succeed, Orderly
<1>7. CASE SelectRefused(p)
  BY <1>7 DEF SelectRefused, Fail, Orderly
<1>8. CASE TrainNext(p)
  <2>1. (\E n : Become(p, n)) /\ releasePending' = releasePending
    BY <1>8, ReserveOrderly DEF TrainNext, Fail, ledger
  <2> QED BY <1>8, <2>1 DEF TrainNext, Orderly
<1>9. CASE TrainRollback(p)
  <2>1. (\E n : Become(p, n)) /\ releasePending' = releasePending
    BY <1>9, DeselectOrderly DEF TrainRollback, ledger
  <2> QED BY <1>9, <2>1 DEF TrainRollback, Orderly
<1>10. CASE EnqueueRelease(p)
  BY <1>10 DEF EnqueueRelease, ledger, Orderly
<1>11. CASE ReleaseScheduled(p)
  BY <1>11, NextReleaseMoves DEF ReleaseScheduled, Orderly
<1>12. CASE ReleaseAbortedByReuse(p)
  BY <1>12, NextReleaseMoves DEF ReleaseAbortedByReuse, ReuseCheck, Orderly
<1>13. CASE EStop(p)
  BY <1>13 DEF EStop, ledger, Orderly
<1>14. CASE ReleaseSlot(p)
  BY <1>14, NextReleaseMoves DEF ReleaseSlot, OnSlotReleased, DropLeases, ledger, Orderly
<1>15. CASE Park(p)
  BY <1>15, NextReleaseMoves DEF Park, At, Orderly
<1>16. CASE Drain(p)
  BY <1>16, NextReleaseMoves DEF Drain, StartRelease, ledger, Orderly
<1>17. CASE Drained(p)
  BY <1>17, NextReleaseMoves DEF Drained, Orderly
<1> QED BY <1>1, <1>2, <1>3, <1>4, <1>5, <1>6, <1>7, <1>8, <1>9, <1>10, <1>11,
           <1>12, <1>13, <1>14, <1>15, <1>16, <1>17 DEF Step

\* The worker and the sweeps.
LEMMA TickOrderly ==
  ASSUME Tame, Inv, NEW p \in {Worker, Sweeper},
         \/ p = Worker /\ WorkerTakes
         \/ p = Sweeper /\ (SweepIdle \/ SweepDeferred)
  PROVE  Orderly(p) /\ Quiet(th'[p])
<1>0. p \in Proc /\ th \in [Proc -> Thread] /\ Idle \in Thread
  BY DEF Proc, Inv, Threads, Idle, Thread, PCs
<1>1. CASE p = Worker /\ WorkerTakes
  <2> DEFINE n == [Idle EXCEPT !.pc = "scheduled", !.rel = Head(queue)]
  <2>1. n.pc = "scheduled" /\ n.back = "idle" /\ ~n.draining
    BY DEF Idle
  <2>2. Become(p, n) /\ Orderly(p)
    BY <1>1 DEF WorkerTakes, Orderly, ledger
  <2> HIDE DEF n
  <2>3. Quiet(n)
    BY <2>1 DEF Quiet, ServePC, MarkPC, Odd
  <2> QED BY <1>0, <2>2, <2>3, QuietBecome
<1>2. CASE p = Sweeper /\ SweepIdle
  <2> DEFINE n == [Idle EXCEPT !.back = "drain"]
  <2>1. n \in Thread /\ n.pc = "idle" /\ n.back = "drain"
    BY DEF Idle, Thread, PCs
  <2>2. /\ StartRelease(p, n, IdleExpired) /\ Orderly(p) /\ "sweepIdle" \in Ops
        /\ IdleExpired \in SUBSET Addr
    BY <1>2, NextReleaseMoves DEF SweepIdle, Orderly, DropLeases, StartRelease, IdleExpired
  <2> HIDE DEF n
  <2>3. Quiet(n)
    BY <2>1, <2>2 DEF Quiet, Odd, Tame
  <2> QED BY <1>0, <2>1, <2>2, <2>3, QuietStart
<1>3. CASE p = Sweeper /\ SweepDeferred
  <2>1. Orderly(p) /\ \E S \in SUBSET Addr : StartRelease(p, Idle, S)
    BY <1>3, NextReleaseMoves DEF SweepDeferred, Orderly, StartRelease
  <2> QED BY <1>0, <2>1, QuietIdle, QuietStart
<1> QED BY <1>1, <1>2, <1>3

LEMMA OrderlyTranquil ==
  ASSUME Tranquil, NEW p \in Proc, th \in [Proc -> Thread], Orderly(p),
         Quiet(th'[p])
  PROVE  Tranquil'
<1>1. Others(p)
  BY BecomeAlone DEF Orderly
<1>2. \A q \in Proc : Quiet(th'[q])
  BY <1>1 DEF Others, Tranquil
<1>3. ~StationMayFail => th[p].pc # "park"
  BY DEF Tranquil, Quiet, Odd
<1> QED BY <1>2, <1>3 DEF Tranquil, Orderly, Quiet

LEMMA TranquilStep ==
  ASSUME Tame, Inv, Tranquil, [Next]_vars
  PROVE  Tranquil'
<1>0. /\ th \in [Proc -> Thread] /\ \A p \in Proc : Quiet(th[p])
      /\ Worker \in Proc /\ Sweeper \in Proc /\ Reconciler \in Proc
      /\ Client \subseteq Proc
  BY DEF Inv, Threads, Tranquil, Proc
<1>1. ASSUME UNCHANGED th, releasePending' \subseteq releasePending,
             suppressExternal' => suppressExternal
      PROVE  Tranquil'
  BY <1>1 DEF Tranquil, Quiet
<1>2. ASSUME NEW p \in Client, Begin(p) PROVE Tranquil'
  <2>1. Quiet(th'[p])
    BY <1>0, <1>2, QuietBegin
  <2> QED BY <1>0, <1>1, <1>2, <2>1, BeginOrderly, OrderlyTranquil
<1>3. ASSUME NEW p \in Proc, Step(p) PROVE Tranquil'
  BY <1>0, <1>3, QuietStep, StepOrderly, OrderlyTranquil
<1>4. CASE WorkerTakes
  BY <1>0, <1>4, TickOrderly, OrderlyTranquil
<1>5. CASE SweepIdle \/ SweepDeferred
  BY <1>0, <1>5, TickOrderly, OrderlyTranquil
<1>6. CASE Reconcile
  <2>1. th[Reconciler].pc \notin {"probe", "confirm"}
    BY <1>0 DEF Quiet, ServePC, MarkPC, Chain, Odd
  <2> QED BY <1>6, <2>1 DEF Reconcile, ReconcileSnapshot, Probe, ReconcileDrop, At, Tame
<1>7. CASE Station
  BY <1>1, <1>7 DEF Station, ThrottleTakes, SlotFreed, SlotFreedUnseen, IdleElapse,
     BootStopEnds, OnSlotInUse, OnSlotReleased, DropLeases, ledger
<1>8. CASE UNCHANGED vars
  BY <1>1, <1>8 DEF vars
<1> QED BY <1>2, <1>3, <1>4, <1>5, <1>6, <1>7, <1>8 DEF Next

-----------------------------------------------------------------------------
(***************************************************************************)
(* The theorems about duties.                                              *)
(***************************************************************************)

\* A lease that is marked acquiring always has a Select in flight that will
\* clear the mark, also when a drop, a sweep or a session close removes and a
\* second Select recreates the lease meanwhile: no lease is pinned against the
\* sweeps and the reconciler (Select, acquiring).
THEOREM FlagsStayOwned == Spec => []AcquiringOwned
<1>1. Duties => AcquiringOwned
  BY DEF Duties
<1> QED BY <1>1, DutiesAlways, PTL

\* A releasing mark always has its job, in the queue or in a goroutine's hands,
\* and its address no driver: Reserve may trust it (enqueueRelease,
\* RunReleaseWorker, releaseScheduled, Reserve).
THEOREM MarksHaveJobs == Spec => []MarkHasJob
<1>1. Duties => MarkHasJob
  BY DEF Duties
<1> QED BY <1>1, DutiesAlways, PTL

LEMMA CoveredAlways == Tame /\ Spec => [](Tranquil /\ Covered)
<1> DEFINE I == Tame /\ Tranquil /\ Covered
<1>1. Tame /\ Init => I
  BY QuietIdle DEF Init, Tranquil, Tame, Covered
<1>2. Inv /\ I /\ [Next]_vars => I'
  <2>1. Tame => Tame'
    BY DEF Tame
  <2> QED BY <2>1, TranquilStep, TranquilCalm, DutiesStep
<1> QED BY <1>1, <1>2, InvAlways, PTL DEF Spec

\* A slot is never silently leaked in a tame layout: whatever drives, selects,
\* trains, deselects, closes, takeovers and sweeps interleave with physical
\* throttles, a slot that is IN_USE has a lease, a release mark, a pending retry
\* or a goroutine about to release it; with a station that may refuse calls, the
\* same for set-speeds, deselects, closes, forced releases and grace windows
\* (Reserve, deselect, stopAndRelease, releaseSlotWithRetry, OnSlotInUse).
THEOREM SlotsStayKept == Tame /\ Spec => []SlotsKept
<1>1. Covered => NoSilentLeak
  <2>1. \A p \in Proc, a \in Addr : Charge(th[p], a) => InCharge(p, a)
    BY DEF Charge, InCharge, Chain
  <2> QED BY <2>1 DEF Covered, NoSilentLeak, Held
<1>2. Covered /\ Duties /\ TypeOK /\ GraceUnheld => SlotsKept
  BY <1>1 DEF SlotsKept, Duties
<1> QED BY <1>2, CoveredAlways, DutiesAlways, TypeCorrect, GraceStaysUnheld, PTL

=============================================================================
