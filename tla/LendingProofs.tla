---------------------------- MODULE LendingProofs ----------------------------
(***************************************************************************)
(* Proofs about Lending (NoEarlyGrant, Watched, ViewsFollow, BrakedAtEnd)  *)
(* and, in the second half, about Signalbox (SignalboxSound), for any      *)
(* number of targets, boxes, users, goroutines, requests and calls.        *)
(*                                                                         *)
(* The properties speak of moments when nothing runs, so none of them is   *)
(* inductive.  Requests (whatever overlaps) says what every goroutine that *)
(* holds a request knows of it: ids are never used twice, the timer and    *)
(* the goroutines behind it are no earlier than the window, and whoever    *)
(* takes the timer away does so for a request that is not pending.  The    *)
(* other parts hold as long as handlers do not overlap.  Minded says of    *)
(* every lease that a timer, or the goroutine about to set one, comes back *)
(* to it in time; BrakeMinded and Shown say the same of a target still to  *)
(* be braked and of a roster that is behind the leases.                    *)
(***************************************************************************)
EXTENDS Lending, Services, SequenceTheorems, FiniteSetTheorems, TLAPS

Pcs == {"idle", "read", "publish", "arm", "revoke", "disarm", "update", "expired", "clean",
        "insert", "window", "decide", "ungrant", "grant", "granted", "watch", "release",
        "released", "next"}
Rows == {None} \cup Due \cup Lease \cup Request \cup [Target -> SUBSET Right]
State == [pc : Pcs, t : Target \cup {None}, id : Id \cup User \cup {Owner, None}, row : Rows,
          todo : SUBSET (Due \cup Target \cup (Id \X Target)),
          then : {"idle", "read", "arm", "watch", "next"}, old : BOOLEAN]

Watching(s) == s.pc = "watch" \/ (s.pc \in {"read", "publish"} /\ s.then = "watch")
Ending(s) ==
  s.pc \in {"release", "released", "next"} \/ (s.pc \in {"read", "publish"} /\ s.then = "next")

\* What a goroutine has in its hands at the point where it is.
Holds(s) ==
  /\ s.pc \in {"arm", "revoke", "disarm", "update", "expired", "insert", "decide", "grant",
               "granted", "release", "released"} => s.t \in Target
  /\ s.pc = "arm" => s.row \in Due /\ s.then \in {"idle", "read"}
  /\ s.pc = "update" => s.row \in Lease /\ s.then \in {"read", "arm"}
  /\ s.pc \in {"read", "publish"} => s.then \in {"idle", "watch", "next"}
  /\ s.pc \in {"revoke", "disarm", "expired"} => s.then = "idle"
  /\ s.pc = "publish" => s.row \in [Target -> SUBSET Right]
  /\ s.pc = "clean" => s.id \in User \cup {Owner} /\ s.todo \subseteq Target
  /\ s.pc = "insert" => s.id \in User
  /\ s.pc \in {"window", "decide", "ungrant", "grant", "granted", "release", "released"}
       => s.id \in Id
  /\ s.pc \in {"grant", "granted"} =>
       /\ s.row \in Request /\ s.row.st = "granted" /\ s.row.t = s.t
       /\ s.row.at \in Time /\ s.row.until = s.row.at + Hold + Slack
  /\ Watching(s) => s.t \in Target /\ s.id \in Id /\ \E x \in Due : s.todo = {x}
  /\ Ending(s) => s.todo \subseteq Id \X Target

Types == TypeOK /\ proc \in [Proc -> State] /\ \A p \in Proc : Holds(proc[p])

-----------------------------------------------------------------------------
Pending(i) == InState(i, "pending")
Granted(i) == InState(i, "granted")
Inserting == {q \in Proc : proc[q].pc = "insert"}

Granting(s) == s.pc \in {"window", "grant", "granted"}

\* Every id is drawn once.
Drawn ==
  /\ made + Cardinality(Inserting) <= MaxReq
  /\ \A i \in Id : i > made => req[i] = None /\ gtimer[i] = None

\* The window of a pending request is not over before its time, and who takes
\* its timer away has seen that it is not pending.
Knows(s) ==
  /\ Granting(s) \/ s.pc \in {"decide", "ungrant", "release", "released"} => s.id <= made
  /\ Granting(s) /\ Pending(s.id) =>
       req[s.id].at <= IF s.pc = "window" THEN now + Window ELSE now
  /\ s.pc \in {"ungrant", "release", "released"} => ~Pending(s.id)
  /\ Ending(s) => \A r \in s.todo : r[1] <= made /\ ~Pending(r[1])

NotEarly == \A i \in Id : Pending(i) /\ gtimer[i] # None => req[i].at <= gtimer[i]

Requests == Drawn /\ NotEarly /\ RequestWatched /\ \A p \in Proc : Knows(proc[p])

-----------------------------------------------------------------------------
\* No two goroutines run; when the server is down, none does.
Single ==
  /\ ~overlap => \A p, q \in Proc : proc[p].pc # "idle" /\ proc[q].pc # "idle" => p = q
  /\ ~up => \A p \in Proc : proc[p].pc = "idle"

\* A timer comes back to t by the time x ...
ByTimer(t, x) ==
  \/ ltimer[t] # None /\ ltimer[t] <= x
  \/ \E i \in Id : /\ Granted(i) /\ req[i].t = t
                   /\ rtimer[i] # None /\ rtimer[i] <= x /\ rtimer[i] + Slack <= req[i].until

\* ... or the goroutine s is about to, or to set such a timer.
ByProc(s, t, x) ==
  /\ s.t = t
  /\ \/ s.pc = "arm" /\ s.row <= x
     \/ s.pc = "granted" /\ s.row.at + Hold <= x
     \/ /\ Watching(s) /\ Granted(s.id) /\ req[s.id].t = t
        /\ \A y \in s.todo : y <= x /\ y + Slack <= req[s.id].until
     \/ s.pc = "release"

Minded(t, x) == ByTimer(t, x) \/ \E p \in Proc : ByProc(proc[p], t, x)

LeasesMinded == \A t \in Target : lease[t] # None => Minded(t, lease[t].exp)

\* What a goroutine that runs alone still finds as it left it.
Undisturbed(s) ==
  /\ s.pc \in {"disarm", "expired", "released"} => lease[s.t] = None
  /\ s.pc \in {"revoke", "disarm", "released"} => ~owed[s.t]
  /\ s.pc = "released" => rtimer[s.id] = None
  /\ s.pc = "arm" => s.row <= IF lease[s.t] = None THEN now ELSE lease[s.t].exp
  /\ s.pc = "update" /\ lease[s.t] # None =>
       lease[s.t].to = s.row.to /\ (s.then = "read" => lease[s.t].exp = s.row.exp)
  /\ s.pc \in {"decide", "grant", "granted"} => ~Granted(s.id)
  /\ s.pc \in {"release", "released"} /\ req[s.id] # None => req[s.id].t = s.t
  /\ Ending(s) => \A r \in s.todo : req[r[1]] # None => req[r[1]].t = r[2]
  /\ s.pc = "clean" => \A t \in s.todo : lease[t] = None
  /\ s.pc \in {"grant", "granted"} => now <= s.row.at + (IF s.old THEN 1 ELSE 0)
  /\ Watching(s) =>
       /\ Granted(s.id) /\ req[s.id].t = s.t /\ rtimer[s.id] = None
       /\ \A y \in s.todo : /\ now + Hold <= y + (IF s.old THEN 1 ELSE 0)
                            /\ y + Slack <= req[s.id].until

\* The roster that belongs to the rights L.
SnapshotOf(L) ==
  [t \in Target |-> IF t \in Vehicle
                    THEN L[t] \cup UNION {L[k] : k \in {j \in Train : t \in Member[j]}}
                    ELSE L[t]]

\* The roster m is that of the leases, but for targets somebody comes back to
\* at once.
Shown(m) ==
  \E L \in [Target -> SUBSET Right] :
    /\ m = SnapshotOf(L)
    /\ \A t \in Target : L[t] = RightOf(t) \/ (lease[t] = None /\ Minded(t, now))

WillRead(s) ==
  \/ s.pc \in {"disarm", "expired", "read", "publish", "granted", "release", "released"}
  \/ s.pc = "arm" /\ s.then = "read"

RosterMinded ==
  /\ (\E p \in Proc : WillRead(proc[p])) \/ Shown(roster)
  /\ \A p \in Proc : proc[p].pc = "publish" => Shown(proc[p].row)

BrakeMinded ==
  \A t \in Target : owed[t] /\ lease[t] = None =>
    \/ Minded(t, now)
    \/ \E p \in Proc : proc[p].pc = "expired" /\ proc[p].t = t

\* A takeover that is timed is granted and outlives its timer.
TakeoversTimed ==
  ~overlap => \A i \in Id : rtimer[i] # None =>
                up /\ Granted(i) /\ rtimer[i] + Slack <= req[i].until

Serial ==
  /\ ListedToParties /\ TakeoversTimed
  /\ up /\ ~overlap => /\ LeasesMinded /\ RosterMinded /\ BrakeMinded
                       /\ \A p \in Proc : Undisturbed(proc[p])

Inv == Types /\ Requests /\ Single /\ Serial

-----------------------------------------------------------------------------
(***************************************************************************)
(* Times, records, goroutines.                                             *)
(***************************************************************************)
LEMMA DueFacts ==
  /\ Due \subseteq Nat
  /\ \A n \in Time : /\ n \in Due /\ n + Window \in Due /\ n + Window + Slack \in Due
                     /\ n + Hold \in Due /\ n + Hold + Slack \in Due
                     /\ \A d \in Duration : n + d \in Due
<1> DEFINE top == CHOOSE m \in Duration : \A d \in Duration : d <= m
<1>1. top \in Duration /\ \A d \in Duration : d <= top
  BY LendingAssumption
<1>2. top \in Nat /\ \A d \in Duration : d \in Nat /\ d <= top
  BY <1>1, LendingAssumption
<1>3. Due = 0 .. (MaxTime + Window + Hold + Slack + top)
  BY DEF Due
<1> HIDE DEF top
<1>4. /\ MaxTime \in Nat /\ Window \in Nat /\ Hold \in Nat /\ Slack \in Nat
  BY LendingAssumption
<1> QED BY <1>2, <1>3, <1>4 DEF Time

LEMMA NoneFacts == None \notin Lease /\ None \notin Request /\ None \notin Due /\ None \notin Id
BY NoneAssumption

LEMMA IdleOK ==
  /\ Idle \in State /\ Idle.pc = "idle" /\ Holds(Idle) /\ Idle.old = FALSE
  /\ ~Watching(Idle) /\ ~Ending(Idle) /\ ~Granting(Idle)
BY DEF Idle, State, Pcs, Rows, Holds, Watching, Ending, Granting

\* p has moved to a state it may be in; nobody else has moved.
Moved(p) ==
  proc' \in [Proc -> State] /\ Holds(proc'[p]) /\ \A q \in Proc \ {p} : proc'[q] = proc[q]

LEMMA MovedTo ==
  ASSUME Inv, NEW p \in Proc, NEW s \in State, Holds(s), proc' = [proc EXCEPT ![p] = s]
  PROVE  Moved(p) /\ proc'[p] = s
BY DEF Inv, Types, Moved

LEMMA StateFacts ==
  ASSUME Inv, NEW p \in Proc
  PROVE  proc[p] \in State /\ Holds(proc[p]) /\ proc \in [Proc -> State]
BY DEF Inv, Types

LEMMA TypesStep ==
  ASSUME Inv, NEW p \in Proc, Moved(p),
         now' \in Time, up' \in BOOLEAN, overlap' \in BOOLEAN,
         lease' \in [Target -> Lease \cup {None}],
         idx' \in [User \cup {Owner} -> SUBSET Target],
         req' \in [Id -> Request \cup {None}],
         pending' \in [Target -> Id \cup {None}], made' \in 0 .. MaxReq,
         calls' \in 0 .. MaxCalls, roster' \in [Target -> SUBSET Right],
         box' \in User \cup {None}, ltimer' \in [Target -> Due \cup {None}],
         gtimer' \in [Id -> Due \cup {None}], rtimer' \in [Id -> Due \cup {None}],
         owed' \in [Target -> BOOLEAN]
  PROVE  Types'
BY DEF Inv, Types, TypeOK, Moved

LEMMA TypeFacts ==
  ASSUME Inv
  PROVE  /\ now \in Time /\ now \in Nat /\ up \in BOOLEAN /\ overlap \in BOOLEAN
         /\ lease \in [Target -> Lease \cup {None}]
         /\ idx \in [User \cup {Owner} -> SUBSET Target]
         /\ req \in [Id -> Request \cup {None}]
         /\ pending \in [Target -> Id \cup {None}] /\ made \in 0 .. MaxReq
         /\ calls \in 0 .. MaxCalls /\ roster \in [Target -> SUBSET Right]
         /\ box \in User \cup {None} /\ ltimer \in [Target -> Due \cup {None}]
         /\ gtimer \in [Id -> Due \cup {None}] /\ rtimer \in [Id -> Due \cup {None}]
         /\ owed \in [Target -> BOOLEAN]
BY DEF Inv, Types, TypeOK, Time

-----------------------------------------------------------------------------
(***************************************************************************)
(* One goroutine at a time.                                                *)
(***************************************************************************)
Alone(p) == \A q \in Proc \ {p} : proc[q].pc = "idle" /\ proc'[q].pc = "idle"

LEMMA SingleStep ==
  ASSUME Inv, NEW p \in Proc, Moved(p), proc[p].pc # "idle", UNCHANGED <<up, overlap>>
  PROVE  Single' /\ (~overlap' => ~overlap /\ Alone(p)) /\ up
BY DEF Inv, Single, Moved, Alone

\* A goroutine that starts and goes on is alone, or handlers overlap.
LEMMA SingleStart ==
  ASSUME Inv, NEW p \in Proc, Moved(p), proc[p].pc = "idle", up, up' = up,
         overlap' = (overlap \/ (Busy # {} /\ proc'[p].pc # "idle"))
  PROVE  /\ Single' /\ (~overlap' => ~overlap)
         /\ ~overlap' /\ proc'[p].pc # "idle" => Alone(p)
BY DEF Inv, Single, Moved, Alone, Busy

-----------------------------------------------------------------------------
(***************************************************************************)
(* Requests.                                                               *)
(***************************************************************************)
LEMMA InsertingFacts == IsFiniteSet(Inserting) /\ Cardinality(Inserting) \in Nat
<1>1. IsFiniteSet(Inserting)
  BY FS_Subset, LendingAssumption DEF Inserting
<1> QED BY <1>1, FS_CardinalityType

LEMMA InsertingLess ==
  ASSUME NEW p \in Proc, Moved(p), proc'[p].pc # "insert"
  PROVE  /\ Cardinality(Inserting') \in Nat
         /\ Cardinality(Inserting') <= Cardinality(Inserting)
         /\ proc[p].pc = "insert" => Cardinality(Inserting') = Cardinality(Inserting) - 1
<1>1. Inserting' = Inserting \ {p}
  BY DEF Inserting, Moved
<1>2. /\ IsFiniteSet(Inserting \ {p})
      /\ Cardinality(Inserting \ {p})
           = IF p \in Inserting THEN Cardinality(Inserting) - 1 ELSE Cardinality(Inserting)
  BY FS_RemoveElement, InsertingFacts
<1>3. proc[p].pc = "insert" => p \in Inserting
  BY DEF Inserting
<1>4. Cardinality(Inserting \ {p}) \in Nat
  BY <1>2, FS_CardinalityType
<1> QED BY <1>1, <1>2, <1>3, <1>4, InsertingFacts

\* A step that makes no request pending and draws no id.
LEMMA RequestsStep ==
  ASSUME Inv, NEW p \in Proc, Moved(p), UNCHANGED <<made, now>>, up' => up,
         \A i \in Id : /\ i > made => req'[i] = None
                       /\ Pending(i)' => Pending(i) /\ req'[i] = req[i],
         \A i \in Id : \/ gtimer'[i] = gtimer[i]
                       \/ /\ gtimer'[i] = None
                          /\ Pending(i)' => Granting(proc'[p]) /\ proc'[p].id = i
                       \/ /\ i <= made /\ gtimer'[i] # None
                          /\ Pending(i)' => req'[i].at <= gtimer'[i],
         proc'[p].pc = "insert" => made + Cardinality(Inserting') <= MaxReq, Knows(proc[p])',
         \A i \in Id : Granting(proc[p]) /\ proc[p].id = i =>
                         \/ ~Pending(i)' \/ gtimer'[i] # None
                         \/ Granting(proc'[p]) /\ proc'[p].id = i
  PROVE  Requests'
<1>1. Drawn'
  <2>1. made' + Cardinality(Inserting') <= MaxReq
    BY InsertingLess, InsertingFacts, TypeFacts, LendingAssumption DEF Inv, Requests, Drawn
  <2>2. \A i \in Id : i > made' => req'[i] = None /\ gtimer'[i] = None
    BY TypeFacts DEF Inv, Requests, Drawn, Id
  <2> QED BY <2>1, <2>2 DEF Drawn
<1>2. NotEarly'
  BY DEF Inv, Requests, NotEarly
<1>3. RequestWatched'
  <2> SUFFICES ASSUME up', NEW i \in Id, Pending(i)', gtimer'[i] = None
               PROVE  \E q \in Proc : Granting(proc'[q]) /\ proc'[q].id = i
    BY DEF RequestWatched, Pending, Granting
  <2>1. Pending(i) /\ up
    OBVIOUS
  <2>2. CASE gtimer[i] = None
    <3>1. PICK q \in Proc : Granting(proc[q]) /\ proc[q].id = i
      BY <2>1, <2>2 DEF Inv, Requests, RequestWatched, Pending, Granting
    <3>2. CASE q = p
      BY <3>1, <3>2
    <3>3. CASE q # p
      BY <3>1, <3>3 DEF Moved
    <3> QED BY <3>2, <3>3
  <2>3. CASE gtimer[i] # None
    BY <2>3
  <2> QED BY <2>2, <2>3
<1>4. ASSUME NEW q \in Proc \ {p} PROVE Knows(proc[q])'
  <2>1. proc'[q] = proc[q] /\ Knows(proc[q]) /\ Holds(proc[q])
    BY StateFacts DEF Moved, Inv, Requests
  <2>2. /\ Ending(proc[q]) => proc[q].todo \subseteq Id \X Target
        /\ Granting(proc[q]) \/ proc[q].pc \in {"ungrant", "release", "released"}
             => proc[q].id \in Id
    BY <2>1 DEF Holds, Granting
  <2>3. \A r \in Id \X Target : r[1] \in Id
    OBVIOUS
  <2>4. Ending(proc[q]) => \A r \in proc[q].todo : r[1] \in Id
    BY <2>2, <2>3
  <2> QED BY <2>1, <2>2, <2>4 DEF Knows, Granting, Ending
<1> QED BY <1>1, <1>2, <1>3, <1>4 DEF Requests

-----------------------------------------------------------------------------
(***************************************************************************)
(* What holds as long as handlers do not overlap.                          *)
(***************************************************************************)
LEMMA RightFacts ==
  ASSUME Inv, NEW t \in Target
  PROVE  RightOf(t) \subseteq Right /\ (lease[t] = None => RightOf(t) = {})
BY TypeFacts DEF RightOf, Right, Lease

LEMMA SnapshotFacts ==
  ASSUME Inv
  PROVE  /\ Snapshot = SnapshotOf([t \in Target |-> RightOf(t)])
         /\ [t \in Target |-> RightOf(t)] \in [Target -> SUBSET Right]
         /\ Snapshot \in [Target -> SUBSET Right]
<1>1. [t \in Target |-> RightOf(t)] \in [Target -> SUBSET Right]
  BY RightFacts
<1>2. \A k \in Train : k \in Target
  BY DEF Target
<1>3. Snapshot = SnapshotOf([t \in Target |-> RightOf(t)])
  BY <1>2 DEF Snapshot, SnapshotOf, LesseesByVehicle, TrainLessees
<1>4. ASSUME NEW L \in [Target -> SUBSET Right] PROVE SnapshotOf(L) \in [Target -> SUBSET Right]
  BY <1>2 DEF SnapshotOf
<1> QED BY <1>1, <1>3, <1>4

LEMMA ShownKept ==
  ASSUME NEW m, Shown(m),
         \A t \in Target :
           /\ RightOf(t)' = RightOf(t) \/ (lease'[t] = None /\ Minded(t, now)')
           /\ lease[t] = None /\ Minded(t, now) => lease'[t] = None /\ Minded(t, now)'
  PROVE  Shown(m)'
<1>1. PICK L \in [Target -> SUBSET Right] :
        /\ m = SnapshotOf(L)
        /\ \A t \in Target : L[t] = RightOf(t) \/ (lease[t] = None /\ Minded(t, now))
  BY DEF Shown
<1>2. \A t \in Target : L[t] = RightOf(t)' \/ (lease'[t] = None /\ Minded(t, now)')
  BY <1>1
<1> QED BY <1>1, <1>2 DEF Shown, SnapshotOf

LEMMA MindedAlone ==
  ASSUME NEW p \in Proc, Alone(p)
  PROVE  /\ \A t, x : Minded(t, x) <=> (ByTimer(t, x) \/ ByProc(proc[p], t, x))
         /\ \A t, x : Minded(t, x)' <=> (ByTimer(t, x) \/ ByProc(proc[p], t, x))'
<1>1. \A q \in Proc \ {p} : \A t, x : ~ByProc(proc[q], t, x) /\ ~ByProc(proc[q], t, x)'
  BY DEF Alone, ByProc, Watching
<1> QED BY <1>1 DEF Minded

\* Timers and granted requests that stay do not leave a target.
LEMMA TimersKept ==
  ASSUME UNCHANGED <<ltimer, rtimer>>, \A i \in Id : Granted(i) => req'[i] = req[i]
  PROVE  \A t, x : ByTimer(t, x) => ByTimer(t, x)'
BY DEF ByTimer, Granted, InState

\* Who comes back by x comes back by any later time.
LEMMA LaterTimer ==
  ASSUME Inv, NEW t \in Target, NEW x \in Nat, NEW y \in Nat, x <= y, ByTimer(t, x)
  PROVE  ByTimer(t, y)
<1>1. /\ ltimer[t] # None => ltimer[t] \in Nat
      /\ \A i \in Id : rtimer[i] # None => rtimer[i] \in Nat
  BY TypeFacts, DueFacts
<1> QED BY <1>1 DEF ByTimer

\* Leases, rosters and brakes are minded as before if every target is.
LEMMA MindedKept ==
  ASSUME Inv, up, ~overlap, UNCHANGED <<now, lease>>,
         \A t \in Target :
           /\ lease[t] # None /\ Minded(t, lease[t].exp) => Minded(t, lease[t].exp)'
           /\ lease[t] = None /\ Minded(t, now) => Minded(t, now)'
  PROVE  LeasesMinded' /\ \A m : Shown(m) => Shown(m)'
<1>1. LeasesMinded'
  BY DEF Inv, Serial, LeasesMinded
<1>2. \A t \in Target : RightOf(t)' = RightOf(t)
  BY DEF RightOf
<1>3. ASSUME NEW m, Shown(m) PROVE Shown(m)'
  BY <1>2, <1>3, ShownKept
<1> QED BY <1>1, <1>3

LEMMA SerialStep ==
  ASSUME Inv, NEW p \in Proc, Moved(p), ListedToParties', TakeoversTimed',
         up' /\ ~overlap' =>
           /\ Alone(p) /\ LeasesMinded' /\ BrakeMinded'
           /\ WillRead(proc'[p]) \/ Shown(roster)'
           /\ proc'[p].pc = "publish" => Shown(proc[p].row)'
           /\ Undisturbed(proc[p])'
  PROVE  Serial'
<1>1. ASSUME up', ~overlap'
      PROVE  /\ LeasesMinded' /\ RosterMinded' /\ BrakeMinded'
             /\ \A q \in Proc : Undisturbed(proc[q])'
  <2>1. ASSUME NEW q \in Proc \ {p} PROVE proc'[q].pc = "idle" /\ Undisturbed(proc[q])'
    BY <1>1 DEF Alone, Undisturbed, Ending, Watching
  <2>2. RosterMinded'
    BY <1>1, <2>1 DEF RosterMinded
  <2> QED BY <1>1, <2>1, <2>2
<1> QED BY <1>1 DEF Serial

\* A goroutine starts that has not touched anything yet, or has nothing to do.
LEMMA SerialStart ==
  ASSUME Inv, NEW p \in Proc, Moved(p), proc[p].pc = "idle", up' = up, ~overlap' => ~overlap,
         UNCHANGED <<now, lease, idx, req, roster, ltimer>>,
         \A i \in Id : \/ rtimer'[i] = rtimer[i]
                       \/ /\ rtimer'[i] = None
                          /\ Granted(i) => proc'[p].pc = "release" /\ proc'[p].t = req[i].t,
         \A t \in Target : owed'[t] => owed[t],
         proc'[p].pc # "publish", ~overlap' /\ up => Undisturbed(proc[p])'
  PROVE  Serial'
<1>1. ListedToParties'
  BY DEF Inv, Serial, ListedToParties, ListReceived, StaleKeys
<1>2. ASSUME up', ~overlap'
      PROVE  /\ LeasesMinded' /\ RosterMinded' /\ BrakeMinded'
             /\ \A q \in Proc : Undisturbed(proc[q])'
  <2>0. up /\ ~overlap
    BY <1>2
  <2>1. \A t, x : ByTimer(t, x) => ByTimer(t, x)' \/ ByProc(proc[p], t, x)'
    BY DEF ByTimer, ByProc, Granted, InState
  <2>2. \A q \in Proc \ {p} : \A t, x : ByProc(proc[q], t, x) => ByProc(proc[q], t, x)'
    BY DEF Moved, ByProc, Granted, InState
  <2>3. \A t, x : ~ByProc(proc[p], t, x)
    BY DEF ByProc, Watching
  <2>4. \A t \in Target : \A x : Minded(t, x) => Minded(t, x)'
    BY <2>1, <2>2, <2>3 DEF Minded
  <2>5. LeasesMinded' /\ \A m : Shown(m) => Shown(m)'
    BY <2>0, <2>4, MindedKept
  <2>6. RosterMinded'
    <3>1. (\E q \in Proc : WillRead(proc'[q])) \/ Shown(roster)'
      <4>1. CASE Shown(roster)
        BY <4>1, <2>5
      <4>2. ASSUME NEW q \in Proc, WillRead(proc[q]) PROVE WillRead(proc'[q])
        BY <4>2 DEF Moved, WillRead
      <4> QED BY <4>1, <4>2, <2>0 DEF Inv, Serial, RosterMinded
    <3>2. ASSUME NEW q \in Proc, proc'[q].pc = "publish" PROVE Shown(proc[q].row)'
      <4>1. q # p /\ proc'[q] = proc[q]
        BY <3>2 DEF Moved
      <4>2. Shown(proc[q].row)
        BY <4>1, <3>2, <2>0 DEF Inv, Serial, RosterMinded
      <4>3. PICK m : m = proc[q].row
        OBVIOUS
      <4> QED BY <4>1, <4>2, <4>3, <2>5
    <3> QED BY <3>1, <3>2 DEF RosterMinded
  <2>7. BrakeMinded'
    <3> SUFFICES ASSUME NEW t \in Target, owed'[t], lease'[t] = None
                 PROVE  Minded(t, now)' \/ \E q \in Proc : proc'[q].pc = "expired" /\ proc'[q].t = t
      BY DEF BrakeMinded
    <3>1. CASE Minded(t, now)
      BY <3>1, <2>4
    <3>2. ASSUME NEW q \in Proc, proc[q].pc = "expired", proc[q].t = t
          PROVE  proc'[q].pc = "expired" /\ proc'[q].t = t
      BY <3>2 DEF Moved
    <3> QED BY <3>1, <3>2, <2>0 DEF Inv, Serial, BrakeMinded
  <2>8. ASSUME NEW q \in Proc \ {p} PROVE Undisturbed(proc[q])'
    <3>1. proc'[q] = proc[q] /\ Undisturbed(proc[q]) /\ Holds(proc[q])
      BY <2>0, StateFacts DEF Moved, Inv, Serial
    <3>2. Watching(proc'[q]) <=> Watching(proc[q])
      BY <3>1
    <3>3. Ending(proc'[q]) <=> Ending(proc[q])
      BY <3>1
    <3>4. proc[q].pc \in {"revoke", "disarm", "released"} => ~owed'[proc[q].t]
      BY <3>1 DEF Undisturbed, Holds
    <3>5. proc[q].pc = "released" \/ Watching(proc[q]) => rtimer'[proc[q].id] = None
      BY <3>1 DEF Undisturbed, Holds
    <3> QED BY <3>1, <3>2, <3>3, <3>4, <3>5 DEF Undisturbed, Granted, InState
  <2> QED BY <1>2, <2>5, <2>6, <2>7, <2>8
<1>3. TakeoversTimed'
  BY DEF Inv, Serial, TakeoversTimed, Granted, InState
<1> QED BY <1>1, <1>2, <1>3 DEF Serial

-----------------------------------------------------------------------------
(***************************************************************************)
(* Goroutines that start.                                                  *)
(***************************************************************************)
LEMMA StartFacts ==
  ASSUME Inv, NEW p \in Proc, NEW s \in State, Holds(s), Start(p, s), up' = up
  PROVE  /\ Moved(p) /\ proc'[p] = s /\ proc[p].pc = "idle" /\ up
         /\ overlap' \in BOOLEAN
         /\ Single' /\ (~overlap' => ~overlap)
         /\ ~overlap' /\ s.pc # "idle" => Alone(p)
<1>1. Moved(p) /\ proc'[p] = s
  BY MovedTo DEF Start
<1>2. /\ proc[p].pc = "idle" /\ up
      /\ overlap' = (overlap \/ (Busy # {} /\ proc'[p].pc # "idle"))
  BY <1>1 DEF Start
<1>3. overlap' \in BOOLEAN
  BY <1>2, TypeFacts
<1> QED BY <1>1, <1>2, <1>3, SingleStart

LEMMA StartInv ==
  ASSUME Inv, NEW p \in Proc, NEW s \in State, Holds(s), Start(p, s),
         UNCHANGED <<now, up, redis, roster, ltimer>>,
         s.pc # "publish", s.pc = "insert" => made + Cardinality(Inserting') <= MaxReq,
         calls' \in 0 .. MaxCalls, box' \in User \cup {None},
         gtimer' \in [Id -> Due \cup {None}], rtimer' \in [Id -> Due \cup {None}],
         owed' \in [Target -> BOOLEAN],
         \A i \in Id : \/ gtimer'[i] = gtimer[i]
                       \/ gtimer'[i] = None /\ (Pending(i) => Granting(s) /\ s.id = i),
         \A i \in Id : \/ rtimer'[i] = rtimer[i]
                       \/ /\ rtimer'[i] = None
                          /\ Granted(i) => s.pc = "release" /\ s.t = req[i].t,
         \A t \in Target : owed'[t] => owed[t],
         Knows(s), ~overlap' => Undisturbed(s)'
  PROVE  Inv'
<1>1. /\ Moved(p) /\ proc'[p] = s /\ proc[p].pc = "idle" /\ up
      /\ overlap' \in BOOLEAN
      /\ Single' /\ (~overlap' => ~overlap)
  BY StartFacts
<1>2. Types'
  BY <1>1, TypeFacts, TypesStep DEF redis
<1>3. Requests'
  <2>1. \A i \in Id : Pending(i)' <=> Pending(i)
    BY DEF Pending, InState, redis
  <2>2. \A i \in Id : /\ i > made => req'[i] = None
                      /\ Pending(i)' => Pending(i) /\ req'[i] = req[i]
    BY <2>1 DEF Inv, Requests, Drawn, redis
  <2>3. \A i \in Id : \/ gtimer'[i] = gtimer[i]
                      \/ /\ gtimer'[i] = None
                         /\ Pending(i)' => Granting(proc'[p]) /\ proc'[p].id = i
    BY <1>1, <2>1
  <2>4. Knows(proc[p])'
    BY <1>1 DEF Knows, Pending, InState, redis
  <2>5. ~Granting(proc[p])
    BY <1>1 DEF Granting
  <2>6. /\ UNCHANGED <<made, now>> /\ (up' => up)
        /\ proc'[p].pc = "insert" => made + Cardinality(Inserting') <= MaxReq
    BY <1>1 DEF redis
  <2> QED BY <1>1, <2>2, <2>3, <2>4, <2>5, <2>6, RequestsStep
<1>4. Serial'
  <2>1. ~overlap' /\ up => Undisturbed(proc[p])'
    BY <1>1
  <2>2. UNCHANGED <<now, lease, idx, req, roster, ltimer>>
    BY DEF redis
  <2> QED BY <1>1, <2>1, <2>2, SerialStart
<1> QED BY <1>1, <1>2, <1>3, <1>4 DEF Inv

\* A goroutine with nothing to do.
LEMMA IdleKnows == Knows(Idle) /\ Undisturbed(Idle) /\ Undisturbed(Idle)'
BY IdleOK DEF Knows, Undisturbed

LEMMA StartIdleInv ==
  ASSUME Inv, NEW p \in Proc, Start(p, Idle),
         UNCHANGED <<now, up, redis, roster, ltimer, owed>>,
         calls' \in 0 .. MaxCalls, box' \in User \cup {None},
         gtimer' \in [Id -> Due \cup {None}], rtimer' \in [Id -> Due \cup {None}],
         \A i \in Id : gtimer'[i] = gtimer[i] \/ (gtimer'[i] = None /\ ~Pending(i)),
         \A i \in Id : rtimer'[i] = rtimer[i] \/ (rtimer'[i] = None /\ ~Granted(i))
  PROVE  Inv'
<1>1. PICK s \in State : s = Idle
  BY IdleOK
<1>2. Holds(s) /\ s.pc = "idle" /\ Knows(s) /\ Undisturbed(s)' /\ Start(p, s)
  BY <1>1, IdleOK, IdleKnows
<1>3. owed' \in [Target -> BOOLEAN] /\ \A t \in Target : owed'[t] => owed[t]
  BY TypeFacts
<1> QED BY <1>2, <1>3, StartInv

LEMMA RevokeInv ==
  ASSUME Inv, NEW p \in Proc, NEW t \in Target, Revoke(p, t), calls' \in 0 .. MaxCalls
  PROVE  Inv'
<1>1. PICK s \in State : s = [Idle EXCEPT !.pc = "revoke", !.t = t]
  BY IdleOK DEF Idle, State, Pcs, Rows
<1>2. s.pc = "revoke" /\ s.t = t /\ s.then = "idle"
  BY <1>1 DEF Idle
<1>3. Holds(s) /\ Knows(s)
  BY <1>2 DEF Holds, Knows, Watching, Ending, Granting
<1>4. owed' = [owed EXCEPT ![t] = FALSE]
  BY DEF Revoke, StopLeasedTarget
<1>5. Undisturbed(s)'
  BY <1>2, <1>4, TypeFacts DEF Undisturbed, Watching, Ending
<1>6. owed' \in [Target -> BOOLEAN] /\ \A u \in Target : owed'[u] => owed[u]
  BY <1>4, TypeFacts
<1>7. /\ UNCHANGED <<now, up, redis, roster, ltimer, gtimer, rtimer, box>> /\ Start(p, s)
  BY <1>1 DEF Revoke, timers
<1> QED BY <1>2, <1>3, <1>5, <1>6, <1>7, TypeFacts, StartInv

LEMMA UpdateInv ==
  ASSUME Inv, NEW p \in Proc, NEW t \in Target, calls' \in 0 .. MaxCalls,
         \/ \E l \in Limit : UpdateSpeedLimit(p, t, l)
         \/ \E d \in Duration : UpdateDuration(p, t, d)
  PROVE  Inv'
<1>1. /\ lease[t] # None
      /\ UNCHANGED <<now, up, redis, roster, ltimer, gtimer, rtimer, box, owed>>
  BY DEF UpdateSpeedLimit, UpdateDuration, timers
<1>2. lease[t] \in Lease
  BY <1>1, TypeFacts
<1>3. PICK row \in Lease, then \in {"read", "arm"} :
        /\ row.to = lease[t].to /\ (then = "read" => row.exp = lease[t].exp)
        /\ Start(p, [Idle EXCEPT !.pc = "update", !.t = t, !.then = then, !.row = row])
  <2>1. ASSUME NEW l \in Limit, UpdateSpeedLimit(p, t, l)
        PROVE  \E row \in Lease, then \in {"read", "arm"} :
                 /\ row.to = lease[t].to /\ (then = "read" => row.exp = lease[t].exp)
                 /\ Start(p, [Idle EXCEPT !.pc = "update", !.t = t, !.then = then, !.row = row])
    <3>1. /\ [lease[t] EXCEPT !.limit = l] \in Lease
          /\ [lease[t] EXCEPT !.limit = l].to = lease[t].to
          /\ [lease[t] EXCEPT !.limit = l].exp = lease[t].exp
      BY <1>2 DEF Lease
    <3> QED BY <2>1, <3>1 DEF UpdateSpeedLimit
  <2>2. ASSUME NEW d \in Duration, UpdateDuration(p, t, d)
        PROVE  \E row \in Lease, then \in {"read", "arm"} :
                 /\ row.to = lease[t].to /\ (then = "read" => row.exp = lease[t].exp)
                 /\ Start(p, [Idle EXCEPT !.pc = "update", !.t = t, !.then = then, !.row = row])
    <3>1. now + d \in Due
      BY DueFacts, TypeFacts
    <3>2. /\ [lease[t] EXCEPT !.exp = now + d] \in Lease
          /\ [lease[t] EXCEPT !.exp = now + d].to = lease[t].to
      BY <1>2, <3>1 DEF Lease
    <3> QED BY <2>2, <3>2 DEF UpdateDuration
  <2> QED BY <2>1, <2>2
<1>4. PICK s \in State : s = [Idle EXCEPT !.pc = "update", !.t = t, !.then = then, !.row = row]
  BY IdleOK DEF Idle, State, Pcs, Rows
<1>5. s.pc = "update" /\ s.t = t /\ s.then = then /\ s.row = row
  BY <1>4 DEF Idle
<1>6. Holds(s) /\ Knows(s)
  BY <1>5 DEF Holds, Knows, Watching, Ending, Granting
<1>7. Undisturbed(s)'
  BY <1>1, <1>3, <1>5 DEF Undisturbed, Watching, Ending, redis
<1>8. Start(p, s)
  BY <1>3, <1>4
<1> QED BY <1>1, <1>5, <1>6, <1>7, <1>8, TypeFacts, StartInv

LEMMA ListLeasesInv ==
  ASSUME Inv, NEW p \in Proc, NEW u \in User \cup {Owner}, ListLeases(p, u),
         calls' \in 0 .. MaxCalls
  PROVE  Inv'
<1>1. StaleKeys(u) \subseteq Target /\ \A t \in StaleKeys(u) : lease[t] = None
  BY TypeFacts DEF StaleKeys
<1>2. PICK keys \in SUBSET Target : keys = StaleKeys(u)
  BY <1>1
<1>3. PICK s \in State : s = [Idle EXCEPT !.pc = "clean", !.id = u, !.todo = keys]
  BY IdleOK DEF Idle, State, Pcs, Rows
<1>4. s.pc = "clean" /\ s.id = u /\ s.todo = keys
  BY <1>3 DEF Idle
<1>5. Holds(s) /\ Knows(s)
  BY <1>4 DEF Holds, Knows, Watching, Ending, Granting
<1>6. UNCHANGED <<now, up, redis, roster, ltimer, gtimer, rtimer, box, owed>> /\ Start(p, s)
  BY <1>2, <1>3 DEF ListLeases, timers
<1>7. Undisturbed(s)'
  BY <1>1, <1>2, <1>4, <1>6 DEF Undisturbed, Watching, Ending, redis
<1> QED BY <1>4, <1>5, <1>6, <1>7, TypeFacts, StartInv

LEMMA LoadPendingInv ==
  ASSUME Inv, NEW p \in Proc, NEW i \in Id, LoadPending(p, i), calls' \in 0 .. MaxCalls
  PROVE  Inv'
<1>1. Pending(i) /\ req[i] \in Request
  BY TypeFacts DEF LoadPending, Pending, InState
<1>2. PICK t \in Target : t = req[i].t
  BY <1>1 DEF Request
<1>3. PICK s \in State : s = [Idle EXCEPT !.pc = "decide", !.id = i, !.t = t]
  BY IdleOK DEF Idle, State, Pcs, Rows
<1>4. s.pc = "decide" /\ s.id = i /\ s.t = t
  BY <1>3 DEF Idle
<1>5. i <= made
  BY <1>1, TypeFacts DEF Inv, Requests, Drawn, Pending, InState, Id
<1>6. Holds(s) /\ Knows(s)
  BY <1>4, <1>5 DEF Holds, Knows, Watching, Ending, Granting
<1>7. UNCHANGED <<now, up, redis, roster, ltimer, gtimer, rtimer, box, owed>> /\ Start(p, s)
  BY <1>2, <1>3 DEF LoadPending, timers
<1>8. Undisturbed(s)'
  BY <1>1, <1>4, <1>7 DEF Undisturbed, Watching, Ending, Granted, Pending, InState, redis
<1> QED BY <1>4, <1>6, <1>7, <1>8, TypeFacts, StartInv

LEMMA AutoGrantInv ==
  ASSUME Inv, NEW p \in Proc, NEW i \in Id, AutoGrant(p, i), calls' \in 0 .. MaxCalls
  PROVE  Inv'
<1>1. /\ gtimer[i] # None /\ gtimer[i] <= now /\ gtimer' = [gtimer EXCEPT ![i] = None]
      /\ UNCHANGED <<now, up, box, redis, roster, ltimer, rtimer, owed>>
  BY DEF AutoGrant
<1>2. /\ gtimer' \in [Id -> Due \cup {None}] /\ gtimer'[i] = None
      /\ \A j \in Id \ {i} : gtimer'[j] = gtimer[j]
  BY <1>1, TypeFacts
<1>3. CASE ~Pending(i)
  <2>1. Start(p, Idle)
    BY <1>3 DEF AutoGrant, Pending
  <2>2. \A j \in Id : gtimer'[j] = gtimer[j] \/ (gtimer'[j] = None /\ ~Pending(j))
    BY <1>2, <1>3
  <2> QED BY <1>1, <1>2, <2>1, <2>2, TypeFacts, StartIdleInv
<1>4. CASE Pending(i)
  <2>1. req[i] \in Request /\ req[i].t \in Target /\ req[i].sig \in User
    BY <1>4, TypeFacts DEF Pending, InState, Request
  <2>2. now \in Due /\ now + Hold + Slack \in Due
    BY DueFacts, TypeFacts
  <2>3. PICK row \in Request : row = [st |-> "granted", t |-> req[i].t, sig |-> req[i].sig,
                                     at |-> now, until |-> now + Hold + Slack]
    BY <2>1, <2>2 DEF Request
  <2>4. PICK s \in State : s = [Idle EXCEPT !.pc = "grant", !.id = i, !.t = req[i].t, !.row = row]
    BY <2>1, IdleOK DEF Idle, State, Pcs, Rows
  <2>5. s.pc = "grant" /\ s.id = i /\ s.t = req[i].t /\ s.row = row /\ s.old = FALSE
    BY <2>4 DEF Idle
  <2>6. i <= made /\ req[i].at <= now
    <3>1. req[i].at \in Nat /\ req[i].at <= gtimer[i] /\ gtimer[i] \in Nat
      BY <1>1, <1>4, <2>1, TypeFacts, DueFacts DEF Inv, Requests, NotEarly, Request
    <3> QED BY <1>1, <1>4, <3>1, TypeFacts DEF Inv, Requests, Drawn, Pending, InState, Id
  <2>7. Holds(s)
    BY <2>1, <2>3, <2>5, TypeFacts DEF Holds, Watching, Ending
  <2>8. Knows(s)
    BY <2>5, <2>6 DEF Knows, Ending, Granting
  <2>9. Undisturbed(s)'
    <3>1. ~Granted(i)'
      BY <1>1, <1>4 DEF Granted, Pending, InState, redis
    <3>2. now' <= s.row.at + (IF s.old THEN 1 ELSE 0)
      BY <1>1, <2>3, <2>5, TypeFacts
    <3> QED BY <2>5, <3>1, <3>2 DEF Undisturbed, Watching, Ending
  <2>10. Start(p, s)
    BY <1>4, <2>3, <2>4 DEF AutoGrant, Pending
  <2>11. \A j \in Id : \/ gtimer'[j] = gtimer[j]
                       \/ gtimer'[j] = None /\ (Pending(j) => Granting(s) /\ s.id = j)
    BY <1>2, <2>5 DEF Granting
  <2> QED BY <1>1, <1>2, <2>5, <2>7, <2>8, <2>9, <2>10, <2>11, TypeFacts, StartInv
<1> QED BY <1>3, <1>4

LEMMA ReleasingFacts ==
  ASSUME NEW i \in Id, NEW t \in Target, NEW todo \in SUBSET (Id \X Target)
  PROVE  /\ Releasing(i, t, todo) \in State /\ Holds(Releasing(i, t, todo))
         /\ Releasing(i, t, todo).pc = "release" /\ Releasing(i, t, todo).id = i
         /\ Releasing(i, t, todo).t = t /\ Releasing(i, t, todo).todo = todo
<1>1. PICK s : s = Releasing(i, t, todo)
  OBVIOUS
<1>2. s.pc = "release" /\ s.id = i /\ s.t = t /\ s.todo = todo /\ s \in State
  BY <1>1, IdleOK DEF Releasing, Idle, State, Pcs, Rows
<1>3. Holds(s)
  BY <1>2 DEF Holds, Watching, Ending
<1> QED BY <1>1, <1>2, <1>3

LEMMA GrantedFacts ==
  ASSUME Inv, NEW i \in Id, Granted(i)
  PROVE  req[i].t \in Target /\ i <= made /\ ~Pending(i)
<1>1. req[i] \in Request /\ req[i] # None
  BY TypeFacts DEF Granted, InState
<1> QED BY <1>1, TypeFacts DEF Granted, Pending, InState, Request, Inv, Requests, Drawn, Id

\* A granted request is taken back, by the signalman or by its timer.
LEMMA ReleaseInv ==
  ASSUME Inv, NEW p \in Proc, NEW i \in Id, Release(p, i) \/ ReleaseFires(p, i),
         calls' \in 0 .. MaxCalls
  PROVE  Inv'
<1>1. /\ UNCHANGED <<now, up, box, redis, roster, ltimer, gtimer, owed>>
      /\ rtimer' = rtimer \/ rtimer' = [rtimer EXCEPT ![i] = None]
  BY DEF Release, ReleaseFires, timers
<1>2. /\ rtimer' \in [Id -> Due \cup {None}] /\ rtimer'[i] \in {None, rtimer[i]}
      /\ \A j \in Id \ {i} : rtimer'[j] = rtimer[j]
  BY <1>1, TypeFacts
<1>3. CASE ~Granted(i)
  <2>1. Start(p, Idle)
    BY <1>3 DEF Release, ReleaseFires, Granted
  <2>2. \A j \in Id : rtimer'[j] = rtimer[j] \/ (rtimer'[j] = None /\ ~Granted(j))
    BY <1>2, <1>3
  <2> QED BY <1>1, <1>2, <2>1, <2>2, TypeFacts, StartIdleInv
<1>4. CASE Granted(i)
  <2>1. PICK t \in Target : t = req[i].t
    BY <1>4, GrantedFacts
  <2>2. PICK s \in State : s = Releasing(i, t, {})
    BY ReleasingFacts
  <2>3. Holds(s) /\ s.pc = "release" /\ s.id = i /\ s.t = t /\ s.todo = {}
    BY <2>2, ReleasingFacts
  <2>4. ~Pending(i) /\ i <= made
    BY <1>4, GrantedFacts
  <2>5. Knows(s)
    BY <2>3, <2>4 DEF Knows, Ending, Granting
  <2>6. Undisturbed(s)'
    BY <1>1, <2>1, <2>3 DEF Undisturbed, Watching, Ending, redis
  <2>7. Start(p, s)
    BY <1>4, <2>1, <2>2 DEF Release, ReleaseFires, Granted
  <2>8. \A j \in Id : \/ rtimer'[j] = rtimer[j]
                      \/ /\ rtimer'[j] = None
                         /\ Granted(j) => s.pc = "release" /\ s.t = req[j].t
    BY <1>2, <2>1, <2>3
  <2> QED BY <1>1, <1>2, <2>3, <2>5, <2>6, <2>7, <2>8, TypeFacts, StartInv
<1> QED BY <1>3, <1>4

\* The interlocking has a new signalman, or none.
LEMMA BoxInv ==
  ASSUME Inv, NEW p \in Proc, Leave(p) \/ \E s \in User : Join(p, s), calls' \in 0 .. MaxCalls
  PROVE  Inv'
<1>1. /\ UNCHANGED <<now, up, redis, roster, ltimer, gtimer, rtimer, owed>>
      /\ box' \in User \cup {None} /\ (Start(p, Idle) \/ EndShift(p, box))
  BY DEF Leave, Join, timers
<1>2. CASE Start(p, Idle)
  BY <1>1, <1>2, TypeFacts, StartIdleInv
<1>3. CASE ~Start(p, Idle)
  <2>1. PICK rows : rows = GrantedTo(box)
    OBVIOUS
  <2>2. Start(p, [Idle EXCEPT !.pc = "next", !.todo = rows])
    BY <1>1, <1>3, <2>1 DEF EndShift
  <2>3. \A i \in Id : Granted(i) => req[i].t \in Target /\ i <= made /\ ~Pending(i)
    BY GrantedFacts
  <2>4. \A r \in rows : \E i \in Id : Granted(i) /\ r = <<i, req[i].t>>
    BY <2>1 DEF GrantedTo, Granted
  <2>5. \A r \in rows : /\ r \in Id \X Target /\ r[1] <= made /\ ~Pending(r[1])
                        /\ req[r[1]].t = r[2]
    BY <2>3, <2>4
  <2>6. PICK s \in State : s = [Idle EXCEPT !.pc = "next", !.todo = rows]
    BY <2>5, IdleOK DEF Idle, State, Pcs, Rows
  <2>7. s.pc = "next" /\ s.todo = rows
    BY <2>6 DEF Idle
  <2>8. Holds(s) /\ Knows(s)
    BY <2>5, <2>7 DEF Holds, Knows, Watching, Ending, Granting
  <2>9. Undisturbed(s)'
    BY <1>1, <2>5, <2>7 DEF Undisturbed, Watching, Ending, redis
  <2> QED BY <1>1, <2>2, <2>6, <2>7, <2>8, <2>9, TypeFacts, StartInv
<1> QED BY <1>2, <1>3

LEMMA RequestTakeoverInv ==
  ASSUME Inv, NEW p \in Proc, NEW t \in Target, NEW u \in User, RequestTakeover(p, t, u),
         calls' \in 0 .. MaxCalls
  PROVE  Inv'
<1>1. PICK s \in State : s = [Idle EXCEPT !.pc = "insert", !.t = t, !.id = u]
  BY IdleOK DEF Idle, State, Pcs, Rows
<1>2. s.pc = "insert" /\ s.t = t /\ s.id = u
  BY <1>1 DEF Idle
<1>3. Holds(s) /\ Knows(s)
  BY <1>2 DEF Holds, Knows, Watching, Ending, Granting
<1>4. Undisturbed(s)'
  BY <1>2 DEF Undisturbed, Watching, Ending
<1>5. UNCHANGED <<now, up, redis, roster, ltimer, gtimer, rtimer, box, owed>> /\ Start(p, s)
  BY <1>1 DEF RequestTakeover, timers
<1>6. made + Cardinality(Inserting') <= MaxReq
  <2>1. Moved(p) /\ proc'[p] = s /\ proc[p].pc = "idle"
    BY <1>3, <1>5, StartFacts
  <2>2. Inserting' = Inserting \cup {p} /\ p \notin Inserting
    BY <1>2, <2>1 DEF Inserting, Moved
  <2>3. Cardinality(Inserting') = Cardinality(Inserting) + 1
    BY <2>2, InsertingFacts, FS_AddElement
  <2>4. {q \in Busy : proc[q].pc = "insert"} = Inserting
    BY DEF Busy, Inserting
  <2>5. made + Cardinality(Inserting) < MaxReq
    BY <2>4 DEF RequestTakeover
  <2> QED BY <2>3, <2>5, InsertingFacts, TypeFacts, LendingAssumption
<1> QED BY <1>2, <1>3, <1>4, <1>5, <1>6, TypeFacts, StartInv

\* Who finds a lease, in terms of the indexes.
LEMMA ListedFacts ==
  /\ ListedToParties <=>
       (~overlap => \A t \in Target : lease[t] # None => t \in idx[lease[t].to] \cap idx[Owner])
  /\ ListedToParties' <=>
       (~overlap' => \A t \in Target : lease'[t] # None => t \in idx'[lease'[t].to] \cap idx'[Owner])
BY DEF ListedToParties, ListReceived, StaleKeys

LEMMA CreateInv ==
  ASSUME Inv, NEW p \in Proc, NEW t \in Target, NEW u \in User, NEW l \in Limit,
         NEW d \in Duration, Create(p, t, u, l, d), calls' \in 0 .. MaxCalls
  PROVE  Inv'
<1>1. PICK x \in Due : x = now + d
  BY DueFacts, TypeFacts
<1>2. PICK row \in Lease : row = [to |-> u, limit |-> l, exp |-> x, src |-> "manual"]
  BY DEF Lease
<1>3. /\ lease[t] = None /\ lease' = [lease EXCEPT ![t] = row] /\ idx' = Indexed(idx, t, u)
      /\ owed' = [owed EXCEPT ![t] = TRUE]
      /\ UNCHANGED <<now, up, box, req, pending, made, roster, ltimer, gtimer, rtimer>>
  BY <1>1, <1>2 DEF Create, CreateNX, timers
<1>4. PICK s \in State : s = [Idle EXCEPT !.pc = "arm", !.t = t, !.row = x, !.then = "read"]
  BY IdleOK DEF Idle, State, Pcs, Rows
<1>5. s.pc = "arm" /\ s.t = t /\ s.row = x /\ s.then = "read"
  BY <1>4 DEF Idle
<1>6. Holds(s)
  BY <1>5 DEF Holds, Watching, Ending
<1>7. /\ Moved(p) /\ proc'[p] = s /\ proc[p].pc = "idle" /\ up /\ overlap' \in BOOLEAN
      /\ Single' /\ (~overlap' => ~overlap /\ Alone(p))
  <2>1. Start(p, s)
    BY <1>1, <1>4 DEF Create
  <2> QED BY <1>3, <1>5, <1>6, <2>1, StartFacts
<1>8. /\ lease' \in [Target -> Lease \cup {None}] /\ lease'[t] = row
      /\ \A k \in Target \ {t} : lease'[k] = lease[k]
  BY <1>3, TypeFacts
<1>9. /\ idx' \in [User \cup {Owner} -> SUBSET Target]
      /\ t \in idx'[u] /\ t \in idx'[Owner]
      /\ \A w \in User \cup {Owner} : idx[w] \subseteq idx'[w]
  BY <1>3, TypeFacts DEF Indexed
<1>10. /\ owed' \in [Target -> BOOLEAN] /\ \A k \in Target \ {t} : owed'[k] = owed[k]
  BY <1>3, TypeFacts
<1>11. Types'
  BY <1>3, <1>7, <1>8, <1>9, <1>10, TypeFacts, TypesStep
<1>12. Requests'
  <2>1. \A i \in Id : Pending(i)' <=> Pending(i)
    BY <1>3 DEF Pending, InState
  <2>2. \A i \in Id : /\ i > made => req'[i] = None
                      /\ Pending(i)' => Pending(i) /\ req'[i] = req[i]
    BY <1>3, <2>1 DEF Inv, Requests, Drawn
  <2>3. Knows(proc[p])' /\ ~Granting(proc[p]) /\ proc'[p].pc # "insert"
    BY <1>5, <1>7 DEF Knows, Granting, Ending
  <2> QED BY <1>3, <1>7, <2>2, <2>3, RequestsStep
<1>13. Serial'
  <2>1. ListedToParties'
    <3>1. row.to = u
      BY <1>2
    <3> QED BY <1>7, <1>8, <1>9, <3>1, TypeFacts, ListedFacts DEF Inv, Serial, Lease
  <2>2. ASSUME up', ~overlap'
        PROVE  LeasesMinded' /\ BrakeMinded' /\ WillRead(proc'[p]) /\ Undisturbed(proc[p])'
    <3>1. Alone(p) /\ ~overlap
      BY <1>7, <2>2
    <3>2. \A k, y : Minded(k, y) => ByTimer(k, y)
      BY <1>7, <3>1, MindedAlone DEF ByProc, Watching
    <3>3. \A k, y : ByTimer(k, y) => ByTimer(k, y)'
      BY <1>3, TimersKept
    <3>4. \A k, y : Minded(k, y) => Minded(k, y)'
      BY <3>1, <3>2, <3>3, MindedAlone
    <3>5. row.exp = x /\ x <= x
      BY <1>2, DueFacts
    <3>6. LeasesMinded'
      <4>1. Minded(t, x)'
        BY <1>5, <1>7, <3>5 DEF Minded, ByProc
      <4> QED BY <1>7, <1>8, <3>1, <3>4, <3>5, <4>1 DEF LeasesMinded, Inv, Serial
    <3>7. BrakeMinded'
      <4>1. \A q \in Proc : proc[q].pc # "expired"
        BY <1>7, <3>1 DEF Alone
      <4> QED BY <1>3, <1>7, <1>8, <1>10, <3>1, <3>4, <4>1, NoneFacts DEF BrakeMinded, Inv, Serial
    <3>8. Undisturbed(proc[p])'
      BY <1>5, <1>7, <1>8, <3>5, NoneFacts DEF Undisturbed, Watching, Ending
    <3> QED BY <1>5, <1>7, <3>6, <3>7, <3>8 DEF WillRead
  <2>3. TakeoversTimed'
    BY <1>3, <1>7 DEF Inv, Serial, TakeoversTimed, Granted, InState
  <2> QED BY <1>5, <1>7, <2>1, <2>2, <2>3, SerialStep
<1> QED BY <1>7, <1>11, <1>12, <1>13 DEF Inv

LEMMA ExpiryFiresInv ==
  ASSUME Inv, NEW p \in Proc, NEW t \in Target, ExpiryFires(p, t), calls' \in 0 .. MaxCalls
  PROVE  Inv'
<1>1. /\ ltimer' = [ltimer EXCEPT ![t] = None]
      /\ UNCHANGED <<now, up, box, lease, idx, req, pending, made, roster, gtimer, rtimer, owed>>
  BY DEF ExpiryFires, redis
<1>2. /\ ltimer' \in [Target -> Due \cup {None}]
      /\ \A k \in Target \ {t} : ltimer'[k] = ltimer[k]
  BY <1>1, TypeFacts
<1>3. PICK s \in State :
        /\ Start(p, s) /\ s.t = t /\ s.then = "idle"
        /\ \/ lease[t] # None /\ s.pc = "arm" /\ s.row = lease[t].exp
           \/ lease[t] = None /\ s.pc = "expired"
  <2>1. CASE lease[t] # None
    <3>1. lease[t] \in Lease
      BY <2>1, TypeFacts
    <3>2. PICK x \in Due : x = lease[t].exp
      BY <3>1 DEF Lease
    <3>3. PICK s \in State : s = [Idle EXCEPT !.pc = "arm", !.t = t, !.row = x]
      BY IdleOK DEF Idle, State, Pcs, Rows
    <3>4. s.pc = "arm" /\ s.t = t /\ s.row = x /\ s.then = "idle"
      BY <3>3 DEF Idle
    <3> QED BY <2>1, <3>2, <3>3, <3>4 DEF ExpiryFires
  <2>2. CASE lease[t] = None
    <3>1. PICK s \in State : s = [Idle EXCEPT !.pc = "expired", !.t = t]
      BY IdleOK DEF Idle, State, Pcs, Rows
    <3>2. s.pc = "expired" /\ s.t = t /\ s.then = "idle"
      BY <3>1 DEF Idle
    <3> QED BY <2>2, <3>1, <3>2 DEF ExpiryFires
  <2> QED BY <2>1, <2>2
<1>4. Holds(s)
  BY <1>3, TypeFacts DEF Holds, Watching, Ending, Lease
<1>5. /\ Moved(p) /\ proc'[p] = s /\ proc[p].pc = "idle" /\ up /\ overlap' \in BOOLEAN
      /\ Single' /\ (~overlap' => ~overlap /\ Alone(p))
  BY <1>1, <1>3, <1>4, StartFacts
<1>6. Types'
  BY <1>1, <1>2, <1>5, TypeFacts, TypesStep
<1>7. Requests'
  <2>1. \A i \in Id : Pending(i)' <=> Pending(i)
    BY <1>1 DEF Pending, InState
  <2>2. \A i \in Id : /\ i > made => req'[i] = None
                      /\ Pending(i)' => Pending(i) /\ req'[i] = req[i]
    BY <1>1, <2>1 DEF Inv, Requests, Drawn
  <2>3. Knows(proc[p])' /\ ~Granting(proc[p]) /\ proc'[p].pc # "insert"
    BY <1>3, <1>5 DEF Knows, Granting, Ending
  <2> QED BY <1>1, <1>5, <2>2, <2>3, RequestsStep
<1>8. Serial'
  <2>1. ListedToParties'
    BY <1>1, <1>5, ListedFacts DEF Inv, Serial
  <2>2. TakeoversTimed'
    BY <1>1, <1>5 DEF Inv, Serial, TakeoversTimed, Granted, InState
  <2>3. ASSUME up', ~overlap'
        PROVE  /\ LeasesMinded' /\ BrakeMinded' /\ Undisturbed(proc[p])'
               /\ WillRead(proc'[p]) \/ Shown(roster)'
    <3>1. Alone(p) /\ ~overlap
      BY <1>5, <2>3
    <3>2. \A k, y : Minded(k, y) => ByTimer(k, y)
      BY <1>5, <3>1, MindedAlone DEF ByProc, Watching
    <3>3. \A k \in Target \ {t} : \A y : ByTimer(k, y) => ByTimer(k, y)'
      BY <1>1, <1>2 DEF ByTimer, Granted, InState
    <3>4. \A k \in Target \ {t} : \A y : Minded(k, y) => Minded(k, y)'
      BY <3>1, <3>2, <3>3, MindedAlone
    <3>5. lease[t] # None => Minded(t, lease[t].exp)'
      <4>1. lease[t] # None => lease[t].exp <= lease[t].exp
        BY TypeFacts, DueFacts DEF Lease
      <4> QED BY <1>1, <1>3, <1>5, <4>1 DEF Minded, ByProc
    <3>6. LeasesMinded'
      BY <1>1, <1>5, <3>1, <3>4, <3>5 DEF LeasesMinded, Inv, Serial
    <3>7. BrakeMinded'
      <4>1. \A q \in Proc : proc[q].pc # "expired"
        BY <1>5, <3>1 DEF Alone
      <4>2. ASSUME NEW k \in Target \ {t}, owed'[k], lease'[k] = None PROVE Minded(k, now)'
        BY <1>1, <1>5, <3>1, <3>4, <4>1, <4>2 DEF BrakeMinded, Inv, Serial
      <4> QED BY <1>1, <1>3, <1>5, <4>2 DEF BrakeMinded
    <3>8. Undisturbed(proc[p])'
      <4>1. lease[t] # None => lease[t].exp <= lease[t].exp
        BY TypeFacts, DueFacts DEF Lease
      <4> QED BY <1>1, <1>3, <1>5, <4>1 DEF Undisturbed, Watching, Ending
    <3>9. lease[t] # None => Shown(roster)'
      <4>1. Shown(roster)
        BY <1>5, <3>1 DEF RosterMinded, Inv, Serial, WillRead, Alone
      <4>2. \A k \in Target : RightOf(k)' = RightOf(k)
        BY <1>1 DEF RightOf
      <4>3. PICK m : m = roster
        OBVIOUS
      <4>4. ASSUME lease[t] # None PROVE Shown(m)'
        BY <1>1, <3>4, <4>1, <4>2, <4>3, <4>4, ShownKept
      <4> QED BY <1>1, <4>3, <4>4
    <3> QED BY <1>3, <1>5, <3>6, <3>7, <3>8, <3>9 DEF WillRead
  <2> QED BY <1>3, <1>5, <2>1, <2>2, <2>3, SerialStep
<1> QED BY <1>5, <1>6, <1>7, <1>8 DEF Inv

-----------------------------------------------------------------------------
(***************************************************************************)
(* Goroutines that run.                                                    *)
(***************************************************************************)
LEMMA StepFacts ==
  ASSUME Inv, NEW p \in Proc, NEW s \in State, Holds(s), NEW from, from # "idle",
         Step(p, from, s)
  PROVE  /\ Moved(p) /\ proc'[p] = s /\ proc[p].pc = from
         /\ UNCHANGED <<now, up, box, overlap>> /\ up
         /\ Single' /\ (~overlap' => ~overlap /\ Alone(p))
<1>1. Moved(p) /\ proc'[p] = s /\ proc[p].pc = from /\ UNCHANGED <<now, up, box, overlap>>
  BY MovedTo DEF Step
<1> QED BY <1>1, SingleStep

\* A goroutine that runs alone, before its step.
LEMMA SerialFacts ==
  ASSUME Inv, NEW p \in Proc, up, ~overlap, Alone(p)
  PROVE  /\ LeasesMinded /\ BrakeMinded /\ Undisturbed(proc[p])
         /\ WillRead(proc[p]) \/ Shown(roster)
         /\ proc[p].pc = "publish" => Shown(proc[p].row)
<1>1. \A q \in Proc \ {p} : ~WillRead(proc[q])
  BY DEF Alone, WillRead
<1> QED BY <1>1 DEF Inv, Serial, RosterMinded

\* The brakes of all targets but t are minded as before.
LEMMA BrakesKept ==
  ASSUME Inv, NEW p \in Proc, up, ~overlap, Alone(p), NEW T, UNCHANGED now,
         \A t \in Target \ T : /\ owed'[t] /\ lease'[t] = None => owed[t] /\ lease[t] = None
                               /\ Minded(t, now) => Minded(t, now)'
                               /\ ~(proc[p].pc = "expired" /\ proc[p].t = t),
         \A t \in Target \cap T : owed'[t] /\ lease'[t] = None => Minded(t, now)'
  PROVE  BrakeMinded'
<1>1. \A q \in Proc \ {p} : proc[q].pc # "expired"
  BY DEF Alone
<1>2. BrakeMinded
  BY SerialFacts
<1> QED BY <1>1, <1>2 DEF BrakeMinded

\* The requests when a step leaves them and their timers alone.
LEMMA RequestsKept ==
  ASSUME Inv, NEW p \in Proc, Moved(p), UNCHANGED <<made, now, req, gtimer>>, up' => up,
         proc'[p].pc # "insert", Knows(proc[p])',
         Granting(proc[p]) => Granting(proc'[p]) /\ proc'[p].id = proc[p].id
  PROVE  Requests'
<1>1. \A i \in Id : Pending(i)' <=> Pending(i)
  BY DEF Pending, InState
<1>2. \A i \in Id : /\ i > made => req'[i] = None
                    /\ Pending(i)' => Pending(i) /\ req'[i] = req[i]
  BY <1>1 DEF Inv, Requests, Drawn
<1> QED BY <1>2, RequestsStep

\* A step that changes no lease and leaves no target unminded.
LEMMA SerialKept ==
  ASSUME Inv, NEW p \in Proc, Moved(p), up, ~overlap' => ~overlap /\ Alone(p),
         UNCHANGED <<now, up, lease>>, ListedToParties', TakeoversTimed',
         \A t \in Target : owed'[t] => owed[t], proc[p].pc # "expired",
         ~overlap' =>
           /\ \A t \in Target :
                /\ lease[t] # None /\ Minded(t, lease[t].exp) => Minded(t, lease[t].exp)'
                /\ lease[t] = None /\ Minded(t, now) => Minded(t, now)'
           /\ \/ WillRead(proc'[p]) \/ Shown(roster)'
              \/ ~WillRead(proc[p]) /\ roster' = roster
           /\ proc'[p].pc = "publish" => Shown(proc[p].row)'
           /\ Undisturbed(proc[p])'
  PROVE  Serial'
<1>1. ASSUME ~overlap'
      PROVE  /\ LeasesMinded' /\ BrakeMinded' /\ (WillRead(proc'[p]) \/ Shown(roster)')
  <2>1. ~overlap /\ Alone(p)
    BY <1>1
  <2>2. LeasesMinded' /\ \A m : Shown(m) => Shown(m)'
    BY <1>1, <2>1, MindedKept
  <2>3. WillRead(proc[p]) \/ Shown(roster)
    BY <2>1, SerialFacts
  <2>4. PICK m : m = roster
    OBVIOUS
  <2>5. WillRead(proc'[p]) \/ Shown(roster)'
    BY <1>1, <2>2, <2>3, <2>4
  <2>6. BrakeMinded'
    <3>1. BrakeMinded /\ \A q \in Proc \ {p} : proc[q].pc # "expired"
      BY <2>1, SerialFacts DEF Alone
    <3> QED BY <1>1, <3>1 DEF BrakeMinded
  <2> QED BY <2>2, <2>5, <2>6
<1> QED BY <1>1, SerialStep

LEMMA SyncReadInv ==
  ASSUME Inv, NEW p \in Proc, SyncRead(p), calls' \in 0 .. MaxCalls
  PROVE  Inv'
<1>1. /\ UNCHANGED <<lease, idx, req, pending, made, roster, ltimer, gtimer, rtimer, owed>>
      /\ proc[p].pc = "read"
  BY DEF SyncRead, Step, redis, timers
<1>2. proc[p] \in State /\ Holds(proc[p]) /\ Knows(proc[p])
  BY StateFacts DEF Inv, Requests
<1>3. PICK m \in [Target -> SUBSET Right] : m = Snapshot
  BY SnapshotFacts
<1>4. PICK s \in State : s = [To(p, "publish") EXCEPT !.row = m]
  BY <1>2 DEF To, State, Pcs, Rows
<1>5. /\ s.pc = "publish" /\ s.row = m /\ s.t = proc[p].t /\ s.id = proc[p].id
      /\ s.todo = proc[p].todo /\ s.then = proc[p].then /\ s.old = proc[p].old
  BY <1>2, <1>4 DEF To, State
<1>6. /\ Watching(s) <=> Watching(proc[p])
      /\ Ending(s) <=> Ending(proc[p])
  BY <1>1, <1>5 DEF Watching, Ending
<1>7. Holds(s)
  BY <1>1, <1>2, <1>5, <1>6 DEF Holds
<1>8. /\ Moved(p) /\ proc'[p] = s /\ UNCHANGED <<now, up, box, overlap>> /\ up
      /\ Single' /\ (~overlap' => ~overlap /\ Alone(p))
  <2>1. Step(p, "read", s)
    BY <1>3, <1>4 DEF SyncRead
  <2> QED BY <1>7, <2>1, StepFacts
<1>9. Types'
  BY <1>1, <1>8, TypeFacts, TypesStep
<1>10. Requests'
  <2>1. Knows(proc[p])'
    BY <1>1, <1>2, <1>5, <1>6, <1>8 DEF Knows, Granting, Pending, InState
  <2> QED BY <1>1, <1>5, <1>8, <2>1, RequestsKept DEF Granting
<1>11. Serial'
  <2>1. ListedToParties' /\ TakeoversTimed'
    BY <1>1, <1>8, ListedFacts DEF Inv, Serial, TakeoversTimed, Granted, InState
  <2>2. ASSUME ~overlap'
        PROVE  /\ \A t \in Target : \A x : Minded(t, x) => Minded(t, x)'
               /\ Shown(proc[p].row)' /\ Undisturbed(proc[p])'
    <3>1. ~overlap /\ Alone(p)
      BY <1>8, <2>2
    <3>2. \A t, x : ByTimer(t, x) => ByTimer(t, x)'
      BY <1>1, TimersKept
    <3>3. \A t, x : ByProc(proc[p], t, x) => ByProc(proc[p], t, x)'
      BY <1>1, <1>5, <1>6, <1>8 DEF ByProc, Granted, InState
    <3>4. \A t \in Target : \A x : Minded(t, x) => Minded(t, x)'
      BY <3>1, <3>2, <3>3, MindedAlone
    <3>5. Shown(m)
      BY <1>3, SnapshotFacts DEF Shown
    <3>6. \A y : Shown(y) => Shown(y)'
      BY <1>1, <1>8, <3>1, <3>4, MindedKept
    <3>7. Undisturbed(proc[p])
      BY <1>8, <3>1, SerialFacts
    <3>8. Undisturbed(proc[p])'
      BY <1>1, <1>5, <1>6, <1>8, <3>7 DEF Undisturbed, Granted, InState
    <3> QED BY <1>5, <1>8, <3>4, <3>5, <3>6, <3>8
  <2>3. WillRead(proc'[p])
    BY <1>5, <1>8 DEF WillRead
  <2> QED BY <1>1, <1>8, <2>1, <2>2, <2>3, SerialKept
<1> QED BY <1>8, <1>9, <1>10, <1>11 DEF Inv

LEMMA SyncPublishInv ==
  ASSUME Inv, NEW p \in Proc, SyncPublish(p), calls' \in 0 .. MaxCalls
  PROVE  Inv'
<1>1. /\ UNCHANGED <<lease, idx, req, pending, made, ltimer, gtimer, rtimer, owed>>
      /\ proc[p].pc = "publish" /\ roster' = proc[p].row
  BY DEF SyncPublish, Step, redis, timers
<1>2. proc[p] \in State /\ Holds(proc[p]) /\ Knows(proc[p])
  BY StateFacts DEF Inv, Requests
<1>3. PICK s \in State :
        /\ Step(p, "publish", s)
        /\ \/ proc[p].then = "idle" /\ s = Idle
           \/ /\ proc[p].then \in {"watch", "next"} /\ s.pc = proc[p].then /\ s.then = "idle"
              /\ s.t = proc[p].t /\ s.id = proc[p].id /\ s.todo = proc[p].todo
              /\ s.old = proc[p].old
  <2>1. CASE proc[p].then = "idle"
    BY <2>1, IdleOK DEF SyncPublish
  <2>2. CASE proc[p].then # "idle"
    <3>1. PICK pc \in {"watch", "next"} : pc = proc[p].then
      BY <1>1, <1>2, <2>2 DEF Holds
    <3>2. PICK s \in State : s = [To(p, pc) EXCEPT !.row = None, !.then = "idle"]
      BY <1>2, ZenonT(60) DEF To, State, Pcs, Rows
    <3>3. /\ s.pc = pc /\ s.t = proc[p].t /\ s.id = proc[p].id /\ s.then = "idle"
          /\ s.todo = proc[p].todo /\ s.old = proc[p].old
      BY <1>2, <3>2 DEF To, State
    <3>4. Step(p, "publish", s)
      BY <2>2, <3>1, <3>2 DEF SyncPublish
    <3> QED BY <3>1, <3>3, <3>4
  <2> QED BY <2>1, <2>2
<1>4. /\ Watching(s) <=> Watching(proc[p])
      /\ Ending(s) <=> Ending(proc[p])
      /\ s.pc \in {"idle", "watch", "next"}
  BY <1>1, <1>3, IdleOK DEF Watching, Ending
<1>5. Watching(s) \/ Ending(s) => /\ s.t = proc[p].t /\ s.id = proc[p].id
                                  /\ s.todo = proc[p].todo /\ s.old = proc[p].old
  BY <1>3, IdleOK
<1>6. Holds(s)
  BY <1>2, <1>4, <1>5 DEF Holds
<1>7. /\ Moved(p) /\ proc'[p] = s /\ UNCHANGED <<now, up, box, overlap>> /\ up
      /\ Single' /\ (~overlap' => ~overlap /\ Alone(p))
  BY <1>3, <1>6, StepFacts
<1>8. roster' \in [Target -> SUBSET Right]
  BY <1>1, <1>2 DEF Holds
<1>9. Types'
  BY <1>1, <1>7, <1>8, TypeFacts, TypesStep
<1>10. Requests'
  <2>1. Knows(proc[p])'
    BY <1>1, <1>2, <1>4, <1>5, <1>7 DEF Knows, Granting, Pending, InState
  <2> QED BY <1>1, <1>4, <1>7, <2>1, RequestsKept DEF Granting
<1>11. Serial'
  <2>1. ListedToParties' /\ TakeoversTimed'
    BY <1>1, <1>7, ListedFacts DEF Inv, Serial, TakeoversTimed, Granted, InState
  <2>2. ASSUME ~overlap'
        PROVE  /\ \A t \in Target : \A x : Minded(t, x) => Minded(t, x)'
               /\ Shown(roster)' /\ Undisturbed(proc[p])'
    <3>1. ~overlap /\ Alone(p)
      BY <1>7, <2>2
    <3>2. \A t, x : ByTimer(t, x) => ByTimer(t, x)'
      BY <1>1, TimersKept
    <3>3. \A t, x : ByProc(proc[p], t, x) => ByProc(proc[p], t, x)'
      BY <1>1, <1>4, <1>5, <1>7 DEF ByProc, Granted, InState
    <3>4. \A t \in Target : \A x : Minded(t, x) => Minded(t, x)'
      BY <3>1, <3>2, <3>3, MindedAlone
    <3>5. PICK m : m = proc[p].row /\ Shown(m)
      BY <1>1, <1>7, <3>1, SerialFacts
    <3>6. \A y : Shown(y) => Shown(y)'
      BY <1>1, <1>7, <3>1, <3>4, MindedKept
    <3>7. Undisturbed(proc[p])
      BY <1>7, <3>1, SerialFacts
    <3>8. Undisturbed(proc[p])'
      BY <1>1, <1>4, <1>5, <1>7, <3>7 DEF Undisturbed, Granted, InState
    <3> QED BY <1>1, <3>4, <3>5, <3>6, <3>8
  <2> QED BY <1>1, <1>4, <1>7, <2>1, <2>2, SerialKept
<1> QED BY <1>7, <1>9, <1>10, <1>11 DEF Inv

\* A step that touches the target t alone, by somebody who reads the leases
\* afterwards.
LEMMA SerialTouched ==
  ASSUME Inv, NEW p \in Proc, Moved(p), up, ~overlap' => ~overlap /\ Alone(p),
         UNCHANGED <<now, up>>, ListedToParties', TakeoversTimed', NEW t \in Target,
         \A k \in Target \ {t} : lease'[k] = lease[k] /\ (owed'[k] => owed[k]),
         proc[p].pc = "expired" => proc[p].t = t,
         ~overlap' =>
           /\ \A k \in Target \ {t} : \A x : Minded(k, x) => Minded(k, x)'
           /\ lease'[t] # None => Minded(t, lease[t].exp)'
           /\ owed'[t] /\ lease'[t] = None => Minded(t, now)'
           /\ WillRead(proc'[p]) /\ proc'[p].pc # "publish" /\ Undisturbed(proc[p])'
  PROVE  Serial'
<1>1. ASSUME ~overlap' PROVE LeasesMinded' /\ BrakeMinded'
  <2>1. /\ LeasesMinded /\ BrakeMinded /\ \A q \in Proc \ {p} : proc[q].pc # "expired"
    BY <1>1, SerialFacts DEF Alone
  <2>2. LeasesMinded'
    BY <1>1, <2>1 DEF LeasesMinded
  <2>3. BrakeMinded'
    BY <1>1, <2>1 DEF BrakeMinded
  <2> QED BY <2>2, <2>3
<1> QED BY <1>1, SerialStep

LEMMA ScheduleExpiryInv ==
  ASSUME Inv, NEW p \in Proc, ScheduleExpiry(p), calls' \in 0 .. MaxCalls
  PROVE  Inv'
<1>1. /\ UNCHANGED <<lease, idx, req, pending, made, roster, gtimer, rtimer, owed>>
      /\ proc[p].pc = "arm" /\ ltimer' = [ltimer EXCEPT ![proc[p].t] = proc[p].row]
  BY DEF ScheduleExpiry, Step, redis
<1>2. /\ proc[p] \in State /\ proc[p].t \in Target /\ proc[p].row \in Due
      /\ proc[p].then \in {"idle", "read"} /\ Holds(proc[p])
  BY <1>1, StateFacts DEF Holds
<1>3. PICK t \in Target, x \in Due : t = proc[p].t /\ x = proc[p].row
  BY <1>2
<1>4. /\ ltimer' \in [Target -> Due \cup {None}] /\ ltimer'[t] = x
      /\ \A k \in Target \ {t} : ltimer'[k] = ltimer[k]
  BY <1>1, <1>3, TypeFacts
<1>5. PICK s \in State :
        /\ Step(p, "arm", s)
        /\ \/ proc[p].then = "idle" /\ s = Idle
           \/ proc[p].then = "read" /\ s.pc = "read" /\ s.then = "idle"
  <2>1. CASE proc[p].then = "idle"
    BY <2>1, IdleOK DEF ScheduleExpiry
  <2>2. CASE proc[p].then = "read"
    <3>1. PICK s \in State : s = [To(p, "read") EXCEPT !.row = None, !.then = "idle"]
      BY <1>2 DEF To, State, Pcs, Rows
    <3>2. s.pc = "read" /\ s.then = "idle"
      BY <1>2, <3>1 DEF To, State
    <3>3. Step(p, "arm", s)
      BY <2>2, <3>1 DEF ScheduleExpiry
    <3> QED BY <2>2, <3>2, <3>3
  <2> QED BY <1>2, <2>1, <2>2
<1>6. ~Watching(s) /\ ~Ending(s) /\ s.pc \in {"idle", "read"}
  BY <1>5, IdleOK DEF Watching, Ending
<1>7. Holds(s)
  BY <1>5, <1>6, IdleOK DEF Holds
<1>8. /\ Moved(p) /\ proc'[p] = s /\ UNCHANGED <<now, up, box, overlap>> /\ up
      /\ Single' /\ (~overlap' => ~overlap /\ Alone(p))
  BY <1>5, <1>7, StepFacts
<1>9. Types'
  BY <1>1, <1>4, <1>8, TypeFacts, TypesStep
<1>10. Requests'
  <2>1. Knows(proc[p])'
    BY <1>6, <1>8 DEF Knows, Granting, Ending
  <2> QED BY <1>1, <1>6, <1>8, <2>1, RequestsKept DEF Granting
<1>11. Serial'
  <2>1. ListedToParties' /\ TakeoversTimed'
    BY <1>1, <1>8, ListedFacts DEF Inv, Serial, TakeoversTimed, Granted, InState
  <2>2. ASSUME ~overlap'
        PROVE  \A k \in Target :
                 /\ lease[k] # None /\ Minded(k, lease[k].exp) => Minded(k, lease[k].exp)'
                 /\ lease[k] = None /\ Minded(k, now) => Minded(k, now)'
    <3>1. ~overlap /\ Alone(p)
      BY <1>8, <2>2
    <3>2. \A k \in Target \ {t} : \A y : ByTimer(k, y) => ByTimer(k, y)'
      BY <1>1, <1>4 DEF ByTimer, Granted, InState
    <3>3. \A k \in Target \ {t} : \A y : ~ByProc(proc[p], k, y)
      BY <1>3 DEF ByProc
    <3>4. \A k \in Target \ {t} : \A y : Minded(k, y) => Minded(k, y)'
      BY <3>1, <3>2, <3>3, MindedAlone
    <3>5. x <= IF lease[t] = None THEN now ELSE lease[t].exp
      BY <1>1, <1>3, <1>8, <3>1, SerialFacts DEF Undisturbed
    <3>6. \A y : x <= y => Minded(t, y)'
      BY <1>4, NoneFacts DEF Minded, ByTimer
    <3> QED BY <1>1, <1>8, <3>4, <3>5, <3>6
  <2>3. Undisturbed(proc[p])'
    BY <1>6, <1>8 DEF Undisturbed
  <2>4. WillRead(proc'[p]) \/ ~WillRead(proc[p])
    BY <1>1, <1>5, <1>8 DEF WillRead
  <2> QED BY <1>1, <1>6, <1>8, <2>1, <2>2, <2>3, <2>4, SerialKept
<1> QED BY <1>8, <1>9, <1>10, <1>11 DEF Inv

\* The rows and indexes once the lease of t is gone.
LEMMA RevokedFacts ==
  ASSUME Inv, NEW t \in Target, RevokeKey(t), overlap' = overlap
  PROVE  /\ lease' \in [Target -> Lease \cup {None}] /\ lease'[t] = None
         /\ \A k \in Target \ {t} : lease'[k] = lease[k]
         /\ idx' \in [User \cup {Owner} -> SUBSET Target]
         /\ ListedToParties'
<1>1. /\ lease' \in [Target -> Lease \cup {None}] /\ lease'[t] = None
      /\ \A k \in Target \ {t} : lease'[k] = lease[k]
  BY TypeFacts DEF RevokeKey
<1>2. /\ idx' \in [User \cup {Owner} -> SUBSET Target]
      /\ \A u \in User \cup {Owner} : idx[u] \ {t} \subseteq idx'[u]
  BY TypeFacts DEF RevokeKey, Unindexed
<1>3. \A k \in Target : lease[k] # None => lease[k].to \in User
  BY TypeFacts DEF Lease
<1> QED BY <1>1, <1>2, <1>3, ListedFacts DEF Inv, Serial

LEMMA RevokeStoreInv ==
  ASSUME Inv, NEW p \in Proc, RevokeStore(p), calls' \in 0 .. MaxCalls
  PROVE  Inv'
<1>1. /\ UNCHANGED <<req, pending, made, roster, ltimer, gtimer, rtimer, owed>>
      /\ proc[p].pc = "revoke" /\ RevokeKey(proc[p].t)
  BY DEF RevokeStore, Step, timers
<1>2. proc[p] \in State /\ Holds(proc[p])
  BY StateFacts
<1>3. PICK t \in Target : t = proc[p].t
  BY <1>1, <1>2 DEF Holds
<1>4. PICK s \in State : s = To(p, "disarm")
  BY <1>2 DEF To, State, Pcs
<1>5. s.pc = "disarm" /\ s.t = t /\ s.then = proc[p].then
  BY <1>2, <1>3, <1>4 DEF To, State
<1>6. Holds(s)
  BY <1>1, <1>2, <1>5 DEF Holds, Watching, Ending
<1>7. /\ Moved(p) /\ proc'[p] = s /\ UNCHANGED <<now, up, box, overlap>> /\ up
      /\ Single' /\ (~overlap' => ~overlap /\ Alone(p))
  BY <1>4, <1>6, StepFacts DEF RevokeStore
<1>8. /\ lease' \in [Target -> Lease \cup {None}] /\ lease'[t] = None
      /\ \A k \in Target \ {t} : lease'[k] = lease[k]
      /\ idx' \in [User \cup {Owner} -> SUBSET Target] /\ ListedToParties'
  BY <1>1, <1>3, <1>7, RevokedFacts
<1>9. Types'
  BY <1>1, <1>7, <1>8, TypeFacts, TypesStep
<1>10. Requests'
  <2>1. Knows(proc[p])'
    BY <1>5, <1>7 DEF Knows, Granting, Ending
  <2> QED BY <1>1, <1>5, <1>7, <2>1, RequestsKept DEF Granting
<1>11. Serial'
  <2>1. TakeoversTimed'
    BY <1>1, <1>7 DEF Inv, Serial, TakeoversTimed, Granted, InState
  <2>2. ASSUME ~overlap'
        PROVE  /\ \A k \in Target \ {t} : \A x : Minded(k, x) => Minded(k, x)'
               /\ ~owed'[t] /\ Undisturbed(proc[p])'
    <3>1. ~overlap /\ Alone(p)
      BY <1>7, <2>2
    <3>2. \A k, y : ByTimer(k, y) => ByTimer(k, y)'
      BY <1>1, TimersKept
    <3>3. \A k, y : ~ByProc(proc[p], k, y)
      BY <1>1 DEF ByProc, Watching
    <3>4. ~owed[t]
      BY <1>1, <1>3, <1>7, <3>1, SerialFacts DEF Undisturbed
    <3>5. Undisturbed(proc[p])'
      BY <1>1, <1>5, <1>7, <1>8, <3>4 DEF Undisturbed, Watching, Ending
    <3> QED BY <1>1, <3>1, <3>2, <3>3, <3>4, <3>5, MindedAlone
  <2>3. WillRead(proc'[p])
    BY <1>5, <1>7 DEF WillRead
  <2> QED BY <1>1, <1>5, <1>7, <1>8, <2>1, <2>2, <2>3, SerialTouched
<1> QED BY <1>7, <1>9, <1>10, <1>11 DEF Inv

\* The timer of a target without a lease goes: after a revocation, or because
\* it fired.
LEMMA TimerGoneInv ==
  ASSUME Inv, NEW p \in Proc, CancelTimer(p) \/ ExpireLease(p), calls' \in 0 .. MaxCalls
  PROVE  Inv'
<1>1. /\ UNCHANGED <<lease, idx, req, pending, made, roster, gtimer, rtimer>>
      /\ proc[p].pc \in {"disarm", "expired"} /\ Step(p, proc[p].pc, To(p, "read"))
      /\ ltimer' = [ltimer EXCEPT ![proc[p].t] = None]
      /\ \/ proc[p].pc = "disarm" /\ owed' = owed
         \/ owed' = [owed EXCEPT ![proc[p].t] = FALSE]
  BY DEF CancelTimer, ExpireLease, StopLeasedTarget, Step, redis
<1>2. proc[p] \in State /\ Holds(proc[p])
  BY StateFacts
<1>3. PICK t \in Target : t = proc[p].t
  BY <1>1, <1>2 DEF Holds
<1>4. PICK s \in State : s = To(p, "read")
  BY <1>2 DEF To, State, Pcs
<1>5. s.pc = "read" /\ s.then = "idle"
  BY <1>1, <1>2, <1>4 DEF To, State, Holds
<1>6. Holds(s) /\ ~Watching(s) /\ ~Ending(s)
  BY <1>5 DEF Holds, Watching, Ending
<1>7. /\ Moved(p) /\ proc'[p] = s /\ UNCHANGED <<now, up, box, overlap>> /\ up
      /\ Single' /\ (~overlap' => ~overlap /\ Alone(p))
  <2>1. PICK from : from = proc[p].pc /\ from # "idle"
    BY <1>1
  <2>2. Step(p, from, s)
    BY <1>1, <1>4, <2>1
  <2> QED BY <1>6, <2>1, <2>2, StepFacts
<1>8. /\ ltimer' \in [Target -> Due \cup {None}]
      /\ \A k \in Target \ {t} : ltimer'[k] = ltimer[k]
  BY <1>1, <1>3, TypeFacts
<1>9. /\ owed' \in [Target -> BOOLEAN] /\ \A k \in Target \ {t} : owed'[k] = owed[k]
      /\ proc[p].pc = "expired" => ~owed'[t]
      /\ owed'[t] => owed[t]
  BY <1>1, <1>3, TypeFacts
<1>10. Types'
  BY <1>1, <1>7, <1>8, <1>9, TypeFacts, TypesStep
<1>11. Requests'
  <2>1. Knows(proc[p])'
    BY <1>5, <1>6, <1>7 DEF Knows, Granting
  <2> QED BY <1>1, <1>5, <1>7, <2>1, RequestsKept DEF Granting
<1>12. Serial'
  <2>1. ListedToParties' /\ TakeoversTimed'
    BY <1>1, <1>7, ListedFacts DEF Inv, Serial, TakeoversTimed, Granted, InState
  <2>2. ASSUME ~overlap'
        PROVE  /\ \A k \in Target \ {t} : \A x : Minded(k, x) => Minded(k, x)'
               /\ ~owed'[t] /\ lease'[t] = None /\ Undisturbed(proc[p])'
    <3>1. ~overlap /\ Alone(p)
      BY <1>7, <2>2
    <3>2. \A k \in Target \ {t} : \A y : ByTimer(k, y) => ByTimer(k, y)'
      BY <1>1, <1>8 DEF ByTimer, Granted, InState
    <3>3. \A k, y : ~ByProc(proc[p], k, y)
      BY <1>1 DEF ByProc, Watching
    <3>4. lease[t] = None /\ (proc[p].pc = "disarm" => ~owed[t])
      BY <1>1, <1>3, <1>7, <3>1, SerialFacts DEF Undisturbed
    <3>5. Undisturbed(proc[p])'
      BY <1>5, <1>6, <1>7 DEF Undisturbed
    <3> QED BY <1>1, <1>9, <3>1, <3>2, <3>3, <3>4, <3>5, MindedAlone
  <2>3. WillRead(proc'[p])
    BY <1>5, <1>7 DEF WillRead
  <2> QED BY <1>1, <1>3, <1>5, <1>7, <1>9, <2>1, <2>2, <2>3, SerialTouched
<1> QED BY <1>7, <1>10, <1>11, <1>12 DEF Inv

LEMMA UpdateStoreInv ==
  ASSUME Inv, NEW p \in Proc, UpdateStore(p), calls' \in 0 .. MaxCalls
  PROVE  Inv'
<1>1. /\ UNCHANGED <<req, pending, made, roster, ltimer, gtimer, rtimer, owed>>
      /\ proc[p].pc = "update"
  BY DEF UpdateStore, timers
<1>2. proc[p] \in State /\ Holds(proc[p])
  BY StateFacts
<1>3. PICK t \in Target, row \in Lease : t = proc[p].t /\ row = proc[p].row
  BY <1>1, <1>2 DEF Holds
<1>4. proc[p].then \in {"read", "arm"}
  BY <1>1, <1>2 DEF Holds
<1>5. \A k, y : ~ByProc(proc[p], k, y)
  BY <1>1 DEF ByProc, Watching
<1>6. CASE lease[t] = None
  <2>1. Step(p, "update", Idle) /\ UNCHANGED <<lease, idx>>
    BY <1>3, <1>6 DEF UpdateStore
  <2>2. PICK s \in State : s = Idle
    BY IdleOK
  <2>3. /\ Moved(p) /\ proc'[p] = s /\ UNCHANGED <<now, up, box, overlap>> /\ up
        /\ Single' /\ (~overlap' => ~overlap /\ Alone(p))
    BY <2>1, <2>2, IdleOK, StepFacts
  <2>4. s.pc = "idle" /\ Knows(s)' /\ Undisturbed(s)' /\ ~WillRead(proc[p])
    BY <1>1, <2>2, IdleOK DEF Knows, Undisturbed, WillRead
  <2>5. Types'
    BY <1>1, <2>1, <2>3, TypeFacts, TypesStep
  <2>6. Requests'
    BY <1>1, <2>3, <2>4, RequestsKept DEF Granting
  <2>7. Serial'
    <3>1. ListedToParties' /\ TakeoversTimed'
      BY <1>1, <2>1, <2>3, ListedFacts DEF Inv, Serial, TakeoversTimed, Granted, InState
    <3>2. \A k, y : ByTimer(k, y) => ByTimer(k, y)'
      BY <1>1, TimersKept
    <3>3. ~overlap' => \A k \in Target : \A y : Minded(k, y) => Minded(k, y)'
      BY <1>5, <2>3, <3>2, MindedAlone
    <3> QED BY <1>1, <2>1, <2>3, <2>4, <3>1, <3>3, SerialKept
  <2> QED BY <2>3, <2>5, <2>6, <2>7 DEF Inv
<1>7. CASE lease[t] # None
  <2>1. /\ lease' = [lease EXCEPT ![t] = IF row.exp > now THEN row ELSE None] /\ idx' = idx
    BY <1>3, <1>7 DEF UpdateStore, UpdateKey
  <2>2. row.exp \in Due /\ row.to \in User
    BY DEF Lease
  <2>3. /\ lease' \in [Target -> Lease \cup {None}]
        /\ lease'[t] = (IF row.exp > now THEN row ELSE None)
        /\ \A k \in Target \ {t} : lease'[k] = lease[k]
    BY <2>1, TypeFacts
  <2>4. PICK s \in State :
          /\ Step(p, "update", s) /\ s.t = t
          /\ \/ proc[p].then = "arm" /\ s.pc = "arm" /\ s.row = row.exp /\ s.then = "read"
             \/ proc[p].then = "read" /\ s.pc = "read" /\ s.then = "idle"
    <3>1. CASE proc[p].then = "arm"
      <4>1. PICK x \in Due : x = row.exp
        BY <2>2
      <4>2. PICK s \in State : s = [To(p, "arm") EXCEPT !.row = x, !.then = "read"]
        BY <1>2 DEF To, State, Pcs, Rows
      <4>3. s.pc = "arm" /\ s.t = t /\ s.row = x /\ s.then = "read"
        BY <1>2, <1>3, <4>2 DEF To, State
      <4>4. Step(p, "update", s)
        BY <1>3, <1>7, <3>1, <4>1, <4>2 DEF UpdateStore
      <4> QED BY <3>1, <4>1, <4>3, <4>4
    <3>2. CASE proc[p].then = "read"
      <4>1. PICK s \in State : s = [To(p, "read") EXCEPT !.row = None, !.then = "idle"]
        BY <1>2 DEF To, State, Pcs, Rows
      <4>2. s.pc = "read" /\ s.t = t /\ s.then = "idle"
        BY <1>2, <1>3, <4>1 DEF To, State
      <4>3. Step(p, "update", s)
        BY <1>3, <1>7, <3>2, <4>1 DEF UpdateStore
      <4> QED BY <3>2, <4>2, <4>3
    <3> QED BY <1>4, <3>1, <3>2
  <2>5. Holds(s) /\ ~Watching(s) /\ ~Ending(s) /\ s.pc \in {"arm", "read"}
    BY <2>2, <2>4 DEF Holds, Watching, Ending
  <2>6. /\ Moved(p) /\ proc'[p] = s /\ UNCHANGED <<now, up, box, overlap>> /\ up
        /\ Single' /\ (~overlap' => ~overlap /\ Alone(p))
    BY <2>4, <2>5, StepFacts
  <2>7. Types'
    BY <1>1, <2>1, <2>3, <2>6, TypeFacts, TypesStep
  <2>8. Requests'
    <3>1. Knows(proc[p])'
      BY <2>5, <2>6 DEF Knows, Granting
    <3> QED BY <1>1, <2>5, <2>6, <3>1, RequestsKept DEF Granting
  <2>9. Serial'
    <3>1. ASSUME ~overlap
          PROVE  /\ LeasesMinded /\ lease[t].to = row.to
                 /\ proc[p].then = "read" => lease[t].exp = row.exp
      BY <1>1, <1>3, <1>7, <2>6, <3>1, SerialFacts DEF Undisturbed
    <3>2. ListedToParties'
      BY <2>1, <2>3, <2>6, <3>1, <1>7, ListedFacts DEF Inv, Serial
    <3>3. TakeoversTimed'
      BY <1>1, <2>6 DEF Inv, Serial, TakeoversTimed, Granted, InState
    <3>4. ASSUME ~overlap'
          PROVE  /\ \A k \in Target \ {t} : \A x : Minded(k, x) => Minded(k, x)'
                 /\ lease'[t] # None => Minded(t, lease[t].exp)'
                 /\ owed'[t] /\ lease'[t] = None => Minded(t, now)'
                 /\ Undisturbed(proc[p])'
      <4>1. ~overlap /\ Alone(p)
        BY <2>6, <3>4
      <4>2. \A k, y : ByTimer(k, y) => ByTimer(k, y)'
        BY <1>1, TimersKept
      <4>3. \A k \in Target : \A x : Minded(k, x) => Minded(k, x)'
        BY <1>5, <4>1, <4>2, MindedAlone
      <4>4. \A x \in Nat : row.exp <= x => Minded(t, x)'
        <5> SUFFICES ASSUME NEW x \in Nat, row.exp <= x PROVE Minded(t, x)'
          OBVIOUS
        <5>1. CASE proc[p].then = "arm"
          BY <2>4, <2>6, <5>1 DEF Minded, ByProc
        <5>2. CASE proc[p].then = "read"
          <6>1. Minded(t, row.exp)
            BY <1>7, <3>1, <4>1, <5>2 DEF LeasesMinded
          <6>2. ByTimer(t, row.exp)
            BY <1>5, <4>1, <6>1, MindedAlone
          <6>3. ByTimer(t, x)
            BY <2>2, <6>2, LaterTimer, DueFacts
          <6> QED BY <4>2, <6>3 DEF Minded
        <5> QED BY <1>4, <5>1, <5>2
      <4>5. PICK x \in Nat : x = row.exp
        BY <2>2, DueFacts
      <4>6. CASE x > now
        <5>1. lease'[t] = row /\ row # None /\ x <= x
          BY <2>3, <4>5, <4>6, NoneFacts
        <5>2. Minded(t, x)'
          BY <4>4, <4>5, <5>1
        <5>3. Undisturbed(proc[p])'
          BY <2>4, <2>5, <2>6, <4>5, <5>1 DEF Undisturbed
        <5> QED BY <4>3, <4>5, <5>1, <5>2, <5>3
      <4>7. CASE ~(x > now)
        <5>1. lease'[t] = None /\ x <= now
          BY <2>3, <4>5, <4>7, TypeFacts
        <5>2. Minded(t, now)'
          BY <2>6, <4>4, <4>5, <5>1, TypeFacts
        <5>3. Undisturbed(proc[p])'
          BY <2>4, <2>5, <2>6, <4>5, <5>1 DEF Undisturbed
        <5> QED BY <4>3, <5>1, <5>2, <5>3
      <4> QED BY <4>6, <4>7
    <3>5. WillRead(proc'[p])
      BY <2>4, <2>6 DEF WillRead
    <3> QED BY <1>1, <2>3, <2>5, <2>6, <3>2, <3>3, <3>4, <3>5, SerialTouched
  <2> QED BY <2>6, <2>7, <2>8, <2>9 DEF Inv
<1> QED BY <1>6, <1>7

LEMMA CleanIndexInv ==
  ASSUME Inv, NEW p \in Proc, CleanIndex(p), calls' \in 0 .. MaxCalls
  PROVE  Inv'
<1>1. /\ UNCHANGED <<lease, req, pending, made, roster, ltimer, gtimer, rtimer, owed>>
      /\ proc[p].pc = "clean" /\ Step(p, "clean", Idle)
      /\ idx' = [idx EXCEPT ![proc[p].id] = @ \ proc[p].todo]
  BY DEF CleanIndex, Step, timers
<1>2. PICK s \in State : s = Idle
  BY IdleOK
<1>3. /\ Moved(p) /\ proc'[p] = s /\ UNCHANGED <<now, up, box, overlap>> /\ up
      /\ Single' /\ (~overlap' => ~overlap /\ Alone(p))
  BY <1>1, <1>2, IdleOK, StepFacts
<1>4. s.pc = "idle" /\ Knows(s)' /\ Undisturbed(s)' /\ ~WillRead(proc[p])
  BY <1>1, <1>2, IdleOK DEF Knows, Undisturbed, WillRead
<1>5. PICK u \in User \cup {Owner} : u = proc[p].id
  BY <1>1, StateFacts DEF Holds
<1>6. /\ idx' \in [User \cup {Owner} -> SUBSET Target]
      /\ \A w \in User \cup {Owner} : idx'[w] = idx[w] \/ idx'[w] = idx[w] \ proc[p].todo
  BY <1>1, <1>5, TypeFacts
<1>7. Types'
  BY <1>1, <1>3, <1>6, TypeFacts, TypesStep
<1>8. Requests'
  BY <1>1, <1>3, <1>4, RequestsKept DEF Granting
<1>9. Serial'
  <2>1. ListedToParties'
    <3>1. ~overlap => \A t \in proc[p].todo : lease[t] = None
      BY <1>1, <1>3, SerialFacts DEF Undisturbed
    <3>2. \A t \in Target : lease[t] # None => lease[t].to \in User
      BY TypeFacts DEF Lease
    <3> QED BY <1>1, <1>3, <1>6, <3>1, <3>2, ListedFacts DEF Inv, Serial
  <2>2. TakeoversTimed'
    BY <1>1, <1>3 DEF Inv, Serial, TakeoversTimed, Granted, InState
  <2>3. \A k, y : ByTimer(k, y) => ByTimer(k, y)'
    BY <1>1, TimersKept
  <2>4. \A k, y : ~ByProc(proc[p], k, y)
    BY <1>1 DEF ByProc, Watching
  <2>5. ~overlap' => \A k \in Target : \A y : Minded(k, y) => Minded(k, y)'
    BY <1>3, <2>3, <2>4, MindedAlone
  <2> QED BY <1>1, <1>3, <1>4, <2>1, <2>2, <2>5, SerialKept
<1> QED BY <1>3, <1>7, <1>8, <1>9 DEF Inv

\* The timer of a request is set, or is taken away from one that is decided.
LEMMA GrantTimerInv ==
  ASSUME Inv, NEW p \in Proc, ScheduleAutoGrant(p) \/ CancelGrantTimer(p),
         calls' \in 0 .. MaxCalls
  PROVE  Inv'
<1>1. /\ UNCHANGED <<lease, idx, req, pending, made, roster, ltimer, rtimer, owed>>
      /\ \/ /\ proc[p].pc = "window" /\ Step(p, "window", Idle)
            /\ gtimer' = [gtimer EXCEPT ![proc[p].id] = now + Window]
         \/ /\ proc[p].pc = "ungrant" /\ Step(p, "ungrant", Idle)
            /\ gtimer' = [gtimer EXCEPT ![proc[p].id] = None]
  BY DEF ScheduleAutoGrant, CancelGrantTimer, Step, redis
<1>2. PICK s \in State : s = Idle
  BY IdleOK
<1>3. /\ Moved(p) /\ proc'[p] = s /\ UNCHANGED <<now, up, box, overlap>> /\ up
      /\ Single' /\ (~overlap' => ~overlap /\ Alone(p))
  BY <1>1, <1>2, IdleOK, StepFacts
<1>4. s.pc = "idle" /\ Knows(s)' /\ Undisturbed(s)' /\ ~WillRead(proc[p])
  BY <1>1, <1>2, IdleOK DEF Knows, Undisturbed, WillRead
<1>5. PICK i \in Id : i = proc[p].id
  BY <1>1, StateFacts DEF Holds
<1>6. now + Window \in Due
  BY DueFacts, TypeFacts
<1>7. /\ gtimer' \in [Id -> Due \cup {None}] /\ \A j \in Id \ {i} : gtimer'[j] = gtimer[j]
      /\ proc[p].pc = "window" => gtimer'[i] = now + Window
      /\ proc[p].pc = "ungrant" => gtimer'[i] = None
  BY <1>1, <1>5, <1>6, TypeFacts
<1>8. Types'
  BY <1>1, <1>3, <1>7, TypeFacts, TypesStep
<1>9. Requests'
  <2>1. \A j \in Id : Pending(j)' <=> Pending(j)
    BY <1>1 DEF Pending, InState
  <2>2. \A j \in Id : /\ j > made => req'[j] = None
                      /\ Pending(j)' => Pending(j) /\ req'[j] = req[j]
    BY <1>1, <2>1 DEF Inv, Requests, Drawn
  <2>3. /\ proc[p].pc = "window" => i <= made /\ (Pending(i) => req[i].at <= now + Window)
        /\ proc[p].pc = "ungrant" => ~Pending(i)
    BY <1>1, <1>5 DEF Inv, Requests, Knows, Granting
  <2>4. \A j \in Id : \/ gtimer'[j] = gtimer[j]
                      \/ gtimer'[j] = None /\ ~Pending(j)'
                      \/ /\ j <= made /\ gtimer'[j] # None
                         /\ Pending(j)' => req'[j].at <= gtimer'[j]
    BY <1>1, <1>6, <1>7, <2>1, <2>3, NoneFacts
  <2>5. \A j \in Id : Granting(proc[p]) /\ proc[p].id = j => gtimer'[j] # None
    BY <1>1, <1>5, <1>6, <1>7, NoneFacts DEF Granting
  <2> QED BY <1>1, <1>3, <1>4, <2>2, <2>4, <2>5, RequestsStep
<1>10. Serial'
  <2>1. ListedToParties' /\ TakeoversTimed'
    BY <1>1, <1>3, ListedFacts DEF Inv, Serial, TakeoversTimed, Granted, InState
  <2>2. \A k, y : ByTimer(k, y) => ByTimer(k, y)'
    BY <1>1, TimersKept
  <2>3. \A k, y : ~ByProc(proc[p], k, y)
    BY <1>1 DEF ByProc, Watching
  <2>4. ~overlap' => \A k \in Target : \A y : Minded(k, y) => Minded(k, y)'
    BY <1>3, <2>2, <2>3, MindedAlone
  <2> QED BY <1>1, <1>3, <1>4, <2>1, <2>4, SerialKept
<1> QED BY <1>3, <1>8, <1>9, <1>10 DEF Inv

LEMMA InsertRequestInv ==
  ASSUME Inv, NEW p \in Proc, InsertRequest(p), calls' \in 0 .. MaxCalls
  PROVE  Inv'
<1>1. /\ UNCHANGED <<lease, idx, roster, ltimer, gtimer, rtimer, owed>>
      /\ proc[p].pc = "insert" /\ made' = made + 1
  BY DEF InsertRequest, Step, timers
<1>2. proc[p] \in State /\ Holds(proc[p])
  BY StateFacts
<1>3. PICK t \in Target, u \in User : t = proc[p].t /\ u = proc[p].id
  BY <1>1, <1>2 DEF Holds
<1>4. PICK i \in Id : i = made + 1
  <2>1. p \in Inserting
    BY <1>1 DEF Inserting
  <2>2. Cardinality(Inserting) # 0
    BY <2>1, InsertingFacts, FS_EmptySet
  <2>3. made + 1 <= MaxReq
    BY <2>2, InsertingFacts, TypeFacts, LendingAssumption DEF Inv, Requests, Drawn
  <2> QED BY <2>3, TypeFacts, LendingAssumption DEF Id
<1>5. made \in Nat /\ i \in Nat /\ i \in 0 .. MaxReq /\ i > made /\ req[i] = None /\ gtimer[i] = None
  BY <1>4, TypeFacts DEF Id, Inv, Requests, Drawn
<1>6. PICK row \in Request : row = [st |-> "pending", t |-> t, sig |-> u, at |-> now + Window,
                                    until |-> now + Window + Slack]
  BY DueFacts, TypeFacts DEF Request
<1>7. row # None /\ row.st = "pending" /\ row.t = t /\ row.at = now + Window
  BY <1>6, NoneFacts
<1>8. req' = [req EXCEPT ![i] = row] /\ pending' = [pending EXCEPT ![t] = i]
  BY <1>3, <1>4, <1>6 DEF InsertRequest, SavePending
<1>9. /\ req' \in [Id -> Request \cup {None}] /\ pending' \in [Target -> Id \cup {None}]
      /\ req'[i] = row /\ \A j \in Id \ {i} : req'[j] = req[j]
  BY <1>8, TypeFacts
<1>10. PICK s \in State : s = [To(p, "window") EXCEPT !.id = i]
  BY <1>2 DEF To, State, Pcs
<1>11. s.pc = "window" /\ s.id = i
  BY <1>2, <1>10 DEF To, State
<1>12. Holds(s) /\ ~Watching(s) /\ ~Ending(s)
  BY <1>11 DEF Holds, Watching, Ending
<1>13. /\ Moved(p) /\ proc'[p] = s /\ UNCHANGED <<now, up, box, overlap>> /\ up
       /\ Single' /\ (~overlap' => ~overlap /\ Alone(p))
  <2>1. Step(p, "insert", s)
    BY <1>4, <1>10 DEF InsertRequest
  <2> QED BY <1>12, <2>1, StepFacts
<1>14. Types'
  BY <1>1, <1>4, <1>5, <1>9, <1>13, TypeFacts, TypesStep
<1>15. \A j \in Id : j # i => (Pending(j)' <=> Pending(j))
  BY <1>9 DEF Pending, InState
<1>16. Requests'
  <2>1. Drawn'
    <3>1. Cardinality(Inserting') = Cardinality(Inserting) - 1 /\ Cardinality(Inserting') \in Nat
      BY <1>1, <1>11, <1>13, InsertingLess
    <3>2. made' + Cardinality(Inserting') <= MaxReq
      BY <1>1, <1>5, <3>1, InsertingFacts, LendingAssumption DEF Inv, Requests, Drawn
    <3>3. \A j \in Id : j > made' => req'[j] = None /\ gtimer'[j] = None
      BY <1>1, <1>4, <1>5, <1>9 DEF Inv, Requests, Drawn, Id
    <3> QED BY <3>2, <3>3 DEF Drawn
  <2>2. NotEarly'
    BY <1>1, <1>5, <1>9, <1>15 DEF Inv, Requests, NotEarly
  <2>3. RequestWatched'
    <3> SUFFICES ASSUME NEW j \in Id, Pending(j)', gtimer'[j] = None
                 PROVE  \E q \in Proc : Granting(proc'[q]) /\ proc'[q].id = j
      BY DEF RequestWatched, Pending, Granting
    <3>1. CASE j = i
      BY <1>11, <1>13, <3>1 DEF Granting
    <3>2. CASE j # i
      <4>1. PICK q \in Proc : Granting(proc[q]) /\ proc[q].id = j
        BY <1>1, <1>13, <1>15, <3>2 DEF Inv, Requests, RequestWatched, Pending, Granting
      <4>2. q # p
        BY <1>1, <4>1 DEF Granting
      <4> QED BY <1>13, <4>1, <4>2 DEF Moved
    <3> QED BY <3>1, <3>2
  <2>4. Knows(proc[p])'
    BY <1>1, <1>4, <1>5, <1>7, <1>9, <1>11, <1>12, <1>13, TypeFacts, LendingAssumption
    DEF Knows, Granting
  <2>5. ASSUME NEW q \in Proc \ {p} PROVE Knows(proc[q])'
    <3>1. proc'[q] = proc[q] /\ Knows(proc[q]) /\ Holds(proc[q])
      BY <1>13, StateFacts DEF Moved, Inv, Requests
    <3>2. \A j \in Id : j <= made => j <= made' /\ j # i /\ (Pending(j)' <=> Pending(j))
                                     /\ req'[j] = req[j]
      BY <1>1, <1>5, <1>9, <1>15 DEF Id
    <3>3. \A r \in Id \X Target : r[1] \in Id
      OBVIOUS
    <3>4. Ending(proc[q]) => \A r \in proc[q].todo : r[1] \in Id
      BY <3>1, <3>3 DEF Holds
    <3>5. Granting(proc[q]) \/ proc[q].pc \in {"decide", "ungrant", "release", "released"}
            => proc[q].id \in Id /\ proc[q].id <= made
      BY <3>1 DEF Holds, Granting, Knows
    <3>6. Ending(proc[q]) => \A r \in proc[q].todo : r[1] \in Id /\ r[1] <= made /\ ~Pending(r[1])
      BY <3>1, <3>4 DEF Knows
    <3> QED BY <1>13, <3>1, <3>2, <3>5, <3>6 DEF Knows, Granting, Ending
  <2> QED BY <2>1, <2>2, <2>3, <2>4, <2>5 DEF Requests
<1>17. Serial'
  <2>1. \A j \in Id : Granted(j) => req'[j] = req[j]
    BY <1>5, <1>9 DEF Granted, InState
  <2>2. ListedToParties' /\ TakeoversTimed'
    BY <1>1, <1>13, <2>1, ListedFacts DEF Inv, Serial, TakeoversTimed, Granted, InState
  <2>3. \A k, y : ByTimer(k, y) => ByTimer(k, y)'
    BY <1>1, <2>1, TimersKept
  <2>4. \A k, y : ~ByProc(proc[p], k, y)
    BY <1>1 DEF ByProc, Watching
  <2>5. ~overlap' => \A k \in Target : \A y : Minded(k, y) => Minded(k, y)'
    BY <1>13, <2>3, <2>4, MindedAlone
  <2>6. Undisturbed(proc[p])' /\ ~WillRead(proc[p])
    BY <1>1, <1>11, <1>12, <1>13 DEF Undisturbed, WillRead
  <2> QED BY <1>1, <1>11, <1>13, <2>2, <2>5, <2>6, SerialKept
<1> QED BY <1>13, <1>14, <1>16, <1>17 DEF Inv

\* A request is deleted, together with the pending key of its target.
LEMMA DeletedFacts ==
  ASSUME Inv, NEW i \in Id, NEW t \in Target, DeleteActive(i, t)
  PROVE  /\ req' \in [Id -> Request \cup {None}] /\ pending' \in [Target -> Id \cup {None}]
         /\ req'[i] = None /\ \A j \in Id \ {i} : req'[j] = req[j]
         /\ \A j \in Id : /\ j > made => req'[j] = None
                          /\ Pending(j)' => Pending(j) /\ req'[j] = req[j]
         /\ ~Pending(i)'
<1>1. /\ req' \in [Id -> Request \cup {None}] /\ pending' \in [Target -> Id \cup {None}]
      /\ req'[i] = None /\ \A j \in Id \ {i} : req'[j] = req[j]
  BY TypeFacts DEF DeleteActive
<1> QED BY <1>1 DEF Inv, Requests, Drawn, Pending, InState

LEMMA DecideInv ==
  ASSUME Inv, NEW p \in Proc, Decide(p), calls' \in 0 .. MaxCalls
  PROVE  Inv'
<1>1. /\ UNCHANGED <<lease, idx, made, roster, ltimer, gtimer, rtimer, owed>>
      /\ proc[p].pc = "decide" /\ DeleteActive(proc[p].id, proc[p].t)
  BY DEF Decide, Step, timers
<1>2. proc[p] \in State /\ Holds(proc[p]) /\ Knows(proc[p])
  BY StateFacts DEF Inv, Requests
<1>3. PICK t \in Target, i \in Id : t = proc[p].t /\ i = proc[p].id
  BY <1>1, <1>2 DEF Holds
<1>4. PICK s \in State : s = To(p, "ungrant")
  BY <1>2 DEF To, State, Pcs
<1>5. s.pc = "ungrant" /\ s.id = i
  BY <1>2, <1>3, <1>4 DEF To, State
<1>6. Holds(s) /\ ~Watching(s) /\ ~Ending(s)
  BY <1>5 DEF Holds, Watching, Ending
<1>7. /\ Moved(p) /\ proc'[p] = s /\ UNCHANGED <<now, up, box, overlap>> /\ up
      /\ Single' /\ (~overlap' => ~overlap /\ Alone(p))
  BY <1>4, <1>6, StepFacts DEF Decide
<1>8. /\ req' \in [Id -> Request \cup {None}] /\ pending' \in [Target -> Id \cup {None}]
      /\ req'[i] = None /\ \A j \in Id \ {i} : req'[j] = req[j]
      /\ \A j \in Id : /\ j > made => req'[j] = None
                       /\ Pending(j)' => Pending(j) /\ req'[j] = req[j]
      /\ ~Pending(i)'
  BY <1>1, <1>3, DeletedFacts
<1>9. Types'
  BY <1>1, <1>7, <1>8, TypeFacts, TypesStep
<1>10. Requests'
  <2>1. Knows(proc[p])'
    BY <1>1, <1>2, <1>3, <1>5, <1>6, <1>7, <1>8 DEF Knows, Granting
  <2> QED BY <1>1, <1>5, <1>7, <1>8, <2>1, RequestsStep DEF Granting
<1>11. Serial'
  <2>1. ~overlap => \A j \in Id : Granted(j) => req'[j] = req[j]
    BY <1>1, <1>3, <1>7, <1>8, SerialFacts DEF Undisturbed
  <2>2. ListedToParties' /\ TakeoversTimed'
    BY <1>1, <1>7, <2>1, ListedFacts DEF Inv, Serial, TakeoversTimed, Granted, InState
  <2>3. ~overlap => \A k, y : ByTimer(k, y) => ByTimer(k, y)'
    BY <1>1, <2>1, TimersKept
  <2>4. \A k, y : ~ByProc(proc[p], k, y)
    BY <1>1 DEF ByProc, Watching
  <2>5. ~overlap' => \A k \in Target : \A y : Minded(k, y) => Minded(k, y)'
    BY <1>7, <2>3, <2>4, MindedAlone
  <2>6. Undisturbed(proc[p])' /\ ~WillRead(proc[p])
    BY <1>1, <1>5, <1>6, <1>7 DEF Undisturbed, WillRead
  <2> QED BY <1>1, <1>5, <1>7, <2>2, <2>5, <2>6, SerialKept
<1> QED BY <1>7, <1>9, <1>10, <1>11 DEF Inv

LEMMA GrantLeaseInv ==
  ASSUME Inv, NEW p \in Proc, GrantLease(p), calls' \in 0 .. MaxCalls
  PROVE  Inv'
<1>1. /\ UNCHANGED <<req, pending, made, roster, ltimer, gtimer, rtimer>>
      /\ proc[p].pc = "grant" /\ owed' = [owed EXCEPT ![proc[p].t] = FALSE]
  BY DEF GrantLease, Step, timers
<1>2. proc[p] \in State /\ Holds(proc[p]) /\ Knows(proc[p])
  BY StateFacts DEF Inv, Requests
<1>3. PICK t \in Target : t = proc[p].t
  BY <1>1, <1>2 DEF Holds
<1>4. PICK x \in Due : x = proc[p].row.at + Hold
  BY <1>1, <1>2, DueFacts DEF Holds
<1>5. PICK row \in Lease : row = [to |-> proc[p].row.sig, limit |-> 0, exp |-> x,
                                  src |-> "takeover"]
  <2>1. proc[p].row.sig \in User
    BY <1>1, <1>2 DEF Holds, Request
  <2> QED BY <2>1, LendingAssumption DEF Lease
<1>6. row # None /\ row.exp = x /\ row.to \in User
  BY <1>5, NoneFacts DEF Lease
<1>7. lease' = [lease EXCEPT ![t] = row] /\ idx' = Indexed(Unindexed(t), t, row.to)
  BY <1>3, <1>4, <1>5 DEF GrantLease, CreateOverwrite
<1>8. /\ lease' \in [Target -> Lease \cup {None}] /\ lease'[t] = row
      /\ \A k \in Target \ {t} : lease'[k] = lease[k]
  BY <1>7, TypeFacts
<1>9. /\ idx' \in [User \cup {Owner} -> SUBSET Target]
      /\ t \in idx'[row.to] /\ t \in idx'[Owner]
      /\ \A u \in User \cup {Owner} : idx[u] \ {t} \subseteq idx'[u]
  <2>1. PICK rest \in [User \cup {Owner} -> SUBSET Target] :
          rest = Unindexed(t) /\ \A u \in User \cup {Owner} : idx[u] \ {t} \subseteq rest[u]
    <3>1. Unindexed(t) \in [User \cup {Owner} -> SUBSET Target]
      BY TypeFacts DEF Unindexed
    <3>2. \A u \in User \cup {Owner} : idx[u] \ {t} \subseteq Unindexed(t)[u]
      BY TypeFacts DEF Unindexed
    <3> QED BY <3>1, <3>2
  <2>2. idx' = Indexed(rest, t, row.to)
    BY <1>7, <2>1
  <2> QED BY <1>6, <2>1, <2>2 DEF Indexed
<1>10. PICK s \in State : s = To(p, "granted")
  BY <1>2 DEF To, State, Pcs
<1>11. /\ s.pc = "granted" /\ s.t = t /\ s.id = proc[p].id /\ s.row = proc[p].row
       /\ s.old = proc[p].old /\ ~Watching(s) /\ ~Ending(s)
  BY <1>2, <1>3, <1>10 DEF To, State, Watching, Ending
<1>12. Holds(s)
  BY <1>1, <1>2, <1>3, <1>11 DEF Holds
<1>13. /\ Moved(p) /\ proc'[p] = s /\ UNCHANGED <<now, up, box, overlap>> /\ up
       /\ Single' /\ (~overlap' => ~overlap /\ Alone(p))
  BY <1>10, <1>12, StepFacts DEF GrantLease
<1>14. /\ owed' \in [Target -> BOOLEAN] /\ ~owed'[t]
       /\ \A k \in Target \ {t} : owed'[k] = owed[k]
  BY <1>1, <1>3, TypeFacts
<1>15. Types'
  BY <1>1, <1>8, <1>9, <1>13, <1>14, TypeFacts, TypesStep
<1>16. Requests'
  <2>1. Knows(proc[p])'
    BY <1>1, <1>2, <1>11, <1>13 DEF Knows, Granting, Pending, InState
  <2> QED BY <1>1, <1>11, <1>13, <2>1, RequestsKept DEF Granting
<1>17. Serial'
  <2>1. ListedToParties'
    <3>1. \A k \in Target : lease[k] # None => lease[k].to \in User
      BY TypeFacts DEF Lease
    <3> QED BY <1>6, <1>8, <1>9, <1>13, <3>1, ListedFacts DEF Inv, Serial
  <2>2. TakeoversTimed'
    BY <1>1, <1>13 DEF Inv, Serial, TakeoversTimed, Granted, InState
  <2>3. ASSUME ~overlap'
        PROVE  /\ \A k \in Target \ {t} : \A y : Minded(k, y) => Minded(k, y)'
               /\ Minded(t, lease[t].exp)' /\ Undisturbed(proc[p])'
    <3>1. ~overlap /\ Alone(p)
      BY <1>13, <2>3
    <3>2. \A k, y : ByTimer(k, y) => ByTimer(k, y)'
      BY <1>1, TimersKept
    <3>3. \A k, y : ~ByProc(proc[p], k, y)
      BY <1>1 DEF ByProc, Watching
    <3>4. x <= x
      BY DueFacts
    <3>5. Minded(t, x)'
      BY <1>4, <1>11, <1>13, <3>4 DEF Minded, ByProc
    <3>6. Undisturbed(proc[p])
      BY <1>13, <3>1, SerialFacts
    <3>7. Undisturbed(proc[p])'
      BY <1>1, <1>11, <1>13, <3>6 DEF Undisturbed, Granted, InState
    <3> QED BY <1>6, <1>8, <3>1, <3>2, <3>3, <3>5, <3>7, MindedAlone
  <2>4. WillRead(proc'[p])
    BY <1>11, <1>13 DEF WillRead
  <2> QED BY <1>1, <1>8, <1>11, <1>13, <1>14, <2>1, <2>2, <2>3, <2>4, SerialTouched
<1> QED BY <1>13, <1>15, <1>16, <1>17 DEF Inv

LEMMA GrantRequestInv ==
  ASSUME Inv, NEW p \in Proc, GrantRequest(p), calls' \in 0 .. MaxCalls
  PROVE  Inv'
<1>1. /\ UNCHANGED <<lease, idx, made, roster, ltimer, gtimer, rtimer, owed>>
      /\ proc[p].pc = "granted" /\ SaveGranted(proc[p].id, proc[p].row)
  BY DEF GrantRequest, Step, timers
<1>2. proc[p] \in State /\ Holds(proc[p]) /\ Knows(proc[p])
  BY StateFacts DEF Inv, Requests
<1>3. PICK t \in Target, i \in Id, row \in Request :
        /\ t = proc[p].t /\ i = proc[p].id /\ row = proc[p].row
        /\ row.t = t /\ row.st = "granted" /\ row.at \in Time
        /\ row.until = row.at + Hold + Slack
  BY <1>1, <1>2 DEF Holds
<1>4. PICK x \in Due : x = row.at + Hold
  BY <1>3, DueFacts
<1>5. i <= made
  BY <1>1, <1>2, <1>3 DEF Knows, Granting
<1>6. req' = [req EXCEPT ![i] = row] /\ pending' = [pending EXCEPT ![t] = None]
  BY <1>1, <1>3 DEF SaveGranted
<1>7. /\ req' \in [Id -> Request \cup {None}] /\ pending' \in [Target -> Id \cup {None}]
      /\ req'[i] = row /\ \A j \in Id \ {i} : req'[j] = req[j]
  BY <1>6, TypeFacts
<1>8. PICK s \in State : s = [To(p, "read") EXCEPT !.row = None, !.then = "watch", !.todo = {x}]
  BY <1>2, ZenonT(60) DEF To, State, Pcs, Rows
<1>9. /\ s.pc = "read" /\ s.t = t /\ s.id = i /\ s.then = "watch" /\ s.todo = {x}
      /\ s.old = proc[p].old /\ Watching(s) /\ ~Ending(s)
  BY <1>2, <1>3, <1>8 DEF To, State, Watching, Ending
<1>10. Holds(s)
  BY <1>9 DEF Holds
<1>11. /\ Moved(p) /\ proc'[p] = s /\ UNCHANGED <<now, up, box, overlap>> /\ up
       /\ Single' /\ (~overlap' => ~overlap /\ Alone(p))
  <2>1. Step(p, "granted", s)
    BY <1>3, <1>4, <1>8 DEF GrantRequest
  <2> QED BY <1>10, <2>1, StepFacts
<1>12. Types'
  BY <1>1, <1>7, <1>11, TypeFacts, TypesStep
<1>13. Requests'
  <2>1. ~Pending(i)'
    BY <1>3, <1>7 DEF Pending, InState
  <2>2. \A j \in Id : /\ j > made => req'[j] = None
                      /\ Pending(j)' => Pending(j) /\ req'[j] = req[j]
    BY <1>5, <1>7, <2>1, TypeFacts DEF Inv, Requests, Drawn, Pending, InState, Id
  <2>3. Knows(proc[p])'
    BY <1>9, <1>11 DEF Knows, Granting
  <2> QED BY <1>1, <1>3, <1>9, <1>11, <2>1, <2>2, <2>3, RequestsStep
<1>14. Serial'
  <2>1. ASSUME ~overlap PROVE ~Granted(i) /\ rtimer[i] = None
    BY <1>1, <1>3, <1>11, <2>1, SerialFacts DEF Undisturbed, Inv, Serial, TakeoversTimed
  <2>2. ListedToParties' /\ TakeoversTimed'
    BY <1>1, <1>7, <1>11, <2>1, ListedFacts DEF Inv, Serial, TakeoversTimed, Granted, InState
  <2>3. Granted(i)'
    BY <1>3, <1>7, NoneFacts DEF Granted, InState
  <2>4. x \in Nat /\ x + Slack <= row.until
    BY <1>3, <1>4, DueFacts, LendingAssumption DEF Time
  <2>5. ASSUME ~overlap'
        PROVE  /\ \A k \in Target : \A y : Minded(k, y) => Minded(k, y)'
               /\ Undisturbed(proc[p])'
    <3>1. ~overlap /\ Alone(p)
      BY <1>11, <2>5
    <3>2. \A k, y : ByTimer(k, y) => ByTimer(k, y)'
      BY <1>1, <1>7, <2>1, <3>1, TimersKept
    <3>3. \A k, y : ByProc(proc[p], k, y) => ByProc(proc[p], k, y)'
      BY <1>1, <1>3, <1>4, <1>7, <1>9, <1>11, <2>3, <2>4 DEF ByProc, Watching
    <3>4. now <= row.at + (IF s.old THEN 1 ELSE 0)
      BY <1>1, <1>3, <1>9, <1>11, <3>1, SerialFacts DEF Undisturbed
    <3>5. now + Hold <= x + (IF s.old THEN 1 ELSE 0)
      BY <1>3, <1>4, <3>4, TypeFacts, LendingAssumption DEF Time
    <3>6. Undisturbed(proc[p])'
      BY <1>1, <1>3, <1>7, <1>9, <1>11, <2>1, <2>3, <2>4, <3>1, <3>5 DEF Undisturbed
    <3> QED BY <3>1, <3>2, <3>3, <3>6, MindedAlone
  <2>6. WillRead(proc'[p])
    BY <1>9, <1>11 DEF WillRead
  <2> QED BY <1>1, <1>9, <1>11, <2>2, <2>5, <2>6, SerialKept
<1> QED BY <1>11, <1>12, <1>13, <1>14 DEF Inv

LEMMA ScheduleLeaseReleaseInv ==
  ASSUME Inv, NEW p \in Proc, ScheduleLeaseRelease(p), calls' \in 0 .. MaxCalls
  PROVE  Inv'
<1>1. /\ UNCHANGED <<lease, idx, req, pending, made, roster, ltimer, gtimer, owed>>
      /\ proc[p].pc = "watch" /\ Step(p, "watch", Idle)
      /\ rtimer' = [rtimer EXCEPT ![proc[p].id] = CHOOSE d \in proc[p].todo : TRUE]
  BY DEF ScheduleLeaseRelease, Step, redis
<1>2. PICK t \in Target, i \in Id, x \in Due :
        t = proc[p].t /\ i = proc[p].id /\ proc[p].todo = {x}
  BY <1>1, StateFacts DEF Holds, Watching
<1>3. (CHOOSE d \in proc[p].todo : TRUE) = x
  BY <1>2
<1>4. /\ rtimer' \in [Id -> Due \cup {None}] /\ rtimer'[i] = x
      /\ \A j \in Id \ {i} : rtimer'[j] = rtimer[j]
  BY <1>1, <1>2, <1>3, TypeFacts
<1>5. PICK s \in State : s = Idle
  BY IdleOK
<1>6. /\ Moved(p) /\ proc'[p] = s /\ UNCHANGED <<now, up, box, overlap>> /\ up
      /\ Single' /\ (~overlap' => ~overlap /\ Alone(p))
  BY <1>1, <1>5, IdleOK, StepFacts
<1>7. s.pc = "idle" /\ Knows(s)' /\ Undisturbed(s)' /\ ~WillRead(proc[p])
  BY <1>1, <1>5, IdleOK DEF Knows, Undisturbed, WillRead
<1>8. Types'
  BY <1>1, <1>4, <1>6, TypeFacts, TypesStep
<1>9. Requests'
  BY <1>1, <1>6, <1>7, RequestsKept DEF Granting
<1>10. Serial'
  <2>1. ASSUME ~overlap
        PROVE  Granted(i) /\ req[i].t = t /\ rtimer[i] = None /\ x + Slack <= req[i].until
    BY <1>1, <1>2, <1>6, <2>1, SerialFacts DEF Undisturbed, Watching
  <2>2. ListedToParties'
    BY <1>1, <1>6, ListedFacts DEF Inv, Serial
  <2>3. TakeoversTimed'
    BY <1>1, <1>4, <1>6, <2>1 DEF Inv, Serial, TakeoversTimed, Granted, InState
  <2>4. ASSUME ~overlap'
        PROVE  \A k \in Target : \A y : Minded(k, y) => Minded(k, y)'
    <3>1. ~overlap /\ Alone(p)
      BY <1>6, <2>4
    <3>2. \A k, y : ByTimer(k, y) => ByTimer(k, y)'
      BY <1>1, <1>4, <2>1, <3>1 DEF ByTimer, Granted, InState
    <3>3. \A y : ByProc(proc[p], t, y) => ByTimer(t, y)'
      BY <1>1, <1>2, <1>4, <2>1, <3>1, NoneFacts DEF ByProc, ByTimer, Granted, InState
    <3>4. \A k, y : k # t => ~ByProc(proc[p], k, y)
      BY <1>2 DEF ByProc
    <3> QED BY <3>1, <3>2, <3>3, <3>4, MindedAlone
  <2> QED BY <1>1, <1>6, <1>7, <2>2, <2>3, <2>4, SerialKept
<1> QED BY <1>6, <1>8, <1>9, <1>10 DEF Inv

LEMMA ReleaseLeaseInv ==
  ASSUME Inv, NEW p \in Proc, ReleaseLease(p), calls' \in 0 .. MaxCalls
  PROVE  Inv'
<1>1. /\ UNCHANGED <<req, pending, made, roster, ltimer>>
      /\ proc[p].pc = "release" /\ RevokeKey(proc[p].t)
      /\ gtimer' = [gtimer EXCEPT ![proc[p].id] = None]
      /\ rtimer' = [rtimer EXCEPT ![proc[p].id] = None]
      /\ owed' = [owed EXCEPT ![proc[p].t] = FALSE]
  BY DEF ReleaseLease, Step
<1>2. proc[p] \in State /\ Holds(proc[p]) /\ Knows(proc[p])
  BY StateFacts DEF Inv, Requests
<1>3. PICK t \in Target, i \in Id : t = proc[p].t /\ i = proc[p].id
  BY <1>1, <1>2 DEF Holds
<1>4. PICK s \in State : s = To(p, "released")
  BY <1>2 DEF To, State, Pcs
<1>5. s.pc = "released" /\ s.t = t /\ s.id = i /\ s.todo = proc[p].todo
  BY <1>2, <1>3, <1>4 DEF To, State
<1>6. ~Watching(s) /\ Ending(s) /\ Ending(proc[p])
  BY <1>1, <1>5 DEF Watching, Ending
<1>7. Holds(s)
  BY <1>2, <1>5, <1>6 DEF Holds
<1>8. /\ Moved(p) /\ proc'[p] = s /\ UNCHANGED <<now, up, box, overlap>> /\ up
      /\ Single' /\ (~overlap' => ~overlap /\ Alone(p))
  BY <1>4, <1>7, StepFacts DEF ReleaseLease
<1>9. /\ lease' \in [Target -> Lease \cup {None}] /\ lease'[t] = None
      /\ \A k \in Target \ {t} : lease'[k] = lease[k]
      /\ idx' \in [User \cup {Owner} -> SUBSET Target] /\ ListedToParties'
  BY <1>1, <1>3, <1>8, RevokedFacts
<1>10. /\ gtimer' \in [Id -> Due \cup {None}] /\ gtimer'[i] = None
       /\ \A j \in Id \ {i} : gtimer'[j] = gtimer[j]
       /\ rtimer' \in [Id -> Due \cup {None}] /\ rtimer'[i] = None
       /\ \A j \in Id \ {i} : rtimer'[j] = rtimer[j]
       /\ owed' \in [Target -> BOOLEAN] /\ ~owed'[t]
       /\ \A k \in Target \ {t} : owed'[k] = owed[k]
  BY <1>1, <1>3, TypeFacts
<1>11. Types'
  BY <1>1, <1>8, <1>9, <1>10, TypeFacts, TypesStep
<1>12. Requests'
  <2>1. \A j \in Id : Pending(j)' <=> Pending(j)
    BY <1>1 DEF Pending, InState
  <2>2. \A j \in Id : /\ j > made => req'[j] = None
                      /\ Pending(j)' => Pending(j) /\ req'[j] = req[j]
    BY <1>1, <2>1 DEF Inv, Requests, Drawn
  <2>3. ~Pending(i)
    BY <1>1, <1>2, <1>3 DEF Knows
  <2>4. \A j \in Id : gtimer'[j] = gtimer[j] \/ (gtimer'[j] = None /\ ~Pending(j)')
    BY <1>10, <2>1, <2>3
  <2>5. Knows(proc[p])'
    BY <1>1, <1>2, <1>3, <1>5, <1>6, <1>8 DEF Knows, Granting, Pending, InState
  <2> QED BY <1>1, <1>5, <1>8, <2>2, <2>4, <2>5, RequestsStep DEF Granting
<1>13. Serial'
  <2>1. TakeoversTimed'
    BY <1>1, <1>8, <1>10 DEF Inv, Serial, TakeoversTimed, Granted, InState
  <2>2. ASSUME ~overlap'
        PROVE  /\ \A k \in Target \ {t} : \A y : Minded(k, y) => Minded(k, y)'
               /\ Undisturbed(proc[p])'
    <3>1. ~overlap /\ Alone(p)
      BY <1>8, <2>2
    <3>2. Undisturbed(proc[p])
      BY <1>8, <3>1, SerialFacts
    <3>3. Granted(i) => req[i].t = t
      BY <1>1, <1>3, <3>2 DEF Undisturbed, Granted, InState
    <3>4. \A k \in Target \ {t} : \A y : ByTimer(k, y) => ByTimer(k, y)'
      BY <1>1, <1>10, <3>3 DEF ByTimer, Granted, InState
    <3>5. \A k \in Target \ {t} : \A y : ~ByProc(proc[p], k, y)
      BY <1>3 DEF ByProc
    <3>6. Undisturbed(proc[p])'
      BY <1>1, <1>3, <1>5, <1>6, <1>8, <1>9, <1>10, <3>2 DEF Undisturbed
    <3> QED BY <3>1, <3>4, <3>5, <3>6, MindedAlone
  <2>3. WillRead(proc'[p])
    BY <1>5, <1>8 DEF WillRead
  <2> QED BY <1>1, <1>5, <1>8, <1>9, <1>10, <2>1, <2>2, <2>3, SerialTouched
<1> QED BY <1>8, <1>11, <1>12, <1>13 DEF Inv

LEMMA ReleaseRequestInv ==
  ASSUME Inv, NEW p \in Proc, ReleaseRequest(p), calls' \in 0 .. MaxCalls
  PROVE  Inv'
<1>1. /\ UNCHANGED <<lease, idx, made, roster, ltimer, gtimer, rtimer, owed>>
      /\ proc[p].pc = "released" /\ DeleteActive(proc[p].id, proc[p].t)
  BY DEF ReleaseRequest, Step, timers
<1>2. proc[p] \in State /\ Holds(proc[p]) /\ Knows(proc[p]) /\ Ending(proc[p])
  BY <1>1, StateFacts DEF Inv, Requests, Ending
<1>3. PICK t \in Target, i \in Id : t = proc[p].t /\ i = proc[p].id
  BY <1>1, <1>2 DEF Holds
<1>4. PICK then \in {"idle", "next"} : then = IF proc[p].todo = {} THEN "idle" ELSE "next"
  OBVIOUS
<1>5. PICK s \in State : s = [To(p, "read") EXCEPT !.then = then]
  BY <1>2 DEF To, State, Pcs
<1>6. s.pc = "read" /\ s.then = then /\ s.todo = proc[p].todo
  BY <1>2, <1>5 DEF To, State
<1>7. ~Watching(s)
  BY <1>6 DEF Watching
<1>8. Holds(s)
  BY <1>2, <1>6, <1>7 DEF Holds
<1>9. /\ Moved(p) /\ proc'[p] = s /\ UNCHANGED <<now, up, box, overlap>> /\ up
      /\ Single' /\ (~overlap' => ~overlap /\ Alone(p))
  <2>1. Step(p, "released", s)
    BY <1>4, <1>5 DEF ReleaseRequest
  <2> QED BY <1>8, <2>1, StepFacts
<1>10. /\ req' \in [Id -> Request \cup {None}] /\ pending' \in [Target -> Id \cup {None}]
       /\ req'[i] = None /\ \A j \in Id \ {i} : req'[j] = req[j]
       /\ \A j \in Id : /\ j > made => req'[j] = None
                        /\ Pending(j)' => Pending(j) /\ req'[j] = req[j]
       /\ ~Pending(i)'
  BY <1>1, <1>3, DeletedFacts
<1>11. Types'
  BY <1>1, <1>9, <1>10, TypeFacts, TypesStep
<1>12. \A r \in proc[p].todo : r[1] \in Id
  <2>1. \A r \in Id \X Target : r[1] \in Id
    OBVIOUS
  <2> QED BY <1>2, <2>1 DEF Holds
<1>13. Requests'
  <2>1. \A r \in proc[p].todo : r[1] <= made /\ ~Pending(r[1])'
    BY <1>2, <1>10, <1>12 DEF Knows
  <2>2. Knows(proc[p])'
    BY <1>1, <1>6, <1>9, <2>1 DEF Knows, Granting
  <2> QED BY <1>1, <1>6, <1>9, <1>10, <2>2, RequestsStep DEF Granting
<1>14. Serial'
  <2>1. ~overlap => rtimer[i] = None /\ Undisturbed(proc[p])
    BY <1>1, <1>3, <1>9, SerialFacts DEF Undisturbed
  <2>2. ListedToParties'
    BY <1>1, <1>9, ListedFacts DEF Inv, Serial
  <2>3. TakeoversTimed'
    BY <1>1, <1>9, <1>10, <2>1 DEF Inv, Serial, TakeoversTimed, Granted, InState
  <2>4. ~overlap => \A k, y : ByTimer(k, y) => ByTimer(k, y)'
    BY <1>1, <1>10, <2>1 DEF ByTimer, Granted, InState
  <2>5. \A k, y : ~ByProc(proc[p], k, y)
    BY <1>1 DEF ByProc, Watching
  <2>6. ~overlap' => \A k \in Target : \A y : Minded(k, y) => Minded(k, y)'
    BY <1>9, <2>4, <2>5, MindedAlone
  <2>7. ~overlap' => Undisturbed(proc[p])'
    <3>1. ~overlap => \A r \in proc[p].todo : req'[r[1]] # None => req'[r[1]].t = r[2]
      BY <1>2, <1>10, <1>12, <2>1 DEF Undisturbed
    <3> QED BY <1>6, <1>7, <1>9, <3>1 DEF Undisturbed
  <2>8. WillRead(proc'[p])
    BY <1>6, <1>9 DEF WillRead
  <2> QED BY <1>1, <1>6, <1>9, <2>2, <2>3, <2>6, <2>7, <2>8, SerialKept
<1> QED BY <1>9, <1>11, <1>13, <1>14 DEF Inv

LEMMA ReleaseNextInv ==
  ASSUME Inv, NEW p \in Proc, ReleaseNext(p), calls' \in 0 .. MaxCalls
  PROVE  Inv'
<1>1. /\ UNCHANGED <<lease, idx, req, pending, made, roster, ltimer, gtimer, rtimer, owed>>
      /\ proc[p].pc = "next"
  BY DEF ReleaseNext, Step, redis, timers
<1>2. proc[p] \in State /\ Holds(proc[p]) /\ Knows(proc[p]) /\ Ending(proc[p])
  BY <1>1, StateFacts DEF Inv, Requests, Ending
<1>3. PICK r \in proc[p].todo : Step(p, "next", Releasing(r[1], r[2], proc[p].todo \ {r}))
  BY DEF ReleaseNext
<1>4. proc[p].todo \subseteq Id \X Target /\ r \in Id \X Target
  BY <1>2, <1>3 DEF Holds
<1>5. PICK i \in Id, t \in Target : i = r[1] /\ t = r[2]
  BY <1>4
<1>6. PICK todo \in SUBSET (Id \X Target) : todo = proc[p].todo \ {r}
  BY <1>4
<1>7. PICK s \in State : s = Releasing(i, t, todo)
  BY ReleasingFacts
<1>8. /\ Holds(s) /\ s.pc = "release" /\ s.id = i /\ s.t = t /\ s.todo = todo
      /\ ~Watching(s) /\ Step(p, "next", s)
  BY <1>3, <1>5, <1>6, <1>7, ReleasingFacts DEF Watching
<1>9. /\ Moved(p) /\ proc'[p] = s /\ UNCHANGED <<now, up, box, overlap>> /\ up
      /\ Single' /\ (~overlap' => ~overlap /\ Alone(p))
  BY <1>8, StepFacts
<1>10. Types'
  BY <1>1, <1>9, TypeFacts, TypesStep
<1>11. Requests'
  <2>1. Knows(s)
    BY <1>2, <1>3, <1>5, <1>6, <1>8 DEF Knows, Granting
  <2>2. Knows(proc[p])'
    BY <1>1, <1>9, <2>1 DEF Knows, Pending, InState
  <2> QED BY <1>1, <1>8, <1>9, <2>2, RequestsKept DEF Granting
<1>12. Serial'
  <2>1. ListedToParties' /\ TakeoversTimed'
    BY <1>1, <1>9, ListedFacts DEF Inv, Serial, TakeoversTimed, Granted, InState
  <2>2. \A k, y : ByTimer(k, y) => ByTimer(k, y)'
    BY <1>1, TimersKept
  <2>3. \A k, y : ~ByProc(proc[p], k, y)
    BY <1>1 DEF ByProc, Watching
  <2>4. ~overlap' => \A k \in Target : \A y : Minded(k, y) => Minded(k, y)'
    BY <1>9, <2>2, <2>3, MindedAlone
  <2>5. ~overlap' => Undisturbed(proc[p])'
    <3>1. ~overlap => \A x \in proc[p].todo : req[x[1]] # None => req[x[1]].t = x[2]
      BY <1>2, <1>9, SerialFacts DEF Undisturbed
    <3> QED BY <1>1, <1>3, <1>5, <1>6, <1>8, <1>9, <3>1 DEF Undisturbed
  <2>6. WillRead(proc'[p])
    BY <1>8, <1>9 DEF WillRead
  <2> QED BY <1>1, <1>8, <1>9, <2>1, <2>4, <2>5, <2>6, SerialKept
<1> QED BY <1>9, <1>10, <1>11, <1>12 DEF Inv

-----------------------------------------------------------------------------
(***************************************************************************)
(* Time, crashes and restarts.                                             *)
(***************************************************************************)
\* What the clock changes.
LEMMA TickFacts ==
  ASSUME Inv, Tick, calls' \in 0 .. MaxCalls
  PROVE  /\ now' = now + 1 /\ now' \in Time /\ now' \in Nat
         /\ UNCHANGED <<up, idx, made, roster, box, ltimer, gtimer, rtimer, owed, overlap>>
         /\ lease' \in [Target -> Lease \cup {None}]
         /\ \A t \in Target : \/ lease'[t] = lease[t]
                              \/ lease[t] # None /\ lease[t].exp <= now' /\ lease'[t] = None
         /\ req' \in [Id -> Request \cup {None}]
         /\ \A i \in Id : \/ req'[i] = req[i]
                          \/ req[i] # None /\ req[i].until <= now' /\ req'[i] = None
         /\ pending' \in [Target -> Id \cup {None}]
         /\ proc' \in [Proc -> State]
         /\ \A p \in Proc : /\ proc[p].old = FALSE /\ proc'[p].pc = proc[p].pc
                            /\ proc'[p].t = proc[p].t /\ proc'[p].id = proc[p].id
                            /\ proc'[p].row = proc[p].row /\ proc'[p].todo = proc[p].todo
                            /\ proc'[p].then = proc[p].then
                            /\ proc'[p].pc # "idle" => proc'[p].old
         /\ \A i \in Id : rtimer[i] # None => rtimer[i] + Slack > now'
<1>1. /\ now' = now + 1 /\ now' \in Time /\ now' \in Nat
      /\ UNCHANGED <<up, idx, made, roster, box, ltimer, gtimer, rtimer, owed, overlap>>
  BY TypeFacts, LendingAssumption DEF Tick, timers, Time
<1>2. /\ lease' \in [Target -> Lease \cup {None}]
      /\ \A t \in Target : \/ lease'[t] = lease[t]
                           \/ lease[t] # None /\ lease[t].exp <= now' /\ lease'[t] = None
  <2>1. lease' = [t \in Target |-> IF lease[t] # None /\ lease[t].exp <= now + 1 THEN None
                                   ELSE lease[t]]
    BY DEF Tick
  <2> QED BY <1>1, <2>1, TypeFacts
<1>3. /\ req' \in [Id -> Request \cup {None}]
      /\ \A i \in Id : \/ req'[i] = req[i]
                       \/ req[i] # None /\ req[i].until <= now' /\ req'[i] = None
  <2>1. req' = [i \in Id |-> IF i \in {j \in Id : req[j] # None /\ req[j].until <= now + 1}
                             THEN None ELSE req[i]]
    BY DEF Tick
  <2> QED BY <1>1, <2>1, TypeFacts
<1>4. pending' \in [Target -> Id \cup {None}]
  BY TypeFacts DEF Tick
<1>5. proc' = [p \in Proc |-> [proc[p] EXCEPT !.old = (p \in Busy)]]
  BY DEF Tick
<1>6. ASSUME NEW p \in Proc
      PROVE  /\ proc'[p] \in State
             /\ proc[p].old = FALSE /\ proc'[p].pc = proc[p].pc
             /\ proc'[p].t = proc[p].t /\ proc'[p].id = proc[p].id
             /\ proc'[p].row = proc[p].row /\ proc'[p].todo = proc[p].todo
             /\ proc'[p].then = proc[p].then
             /\ proc'[p].pc # "idle" => proc'[p].old
  <2>1. PICK s \in State : s = proc[p]
    BY StateFacts
  <2>2. PICK b \in BOOLEAN : b = (p \in Busy)
    <3>1. CASE p \in Busy
      <4>1. TRUE = (p \in Busy)
        BY <3>1
      <4> QED BY <4>1
    <3>2. CASE p \notin Busy
      <4>1. FALSE = (p \in Busy)
        BY <3>2
      <4> QED BY <4>1
    <3> QED BY <3>1, <3>2
  <2>3. proc'[p] = [s EXCEPT !.old = b]
    BY <1>5, <2>1, <2>2
  <2>4. /\ proc'[p] \in State /\ proc'[p].pc = s.pc /\ proc'[p].t = s.t /\ proc'[p].id = s.id
        /\ proc'[p].row = s.row /\ proc'[p].todo = s.todo /\ proc'[p].then = s.then
        /\ proc'[p].old = b
    BY <2>3 DEF State
  <2>5. proc[p].old = FALSE
    BY <2>1 DEF Tick, State
  <2>6. s.pc # "idle" => b
    BY <2>1, <2>2 DEF Busy
  <2> QED BY <2>1, <2>4, <2>5, <2>6
<1>7. proc' \in [Proc -> State]
  BY <1>5, <1>6
<1>8. ASSUME NEW i \in Id, rtimer[i] # None PROVE rtimer[i] + Slack > now'
  <2>1. ~(rtimer[i] + (Slack - 1) <= now)
    BY <1>8, TypeFacts DEF Tick, Overdue
  <2>2. rtimer[i] \in Nat
    BY <1>8, TypeFacts, DueFacts
  <2> QED BY <1>1, <2>1, <2>2, TypeFacts, LendingAssumption
<1> QED BY <1>1, <1>2, <1>3, <1>4, <1>6, <1>7, <1>8

LEMMA TickRequests ==
  ASSUME Inv, Tick, calls' \in 0 .. MaxCalls
  PROVE  Requests'
<1>1. /\ now' = now + 1 /\ UNCHANGED <<up, made, gtimer>>
      /\ \A i \in Id : Pending(i)' => Pending(i) /\ req'[i] = req[i]
      /\ \A i \in Id : req[i] = None => req'[i] = None
  BY TickFacts DEF Pending, InState
<1>2. Inserting' = Inserting
  BY TickFacts DEF Inserting
<1>3. Drawn'
  BY <1>1, <1>2 DEF Inv, Requests, Drawn
<1>4. NotEarly'
  BY <1>1 DEF Inv, Requests, NotEarly
<1>5. RequestWatched'
  <2>1. \A p \in Proc : proc'[p].pc = proc[p].pc /\ proc'[p].id = proc[p].id
    BY TickFacts
  <2>2. RequestWatched
    BY DEF Inv, Requests
  <2> QED BY <1>1, <2>1, <2>2 DEF RequestWatched, Pending
<1>6. ASSUME NEW p \in Proc PROVE Knows(proc[p])'
  <2>1. /\ proc'[p].pc = proc[p].pc /\ proc'[p].id = proc[p].id /\ proc'[p].todo = proc[p].todo
        /\ proc'[p].then = proc[p].then
    BY TickFacts
  <2>2. Knows(proc[p]) /\ Holds(proc[p])
    BY StateFacts DEF Inv, Requests
  <2>3. (Granting(proc'[p]) <=> Granting(proc[p])) /\ (Ending(proc'[p]) <=> Ending(proc[p]))
    BY <2>1 DEF Granting, Ending
  <2>4. \A r \in Id \X Target : r[1] \in Id
    OBVIOUS
  <2>5. /\ Ending(proc[p]) => \A r \in proc[p].todo : r[1] \in Id
        /\ Granting(proc[p]) \/ proc[p].pc \in {"ungrant", "release", "released"}
             => proc[p].id \in Id
    BY <2>2, <2>4 DEF Holds, Granting
  <2>6. Ending(proc'[p]) => \A r \in proc'[p].todo : r[1] <= made' /\ ~Pending(r[1])'
    BY <1>1, <2>1, <2>2, <2>3, <2>5 DEF Knows
  <2>7. ASSUME Granting(proc'[p]), NEW i \in Id, i = proc'[p].id, Pending(i)'
        PROVE  req'[i].at <= IF proc'[p].pc = "window" THEN now' + Window ELSE now'
    <3>1. Pending(i) /\ req'[i] = req[i]
      BY <1>1, <2>7
    <3>2. req[i].at <= IF proc[p].pc = "window" THEN now + Window ELSE now
      BY <2>1, <2>2, <2>3, <2>7, <3>1 DEF Knows
    <3>3. req[i].at \in Nat
      BY <3>1, TypeFacts, DueFacts DEF Pending, InState, Request
    <3> QED BY <1>1, <2>1, <3>1, <3>2, <3>3, TypeFacts, LendingAssumption
  <2> QED BY <1>1, <2>1, <2>2, <2>3, <2>5, <2>6, <2>7 DEF Knows
<1> QED BY <1>3, <1>4, <1>5, <1>6 DEF Requests

\* Every target that was minded still is, now or at any later time.
LEMMA TickMinded ==
  ASSUME Inv, Tick, calls' \in 0 .. MaxCalls, up, ~overlap, NEW t \in Target,
         NEW x \in Nat, NEW y \in Nat, x <= y, Minded(t, x)
  PROVE  Minded(t, y)'
<1>1. UNCHANGED <<ltimer, rtimer>> /\ now' = now + 1
  BY TickFacts
<1>2. ASSUME NEW i \in Id, Granted(i), req[i].until > now' PROVE Granted(i)' /\ req'[i] = req[i]
  <2>1. req[i].until \in Nat
    BY <1>2, TypeFacts, DueFacts DEF Granted, InState, Request
  <2>2. req'[i] = req[i]
    BY <1>1, <1>2, <2>1, TypeFacts, TickFacts
  <2> QED BY <1>2, <2>2 DEF Granted, InState
<1>3. CASE ByTimer(t, x)
  <2>1. ByTimer(t, y)
    BY <1>3, LaterTimer
  <2>2. ASSUME NEW i \in Id, Granted(i), rtimer[i] # None, rtimer[i] + Slack <= req[i].until
        PROVE  Granted(i)' /\ req'[i] = req[i]
    <3>1. rtimer[i] + Slack > now' /\ rtimer[i] \in Nat /\ req[i].until \in Nat
      BY <2>2, TypeFacts, TickFacts, DueFacts DEF Granted, InState, Request
    <3>2. req[i].until > now'
      BY <1>1, <2>2, <3>1, TypeFacts, LendingAssumption
    <3> QED BY <1>2, <2>2, <3>2
  <2> QED BY <1>1, <2>1, <2>2 DEF ByTimer, Minded
<1>4. ASSUME NEW p \in Proc, ByProc(proc[p], t, x) PROVE ByProc(proc[p], t, y)'
  <2>1. /\ proc'[p].pc = proc[p].pc /\ proc'[p].t = proc[p].t /\ proc'[p].id = proc[p].id
        /\ proc'[p].row = proc[p].row /\ proc'[p].todo = proc[p].todo
        /\ proc'[p].then = proc[p].then /\ proc[p].old = FALSE
    BY TickFacts
  <2>2. Holds(proc[p]) /\ Undisturbed(proc[p])
    BY StateFacts DEF Inv, Serial
  <2>3. CASE proc[p].pc = "arm" /\ proc[p].row <= x
    <3>1. PICK z \in Nat : z = proc[p].row
      BY <2>2, <2>3, DueFacts DEF Holds
    <3>2. z <= y
      BY <2>3, <3>1
    <3> QED BY <1>4, <2>1, <2>3, <3>1, <3>2 DEF ByProc
  <2>4. CASE proc[p].pc = "granted" /\ proc[p].row.at + Hold <= x
    <3>1. PICK z \in Nat : z = proc[p].row.at
      BY <2>2, <2>4 DEF Holds, Time
    <3>2. z + Hold <= y
      BY <2>4, <3>1, LendingAssumption
    <3> QED BY <1>4, <2>1, <2>4, <3>1, <3>2 DEF ByProc
  <2>5. CASE Watching(proc[p]) /\ \A z \in proc[p].todo : z <= x
    <3>1. PICK i \in Id, z \in Nat : i = proc[p].id /\ proc[p].todo = {z}
      BY <2>2, <2>5, DueFacts DEF Holds
    <3>2. Granted(i) /\ req[i].t = t /\ z + Slack <= req[i].until /\ now + Hold <= z
      BY <1>4, <2>1, <2>2, <2>5, <3>1, TypeFacts DEF Undisturbed, ByProc
    <3>3. req[i].until \in Nat
      BY <3>2, TypeFacts, DueFacts DEF Granted, InState, Request
    <3>4. req[i].until > now'
      BY <1>1, <3>2, <3>3, TypeFacts, LendingAssumption
    <3>5. Granted(i)' /\ req'[i] = req[i] /\ z <= y
      BY <1>2, <2>5, <3>1, <3>2, <3>4
    <3>6. Watching(proc'[p])
      BY <2>1, <2>5 DEF Watching
    <3> QED BY <1>4, <2>1, <3>1, <3>2, <3>5, <3>6 DEF ByProc
  <2>6. CASE proc[p].pc = "release"
    BY <1>4, <2>1, <2>6 DEF ByProc
  <2> QED BY <1>4, <2>3, <2>4, <2>5, <2>6 DEF ByProc
<1> QED BY <1>3, <1>4 DEF Minded

LEMMA TickUndisturbed ==
  ASSUME Inv, Tick, calls' \in 0 .. MaxCalls, up, ~overlap, NEW p \in Proc
  PROVE  Undisturbed(proc[p])'
<1>1. /\ proc'[p].pc = proc[p].pc /\ proc'[p].t = proc[p].t /\ proc'[p].id = proc[p].id
      /\ proc'[p].row = proc[p].row /\ proc'[p].todo = proc[p].todo
      /\ proc'[p].then = proc[p].then /\ proc[p].old = FALSE
      /\ proc'[p].pc # "idle" => proc'[p].old
  BY TickFacts
<1>2. Holds(proc[p]) /\ Undisturbed(proc[p])
  BY StateFacts DEF Inv, Serial
<1>3. /\ now' = now + 1 /\ now \in Nat /\ UNCHANGED <<owed, rtimer>>
      /\ \A k \in Target : lease[k] = None => lease'[k] = None
      /\ \A i \in Id : req[i] = None => req'[i] = None
      /\ \A i \in Id : req'[i] # None => req'[i] = req[i]
      /\ \A k \in Target : lease'[k] # None => lease'[k] = lease[k]
  BY TickFacts, TypeFacts
<1>4. /\ Watching(proc'[p]) <=> Watching(proc[p])
      /\ Ending(proc'[p]) <=> Ending(proc[p])
  BY <1>1 DEF Watching, Ending
<1>5. \A i \in Id : ~Granted(i) => ~Granted(i)'
  BY <1>3 DEF Granted, InState
<1>6. proc[p].pc \in {"disarm", "expired", "released"} => lease'[proc[p].t] = None
  BY <1>2, <1>3 DEF Undisturbed, Holds
<1>7. /\ proc[p].pc \in {"revoke", "disarm", "released"} => ~owed'[proc[p].t]
      /\ proc[p].pc = "released" => rtimer'[proc[p].id] = None
  BY <1>2, <1>3 DEF Undisturbed
<1>8. proc[p].pc = "arm" =>
        proc[p].row <= IF lease'[proc[p].t] = None THEN now' ELSE lease'[proc[p].t].exp
  <2> SUFFICES ASSUME proc[p].pc = "arm"
               PROVE  proc[p].row <= IF lease'[proc[p].t] = None THEN now'
                                     ELSE lease'[proc[p].t].exp
    OBVIOUS
  <2>1. PICK t \in Target, z \in Nat : t = proc[p].t /\ z = proc[p].row
    BY <1>2, DueFacts DEF Holds
  <2>2. z <= IF lease[t] = None THEN now ELSE lease[t].exp
    BY <1>2, <2>1 DEF Undisturbed
  <2>3. CASE lease'[t] = lease[t]
    BY <1>3, <2>1, <2>2, <2>3
  <2>4. CASE lease'[t] # lease[t]
    <3>1. lease[t] # None /\ lease[t].exp <= now' /\ lease'[t] = None
      BY <2>4, TickFacts
    <3>2. lease[t].exp \in Nat
      BY <3>1, TypeFacts, DueFacts DEF Lease
    <3> QED BY <1>3, <2>1, <2>2, <3>1, <3>2
  <2> QED BY <2>3, <2>4
<1>9. proc[p].pc = "update" /\ lease'[proc[p].t] # None =>
        /\ lease'[proc[p].t].to = proc[p].row.to
        /\ proc[p].then = "read" => lease'[proc[p].t].exp = proc[p].row.exp
  BY <1>2, <1>3 DEF Undisturbed, Holds
<1>10. proc[p].pc \in {"decide", "grant", "granted"} => ~Granted(proc[p].id)'
  <2>1. \A i \in Id : i = proc[p].id /\ ~Granted(i) => ~Granted(proc[p].id)'
    BY <1>1, <1>3 DEF Granted, InState
  <2> QED BY <1>2, <2>1 DEF Undisturbed, Holds
<1>11. proc[p].pc \in {"release", "released"} /\ req'[proc[p].id] # None
         => req'[proc[p].id].t = proc[p].t
  BY <1>2, <1>3 DEF Undisturbed, Holds
<1>12. Ending(proc[p]) => \A r \in proc[p].todo : req'[r[1]] # None => req'[r[1]].t = r[2]
  <2>1. \A r \in Id \X Target : r[1] \in Id
    OBVIOUS
  <2> QED BY <1>2, <1>3, <2>1 DEF Undisturbed, Holds
<1>13. proc[p].pc = "clean" => \A t \in proc[p].todo : lease'[t] = None
  BY <1>2, <1>3 DEF Undisturbed, Holds
<1>14. proc[p].pc \in {"grant", "granted"} =>
         now' <= proc[p].row.at + (IF proc'[p].old THEN 1 ELSE 0)
  <2> SUFFICES ASSUME proc[p].pc \in {"grant", "granted"}
               PROVE  now' <= proc[p].row.at + (IF proc'[p].old THEN 1 ELSE 0)
    OBVIOUS
  <2>1. PICK z \in Nat : z = proc[p].row.at
    BY <1>2 DEF Holds, Time
  <2>2. now <= z
    BY <1>1, <1>2, <2>1, TypeFacts DEF Undisturbed
  <2> QED BY <1>1, <1>3, <2>1, <2>2
<1>15. Watching(proc[p]) =>
         /\ Granted(proc[p].id)' /\ req'[proc[p].id].t = proc[p].t /\ rtimer'[proc[p].id] = None
         /\ \A y \in proc[p].todo : /\ now' + Hold <= y + (IF proc'[p].old THEN 1 ELSE 0)
                                    /\ y + Slack <= req'[proc[p].id].until
  <2> SUFFICES ASSUME Watching(proc[p])
               PROVE  /\ Granted(proc[p].id)' /\ req'[proc[p].id].t = proc[p].t
                      /\ rtimer'[proc[p].id] = None
                      /\ \A y \in proc[p].todo :
                           /\ now' + Hold <= y + (IF proc'[p].old THEN 1 ELSE 0)
                           /\ y + Slack <= req'[proc[p].id].until
    OBVIOUS
  <2>1. PICK i \in Id, z \in Nat : i = proc[p].id /\ proc[p].todo = {z}
    BY <1>2, DueFacts DEF Holds
  <2>2. Granted(i) /\ req[i].t = proc[p].t /\ z + Slack <= req[i].until /\ now + Hold <= z
        /\ rtimer[i] = None
    BY <1>1, <1>2, <2>1, TypeFacts DEF Undisturbed
  <2>3. req[i].until \in Nat
    BY <2>2, TypeFacts, DueFacts DEF Granted, InState, Request
  <2>4. req[i].until > now'
    BY <1>3, <2>2, <2>3, LendingAssumption
  <2>5. req'[i] = req[i]
    BY <1>3, <2>3, <2>4, TickFacts
  <2>6. Granted(proc[p].id)'
    BY <1>1, <2>1, <2>2, <2>5 DEF Granted, InState
  <2>7. proc'[p].old
    BY <1>1 DEF Watching
  <2> QED BY <1>3, <2>1, <2>2, <2>5, <2>6, <2>7, LendingAssumption
<1> QED BY <1>1, <1>4, <1>6, <1>7, <1>8, <1>9, <1>10, <1>11, <1>12, <1>13, <1>14, <1>15
        DEF Undisturbed

LEMMA TickInv ==
  ASSUME Inv, Tick, calls' \in 0 .. MaxCalls
  PROVE  Inv'
<1>1. /\ now' = now + 1 /\ now' \in Time /\ now' \in Nat /\ now \in Nat
      /\ UNCHANGED <<up, idx, made, roster, box, ltimer, gtimer, rtimer, owed, overlap>>
  BY TickFacts, TypeFacts
<1>2. Types'
  <2>1. TypeOK'
    <3>1. DOMAIN proc' = Proc
      BY TickFacts
    <3> QED BY <1>1, <3>1, TickFacts, TypeFacts DEF TypeOK
  <2>2. ASSUME NEW p \in Proc PROVE Holds(proc'[p])
    <3>1. /\ proc'[p].pc = proc[p].pc /\ proc'[p].t = proc[p].t /\ proc'[p].id = proc[p].id
          /\ proc'[p].row = proc[p].row /\ proc'[p].todo = proc[p].todo
          /\ proc'[p].then = proc[p].then
      BY TickFacts
    <3>2. Holds(proc[p])
      BY StateFacts
    <3> QED BY <3>1, <3>2 DEF Holds, Watching, Ending
  <2> QED BY <2>1, <2>2, TickFacts DEF Types
<1>3. Single'
  <2>1. \A p \in Proc : proc'[p].pc = proc[p].pc
    BY TickFacts
  <2> QED BY <1>1, <2>1 DEF Inv, Single
<1>4. Serial'
  <2>1. ListedToParties'
    BY <1>1, TickFacts, ListedFacts DEF Inv, Serial
  <2>2. TakeoversTimed'
    <3> SUFFICES ASSUME ~overlap', NEW i \in Id, rtimer'[i] # None
                 PROVE  up' /\ Granted(i)' /\ rtimer'[i] + Slack <= req'[i].until
      BY DEF TakeoversTimed
    <3>1. up /\ Granted(i) /\ rtimer[i] + Slack <= req[i].until
      BY <1>1 DEF Inv, Serial, TakeoversTimed
    <3>2. rtimer[i] + Slack > now' /\ rtimer[i] \in Nat /\ req[i].until \in Nat
      BY <1>1, <3>1, TypeFacts, TickFacts, DueFacts DEF Granted, InState, Request
    <3>3. ~(req[i].until <= now')
      BY <1>1, <3>1, <3>2, LendingAssumption
    <3>4. req'[i] = req[i]
      BY <3>3, TickFacts
    <3> QED BY <1>1, <3>1, <3>4 DEF Granted, InState
  <2>3. ASSUME up', ~overlap' PROVE LeasesMinded' /\ RosterMinded' /\ BrakeMinded'
    <3>1. up /\ ~overlap /\ LeasesMinded /\ RosterMinded /\ BrakeMinded
      BY <1>1, <2>3 DEF Inv, Serial
    <3>2. \A t \in Target : \A x, y \in Nat : x <= y /\ Minded(t, x) => Minded(t, y)'
      BY <3>1, TickMinded
    <3>3. \A t \in Target : Minded(t, now) => Minded(t, now)'
      BY <1>1, <3>2
    <3>4. \A t \in Target : lease[t] # None => lease[t].exp \in Nat /\ lease[t].exp <= lease[t].exp
      BY TypeFacts, DueFacts DEF Lease
    <3>5. ASSUME NEW t \in Target, lease'[t] # lease[t] PROVE lease'[t] = None /\ Minded(t, now)'
      <4>1. lease[t] # None /\ lease[t].exp <= now' /\ lease'[t] = None
        BY <3>5, TickFacts
      <4>2. PICK x \in Nat : x = lease[t].exp
        BY <3>4, <4>1
      <4>3. Minded(t, x)
        BY <3>1, <4>1, <4>2 DEF LeasesMinded
      <4> QED BY <1>1, <3>2, <4>1, <4>2, <4>3
    <3>6. LeasesMinded'
      <4> SUFFICES ASSUME NEW t \in Target, lease'[t] # None PROVE Minded(t, lease[t].exp)'
        BY DEF LeasesMinded
      <4>1. lease'[t] = lease[t]
        BY <3>5
      <4>2. PICK x \in Nat : x = lease[t].exp /\ x <= x
        BY <3>4, <4>1
      <4>3. Minded(t, x)
        BY <3>1, <4>1, <4>2 DEF LeasesMinded
      <4> QED BY <3>2, <4>1, <4>2, <4>3
    <3>7. ASSUME NEW m, Shown(m) PROVE Shown(m)'
      <4>1. \A t \in Target : /\ RightOf(t)' = RightOf(t) \/ (lease'[t] = None /\ Minded(t, now)')
                              /\ lease[t] = None => lease'[t] = None
        BY <3>5 DEF RightOf
      <4> QED BY <3>3, <3>7, <4>1, ShownKept
    <3>8. RosterMinded'
      <4>1. (\E p \in Proc : WillRead(proc'[p])) \/ Shown(roster)'
        <5>1. CASE Shown(roster)
          BY <1>1, <3>7, <5>1
        <5>2. ASSUME NEW p \in Proc, WillRead(proc[p]) PROVE WillRead(proc'[p])
          BY <5>2, TickFacts DEF WillRead
        <5> QED BY <3>1, <5>1, <5>2 DEF RosterMinded
      <4>2. ASSUME NEW p \in Proc, proc'[p].pc = "publish" PROVE Shown(proc[p].row)'
        <5>1. PICK m : m = proc[p].row
          OBVIOUS
        <5>2. Shown(m) /\ proc'[p].row = m
          BY <3>1, <4>2, <5>1, TickFacts DEF RosterMinded
        <5> QED BY <3>7, <5>2
      <4> QED BY <4>1, <4>2 DEF RosterMinded
    <3>9. BrakeMinded'
      <4> SUFFICES ASSUME NEW t \in Target, owed'[t], lease'[t] = None
                   PROVE  \/ Minded(t, now)'
                          \/ \E p \in Proc : proc'[p].pc = "expired" /\ proc'[p].t = t
        BY DEF BrakeMinded
      <4>1. CASE lease[t] # None
        BY <3>5, <4>1
      <4>2. CASE lease[t] = None
        <5>1. \A p \in Proc : proc'[p].pc = proc[p].pc /\ proc'[p].t = proc[p].t
          BY TickFacts
        <5> QED BY <1>1, <3>1, <3>3, <4>2, <5>1 DEF BrakeMinded
      <4> QED BY <4>1, <4>2
    <3> QED BY <3>6, <3>8, <3>9
  <2>4. ASSUME up', ~overlap', NEW p \in Proc PROVE Undisturbed(proc[p])'
    BY <1>1, <2>4, TickUndisturbed
  <2> QED BY <2>1, <2>2, <2>3, <2>4 DEF Serial
<1> QED BY <1>2, <1>3, <1>4, TickRequests DEF Inv

LEMMA CrashInv ==
  ASSUME Inv, Crash, calls' \in 0 .. MaxCalls
  PROVE  Inv'
<1>1. /\ up' = FALSE /\ proc' = [p \in Proc |-> Idle]
      /\ ltimer' = [t \in Target |-> None] /\ gtimer' = [i \in Id |-> None]
      /\ rtimer' = [i \in Id |-> None]
      /\ UNCHANGED <<now, lease, idx, req, pending, made, roster, box, owed, overlap>>
  BY DEF Crash, redis
<1>2. \A p \in Proc : proc'[p] = Idle /\ proc'[p].pc = "idle"
  BY <1>1, IdleOK
<1>3. Types'
  <2>1. proc' \in [Proc -> State]
    BY <1>1, IdleOK
  <2>2. \A p \in Proc : Holds(proc'[p])
    BY <1>2, IdleOK
  <2> QED BY <1>1, <2>1, <2>2, TypeFacts DEF Types, TypeOK
<1>4. Requests'
  <2>1. Inserting' = {}
    BY <1>2 DEF Inserting
  <2>2. Cardinality(Inserting') = 0
    BY <2>1, FS_EmptySet
  <2>3. Drawn'
    BY <1>1, <2>2, TypeFacts, LendingAssumption DEF Inv, Requests, Drawn
  <2>4. NotEarly' /\ RequestWatched'
    BY <1>1 DEF NotEarly, RequestWatched
  <2>5. \A p \in Proc : Knows(proc[p])'
    BY <1>2 DEF Knows, Granting, Ending
  <2> QED BY <2>3, <2>4, <2>5 DEF Requests
<1>5. Single'
  BY <1>1, <1>2 DEF Single
<1>6. Serial'
  <2>1. ListedToParties'
    BY <1>1, ListedFacts DEF Inv, Serial
  <2>2. TakeoversTimed'
    BY <1>1 DEF TakeoversTimed
  <2> QED BY <1>1, <2>1, <2>2 DEF Serial
<1> QED BY <1>3, <1>4, <1>5, <1>6 DEF Inv

LEMMA RestartInv ==
  ASSUME Inv, NEW p \in Proc, Restart(p), calls' \in 0 .. MaxCalls
  PROVE  Inv'
<1>1. /\ ~up /\ up' = TRUE /\ box' = None /\ ltimer' = RecoverLeases
      /\ gtimer' = RecoverRequests
      /\ owed' = [t \in Target |-> owed[t] /\ lease[t] # None]
      /\ UNCHANGED <<now, lease, idx, req, pending, made, roster, rtimer, overlap>>
  BY DEF Restart, redis
<1>2. PICK s \in State : s = [Idle EXCEPT !.pc = "read"]
  BY IdleOK DEF Idle, State, Pcs, Rows
<1>3. s.pc = "read" /\ s.then = "idle"
  BY <1>2 DEF Idle
<1>4. Holds(s) /\ ~Watching(s) /\ ~Ending(s) /\ ~Granting(s)
  BY <1>3 DEF Holds, Watching, Ending, Granting
<1>5. Moved(p) /\ proc'[p] = s
  BY <1>2, <1>4, MovedTo DEF Restart
<1>6. \A q \in Proc : proc[q].pc = "idle"
  BY <1>1 DEF Inv, Single
<1>7. Alone(p)
  BY <1>5, <1>6 DEF Alone, Moved
<1>8. /\ ltimer' \in [Target -> Due \cup {None}]
      /\ \A t \in Target : lease[t] # None => ltimer'[t] = lease[t].exp
  <2>1. \A t \in Target : lease[t] # None => lease[t].exp \in Due
    BY TypeFacts DEF Lease
  <2> QED BY <1>1, <2>1 DEF RecoverLeases, ListAll
<1>9. /\ gtimer' \in [Id -> Due \cup {None}]
      /\ \A i \in Id : /\ ~Pending(i) => gtimer'[i] = None
                       /\ Pending(i) => gtimer'[i] # None /\ req[i].at <= gtimer'[i]
  <2>1. \A i \in Id : Pending(i) => req[i].at \in Due /\ req[i].at \in Nat
    BY TypeFacts, DueFacts DEF Pending, InState, Request
  <2>2. now \in Due /\ now \in Nat
    BY TypeFacts, DueFacts
  <2>3. gtimer' = [i \in Id |-> IF Pending(i) THEN IF req[i].at > now THEN req[i].at ELSE now
                                ELSE None]
    BY <1>1 DEF RecoverRequests, Pending
  <2>4. gtimer' \in [Id -> Due \cup {None}]
    BY <2>1, <2>2, <2>3
  <2> QED BY <2>1, <2>2, <2>3, <2>4, NoneFacts
<1>10. owed' \in [Target -> BOOLEAN] /\ \A t \in Target : owed'[t] => lease[t] # None
  BY <1>1
<1>11. Types'
  BY <1>1, <1>5, <1>8, <1>9, <1>10, TypeFacts, TypesStep
<1>12. Requests'
  <2>1. \A i \in Id : Pending(i)' <=> Pending(i)
    BY <1>1 DEF Pending, InState
  <2>2. Drawn'
    <3>1. Cardinality(Inserting') <= Cardinality(Inserting) /\ Cardinality(Inserting') \in Nat
      BY <1>3, <1>5, InsertingLess
    <3>2. made' + Cardinality(Inserting') <= MaxReq
      BY <1>1, <3>1, InsertingFacts, TypeFacts, LendingAssumption DEF Inv, Requests, Drawn
    <3>3. \A i \in Id : i > made => req[i] = None /\ ~Pending(i)
      BY DEF Inv, Requests, Drawn, Pending, InState
    <3> QED BY <1>1, <1>9, <3>2, <3>3 DEF Drawn
  <2>3. NotEarly'
    BY <1>1, <1>9, <2>1 DEF NotEarly
  <2>4. RequestWatched'
    BY <1>9, <2>1 DEF RequestWatched, Pending
  <2>5. \A q \in Proc : Knows(proc[q])'
    <3>1. ASSUME NEW q \in Proc \ {p} PROVE Knows(proc[q])'
      BY <1>7 DEF Alone, Knows, Granting, Ending
    <3>2. Knows(proc[p])'
      BY <1>3, <1>4, <1>5 DEF Knows
    <3> QED BY <3>1, <3>2
  <2> QED BY <2>2, <2>3, <2>4, <2>5 DEF Requests
<1>13. Single'
  BY <1>1, <1>7 DEF Single, Alone
<1>14. Serial'
  <2>1. ListedToParties'
    BY <1>1, ListedFacts DEF Inv, Serial
  <2>2. TakeoversTimed'
    BY <1>1 DEF Inv, Serial, TakeoversTimed
  <2>3. LeasesMinded'
    <3>1. \A t \in Target : lease[t] # None =>
            lease[t].exp \in Due /\ lease[t].exp <= lease[t].exp
      BY TypeFacts, DueFacts DEF Lease
    <3> QED BY <1>1, <1>8, <3>1, NoneFacts DEF LeasesMinded, Minded, ByTimer
  <2>4. BrakeMinded'
    BY <1>1, <1>10 DEF BrakeMinded
  <2>5. Undisturbed(proc[p])' /\ WillRead(proc'[p])
    BY <1>3, <1>4, <1>5 DEF Undisturbed, WillRead
  <2> QED BY <1>3, <1>5, <1>7, <2>1, <2>2, <2>3, <2>4, <2>5, SerialStep
<1> QED BY <1>11, <1>12, <1>13, <1>14 DEF Inv

-----------------------------------------------------------------------------
(***************************************************************************)
(* The invariant.                                                          *)
(***************************************************************************)
LEMMA InitInv == Init => Inv
<1> SUFFICES ASSUME Init PROVE Inv
  OBVIOUS
<1> USE DEF Init
<1>1. \A p \in Proc : proc[p] = Idle /\ proc[p].pc = "idle"
  BY IdleOK
<1>2. Types
  <2>1. proc \in [Proc -> State] /\ \A p \in Proc : Holds(proc[p])
    BY <1>1, IdleOK
  <2>2. 0 \in Time /\ 0 \in 0 .. MaxReq /\ 0 \in 0 .. MaxCalls
    BY LendingAssumption DEF Time
  <2>3. /\ idx \in [User \cup {Owner} -> SUBSET Target]
        /\ lease \in [Target -> Lease \cup {None}] /\ req \in [Id -> Request \cup {None}]
        /\ pending \in [Target -> Id \cup {None}] /\ roster \in [Target -> SUBSET Right]
        /\ ltimer \in [Target -> Due \cup {None}] /\ gtimer \in [Id -> Due \cup {None}]
        /\ rtimer \in [Id -> Due \cup {None}] /\ owed \in [Target -> BOOLEAN]
    OBVIOUS
  <2>4. DOMAIN proc = Proc
    OBVIOUS
  <2> QED BY <2>1, <2>2, <2>3, <2>4 DEF Types, TypeOK
<1>3. Requests
  <2>1. Inserting = {}
    BY <1>1 DEF Inserting
  <2>2. Cardinality(Inserting) = 0
    BY <2>1, FS_EmptySet
  <2>3. Drawn
    BY <2>2, LendingAssumption DEF Drawn
  <2>4. NotEarly /\ RequestWatched
    BY DEF NotEarly, RequestWatched, Pending, InState
  <2>5. \A p \in Proc : Knows(proc[p])
    BY <1>1 DEF Knows, Granting, Ending
  <2> QED BY <2>3, <2>4, <2>5 DEF Requests
<1>4. Single
  BY <1>1 DEF Single
<1>5. Serial
  <2>1. ListedToParties /\ TakeoversTimed
    BY ListedFacts DEF TakeoversTimed
  <2>2. LeasesMinded /\ BrakeMinded
    BY DEF LeasesMinded, BrakeMinded
  <2>3. \A p \in Proc : Undisturbed(proc[p])
    BY <1>1 DEF Undisturbed, Ending, Watching
  <2>4. RosterMinded
    <3>1. \A t \in Target : RightOf(t) = {}
      BY DEF RightOf
    <3>2. PICK L \in [Target -> SUBSET Right] : L = [t \in Target |-> {}]
      OBVIOUS
    <3>3. \A k \in Train : k \in Target
      BY DEF Target
    <3>4. SnapshotOf(L) = [t \in Target |-> {}]
      BY <3>2, <3>3 DEF SnapshotOf
    <3>5. Shown(roster)
      BY <3>1, <3>2, <3>4 DEF Shown
    <3> QED BY <1>1, <3>5 DEF RosterMinded
  <2> QED BY <2>1, <2>2, <2>3, <2>4 DEF Serial
<1> QED BY <1>2, <1>3, <1>4, <1>5 DEF Inv

LEMMA NextInv == Inv /\ [Next]_vars => Inv'
<1> SUFFICES ASSUME Inv, [Next]_vars PROVE Inv'
  OBVIOUS
<1>1. CASE calls < MaxCalls /\ calls' = calls + 1
  <2>0. calls' \in 0 .. MaxCalls
    BY <1>1, TypeFacts, LendingAssumption
  <2>1. ASSUME NEW p \in Proc, LeaseCalls(p) PROVE Inv'
    BY <2>0, <2>1, CreateInv, RevokeInv, UpdateInv, ListLeasesInv DEF LeaseCalls
  <2>2. ASSUME NEW p \in Proc, TakeoverCalls(p) PROVE Inv'
    BY <2>0, <2>2, RequestTakeoverInv, LoadPendingInv, ReleaseInv
    DEF TakeoverCalls, Reject, Cancel
  <2>3. ASSUME NEW p \in Proc, BoxCalls(p) PROVE Inv'
    BY <2>0, <2>3, BoxInv DEF BoxCalls
  <2>4. \E p \in Proc : LeaseCalls(p) \/ TakeoverCalls(p) \/ BoxCalls(p)
    <3>1. calls' # calls
      BY <1>1, TypeFacts
    <3> QED BY <3>1 DEF Next, vars
  <2> QED BY <2>1, <2>2, <2>3, <2>4
<1>2. CASE Next /\ UNCHANGED calls
  <2>0. calls' \in 0 .. MaxCalls
    BY <1>2, TypeFacts
  <2>1. ASSUME NEW p \in Proc, Fires(p) PROVE Inv'
    BY <2>0, <2>1, ExpiryFiresInv, AutoGrantInv, ReleaseInv DEF Fires
  <2>2. ASSUME NEW p \in Proc, Runs(p) PROVE Inv'
    BY <2>0, <2>2, SyncReadInv, SyncPublishInv, ScheduleExpiryInv, RevokeStoreInv, TimerGoneInv,
       UpdateStoreInv, CleanIndexInv, InsertRequestInv, GrantTimerInv, DecideInv, GrantLeaseInv,
       GrantRequestInv, ScheduleLeaseReleaseInv, ReleaseLeaseInv, ReleaseRequestInv,
       ReleaseNextInv
    DEF Runs
  <2>3. ASSUME NEW p \in Proc, Restart(p) PROVE Inv'
    BY <2>0, <2>3, RestartInv
  <2>4. \/ \E p \in Proc : Fires(p) \/ Runs(p) \/ Restart(p)
        \/ Tick \/ Crash
    <3>1. ~(calls' = calls + 1)
      BY <1>2, TypeFacts
    <3> QED BY <1>2, <3>1 DEF Next
  <2> QED BY <2>0, <2>1, <2>2, <2>3, <2>4, TickInv, CrashInv
<1>3. CASE UNCHANGED vars
  <2>1. UNCHANGED <<now, up, lease, idx, req, pending, made, roster, box, ltimer, gtimer, rtimer,
                    proc, calls, owed, overlap>>
    BY <1>3 DEF vars, redis, timers
  <2>2. Types'
    BY <2>1 DEF Inv, Types, TypeOK
  <2>3. Requests'
    BY <2>1 DEF Inv, Requests, Drawn, Inserting, NotEarly, RequestWatched, Knows, Pending, InState
  <2>4. Single'
    BY <2>1 DEF Inv, Single
  <2>5. Serial'
    <3>1. \A t, x : Minded(t, x)' <=> Minded(t, x)
      BY <2>1 DEF Minded, ByTimer, ByProc, Granted, InState
    <3>2. \A t \in Target : RightOf(t)' = RightOf(t)
      BY <2>1 DEF RightOf
    <3>3. \A m : Shown(m) => Shown(m)'
      BY <2>1, <3>1, <3>2, ShownKept
    <3>4. ListedToParties' /\ TakeoversTimed'
      BY <2>1, ListedFacts DEF Inv, Serial, TakeoversTimed, Granted, InState
    <3>5. up' /\ ~overlap' => LeasesMinded' /\ BrakeMinded'
      BY <2>1, <3>1 DEF Inv, Serial, LeasesMinded, BrakeMinded
    <3>6. up' /\ ~overlap' => RosterMinded'
      BY <2>1, <3>3 DEF Inv, Serial, RosterMinded
    <3>7. up' /\ ~overlap' => \A p \in Proc : Undisturbed(proc[p])'
      BY <2>1 DEF Inv, Serial, Undisturbed, Granted, InState
    <3> QED BY <3>4, <3>5, <3>6, <3>7 DEF Serial
  <2> QED BY <2>2, <2>3, <2>4, <2>5 DEF Inv
<1> QED BY <1>1, <1>2, <1>3 DEF Next

\* The inductive invariant holds in every reachable state.
THEOREM InvHolds == Spec => []Inv
BY InitInv, NextInv, PTL DEF Spec

-----------------------------------------------------------------------------
(***************************************************************************)
(* What follows.                                                           *)
(***************************************************************************)
\* Only writing a request back makes it granted.
LEMMA GrantedBy ==
  ASSUME Inv, Next, NEW i \in Id, Pending(i), Granted(i)'
  PROVE  \E p \in Proc : proc[p].pc = "granted" /\ proc[p].id = i
<1>1. req'[i] # req[i] /\ req'[i] # None /\ req' # req
  BY DEF Pending, Granted, InState
<1>2. ASSUME NEW p \in Proc, LeaseCalls(p) \/ TakeoverCalls(p) \/ BoxCalls(p) PROVE req' = req
  BY <1>2 DEF LeaseCalls, TakeoverCalls, BoxCalls, Create, Revoke, UpdateSpeedLimit,
              UpdateDuration, ListLeases, RequestTakeover, Reject, Cancel, LoadPending, Release,
              Leave, Join, redis
<1>3. ASSUME NEW p \in Proc, Fires(p) PROVE req' = req
  BY <1>3 DEF Fires, ExpiryFires, AutoGrant, ReleaseFires, redis
<1>4. ~Tick
  BY <1>1, TickFacts DEF Tick
<1>5. PICK p \in Proc : Runs(p)
  <2>1. ~Crash /\ \A p \in Proc : ~Restart(p)
    BY <1>1 DEF Crash, Restart, redis
  <2> QED BY <1>1, <1>2, <1>3, <1>4, <2>1 DEF Next
<1>6. CASE InsertRequest(p)
  <2>1. req' = [req EXCEPT ![made + 1] = [st |-> "pending", t |-> proc[p].t,
                  sig |-> proc[p].id, at |-> now + Window, until |-> now + Window + Slack]]
    BY <1>6 DEF InsertRequest, SavePending
  <2>2. made + 1 # i
    BY TypeFacts DEF Pending, InState, Inv, Requests, Drawn, Id
  <2>3. req'[i] = req[i]
    BY <2>1, <2>2, TypeFacts
  <2> QED BY <1>1, <2>3
<1>7. CASE Decide(p) \/ ReleaseRequest(p)
  <2>1. req' = [req EXCEPT ![proc[p].id] = None]
    BY <1>7 DEF Decide, ReleaseRequest, DeleteActive
  <2> QED BY <1>1, <2>1, TypeFacts
<1>8. CASE GrantRequest(p)
  <2>1. proc[p].pc = "granted" /\ req' = [req EXCEPT ![proc[p].id] = proc[p].row]
    BY <1>8 DEF GrantRequest, SaveGranted, Step
  <2>2. proc[p].id = i
    BY <1>1, <2>1, TypeFacts
  <2> QED BY <2>1, <2>2
<1>9. CASE ~(InsertRequest(p) \/ Decide(p) \/ ReleaseRequest(p) \/ GrantRequest(p))
  <2>1. req' = req
    BY <1>5, <1>9 DEF Runs, SyncRead, SyncPublish, ScheduleExpiry, RevokeStore, CancelTimer,
      UpdateStore, ExpireLease, CleanIndex, ScheduleAutoGrant, CancelGrantTimer, GrantLease,
      ScheduleLeaseRelease, ReleaseLease, ReleaseNext, redis
  <2> QED BY <1>1, <2>1
<1> QED BY <1>6, <1>7, <1>8, <1>9

\* Whatever overlaps and however often the server restarts, a takeover is
\* granted only when the driver has had the whole window to reject it
\* (takeover.go: Request, scheduleAutoGrant, autoGrant, RecoverPending).
THEOREM NoEarlyGrantHolds == Spec => NoEarlyGrant
<1>1. ASSUME Inv, [Next]_vars, NEW i \in Id, InState(i, "pending"), InState(i, "granted")'
      PROVE  now >= req[i].at
  <2>1. Pending(i) /\ Granted(i)'
    BY <1>1 DEF Pending, Granted
  <2>2. Next
    BY <1>1, <2>1 DEF vars, redis, Pending, Granted, InState
  <2>3. PICK p \in Proc : proc[p].pc = "granted" /\ proc[p].id = i
    BY <1>1, <2>1, <2>2, GrantedBy
  <2>4. req[i].at <= now
    BY <1>1, <2>1, <2>3 DEF Inv, Requests, Knows, Granting
  <2>5. req[i].at \in Nat
    BY <1>1, <2>1, TypeFacts, DueFacts DEF Pending, InState, Request
  <2> QED BY <1>1, <2>4, <2>5, TypeFacts
<1>2. Inv /\ [Next]_vars
        => [\A i \in Id : InState(i, "pending") /\ InState(i, "granted")'
                            => now >= req[i].at]_vars
  BY <1>1
<1> QED BY <1>2, InvHolds, PTL DEF Spec, NoEarlyGrant

\* As long as nothing runs, no goroutine minds a target.
LEMMA QuietMinded ==
  ASSUME Busy = {}
  PROVE  /\ \A t, x : Minded(t, x) => ByTimer(t, x)
         /\ \A p \in Proc : proc[p].pc = "idle"
<1>1. \A p \in Proc : proc[p].pc = "idle"
  BY DEF Busy
<1> QED BY <1>1 DEF Minded, ByProc, Watching

\* A lease or a request never waits for a timer that is not there: a running
\* lease has a timer that fires by its end as long as handlers do not overlap,
\* and a pending request is watched whatever overlaps, across restarts
\* (scheduleExpiry, expireLease, scheduleAutoGrant, RecoverPending).
THEOREM LeasesStayWatched == Spec => []Watched
<1>1. ASSUME Inv PROVE Watched
  <2>1. TypeOK /\ RequestWatched
    BY <1>1 DEF Inv, Types, Requests
  <2>2. ASSUME up, Busy = {}, ~overlap, NEW t \in Target, lease[t] # None
        PROVE  ByTimer(t, lease[t].exp)
    BY <1>1, <2>2, QuietMinded DEF Inv, Serial, LeasesMinded
  <2>3. LeaseWatched
    BY <2>2 DEF LeaseWatched, ByTimer, Granted
  <2> QED BY <2>1, <2>3 DEF Watched
<1> QED BY <1>1, InvHolds, PTL

LEMMA QuietTimers ==
  ASSUME Inv, Quiet
  PROVE  \A t \in Target : ~Minded(t, now)
<1> SUFFICES ASSUME NEW t \in Target, ByTimer(t, now) PROVE FALSE
  BY QuietMinded DEF Quiet
<1>1. \A x \in Target : ltimer[x] # None => ltimer[x] \in Nat /\ ~(ltimer[x] + 0 <= now)
  BY TypeFacts, DueFacts DEF Quiet, Overdue
<1>2. \A i \in Id : rtimer[i] # None => rtimer[i] \in Nat /\ ~(rtimer[i] + 0 <= now)
  BY TypeFacts, DueFacts DEF Quiet, Overdue
<1> QED BY <1>1, <1>2, TypeFacts DEF ByTimer

\* As long as handlers do not overlap, the roster the daemons have is that of
\* the leases whenever the server is quiet, and both parties of a lease find
\* it in their list (SyncLayoutRosterToRedis, the indexes of leases_redis.go).
THEOREM ViewsStayCurrent == Spec => []ViewsFollow
<1>1. ASSUME Inv, Quiet, ~overlap PROVE roster = Snapshot
  <2>1. up /\ \A p \in Proc : ~WillRead(proc[p])
    BY <1>1, QuietMinded DEF Quiet, WillRead
  <2>2. Shown(roster)
    BY <1>1, <2>1 DEF Inv, Serial, RosterMinded
  <2>3. PICK L \in [Target -> SUBSET Right] :
          roster = SnapshotOf(L) /\ \A t \in Target : L[t] = RightOf(t) \/ Minded(t, now)
    BY <2>2 DEF Shown
  <2>4. \A t \in Target : L[t] = RightOf(t)
    BY <1>1, <2>3, QuietTimers
  <2>5. L = [t \in Target |-> RightOf(t)]
    BY <2>4
  <2> QED BY <1>1, <2>3, <2>5, SnapshotFacts
<1>2. ASSUME Inv PROVE ViewsFollow
  BY <1>1, <1>2 DEF ViewsFollow, RosterFollows, Inv, Serial
<1> QED BY <1>2, InvHolds, PTL

\* As long as handlers do not overlap, a target whose lease ended while the
\* server was up has been braked by the time the server is quiet (expireLease,
\* Revoke, release).
THEOREM BrakesStayKept == Spec => []BrakedAtEnd
<1>1. ASSUME Inv PROVE BrakedAtEnd
  <2> SUFFICES ASSUME Quiet, ~overlap, NEW t \in Target, owed[t], lease[t] = None PROVE FALSE
    BY DEF BrakedAtEnd
  <2>1. up /\ \A p \in Proc : proc[p].pc # "expired"
    BY QuietMinded DEF Quiet
  <2>2. Minded(t, now)
    BY <1>1, <2>1 DEF Inv, Serial, BrakeMinded
  <2> QED BY <1>1, <2>2, QuietTimers
<1> QED BY <1>1, InvHolds, PTL

-----------------------------------------------------------------------------
(***************************************************************************)
(* The signal boxes (Signalbox): the properties of SignalboxSound, for any *)
(* number of users, boxes, goroutines, messages and faults.                *)
(*                                                                         *)
(* SignalInv is the inductive invariant.  OneSeat is inductive because the *)
(* transaction of Join ends its user's other sessions.  ToldInv holds of a *)
(* box that nobody is about to tell of.  A message's sender is first on    *)
(* the list of streams, so whatever is in a stream is Kept in his.  What a *)
(* page shows needs the most: Hears says that it has a message of the box, *)
(* or that the history on its way to it has; it holds of messages accepted *)
(* and of one about to be, for everybody but whom it is still to be told.  *)
(* A history is for one session, so the numbers of sessions must be        *)
(* distinct (Numbers), and a page has one history on its way (OneReader).  *)
(* StopInv says that within the debounce a radio stop was sent, failed or  *)
(* is being sent.                                                          *)
(***************************************************************************)

Points == {"off", "join", "joined", "leave", "left", "append", "fanout", "occupant", "replay",
           "publish", "estop"}
Session == [u : Person, n : Nat]
Message == [n : Nat, from : Person, to : Person \cup {Nil}, box : Box \cup {Nil}]

\* Everything that was ever appended; what is said of a message by its streams.
All == UNION {B!History(k) : k \in B!Key}
Kept(m) == \E f \in B!History(B!UserKey(m.from)) : f.m = m
InBox(m) == m.box # Nil => \E f \in B!History(B!BoxKey(m.box)) : f.m = m

Fields(r) ==
  r = [pc |-> r.pc, u |-> r.u, b |-> r.b, cur |-> r.cur, m |-> r.m, keys |-> r.keys,
       id |-> r.id, rows |-> r.rows, left |-> r.left]

\* What a goroutine carries along, point by point.
Shape(r) ==
  /\ Fields(r) /\ r.pc \in Points
  /\ r.pc = "off" => r = B!Off
  /\ r.pc \in {"join", "joined", "leave", "left"} => r.u \in Person /\ r.b \in Box
  /\ r.pc = "join" => r.id \in 1 .. bCalls /\ r.cur \in Session \cup {Nil}
  /\ r.pc \in {"leave", "left"} => r.cur \in Session
  /\ r.pc \in {"append", "fanout", "occupant"} => r.m \in Message
  /\ r.pc = "append" =>
       /\ r.keys \in Seq(B!Key) /\ r.keys # <<>>
       /\ Head(r.keys) = B!UserKey(r.m.from) \/ Kept(r.m)
       /\ r.m.box # Nil => r.keys[Len(r.keys)] = B!BoxKey(r.m.box)
       /\ r.id = Nil \/ [id |-> r.id, m |-> r.m] \in All
  /\ r.pc \in {"fanout", "occupant"} => InBox(r.m) /\ [id |-> r.id, m |-> r.m] \in All
  /\ r.pc = "occupant" => r.cur \in Person \cup {Nil}
  /\ r.pc = "replay" => /\ r.u \in Person \ loaded /\ r.rows \subseteq All
                        /\ r.cur \in Session /\ r.cur.u = r.u /\ r.cur.n <= bCalls

Goroutines == bProc = [p \in Agent |-> bProc[p]] /\ \A p \in Agent : Shape(bProc[p])

\* Streams hold entries of messages, and so do the pages.
Entries ==
  /\ \A k \in B!Key : \A e \in B!History(k) :
       e = [id |-> e.id, m |-> e.m] /\ e.m \in Message /\ Kept(e.m)
  /\ \A u \in Person : page[u] \subseteq All
  /\ \A m \in accepted : m \in Message /\ InBox(m)

Typed ==
  /\ signalman \subseteq Person /\ listed \subseteq Box /\ Box \ listed \subseteq dropped
  /\ dropped \subseteq Box /\ blurred \subseteq Box /\ loaded \subseteq Person
  /\ seat \in [Box -> Session \cup {Nil}] /\ told \in [Box -> Person \cup {Nil}]
  /\ \A b \in Box : seat[b] # Nil => seat[b].n <= bCalls
  /\ bNow \in 0 .. MaxMs /\ bCalls \in 0 .. MaxTalks /\ faults \in 0 .. MaxFaults
  /\ chat \in BOOLEAN /\ window \in BOOLEAN
  /\ page = [u \in Person |-> page[u]]
  /\ stream = [k \in B!Key |-> stream[k]] /\ \A k \in B!Key : stream[k] \in Seq(B!History(k))
  /\ stop \in [published : BOOLEAN, failed : BOOLEAN, confirmed : BOOLEAN]

OneSeat == \A u \in Person, b, c \in Box : B!Staffs(u, b) /\ B!Staffs(u, c) => b = c

\* Told, unless somebody is about to tell.
Telling(b) == \E p \in Agent : bProc[p].pc \in {"joined", "left"} /\ bProc[p].b = b
Occupant(b) == IF seat[b] = Nil THEN Nil ELSE seat[b].u
ToldInv == \A b \in Box : b \notin blurred /\ ~Telling(b) => told[b] = Occupant(b)

\* The session a goroutine will insert is nobody's yet.
Numbers ==
  \A p \in Agent : bProc[p].pc = "join" =>
    /\ \A q \in Agent \ {p} : bProc[q].pc = "join" => bProc[q].id # bProc[p].id
    /\ \A b \in Box : seat[b] # Nil => seat[b].n # bProc[p].id
    /\ \A q \in Agent : bProc[q].pc = "replay" => bProc[q].cur.n # bProc[p].id

OneReader ==
  \A p, q \in Agent : bProc[p].pc = "replay" /\ bProc[q].pc = "replay" /\ bProc[p].u = bProc[q].u
    => p = q

\* u staffs the box m was sent to: m is on his page, or in the history that is
\* on its way to it.
Excused(m) == m.box \in dropped \/ m \in cut \/ B!Clashes(m)
Hears(m, u) ==
  m.box # Nil /\ B!Staffs(u, m.box) /\ ~Excused(m) =>
    /\ u \in loaded => \E e \in page[u] : e.m = m
    /\ \A p \in Agent : bProc[p].pc = "replay" /\ bProc[p].cur = seat[m.box] =>
         \E e \in bProc[p].rows : e.m = m
HeardInv ==
  /\ \A m \in accepted, u \in Person : Hears(m, u)
  /\ \A p \in Agent : bProc[p].pc = "occupant" =>
       \A u \in Person \ {bProc[p].cur} : Hears(bProc[p].m, u)

StopInv ==
  window \/ stop.confirmed =>
    stop.published \/ stop.failed \/ \E p \in Agent : bProc[p].pc = "publish"

SignalInv ==
  /\ Typed /\ Goroutines /\ Entries /\ OneSeat /\ ToldInv /\ Numbers /\ OneReader /\ HeardInv
  /\ StopInv

-----------------------------------------------------------------------------
(***************************************************************************)
(* What a step does to the goroutine that takes it.                        *)
(***************************************************************************)
Record(pc, u, b, cur, m, keys, id, rows, left) ==
  [pc |-> pc, u |-> u, b |-> b, cur |-> cur, m |-> m, keys |-> keys, id |-> id, rows |-> rows,
   left |-> left]

LEMMA OffRecord == B!Off = Record("off", Nil, Nil, Nil, Nil, <<>>, Nil, {}, {})
BY DEF B!Off, Record

LEMMA OffFields ==
  /\ Fields(B!Off) /\ B!Off.pc = "off" /\ B!Off.u = Nil /\ B!Off.b = Nil /\ B!Off.cur = Nil
  /\ B!Off.m = Nil /\ B!Off.keys = <<>> /\ B!Off.id = Nil /\ B!Off.rows = {} /\ B!Off.left = {}
<1>1. /\ B!Off.pc = "off" /\ B!Off.u = Nil /\ B!Off.b = Nil /\ B!Off.cur = Nil
      /\ B!Off.m = Nil /\ B!Off.keys = <<>> /\ B!Off.id = Nil /\ B!Off.rows = {} /\ B!Off.left = {}
  BY DEF B!Off
<1>2. Fields(B!Off)
  BY <1>1, Zenon DEF Fields, B!Off
<1> QED BY <1>1, <1>2

LEMMA JoinRecordOf ==
  ASSUME NEW r, Fields(r), NEW u, NEW b, NEW c, NEW i
  PROVE  [r EXCEPT !.pc = "join", !.u = u, !.b = b, !.cur = c, !.id = i]
           = Record("join", u, b, c, r.m, r.keys, i, r.rows, r.left)
<1> DEFINE r1 == [r EXCEPT !.pc = "join"]
           r2 == [r1 EXCEPT !.u = u]
           r3 == [r2 EXCEPT !.b = b]
           r4 == [r3 EXCEPT !.cur = c]
           r5 == [r4 EXCEPT !.id = i]
<1>1. [r EXCEPT !.pc = "join", !.u = u, !.b = b, !.cur = c, !.id = i] = r5
  BY Zenon
<1>2. r1 = Record("join", r.u, r.b, r.cur, r.m, r.keys, r.id, r.rows, r.left)
  BY DEF Record, Fields
<1> HIDE DEF r1
<1>3. r2 = Record("join", u, r.b, r.cur, r.m, r.keys, r.id, r.rows, r.left)
  BY <1>2 DEF Record
<1> HIDE DEF r2
<1>4. r3 = Record("join", u, b, r.cur, r.m, r.keys, r.id, r.rows, r.left)
  BY <1>3 DEF Record
<1> HIDE DEF r3
<1>5. r4 = Record("join", u, b, c, r.m, r.keys, r.id, r.rows, r.left)
  BY <1>4 DEF Record
<1> HIDE DEF r4
<1>6. r5 = Record("join", u, b, c, r.m, r.keys, i, r.rows, r.left)
  BY <1>5 DEF Record
<1> HIDE DEF r5
<1> QED BY <1>1, <1>6

LEMMA JoinRecord ==
  ASSUME NEW u, NEW b, NEW c, NEW i
  PROVE  [B!Off EXCEPT !.pc = "join", !.u = u, !.b = b, !.cur = c, !.id = i]
           = Record("join", u, b, c, Nil, <<>>, i, {}, {})
<1>1. PICK r : r = B!Off
  OBVIOUS
<1>2. Fields(r)
  BY <1>1, OffFields
<1>3. [r EXCEPT !.pc = "join", !.u = u, !.b = b, !.cur = c, !.id = i]
      = Record("join", u, b, c, r.m, r.keys, i, r.rows, r.left)
  BY <1>2, JoinRecordOf
<1> QED BY <1>1, <1>3, OffFields, Zenon

LEMMA LeaveRecordOf ==
  ASSUME NEW r, Fields(r), NEW u, NEW b, NEW c
  PROVE  [r EXCEPT !.pc = "leave", !.u = u, !.b = b, !.cur = c]
           = Record("leave", u, b, c, r.m, r.keys, r.id, r.rows, r.left)
<1> DEFINE r1 == [r EXCEPT !.pc = "leave"]
           r2 == [r1 EXCEPT !.u = u]
           r3 == [r2 EXCEPT !.b = b]
           r4 == [r3 EXCEPT !.cur = c]
<1>1. [r EXCEPT !.pc = "leave", !.u = u, !.b = b, !.cur = c] = r4
  BY Zenon
<1>2. r1 = Record("leave", r.u, r.b, r.cur, r.m, r.keys, r.id, r.rows, r.left)
  BY DEF Record, Fields
<1> HIDE DEF r1
<1>3. r2 = Record("leave", u, r.b, r.cur, r.m, r.keys, r.id, r.rows, r.left)
  BY <1>2 DEF Record
<1> HIDE DEF r2
<1>4. r3 = Record("leave", u, b, r.cur, r.m, r.keys, r.id, r.rows, r.left)
  BY <1>3 DEF Record
<1> HIDE DEF r3
<1>5. r4 = Record("leave", u, b, c, r.m, r.keys, r.id, r.rows, r.left)
  BY <1>4 DEF Record
<1> HIDE DEF r4
<1> QED BY <1>1, <1>5

LEMMA LeaveRecord ==
  ASSUME NEW u, NEW b, NEW c
  PROVE  [B!Off EXCEPT !.pc = "leave", !.u = u, !.b = b, !.cur = c]
           = Record("leave", u, b, c, Nil, <<>>, Nil, {}, {})
<1>1. PICK r : r = B!Off
  OBVIOUS
<1>2. Fields(r)
  BY <1>1, OffFields
<1>3. [r EXCEPT !.pc = "leave", !.u = u, !.b = b, !.cur = c]
      = Record("leave", u, b, c, r.m, r.keys, r.id, r.rows, r.left)
  BY <1>2, LeaveRecordOf
<1> QED BY <1>1, <1>3, OffFields, Zenon

LEMMA SendRecordOf ==
  ASSUME NEW r, Fields(r), NEW u, NEW m, NEW k
  PROVE  [r EXCEPT !.pc = "append", !.u = u, !.m = m, !.keys = k]
           = Record("append", u, r.b, r.cur, m, k, r.id, r.rows, r.left)
<1> DEFINE r1 == [r EXCEPT !.pc = "append"]
           r2 == [r1 EXCEPT !.u = u]
           r3 == [r2 EXCEPT !.m = m]
           r4 == [r3 EXCEPT !.keys = k]
<1>1. [r EXCEPT !.pc = "append", !.u = u, !.m = m, !.keys = k] = r4
  BY Zenon
<1>2. r1 = Record("append", r.u, r.b, r.cur, r.m, r.keys, r.id, r.rows, r.left)
  BY DEF Record, Fields
<1> HIDE DEF r1
<1>3. r2 = Record("append", u, r.b, r.cur, r.m, r.keys, r.id, r.rows, r.left)
  BY <1>2 DEF Record
<1> HIDE DEF r2
<1>4. r3 = Record("append", u, r.b, r.cur, m, r.keys, r.id, r.rows, r.left)
  BY <1>3 DEF Record
<1> HIDE DEF r3
<1>5. r4 = Record("append", u, r.b, r.cur, m, k, r.id, r.rows, r.left)
  BY <1>4 DEF Record
<1> HIDE DEF r4
<1> QED BY <1>1, <1>5

LEMMA SendRecord ==
  ASSUME NEW u, NEW m, NEW k
  PROVE  [B!Off EXCEPT !.pc = "append", !.u = u, !.m = m, !.keys = k]
           = Record("append", u, Nil, Nil, m, k, Nil, {}, {})
<1>1. PICK r : r = B!Off
  OBVIOUS
<1>2. Fields(r)
  BY <1>1, OffFields
<1>3. [r EXCEPT !.pc = "append", !.u = u, !.m = m, !.keys = k]
      = Record("append", u, r.b, r.cur, m, k, r.id, r.rows, r.left)
  BY <1>2, SendRecordOf
<1> QED BY <1>1, <1>3, OffFields, Zenon

LEMMA ReadRecordOf ==
  ASSUME NEW r, Fields(r), NEW u, NEW rows, NEW c
  PROVE  [r EXCEPT !.pc = "replay", !.u = u, !.rows = rows, !.cur = c]
           = Record("replay", u, r.b, c, r.m, r.keys, r.id, rows, r.left)
<1> DEFINE r1 == [r EXCEPT !.pc = "replay"]
           r2 == [r1 EXCEPT !.u = u]
           r3 == [r2 EXCEPT !.rows = rows]
           r4 == [r3 EXCEPT !.cur = c]
<1>1. [r EXCEPT !.pc = "replay", !.u = u, !.rows = rows, !.cur = c] = r4
  BY Zenon
<1>2. r1 = Record("replay", r.u, r.b, r.cur, r.m, r.keys, r.id, r.rows, r.left)
  BY DEF Record, Fields
<1> HIDE DEF r1
<1>3. r2 = Record("replay", u, r.b, r.cur, r.m, r.keys, r.id, r.rows, r.left)
  BY <1>2 DEF Record
<1> HIDE DEF r2
<1>4. r3 = Record("replay", u, r.b, r.cur, r.m, r.keys, r.id, rows, r.left)
  BY <1>3 DEF Record
<1> HIDE DEF r3
<1>5. r4 = Record("replay", u, r.b, c, r.m, r.keys, r.id, rows, r.left)
  BY <1>4 DEF Record
<1> HIDE DEF r4
<1> QED BY <1>1, <1>5

LEMMA ReadRecord ==
  ASSUME NEW u, NEW rows, NEW c
  PROVE  [B!Off EXCEPT !.pc = "replay", !.u = u, !.rows = rows, !.cur = c]
           = Record("replay", u, Nil, c, Nil, <<>>, Nil, rows, {})
<1>1. PICK r : r = B!Off
  OBVIOUS
<1>2. Fields(r)
  BY <1>1, OffFields
<1>3. [r EXCEPT !.pc = "replay", !.u = u, !.rows = rows, !.cur = c]
      = Record("replay", u, r.b, c, r.m, r.keys, r.id, rows, r.left)
  BY <1>2, ReadRecordOf
<1> QED BY <1>1, <1>3, OffFields, Zenon

LEMMA PublishRecordOf ==
  ASSUME NEW r, Fields(r), NEW u
  PROVE  [r EXCEPT !.pc = "publish", !.u = u]
           = Record("publish", u, r.b, r.cur, r.m, r.keys, r.id, r.rows, r.left)
<1> DEFINE r1 == [r EXCEPT !.pc = "publish"]
           r2 == [r1 EXCEPT !.u = u]
<1>1. [r EXCEPT !.pc = "publish", !.u = u] = r2
  BY Zenon
<1>2. r1 = Record("publish", r.u, r.b, r.cur, r.m, r.keys, r.id, r.rows, r.left)
  BY DEF Record, Fields
<1> HIDE DEF r1
<1>3. r2 = Record("publish", u, r.b, r.cur, r.m, r.keys, r.id, r.rows, r.left)
  BY <1>2 DEF Record
<1> HIDE DEF r2
<1> QED BY <1>1, <1>3

LEMMA PublishRecord ==
  ASSUME NEW u
  PROVE  [B!Off EXCEPT !.pc = "publish", !.u = u]
           = Record("publish", u, Nil, Nil, Nil, <<>>, Nil, {}, {})
<1>1. PICK r : r = B!Off
  OBVIOUS
<1>2. Fields(r)
  BY <1>1, OffFields
<1>3. [r EXCEPT !.pc = "publish", !.u = u]
      = Record("publish", u, r.b, r.cur, r.m, r.keys, r.id, r.rows, r.left)
  BY <1>2, PublishRecordOf
<1> QED BY <1>1, <1>3, OffFields, Zenon

LEMMA EStopRecordOf ==
  ASSUME NEW r, Fields(r), NEW u, NEW s
  PROVE  [r EXCEPT !.pc = "estop", !.u = u, !.left = s]
           = Record("estop", u, r.b, r.cur, r.m, r.keys, r.id, r.rows, s)
<1> DEFINE r1 == [r EXCEPT !.pc = "estop"]
           r2 == [r1 EXCEPT !.u = u]
           r3 == [r2 EXCEPT !.left = s]
<1>1. [r EXCEPT !.pc = "estop", !.u = u, !.left = s] = r3
  BY Zenon
<1>2. r1 = Record("estop", r.u, r.b, r.cur, r.m, r.keys, r.id, r.rows, r.left)
  BY DEF Record, Fields
<1> HIDE DEF r1
<1>3. r2 = Record("estop", u, r.b, r.cur, r.m, r.keys, r.id, r.rows, r.left)
  BY <1>2 DEF Record
<1> HIDE DEF r2
<1>4. r3 = Record("estop", u, r.b, r.cur, r.m, r.keys, r.id, r.rows, s)
  BY <1>3 DEF Record
<1> HIDE DEF r3
<1> QED BY <1>1, <1>4

LEMMA EStopRecord ==
  ASSUME NEW u, NEW s
  PROVE  [B!Off EXCEPT !.pc = "estop", !.u = u, !.left = s]
           = Record("estop", u, Nil, Nil, Nil, <<>>, Nil, {}, s)
<1>1. PICK r : r = B!Off
  OBVIOUS
<1>2. Fields(r)
  BY <1>1, OffFields
<1>3. [r EXCEPT !.pc = "estop", !.u = u, !.left = s]
      = Record("estop", u, r.b, r.cur, r.m, r.keys, r.id, r.rows, s)
  BY <1>2, EStopRecordOf
<1> QED BY <1>1, <1>3, OffFields, Zenon

LEMMA AppendRecord ==
  ASSUME NEW r, Fields(r), NEW k, NEW i, NEW pc
  PROVE  [r EXCEPT !.keys = k, !.id = i, !.pc = pc]
           = Record(pc, r.u, r.b, r.cur, r.m, k, i, r.rows, r.left)
<1> DEFINE r1 == [r EXCEPT !.keys = k]
           r2 == [r1 EXCEPT !.id = i]
           r3 == [r2 EXCEPT !.pc = pc]
<1>1. [r EXCEPT !.keys = k, !.id = i, !.pc = pc] = r3
  BY Zenon
<1>2. r1 = Record(r.pc, r.u, r.b, r.cur, r.m, k, r.id, r.rows, r.left)
  BY DEF Record, Fields
<1> HIDE DEF r1
<1>3. r2 = Record(r.pc, r.u, r.b, r.cur, r.m, k, i, r.rows, r.left)
  BY <1>2 DEF Record
<1> HIDE DEF r2
<1>4. r3 = Record(pc, r.u, r.b, r.cur, r.m, k, i, r.rows, r.left)
  BY <1>3 DEF Record
<1> HIDE DEF r3
<1> QED BY <1>1, <1>4

LEMMA OccupantRecord ==
  ASSUME NEW r, Fields(r), NEW c
  PROVE  [r EXCEPT !.pc = "occupant", !.cur = c]
           = Record("occupant", r.u, r.b, c, r.m, r.keys, r.id, r.rows, r.left)
<1> DEFINE r1 == [r EXCEPT !.pc = "occupant"]
           r2 == [r1 EXCEPT !.cur = c]
<1>1. [r EXCEPT !.pc = "occupant", !.cur = c] = r2
  BY Zenon
<1>2. r1 = Record("occupant", r.u, r.b, r.cur, r.m, r.keys, r.id, r.rows, r.left)
  BY DEF Record, Fields
<1> HIDE DEF r1
<1>3. r2 = Record("occupant", r.u, r.b, c, r.m, r.keys, r.id, r.rows, r.left)
  BY <1>2 DEF Record
<1> HIDE DEF r2
<1> QED BY <1>1, <1>3

LEMMA PcRecord ==
  ASSUME NEW r, Fields(r), NEW pc
  PROVE  [r EXCEPT !.pc = pc]
           = Record(pc, r.u, r.b, r.cur, r.m, r.keys, r.id, r.rows, r.left)
<1> DEFINE r1 == [r EXCEPT !.pc = pc]
<1>1. [r EXCEPT !.pc = pc] = r1
  BY Zenon
<1>2. r1 = Record(pc, r.u, r.b, r.cur, r.m, r.keys, r.id, r.rows, r.left)
  BY DEF Record, Fields
<1> HIDE DEF r1
<1> QED BY <1>1, <1>2

LEMMA LeftRecord ==
  ASSUME NEW r, Fields(r), NEW s
  PROVE  [r EXCEPT !.left = s]
           = Record(r.pc, r.u, r.b, r.cur, r.m, r.keys, r.id, r.rows, s)
<1> DEFINE r1 == [r EXCEPT !.left = s]
<1>1. [r EXCEPT !.left = s] = r1
  BY Zenon
<1>2. r1 = Record(r.pc, r.u, r.b, r.cur, r.m, r.keys, r.id, r.rows, s)
  BY DEF Record, Fields
<1> HIDE DEF r1
<1> QED BY <1>1, <1>2

-----------------------------------------------------------------------------
(***************************************************************************)
(* Streams only grow, and with them what is kept, delivered and confused.  *)
(***************************************************************************)
Grows == \A k \in B!Key : B!History(k) \subseteq B!History(k)'

LEMMA KeysOf ==
  /\ \A u \in Person : B!UserKey(u) \in B!Key
  /\ \A b \in Box : B!BoxKey(b) \in B!Key
BY DEF B!Key

LEMMA ClashesIs ==
  ASSUME NEW m
  PROVE  B!Clashes(m) <=> \E e, f \in All : e.m # m /\ f.m = m /\ e.id = f.id
<1>1. /\ B!Messages = {e.m : e \in All}
      /\ \A o : B!Ids(o) = {e.id : e \in {f \in All : f.m = o}}
  BY DEF B!Messages, B!Ids, All
<1>2. ASSUME B!Clashes(m) PROVE \E e, f \in All : e.m # m /\ f.m = m /\ e.id = f.id
  <2>1. PICK o \in B!Messages \ {m} : B!Ids(o) \cap B!Ids(m) # {}
    BY <1>2 DEF B!Clashes
  <2>2. PICK i : i \in B!Ids(o) /\ i \in B!Ids(m)
    BY <2>1
  <2> QED BY <1>1, <2>1, <2>2
<1>3. ASSUME NEW e \in All, NEW f \in All, e.m # m, f.m = m, e.id = f.id PROVE B!Clashes(m)
  <2>1. e.m \in B!Messages \ {m}
    BY <1>1, <1>3
  <2>2. e.id \in B!Ids(e.m) /\ e.id \in B!Ids(m)
    BY <1>1, <1>3
  <2> QED BY <2>1, <2>2 DEF B!Clashes
<1> QED BY <1>2, <1>3

LEMMA ClashesLater ==
  ASSUME NEW m
  PROVE  B!Clashes(m)' <=> \E e, f \in All' : e.m # m /\ f.m = m /\ e.id = f.id
<1>1. /\ B!Messages' = {e.m : e \in All'}
      /\ \A o : B!Ids(o)' = {e.id : e \in {f \in All' : f.m = o}}
  BY DEF B!Messages, B!Ids, All
<1>2. ASSUME B!Clashes(m)' PROVE \E e, f \in All' : e.m # m /\ f.m = m /\ e.id = f.id
  <2>1. PICK o \in B!Messages' \ {m} : B!Ids(o)' \cap B!Ids(m)' # {}
    BY <1>2 DEF B!Clashes
  <2>2. PICK i : i \in B!Ids(o)' /\ i \in B!Ids(m)'
    BY <2>1
  <2> QED BY <1>1, <2>1, <2>2
<1>3. ASSUME NEW e \in All', NEW f \in All', e.m # m, f.m = m, e.id = f.id PROVE B!Clashes(m)'
  <2>1. e.m \in B!Messages' \ {m}
    BY <1>1, <1>3
  <2>2. e.id \in B!Ids(e.m)' /\ e.id \in B!Ids(m)'
    BY <1>1, <1>3
  <2> QED BY <2>1, <2>2 DEF B!Clashes
<1> QED BY <1>2, <1>3

LEMMA AllOf == \A k \in B!Key : B!History(k) \subseteq All
BY DEF All

LEMMA SameStream ==
  ASSUME UNCHANGED stream
  PROVE  Grows
BY DEF Grows, B!History

LEMMA GrowsAll ==
  ASSUME Grows
  PROVE  All \subseteq All'
BY DEF Grows, All

LEMMA GrowsKept ==
  ASSUME Grows, NEW m \in Message, Kept(m)
  PROVE  Kept(m)'
<1>1. B!UserKey(m.from) \in B!Key
  BY KeysOf DEF Message
<1> QED BY <1>1 DEF Grows, Kept

LEMMA GrowsInBox ==
  ASSUME Grows, NEW m \in Message, InBox(m)
  PROVE  InBox(m)'
<1>1. m.box # Nil => B!BoxKey(m.box) \in B!Key
  BY KeysOf DEF Message
<1> QED BY <1>1 DEF Grows, InBox

LEMMA GrowsClashes ==
  ASSUME Grows, NEW m, B!Clashes(m)
  PROVE  B!Clashes(m)'
<1>1. PICK e \in All, f \in All : e.m # m /\ f.m = m /\ e.id = f.id
  BY ClashesIs
<1>2. e \in All' /\ f \in All'
  BY <1>1, GrowsAll
<1>3. B!Clashes(m)' <=> \E x, y \in All' : x.m # m /\ y.m = m /\ x.id = y.id
  BY ClashesLater
<1> QED BY <1>1, <1>2, <1>3

(***************************************************************************)
(* What a step leaves alone.                                               *)
(***************************************************************************)
LEMMA ShapeKept ==
  ASSUME NEW r, Shape(r), Grows, bCalls \in Nat, bCalls' \in Nat, bCalls <= bCalls',
         r.pc = "replay" => r.u \notin loaded'
  PROVE  Shape(r)'
<1>1. All \subseteq All'
  BY GrowsAll
<1>2. r.m \in Message => (Kept(r.m) => Kept(r.m)') /\ (InBox(r.m) => InBox(r.m)')
  BY GrowsKept, GrowsInBox
<1>3. r.pc = "append" =>
        /\ r.keys \in Seq(B!Key) /\ r.keys # <<>>
        /\ (Head(r.keys) = B!UserKey(r.m.from) \/ Kept(r.m))'
        /\ r.m.box # Nil => r.keys[Len(r.keys)] = B!BoxKey(r.m.box)
        /\ (r.id = Nil \/ [id |-> r.id, m |-> r.m] \in All)'
  BY <1>1, <1>2 DEF Shape
<1>4. r.pc \in {"fanout", "occupant"} => (InBox(r.m) /\ [id |-> r.id, m |-> r.m] \in All)'
  BY <1>1, <1>2 DEF Shape
<1>5. r.pc = "replay" => /\ r.u \in Person \ loaded' /\ r.rows \subseteq All'
                         /\ r.cur \in Session /\ r.cur.u = r.u /\ r.cur.n <= bCalls'
  BY <1>1 DEF Shape, Session
<1>6. r.pc = "join" => r.id \in 1 .. bCalls' /\ r.cur \in Session \cup {Nil}
  BY DEF Shape
<1>7. Fields(r)
  BY DEF Shape
<1> HIDE DEF Fields
<1>8. /\ r.pc \in Points
      /\ r.pc = "off" => r = B!Off
      /\ r.pc \in {"join", "joined", "leave", "left"} => r.u \in Person /\ r.b \in Box
      /\ r.pc \in {"leave", "left"} => r.cur \in Session
      /\ r.pc \in {"append", "fanout", "occupant"} => r.m \in Message
      /\ r.pc = "occupant" => r.cur \in Person \cup {Nil}
  BY DEF Shape
<1> QED BY <1>3, <1>4, <1>5, <1>6, <1>7, <1>8 DEF Shape

LEMMA Update ==
  ASSUME Goroutines, NEW p \in Agent, NEW n, bProc' = [bProc EXCEPT ![p] = n], Shape(n)',
         Grows, bCalls \in Nat, bCalls' \in Nat, bCalls <= bCalls',
         \A q \in Agent \ {p} : bProc[q].pc = "replay" => bProc[q].u \notin loaded'
  PROVE  Goroutines' /\ bProc'[p] = n /\ \A q \in Agent \ {p} : bProc'[q] = bProc[q]
<1>1. bProc'[p] = n /\ \A q \in Agent \ {p} : bProc'[q] = bProc[q]
  BY DEF Goroutines
<1>2. bProc' = [q \in Agent |-> bProc'[q]]
  BY DEF Goroutines
<1>3. ASSUME NEW q \in Agent PROVE Shape(bProc[q])'
  <2>1. CASE q = p
    BY <1>1, <2>1
  <2>2. CASE q # p
    <3>1. Shape(bProc[q]) /\ (bProc[q].pc = "replay" => bProc[q].u \notin loaded')
      BY <2>2 DEF Goroutines
    <3>2. PICK r : r = bProc[q]
      OBVIOUS
    <3>3. Shape(r)'
      BY <3>1, <3>2, ShapeKept
    <3> QED BY <1>1, <2>2, <3>2, <3>3
  <2> QED BY <2>1, <2>2
<1> QED BY <1>1, <1>2, <1>3 DEF Goroutines

LEMMA ToldFrame ==
  ASSUME ToldInv, UNCHANGED <<seat, told>>, blurred \subseteq blurred',
         \A p \in Agent : bProc[p].pc \in {"joined", "left"} => bProc'[p] = bProc[p]
  PROVE  ToldInv'
BY DEF ToldInv, Telling, Occupant

LEMMA SeatFrame ==
  ASSUME OneSeat, \A b \in Box : seat'[b] \in {Nil, seat[b]}
  PROVE  OneSeat'
BY DEF OneSeat, B!Staffs

LEMMA NumbersFrame ==
  ASSUME Numbers, \A b \in Box : seat'[b] \in {Nil, seat[b]},
         \A p \in Agent : bProc'[p].pc \in {"join", "replay"} => bProc'[p] = bProc[p]
  PROVE  Numbers'
BY DEF Numbers

LEMMA ReaderFrame ==
  ASSUME OneReader, \A p \in Agent : bProc'[p].pc = "replay" => bProc'[p] = bProc[p]
  PROVE  OneReader'
BY DEF OneReader

LEMMA StopFrame ==
  ASSUME StopInv, UNCHANGED <<window, stop>>,
         \A p \in Agent : bProc[p].pc = "publish" => bProc'[p].pc = "publish"
  PROVE  StopInv'
BY DEF StopInv

LEMMA HearsFrame ==
  ASSUME NEW m, NEW u \in Person, Hears(m, u), Grows, m.box # Nil => m.box \in Box,
         \A b \in Box : seat'[b] \in {Nil, seat[b]},
         dropped \subseteq dropped', cut \subseteq cut', loaded' \subseteq loaded,
         \A v \in Person : page[v] \subseteq page'[v],
         \A p \in Agent : bProc'[p].pc = "replay" => bProc'[p] = bProc[p]
  PROVE  Hears(m, u)'
<1>1. Excused(m) => Excused(m)'
  BY GrowsClashes DEF Excused
<1> SUFFICES ASSUME m.box # Nil /\ B!Staffs(u, m.box)' /\ ~Excused(m)'
             PROVE  /\ u \in loaded' => \E e \in page'[u] : e.m = m
                    /\ \A p \in Agent : bProc'[p].pc = "replay" /\ bProc'[p].cur = seat'[m.box] =>
                         \E e \in bProc'[p].rows : e.m = m
  BY DEF Hears
<1>2. B!Staffs(u, m.box) /\ seat'[m.box] = seat[m.box]
  BY DEF B!Staffs
<1>3. /\ u \in loaded => \E e \in page[u] : e.m = m
      /\ \A p \in Agent : bProc[p].pc = "replay" /\ bProc[p].cur = seat[m.box] =>
           \E e \in bProc[p].rows : e.m = m
  BY <1>1, <1>2 DEF Hears
<1> QED BY <1>2, <1>3

LEMMA HeardFrame ==
  ASSUME HeardInv, Entries, Goroutines, Grows, UNCHANGED accepted,
         \A b \in Box : seat'[b] \in {Nil, seat[b]},
         dropped \subseteq dropped', cut \subseteq cut', loaded' \subseteq loaded,
         \A v \in Person : page[v] \subseteq page'[v],
         \A p \in Agent : bProc'[p].pc \in {"replay", "occupant"} => bProc'[p] = bProc[p]
  PROVE  HeardInv'
<1>1. ASSUME NEW m \in accepted', NEW u \in Person PROVE Hears(m, u)'
  <2>1. m \in accepted /\ (m.box # Nil => m.box \in Box)
    BY DEF Entries, Message
  <2>2. Hears(m, u)
    BY <2>1 DEF HeardInv
  <2> QED BY <2>1, <2>2, HearsFrame
<1>2. ASSUME NEW p \in Agent, bProc'[p].pc = "occupant", NEW u \in Person \ {bProc'[p].cur}
      PROVE  Hears(bProc[p].m, u)'
  <2>1. bProc'[p] = bProc[p] /\ bProc[p].pc = "occupant"
    BY <1>2
  <2>2. PICK m : m = bProc[p].m
    OBVIOUS
  <2>3. m.box # Nil => m.box \in Box
    BY <2>1, <2>2 DEF Goroutines, Shape, Message
  <2>4. Hears(m, u)
    BY <2>1, <2>2 DEF HeardInv
  <2>5. Hears(m, u)'
    BY <2>3, <2>4, HearsFrame
  <2> QED BY <2>1, <2>2, <2>5
<1> QED BY <1>1, <1>2 DEF HeardInv

-----------------------------------------------------------------------------
Bounded == /\ bCalls \in Nat /\ bCalls' \in 0 .. MaxTalks /\ bCalls' \in Nat /\ bCalls <= bCalls'
           /\ faults' \in 0 .. MaxFaults

LEMMA Counts ==
  ASSUME B!SignalboxAssumption, Typed,
         (bCalls < MaxTalks /\ bCalls' = bCalls + 1 /\ UNCHANGED faults) \/ B!Fault \/ UNCHANGED B!bounds
  PROVE  Bounded
BY DEF B!SignalboxAssumption, Typed, B!Fault, B!bounds, Bounded

LEMMA TypesFrame ==
  ASSUME Typed, Bounded, UNCHANGED <<B!boxes, B!seats, bNow, stream, B!pages, B!stops>>
  PROVE  Typed'
<1> USE DEF B!boxes, B!seats, B!pages, B!stops
<1>1. /\ signalman \subseteq Person /\ listed \subseteq Box /\ Box \ listed \subseteq dropped
      /\ dropped \subseteq Box /\ blurred \subseteq Box /\ loaded \subseteq Person
      /\ seat \in [Box -> Session \cup {Nil}] /\ told \in [Box -> Person \cup {Nil}]
      /\ bNow \in 0 .. MaxMs /\ chat \in BOOLEAN /\ window \in BOOLEAN
      /\ page = [u \in Person |-> page[u]]
      /\ stop \in [published : BOOLEAN, failed : BOOLEAN, confirmed : BOOLEAN]
  BY DEF Typed
<1>2. \A b \in Box : seat[b] # Nil => seat[b].n <= bCalls'
  BY DEF Typed, Bounded, Session
<1>3. stream' = [k \in B!Key |-> stream'[k]] /\ \A k \in B!Key : stream'[k] \in Seq(B!History(k)')
  BY DEF Typed, B!History
<1> QED BY <1>1, <1>2, <1>3 DEF Typed, Bounded

LEMMA EntriesFrame ==
  ASSUME Entries, UNCHANGED <<stream, accepted, page>>
  PROVE  Entries'
BY DEF Entries, Kept, InBox, All, B!History

\* A step of p that only moves p on, from where nobody waits for it to where
\* nothing is claimed of it but its shape.
LEMMA QuietStep ==
  ASSUME SignalInv, Bounded, NEW p \in Agent, NEW n, bProc' = [bProc EXCEPT ![p] = n], Shape(n)',
         bProc[p].pc \notin {"joined", "left", "publish"},
         n.pc \notin {"join", "replay", "occupant"},
         UNCHANGED <<B!boxes, B!seats, B!radio, B!pages, B!stops>>
  PROVE  SignalInv'
<1> USE DEF B!boxes, B!seats, B!radio, B!pages, B!stops
<1>1. Typed'
  BY TypesFrame DEF SignalInv
<1>2. Grows
  BY SameStream
<1>3. Goroutines' /\ bProc'[p] = n /\ \A q \in Agent \ {p} : bProc'[q] = bProc[q]
  <2>1. \A q \in Agent \ {p} : bProc[q].pc = "replay" => bProc[q].u \notin loaded'
    BY DEF SignalInv, Goroutines, Shape
  <2> QED BY <1>2, <2>1, Update DEF SignalInv, Bounded
<1>4. Entries'
  BY EntriesFrame DEF SignalInv
<1>5. \A b \in Box : seat'[b] \in {Nil, seat[b]}
  OBVIOUS
<1>6. /\ \A q \in Agent : bProc[q].pc \in {"joined", "left"} => bProc'[q] = bProc[q]
      /\ \A q \in Agent : bProc'[q].pc \in {"join", "replay"} => bProc'[q] = bProc[q]
      /\ \A q \in Agent : bProc'[q].pc \in {"replay", "occupant"} => bProc'[q] = bProc[q]
      /\ \A q \in Agent : bProc'[q].pc = "replay" => bProc'[q] = bProc[q]
      /\ \A q \in Agent : bProc[q].pc = "publish" => bProc'[q].pc = "publish"
  BY <1>3
<1>7. OneSeat'
  BY <1>5, SeatFrame DEF SignalInv
<1>8. ToldInv'
  BY <1>6, ToldFrame DEF SignalInv
<1>9. Numbers'
  BY <1>5, <1>6, NumbersFrame DEF SignalInv
<1>10. OneReader'
  BY <1>6, ReaderFrame DEF SignalInv
<1>11. HeardInv'
  BY <1>2, <1>5, <1>6, HeardFrame DEF SignalInv
<1>12. StopInv'
  BY <1>6, StopFrame DEF SignalInv
<1> QED BY <1>1, <1>3, <1>4, <1>7, <1>8, <1>9, <1>10, <1>11, <1>12 DEF SignalInv

(***************************************************************************)
(* The catalogue and the grants.                                           *)
(***************************************************************************)
LEMMA AdministrationStep ==
  ASSUME B!SignalboxAssumption, SignalInv, B!Administration
  PROVE  SignalInv'
<1> USE DEF B!seats, B!radio, B!pages, B!stops
<1> DEFINE Change ==
      /\ B!Fault /\ UNCHANGED <<B!seats, B!radio, B!pages, B!stops, bProc>>
      /\ signalman' \subseteq Person /\ listed' \subseteq Box /\ Box \ listed' \subseteq dropped'
      /\ dropped \subseteq dropped' /\ dropped' \subseteq Box /\ chat' \in BOOLEAN
<1>1. Change
  <2>0. signalman \subseteq Person /\ listed \subseteq Box /\ Box \ listed \subseteq dropped
        /\ dropped \subseteq Box /\ chat \in BOOLEAN
    BY DEF SignalInv, Typed
  <2>1. ASSUME NEW S \in SUBSET Box, B!SetInterlockings(S) PROVE Change
    BY <2>0, <2>1 DEF B!SetInterlockings
  <2>2. CASE B!UpdateRadioChatEnabled
    BY <2>0, <2>2 DEF B!UpdateRadioChatEnabled
  <2>3. ASSUME NEW u \in Person, B!SetSignalman(u) PROVE Change
    BY <2>0, <2>3 DEF B!SetSignalman
  <2> QED BY <2>1, <2>2, <2>3 DEF B!Administration
<1>2. Bounded
  BY <1>1, Counts DEF SignalInv
<1>3. Typed'
  <2>1. /\ blurred \subseteq Box /\ loaded \subseteq Person
        /\ seat \in [Box -> Session \cup {Nil}] /\ told \in [Box -> Person \cup {Nil}]
        /\ bNow \in 0 .. MaxMs /\ window \in BOOLEAN
        /\ page = [u \in Person |-> page[u]]
        /\ stop \in [published : BOOLEAN, failed : BOOLEAN, confirmed : BOOLEAN]
    BY DEF SignalInv, Typed
  <2>2. \A b \in Box : seat[b] # Nil => seat[b].n <= bCalls'
    BY <1>1 DEF SignalInv, Typed, B!Fault
  <2>3. stream' = [k \in B!Key |-> stream'[k]] /\ \A k \in B!Key : stream'[k] \in Seq(B!History(k)')
    BY <1>1 DEF SignalInv, Typed, B!History
  <2> QED BY <1>1, <1>2, <2>1, <2>2, <2>3 DEF Typed, Bounded
<1>4. Grows
  BY <1>1, SameStream
<1>5. Goroutines'
  <2>1. \A q \in Agent : bProc[q].pc = "replay" => bProc[q].u \notin loaded'
    BY <1>1 DEF SignalInv, Goroutines, Shape
  <2>2. ASSUME NEW q \in Agent PROVE Shape(bProc[q])'
    <3>1. PICK r : r = bProc[q]
      OBVIOUS
    <3>2. Shape(r)'
      BY <1>2, <1>4, <2>1, <3>1, ShapeKept DEF SignalInv, Goroutines, Bounded
    <3> QED BY <1>1, <3>1, <3>2
  <2> QED BY <1>1, <2>2 DEF SignalInv, Goroutines
<1>6. Entries'
  BY <1>1, EntriesFrame DEF SignalInv
<1>7. OneSeat' /\ ToldInv' /\ Numbers' /\ OneReader' /\ StopInv'
  BY <1>1, SeatFrame, ToldFrame, NumbersFrame, ReaderFrame, StopFrame DEF SignalInv
<1>8. HeardInv'
  BY <1>1, <1>4, HeardFrame DEF SignalInv
<1> QED BY <1>3, <1>5, <1>6, <1>7, <1>8 DEF SignalInv

(***************************************************************************)
(* The steps that only move their goroutine.                               *)
(***************************************************************************)
LEMMA RecordFields ==
  ASSUME NEW r, NEW pc, NEW u, NEW b, NEW cur, NEW m, NEW keys, NEW id, NEW rows, NEW left,
         r = Record(pc, u, b, cur, m, keys, id, rows, left)
  PROVE  /\ Fields(r) /\ r.pc = pc /\ r.u = u /\ r.b = b /\ r.cur = cur /\ r.m = m
         /\ r.keys = keys /\ r.id = id /\ r.rows = rows /\ r.left = left
<1>1. /\ r.pc = pc /\ r.u = u /\ r.b = b /\ r.cur = cur /\ r.m = m
      /\ r.keys = keys /\ r.id = id /\ r.rows = rows /\ r.left = left
  BY DEF Record
<1>2. Fields(r)
  BY <1>1, Zenon DEF Fields, Record
<1> QED BY <1>1, <1>2

LEMMA ShapeOff == Shape(B!Off)'
<1>1. B!Off.pc = "off" /\ Fields(B!Off)
  BY OffFields
<1> QED BY <1>1 DEF Shape, Points

LEMMA IdleIsOff ==
  ASSUME Goroutines, NEW p \in Agent
  PROVE  Shape(bProc[p]) /\ (bProc[p] = B!Off => bProc[p].pc = "off")
BY OffFields DEF Goroutines

\* A goroutine that ends where nobody waits for it.
LEMMA QuietDone ==
  ASSUME SignalInv, Bounded, NEW p \in Agent, B!Done(p),
         bProc[p].pc \notin {"joined", "left", "publish"},
         UNCHANGED <<B!boxes, B!seats, B!radio, B!pages, B!stops>>
  PROVE  SignalInv'
BY ShapeOff, OffFields, QuietStep DEF B!Done, B!Goto

LEMMA LeaveStep ==
  ASSUME B!SignalboxAssumption, SignalInv, NEW p \in Agent, NEW u \in Person, NEW b \in Box, B!Leave(p, u, b)
  PROVE  SignalInv'
<1>1. Bounded
  BY Counts DEF SignalInv, B!Leave, B!Request
<1>2. PICK n : n = Record("leave", u, b, seat[b], Nil, <<>>, Nil, {}, {})
  OBVIOUS
<1>3. bProc' = [bProc EXCEPT ![p] = n]
  BY <1>2, LeaveRecord, Zenon DEF B!Leave, B!Goto
<1>4. seat[b] \in Session
  BY DEF SignalInv, Typed, B!Leave, B!Staffs
<1>5. Fields(n) /\ n.pc = "leave" /\ n.u = u /\ n.b = b /\ n.cur = seat[b]
  BY <1>2, RecordFields
<1>6. Shape(n)'
  BY <1>4, <1>5 DEF Shape, Points
<1>7. bProc[p].pc = "off"
  BY IdleIsOff DEF SignalInv, B!Leave, B!Request
<1> QED BY <1>1, <1>3, <1>5, <1>6, <1>7, QuietStep DEF B!Leave

LEMMA EStopTargetStep ==
  ASSUME B!SignalboxAssumption, SignalInv, NEW p \in Agent, NEW u \in Person, B!EStopTarget(p, u)
  PROVE  SignalInv'
<1>1. Bounded
  BY Counts DEF SignalInv, B!EStopTarget, B!Request
<1>2. PICK n : n = Record("estop", u, Nil, Nil, Nil, <<>>, Nil, {}, Track)
  OBVIOUS
<1>3. bProc' = [bProc EXCEPT ![p] = n]
  BY <1>2, EStopRecord, Zenon DEF B!EStopTarget, B!Goto
<1>4. Fields(n) /\ n.pc = "estop"
  BY <1>2, RecordFields
<1>5. Shape(n)'
  BY <1>4 DEF Shape, Points
<1>6. bProc[p].pc = "off"
  BY IdleIsOff DEF SignalInv, B!EStopTarget, B!Request
<1> QED BY <1>1, <1>3, <1>4, <1>5, <1>6, QuietStep DEF B!EStopTarget

LEMMA PublishCommandStep ==
  ASSUME B!SignalboxAssumption, SignalInv, NEW p \in Agent,
         B!PublishCommand(p) \/ B!PublishCommandFails(p) \/ B!AppendFails(p)
  PROVE  SignalInv'
<1>1. Bounded
  BY Counts DEF SignalInv, B!PublishCommand, B!PublishCommandFails, B!AppendFails
<1>2. bProc[p].pc \in {"estop", "append"} /\ UNCHANGED <<B!boxes, B!seats, B!radio, B!pages, B!stops>>
  BY DEF B!PublishCommand, B!PublishCommandFails, B!AppendFails
<1>3. CASE B!Done(p)
  BY <1>1, <1>2, <1>3, QuietDone
<1>4. ASSUME NEW s, bProc[p].pc = "estop",
             bProc' = [bProc EXCEPT ![p] = [bProc[p] EXCEPT !.left = bProc[p].left \ {s}]]
      PROVE  SignalInv'
  <2>1. PICK r : r = bProc[p]
    OBVIOUS
  <2>2. Fields(r)
    BY <2>1 DEF SignalInv, Goroutines, Shape
  <2>3. PICK n : n = [r EXCEPT !.left = r.left \ {s}]
    OBVIOUS
  <2>4. n = Record(r.pc, r.u, r.b, r.cur, r.m, r.keys, r.id, r.rows, r.left \ {s})
    BY <2>2, <2>3, LeftRecord
  <2>5. Fields(n) /\ n.pc = "estop"
    BY <1>4, <2>1, <2>4, RecordFields
  <2>6. Shape(n)'
    BY <2>5 DEF Shape, Points
  <2>7. bProc' = [bProc EXCEPT ![p] = n]
    BY <1>4, <2>1, <2>3
  <2> QED BY <1>1, <1>2, <2>5, <2>6, <2>7, QuietStep
<1> QED BY <1>3, <1>4 DEF B!PublishCommand, B!PublishCommandFails, B!AppendFails, B!Goto, B!Done

LEMMA SomeBox ==
  ASSUME NEW u
  PROVE  B!BoxOf(u) \in Box \cup {Nil} /\ (B!BoxOf(u) # Nil => B!BoxOf(u) \in Box /\ B!Staffs(u, B!BoxOf(u)))
<1>1. CASE \E b \in Box : B!Staffs(u, b)
  <2>1. B!BoxOf(u) = CHOOSE b \in Box : B!Staffs(u, b)
    BY <1>1 DEF B!BoxOf
  <2>2. B!BoxOf(u) \in Box /\ B!Staffs(u, B!BoxOf(u))
    BY <1>1, <2>1
  <2> QED BY <2>2
<1>2. CASE ~\E b \in Box : B!Staffs(u, b)
  BY <1>2 DEF B!BoxOf
<1> QED BY <1>1, <1>2

LEMMA SendKeys ==
  ASSUME NEW m \in Message, B!ValidateTarget(m.to, m.box), NEW ilk \in Box \cup {Nil}, NEW K,
         K = B!StreamKeysForSend(m, ilk)
  PROVE  /\ K \in Seq(B!Key) /\ K # <<>> /\ Head(K) = B!UserKey(m.from)
         /\ m.box # Nil => K[Len(K)] = B!BoxKey(m.box)
<1>1. B!UserKey(m.from) \in B!Key /\ (m.to # Nil => B!UserKey(m.to) \in B!Key)
  BY KeysOf DEF Message
<1>2. CASE m.to = Nil
  <2>1. m.box # Nil
    BY <1>2 DEF B!ValidateTarget
  <2>2. B!BoxKey(m.box) \in B!Key
    BY <2>1, KeysOf DEF Message
  <2>3. K = <<B!UserKey(m.from), B!BoxKey(m.box)>>
    BY <1>2 DEF B!StreamKeysForSend
  <2> QED BY <1>1, <2>1, <2>2, <2>3
<1>3. CASE m.to # Nil
  <2>1. m.box = Nil
    BY <1>3 DEF B!ValidateTarget
  <2>2. PICK S : S = IF m.to = m.from THEN <<B!UserKey(m.to)>>
                     ELSE <<B!UserKey(m.from), B!UserKey(m.to)>>
    OBVIOUS
  <2>3. PICK T : T = IF ilk = Nil THEN <<>> ELSE <<B!BoxKey(ilk)>>
    OBVIOUS
  <2>4. K = S \o T
    BY <1>3, <2>2, <2>3 DEF B!StreamKeysForSend
  <2>5. S \in Seq(B!Key) /\ Len(S) \in Nat \ {0} /\ S[1] = B!UserKey(m.from)
    BY <1>1, <1>3, <2>2
  <2>6. ilk # Nil => B!BoxKey(ilk) \in B!Key
    BY KeysOf
  <2>7. T \in Seq(B!Key)
    BY <2>3, <2>6
  <2>8. K \in Seq(B!Key) /\ Len(K) \in Nat \ {0} /\ K[1] = B!UserKey(m.from)
    BY <2>4, <2>5, <2>7
  <2> QED BY <2>1, <2>8
<1> QED BY <1>2, <1>3

LEMMA SendStep ==
  ASSUME B!SignalboxAssumption, SignalInv, NEW p \in Agent, NEW u \in Person,
         NEW to \in Person \cup {Nil}, NEW at \in Box \cup {Nil}, B!Send(p, u, to, at)
  PROVE  SignalInv'
<1>1. Bounded
  BY Counts DEF SignalInv, B!Send, B!Request
<1>2. PICK m : m = [n |-> bCalls, from |-> u, to |-> to, box |-> at]
  OBVIOUS
<1>3. m \in Message /\ m.to = to /\ m.box = at
  BY <1>1, <1>2 DEF Message, Bounded
<1>4. PICK K : K = B!StreamKeysForSend(m, B!BoxOf(u))
  OBVIOUS
<1>5. /\ K \in Seq(B!Key) /\ K # <<>> /\ Head(K) = B!UserKey(m.from)
      /\ m.box # Nil => K[Len(K)] = B!BoxKey(m.box)
  BY <1>3, <1>4, SomeBox, SendKeys DEF B!Send
<1>6. PICK n : n = Record("append", u, Nil, Nil, m, K, Nil, {}, {})
  OBVIOUS
<1>7. bProc' = [bProc EXCEPT ![p] = n]
  <2>1. bProc' = [bProc EXCEPT ![p] = [B!Off EXCEPT !.pc = "append", !.u = u, !.m = m, !.keys = K]]
    BY <1>2, <1>4, Zenon DEF B!Send, B!Goto
  <2> QED BY <1>6, <2>1, SendRecord, Zenon
<1>8. Fields(n) /\ n.pc = "append" /\ n.m = m /\ n.keys = K /\ n.id = Nil
  BY <1>6, RecordFields
<1>9. Shape(n)'
  BY <1>3, <1>5, <1>8 DEF Shape, Points
<1>10. bProc[p].pc = "off"
  BY IdleIsOff DEF SignalInv, B!Send, B!Request
<1> QED BY <1>1, <1>7, <1>8, <1>9, <1>10, QuietStep DEF B!Send

(***************************************************************************)
(* Radio Stop.                                                             *)
(***************************************************************************)
LEMMA TypesOfStop ==
  ASSUME Typed, Bounded, UNCHANGED <<B!boxes, B!seats, B!radio, B!pages>>, window' \in BOOLEAN,
         stop' \in [published : BOOLEAN, failed : BOOLEAN, confirmed : BOOLEAN]
  PROVE  Typed'
<1> USE DEF B!boxes, B!seats, B!radio, B!pages
<1>1. /\ signalman \subseteq Person /\ listed \subseteq Box /\ Box \ listed \subseteq dropped
      /\ dropped \subseteq Box /\ blurred \subseteq Box /\ loaded \subseteq Person
      /\ seat \in [Box -> Session \cup {Nil}] /\ told \in [Box -> Person \cup {Nil}]
      /\ bNow \in 0 .. MaxMs /\ chat \in BOOLEAN
      /\ page = [u \in Person |-> page[u]]
  BY DEF Typed
<1>2. \A b \in Box : seat[b] # Nil => seat[b].n <= bCalls'
  BY DEF Typed, Bounded, Session
<1>3. stream' = [k \in B!Key |-> stream'[k]] /\ \A k \in B!Key : stream'[k] \in Seq(B!History(k)')
  BY DEF Typed, B!History
<1> QED BY <1>1, <1>2, <1>3 DEF Typed, Bounded

\* A step that changes stops only, and moves goroutines to and from publishing.
LEMMA StopStep ==
  ASSUME SignalInv, Bounded, UNCHANGED <<B!boxes, B!seats, B!radio, B!pages>>, window' \in BOOLEAN,
         stop' \in [published : BOOLEAN, failed : BOOLEAN, confirmed : BOOLEAN], StopInv',
         \/ UNCHANGED bProc
         \/ \E p \in Agent : \E n :
              /\ bProc' = [bProc EXCEPT ![p] = n] /\ Shape(n)'
              /\ n.pc \in {"off", "publish"} /\ bProc[p].pc \in {"off", "publish"}
  PROVE  SignalInv'
<1> USE DEF B!boxes, B!seats, B!radio, B!pages
<1>1. Typed'
  BY TypesOfStop DEF SignalInv
<1>2. Grows
  BY SameStream
<1>3. \A q \in Agent : bProc[q].pc = "replay" => bProc[q].u \notin loaded'
  BY DEF SignalInv, Goroutines, Shape
<1>4. /\ Goroutines'
      /\ \A q \in Agent : \/ bProc'[q] = bProc[q]
                          \/ {bProc[q].pc, bProc'[q].pc} \subseteq {"off", "publish"}
  <2>1. CASE UNCHANGED bProc
    <3>1. ASSUME NEW q \in Agent PROVE Shape(bProc[q])'
      <4>1. PICK r : r = bProc[q]
        OBVIOUS
      <4>2. Shape(r)'
        BY <1>2, <1>3, <4>1, ShapeKept DEF SignalInv, Goroutines, Bounded
      <4> QED BY <2>1, <4>1, <4>2
    <3> QED BY <2>1, <3>1 DEF SignalInv, Goroutines
  <2>2. CASE ~UNCHANGED bProc
    <3>0. PICK p \in Agent : \E n :
            /\ bProc' = [bProc EXCEPT ![p] = n] /\ Shape(n)'
            /\ n.pc \in {"off", "publish"} /\ bProc[p].pc \in {"off", "publish"}
      BY <2>2
    <3>1. PICK n : /\ bProc' = [bProc EXCEPT ![p] = n] /\ Shape(n)'
                   /\ n.pc \in {"off", "publish"} /\ bProc[p].pc \in {"off", "publish"}
      BY <3>0
    <3>2. Goroutines' /\ bProc'[p] = n /\ \A q \in Agent \ {p} : bProc'[q] = bProc[q]
      BY <1>2, <1>3, <3>1, Update DEF SignalInv, Bounded
    <3> QED BY <3>1, <3>2
  <2> QED BY <2>1, <2>2
<1>5. Entries'
  BY EntriesFrame DEF SignalInv
<1>6. \A b \in Box : seat'[b] \in {Nil, seat[b]}
  OBVIOUS
<1>7. /\ \A q \in Agent : bProc[q].pc \in {"joined", "left"} => bProc'[q] = bProc[q]
      /\ \A q \in Agent : bProc'[q].pc \in {"join", "replay"} => bProc'[q] = bProc[q]
      /\ \A q \in Agent : bProc'[q].pc \in {"replay", "occupant"} => bProc'[q] = bProc[q]
      /\ \A q \in Agent : bProc'[q].pc = "replay" => bProc'[q] = bProc[q]
  BY <1>4
<1>8. OneSeat' /\ ToldInv' /\ Numbers' /\ OneReader'
  BY <1>6, <1>7, SeatFrame, ToldFrame, NumbersFrame, ReaderFrame DEF SignalInv
<1>9. HeardInv'
  BY <1>2, <1>6, <1>7, HeardFrame DEF SignalInv
<1> QED BY <1>1, <1>4, <1>5, <1>8, <1>9 DEF SignalInv

LEMMA QuietStops ==
  /\ B!Quiet \in [published : BOOLEAN, failed : BOOLEAN, confirmed : BOOLEAN]
  /\ B!Quiet.confirmed = FALSE
BY DEF B!Quiet

LEMMA TriggerStep ==
  ASSUME B!SignalboxAssumption, SignalInv, NEW p \in Agent, NEW u \in Person, B!Trigger(p, u)
  PROVE  SignalInv'
<1>1. Bounded
  BY Counts DEF SignalInv, B!Trigger, B!Request
<1>2. UNCHANGED <<B!boxes, B!seats, B!radio, B!pages>>
  BY DEF B!Trigger
<1>3. stop \in [published : BOOLEAN, failed : BOOLEAN, confirmed : BOOLEAN]
  BY DEF SignalInv, Typed
<1>4. CASE window
  <2>1. stop' = [stop EXCEPT !.confirmed = TRUE] /\ UNCHANGED <<window, bProc>>
    BY <1>4 DEF B!Trigger, B!debounced
  <2>2. stop' \in [published : BOOLEAN, failed : BOOLEAN, confirmed : BOOLEAN]
    BY <1>3, <2>1
  <2>3. stop'.published = stop.published /\ stop'.failed = stop.failed
    BY <1>3, <2>1
  <2>4. StopInv'
    BY <1>4, <2>1, <2>3 DEF SignalInv, StopInv
  <2>5. window' \in BOOLEAN
    BY <2>1 DEF SignalInv, Typed
  <2> QED BY <1>1, <1>2, <2>1, <2>2, <2>4, <2>5, StopStep
<1>5. CASE ~window
  <2>1. window' = TRUE /\ stop' = B!Quiet
    BY <1>5 DEF B!Trigger, B!debounced
  <2>2. PICK n : n = Record("publish", u, Nil, Nil, Nil, <<>>, Nil, {}, {})
    OBVIOUS
  <2>3. bProc' = [bProc EXCEPT ![p] = n]
    BY <1>5, <2>2, PublishRecord, Zenon DEF B!Trigger, B!debounced, B!Goto
  <2>4. Fields(n) /\ n.pc = "publish"
    BY <2>2, RecordFields
  <2>5. Shape(n)'
    BY <2>4 DEF Shape, Points
  <2>6. bProc[p].pc = "off"
    BY IdleIsOff DEF SignalInv, B!Trigger, B!Request
  <2>7. bProc'[p] = n
    BY <2>3 DEF SignalInv, Goroutines
  <2>8. StopInv'
    BY <2>4, <2>7 DEF StopInv
  <2> QED BY <1>1, <1>2, <2>1, <2>3, <2>4, <2>5, <2>6, <2>8, QuietStops, StopStep
<1> QED BY <1>4, <1>5

LEMMA PublishStep ==
  ASSUME B!SignalboxAssumption, SignalInv, NEW p \in Agent, B!PublishLayoutRadioStop(p) \/ B!PublishFails(p)
  PROVE  SignalInv'
<1>1. Bounded
  BY Counts DEF SignalInv, B!PublishLayoutRadioStop, B!PublishFails
<1>2. /\ UNCHANGED <<B!boxes, B!seats, B!radio, B!pages, window>> /\ bProc[p].pc = "publish"
      /\ bProc' = [bProc EXCEPT ![p] = B!Off]
  BY DEF B!PublishLayoutRadioStop, B!PublishFails, B!Done, B!Goto
<1>3. stop \in [published : BOOLEAN, failed : BOOLEAN, confirmed : BOOLEAN] /\ window \in BOOLEAN
  BY DEF SignalInv, Typed
<1>4. /\ stop' \in [published : BOOLEAN, failed : BOOLEAN, confirmed : BOOLEAN]
      /\ stop'.published \/ stop'.failed
  <2>1. CASE B!PublishLayoutRadioStop(p)
    <3> DEFINE s == [stop EXCEPT !.published = TRUE]
    <3>1. stop' = [s EXCEPT !.confirmed = TRUE]
      BY <2>1, Zenon DEF B!PublishLayoutRadioStop
    <3>2. s \in [published : BOOLEAN, failed : BOOLEAN, confirmed : BOOLEAN] /\ s.published
      BY <1>3
    <3> HIDE DEF s
    <3> QED BY <3>1, <3>2
  <2>2. CASE B!PublishFails(p)
    BY <1>3, <2>2 DEF B!PublishFails
  <2> QED BY <2>1, <2>2
<1>5. StopInv'
  BY <1>4 DEF StopInv
<1> QED BY <1>1, <1>2, <1>3, <1>4, <1>5, ShapeOff, OffFields, StopStep

LEMMA DebounceStep ==
  ASSUME B!SignalboxAssumption, SignalInv, B!DebounceEnds
  PROVE  SignalInv'
<1>1. Bounded
  BY Counts DEF SignalInv, B!DebounceEnds
<1>2. /\ UNCHANGED <<B!boxes, B!seats, B!radio, B!pages>> /\ UNCHANGED bProc /\ window' = FALSE
      /\ stop' = B!Quiet
  BY DEF B!DebounceEnds
<1>3. StopInv'
  BY <1>2, QuietStops DEF StopInv
<1> QED BY <1>1, <1>2, <1>3, QuietStops, StopStep

(***************************************************************************)
(* A restart.                                                              *)
(***************************************************************************)
LEMMA RestartStep ==
  ASSUME B!SignalboxAssumption, SignalInv, B!Restart
  PROVE  SignalInv'
<1> USE DEF B!boxes, B!radio
<1>1. Bounded
  BY Counts DEF SignalInv, B!Restart
<1>2. /\ seat' = [b \in Box |-> Nil] /\ told' = [b \in Box |-> Nil]
      /\ blurred' = {} /\ loaded' = {} /\ window' = FALSE /\ stop' = B!Quiet
      /\ bProc' = [p \in Agent |-> B!Off] /\ UNCHANGED <<B!boxes, B!radio, page, cut>>
  BY DEF B!Restart
<1>3. Typed'
  <2>1. /\ signalman \subseteq Person /\ listed \subseteq Box /\ Box \ listed \subseteq dropped
        /\ dropped \subseteq Box /\ bNow \in 0 .. MaxMs /\ chat \in BOOLEAN
        /\ page = [u \in Person |-> page[u]]
    BY DEF SignalInv, Typed
  <2>2. stream' = [k \in B!Key |-> stream'[k]] /\ \A k \in B!Key : stream'[k] \in Seq(B!History(k)')
    BY <1>2 DEF SignalInv, Typed, B!History
  <2> QED BY <1>1, <1>2, <2>1, <2>2, QuietStops DEF Typed, Bounded
<1>4. \A p \in Agent : bProc'[p] = B!Off
  BY <1>2
<1>5. Goroutines'
  BY <1>2, <1>4, ShapeOff DEF Goroutines
<1>6. Entries'
  BY <1>2, EntriesFrame DEF SignalInv
<1>7. \A b \in Box : seat'[b] = Nil /\ told'[b] = Nil
  BY <1>2
<1>8. OneSeat' /\ ToldInv' /\ StopInv'
  BY <1>2, <1>7, QuietStops DEF OneSeat, ToldInv, StopInv, B!Staffs, Occupant
<1>9. Numbers' /\ OneReader'
  BY <1>4, OffFields DEF Numbers, OneReader
<1>10. Grows
  BY <1>2, SameStream
<1>11. HeardInv'
  BY <1>2, <1>4, <1>7, <1>10, OffFields, HeardFrame DEF SignalInv
<1> QED BY <1>3, <1>5, <1>6, <1>8, <1>9, <1>11 DEF SignalInv

(***************************************************************************)
(* Occupancy.                                                              *)
(***************************************************************************)
LEMMA JoinStep ==
  ASSUME B!SignalboxAssumption, SignalInv, NEW p \in Agent, NEW u \in Person, NEW b \in Box, NEW f,
         B!Join(p, u, b, f)
  PROVE  SignalInv'
<1> USE DEF B!boxes, B!seats, B!radio, B!pages, B!stops
<1>1. Bounded /\ bCalls' = bCalls + 1
  BY Counts DEF SignalInv, B!Join, B!Request
<1>2. UNCHANGED <<B!boxes, B!seats, B!radio, B!pages, B!stops>>
  BY DEF B!Join
<1>3. PICK n : n = Record("join", u, b, seat[b], Nil, <<>>, bCalls + 1, {}, {})
  OBVIOUS
<1>4. bProc' = [bProc EXCEPT ![p] = n]
  BY <1>3, JoinRecord, Zenon DEF B!Join, B!Goto
<1>5. Fields(n) /\ n.pc = "join" /\ n.u = u /\ n.b = b /\ n.cur = seat[b] /\ n.id = bCalls + 1
  BY <1>3, RecordFields
<1>6. seat[b] \in Session \cup {Nil}
  BY DEF SignalInv, Typed
<1>7. n.id \in 1 .. bCalls'
  BY <1>1, <1>5 DEF Bounded
<1>8. Shape(n)'
  BY <1>5, <1>6, <1>7 DEF Shape, Points
<1>9. Grows
  BY <1>2, SameStream
<1>10. Typed'
  BY <1>1, <1>2, TypesFrame DEF SignalInv
<1>11. Goroutines' /\ bProc'[p] = n /\ \A q \in Agent \ {p} : bProc'[q] = bProc[q]
  <2>1. \A q \in Agent \ {p} : bProc[q].pc = "replay" => bProc[q].u \notin loaded'
    BY <1>2 DEF SignalInv, Goroutines, Shape
  <2> QED BY <1>1, <1>4, <1>8, <1>9, <2>1, Update DEF SignalInv, Bounded
<1>12. bProc[p].pc = "off"
  BY IdleIsOff DEF SignalInv, B!Join, B!Request
<1>13. Entries'
  BY <1>2, EntriesFrame DEF SignalInv
<1>14. \A c \in Box : seat'[c] \in {Nil, seat[c]}
  BY <1>2
<1>15. /\ \A q \in Agent : bProc[q].pc \in {"joined", "left"} => bProc'[q] = bProc[q]
       /\ \A q \in Agent : bProc'[q].pc \in {"replay", "occupant"} => bProc'[q] = bProc[q]
       /\ \A q \in Agent : bProc'[q].pc = "replay" => bProc'[q] = bProc[q]
       /\ \A q \in Agent : bProc[q].pc = "publish" => bProc'[q].pc = "publish"
  BY <1>5, <1>11, <1>12
<1>16. OneSeat' /\ ToldInv' /\ OneReader' /\ StopInv'
  BY <1>2, <1>14, <1>15, SeatFrame, ToldFrame, ReaderFrame, StopFrame DEF SignalInv
<1>17. HeardInv'
  BY <1>2, <1>9, <1>14, <1>15, HeardFrame DEF SignalInv
<1>18. Numbers'
  <2>1. bCalls \in Nat
    BY <1>1 DEF Bounded
  <2>2. \A q \in Agent \ {p} : bProc[q].pc = "join" => bProc[q].id \in 1 .. bCalls
    BY DEF SignalInv, Goroutines, Shape
  <2>3. \A c \in Box : seat[c] # Nil => seat[c].n \in Nat /\ seat[c].n <= bCalls
    BY DEF SignalInv, Typed, Session
  <2>4. \A q \in Agent : bProc[q].pc = "replay" => bProc[q].cur.n \in Nat /\ bProc[q].cur.n <= bCalls
    BY DEF SignalInv, Goroutines, Shape, Session
  <2>5. ASSUME NEW q \in Agent, bProc'[q].pc = "join"
        PROVE  /\ \A x \in Agent \ {q} : bProc'[x].pc = "join" => bProc'[x].id # bProc'[q].id
               /\ \A c \in Box : seat[c] # Nil => seat[c].n # bProc'[q].id
               /\ \A x \in Agent : bProc'[x].pc = "replay" => bProc'[x].cur.n # bProc'[q].id
    <3>1. CASE q = p
      BY <1>5, <1>11, <2>1, <2>2, <2>3, <2>4, <3>1
    <3>2. CASE q # p
      <4>1. bProc'[q] = bProc[q]
        BY <1>11, <3>2
      <4>2. bProc[q].id # bCalls + 1
        BY <2>1, <2>2, <2>5, <3>2, <4>1
      <4>3. Numbers
        BY DEF SignalInv
      <4> QED BY <1>5, <1>11, <1>15, <2>5, <4>1, <4>2, <4>3 DEF Numbers
    <3> QED BY <3>1, <3>2
  <2> QED BY <1>2, <2>5 DEF Numbers
<1> QED BY <1>10, <1>11, <1>13, <1>16, <1>17, <1>18 DEF SignalInv

\* A step of p at box b that changes who staffs it or what is told.
Seating(p, n) ==
  /\ bProc' = [bProc EXCEPT ![p] = n] /\ Shape(n)' /\ Bounded /\ Typed'
  /\ bProc[p].pc \in {"join", "joined", "leave", "left"} /\ n.pc \in {"off", "joined", "left"}
  /\ loaded' \subseteq loaded
  /\ UNCHANGED <<B!boxes, B!radio, page, cut, B!stops, B!bounds>>

LEMMA SeatingStep ==
  ASSUME SignalInv, NEW p \in Agent, NEW n, Seating(p, n)
  PROVE  /\ Grows /\ Goroutines' /\ bProc'[p] = n /\ \A q \in Agent \ {p} : bProc'[q] = bProc[q]
         /\ Entries' /\ OneReader' /\ StopInv'
         /\ (\A c \in Box : seat'[c] \in {Nil, seat[c]}) => OneSeat' /\ Numbers' /\ HeardInv'
<1> USE DEF B!boxes, B!radio, B!stops
<1>1. /\ bProc' = [bProc EXCEPT ![p] = n] /\ Shape(n)' /\ Bounded
      /\ bProc[p].pc \in {"join", "joined", "leave", "left"} /\ n.pc \in {"off", "joined", "left"}
      /\ loaded' \subseteq loaded /\ UNCHANGED <<B!boxes, B!radio, page, cut, B!stops>>
  BY DEF Seating
<1>2. Grows
  BY <1>1, SameStream
<1>3. Goroutines' /\ bProc'[p] = n /\ \A q \in Agent \ {p} : bProc'[q] = bProc[q]
  <2>1. \A q \in Agent \ {p} : bProc[q].pc = "replay" => bProc[q].u \notin loaded'
    BY <1>1 DEF SignalInv, Goroutines, Shape
  <2> QED BY <1>1, <1>2, <2>1, Update DEF SignalInv, Bounded
<1>4. Entries'
  BY <1>1, EntriesFrame DEF SignalInv
<1>5. /\ \A q \in Agent : bProc'[q].pc \in {"join", "replay"} => bProc'[q] = bProc[q]
      /\ \A q \in Agent : bProc'[q].pc \in {"replay", "occupant"} => bProc'[q] = bProc[q]
      /\ \A q \in Agent : bProc'[q].pc = "replay" => bProc'[q] = bProc[q]
      /\ \A q \in Agent : bProc[q].pc = "publish" => bProc'[q].pc = "publish"
  BY <1>1, <1>3
<1>6. OneReader' /\ StopInv'
  BY <1>1, <1>5, ReaderFrame, StopFrame DEF SignalInv
<1>7. ASSUME \A c \in Box : seat'[c] \in {Nil, seat[c]} PROVE OneSeat' /\ Numbers' /\ HeardInv'
  <2>1. OneSeat' /\ Numbers'
    BY <1>5, <1>7, SeatFrame, NumbersFrame DEF SignalInv
  <2>2. HeardInv'
    BY <1>1, <1>2, <1>5, <1>7, HeardFrame DEF SignalInv
  <2> QED BY <2>1, <2>2
<1> QED BY <1>2, <1>3, <1>4, <1>6, <1>7

\* The types of a step that changes seats, what is told and what is loaded.
LEMMA TypesOfSeats ==
  ASSUME Typed, Bounded, UNCHANGED <<B!boxes, B!radio, page, B!stops>>,
         seat' \in [Box -> Session \cup {Nil}], told' \in [Box -> Person \cup {Nil}],
         blurred' \subseteq Box, loaded' \subseteq Person,
         \A b \in Box : seat'[b] # Nil => seat'[b].n <= bCalls'
  PROVE  Typed'
<1> USE DEF B!boxes, B!radio, B!stops
<1>1. /\ signalman \subseteq Person /\ listed \subseteq Box /\ Box \ listed \subseteq dropped
      /\ dropped \subseteq Box /\ bNow \in 0 .. MaxMs /\ chat \in BOOLEAN /\ window \in BOOLEAN
      /\ page = [u \in Person |-> page[u]]
      /\ stop \in [published : BOOLEAN, failed : BOOLEAN, confirmed : BOOLEAN]
  BY DEF Typed
<1>2. stream' = [k \in B!Key |-> stream'[k]] /\ \A k \in B!Key : stream'[k] \in Seq(B!History(k)')
  BY DEF Typed, B!History
<1> QED BY <1>1, <1>2 DEF Typed, Bounded

LEMMA GoesOn ==
  ASSUME Goroutines, NEW p \in Agent, NEW pc, NEW n, n = [bProc[p] EXCEPT !.pc = pc]
  PROVE  /\ Fields(n) /\ n.pc = pc /\ n.u = bProc[p].u /\ n.b = bProc[p].b /\ n.cur = bProc[p].cur
<1>1. PICK r : r = bProc[p]
  OBVIOUS
<1>2. Fields(r)
  BY <1>1 DEF Goroutines, Shape
<1>3. n = Record(pc, r.u, r.b, r.cur, r.m, r.keys, r.id, r.rows, r.left)
  BY <1>1, <1>2, PcRecord, Zenon
<1> QED BY <1>1, <1>3, RecordFields

LEMMA JoinCommitStep ==
  ASSUME B!SignalboxAssumption, SignalInv, NEW p \in Agent, B!JoinCommit(p)
  PROVE  SignalInv'
<1>1. Bounded
  BY Counts DEF SignalInv, B!JoinCommit
<1>2. bProc[p].pc = "join" /\ UNCHANGED <<B!boxes, told, B!radio, page, cut, B!stops, B!bounds>>
  BY DEF B!JoinCommit
<1>3. PICK u \in Person, b \in Box, i \in 1 .. bCalls :
        u = bProc[p].u /\ b = bProc[p].b /\ i = bProc[p].id
  BY <1>2 DEF SignalInv, Goroutines, Shape
<1>4. PICK ended : ended = {c \in Box : B!Staffs(u, c) \/ (c = b /\ seat[c] # Nil /\ seat[c] = bProc[p].cur)}
  OBVIOUS
<1>5. CASE seat[b] # Nil /\ b \notin ended
  <2>1. B!Done(p) /\ UNCHANGED <<seat, blurred, loaded>>
    BY <1>3, <1>4, <1>5 DEF B!JoinCommit
  <2> QED BY <1>1, <1>2, <2>1, QuietDone DEF B!seats, B!pages
<1>6. CASE ~(seat[b] # Nil /\ b \notin ended)
  <2>1. /\ seat' = [c \in Box |-> IF c = b THEN [u |-> u, n |-> i]
                                  ELSE IF c \in ended THEN Nil ELSE seat[c]]
        /\ blurred' = blurred \cup (ended \ {b}) \cup (IF B!AtBox(b) = {p} THEN {} ELSE {b})
        /\ loaded' = loaded \ ({u} \cup {seat[c].u : c \in ended})
        /\ bProc' = [bProc EXCEPT ![p] = [bProc[p] EXCEPT !.pc = "joined"]]
    BY <1>3, <1>4, <1>6, Zenon DEF B!JoinCommit, B!Goto
  <2>2. PICK n : n = [bProc[p] EXCEPT !.pc = "joined"]
    OBVIOUS
  <2>3. Fields(n) /\ n.pc = "joined" /\ n.u = u /\ n.b = b
    BY <1>3, <2>2, GoesOn DEF SignalInv
  <2>4. Shape(n)'
    BY <2>3 DEF Shape, Points
  <2>5. /\ seat'[b] = [u |-> u, n |-> i]
        /\ \A c \in Box \ {b} : seat'[c] = IF c \in ended THEN Nil ELSE seat[c]
    BY <2>1
  <2>6. /\ bCalls \in Nat /\ i \in Nat /\ i <= bCalls'
        /\ seat'[b] \in Session /\ seat'[b] # Nil /\ seat'[b].u = u /\ seat'[b].n = i
    BY <1>1, <2>5 DEF Session, Bounded, B!SignalboxAssumption
  <2>7. Typed'
    <3>1. /\ seat \in [Box -> Session \cup {Nil}] /\ blurred \subseteq Box /\ loaded \subseteq Person
          /\ told \in [Box -> Person \cup {Nil}]
      BY DEF SignalInv, Typed
    <3>2. \A c \in Box : seat'[c] \in Session \cup {Nil}
      BY <2>5, <2>6, <3>1
    <3>3. seat' \in [Box -> Session \cup {Nil}]
      BY <2>1, <3>2
    <3>4. \A c \in Box : seat[c] # Nil => seat[c].n <= bCalls'
      BY <1>2 DEF SignalInv, Typed, B!bounds
    <3>5. \A c \in Box : seat'[c] # Nil => seat'[c].n <= bCalls'
      BY <2>5, <2>6, <3>4
    <3>6. blurred' \subseteq Box /\ loaded' \subseteq Person
      BY <1>4, <2>1, <3>1
    <3> QED BY <1>1, <1>2, <3>1, <3>3, <3>5, <3>6, TypesOfSeats DEF SignalInv
  <2>8. loaded' \subseteq loaded /\ u \notin loaded'
    BY <2>1
  <2>9. Seating(p, n)
    BY <1>1, <1>2, <2>1, <2>2, <2>3, <2>4, <2>7, <2>8 DEF Seating
  <2>10. /\ Grows /\ Goroutines' /\ bProc'[p] = n /\ \A q \in Agent \ {p} : bProc'[q] = bProc[q]
         /\ Entries' /\ OneReader' /\ StopInv'
    BY <2>9, SeatingStep
  <2>11. OneSeat'
    <3>1. ASSUME NEW v \in Person, NEW c \in Box, NEW d \in Box, B!Staffs(v, c)', B!Staffs(v, d)'
          PROVE  c = d
      <4>1. \A x \in Box \ {b} : B!Staffs(v, x)' => v # u /\ B!Staffs(v, x)
        BY <1>4, <2>5 DEF B!Staffs
      <4>2. B!Staffs(v, b)' => v = u
        BY <2>6 DEF B!Staffs
      <4> QED BY <3>1, <4>1, <4>2 DEF SignalInv, OneSeat
    <3> QED BY <3>1 DEF OneSeat
  <2>12. ToldInv'
    <3>1. ASSUME NEW c \in Box, c \notin blurred', ~Telling(c)' PROVE told'[c] = Occupant(c)'
      <4>1. c # b
        BY <2>3, <2>10, <3>1 DEF Telling
      <4>2. c \notin blurred /\ c \notin ended
        BY <2>1, <3>1, <4>1
      <4>3. ~Telling(c)
        BY <1>2, <2>10, <3>1 DEF Telling
      <4>4. seat'[c] = seat[c] /\ told'[c] = told[c]
        BY <1>2, <2>5, <4>1, <4>2
      <4> QED BY <4>2, <4>3, <4>4 DEF SignalInv, ToldInv, Occupant
    <3> QED BY <3>1 DEF ToldInv
  <2>13. Numbers'
    <3>1. ASSUME NEW q \in Agent, bProc'[q].pc = "join"
          PROVE  /\ \A x \in Agent \ {q} : bProc'[x].pc = "join" => bProc'[x].id # bProc'[q].id
                 /\ \A c \in Box : seat'[c] # Nil => seat'[c].n # bProc'[q].id
                 /\ \A x \in Agent : bProc'[x].pc = "replay" => bProc'[x].cur.n # bProc'[q].id
      <4>1. q # p /\ bProc'[q] = bProc[q] /\ bProc[q].pc = "join"
        BY <2>3, <2>10, <3>1
      <4>2. /\ \A x \in Agent \ {q} : bProc[x].pc = "join" => bProc[x].id # bProc[q].id
            /\ \A c \in Box : seat[c] # Nil => seat[c].n # bProc[q].id
            /\ \A x \in Agent : bProc[x].pc = "replay" => bProc[x].cur.n # bProc[q].id
        BY <4>1 DEF SignalInv, Numbers
      <4>3. i # bProc[q].id
        BY <1>2, <1>3, <4>1, <4>2
      <4>4. \A c \in Box : seat'[c] # Nil => seat'[c].n # bProc[q].id
        BY <2>5, <2>6, <4>2, <4>3
      <4>5. \A x \in Agent : bProc'[x].pc \in {"join", "replay"} => bProc'[x] = bProc[x]
        BY <2>3, <2>10
      <4> QED BY <4>1, <4>2, <4>4, <4>5
    <3> QED BY <3>1 DEF Numbers
  <2>14. HeardInv'
    <3>1. ASSUME NEW m, NEW v \in Person, m.box # Nil => m.box \in Box, Hears(m, v) PROVE Hears(m, v)'
      <4>1. Excused(m) => Excused(m)'
        BY <1>2, <2>10, GrowsClashes DEF Excused, B!boxes
      <4> SUFFICES ASSUME m.box # Nil /\ B!Staffs(v, m.box)' /\ ~Excused(m)'
                   PROVE  /\ v \in loaded' => \E e \in page'[v] : e.m = m
                          /\ \A q \in Agent : bProc'[q].pc = "replay" /\ bProc'[q].cur = seat'[m.box] =>
                               \E e \in bProc'[q].rows : e.m = m
        BY DEF Hears
      <4>2. \A q \in Agent : bProc'[q].pc = "replay" => bProc'[q] = bProc[q]
        BY <2>3, <2>10
      <4>3. CASE m.box = b
        <5>1. v = u
          BY <2>6, <4>3 DEF B!Staffs
        <5>2. ASSUME NEW q \in Agent, bProc'[q].pc = "replay" PROVE bProc'[q].cur # seat'[b]
          <6>1. bProc[q].pc = "replay" /\ bProc'[q] = bProc[q]
            BY <4>2, <5>2
          <6>2. bProc[q].cur.n # i
            BY <1>2, <1>3, <6>1 DEF SignalInv, Numbers
          <6> QED BY <2>6, <6>1, <6>2
        <5> QED BY <2>8, <4>3, <5>1, <5>2
      <4>4. CASE m.box # b
        <5>1. m.box \in Box \ {b} /\ seat'[m.box] # Nil
          BY <3>1, <4>4 DEF B!Staffs
        <5>2. seat'[m.box] = seat[m.box] /\ B!Staffs(v, m.box)
          BY <2>5, <5>1 DEF B!Staffs
        <5>3. /\ v \in loaded => \E e \in page[v] : e.m = m
              /\ \A q \in Agent : bProc[q].pc = "replay" /\ bProc[q].cur = seat[m.box] =>
                   \E e \in bProc[q].rows : e.m = m
          BY <3>1, <4>1, <5>2 DEF Hears
        <5> QED BY <1>2, <2>8, <4>2, <5>2, <5>3
      <4> QED BY <4>3, <4>4
    <3>2. ASSUME NEW m \in accepted', NEW v \in Person PROVE Hears(m, v)'
      <4>1. m \in accepted /\ (m.box # Nil => m.box \in Box)
        BY <1>2 DEF SignalInv, Entries, Message, B!radio
      <4> QED BY <3>1, <4>1 DEF SignalInv, HeardInv
    <3>3. ASSUME NEW q \in Agent, bProc'[q].pc = "occupant", NEW v \in Person \ {bProc'[q].cur}
          PROVE  Hears(bProc[q].m, v)'
      <4>1. bProc'[q] = bProc[q] /\ bProc[q].pc = "occupant"
        BY <2>3, <2>10, <3>3
      <4>2. PICK m : m = bProc[q].m
        OBVIOUS
      <4>3. m.box # Nil => m.box \in Box
        BY <4>1, <4>2 DEF SignalInv, Goroutines, Shape, Message
      <4>4. Hears(m, v)
        BY <3>3, <4>1, <4>2 DEF SignalInv, HeardInv
      <4>5. Hears(m, v)'
        BY <3>1, <4>3, <4>4
      <4> QED BY <4>1, <4>2, <4>5
    <3> QED BY <3>2, <3>3 DEF HeardInv
  <2> QED BY <2>7, <2>10, <2>11, <2>12, <2>13, <2>14 DEF SignalInv
<1> QED BY <1>5, <1>6

\* What the clients are told of box b, when p tells them v.
LEMMA TellStep ==
  ASSUME B!SignalboxAssumption, SignalInv, NEW p \in Agent, NEW b \in Box, NEW v \in Person \cup {Nil},
         bProc[p].pc \in {"joined", "left"}, bProc[p].b = b, B!Done(p),
         told' = [told EXCEPT ![b] = v],
         blurred' = (blurred \ {b}) \/ blurred' = blurred \cup {b},
         b \notin blurred' => Occupant(b) = v,
         UNCHANGED <<B!boxes, seat, B!radio, B!pages, B!stops, B!bounds>>
  PROVE  SignalInv'
<1> USE DEF B!pages
<1>1. Bounded
  BY Counts DEF SignalInv
<1>2. bProc' = [bProc EXCEPT ![p] = B!Off] /\ Shape(B!Off)' /\ B!Off.pc = "off"
  BY ShapeOff, OffFields DEF B!Done, B!Goto
<1>3. told \in [Box -> Person \cup {Nil}] /\ blurred \subseteq Box
  BY DEF SignalInv, Typed
<1>4. told' \in [Box -> Person \cup {Nil}] /\ blurred' \subseteq Box
  BY <1>3
<1>5. Typed'
  <2>1. /\ seat' \in [Box -> Session \cup {Nil}] /\ loaded' \subseteq Person
        /\ \A c \in Box : seat'[c] # Nil => seat'[c].n <= bCalls'
    BY DEF SignalInv, Typed, B!bounds
  <2> QED BY <1>1, <1>4, <2>1, TypesOfSeats DEF SignalInv
<1>6. Seating(p, B!Off)
  BY <1>1, <1>2, <1>5 DEF Seating
<1>7. /\ Grows /\ Goroutines' /\ bProc'[p] = B!Off /\ \A q \in Agent \ {p} : bProc'[q] = bProc[q]
      /\ Entries' /\ OneReader' /\ StopInv' /\ OneSeat' /\ Numbers' /\ HeardInv'
  BY <1>6, SeatingStep
<1>8. ToldInv'
  <2>1. ASSUME NEW c \in Box, c \notin blurred', ~Telling(c)' PROVE told'[c] = Occupant(c)'
    <3>1. Occupant(c)' = Occupant(c)
      BY DEF Occupant
    <3>2. CASE c = b
      BY <1>3, <2>1, <3>1, <3>2
    <3>3. CASE c # b
      <4>1. c \notin blurred
        BY <2>1, <3>3
      <4>2. ~Telling(c)
        BY <1>7, <2>1, <3>3 DEF Telling
      <4>3. told'[c] = told[c]
        BY <1>3, <3>3
      <4> QED BY <3>1, <4>1, <4>2, <4>3 DEF SignalInv, ToldInv
    <3> QED BY <3>2, <3>3
  <2> QED BY <2>1 DEF ToldInv
<1> QED BY <1>5, <1>7, <1>8 DEF SignalInv

LEMMA JoinTellStep ==
  ASSUME B!SignalboxAssumption, SignalInv, NEW p \in Agent, B!JoinTell(p)
  PROVE  SignalInv'
<1>1. bProc[p].pc = "joined" /\ B!Done(p) /\ UNCHANGED <<B!boxes, seat, B!radio, B!pages, B!stops, B!bounds>>
  BY DEF B!JoinTell
<1>2. PICK u \in Person, b \in Box : u = bProc[p].u /\ b = bProc[p].b
  BY <1>1 DEF SignalInv, Goroutines, Shape
<1>3. /\ told' = [told EXCEPT ![b] = u]
      /\ blurred' = IF B!AtBox(b) = {p} /\ B!Staffs(u, b) THEN blurred \ {b} ELSE blurred \cup {b}
  BY <1>2, Zenon DEF B!JoinTell
<1>4. b \notin blurred' => Occupant(b) = u
  BY <1>3 DEF B!Staffs, Occupant
<1>5. blurred' = (blurred \ {b}) \/ blurred' = blurred \cup {b}
  BY <1>3
<1> QED BY <1>1, <1>2, <1>3, <1>4, <1>5, TellStep

LEMMA LeaveTellStep ==
  ASSUME B!SignalboxAssumption, SignalInv, NEW p \in Agent, B!LeaveTell(p)
  PROVE  SignalInv'
<1>1. bProc[p].pc = "left" /\ B!Done(p) /\ UNCHANGED <<B!boxes, seat, B!radio, B!pages, B!stops, B!bounds>>
  BY DEF B!LeaveTell
<1>2. PICK b \in Box : b = bProc[p].b
  BY <1>1 DEF SignalInv, Goroutines, Shape
<1>3. /\ told' = [told EXCEPT ![b] = Nil]
      /\ blurred' = IF B!AtBox(b) = {p} /\ seat[b] = Nil THEN blurred \ {b} ELSE blurred \cup {b}
  BY <1>2, Zenon DEF B!LeaveTell
<1>4. b \notin blurred' => Occupant(b) = Nil
  BY <1>3 DEF Occupant
<1>5. blurred' = (blurred \ {b}) \/ blurred' = blurred \cup {b}
  BY <1>3
<1> QED BY <1>1, <1>2, <1>3, <1>4, <1>5, TellStep

LEMMA LeaveEndStep ==
  ASSUME B!SignalboxAssumption, SignalInv, NEW p \in Agent, B!LeaveEnd(p)
  PROVE  SignalInv'
<1>1. Bounded
  BY Counts DEF SignalInv, B!LeaveEnd
<1>2. bProc[p].pc = "leave" /\ UNCHANGED <<B!boxes, told, B!radio, page, cut, B!stops, B!bounds>>
  BY DEF B!LeaveEnd
<1>3. PICK u \in Person, b \in Box, s \in Session : u = bProc[p].u /\ b = bProc[p].b /\ s = bProc[p].cur
  BY <1>2 DEF SignalInv, Goroutines, Shape
<1>4. /\ IF seat[b] = s THEN seat' = [seat EXCEPT ![b] = Nil] /\ loaded' = loaded \ {u}
         ELSE UNCHANGED <<seat, loaded>>
      /\ blurred' = IF B!AtBox(b) = {p} /\ seat[b] = s THEN blurred ELSE blurred \cup {b}
      /\ bProc' = [bProc EXCEPT ![p] = [bProc[p] EXCEPT !.pc = "left"]]
  BY <1>3, Zenon DEF B!LeaveEnd, B!Goto
<1>5. PICK n : n = [bProc[p] EXCEPT !.pc = "left"]
  OBVIOUS
<1>6. Fields(n) /\ n.pc = "left" /\ n.u = u /\ n.b = b /\ n.cur = s
  BY <1>3, <1>5, GoesOn DEF SignalInv
<1>7. Shape(n)'
  BY <1>6 DEF Shape, Points
<1>8. /\ seat \in [Box -> Session \cup {Nil}] /\ blurred \subseteq Box /\ loaded \subseteq Person
      /\ told \in [Box -> Person \cup {Nil}]
  BY DEF SignalInv, Typed
<1>9. /\ seat' \in [Box -> Session \cup {Nil}] /\ blurred' \subseteq Box /\ loaded' \subseteq loaded
      /\ \A c \in Box : seat'[c] \in {Nil, seat[c]}
      /\ \A c \in Box \ {b} : seat'[c] = seat[c]
  BY <1>4, <1>8
<1>10. Typed'
  <2>1. \A c \in Box : seat[c] # Nil => seat[c].n <= bCalls'
    BY <1>2 DEF SignalInv, Typed, B!bounds
  <2>2. \A c \in Box : seat'[c] # Nil => seat'[c].n <= bCalls'
    BY <1>9, <2>1
  <2> QED BY <1>1, <1>2, <1>8, <1>9, <2>2, TypesOfSeats DEF SignalInv
<1>11. Seating(p, n)
  BY <1>1, <1>2, <1>4, <1>5, <1>6, <1>7, <1>9, <1>10 DEF Seating
<1>12. /\ Grows /\ Goroutines' /\ bProc'[p] = n /\ \A q \in Agent \ {p} : bProc'[q] = bProc[q]
       /\ Entries' /\ OneReader' /\ StopInv' /\ OneSeat' /\ Numbers' /\ HeardInv'
  BY <1>9, <1>11, SeatingStep
<1>13. ToldInv'
  <2>1. ASSUME NEW c \in Box, c \notin blurred', ~Telling(c)' PROVE told'[c] = Occupant(c)'
    <3>1. c # b
      BY <1>6, <1>12, <2>1 DEF Telling
    <3>2. c \notin blurred
      BY <1>4, <2>1
    <3>3. ~Telling(c)
      BY <1>2, <1>12, <2>1 DEF Telling
    <3>4. seat'[c] = seat[c] /\ told'[c] = told[c]
      BY <1>2, <1>9, <3>1
    <3> QED BY <3>2, <3>3, <3>4 DEF SignalInv, ToldInv, Occupant
  <2> QED BY <2>1 DEF ToldInv
<1> QED BY <1>10, <1>12, <1>13 DEF SignalInv

(***************************************************************************)
(* The walkie-talkie.                                                      *)
(***************************************************************************)
LEMMA Longer ==
  ASSUME NEW k \in B!Key, NEW e, Typed, stream' = [stream EXCEPT ![k] = Append(@, e)]
  PROVE  /\ stream' = [j \in B!Key |-> stream'[j]] /\ \A j \in B!Key : stream'[j] \in Seq(B!History(j)')
         /\ B!History(k)' = B!History(k) \cup {e}
         /\ \A j \in B!Key \ {k} : B!History(j)' = B!History(j)
<1>1. stream = [j \in B!Key |-> stream[j]] /\ \A j \in B!Key : stream[j] \in Seq(B!History(j))
  BY DEF Typed
<1>2. stream' = [j \in B!Key |-> stream'[j]] /\ stream'[k] = Append(stream[k], e)
      /\ \A j \in B!Key \ {k} : stream'[j] = stream[j]
  BY <1>1
<1>3. \A j \in B!Key \ {k} : B!History(j)' = B!History(j)
  BY <1>2 DEF B!History
<1>4. PICK s : s = stream[k]
  OBVIOUS
<1>5. PICK t : t = Append(s, e)
  OBVIOUS
<1>6. PICK H : H = B!History(k)
  OBVIOUS
<1>7. s \in Seq(H) /\ H = {s[i] : i \in DOMAIN s}
  BY <1>1, <1>4, <1>6 DEF B!History
<1>8. /\ t \in Seq(H \cup {e}) /\ Len(t) = Len(s) + 1 /\ t[Len(t)] = e
      /\ \A i \in 1 .. Len(s) : t[i] = s[i]
  BY <1>5, <1>7
<1>9. {t[i] : i \in DOMAIN t} = H \cup {e}
  <2>1. Len(s) \in Nat /\ DOMAIN s = 1 .. Len(s) /\ DOMAIN t = 1 .. Len(s) + 1
    BY <1>7, <1>8
  <2> QED BY <1>7, <1>8, <2>1
<1>10. B!History(k)' = H \cup {e}
  BY <1>2, <1>4, <1>5, <1>9 DEF B!History
<1>11. stream'[k] \in Seq(B!History(k)')
  BY <1>2, <1>4, <1>5, <1>8, <1>10
<1> QED BY <1>1, <1>2, <1>3, <1>6, <1>10, <1>11

LEMMA TailLast ==
  ASSUME NEW S, NEW s \in Seq(S), s # <<>>, Len(s) # 1
  PROVE  Tail(s) \in Seq(S) /\ Tail(s) # <<>> /\ Tail(s)[Len(Tail(s))] = s[Len(s)]
<1>1. Len(s) \in Nat \ {0, 1}
  OBVIOUS
<1>2. PICK t : t = Tail(s)
  OBVIOUS
<1>3. t \in Seq(S) /\ Len(t) = Len(s) - 1 /\ \A i \in 1 .. Len(t) : t[i] = s[i + 1]
  BY <1>1, <1>2, HeadTailProperties
<1>4. t[Len(t)] = s[Len(s)]
  <2>1. Len(t) \in 1 .. Len(t) /\ Len(t) + 1 = Len(s)
    BY <1>1, <1>3
  <2> QED BY <1>3, <2>1
<1>5. t # <<>>
  BY <1>1, <1>3
<1> QED BY <1>2, <1>3, <1>4, <1>5

LEMMA Append1Step ==
  ASSUME B!SignalboxAssumption, SignalInv, NEW p \in Agent, B!Append1(p)
  PROVE  SignalInv'
<1> USE DEF B!boxes, B!seats, B!pages, B!stops
<1>1. Bounded
  BY Counts DEF SignalInv, B!Append1
<1>2. bProc[p].pc = "append" /\ UNCHANGED <<B!boxes, B!seats, accepted, B!pages, B!stops, B!bounds>>
  BY DEF B!Append1
<1>3. PICK r : r = bProc[p]
  OBVIOUS
<1>4. PICK k : k = Head(r.keys)
  OBVIOUS
<1>t. PICK t \in bNow .. MaxMs :
        /\ bNow' = t
        /\ stream' = [stream EXCEPT ![Head(bProc[p].keys)] =
                         Append(@, [id |-> B!NextId(Head(bProc[p].keys), t), m |-> bProc[p].m])]
        /\ bProc' = [bProc EXCEPT ![p] = [bProc[p] EXCEPT
                       !.keys = Tail(@), !.id = IF @ = Nil THEN B!NextId(Head(bProc[p].keys), t) ELSE @,
                       !.pc = IF Len(bProc[p].keys) = 1 THEN "fanout" ELSE "append"]]
  BY Zenon DEF B!Append1, B!Goto
<1>i. PICK i : i = B!NextId(k, t)
  OBVIOUS
<1>c. PICK pc : pc = IF Len(r.keys) = 1 THEN "fanout" ELSE "append"
  OBVIOUS
<1>5. /\ bNow' = t
      /\ stream' = [stream EXCEPT ![k] = Append(@, [id |-> i, m |-> r.m])]
      /\ bProc' = [bProc EXCEPT ![p] = [r EXCEPT !.keys = Tail(@),
                                        !.id = IF @ = Nil THEN i ELSE @, !.pc = pc]]
  BY <1>t, <1>i, <1>c, <1>3, <1>4, Zenon
<1>6. /\ Fields(r) /\ r.m \in Message /\ r.keys \in Seq(B!Key) /\ r.keys # <<>>
      /\ Head(r.keys) = B!UserKey(r.m.from) \/ Kept(r.m)
      /\ r.m.box # Nil => r.keys[Len(r.keys)] = B!BoxKey(r.m.box)
      /\ r.id = Nil \/ [id |-> r.id, m |-> r.m] \in All
  BY <1>2, <1>3 DEF SignalInv, Goroutines, Shape
<1>7. k \in B!Key
  BY <1>4, <1>6
<1>8. PICK e : e = [id |-> i, m |-> r.m]
  OBVIOUS
<1>9. /\ stream' = [j \in B!Key |-> stream'[j]] /\ \A j \in B!Key : stream'[j] \in Seq(B!History(j)')
      /\ B!History(k)' = B!History(k) \cup {e}
      /\ \A j \in B!Key \ {k} : B!History(j)' = B!History(j)
  BY <1>5, <1>7, <1>8, Longer DEF SignalInv
<1>10. Grows
  BY <1>9 DEF Grows
<1>11. e.id = i /\ e.m = r.m /\ e = [id |-> e.id, m |-> e.m]
  BY <1>8
<1>12. e \in All' /\ All \subseteq All'
  BY <1>7, <1>9, <1>10, GrowsAll DEF All
<1>13. Kept(r.m)'
  <2>1. CASE k = B!UserKey(r.m.from)
    BY <1>9, <1>11, <2>1 DEF Kept
  <2>2. CASE Kept(r.m)
    BY <1>6, <1>10, <2>2, GrowsKept
  <2> QED BY <1>4, <1>6, <2>1, <2>2
<1>14. PICK id : id = IF r.id = Nil THEN i ELSE r.id
  OBVIOUS
<1>15. [id |-> id, m |-> r.m] \in All'
  BY <1>6, <1>8, <1>12, <1>14
<1>16. PICK n : n = Record(pc, r.u, r.b, r.cur, r.m, Tail(r.keys), id, r.rows, r.left)
  OBVIOUS
<1>17. bProc' = [bProc EXCEPT ![p] = n]
  <2>1. bProc' = [bProc EXCEPT ![p] = [r EXCEPT !.keys = Tail(r.keys), !.id = id, !.pc = pc]]
    BY <1>5, <1>14, Zenon
  <2>2. [r EXCEPT !.keys = Tail(r.keys), !.id = id, !.pc = pc] = n
    BY <1>6, <1>16, AppendRecord, Zenon
  <2> QED BY <2>1, <2>2, Zenon
<1>18. Fields(n) /\ n.pc = pc /\ n.m = r.m /\ n.keys = Tail(r.keys) /\ n.id = id
  BY <1>16, RecordFields
<1>19. Shape(n)'
  <2>1. CASE Len(r.keys) = 1
    <3>1. r.m.box # Nil => k = B!BoxKey(r.m.box)
      BY <1>4, <1>6, <2>1
    <3>2. InBox(r.m)'
      BY <1>9, <1>11, <3>1 DEF InBox
    <3>3. pc = "fanout"
      BY <1>c, <2>1
    <3> QED BY <1>6, <1>15, <1>18, <3>2, <3>3 DEF Shape, Points
  <2>2. CASE Len(r.keys) # 1
    <3>1. /\ Tail(r.keys) \in Seq(B!Key) /\ Tail(r.keys) # <<>>
          /\ Tail(r.keys)[Len(Tail(r.keys))] = r.keys[Len(r.keys)]
      BY <1>6, <2>2, TailLast
    <3>2. pc = "append"
      BY <1>c, <2>2
    <3> QED BY <1>6, <1>13, <1>15, <1>18, <3>1, <3>2 DEF Shape, Points
  <2> QED BY <2>1, <2>2
<1>20. pc \in {"append", "fanout"}
  BY <1>c
<1>21. Goroutines' /\ bProc'[p] = n /\ \A q \in Agent \ {p} : bProc'[q] = bProc[q]
  <2>1. \A q \in Agent \ {p} : bProc[q].pc = "replay" => bProc[q].u \notin loaded'
    BY <1>2 DEF SignalInv, Goroutines, Shape
  <2> QED BY <1>1, <1>10, <1>17, <1>19, <2>1, Update DEF SignalInv, Bounded
<1>22. Typed'
  <2>1. /\ signalman \subseteq Person /\ listed \subseteq Box /\ Box \ listed \subseteq dropped
        /\ dropped \subseteq Box /\ blurred \subseteq Box /\ loaded \subseteq Person
        /\ seat \in [Box -> Session \cup {Nil}] /\ told \in [Box -> Person \cup {Nil}]
        /\ chat \in BOOLEAN /\ window \in BOOLEAN
        /\ page = [u \in Person |-> page[u]]
        /\ stop \in [published : BOOLEAN, failed : BOOLEAN, confirmed : BOOLEAN]
    BY DEF SignalInv, Typed
  <2>2. \A b \in Box : seat[b] # Nil => seat[b].n <= bCalls'
    BY <1>2 DEF SignalInv, Typed, B!bounds
  <2>3. bNow' \in 0 .. MaxMs
    BY <1>5 DEF SignalInv, Typed, B!SignalboxAssumption
  <2> QED BY <1>1, <1>2, <1>9, <2>1, <2>2, <2>3 DEF Typed, Bounded
<1>23. Entries'
  <2>1. ASSUME NEW j \in B!Key, NEW f \in B!History(j)'
        PROVE  f = [id |-> f.id, m |-> f.m] /\ f.m \in Message /\ Kept(f.m)'
    <3>1. CASE f = e
      BY <1>6, <1>11, <1>13, <3>1
    <3>2. CASE f # e
      <4>1. f \in B!History(j)
        BY <1>9, <2>1, <3>2
      <4>2. f = [id |-> f.id, m |-> f.m] /\ f.m \in Message /\ Kept(f.m)
        BY <4>1 DEF SignalInv, Entries
      <4> QED BY <1>10, <4>2, GrowsKept
    <3> QED BY <3>1, <3>2
  <2>2. \A u \in Person : page'[u] \subseteq All'
    BY <1>2, <1>12 DEF SignalInv, Entries
  <2>3. ASSUME NEW m \in accepted' PROVE m \in Message /\ InBox(m)'
    <3>1. m \in Message /\ InBox(m)
      BY <1>2 DEF SignalInv, Entries
    <3> QED BY <1>10, <3>1, GrowsInBox
  <2> QED BY <2>1, <2>2, <2>3 DEF Entries
<1>24. \A b \in Box : seat'[b] \in {Nil, seat[b]}
  BY <1>2
<1>25. /\ \A q \in Agent : bProc[q].pc \in {"joined", "left"} => bProc'[q] = bProc[q]
       /\ \A q \in Agent : bProc'[q].pc \in {"join", "replay"} => bProc'[q] = bProc[q]
       /\ \A q \in Agent : bProc'[q].pc \in {"replay", "occupant"} => bProc'[q] = bProc[q]
       /\ \A q \in Agent : bProc'[q].pc = "replay" => bProc'[q] = bProc[q]
       /\ \A q \in Agent : bProc[q].pc = "publish" => bProc'[q].pc = "publish"
  BY <1>2, <1>18, <1>20, <1>21
<1>26. OneSeat' /\ ToldInv' /\ Numbers' /\ OneReader' /\ StopInv'
  BY <1>2, <1>24, <1>25, SeatFrame, ToldFrame, NumbersFrame, ReaderFrame, StopFrame DEF SignalInv
<1>27. HeardInv'
  BY <1>2, <1>10, <1>24, <1>25, HeardFrame DEF SignalInv
<1> QED BY <1>21, <1>22, <1>23, <1>26, <1>27 DEF SignalInv

LEMMA Merged ==
  ASSUME NEW S, NEW e, B!Merge(S, e)
  PROVE  /\ page' = [u \in Person |-> page'[u]] /\ cut \subseteq cut'
         /\ \A u \in Person : page[u] \subseteq page'[u] /\ page'[u] \subseteq page[u] \cup {e}
         /\ (\E u \in S : B!Reading(u)) => e.m \in cut'
         /\ \A u \in Person : u \in S \cap loaded => \E f \in page'[u] : f.id = e.id
<1>1. page' = [u \in Person |->
                IF u \in S \cap loaded /\ \A f \in page[u] : f.id # e.id
                THEN page[u] \cup {e} ELSE page[u]]
  BY DEF B!Merge
<1>2. cut' = IF \E u \in S : B!Reading(u) THEN cut \cup {e.m} ELSE cut
  BY DEF B!Merge
<1>3. \A u \in Person : page'[u] = IF u \in S \cap loaded /\ \A f \in page[u] : f.id # e.id
                                   THEN page[u] \cup {e} ELSE page[u]
  BY <1>1
<1>4. page' = [u \in Person |-> page'[u]]
  BY <1>1
<1>5. cut \subseteq cut' /\ ((\E u \in S : B!Reading(u)) => e.m \in cut')
  BY <1>2
<1> QED BY <1>3, <1>4, <1>5

\* A step of p that tells pages of a message that is in the streams.
LEMMA FanStep ==
  ASSUME SignalInv, Bounded, NEW p \in Agent, NEW n, bProc' = [bProc EXCEPT ![p] = n], Shape(n)',
         bProc[p].pc \in {"fanout", "occupant"}, n.pc \in {"off", "occupant"},
         UNCHANGED <<B!boxes, B!seats, bNow, stream, loaded, B!stops, B!bounds>>,
         page' = [u \in Person |-> page'[u]], cut \subseteq cut',
         \A u \in Person : page[u] \subseteq page'[u] /\ page'[u] \subseteq All,
         \A m \in accepted' : m \in Message /\ InBox(m)
  PROVE  /\ Typed' /\ Goroutines' /\ bProc'[p] = n /\ \A q \in Agent \ {p} : bProc'[q] = bProc[q]
         /\ Entries' /\ OneSeat' /\ ToldInv' /\ Numbers' /\ OneReader' /\ StopInv'
         /\ \A m : \A u \in Person :
              (m.box # Nil => m.box \in Box) /\ Hears(m, u) => Hears(m, u)'
<1> USE DEF B!boxes, B!seats, B!stops
<1>1. Typed'
  <2>1. /\ signalman \subseteq Person /\ listed \subseteq Box /\ Box \ listed \subseteq dropped
        /\ dropped \subseteq Box /\ blurred \subseteq Box /\ loaded \subseteq Person
        /\ seat \in [Box -> Session \cup {Nil}] /\ told \in [Box -> Person \cup {Nil}]
        /\ bNow \in 0 .. MaxMs /\ chat \in BOOLEAN /\ window \in BOOLEAN
        /\ stop \in [published : BOOLEAN, failed : BOOLEAN, confirmed : BOOLEAN]
    BY DEF SignalInv, Typed
  <2>2. \A b \in Box : seat[b] # Nil => seat[b].n <= bCalls'
    BY DEF SignalInv, Typed, B!bounds
  <2>3. stream' = [k \in B!Key |-> stream'[k]] /\ \A k \in B!Key : stream'[k] \in Seq(B!History(k)')
    BY DEF SignalInv, Typed, B!History
  <2> QED BY <2>1, <2>2, <2>3 DEF Typed, Bounded
<1>2. Grows
  BY SameStream
<1>3. Goroutines' /\ bProc'[p] = n /\ \A q \in Agent \ {p} : bProc'[q] = bProc[q]
  <2>1. \A q \in Agent \ {p} : bProc[q].pc = "replay" => bProc[q].u \notin loaded'
    BY DEF SignalInv, Goroutines, Shape
  <2> QED BY <1>2, <2>1, Update DEF SignalInv, Bounded
<1>4. Entries'
  <2>1. All' = All /\ \A k \in B!Key : B!History(k)' = B!History(k)
    BY DEF All, B!History
  <2>2. \A m \in Message : Kept(m) => Kept(m)'
    BY <1>2, GrowsKept
  <2>3. \A m \in Message : InBox(m) => InBox(m)'
    BY <1>2, GrowsInBox
  <2> QED BY <2>1, <2>2, <2>3 DEF SignalInv, Entries
<1>5. \A b \in Box : seat'[b] \in {Nil, seat[b]}
  OBVIOUS
<1>6. /\ \A q \in Agent : bProc[q].pc \in {"joined", "left"} => bProc'[q] = bProc[q]
      /\ \A q \in Agent : bProc'[q].pc \in {"join", "replay"} => bProc'[q] = bProc[q]
      /\ \A q \in Agent : bProc'[q].pc = "replay" => bProc'[q] = bProc[q]
      /\ \A q \in Agent : bProc[q].pc = "publish" => bProc'[q].pc = "publish"
  BY <1>3
<1>7. OneSeat' /\ ToldInv' /\ Numbers' /\ OneReader' /\ StopInv'
  BY <1>5, <1>6, SeatFrame, ToldFrame, NumbersFrame, ReaderFrame, StopFrame DEF SignalInv
<1>8. ASSUME NEW m, NEW u \in Person, m.box # Nil => m.box \in Box, Hears(m, u) PROVE Hears(m, u)'
  BY <1>2, <1>5, <1>6, <1>8, HearsFrame
<1> QED BY <1>1, <1>3, <1>4, <1>7, <1>8

LEMMA FanOutStep ==
  ASSUME B!SignalboxAssumption, SignalInv, NEW p \in Agent, B!FanOut(p)
  PROVE  SignalInv'
<1>1. Bounded
  BY Counts DEF SignalInv, B!FanOut
<1>2. PICK r : r = bProc[p]
  OBVIOUS
<1>3. PICK c : c = IF r.m.box = Nil THEN Nil ELSE B!occupantUserID(r.m.box)
  OBVIOUS
<1>4. PICK e : e = [id |-> r.id, m |-> r.m]
  OBVIOUS
<1>5. /\ r.pc = "fanout" /\ B!Merge({r.m.from, r.m.to}, e)
      /\ UNCHANGED <<B!boxes, B!seats, B!radio, loaded, B!stops, B!bounds>>
  BY <1>2, <1>4 DEF B!FanOut
<1>6. Fields(r) /\ r.m \in Message /\ InBox(r.m) /\ e \in All
  BY <1>2, <1>4, <1>5 DEF SignalInv, Goroutines, Shape
<1>7. r.m.box # Nil => r.m.box \in Box
  BY <1>6 DEF Message
<1>8. c \in Person \cup {Nil}
  BY <1>3, <1>7 DEF SignalInv, Typed, Session, B!occupantUserID
<1>9. PICK n : n = Record("occupant", r.u, r.b, c, r.m, r.keys, r.id, r.rows, r.left)
  OBVIOUS
<1>10. bProc' = [bProc EXCEPT ![p] = n]
  <2>1. bProc' = [bProc EXCEPT ![p] = [r EXCEPT !.pc = "occupant", !.cur = c]]
    BY <1>2, <1>3, Zenon DEF B!FanOut, B!Goto
  <2>2. [r EXCEPT !.pc = "occupant", !.cur = c] = n
    BY <1>6, <1>9, OccupantRecord, Zenon
  <2> QED BY <2>1, <2>2, Zenon
<1>11. Fields(n) /\ n.pc = "occupant" /\ n.m = r.m /\ n.cur = c /\ n.id = r.id
  BY <1>9, RecordFields
<1>12. InBox(r.m)' /\ e \in All'
  <2>1. Grows
    BY <1>5, SameStream DEF B!radio
  <2> QED BY <1>6, <2>1, GrowsAll, GrowsInBox
<1>13. Shape(n)'
  BY <1>4, <1>6, <1>8, <1>11, <1>12 DEF Shape, Points
<1>14. /\ page' = [u \in Person |-> page'[u]] /\ cut \subseteq cut'
       /\ \A u \in Person : page[u] \subseteq page'[u] /\ page'[u] \subseteq page[u] \cup {e}
  BY <1>5, Merged
<1>15. \A u \in Person : page[u] \subseteq page'[u] /\ page'[u] \subseteq All
  BY <1>6, <1>14 DEF SignalInv, Entries
<1>16. \A m \in accepted' : m \in Message /\ InBox(m)
  BY <1>5 DEF SignalInv, Entries, B!radio
<1>17. /\ Typed' /\ Goroutines' /\ bProc'[p] = n /\ \A q \in Agent \ {p} : bProc'[q] = bProc[q]
       /\ Entries' /\ OneSeat' /\ ToldInv' /\ Numbers' /\ OneReader' /\ StopInv'
       /\ \A m : \A u \in Person :
            (m.box # Nil => m.box \in Box) /\ Hears(m, u) => Hears(m, u)'
  <2>1. UNCHANGED <<B!boxes, B!seats, bNow, stream, loaded, B!stops, B!bounds>>
    BY <1>5 DEF B!radio
  <2>2. bProc[p].pc \in {"fanout", "occupant"} /\ n.pc \in {"off", "occupant"}
    BY <1>2, <1>5, <1>11
  <2> QED BY <1>1, <1>10, <1>13, <1>14, <1>15, <1>16, <2>1, <2>2, FanStep
<1>18. HeardInv'
  <2>1. ASSUME NEW m \in accepted', NEW u \in Person PROVE Hears(m, u)'
    <3>1. m \in accepted /\ (m.box # Nil => m.box \in Box)
      BY <1>5 DEF SignalInv, Entries, Message, B!radio
    <3>2. Hears(m, u)
      BY <3>1 DEF SignalInv, HeardInv
    <3> QED BY <1>17, <3>1, <3>2
  <2>2. ASSUME NEW q \in Agent, bProc'[q].pc = "occupant", NEW u \in Person \ {bProc'[q].cur}
        PROVE  Hears(bProc[q].m, u)'
    <3>1. CASE q = p
      <4>1. bProc'[q].m = r.m /\ u # c
        BY <1>11, <1>17, <2>2, <3>1
      <4>2. Hears(r.m, u)
        <5>1. r.m.box # Nil => ~B!Staffs(u, r.m.box)
          BY <1>3, <4>1 DEF B!Staffs, B!occupantUserID
        <5> QED BY <5>1 DEF Hears
      <4>3. Hears(r.m, u)'
        BY <1>7, <1>17, <4>2
      <4> QED BY <4>1, <4>3
    <3>2. CASE q # p
      <4>1. bProc'[q] = bProc[q]
        BY <1>17, <3>2
      <4>2. PICK m : m = bProc[q].m
        OBVIOUS
      <4>3. (m.box # Nil => m.box \in Box) /\ Hears(m, u)
        BY <2>2, <4>1, <4>2 DEF SignalInv, Goroutines, Shape, Message, HeardInv
      <4>4. Hears(m, u)'
        BY <1>17, <4>3
      <4> QED BY <4>1, <4>2, <4>4
    <3> QED BY <3>1, <3>2
  <2> QED BY <2>1, <2>2 DEF HeardInv
<1> QED BY <1>17, <1>18 DEF SignalInv

LEMMA FanOutOccupantStep ==
  ASSUME B!SignalboxAssumption, SignalInv, NEW p \in Agent, B!FanOutOccupant(p)
  PROVE  SignalInv'
<1>1. Bounded
  BY Counts DEF SignalInv, B!FanOutOccupant
<1>2. PICK r : r = bProc[p]
  OBVIOUS
<1>3. PICK e : e = [id |-> r.id, m |-> r.m]
  OBVIOUS
<1>4. /\ r.pc = "occupant" /\ accepted' = accepted \cup {r.m} /\ bProc' = [bProc EXCEPT ![p] = B!Off]
      /\ IF r.cur = Nil THEN UNCHANGED <<page, cut>> ELSE B!Merge({r.cur}, e)
      /\ UNCHANGED <<B!boxes, B!seats, bNow, stream, loaded, B!stops, B!bounds>>
  BY <1>2, <1>3 DEF B!FanOutOccupant, B!Done, B!Goto
<1>5. /\ r.m \in Message /\ InBox(r.m) /\ e \in All /\ r.cur \in Person \cup {Nil}
      /\ e.m = r.m /\ e.id = r.id
  BY <1>2, <1>3, <1>4 DEF SignalInv, Goroutines, Shape
<1>6. r.m.box # Nil => r.m.box \in Box
  BY <1>5 DEF Message
<1>7. /\ page' = [u \in Person |-> page'[u]] /\ cut \subseteq cut'
      /\ \A u \in Person : page[u] \subseteq page'[u] /\ page'[u] \subseteq page[u] \cup {e}
      /\ r.cur # Nil /\ B!Reading(r.cur) => r.m \in cut'
      /\ r.cur # Nil /\ r.cur \in loaded => \E f \in page'[r.cur] : f.id = e.id
  <2>1. CASE r.cur = Nil
    BY <1>4, <2>1 DEF SignalInv, Typed
  <2>2. CASE r.cur # Nil
    <3>1. B!Merge({r.cur}, e) /\ r.cur \in Person
      BY <1>4, <1>5, <2>2
    <3> QED BY <1>5, <3>1, Merged
  <2> QED BY <2>1, <2>2
<1>8. \A u \in Person : page[u] \subseteq page'[u] /\ page'[u] \subseteq All
  BY <1>5, <1>7 DEF SignalInv, Entries
<1>9. \A m \in accepted' : m \in Message /\ InBox(m)
  BY <1>4, <1>5 DEF SignalInv, Entries
<1>10. /\ Typed' /\ Goroutines' /\ bProc'[p] = B!Off /\ \A q \in Agent \ {p} : bProc'[q] = bProc[q]
       /\ Entries' /\ OneSeat' /\ ToldInv' /\ Numbers' /\ OneReader' /\ StopInv'
       /\ \A m : \A u \in Person :
            (m.box # Nil => m.box \in Box) /\ Hears(m, u) => Hears(m, u)'
  <2>1. bProc[p].pc \in {"fanout", "occupant"} /\ B!Off.pc \in {"off", "occupant"}
    BY <1>2, <1>4, OffFields
  <2> QED BY <1>1, <1>4, <1>7, <1>8, <1>9, <2>1, ShapeOff, FanStep
<1>11. ASSUME NEW u \in Person PROVE Hears(r.m, u)'
  <2>1. CASE u # r.cur
    <3>1. Hears(r.m, u)
      BY <1>2, <1>4, <2>1 DEF SignalInv, HeardInv
    <3> QED BY <1>6, <1>10, <3>1
  <2>2. CASE u = r.cur
    <3> SUFFICES ASSUME r.m.box # Nil /\ B!Staffs(u, r.m.box)' /\ ~Excused(r.m)'
                 PROVE  /\ u \in loaded' => \E f \in page'[u] : f.m = r.m
                        /\ \A q \in Agent : ~(bProc'[q].pc = "replay" /\ bProc'[q].cur = seat'[r.m.box])
      BY DEF Hears
    <3>1. u # Nil
      BY DEF B!SignalboxAssumption
    <3>2. ~B!Reading(u)
      BY <1>7, <2>2, <3>1 DEF Excused
    <3>3. ASSUME NEW q \in Agent, bProc'[q].pc = "replay", bProc'[q].cur = seat'[r.m.box] PROVE FALSE
      <4>1. bProc'[q] = bProc[q] /\ bProc[q].pc = "replay"
        BY <1>10, <3>3, OffFields
      <4>2. bProc[q].cur.u = bProc[q].u
        BY <4>1 DEF SignalInv, Goroutines, Shape
      <4>3. bProc[q].u = u
        BY <3>3, <4>1, <4>2 DEF B!Staffs
      <4> QED BY <3>2, <4>1, <4>3 DEF B!Reading
    <3>4. ASSUME u \in loaded' PROVE \E f \in page'[u] : f.m = r.m
      <4>1. PICK f \in page'[u] : f.id = e.id
        BY <1>4, <1>7, <2>2, <3>1, <3>4
      <4>2. f \in All' /\ e \in All'
        BY <1>4, <1>5, <1>8, <4>1 DEF All, B!History
      <4>3. ~B!Clashes(r.m)'
        BY DEF Excused
      <4>4. B!Clashes(r.m)' <=> \E x, y \in All' : x.m # r.m /\ y.m = r.m /\ x.id = y.id
        <5>1. PICK m : m = r.m
          OBVIOUS
        <5>2. B!Clashes(m)' <=> \E x, y \in All' : x.m # m /\ y.m = m /\ x.id = y.id
          BY ClashesLater
        <5> QED BY <5>1, <5>2
      <4> QED BY <1>5, <4>1, <4>2, <4>3, <4>4
    <3> QED BY <3>3, <3>4
  <2> QED BY <2>1, <2>2
<1>12. HeardInv'
  <2>1. ASSUME NEW m \in accepted', NEW u \in Person PROVE Hears(m, u)'
    <3>1. CASE m = r.m
      BY <1>11, <3>1
    <3>2. CASE m # r.m
      <4>1. m \in accepted
        BY <1>4, <3>2
      <4>2. m.box # Nil => m.box \in Box
        BY <4>1 DEF SignalInv, Entries, Message
      <4>3. Hears(m, u)
        BY <4>1 DEF SignalInv, HeardInv
      <4> QED BY <1>10, <4>2, <4>3
    <3> QED BY <3>1, <3>2
  <2>2. ASSUME NEW q \in Agent, bProc'[q].pc = "occupant", NEW u \in Person \ {bProc'[q].cur}
        PROVE  Hears(bProc[q].m, u)'
    <3>1. bProc'[q] = bProc[q]
      BY <1>10, <2>2, OffFields
    <3>2. PICK m : m = bProc[q].m
      OBVIOUS
    <3>3. (m.box # Nil => m.box \in Box) /\ Hears(m, u)
      BY <2>2, <3>1, <3>2 DEF SignalInv, Goroutines, Shape, Message, HeardInv
    <3>4. Hears(m, u)'
      BY <1>10, <3>3
    <3> QED BY <3>1, <3>2, <3>4
  <2> QED BY <2>1, <2>2 DEF HeardInv
<1> QED BY <1>10, <1>12 DEF SignalInv

LEMMA ReplayInterlockingStep ==
  ASSUME B!SignalboxAssumption, SignalInv, NEW p \in Agent, NEW u \in Person, B!ReplayInterlocking(p, u)
  PROVE  SignalInv'
<1> USE DEF B!boxes, B!seats, B!radio, B!pages, B!stops
<1>1. Bounded
  BY Counts DEF SignalInv, B!ReplayInterlocking
<1>2. /\ UNCHANGED <<B!boxes, B!seats, B!radio, B!pages, B!stops, B!bounds>> /\ bProc[p] = B!Off
      /\ u \notin loaded /\ ~B!Reading(u) /\ B!BoxOf(u) # Nil
  BY DEF B!ReplayInterlocking, B!CanReplayInterlocking
<1>3. PICK b \in Box : b = B!BoxOf(u)
  BY <1>2, SomeBox
<1>4. B!Staffs(u, b) /\ seat[b] \in Session /\ seat[b].u = u /\ seat[b] # Nil /\ seat[b].n <= bCalls
  BY <1>2, <1>3, SomeBox DEF B!Staffs, SignalInv, Typed
<1>5. PICK rows \in B!Replay(B!interlockingStreamKeys) :
        bProc' = [bProc EXCEPT ![p] = [B!Off EXCEPT !.pc = "replay", !.u = u, !.rows = rows,
                                                !.cur = seat[b]]]
  BY <1>3 DEF B!ReplayInterlocking, B!Goto
<1>6. PICK n : n = Record("replay", u, Nil, seat[b], Nil, <<>>, Nil, rows, {})
  OBVIOUS
<1>7. bProc' = [bProc EXCEPT ![p] = n]
  <2>1. [B!Off EXCEPT !.pc = "replay", !.u = u, !.rows = rows, !.cur = seat[b]] = n
    BY <1>6, ReadRecord, Zenon
  <2> QED BY <1>5, <2>1, Zenon
<1>8. Fields(n) /\ n.pc = "replay" /\ n.u = u /\ n.cur = seat[b] /\ n.rows = rows
  BY <1>6, RecordFields
<1>9. PICK all : all = UNION {B!History(k) : k \in B!interlockingStreamKeys}
  OBVIOUS
<1>10. rows \subseteq all /\ {e.id : e \in rows} = {e.id : e \in all}
  BY <1>9, Zenon DEF B!Replay
<1>11. all \subseteq All
  <2>1. B!interlockingStreamKeys \subseteq B!Key
    BY KeysOf DEF B!interlockingStreamKeys, SignalInv, Typed
  <2> QED BY <1>9, <2>1 DEF All
<1>12. All' = All
  BY <1>2 DEF All, B!History
<1>13. Shape(n)'
  BY <1>2, <1>4, <1>8, <1>10, <1>11, <1>12 DEF Shape, Points, B!bounds
<1>14. Grows
  BY <1>2, SameStream
<1>15. Goroutines' /\ bProc'[p] = n /\ \A q \in Agent \ {p} : bProc'[q] = bProc[q]
  <2>1. \A q \in Agent \ {p} : bProc[q].pc = "replay" => bProc[q].u \notin loaded'
    BY <1>2 DEF SignalInv, Goroutines, Shape
  <2> QED BY <1>1, <1>7, <1>13, <1>14, <2>1, Update DEF SignalInv, Bounded
<1>16. Typed'
  BY <1>1, <1>2, TypesFrame DEF SignalInv
<1>17. Entries'
  BY <1>2, EntriesFrame DEF SignalInv
<1>18. \A c \in Box : seat'[c] \in {Nil, seat[c]}
  BY <1>2
<1>19. bProc[p].pc = "off"
  BY <1>2, OffFields
<1>20. /\ \A q \in Agent : bProc[q].pc \in {"joined", "left"} => bProc'[q] = bProc[q]
       /\ \A q \in Agent : bProc'[q].pc \in {"join", "occupant"} => bProc'[q] = bProc[q]
       /\ \A q \in Agent : bProc[q].pc = "publish" => bProc'[q].pc = "publish"
  BY <1>8, <1>15, <1>19
<1>21. OneSeat' /\ ToldInv' /\ StopInv'
  BY <1>2, <1>18, <1>20, SeatFrame, ToldFrame, StopFrame DEF SignalInv
<1>22. OneReader'
  <2>1. \A q \in Agent : bProc[q].pc = "replay" => bProc[q].u # u
    BY <1>2 DEF B!Reading
  <2> QED BY <1>8, <1>15, <2>1 DEF SignalInv, OneReader
<1>23. Numbers'
  <2>1. ASSUME NEW q \in Agent, bProc'[q].pc = "join"
        PROVE  /\ \A x \in Agent \ {q} : bProc'[x].pc = "join" => bProc'[x].id # bProc'[q].id
               /\ \A c \in Box : seat'[c] # Nil => seat'[c].n # bProc'[q].id
               /\ \A x \in Agent : bProc'[x].pc = "replay" => bProc'[x].cur.n # bProc'[q].id
    <3>1. bProc'[q] = bProc[q] /\ bProc[q].pc = "join"
      BY <1>20, <2>1
    <3>2. /\ \A x \in Agent \ {q} : bProc[x].pc = "join" => bProc[x].id # bProc[q].id
          /\ \A c \in Box : seat[c] # Nil => seat[c].n # bProc[q].id
          /\ \A x \in Agent : bProc[x].pc = "replay" => bProc[x].cur.n # bProc[q].id
      BY <3>1 DEF SignalInv, Numbers
    <3>3. n.cur.n # bProc[q].id
      BY <1>4, <1>8, <3>2
    <3> QED BY <1>2, <1>8, <1>15, <1>20, <3>1, <3>2, <3>3
  <2> QED BY <2>1 DEF Numbers
<1>24. ASSUME NEW m \in Message, InBox(m), NEW v \in Person, Hears(m, v) PROVE Hears(m, v)'
  <2>1. Excused(m) => Excused(m)'
    BY <1>2, <1>14, GrowsClashes DEF Excused
  <2> SUFFICES ASSUME m.box # Nil /\ B!Staffs(v, m.box)' /\ ~Excused(m)'
               PROVE  /\ v \in loaded' => \E e \in page'[v] : e.m = m
                      /\ \A q \in Agent : bProc'[q].pc = "replay" /\ bProc'[q].cur = seat'[m.box] =>
                           \E e \in bProc'[q].rows : e.m = m
    BY DEF Hears
  <2>2. /\ v \in loaded => \E e \in page[v] : e.m = m
        /\ \A q \in Agent : bProc[q].pc = "replay" /\ bProc[q].cur = seat[m.box] =>
             \E e \in bProc[q].rows : e.m = m
    <3>1. B!Staffs(v, m.box)
      BY <1>2 DEF B!Staffs
    <3> QED BY <1>24, <2>1, <3>1 DEF Hears
  <2>3. \E e \in rows : e.m = m
    <3>1. m.box \in Box /\ m.box \notin dropped
      BY <1>2 DEF Message, Excused
    <3>2. m.box \in listed
      BY <3>1 DEF SignalInv, Typed
    <3>3. PICK f \in B!History(B!BoxKey(m.box)) : f.m = m
      BY <1>24 DEF InBox
    <3>4. f \in all
      BY <1>9, <3>2, <3>3 DEF B!interlockingStreamKeys
    <3>5. PICK e \in rows : e.id = f.id
      BY <1>10, <3>4
    <3>6. e \in All /\ f \in All
      BY <1>10, <1>11, <3>4, <3>5
    <3>7. ~B!Clashes(m)
      BY <2>1 DEF Excused
    <3> QED BY <3>3, <3>5, <3>6, <3>7, ClashesIs
  <2> QED BY <1>2, <1>8, <1>15, <2>2, <2>3
<1>25. HeardInv'
  <2>1. ASSUME NEW m \in accepted', NEW v \in Person PROVE Hears(m, v)'
    <3>1. m \in accepted
      BY <1>2
    <3>2. m \in Message /\ InBox(m) /\ Hears(m, v)
      BY <3>1 DEF SignalInv, Entries, HeardInv
    <3> QED BY <1>24, <3>2
  <2>2. ASSUME NEW q \in Agent, bProc'[q].pc = "occupant", NEW v \in Person \ {bProc'[q].cur}
        PROVE  Hears(bProc[q].m, v)'
    <3>1. bProc'[q] = bProc[q]
      BY <1>20, <2>2
    <3>2. PICK m : m = bProc[q].m
      OBVIOUS
    <3>3. m \in Message /\ InBox(m) /\ Hears(m, v)
      BY <2>2, <3>1, <3>2 DEF SignalInv, Goroutines, Shape, HeardInv
    <3>4. Hears(m, v)'
      BY <1>24, <3>3
    <3> QED BY <3>1, <3>2, <3>4
  <2> QED BY <2>1, <2>2 DEF HeardInv
<1> QED BY <1>15, <1>16, <1>17, <1>21, <1>22, <1>23, <1>25 DEF SignalInv

LEMMA ReplayAnswerStep ==
  ASSUME B!SignalboxAssumption, SignalInv, NEW p \in Agent, B!ReplayAnswer(p)
  PROVE  SignalInv'
<1> USE DEF B!boxes, B!seats, B!radio, B!stops
<1>1. Bounded
  BY Counts DEF SignalInv, B!ReplayAnswer
<1>2. PICK r : r = bProc[p]
  OBVIOUS
<1>3. /\ r.pc = "replay" /\ bProc' = [bProc EXCEPT ![p] = B!Off] /\ page' = [page EXCEPT ![r.u] = r.rows]
      /\ loaded' = IF \E b \in Box : seat[b] = r.cur THEN loaded \cup {r.u} ELSE loaded
      /\ UNCHANGED <<B!boxes, B!seats, B!radio, cut, B!stops, B!bounds>>
  BY <1>2 DEF B!ReplayAnswer, B!Done, B!Goto
<1>4. /\ r.u \in Person \ loaded /\ r.rows \subseteq All /\ r.cur \in Session /\ r.cur.u = r.u
  BY <1>2, <1>3 DEF SignalInv, Goroutines, Shape
<1>5. /\ page' = [u \in Person |-> page'[u]] /\ page'[r.u] = r.rows
      /\ \A v \in Person \ {r.u} : page'[v] = page[v]
  BY <1>3, <1>4 DEF SignalInv, Typed
<1>6. loaded' \subseteq Person /\ \A v \in Person \ {r.u} : v \in loaded' => v \in loaded
  BY <1>3, <1>4 DEF SignalInv, Typed
<1>7. Typed'
  <2>1. /\ signalman \subseteq Person /\ listed \subseteq Box /\ Box \ listed \subseteq dropped
        /\ dropped \subseteq Box /\ blurred \subseteq Box
        /\ seat \in [Box -> Session \cup {Nil}] /\ told \in [Box -> Person \cup {Nil}]
        /\ bNow \in 0 .. MaxMs /\ chat \in BOOLEAN /\ window \in BOOLEAN
        /\ stop \in [published : BOOLEAN, failed : BOOLEAN, confirmed : BOOLEAN]
    BY DEF SignalInv, Typed
  <2>2. \A b \in Box : seat[b] # Nil => seat[b].n <= bCalls'
    BY <1>3 DEF SignalInv, Typed, B!bounds
  <2>3. stream' = [k \in B!Key |-> stream'[k]] /\ \A k \in B!Key : stream'[k] \in Seq(B!History(k)')
    BY <1>3 DEF SignalInv, Typed, B!History
  <2> QED BY <1>1, <1>3, <1>5, <1>6, <2>1, <2>2, <2>3 DEF Typed, Bounded
<1>8. Grows
  BY <1>3, SameStream
<1>9. Goroutines' /\ bProc'[p] = B!Off /\ \A q \in Agent \ {p} : bProc'[q] = bProc[q]
  <2>1. \A q \in Agent \ {p} : bProc[q].pc = "replay" => bProc[q].u \in Person \ loaded /\ bProc[q].u # r.u
    BY <1>2, <1>3 DEF SignalInv, Goroutines, Shape, OneReader
  <2>2. \A q \in Agent \ {p} : bProc[q].pc = "replay" => bProc[q].u \notin loaded'
    BY <1>6, <2>1
  <2> QED BY <1>1, <1>3, <1>8, <2>2, ShapeOff, Update DEF SignalInv, Bounded
<1>10. Entries'
  <2>1. All' = All /\ \A k \in B!Key : B!History(k)' = B!History(k)
    BY <1>3 DEF All, B!History
  <2>2. \A u \in Person : page'[u] \subseteq All
    BY <1>4, <1>5 DEF SignalInv, Entries
  <2>3. \A m \in Message : (Kept(m) => Kept(m)') /\ (InBox(m) => InBox(m)')
    BY <1>8, GrowsKept, GrowsInBox
  <2> QED BY <1>3, <2>1, <2>2, <2>3 DEF SignalInv, Entries
<1>11. \A b \in Box : seat'[b] \in {Nil, seat[b]}
  BY <1>3
<1>12. /\ \A q \in Agent : bProc[q].pc \in {"joined", "left"} => bProc'[q] = bProc[q]
       /\ \A q \in Agent : bProc'[q].pc \in {"join", "replay"} => bProc'[q] = bProc[q]
       /\ \A q \in Agent : bProc'[q].pc \in {"replay", "occupant"} => bProc'[q] = bProc[q]
       /\ \A q \in Agent : bProc'[q].pc = "replay" => bProc'[q] = bProc[q]
       /\ \A q \in Agent : bProc[q].pc = "publish" => bProc'[q].pc = "publish"
  BY <1>2, <1>3, <1>9, OffFields
<1>13. OneSeat' /\ ToldInv' /\ Numbers' /\ OneReader' /\ StopInv'
  BY <1>3, <1>11, <1>12, SeatFrame, ToldFrame, NumbersFrame, ReaderFrame, StopFrame DEF SignalInv
<1>14. ASSUME NEW m, m.box # Nil => m.box \in Box, NEW v \in Person, Hears(m, v) PROVE Hears(m, v)'
  <2>1. Excused(m) => Excused(m)'
    BY <1>3, <1>8, GrowsClashes DEF Excused
  <2> SUFFICES ASSUME m.box # Nil /\ B!Staffs(v, m.box)' /\ ~Excused(m)'
               PROVE  /\ v \in loaded' => \E e \in page'[v] : e.m = m
                      /\ \A q \in Agent : bProc'[q].pc = "replay" /\ bProc'[q].cur = seat'[m.box] =>
                           \E e \in bProc'[q].rows : e.m = m
    BY DEF Hears
  <2>2. B!Staffs(v, m.box) /\ m.box \in Box
    BY <1>3, <1>14 DEF B!Staffs
  <2>3. /\ v \in loaded => \E e \in page[v] : e.m = m
        /\ \A q \in Agent : bProc[q].pc = "replay" /\ bProc[q].cur = seat[m.box] =>
             \E e \in bProc[q].rows : e.m = m
    BY <1>14, <2>1, <2>2 DEF Hears
  <2>4. ASSUME v \in loaded' PROVE \E e \in page'[v] : e.m = m
    <3>1. CASE v = r.u
      <4>1. PICK b \in Box : seat[b] = r.cur
        BY <1>3, <1>4, <2>4, <3>1
      <4>2. r.cur # Nil
        BY <1>4 DEF B!SignalboxAssumption, Session
      <4>3. B!Staffs(v, b)
        BY <1>4, <3>1, <4>1, <4>2 DEF B!Staffs
      <4>4. b = m.box
        BY <2>2, <4>3 DEF SignalInv, OneSeat
      <4>5. \E e \in r.rows : e.m = m
        BY <1>2, <1>3, <2>3, <4>1, <4>4
      <4> QED BY <1>5, <3>1, <4>5
    <3>2. CASE v # r.u
      BY <1>5, <1>6, <2>3, <2>4, <3>2
    <3> QED BY <3>1, <3>2
  <2> QED BY <1>3, <1>12, <2>3, <2>4
<1>15. HeardInv'
  <2>1. ASSUME NEW m \in accepted', NEW v \in Person PROVE Hears(m, v)'
    <3>1. m \in accepted
      BY <1>3
    <3>2. (m.box # Nil => m.box \in Box) /\ Hears(m, v)
      BY <3>1 DEF SignalInv, Entries, HeardInv, Message
    <3> QED BY <1>14, <3>2
  <2>2. ASSUME NEW q \in Agent, bProc'[q].pc = "occupant", NEW v \in Person \ {bProc'[q].cur}
        PROVE  Hears(bProc[q].m, v)'
    <3>1. bProc'[q] = bProc[q]
      BY <1>12, <2>2
    <3>2. PICK m : m = bProc[q].m
      OBVIOUS
    <3>3. (m.box # Nil => m.box \in Box) /\ Hears(m, v)
      BY <2>2, <3>1, <3>2 DEF SignalInv, Goroutines, Shape, HeardInv, Message
    <3>4. Hears(m, v)'
      BY <1>14, <3>3
    <3> QED BY <3>1, <3>2, <3>4
  <2> QED BY <2>1, <2>2 DEF HeardInv
<1> QED BY <1>7, <1>9, <1>10, <1>13, <1>15 DEF SignalInv

(***************************************************************************)
(* The theorem.                                                            *)
(***************************************************************************)
LEMMA BoxInit ==
  ASSUME B!SignalboxAssumption, B!Init
  PROVE  SignalInv
<1>1. PICK b \in Box, u \in Person :
        /\ seat = [c \in Box |-> IF c = b THEN [u |-> u, n |-> 0] ELSE Nil]
        /\ told = [c \in Box |-> IF c = b THEN u ELSE Nil]
        /\ loaded = {u}
  BY DEF B!Init
<1>2. /\ \A c \in Box : seat[c] = IF c = b THEN [u |-> u, n |-> 0] ELSE Nil
      /\ \A c \in Box : told[c] = IF c = b THEN u ELSE Nil
  BY <1>1
<1>3. [u |-> u, n |-> 0] \in Session /\ [u |-> u, n |-> 0] # Nil
  BY DEF Session, B!SignalboxAssumption
<1>4. \A k \in B!Key : stream[k] = <<>> /\ B!History(k) = {}
  BY DEF B!Init, B!History
<1>5. \A p \in Agent : bProc[p] = B!Off /\ bProc[p].pc = "off"
  BY OffFields DEF B!Init
<1>6. Typed
  <2>1. seat \in [Box -> Session \cup {Nil}] /\ told \in [Box -> Person \cup {Nil}]
    BY <1>1, <1>3
  <2>2. \A c \in Box : seat[c] # Nil => seat[c].n <= bCalls
    BY <1>2 DEF B!Init
  <2>3. stream = [k \in B!Key |-> stream[k]] /\ \A k \in B!Key : stream[k] \in Seq(B!History(k))
    BY <1>4 DEF B!Init
  <2>4. page = [v \in Person |-> page[v]]
    BY DEF B!Init
  <2>5. /\ signalman \subseteq Person /\ listed \subseteq Box /\ Box \ listed \subseteq dropped
        /\ dropped \subseteq Box /\ blurred \subseteq Box /\ loaded \subseteq Person
    BY <1>1 DEF B!Init
  <2>6. bNow \in 0 .. MaxMs /\ bCalls \in 0 .. MaxTalks /\ faults \in 0 .. MaxFaults
    BY DEF B!Init, B!SignalboxAssumption
  <2>7. /\ chat \in BOOLEAN /\ window \in BOOLEAN
        /\ stop \in [published : BOOLEAN, failed : BOOLEAN, confirmed : BOOLEAN]
    BY QuietStops DEF B!Init
  <2> QED BY <2>1, <2>2, <2>3, <2>4, <2>5, <2>6, <2>7 DEF Typed
<1>7. Goroutines
  <2>1. Shape(B!Off)
    BY OffFields DEF Shape, Points
  <2> QED BY <1>5, <2>1 DEF B!Init, Goroutines
<1>8. Entries
  BY <1>4 DEF B!Init, Entries
<1>9. OneSeat
  BY <1>2 DEF OneSeat, B!Staffs
<1>10. ToldInv
  BY <1>2, <1>3 DEF ToldInv, Occupant
<1>11. Numbers /\ OneReader
  BY <1>5 DEF Numbers, OneReader
<1>12. HeardInv
  BY <1>5 DEF HeardInv, B!Init
<1>13. StopInv
  BY QuietStops DEF StopInv, B!Init
<1> QED BY <1>6, <1>7, <1>8, <1>9, <1>10, <1>11, <1>12, <1>13 DEF SignalInv

LEMMA BoxNext ==
  ASSUME B!SignalboxAssumption, SignalInv, [B!Next]_(B!vars)
  PROVE  SignalInv'
<1>1. CASE UNCHANGED B!vars
  <2>1. UNCHANGED <<B!boxes, B!seats, B!radio, B!pages, B!stops, B!bounds>> /\ UNCHANGED bProc
    BY <1>1 DEF B!vars
  <2>2. Bounded
    BY <2>1, Counts DEF SignalInv
  <2>3. window' \in BOOLEAN
        /\ stop' \in [published : BOOLEAN, failed : BOOLEAN, confirmed : BOOLEAN]
    BY <2>1 DEF SignalInv, Typed, B!stops
  <2>4. StopInv'
    BY <2>1 DEF SignalInv, StopInv, B!stops
  <2> QED BY <2>1, <2>2, <2>3, <2>4, StopStep
<1>2. CASE B!Administration \/ B!Restart \/ B!DebounceEnds
  BY <1>2, AdministrationStep, RestartStep, DebounceStep
<1>3. ASSUME NEW p \in Agent, B!Occupancy(p) PROVE SignalInv'
  BY <1>3, LeaveStep, JoinStep, JoinCommitStep, JoinTellStep, LeaveEndStep, LeaveTellStep
     DEF B!Occupancy
<1>4. ASSUME NEW p \in Agent, B!Calling(p) PROVE SignalInv'
  BY <1>4, SendStep DEF B!Calling
<1>5. ASSUME NEW p \in Agent, B!Delivering(p) PROVE SignalInv'
  BY <1>5, ReplayInterlockingStep, Append1Step, PublishCommandStep, FanOutStep,
     FanOutOccupantStep, ReplayAnswerStep DEF B!Delivering
<1>6. ASSUME NEW p \in Agent, B!Stopping(p) PROVE SignalInv'
  BY <1>6, TriggerStep, EStopTargetStep, PublishStep, PublishCommandStep DEF B!Stopping
<1> QED BY <1>1, <1>2, <1>3, <1>4, <1>5, <1>6 DEF B!Next

LEMMA BoxesAreSound ==
  ASSUME B!SignalboxAssumption, SignalInv
  PROVE  B!SignalboxSound
<1>1. B!TypeOK
  <2>1. ASSUME NEW b \in Box, seat[b] # Nil PROVE seat[b].u \in Person /\ seat[b].n \in 0 .. MaxTalks
    <3>1. seat[b] \in Session /\ seat[b].n <= bCalls /\ bCalls \in 0 .. MaxTalks
      BY <2>1 DEF SignalInv, Typed
    <3> QED BY <3>1 DEF Session, B!SignalboxAssumption
  <2> QED BY <2>1 DEF SignalInv, Typed, B!TypeOK
<1>2. B!OneBox
  <2>1. ASSUME NEW u \in Person PROVE B!Cardinality({b \in Box : B!Staffs(u, b)}) <= 1
    <3>1. PICK S : S = {b \in Box : B!Staffs(u, b)}
      OBVIOUS
    <3>2. \A b, c \in S : b = c
      BY <3>1 DEF SignalInv, OneSeat
    <3>3. B!Cardinality(S) <= 1
      <4>0. B!Cardinality(S) = Cardinality(S)
        BY DEF B!Cardinality, Cardinality
      <4>1. CASE S = {}
        BY <4>0, <4>1, FS_EmptySet
      <4>2. CASE S # {}
        <5>1. PICK b : S = {b}
          BY <3>2, <4>2
        <5>2. B!Cardinality(S) = 1
          BY <4>0, <5>1, FS_Singleton
        <5> QED BY <5>2
      <4> QED BY <4>1, <4>2
    <3> QED BY <3>1, <3>3
  <2> QED BY <2>1 DEF B!OneBox
<1>3. B!ToldFollows
  <2>1. ASSUME NEW b \in Box, B!AtBox(b) = {}, b \notin blurred PROVE told[b] = Occupant(b)
    <3>1. ~Telling(b)
      BY <2>1 DEF Telling, B!AtBox
    <3> QED BY <2>1, <3>1 DEF SignalInv, ToldInv
  <2> QED BY <2>1 DEF B!ToldFollows, Occupant
<1>4. B!SenderKeeps
  BY DEF SignalInv, Entries, Kept, B!SenderKeeps
<1>5. B!HeardAtBox
  <2>1. ASSUME NEW m \in accepted, NEW u \in loaded, m.box # Nil, B!Staffs(u, m.box),
               m.box \notin dropped, m \notin cut, ~B!Clashes(m)
        PROVE  \E e \in page[u] : e.m = m
    <3>1. u \in Person
      BY DEF SignalInv, Typed
    <3>2. Hears(m, u)
      BY <3>1 DEF SignalInv, HeardInv
    <3> QED BY <2>1, <3>2 DEF Hears, Excused
  <2> QED BY <2>1 DEF B!HeardAtBox
<1>6. B!StopsSent
  BY DEF SignalInv, StopInv, B!StopsSent
<1> QED BY <1>1, <1>2, <1>3, <1>4, <1>5, <1>6 DEF B!SignalboxSound, B!BoxesSound, B!RadioSound

\* Whatever the users, the boxes and the goroutines: a box is staffed by one
\* user and a user staffs one box, the clients know who unless requests
\* overlapped, the sender's stream has whatever another stream has of his
\* messages, a message to a staffed box is on the page of who staffs it, and
\* nobody is told of a radio stop that was not sent (interlocking_occupancy.go
\* Join, Leave; radio.go Send; radio_stop.go Trigger).
THEOREM BoxesStaySound == ServicesSpec => []SignalboxSound
<1> DEFINE I == part = "signalbox" => SignalInv
<1>1. ServicesInit => I
  BY BoxInit, ServicesAssumption DEF ServicesInit
<1>2. I /\ [ServicesNext]_<<part, accounts, boxes>> => I'
  <2> SUFFICES ASSUME I, [ServicesNext]_<<part, accounts, boxes>>, part' = "signalbox"
               PROVE  SignalInv'
    OBVIOUS
  <2>1. CASE Signalling /\ B!Next
    BY <2>1, BoxNext, ServicesAssumption DEF Signalling
  <2>2. CASE UNCHANGED <<part, accounts, boxes>>
    <3>1. UNCHANGED B!vars
      BY <2>2 DEF boxes, B!vars, B!boxes, B!seats, B!radio, B!pages, B!stops, B!bounds
    <3> QED BY <2>2, <3>1, BoxNext, ServicesAssumption
  <2> QED BY <2>1, <2>2 DEF ServicesNext, Accounting
<1>3. I => SignalboxSound
  BY BoxesAreSound, ServicesAssumption DEF SignalboxSound
<1> QED BY <1>1, <1>2, <1>3, PTL DEF ServicesSpec
=============================================================================
