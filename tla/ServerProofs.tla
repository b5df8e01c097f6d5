----------------------------- MODULE ServerProofs -----------------------------
(***************************************************************************)
(* Proofs about the modules of the server: Catalogue (RowsSound,           *)
(* FollowsTemplate, SnapshotFollows), Supervision (PortsSound,             *)
(* StandsAtExit) and Accounts (PoolsDisjoint, LoginsSound, FlagFollows,    *)
(* HubSound), for any number of rows, users, ports, connections and        *)
(* requests.  The three have no variable in common that a proof uses; each *)
(* part has its own inductive invariant.                                   *)
(*                                                                         *)
(* Catalogue.  RowInv: what a request found before its transaction still   *)
(* holds when it commits (AllChecked), or another request worked on the    *)
(* same entity and is on record (Crossing).  SnapInv: a snapshot differs   *)
(* from the tables only while some request still owes its layout a         *)
(* publication (Told); what a transaction is about to take away from a     *)
(* layout must be owed before it is gone (Owing), because afterwards the   *)
(* tables no longer say which layouts showed it.                           *)
(***************************************************************************)
EXTENDS Catalogue, Supervision, Services, FiniteSetTheorems, WellFoundedInduction, TLAPS

-----------------------------------------------------------------------------
(***************************************************************************)
(* Requests.                                                               *)
(***************************************************************************)

\* Requests about one vehicle, and those that load rows to write them back.
OfVehicle == {"createVehicle", "updateVehicle", "deleteVehicle", "attachTemplate",
              "copyFunctions"} \cup SlotOps
Loading == OfVehicle \cup {"clearDCC"}
Joining == {"addVehicle", "removeVehicle", "addTrain", "removeTrain"}

Fields(r) ==
  r = [pc |-> r.pc, op |-> r.op, on |-> r.on, row |-> r.row, x |-> r.x,
       todo |-> r.todo, view |-> r.view, at |-> r.at, solo |-> r.solo]

\* What a request works on and carries along, operation by operation.
Carries(r) ==
  /\ r.op \in OfVehicle => \E v \in Vehicle : r.on = {v}
  /\ r.op = "clearDCC" => r.on \subseteq Vehicle
  /\ r.op \in Loading => r.row \in [r.on -> Row]
  /\ r.op = "createVehicle" => r.x \in Addr \cup {None}
  /\ r.op = "updateVehicle" => r.x \in Addr \cup {None, Keep}
  /\ r.op \in SlotOps => r.x \in Num
  /\ r.op \in {"attachTemplate", "copyFunctions"} =>
       \E m \in Template \cup {None}, S \in SUBSET Num :
         r.x = <<m, S>> /\ (m # None => S = {})
  /\ r.op \in TemplateOps => r.on = {} /\ \E m \in Template, f \in Num : r.x = <<m, f>>
  /\ r.op \in {"createTrain", "updateTrain"} =>
       \E t \in Train, vs \in SUBSET Vehicle : r.x = <<t, vs>> /\ r.on = {t} \cup vs
  /\ r.op = "deleteTrain" => r.x \in Train /\ r.on = {r.x}
  /\ r.op \in {"addVehicle", "removeVehicle"} =>
       \E l \in Layout, v \in Vehicle : r.x = <<l, v>> /\ r.on = {l, v}
  /\ r.op \in {"addTrain", "removeTrain"} =>
       \E l \in Layout, t \in Train : r.x = <<l, t>> /\ r.on = {l, t}
  /\ r.op \in {"createLayout", "setStations"} =>
       \E l \in Layout, S \in SUBSET Station : r.x = <<l, S>> /\ r.on = {l} \cup S
  /\ r.op = "deleteLayout" => r.x \in Layout /\ r.on = {r.x}
  /\ r.op = "deleteStation" => r.x \in Station /\ r.on = {r.x} \cup Layout

Shape(r) ==
  /\ Fields(r)
  /\ r.pc \in {"idle", "commit", "list", "sync", "publish"}
  /\ r.on \subseteq Entity /\ r.todo \subseteq Layout /\ r.solo \in BOOLEAN
  /\ r.pc = "idle" => r = Idle
  /\ r.pc # "idle" => Carries(r)
  /\ r.pc = "publish" => r.at \in r.todo
  /\ r.pc = "commit" /\ r.op \in Joining => r.todo = {r.x[1]}

Tables ==
  /\ life \in [Entity -> {"new", "live", "gone"}]
  /\ veh \in [Vehicle -> Row]
  /\ own \in [Vehicle -> SUBSET Num] /\ tfn \in [Template -> SUBSET Num]
  /\ mem \in [Train -> SUBSET Vehicle]
  /\ lv \in [Layout -> SUBSET Vehicle] /\ lt \in [Layout -> SUBSET Train]
  /\ att \in [Layout -> SUBSET Station]

Types ==
  /\ Tables /\ crossed \subseteq Entity /\ torn \subseteq Layout
  /\ req = [p \in Proc |-> req[p]] /\ \A p \in Proc : Shape(req[p])

\* What two requests work on at the same time has been recorded.
Crossing == \A p, q \in Proc : p # q => req[p].on \cap req[q].on \subseteq crossed

\* What a request found before its transaction still holds when it commits,
\* unless another request worked on the same entity.
Checked(r) ==
  r.pc = "commit" =>
    /\ r.op \in {"createTrain", "updateTrain"} => \A v \in r.x[2] : Live(v) \/ v \in crossed
    /\ r.op \in {"addVehicle", "addTrain"} => Live(r.x[2]) \/ r.x[2] \in crossed
    /\ r.op = "deleteVehicle" => \A v \in r.on, t \in Train : v \in mem[t] => v \in crossed
    /\ r.op = "deleteStation" => \A l \in Layout : att[l] # {r.x} \/ l \in crossed
    /\ r.op \in Loading => \A v \in r.on : r.row[v] = veh[v] \/ v \in crossed

AllChecked == \A p \in Proc : Checked(req[p])

Consistent == AddressUnique /\ NoDangling /\ AttachedExist /\ KeepsStation /\ FollowsTemplate

RowInv == Types /\ Crossing /\ AllChecked /\ Consistent

-----------------------------------------------------------------------------
(***************************************************************************)
(* How the requests change.                                                *)
(***************************************************************************)
OthersSame(p) == \A q \in Proc \ {p} : req'[q] = req[q]

SameRest(p) ==
  /\ req'[p].op = req[p].op /\ req'[p].on = req[p].on /\ req'[p].row = req[p].row
  /\ req'[p].x = req[p].x /\ req'[p].todo = req[p].todo /\ req'[p].view = req[p].view
  /\ req'[p].at = req[p].at /\ req'[p].solo = req[p].solo

LEMMA ReqUpdate ==
  ASSUME Types, NEW p \in Proc, NEW r, Shape(r), req' = [req EXCEPT ![p] = r]
  PROVE  /\ OthersSame(p) /\ req'[p] = r
         /\ req' = [q \in Proc |-> req'[q]] /\ \A q \in Proc : Shape(req'[q])
<1>1. DOMAIN req = Proc
  BY DEF Types
<1>2. req'[p] = r /\ OthersSame(p) /\ req' = [q \in Proc |-> req'[q]]
  BY <1>1 DEF OthersSame, Types
<1> QED BY <1>2 DEF OthersSame, Types

LEMMA IdleShape == Shape(Idle) /\ Idle.pc = "idle" /\ Idle.on = {} /\ Idle.todo = {}
  BY DEF Shape, Fields, Idle, Empty

LEMMA EndFacts ==
  ASSUME Types, NEW p \in Proc, End(p)
  PROVE  /\ OthersSame(p) /\ req'[p] = Idle
         /\ req' = [q \in Proc |-> req'[q]] /\ \A q \in Proc : Shape(req'[q])
  BY IdleShape, ReqUpdate DEF End

LEMMA ToFacts ==
  ASSUME Types, NEW p \in Proc, NEW pc \in {"list", "sync"}, To(p, pc), req[p].pc # "idle"
  PROVE  /\ OthersSame(p) /\ SameRest(p) /\ req'[p].pc = pc
         /\ req' = [q \in Proc |-> req'[q]] /\ \A q \in Proc : Shape(req'[q])
<1> DEFINE r == req[p]
           n == [r EXCEPT !.pc = pc]
<1>1. Shape(r) /\ Fields(r) /\ r.pc # "idle"
  BY DEF Types, Shape
<1>2. /\ n.pc = pc /\ n.op = r.op /\ n.on = r.on /\ n.row = r.row /\ n.x = r.x
      /\ n.todo = r.todo /\ n.view = r.view /\ n.at = r.at /\ n.solo = r.solo
      /\ Fields(n)
  BY <1>1 DEF Fields
<1>3. req' = [req EXCEPT ![p] = n]
  BY DEF To
<1> HIDE DEF n
<1>4. Carries(n)
  BY <1>1, <1>2 DEF Shape, Carries
<1>5. Shape(n)
  BY <1>1, <1>2, <1>4 DEF Shape
<1>6. req'[p] = n
  BY <1>3, <1>5, ReqUpdate
<1> QED BY <1>2, <1>3, <1>5, <1>6, ReqUpdate DEF SameRest

\* Two records of one request: solo is the one field others may change.
Same(r, n) ==
  /\ n.pc = r.pc /\ n.op = r.op /\ n.on = r.on /\ n.row = r.row /\ n.x = r.x
  /\ n.todo = r.todo /\ n.view = r.view /\ n.at = r.at

\* What Begin does to the requests.
Begun(p, op, on, x, todo) ==
  /\ req[p] = Idle
  /\ req'[p].pc = "commit" /\ req'[p].op = op /\ req'[p].on = on /\ req'[p].x = x
  /\ req'[p].todo = todo /\ req'[p].view = Empty /\ req'[p].at = None
  /\ Fields(req'[p]) /\ req'[p].solo \in BOOLEAN /\ (req'[p].solo => Busy = {})
  /\ \A q \in Proc \ {p} :
       /\ Same(req[q], req'[q]) /\ Fields(req'[q]) /\ req'[q].solo \in BOOLEAN
       /\ req[q].pc = "idle" => req'[q] = req[q]
       /\ req[q].pc # "idle" => ~req'[q].solo

LEMMA BeginFacts ==
  ASSUME Types, NEW p \in Proc, NEW op, NEW on, NEW vs, NEW x, NEW todo,
         Begin(p, op, on, vs, x, todo)
  PROVE  /\ Begun(p, op, on, x, todo)
         /\ req'[p].row = [v \in vs |-> veh[v]] /\ req' = [q \in Proc |-> req'[q]]
         /\ crossed' = crossed \cup (on \cap UNION {req[q].on : q \in Busy})
         /\ UNCHANGED <<tables, snap, torn>>
<1> DEFINE b == Busy = {}
           f == [v \in vs |-> veh[v]]
           n == [pc |-> "commit", op |-> op, on |-> on, row |-> f, x |-> x, todo |-> todo,
                 view |-> Empty, at |-> None, solo |-> b]
<1>1. req' = [q \in Proc |-> IF q = p THEN n
                             ELSE [req[q] EXCEPT !.solo = @ /\ req[q].pc = "idle"]]
  BY DEF Begin
<1>b. b \in BOOLEAN /\ (b => Busy = {})
  BY Zenon
<1> HIDE DEF b, f
<1>2. /\ n.pc = "commit" /\ n.op = op /\ n.on = on /\ n.x = x /\ n.todo = todo
      /\ n.view = Empty /\ n.at = None /\ n.row = f
      /\ n.solo = b /\ Fields(n)
  BY DEF Fields
<1> HIDE DEF n
<1>3. req'[p] = n
  BY <1>1
<1>4. req[p] = Idle
  BY DEF Begin, Types, Shape
<1>5. ASSUME NEW q \in Proc \ {p}
      PROVE  /\ Same(req[q], req'[q]) /\ Fields(req'[q]) /\ req'[q].solo \in BOOLEAN
             /\ req[q].pc = "idle" => req'[q] = req[q]
             /\ req[q].pc # "idle" => ~req'[q].solo
  <2> DEFINE r == req[q]
             c == r.solo /\ r.pc = "idle"
             m == [r EXCEPT !.solo = c]
  <2>1. Fields(r) /\ r.solo \in BOOLEAN /\ (r.pc = "idle" => r = Idle)
    BY DEF Types, Shape
  <2>2. req'[q] = m
    BY <1>1
  <2>3. c \in BOOLEAN /\ (r.pc # "idle" => c = FALSE) /\ (r.pc = "idle" => c = r.solo)
    BY <2>1, Zenon
  <2> HIDE DEF c
  <2>4. Same(r, m) /\ Fields(m) /\ m.solo = c
    BY <2>1 DEF Same, Fields
  <2>5. r.pc = "idle" => m = r
    BY <2>1, <2>3 DEF Fields
  <2> QED BY <2>1, <2>2, <2>3, <2>4, <2>5
<1>6. req' = [q \in Proc |-> req'[q]]
  BY <1>1
<1>7. req'[p].solo \in BOOLEAN /\ (req'[p].solo => Busy = {})
  BY <1>2, <1>3, <1>b
<1>8. Begun(p, op, on, x, todo)
  BY <1>2, <1>3, <1>4, <1>5, <1>7 DEF Begun
<1>9. req'[p].row = [v \in vs |-> veh[v]]
  BY <1>2, <1>3 DEF f
<1> QED BY <1>6, <1>8, <1>9 DEF Begin

LEMMA SameShape ==
  ASSUME NEW r, NEW n, Shape(r), Same(r, n), Fields(n), n.solo \in BOOLEAN,
         r.pc = "idle" => n = r
  PROVE  Shape(n)
<1>1. Carries(r) <=> Carries(n)
  BY DEF Same, Carries
<1> QED BY <1>1 DEF Same, Shape

\* The tables stay and the record of overlaps only grows.
Still == UNCHANGED tables /\ crossed \subseteq crossed'

LEMMA BeginStill ==
  ASSUME Types, NEW p \in Proc, NEW op, NEW on, NEW vs, NEW x, NEW todo,
         Begin(p, op, on, vs, x, todo)
  PROVE  Begun(p, op, on, x, todo) /\ Still
  BY BeginFacts DEF Still

LEMMA StillConsistent == ASSUME Consistent, Still PROVE Consistent'
<1>1. AddressUnique'
  BY DEF Consistent, Still, tables, AddressUnique, Live
<1>2. NoDangling'
  BY DEF Consistent, Still, tables, NoDangling, Live
<1>3. AttachedExist'
  BY DEF Consistent, Still, tables, AttachedExist, Live
<1>4. KeepsStation'
  BY DEF Consistent, Still, tables, KeepsStation, Live
<1>5. FollowsTemplate'
  BY DEF Consistent, Still, tables, FollowsTemplate, Live
<1> QED BY <1>1, <1>2, <1>3, <1>4, <1>5 DEF Consistent

LEMMA StillChecked ==
  ASSUME Still, NEW q \in Proc, Checked(req[q]), Same(req[q], req'[q])
  PROVE  Checked(req[q])'
  BY DEF Still, tables, Same, Checked, Live

LEMMA BeginKeeps ==
  ASSUME RowInv, NEW p \in Proc, NEW op, NEW on, NEW vs, NEW x, NEW todo,
         Begin(p, op, on, vs, x, todo), on \subseteq Entity, todo \subseteq Layout,
         Carries(req'[p]), Checked(req[p])', op \in Joining => todo = {x[1]}
  PROVE  RowInv'
<1>1. Types
  BY DEF RowInv
<1>2. /\ Begun(p, op, on, x, todo) /\ req' = [q \in Proc |-> req'[q]]
      /\ crossed' = crossed \cup (on \cap UNION {req[q].on : q \in Busy})
      /\ UNCHANGED <<tables, snap, torn>>
  BY <1>1, BeginFacts
<1>3. Still
  BY <1>2 DEF Still
<1>4. \A q \in Proc : Shape(req'[q])
  <2>1. Shape(req'[p])
    BY <1>2 DEF Begun, Shape
  <2>2. ASSUME NEW q \in Proc \ {p} PROVE Shape(req'[q])
    BY <1>1, <1>2, SameShape DEF Begun, Types
  <2> QED BY <2>1, <2>2
<1>5. Types'
  <2>1. crossed' \subseteq Entity
    BY <1>1, <1>2 DEF Types
  <2>2. Tables' /\ torn' \subseteq Layout
    BY <1>1, <1>2 DEF Types, Tables, tables
  <2> QED BY <1>2, <1>4, <2>1, <2>2 DEF Types
<1>6. Crossing'
  <2>1. ASSUME NEW q \in Proc \ {p} PROVE on \cap req[q].on \subseteq crossed'
    <3>1. CASE q \in Busy
      BY <1>2, <3>1
    <3>2. CASE q \notin Busy
      BY <1>1, <3>2, IdleShape DEF Busy, Types, Shape
    <3> QED BY <3>1, <3>2
  <2>2. req'[p].on = on /\ \A q \in Proc \ {p} : req'[q].on = req[q].on
    BY <1>2 DEF Begun, Same
  <2>3. \A q, s \in Proc \ {p} : q # s => req[q].on \cap req[s].on \subseteq crossed'
    BY <1>3 DEF RowInv, Crossing, Still
  <2> QED BY <2>1, <2>2, <2>3 DEF Crossing
<1>7. AllChecked'
  <2>1. ASSUME NEW q \in Proc \ {p} PROVE Checked(req[q])'
    BY <1>2, <1>3, StillChecked DEF RowInv, AllChecked, Begun
  <2> QED BY <2>1 DEF AllChecked
<1>8. Consistent'
  BY <1>3, StillConsistent DEF RowInv
<1> QED BY <1>5, <1>6, <1>7, <1>8 DEF RowInv

-----------------------------------------------------------------------------
(***************************************************************************)
(* Every request starts with what it has checked.                          *)
(***************************************************************************)

LEMMA RowsCreateVehicle ==
  ASSUME RowInv, NEW p \in Proc, NEW v \in Vehicle, NEW a \in Addr \cup {None}, CreateVehicle(p, v, a)
  PROVE  RowInv'
<1>1. Types /\ Tables
  BY DEF RowInv, Types
<1>2. Begin(p, "createVehicle", {v}, {v}, a, {})
  BY DEF CreateVehicle
<1>3. /\ req'[p].pc = "commit" /\ req'[p].op = "createVehicle" /\ req'[p].on = {v}
      /\ req'[p].x = a /\ req'[p].row = [u \in {v} |-> veh[u]] /\ Still
  BY <1>1, <1>2, BeginFacts DEF Begun, Still
<1>5. Carries(req'[p])
  BY <1>1, <1>3 DEF Carries, OfVehicle, Loading, SlotOps, TemplateOps, Tables
<1>6. Checked(req[p])'
  BY <1>1, <1>3 DEF CreateVehicle, ValidMembers, Checked, Loading, OfVehicle, SlotOps, TemplateOps, Still, tables, Live
<1>7. {v} \subseteq Entity
  BY DEF Entity
<1> QED BY <1>2, <1>5, <1>6, <1>7, BeginKeeps DEF Joining, SlotOps, TemplateOps

LEMMA RowsUpdateVehicle ==
  ASSUME RowInv, NEW p \in Proc, NEW v \in Vehicle, NEW a \in Addr \cup {None, Keep}, UpdateVehicle(p, v, a)
  PROVE  RowInv'
<1>1. Types /\ Tables
  BY DEF RowInv, Types
<1>2. Begin(p, "updateVehicle", {v}, {v}, a, {})
  BY DEF UpdateVehicle
<1>3. /\ req'[p].pc = "commit" /\ req'[p].op = "updateVehicle" /\ req'[p].on = {v}
      /\ req'[p].x = a /\ req'[p].row = [u \in {v} |-> veh[u]] /\ Still
  BY <1>1, <1>2, BeginFacts DEF Begun, Still
<1>5. Carries(req'[p])
  BY <1>1, <1>3 DEF Carries, OfVehicle, Loading, SlotOps, TemplateOps, Tables
<1>6. Checked(req[p])'
  BY <1>1, <1>3 DEF UpdateVehicle, ValidMembers, Checked, Loading, OfVehicle, SlotOps, TemplateOps, Still, tables, Live
<1>7. {v} \subseteq Entity
  BY DEF Entity
<1> QED BY <1>2, <1>5, <1>6, <1>7, BeginKeeps DEF Joining, SlotOps, TemplateOps

LEMMA RowsClearDCCAddresses ==
  ASSUME RowInv, NEW p \in Proc, NEW vs \in SUBSET Vehicle, ClearDCCAddresses(p, vs)
  PROVE  RowInv'
<1>1. Types /\ Tables
  BY DEF RowInv, Types
<1>2. Begin(p, "clearDCC", vs, vs, None, {})
  BY DEF ClearDCCAddresses
<1>3. /\ req'[p].pc = "commit" /\ req'[p].op = "clearDCC" /\ req'[p].on = vs
      /\ req'[p].x = None /\ req'[p].row = [u \in vs |-> veh[u]] /\ Still
  BY <1>1, <1>2, BeginFacts DEF Begun, Still
<1>5. Carries(req'[p])
  BY <1>1, <1>3 DEF Carries, OfVehicle, Loading, SlotOps, TemplateOps, Tables
<1>6. Checked(req[p])'
  BY <1>1, <1>3 DEF ClearDCCAddresses, ValidMembers, Checked, Loading, OfVehicle, SlotOps, TemplateOps, Still, tables, Live
<1>7. vs \subseteq Entity
  BY DEF Entity
<1> QED BY <1>2, <1>5, <1>6, <1>7, BeginKeeps DEF Joining, SlotOps, TemplateOps

LEMMA RowsDeleteVehicle ==
  ASSUME RowInv, NEW p \in Proc, NEW v \in Vehicle, DeleteVehicle(p, v)
  PROVE  RowInv'
<1>1. Types /\ Tables
  BY DEF RowInv, Types
<1>2. Begin(p, "deleteVehicle", {v}, {v}, None, {l \in Layout : v \in lv[l]})
  BY DEF DeleteVehicle
<1>3. /\ req'[p].pc = "commit" /\ req'[p].op = "deleteVehicle" /\ req'[p].on = {v}
      /\ req'[p].x = None /\ req'[p].row = [u \in {v} |-> veh[u]] /\ Still
  BY <1>1, <1>2, BeginFacts DEF Begun, Still
<1>5. Carries(req'[p])
  BY <1>1, <1>3 DEF Carries, OfVehicle, Loading, SlotOps, TemplateOps, Tables
<1>6. Checked(req[p])'
  BY <1>1, <1>3 DEF DeleteVehicle, ValidMembers, Checked, Loading, OfVehicle, SlotOps, TemplateOps, Still, tables, Live
<1>7. {v} \subseteq Entity
  BY DEF Entity
<1> QED BY <1>2, <1>5, <1>6, <1>7, BeginKeeps DEF Joining, SlotOps, TemplateOps

LEMMA RowsCreateTrain ==
  ASSUME RowInv, NEW p \in Proc, NEW t \in Train, NEW vs \in SUBSET Vehicle, CreateTrain(p, t, vs)
  PROVE  RowInv'
<1>1. Types /\ Tables
  BY DEF RowInv, Types
<1>2. Begin(p, "createTrain", {t} \cup vs, {}, <<t, vs>>, {})
  BY DEF CreateTrain
<1>3. /\ req'[p].pc = "commit" /\ req'[p].op = "createTrain" /\ req'[p].on = {t} \cup vs
      /\ req'[p].x = <<t, vs>> /\ Still
  BY <1>1, <1>2, BeginStill DEF Begun
<1>5. Carries(req'[p])
  BY <1>1, <1>3 DEF Carries, OfVehicle, Loading, SlotOps, TemplateOps, Tables
<1>6. Checked(req[p])'
  BY <1>1, <1>3 DEF CreateTrain, ValidMembers, Checked, Loading, OfVehicle, SlotOps, TemplateOps, Still, tables, Live
<1>7. {t} \cup vs \subseteq Entity
  BY DEF Entity
<1> QED BY <1>2, <1>5, <1>6, <1>7, BeginKeeps DEF Joining, SlotOps, TemplateOps

LEMMA RowsUpdateTrain ==
  ASSUME RowInv, NEW p \in Proc, NEW t \in Train, NEW vs \in SUBSET Vehicle, UpdateTrain(p, t, vs)
  PROVE  RowInv'
<1>1. Types /\ Tables
  BY DEF RowInv, Types
<1>2. Begin(p, "updateTrain", {t} \cup vs, {}, <<t, vs>>, {})
  BY DEF UpdateTrain
<1>3. /\ req'[p].pc = "commit" /\ req'[p].op = "updateTrain" /\ req'[p].on = {t} \cup vs
      /\ req'[p].x = <<t, vs>> /\ Still
  BY <1>1, <1>2, BeginStill DEF Begun
<1>5. Carries(req'[p])
  BY <1>1, <1>3 DEF Carries, OfVehicle, Loading, SlotOps, TemplateOps, Tables
<1>6. Checked(req[p])'
  BY <1>1, <1>3 DEF UpdateTrain, ValidMembers, Checked, Loading, OfVehicle, SlotOps, TemplateOps, Still, tables, Live
<1>7. {t} \cup vs \subseteq Entity
  BY DEF Entity
<1> QED BY <1>2, <1>5, <1>6, <1>7, BeginKeeps DEF Joining, SlotOps, TemplateOps

LEMMA RowsDeleteTrain ==
  ASSUME RowInv, NEW p \in Proc, NEW t \in Train, DeleteTrain(p, t)
  PROVE  RowInv'
<1>1. Types /\ Tables
  BY DEF RowInv, Types
<1>2. Begin(p, "deleteTrain", {t}, {}, t, {l \in Layout : t \in lt[l]})
  BY DEF DeleteTrain
<1>3. /\ req'[p].pc = "commit" /\ req'[p].op = "deleteTrain" /\ req'[p].on = {t}
      /\ req'[p].x = t /\ Still
  BY <1>1, <1>2, BeginStill DEF Begun
<1>5. Carries(req'[p])
  BY <1>1, <1>3 DEF Carries, OfVehicle, Loading, SlotOps, TemplateOps, Tables
<1>6. Checked(req[p])'
  BY <1>1, <1>3 DEF DeleteTrain, ValidMembers, Checked, Loading, OfVehicle, SlotOps, TemplateOps, Still, tables, Live
<1>7. {t} \subseteq Entity
  BY DEF Entity
<1> QED BY <1>2, <1>5, <1>6, <1>7, BeginKeeps DEF Joining, SlotOps, TemplateOps

LEMMA RowsAddVehicle ==
  ASSUME RowInv, NEW p \in Proc, NEW l \in Layout, NEW v \in Vehicle, AddVehicle(p, l, v)
  PROVE  RowInv'
<1>1. Types /\ Tables
  BY DEF RowInv, Types
<1>2. Begin(p, "addVehicle", {l, v}, {}, <<l, v>>, {l})
  BY DEF AddVehicle
<1>3. /\ req'[p].pc = "commit" /\ req'[p].op = "addVehicle" /\ req'[p].on = {l, v}
      /\ req'[p].x = <<l, v>> /\ Still
  BY <1>1, <1>2, BeginStill DEF Begun
<1>5. Carries(req'[p])
  BY <1>1, <1>3 DEF Carries, OfVehicle, Loading, SlotOps, TemplateOps, Tables
<1>6. Checked(req[p])'
  BY <1>1, <1>3 DEF AddVehicle, ValidMembers, Checked, Loading, OfVehicle, SlotOps, TemplateOps, Still, tables, Live
<1>7. {l, v} \subseteq Entity
  BY DEF Entity
<1> QED BY <1>2, <1>5, <1>6, <1>7, BeginKeeps DEF Joining, SlotOps, TemplateOps

LEMMA RowsRemoveVehicle ==
  ASSUME RowInv, NEW p \in Proc, NEW l \in Layout, NEW v \in Vehicle, RemoveVehicle(p, l, v)
  PROVE  RowInv'
<1>1. Types /\ Tables
  BY DEF RowInv, Types
<1>2. Begin(p, "removeVehicle", {l, v}, {}, <<l, v>>, {l})
  BY DEF RemoveVehicle
<1>3. /\ req'[p].pc = "commit" /\ req'[p].op = "removeVehicle" /\ req'[p].on = {l, v}
      /\ req'[p].x = <<l, v>> /\ Still
  BY <1>1, <1>2, BeginStill DEF Begun
<1>5. Carries(req'[p])
  BY <1>1, <1>3 DEF Carries, OfVehicle, Loading, SlotOps, TemplateOps, Tables
<1>6. Checked(req[p])'
  BY <1>1, <1>3 DEF RemoveVehicle, ValidMembers, Checked, Loading, OfVehicle, SlotOps, TemplateOps, Still, tables, Live
<1>7. {l, v} \subseteq Entity
  BY DEF Entity
<1> QED BY <1>2, <1>5, <1>6, <1>7, BeginKeeps DEF Joining, SlotOps, TemplateOps

LEMMA RowsAddTrain ==
  ASSUME RowInv, NEW p \in Proc, NEW l \in Layout, NEW t \in Train, AddTrain(p, l, t)
  PROVE  RowInv'
<1>1. Types /\ Tables
  BY DEF RowInv, Types
<1>2. Begin(p, "addTrain", {l, t}, {}, <<l, t>>, {l})
  BY DEF AddTrain
<1>3. /\ req'[p].pc = "commit" /\ req'[p].op = "addTrain" /\ req'[p].on = {l, t}
      /\ req'[p].x = <<l, t>> /\ Still
  BY <1>1, <1>2, BeginStill DEF Begun
<1>5. Carries(req'[p])
  BY <1>1, <1>3 DEF Carries, OfVehicle, Loading, SlotOps, TemplateOps, Tables
<1>6. Checked(req[p])'
  BY <1>1, <1>3 DEF AddTrain, ValidMembers, Checked, Loading, OfVehicle, SlotOps, TemplateOps, Still, tables, Live
<1>7. {l, t} \subseteq Entity
  BY DEF Entity
<1> QED BY <1>2, <1>5, <1>6, <1>7, BeginKeeps DEF Joining, SlotOps, TemplateOps

LEMMA RowsRemoveTrain ==
  ASSUME RowInv, NEW p \in Proc, NEW l \in Layout, NEW t \in Train, RemoveTrain(p, l, t)
  PROVE  RowInv'
<1>1. Types /\ Tables
  BY DEF RowInv, Types
<1>2. Begin(p, "removeTrain", {l, t}, {}, <<l, t>>, {l})
  BY DEF RemoveTrain
<1>3. /\ req'[p].pc = "commit" /\ req'[p].op = "removeTrain" /\ req'[p].on = {l, t}
      /\ req'[p].x = <<l, t>> /\ Still
  BY <1>1, <1>2, BeginStill DEF Begun
<1>5. Carries(req'[p])
  BY <1>1, <1>3 DEF Carries, OfVehicle, Loading, SlotOps, TemplateOps, Tables
<1>6. Checked(req[p])'
  BY <1>1, <1>3 DEF RemoveTrain, ValidMembers, Checked, Loading, OfVehicle, SlotOps, TemplateOps, Still, tables, Live
<1>7. {l, t} \subseteq Entity
  BY DEF Entity
<1> QED BY <1>2, <1>5, <1>6, <1>7, BeginKeeps DEF Joining, SlotOps, TemplateOps

LEMMA RowsEditSlot ==
  ASSUME RowInv, NEW p \in Proc, NEW v \in Vehicle, NEW op \in SlotOps, NEW f \in Num, EditSlot(p, v, op, f)
  PROVE  RowInv'
<1>1. Types /\ Tables
  BY DEF RowInv, Types
<1>2. Begin(p, op, {v}, {v}, f, {})
  BY DEF EditSlot
<1>3. /\ req'[p].pc = "commit" /\ req'[p].op = op /\ req'[p].on = {v}
      /\ req'[p].x = f /\ req'[p].row = [u \in {v} |-> veh[u]] /\ Still
  BY <1>1, <1>2, BeginFacts DEF Begun, Still
<1>5. Carries(req'[p])
  BY <1>1, <1>3 DEF Carries, OfVehicle, Loading, SlotOps, TemplateOps, Tables
<1>6. Checked(req[p])'
  BY <1>1, <1>3 DEF EditSlot, ValidMembers, Checked, Loading, OfVehicle, SlotOps, TemplateOps, Still, tables, Live
<1>7. {v} \subseteq Entity
  BY DEF Entity
<1> QED BY <1>2, <1>5, <1>6, <1>7, BeginKeeps DEF Joining, SlotOps, TemplateOps

LEMMA RowsAttachVehicleToTemplate ==
  ASSUME RowInv, NEW p \in Proc, NEW v \in Vehicle, NEW m \in Template, AttachVehicleToTemplate(p, v, m)
  PROVE  RowInv'
<1>1. Types /\ Tables
  BY DEF RowInv, Types
<1>2. Begin(p, "attachTemplate", {v}, {v}, <<m, {}>>, {})
  BY DEF AttachVehicleToTemplate
<1>3. /\ req'[p].pc = "commit" /\ req'[p].op = "attachTemplate" /\ req'[p].on = {v}
      /\ req'[p].x = <<m, {}>> /\ req'[p].row = [u \in {v} |-> veh[u]] /\ Still
  BY <1>1, <1>2, BeginFacts DEF Begun, Still
<1>5. Carries(req'[p])
  BY <1>1, <1>3 DEF Carries, OfVehicle, Loading, SlotOps, TemplateOps, Tables
<1>6. Checked(req[p])'
  BY <1>1, <1>3 DEF AttachVehicleToTemplate, ValidMembers, Checked, Loading, OfVehicle, SlotOps, TemplateOps, Still, tables, Live
<1>7. {v} \subseteq Entity
  BY DEF Entity
<1> QED BY <1>2, <1>5, <1>6, <1>7, BeginKeeps DEF Joining, SlotOps, TemplateOps

LEMMA RowsCopyVehicleFunctionsFromVehicle ==
  ASSUME RowInv, NEW p \in Proc, NEW v \in Vehicle, NEW w \in Vehicle, CopyVehicleFunctionsFromVehicle(p, v, w)
  PROVE  RowInv'
<1>1. Types /\ Tables
  BY DEF RowInv, Types
<1>2. Begin(p, "copyFunctions", {v}, {v}, <<None, Functions(w)>>, {})
  BY DEF CopyVehicleFunctionsFromVehicle
<1>3. /\ req'[p].pc = "commit" /\ req'[p].op = "copyFunctions" /\ req'[p].on = {v}
      /\ req'[p].x = <<None, Functions(w)>> /\ req'[p].row = [u \in {v} |-> veh[u]] /\ Still
  BY <1>1, <1>2, BeginFacts DEF Begun, Still
<1>4. Functions(w) \in SUBSET Num
  BY <1>1 DEF Functions, Types, Tables, Row
<1>5. Carries(req'[p])
  BY <1>1, <1>3, <1>4 DEF Carries, OfVehicle, Loading, SlotOps, TemplateOps, Tables
<1>6. Checked(req[p])'
  BY <1>1, <1>3, <1>4 DEF CopyVehicleFunctionsFromVehicle, ValidMembers, Checked, Loading, OfVehicle, SlotOps, TemplateOps, Still, tables, Live
<1>7. {v} \subseteq Entity
  BY DEF Entity
<1> QED BY <1>2, <1>5, <1>6, <1>7, BeginKeeps DEF Joining, SlotOps, TemplateOps

LEMMA RowsEditTemplate ==
  ASSUME RowInv, NEW p \in Proc, NEW m \in Template, NEW op \in TemplateOps, NEW f \in Num, EditTemplate(p, m, op, f)
  PROVE  RowInv'
<1>1. Types /\ Tables
  BY DEF RowInv, Types
<1>2. Begin(p, op, {}, {}, <<m, f>>, {})
  BY DEF EditTemplate
<1>3. /\ req'[p].pc = "commit" /\ req'[p].op = op /\ req'[p].on = {}
      /\ req'[p].x = <<m, f>> /\ Still
  BY <1>1, <1>2, BeginStill DEF Begun
<1>5. Carries(req'[p])
  BY <1>1, <1>3 DEF Carries, OfVehicle, Loading, SlotOps, TemplateOps, Tables
<1>6. Checked(req[p])'
  BY <1>1, <1>3 DEF EditTemplate, ValidMembers, Checked, Loading, OfVehicle, SlotOps, TemplateOps, Still, tables, Live
<1>7. {} \subseteq Entity
  BY DEF Entity
<1> QED BY <1>2, <1>5, <1>6, <1>7, BeginKeeps DEF Joining, SlotOps, TemplateOps

LEMMA RowsCreateLayout ==
  ASSUME RowInv, NEW p \in Proc, NEW l \in Layout, NEW S \in SUBSET Station, CreateLayout(p, l, S)
  PROVE  RowInv'
<1>1. Types /\ Tables
  BY DEF RowInv, Types
<1>2. Begin(p, "createLayout", {l} \cup S, {}, <<l, S>>, {})
  BY DEF CreateLayout
<1>3. /\ req'[p].pc = "commit" /\ req'[p].op = "createLayout" /\ req'[p].on = {l} \cup S
      /\ req'[p].x = <<l, S>> /\ Still
  BY <1>1, <1>2, BeginStill DEF Begun
<1>5. Carries(req'[p])
  BY <1>1, <1>3 DEF Carries, OfVehicle, Loading, SlotOps, TemplateOps, Tables
<1>6. Checked(req[p])'
  BY <1>1, <1>3 DEF CreateLayout, ValidMembers, Checked, Loading, OfVehicle, SlotOps, TemplateOps, Still, tables, Live
<1>7. {l} \cup S \subseteq Entity
  BY DEF Entity
<1> QED BY <1>2, <1>5, <1>6, <1>7, BeginKeeps DEF Joining, SlotOps, TemplateOps

LEMMA RowsSetCommandStations ==
  ASSUME RowInv, NEW p \in Proc, NEW l \in Layout, NEW S \in SUBSET Station, SetCommandStations(p, l, S)
  PROVE  RowInv'
<1>1. Types /\ Tables
  BY DEF RowInv, Types
<1>2. Begin(p, "setStations", {l} \cup S, {}, <<l, S>>, {})
  BY DEF SetCommandStations
<1>3. /\ req'[p].pc = "commit" /\ req'[p].op = "setStations" /\ req'[p].on = {l} \cup S
      /\ req'[p].x = <<l, S>> /\ Still
  BY <1>1, <1>2, BeginStill DEF Begun
<1>5. Carries(req'[p])
  BY <1>1, <1>3 DEF Carries, OfVehicle, Loading, SlotOps, TemplateOps, Tables
<1>6. Checked(req[p])'
  BY <1>1, <1>3 DEF SetCommandStations, ValidMembers, Checked, Loading, OfVehicle, SlotOps, TemplateOps, Still, tables, Live
<1>7. {l} \cup S \subseteq Entity
  BY DEF Entity
<1> QED BY <1>2, <1>5, <1>6, <1>7, BeginKeeps DEF Joining, SlotOps, TemplateOps

LEMMA RowsDeleteLayout ==
  ASSUME RowInv, NEW p \in Proc, NEW l \in Layout, DeleteLayout(p, l)
  PROVE  RowInv'
<1>1. Types /\ Tables
  BY DEF RowInv, Types
<1>2. Begin(p, "deleteLayout", {l}, {}, l, {})
  BY DEF DeleteLayout
<1>3. /\ req'[p].pc = "commit" /\ req'[p].op = "deleteLayout" /\ req'[p].on = {l}
      /\ req'[p].x = l /\ Still
  BY <1>1, <1>2, BeginStill DEF Begun
<1>5. Carries(req'[p])
  BY <1>1, <1>3 DEF Carries, OfVehicle, Loading, SlotOps, TemplateOps, Tables
<1>6. Checked(req[p])'
  BY <1>1, <1>3 DEF DeleteLayout, ValidMembers, Checked, Loading, OfVehicle, SlotOps, TemplateOps, Still, tables, Live
<1>7. {l} \subseteq Entity
  BY DEF Entity
<1> QED BY <1>2, <1>5, <1>6, <1>7, BeginKeeps DEF Joining, SlotOps, TemplateOps

LEMMA RowsDeleteStation ==
  ASSUME RowInv, NEW p \in Proc, NEW s \in Station, DeleteStation(p, s)
  PROVE  RowInv'
<1>1. Types /\ Tables
  BY DEF RowInv, Types
<1>2. Begin(p, "deleteStation", {s} \cup Layout, {}, s, {})
  BY DEF DeleteStation
<1>3. /\ req'[p].pc = "commit" /\ req'[p].op = "deleteStation" /\ req'[p].on = {s} \cup Layout
      /\ req'[p].x = s /\ Still
  BY <1>1, <1>2, BeginStill DEF Begun
<1>5. Carries(req'[p])
  BY <1>1, <1>3 DEF Carries, OfVehicle, Loading, SlotOps, TemplateOps, Tables
<1>6. Checked(req[p])'
  BY <1>1, <1>3 DEF DeleteStation, ValidMembers, Checked, Loading, OfVehicle, SlotOps, TemplateOps, Still, tables, Live
<1>7. {s} \cup Layout \subseteq Entity
  BY DEF Entity
<1> QED BY <1>2, <1>5, <1>6, <1>7, BeginKeeps DEF Joining, SlotOps, TemplateOps

-----------------------------------------------------------------------------
(***************************************************************************)
(* Every transaction leaves the rows consistent.  What it changes belongs  *)
(* to what its request works on, so that the checks of the others hold.    *)
(***************************************************************************)
Effect(p) ==
  /\ \A e \in Entity : Live(e) /\ ~Live(e)' => e \in req[p].on
  /\ \A v \in Vehicle : veh'[v] # veh[v] => v \in req[p].on
  /\ \A t \in Train : \A v \in mem'[t] : v \in mem[t] \/ v \in req[p].on
  /\ \A l \in Layout : att'[l] # att[l] => l \in req[p].on

Landed(p) ==
  /\ OthersSame(p) /\ req'[p].pc # "commit" /\ req'[p].on \subseteq req[p].on
  /\ req' = [q \in Proc |-> req'[q]] /\ \A q \in Proc : Shape(req'[q])

LEMMA LandedEnd ==
  ASSUME Types, NEW p \in Proc, End(p)
  PROVE  Landed(p) /\ req'[p] = Idle
<1>1. Idle.pc # "commit" /\ Idle.on \subseteq req[p].on
  BY IdleShape
<1> QED BY <1>1, EndFacts DEF Landed

LEMMA LandedTo ==
  ASSUME Types, NEW p \in Proc, NEW pc \in {"list", "sync"}, To(p, pc), req[p].pc # "idle"
  PROVE  Landed(p) /\ SameRest(p) /\ req'[p].pc = pc
  BY ToFacts DEF Landed, SameRest

LEMMA OthersChecked ==
  ASSUME RowInv, NEW p \in Proc, OthersSame(p), Effect(p), crossed' = crossed,
         NEW q \in Proc \ {p}
  PROVE  Checked(req[q])'
<1> DEFINE r == req[q]
<1>1. req'[q] = r
  BY DEF OthersSame
<1>2. Checked(r) /\ Shape(r) /\ r.on \cap req[p].on \subseteq crossed
  BY DEF RowInv, Types, AllChecked, Crossing
<1>3. SUFFICES ASSUME r.pc = "commit" PROVE Checked(req[q])'
  BY <1>1 DEF Checked
<1>4. Carries(r)
  BY <1>2, <1>3 DEF Shape
<1> HIDE DEF r
<1>5. r.op \in {"createTrain", "updateTrain"} => \A v \in r.x[2] : Live(v)' \/ v \in crossed
  BY <1>2, <1>3, <1>4 DEF Carries, Checked, Effect, Entity
<1>6. r.op \in {"addVehicle", "addTrain"} => Live(r.x[2])' \/ r.x[2] \in crossed
  <2>1. ASSUME r.op \in {"addVehicle", "addTrain"}
        PROVE  \E l \in Layout, e \in Entity : r.x = <<l, e>> /\ e \in r.on
    BY <1>4, <2>1 DEF Carries, Entity
  <2> QED BY <1>1, <1>2, <1>3, <2>1 DEF Checked, Effect, Live, r
<1>7. r.op = "deleteVehicle" => \A v \in r.on, t \in Train : v \in mem'[t] => v \in crossed
  BY <1>2, <1>3 DEF Checked, Effect
<1>8. r.op = "deleteStation" => \A l \in Layout : att'[l] # {r.x} \/ l \in crossed
  BY <1>2, <1>3, <1>4 DEF Carries, Checked, Effect
<1>9. r.op \in Loading => \A v \in r.on : r.row[v] = veh'[v] \/ v \in crossed
  <2>1. r.op \in Loading => r.on \subseteq Vehicle
    BY <1>4 DEF Carries, Loading
  <2> QED BY <1>2, <1>3, <2>1 DEF Checked, Effect
<1> QED BY <1>1, <1>5, <1>6, <1>7, <1>8, <1>9 DEF Checked, Live, r

LEMMA CommitKeeps ==
  ASSUME RowInv, NEW p \in Proc, Landed(p), Effect(p), crossed' = crossed, torn' \subseteq Layout,
         Tables', Consistent'
  PROVE  RowInv'
<1>1. Types'
  BY DEF RowInv, Types, Landed
<1>2. Crossing'
  BY DEF RowInv, Crossing, Landed, OthersSame
<1>3. AllChecked'
  <2>1. \A q \in Proc \ {p} : Checked(req[q])'
    BY OthersChecked DEF Landed
  <2>2. Checked(req[p])'
    BY DEF Landed, Checked
  <2> QED BY <2>1, <2>2 DEF AllChecked
<1> QED BY <1>1, <1>2, <1>3 DEF RowInv

\* A step that leaves the tables alone.
LEMMA QuietKeeps ==
  ASSUME RowInv, NEW p \in Proc, Landed(p), UNCHANGED <<tables, crossed>>, torn' \subseteq Layout
  PROVE  RowInv'
<1>1. Still
  BY DEF Still
<1>2. Effect(p)
  BY DEF Effect, tables, Live
<1>3. Tables' /\ Consistent'
  BY <1>1, StillConsistent DEF RowInv, Types, Tables, tables
<1> QED BY <1>2, <1>3, CommitKeeps

LEMMA RefuseKeeps ==
  ASSUME RowInv, NEW p \in Proc, Refuse(p), Kept
  PROVE  RowInv'
  BY LandedEnd, QuietKeeps DEF Refuse, Kept, RowInv, Types

\* The parts of the consistency, each with the tables it is about.
LEMMA KeepAddresses ==
  ASSUME Consistent, \A v \in Vehicle : Live(v)' => Live(v) /\ veh'[v].addr = veh[v].addr
  PROVE  AddressUnique'
  BY DEF Consistent, AddressUnique

LEMMA KeepReferences ==
  ASSUME Tables, Consistent, UNCHANGED <<mem, lv, lt, crossed>>,
         \A e \in Entity : Live(e) => Live(e)', \A t \in Train : Live(t)' => Live(t)
  PROVE  NoDangling'
<1>1. Vehicle \subseteq Entity /\ Train \subseteq Entity
  BY DEF Entity
<1> QED BY <1>1 DEF Tables, Consistent, NoDangling, Live

LEMMA KeepAttached ==
  ASSUME Tables, Consistent, UNCHANGED <<att, crossed>>,
         \A s \in Station : Live(s) => Live(s)', \A l \in Layout : Live(l)' => Live(l)
  PROVE  AttachedExist' /\ KeepsStation'
  BY DEF Tables, Consistent, AttachedExist, KeepsStation

LEMMA KeepTemplates ==
  ASSUME Consistent, UNCHANGED <<veh, own, crossed>>, \A v \in Vehicle : Live(v)' => Live(v)
  PROVE  FollowsTemplate'
  BY DEF Consistent, FollowsTemplate

LEMMA RowsInsertVehicle ==
  ASSUME RowInv, NEW p \in Proc, NEW v \in Vehicle, InsertVehicle(p, v)
  PROVE  RowInv'
<1>1. Types /\ Tables /\ Consistent /\ req[p].pc = "commit" /\ req[p].op = "createVehicle" /\ Kept
  BY DEF RowInv, Types, InsertVehicle, Committing
<1>2. Carries(req[p]) /\ req[p].x \in Addr \cup {None}
  BY <1>1 DEF Types, Shape, Carries
<1>3. CASE ~(life[v] = "new" /\ AddressFree(v, req[p].x))
  BY <1>1, <1>3, RefuseKeeps DEF InsertVehicle
<1>4. CASE life[v] = "new" /\ AddressFree(v, req[p].x)
  <2>1. /\ life' = [life EXCEPT ![v] = "live"] /\ v \in Entity /\ v \notin Train \cup Layout \cup Station
        /\ veh' = [veh EXCEPT ![v] = [addr |-> req[p].x, tmpl |-> None, det |-> FALSE]]
        /\ End(p) /\ UNCHANGED <<own, tfn, mem, lv, lt, att, crossed, torn>>
    BY <1>4, CatalogueAssumption DEF InsertVehicle, Kept, Entity
  <2>2. Landed(p) /\ v \in req[p].on
    BY <1>1, <2>1, LandedEnd DEF InsertVehicle
  <2>3. Tables'
    BY <1>1, <1>2, <2>1 DEF Tables, Row
  <2>4. /\ \A e \in Entity : Live(e) => Live(e)'
        /\ \A e \in Train \cup Layout : Live(e)' => Live(e)
    BY <1>1, <2>1 DEF Tables, Live
  <2>5. Effect(p)
    BY <1>1, <2>1, <2>2, <2>4 DEF Effect, Tables
  <2>6. AddressUnique'
    BY <1>1, <1>4, <2>1 DEF Consistent, AddressUnique, AddressFree, Live, Tables
  <2>7. NoDangling' /\ AttachedExist' /\ KeepsStation'
    BY <1>1, <2>1, <2>4, KeepReferences, KeepAttached DEF Entity
  <2>8. FollowsTemplate'
    BY <1>1, <2>1 DEF Consistent, FollowsTemplate, Live, Tables
  <2> QED BY <1>1, <2>1, <2>2, <2>3, <2>5, <2>6, <2>7, <2>8, CommitKeeps DEF Consistent, Types
<1> QED BY <1>3, <1>4

\* Rows that were loaded are written back with other addresses.
LEMMA WriteKeeps ==
  ASSUME RowInv, NEW p \in Proc, req[p].pc = "commit", req[p].op \in {"updateVehicle", "clearDCC"},
         NEW D, D \subseteq req[p].on, NEW rows \in [D -> Row],
         \A v \in D : rows[v].tmpl = req[p].row[v].tmpl /\ rows[v].det = req[p].row[v].det,
         \A v, w \in D : v # w => rows[v].addr = None,
         WriteRows(p, rows), Kept
  PROVE  RowInv'
<1>1. Types /\ Tables /\ Consistent /\ Carries(req[p])
  BY DEF RowInv, Types, Shape
<1>2. D \subseteq Vehicle /\ DOMAIN rows = D
  BY <1>1 DEF Carries, OfVehicle
<1>3. CASE ~(\A v \in DOMAIN rows : Live(v) /\ AddressFree(v, rows[v].addr))
  BY <1>3, RefuseKeeps DEF WriteRows
<1>4. CASE \A v \in DOMAIN rows : Live(v) /\ AddressFree(v, rows[v].addr)
  <2>1. /\ veh' = [v \in Vehicle |-> IF v \in D THEN rows[v] ELSE veh[v]]
        /\ To(p, "list") /\ UNCHANGED <<life, own, tfn, mem, lv, lt, att, crossed, torn>>
    BY <1>2, <1>4 DEF WriteRows, Kept
  <2>2. Landed(p)
    BY <1>1, <2>1, LandedTo
  <2>3. Tables'
    BY <1>1, <2>1 DEF Tables
  <2>4. Effect(p)
    BY <2>1 DEF Effect, Live
  <2>5. AddressUnique'
    <3>1. ASSUME NEW v \in Vehicle, NEW w \in Vehicle, v # w, Live(v), Live(w), veh'[v].addr # None
          PROVE  veh'[v].addr # veh'[w].addr
      <4>1. CASE v \in D /\ w \in D
        BY <3>1, <4>1, <2>1
      <4>2. CASE v \in D /\ w \notin D
        BY <1>2, <1>4, <2>1, <3>1, <4>2 DEF AddressFree
      <4>3. CASE v \notin D /\ w \in D
        BY <1>2, <1>4, <2>1, <3>1, <4>3 DEF AddressFree
      <4>4. CASE v \notin D /\ w \notin D
        BY <1>1, <2>1, <3>1, <4>4 DEF Consistent, AddressUnique
      <4> QED BY <4>1, <4>2, <4>3, <4>4
    <3> QED BY <2>1, <3>1 DEF AddressUnique, Live
  <2>6. NoDangling' /\ AttachedExist' /\ KeepsStation'
    BY <1>1, <2>1, KeepReferences, KeepAttached DEF Live
  <2>7. FollowsTemplate'
    <3>1. ASSUME NEW v \in Vehicle \ crossed
          PROVE  veh'[v].tmpl = veh[v].tmpl /\ veh'[v].det = veh[v].det
      BY <1>2, <2>1 DEF RowInv, AllChecked, Checked, Loading, OfVehicle
    <3> QED BY <1>1, <2>1, <3>1 DEF Consistent, FollowsTemplate, Live
  <2> QED BY <1>1, <2>1, <2>2, <2>3, <2>4, <2>5, <2>6, <2>7, CommitKeeps DEF Consistent, Types
<1> QED BY <1>3, <1>4

LEMMA RowsStoreVehicle ==
  ASSUME RowInv, NEW p \in Proc, StoreVehicle(p)
  PROVE  RowInv'
<1> DEFINE r == req[p]
           rows == [v \in DOMAIN r.row |-> [r.row[v] EXCEPT !.addr = IF r.x = Keep THEN @ ELSE r.x]]
<1>1. r.pc = "commit" /\ r.op = "updateVehicle" /\ WriteRows(p, rows) /\ Kept
  BY DEF StoreVehicle, Committing
<1>2. Carries(r)
  BY <1>1 DEF RowInv, Types, Shape
<1>3. PICK v \in Vehicle : r.on = {v}
  BY <1>1, <1>2 DEF Carries, OfVehicle
<1>4. r.row \in [{v} -> Row] /\ r.x \in Addr \cup {None, Keep}
  BY <1>1, <1>2, <1>3 DEF Carries, Loading, OfVehicle
<1>5. rows \in [{v} -> Row] /\ rows[v].tmpl = r.row[v].tmpl /\ rows[v].det = r.row[v].det
  BY <1>4 DEF Row
<1> HIDE DEF rows
<1> QED BY <1>1, <1>3, <1>5, WriteKeeps

LEMMA RowsClearRows ==
  ASSUME RowInv, NEW p \in Proc, ClearRows(p)
  PROVE  RowInv'
<1> DEFINE r == req[p]
           D == {w \in DOMAIN r.row : r.row[w].addr # None}
           rows == [v \in D |-> [r.row[v] EXCEPT !.addr = None]]
<1>1. r.pc = "commit" /\ r.op = "clearDCC" /\ WriteRows(p, rows) /\ Kept
  BY DEF ClearRows, Committing
<1>2. Carries(r)
  BY <1>1 DEF RowInv, Types, Shape
<1>3. r.on \subseteq Vehicle /\ r.row \in [r.on -> Row]
  BY <1>1, <1>2 DEF Carries, Loading
<1>4. D \subseteq r.on
  BY <1>3
<1>5. ASSUME NEW v \in D
      PROVE  /\ rows[v] \in Row /\ rows[v].tmpl = r.row[v].tmpl /\ rows[v].det = r.row[v].det
             /\ rows[v].addr = None
  BY <1>3, <1>4 DEF Row
<1>6. rows \in [D -> Row]
  BY <1>5
<1> HIDE DEF rows, D
<1> QED BY <1>1, <1>4, <1>5, <1>6, WriteKeeps

LEMMA RowsRemoveVehicleRows ==
  ASSUME RowInv, NEW p \in Proc, NEW v \in Vehicle, RemoveVehicleRows(p, v)
  PROVE  RowInv'
<1>1. Types /\ Tables /\ Consistent /\ req[p].pc = "commit" /\ req[p].op = "deleteVehicle" /\ Kept
  BY DEF RowInv, Types, RemoveVehicleRows, Committing
<1>2. CASE ~Live(v)
  BY <1>1, <1>2, RefuseKeeps DEF RemoveVehicleRows
<1>3. CASE Live(v)
  <2>1. /\ life' = [life EXCEPT ![v] = "gone"] /\ own' = [own EXCEPT ![v] = {}]
        /\ lv' = [l \in Layout |-> lv[l] \ {v}] /\ To(p, "sync")
        /\ UNCHANGED <<veh, tfn, mem, lt, att, crossed, torn>>
        /\ v \in Entity /\ v \notin Train \cup Layout \cup Station /\ v \in req[p].on
    BY <1>3, CatalogueAssumption DEF RemoveVehicleRows, Kept, Entity
  <2>2. Landed(p)
    BY <1>1, <2>1, LandedTo
  <2>3. Tables'
    BY <1>1, <2>1 DEF Tables
  <2>4. \A e \in Entity : e # v => (Live(e)' <=> Live(e))
    BY <1>1, <2>1 DEF Tables, Live
  <2>5. Effect(p)
    BY <2>1, <2>4 DEF Effect
  <2>6. ~Live(v)'
    BY <1>1, <2>1 DEF Tables, Live
  <2>7. AddressUnique'
    BY <1>1, <2>1, <2>4, <2>6, KeepAddresses DEF Entity
  <2>8. NoDangling'
    <3>1. \A t \in Train : v \in mem[t] => v \in crossed
      BY <1>1, <2>1 DEF RowInv, AllChecked, Checked
    <3> QED BY <1>1, <2>1, <2>4, <3>1 DEF Consistent, NoDangling, Entity, Tables
  <2>9. AttachedExist' /\ KeepsStation'
    BY <1>1, <2>1, <2>4, KeepAttached DEF Entity
  <2>10. FollowsTemplate'
    BY <1>1, <2>1, <2>4 DEF Consistent, FollowsTemplate, Entity, Tables
  <2> QED BY <1>1, <2>1, <2>2, <2>3, <2>5, <2>7, <2>8, <2>9, <2>10, CommitKeeps
       DEF Consistent, Types
<1> QED BY <1>2, <1>3

LEMMA RowsReplaceMembers ==
  ASSUME RowInv, NEW p \in Proc, NEW t \in Train, ReplaceMembers(p, t)
  PROVE  RowInv'
<1>1. PICK op \in {"createTrain", "updateTrain"} :
         /\ Committing(p, op) /\ req[p].x[1] = t
         /\ IF life[t] = (IF op = "createTrain" THEN "new" ELSE "live")
            THEN /\ life' = [life EXCEPT ![t] = "live"]
                 /\ mem' = [mem EXCEPT ![t] = req[p].x[2]]
                 /\ To(p, "list")
                 /\ UNCHANGED <<veh, own, tfn, lv, lt, att>>
            ELSE Refuse(p)
  BY DEF ReplaceMembers
<1>2. Types /\ Tables /\ Consistent /\ req[p].pc = "commit" /\ req[p].op = op /\ Kept
  BY <1>1 DEF RowInv, Types, ReplaceMembers, Committing
<1>3. CASE ~(life[t] = (IF op = "createTrain" THEN "new" ELSE "live"))
  BY <1>1, <1>2, <1>3, RefuseKeeps
<1>4. CASE life[t] = (IF op = "createTrain" THEN "new" ELSE "live")
  <2>1. /\ life' = [life EXCEPT ![t] = "live"] /\ mem' = [mem EXCEPT ![t] = req[p].x[2]]
        /\ To(p, "list") /\ UNCHANGED <<veh, own, tfn, lv, lt, att, crossed, torn>>
        /\ t \in Entity /\ t \notin Vehicle \cup Layout \cup Station
    BY <1>1, <1>2, <1>4, CatalogueAssumption DEF Kept, Entity
  <2>2. req[p].x[2] \subseteq Vehicle /\ req[p].x[2] \subseteq req[p].on
    <3>1. Carries(req[p])
      BY <1>2 DEF Types, Shape
    <3> QED BY <1>2, <3>1 DEF Carries
  <2>3. Landed(p)
    BY <1>2, <2>1, LandedTo
  <2>4. Tables'
    BY <1>2, <2>1, <2>2 DEF Tables
  <2>5. \A e \in Entity : (Live(e) => Live(e)') /\ (e # t => (Live(e)' <=> Live(e)))
    BY <1>2, <2>1 DEF Tables, Live
  <2>6. Effect(p)
    BY <1>2, <2>1, <2>2, <2>5 DEF Effect, Tables
  <2>7. AddressUnique' /\ FollowsTemplate'
    BY <1>2, <2>1, <2>5, KeepAddresses, KeepTemplates DEF Entity
  <2>8. NoDangling'
    <3>1. \A v \in req[p].x[2] : Live(v) \/ v \in crossed
      BY <1>2 DEF RowInv, AllChecked, Checked
    <3>2. \A u \in Train : Live(u)' => \A v \in mem'[u] : Live(v)' \/ v \in crossed'
      BY <1>2, <2>1, <2>2, <2>5, <3>1 DEF Consistent, NoDangling, Entity, Tables
    <3>3. \A l \in Layout : /\ \A v \in lv'[l] : Live(v)' \/ v \in crossed'
                            /\ \A u \in lt'[l] : Live(u)' \/ u \in crossed'
      BY <1>2, <2>1, <2>5 DEF Consistent, NoDangling, Entity, Tables
    <3> QED BY <3>2, <3>3 DEF NoDangling
  <2>9. AttachedExist' /\ KeepsStation'
    BY <1>2, <2>1, <2>5, KeepAttached DEF Entity
  <2> QED BY <1>2, <2>1, <2>3, <2>4, <2>6, <2>7, <2>8, <2>9, CommitKeeps DEF Consistent, Types
<1> QED BY <1>3, <1>4

LEMMA RowsRemoveTrainRows ==
  ASSUME RowInv, NEW p \in Proc, NEW t \in Train, RemoveTrainRows(p, t)
  PROVE  RowInv'
<1>1. /\ Types /\ Tables /\ Consistent /\ req[p].pc = "commit" /\ req[p].op = "deleteTrain"
      /\ req[p].x = t /\ Kept
  BY DEF RowInv, Types, RemoveTrainRows, Committing
<1>2. CASE ~Live(t)
  BY <1>1, <1>2, RefuseKeeps DEF RemoveTrainRows
<1>3. CASE Live(t)
  <2>1. /\ life' = [life EXCEPT ![t] = "gone"] /\ mem' = [mem EXCEPT ![t] = {}]
        /\ lt' = [l \in Layout |-> lt[l] \ {t}] /\ To(p, "sync")
        /\ UNCHANGED <<veh, own, tfn, lv, att, crossed, torn>>
        /\ t \in Entity /\ t \notin Vehicle \cup Layout \cup Station
    BY <1>3, CatalogueAssumption, <1>1 DEF RemoveTrainRows, Kept, Entity
  <2>2. Landed(p) /\ t \in req[p].on
    BY <1>1, <2>1, LandedTo, SMTT(30) DEF Types, Shape, Carries
  <2>3. Tables'
    BY <1>1, <2>1 DEF Tables
  <2>4. ~Live(t)' /\ \A e \in Entity : e # t => (Live(e)' <=> Live(e))
    BY <1>1, <2>1 DEF Tables, Live
  <2>5. Effect(p)
    BY <1>1, <2>1, <2>2, <2>4 DEF Effect, Tables
  <2>6. AddressUnique' /\ FollowsTemplate'
    BY <1>1, <2>1, <2>4, KeepAddresses, KeepTemplates DEF Entity
  <2>7. NoDangling'
    BY <1>1, <2>1, <2>4 DEF Consistent, NoDangling, Entity, Tables
  <2>8. AttachedExist' /\ KeepsStation'
    BY <1>1, <2>1, <2>4, KeepAttached DEF Entity
  <2> QED BY <1>1, <2>1, <2>2, <2>3, <2>5, <2>6, <2>7, <2>8, CommitKeeps DEF Consistent, Types
<1> QED BY <1>2, <1>3

LEMMA RowsJoinVehicle ==
  ASSUME RowInv, NEW p \in Proc, JoinVehicle(p)
  PROVE  RowInv'
<1>1. PICK op \in {"addVehicle", "removeVehicle"} :
         /\ Committing(p, op)
         /\ LET l == req[p].x[1]  v == req[p].x[2]  add == op = "addVehicle"
            IN  IF (v \in lv[l]) # add
                THEN /\ lv' = [lv EXCEPT ![l] = IF add THEN @ \cup {v} ELSE @ \ {v}]
                     /\ To(p, "sync")
                     /\ UNCHANGED <<life, veh, own, tfn, mem, lt, att>>
                ELSE Refuse(p)
  BY DEF JoinVehicle
<1>2. Types /\ Tables /\ Consistent /\ req[p].pc = "commit" /\ req[p].op = op /\ Kept
  BY <1>1 DEF RowInv, Types, JoinVehicle, Committing
<1>3. PICK l \in Layout, v \in Vehicle : req[p].x = <<l, v>> /\ req[p].on = {l, v}
  <2>1. Carries(req[p])
    BY <1>2 DEF Types, Shape
  <2> QED BY <1>2, <2>1 DEF Carries
<1>4. CASE Refuse(p)
  BY <1>2, <1>4, RefuseKeeps
<1>5. CASE ~Refuse(p)
  <2>1. /\ To(p, "sync") /\ UNCHANGED <<life, veh, own, tfn, mem, lt, att, crossed, torn>>
        /\ lv' = [lv EXCEPT ![l] = IF op = "addVehicle" THEN @ \cup {v} ELSE @ \ {v}]
    BY <1>1, <1>2, <1>3, <1>5 DEF Kept
  <2>2. Landed(p)
    BY <1>2, <2>1, LandedTo
  <2>3. Tables'
    BY <1>2, <2>1 DEF Tables
  <2>4. Effect(p)
    BY <2>1 DEF Effect, Live
  <2>5. AddressUnique' /\ FollowsTemplate' /\ AttachedExist' /\ KeepsStation'
    BY <1>2, <2>1, KeepAddresses, KeepTemplates, KeepAttached DEF Live
  <2>6. NoDangling'
    <3>1. op = "addVehicle" => Live(v) \/ v \in crossed
      BY <1>2, <1>3 DEF RowInv, AllChecked, Checked
    <3> QED BY <1>2, <2>1, <3>1 DEF Consistent, NoDangling, Live, Tables
  <2> QED BY <1>2, <2>1, <2>2, <2>3, <2>4, <2>5, <2>6, CommitKeeps DEF Consistent, Types
<1> QED BY <1>4, <1>5

LEMMA RowsJoinTrain ==
  ASSUME RowInv, NEW p \in Proc, JoinTrain(p)
  PROVE  RowInv'
<1>1. PICK op \in {"addTrain", "removeTrain"} :
         /\ Committing(p, op)
         /\ LET l == req[p].x[1]  t == req[p].x[2]  add == op = "addTrain"
            IN  IF (t \in lt[l]) # add
                THEN /\ lt' = [lt EXCEPT ![l] = IF add THEN @ \cup {t} ELSE @ \ {t}]
                     /\ To(p, "sync")
                     /\ UNCHANGED <<life, veh, own, tfn, mem, lv, att>>
                ELSE Refuse(p)
  BY DEF JoinTrain
<1>2. Types /\ Tables /\ Consistent /\ req[p].pc = "commit" /\ req[p].op = op /\ Kept
  BY <1>1 DEF RowInv, Types, JoinTrain, Committing
<1>3. PICK l \in Layout, t \in Train : req[p].x = <<l, t>> /\ req[p].on = {l, t}
  <2>1. Carries(req[p])
    BY <1>2 DEF Types, Shape
  <2> QED BY <1>2, <2>1 DEF Carries
<1>4. CASE Refuse(p)
  BY <1>2, <1>4, RefuseKeeps
<1>5. CASE ~Refuse(p)
  <2>1. /\ To(p, "sync") /\ UNCHANGED <<life, veh, own, tfn, mem, lv, att, crossed, torn>>
        /\ lt' = [lt EXCEPT ![l] = IF op = "addTrain" THEN @ \cup {t} ELSE @ \ {t}]
    BY <1>1, <1>2, <1>3, <1>5 DEF Kept
  <2>2. Landed(p)
    BY <1>2, <2>1, LandedTo
  <2>3. Tables'
    BY <1>2, <2>1 DEF Tables
  <2>4. Effect(p)
    BY <2>1 DEF Effect, Live
  <2>5. AddressUnique' /\ FollowsTemplate' /\ AttachedExist' /\ KeepsStation'
    BY <1>2, <2>1, KeepAddresses, KeepTemplates, KeepAttached DEF Live
  <2>6. NoDangling'
    <3>1. op = "addTrain" => Live(t) \/ t \in crossed
      BY <1>2, <1>3 DEF RowInv, AllChecked, Checked
    <3> QED BY <1>2, <2>1, <3>1 DEF Consistent, NoDangling, Live, Tables
  <2> QED BY <1>2, <2>1, <2>2, <2>3, <2>4, <2>5, <2>6, CommitKeeps DEF Consistent, Types
<1> QED BY <1>4, <1>5

\* One vehicle's row and slots are written.
LEMMA SlotsKeep ==
  ASSUME RowInv, NEW p \in Proc, Landed(p), NEW v \in Vehicle, v \in req[p].on,
         NEW row \in Row, NEW S \in SUBSET Num,
         veh' = [veh EXCEPT ![v] = row], own' = [own EXCEPT ![v] = S],
         UNCHANGED <<life, tfn, mem, lv, lt, att, crossed, torn>>,
         row = veh[v] \/ AddressFree(v, row.addr),
         v \in crossed \/ row.tmpl = None \/ row.det \/ S = {}
  PROVE  RowInv'
<1>1. Types /\ Tables /\ Consistent
  BY DEF RowInv, Types
<1>2. Tables'
  BY <1>1 DEF Tables
<1>3. Effect(p)
  BY <1>1 DEF Effect, Live, Tables
<1>4. AddressUnique'
  BY <1>1 DEF Consistent, AddressUnique, AddressFree, Live, Tables
<1>5. FollowsTemplate'
  BY <1>1 DEF Consistent, FollowsTemplate, Live, Tables
<1>6. NoDangling' /\ AttachedExist' /\ KeepsStation'
  BY <1>1, KeepReferences, KeepAttached DEF Live
<1> QED BY <1>1, <1>2, <1>3, <1>4, <1>5, <1>6, CommitKeeps DEF Consistent, Types

LEMMA RowsCommitSlot ==
  ASSUME RowInv, NEW p \in Proc, NEW v \in Vehicle, CommitSlot(p, v)
  PROVE  RowInv'
<1> DEFINE row == req[p].row[v]
           detach == row.tmpl # None /\ ~row.det
           copied == IF detach THEN tfn[row.tmpl] ELSE {}
           had == own[v] \cup copied
<1>1. PICK op \in SlotOps :
         /\ Committing(p, op) /\ v \in req[p].on
         /\ IF /\ copied \cap own[v] = {}
               /\ detach => Live(v) /\ AddressFree(v, row.addr)
               /\ op = "deleteSlot" => req[p].x \in had
            THEN /\ own' = [own EXCEPT ![v] = IF op = "deleteSlot" THEN had \ {req[p].x}
                                                                 ELSE had \cup {req[p].x}]
                 /\ veh' = [veh EXCEPT ![v] = IF detach THEN [row EXCEPT !.det = TRUE] ELSE @]
                 /\ To(p, "list")
                 /\ UNCHANGED <<life, tfn, mem, lv, lt, att>>
            ELSE Refuse(p)
  BY DEF CommitSlot
<1>2. Types /\ Tables /\ req[p].pc = "commit" /\ req[p].op = op /\ Kept /\ v \in req[p].on
  BY <1>1 DEF RowInv, Types, CommitSlot, Committing
<1>3. row \in Row /\ req[p].x \in Num
  <2>1. Carries(req[p])
    BY <1>2 DEF Types, Shape
  <2> QED BY <1>2, <2>1 DEF Carries, Loading, OfVehicle
<1>4. row = veh[v] \/ v \in crossed
  BY <1>2 DEF RowInv, AllChecked, Checked, Loading, OfVehicle
<1>5. CASE Refuse(p)
  BY <1>2, <1>5, RefuseKeeps
<1>6. CASE ~Refuse(p)
  <2> DEFINE S == IF op = "deleteSlot" THEN had \ {req[p].x} ELSE had \cup {req[p].x}
             new == IF detach THEN [row EXCEPT !.det = TRUE] ELSE veh[v]
  <2>1. /\ own' = [own EXCEPT ![v] = S] /\ veh' = [veh EXCEPT ![v] = new] /\ To(p, "list")
        /\ UNCHANGED <<life, tfn, mem, lv, lt, att, crossed, torn>>
        /\ detach => AddressFree(v, row.addr)
    BY <1>1, <1>2, <1>6 DEF Kept, Tables
  <2>2. copied \in SUBSET Num
    BY <1>2, <1>3 DEF Tables, Row
  <2>3. S \in SUBSET Num
    BY <1>2, <1>3, <2>2 DEF Tables
  <2>4. CASE detach
    <3>1. /\ new \in Row /\ new.addr = row.addr /\ new.det
          /\ AddressFree(v, row.addr)
      BY <1>3, <2>1, <2>4 DEF Row
    <3> HIDE DEF S, new, row
    <3> QED BY <1>2, <2>1, <2>3, <3>1, LandedTo, SlotsKeep
  <2>5. CASE ~detach
    <3>1. new = veh[v] /\ veh[v] \in Row /\ (v \in crossed \/ new.tmpl = None \/ new.det)
      BY <1>2, <1>3, <1>4, <2>5 DEF Tables, Row
    <3> HIDE DEF S, new, row
    <3> QED BY <1>2, <2>1, <2>3, <3>1, LandedTo, SlotsKeep
  <2> QED BY <2>4, <2>5
<1> QED BY <1>5, <1>6

LEMMA RowsReplaceFunctions ==
  ASSUME RowInv, NEW p \in Proc, NEW v \in Vehicle, ReplaceFunctions(p, v)
  PROVE  RowInv'
<1> DEFINE row == req[p].row[v]
           new == [row EXCEPT !.tmpl = req[p].x[1], !.det = FALSE]
<1>1. /\ Types /\ Tables /\ req[p].pc = "commit" /\ req[p].op \in {"attachTemplate", "copyFunctions"}
      /\ Kept /\ v \in req[p].on
  BY DEF RowInv, Types, ReplaceFunctions, Committing
<1>2. PICK m \in Template \cup {None}, S \in SUBSET Num :
        req[p].x = <<m, S>> /\ (m # None => S = {}) /\ row \in Row
  <2>1. Carries(req[p])
    BY <1>1 DEF Types, Shape
  <2> QED BY <1>1, <2>1 DEF Carries, Loading, OfVehicle
<1>3. CASE Refuse(p)
  BY <1>1, <1>3, RefuseKeeps
<1>4. CASE ~Refuse(p)
  <2>1. /\ own' = [own EXCEPT ![v] = S] /\ veh' = [veh EXCEPT ![v] = new] /\ To(p, "list")
        /\ UNCHANGED <<life, tfn, mem, lv, lt, att, crossed, torn>> /\ AddressFree(v, row.addr)
    BY <1>1, <1>2, <1>4 DEF ReplaceFunctions, Kept
  <2>2. new \in Row /\ new.addr = row.addr /\ new.tmpl = m
    <3> DEFINE k == [row EXCEPT !.tmpl = m]
    <3>1. k \in Row /\ k.addr = row.addr /\ k.tmpl = m
      BY <1>2 DEF Row
    <3>2. new = [k EXCEPT !.det = FALSE]
      BY <1>2
    <3> HIDE DEF k, new
    <3> QED BY <3>1, <3>2 DEF Row
  <2> HIDE DEF new, row
  <2> QED BY <1>1, <1>2, <2>1, <2>2, LandedTo, SlotsKeep
<1> QED BY <1>3, <1>4

LEMMA RowsCommitTemplate ==
  ASSUME RowInv, NEW p \in Proc, CommitTemplate(p)
  PROVE  RowInv'
<1>1. PICK op \in TemplateOps :
         /\ Committing(p, op)
         /\ LET m == req[p].x[1]  f == req[p].x[2]
            IN  IF op = "deleteTemplate" /\ f \notin tfn[m]
                THEN Refuse(p)
                ELSE /\ tfn' = [tfn EXCEPT ![m] = IF op = "deleteTemplate" THEN @ \ {f}
                                                                        ELSE @ \cup {f}]
                     /\ To(p, "list")
                     /\ UNCHANGED <<life, veh, own, mem, lv, lt, att>>
  BY DEF CommitTemplate
<1>2. Types /\ Tables /\ Consistent /\ req[p].pc = "commit" /\ req[p].op = op /\ Kept
  BY <1>1 DEF RowInv, Types, CommitTemplate, Committing
<1>3. PICK m \in Template, f \in Num : req[p].x = <<m, f>>
  <2>1. Carries(req[p])
    BY <1>2 DEF Types, Shape
  <2> QED BY <1>2, <2>1 DEF Carries
<1>4. CASE Refuse(p)
  BY <1>2, <1>4, RefuseKeeps
<1>5. CASE ~Refuse(p)
  <2>1. /\ tfn' = [tfn EXCEPT ![m] = IF op = "deleteTemplate" THEN @ \ {f} ELSE @ \cup {f}]
        /\ To(p, "list") /\ UNCHANGED <<life, veh, own, mem, lv, lt, att, crossed, torn>>
    BY <1>1, <1>2, <1>3, <1>5 DEF Kept
  <2>2. Landed(p)
    BY <1>2, <2>1, LandedTo
  <2>3. Tables'
    BY <1>2, <2>1 DEF Tables
  <2>4. Effect(p)
    BY <2>1 DEF Effect, Live
  <2>5. Consistent'
    BY <1>2, <2>1, KeepAddresses, KeepTemplates, KeepAttached, KeepReferences DEF Live, Consistent
  <2> QED BY <1>2, <2>1, <2>2, <2>3, <2>4, <2>5, CommitKeeps DEF Types
<1> QED BY <1>4, <1>5

LEMMA RowsCommitStations ==
  ASSUME RowInv, NEW p \in Proc, CommitStations(p)
  PROVE  RowInv'
<1>1. PICK op \in {"createLayout", "setStations"} :
         /\ Committing(p, op)
         /\ LET l == req[p].x[1]  S == req[p].x[2]
            IN  IF /\ S # {} /\ \A s \in S : Live(s)
                   /\ op = "createLayout" => life[l] = "new"
                THEN /\ att' = [att EXCEPT ![l] = S]
                     /\ life' = IF op = "createLayout" THEN [life EXCEPT ![l] = "live"] ELSE life
                     /\ End(p)
                     /\ UNCHANGED <<veh, own, tfn, mem, lv, lt>>
                ELSE Refuse(p)
  BY DEF CommitStations
<1>2. Types /\ Tables /\ Consistent /\ req[p].pc = "commit" /\ req[p].op = op /\ Kept
  BY <1>1 DEF RowInv, Types, CommitStations, Committing
<1>3. PICK l \in Layout, S \in SUBSET Station : req[p].x = <<l, S>> /\ req[p].on = {l} \cup S
  <2>1. Carries(req[p])
    BY <1>2 DEF Types, Shape
  <2> QED BY <1>2, <2>1 DEF Carries
<1>4. CASE Refuse(p)
  BY <1>2, <1>4, RefuseKeeps
<1>5. CASE ~Refuse(p)
  <2>1. /\ S # {} /\ (\A s \in S : Live(s)) /\ att' = [att EXCEPT ![l] = S]
        /\ life' = IF op = "createLayout" THEN [life EXCEPT ![l] = "live"] ELSE life
        /\ End(p) /\ UNCHANGED <<veh, own, tfn, mem, lv, lt, crossed, torn>>
        /\ l \in Entity /\ l \notin Vehicle \cup Train \cup Station
    BY <1>1, <1>2, <1>3, <1>5, CatalogueAssumption DEF Kept, Entity
  <2>2. Landed(p)
    BY <1>2, <2>1, LandedEnd
  <2>3. Tables'
    BY <1>2, <2>1 DEF Tables
  <2>4. \A e \in Entity : (Live(e) => Live(e)') /\ (e # l => (Live(e)' <=> Live(e)))
    BY <1>2, <2>1 DEF Tables, Live
  <2>5. Effect(p)
    BY <1>2, <1>3, <2>1, <2>4 DEF Effect, Tables
  <2>6. AddressUnique' /\ FollowsTemplate' /\ NoDangling'
    BY <1>2, <2>1, <2>4, KeepAddresses, KeepTemplates, KeepReferences DEF Entity
  <2>7. AttachedExist' /\ KeepsStation'
    BY <1>2, <2>1, <2>4 DEF Consistent, AttachedExist, KeepsStation, Tables, Entity
  <2> QED BY <1>2, <2>1, <2>2, <2>3, <2>5, <2>6, <2>7, CommitKeeps DEF Consistent, Types
<1> QED BY <1>4, <1>5

LEMMA RowsRemoveLayoutRows ==
  ASSUME RowInv, NEW p \in Proc, NEW l \in Layout, RemoveLayoutRows(p, l)
  PROVE  RowInv'
<1>1. /\ Types /\ Tables /\ Consistent /\ req[p].pc = "commit" /\ req[p].op = "deleteLayout"
      /\ req[p].x = l /\ Kept
  BY DEF RowInv, Types, RemoveLayoutRows, Committing
<1>2. CASE ~Live(l)
  BY <1>1, <1>2, RefuseKeeps DEF RemoveLayoutRows
<1>3. CASE Live(l)
  <2>1. /\ life' = [life EXCEPT ![l] = "gone"] /\ lv' = [lv EXCEPT ![l] = {}]
        /\ lt' = [lt EXCEPT ![l] = {}] /\ att' = [att EXCEPT ![l] = {}]
        /\ End(p) /\ UNCHANGED <<veh, own, tfn, mem, crossed, torn>>
        /\ l \in Entity /\ l \notin Vehicle \cup Train \cup Station
    BY <1>1, <1>3, CatalogueAssumption DEF RemoveLayoutRows, Kept, Entity
  <2>2. Landed(p) /\ l \in req[p].on
    <3>1. Carries(req[p])
      BY <1>1 DEF Types, Shape
    <3> QED BY <1>1, <2>1, <3>1, LandedEnd DEF Carries
  <2>3. Tables'
    BY <1>1, <2>1 DEF Tables
  <2>4. ~Live(l)' /\ \A e \in Entity : e # l => (Live(e)' <=> Live(e))
    BY <1>1, <2>1 DEF Tables, Live
  <2>5. Effect(p)
    BY <1>1, <2>1, <2>2, <2>4 DEF Effect, Tables
  <2>6. AddressUnique' /\ FollowsTemplate'
    BY <1>1, <2>1, <2>4, KeepAddresses, KeepTemplates DEF Entity
  <2>7. NoDangling'
    BY <1>1, <2>1, <2>4 DEF Consistent, NoDangling, Entity, Tables
  <2>8. AttachedExist' /\ KeepsStation'
    BY <1>1, <2>1, <2>4 DEF Consistent, AttachedExist, KeepsStation, Tables, Entity
  <2> QED BY <1>1, <2>1, <2>2, <2>3, <2>5, <2>6, <2>7, <2>8, CommitKeeps DEF Consistent, Types
<1> QED BY <1>2, <1>3

LEMMA RowsRemoveStationRows ==
  ASSUME RowInv, NEW p \in Proc, NEW s \in Station, RemoveStationRows(p, s)
  PROVE  RowInv'
<1>1. /\ Types /\ Tables /\ Consistent /\ req[p].pc = "commit" /\ req[p].op = "deleteStation"
      /\ req[p].x = s /\ Kept
  BY DEF RowInv, Types, RemoveStationRows, Committing
<1>2. CASE ~Live(s)
  BY <1>1, <1>2, RefuseKeeps DEF RemoveStationRows
<1>3. CASE Live(s)
  <2>1. /\ life' = [life EXCEPT ![s] = "gone"] /\ att' = [l \in Layout |-> att[l] \ {s}]
        /\ End(p) /\ UNCHANGED <<veh, own, tfn, mem, lv, lt, crossed, torn>>
        /\ s \in Entity /\ s \notin Vehicle \cup Train \cup Layout
    BY <1>1, <1>3, CatalogueAssumption DEF RemoveStationRows, Kept, Entity
  <2>2. Landed(p) /\ s \in req[p].on /\ Layout \subseteq req[p].on
    BY <1>1, <2>1, LandedEnd DEF Types, Shape, Carries
  <2>3. Tables'
    BY <1>1, <2>1 DEF Tables
  <2>4. ~Live(s)' /\ \A e \in Entity : e # s => (Live(e)' <=> Live(e))
    BY <1>1, <2>1 DEF Tables, Live
  <2>5. Effect(p)
    BY <1>1, <2>1, <2>2, <2>4 DEF Effect, Tables
  <2>6. AddressUnique' /\ FollowsTemplate'
    BY <1>1, <2>1, <2>4, KeepAddresses, KeepTemplates DEF Entity
  <2>7. NoDangling'
    BY <1>1, <2>1, <2>4 DEF Consistent, NoDangling, Entity, Tables
  <2>8. AttachedExist'
    BY <1>1, <2>1, <2>4 DEF Consistent, AttachedExist, Tables, Entity
  <2>9. KeepsStation'
    <3>1. \A l \in Layout : att[l] # {s} \/ l \in crossed
      BY <1>1 DEF RowInv, AllChecked, Checked
    <3>2. ASSUME NEW l \in Layout, Live(l)', l \notin crossed PROVE att'[l] # {}
      <4>1. att[l] # {} /\ att[l] # {s}
        BY <1>1, <2>1, <2>4, <3>1, <3>2 DEF Consistent, KeepsStation, Entity
      <4> QED BY <2>1, <4>1
    <3> QED BY <2>1, <3>2 DEF KeepsStation
  <2> QED BY <1>1, <2>1, <2>2, <2>3, <2>5, <2>6, <2>7, <2>8, <2>9, CommitKeeps
       DEF Consistent, Types
<1> QED BY <1>2, <1>3

-----------------------------------------------------------------------------
(***************************************************************************)
(* The publication leaves the rows alone.                                  *)
(***************************************************************************)

\* A request goes on with the same rows and arguments.
Onward(r, n) ==
  /\ n.op = r.op /\ n.on = r.on /\ n.row = r.row /\ n.x = r.x /\ n.solo = r.solo /\ Fields(n)

LEMMA OnwardShape ==
  ASSUME NEW r, NEW n, Shape(r), r.pc # "idle", Onward(r, n),
         n.pc \in {"sync", "publish"}, n.todo \subseteq Layout, n.pc = "publish" => n.at \in n.todo
  PROVE  Shape(n)
<1>1. Carries(n)
  BY DEF Shape, Onward, Carries
<1> QED BY <1>1 DEF Shape, Onward

LEMMA NewPc ==
  ASSUME NEW r, NEW pc, Fields(r)
  PROVE  LET n == [r EXCEPT !.pc = pc]
         IN  Onward(r, n) /\ n.pc = pc /\ n.todo = r.todo /\ n.at = r.at /\ n.view = r.view
  BY DEF Fields, Onward

LEMMA NewTodo ==
  ASSUME NEW r, NEW s, Fields(r)
  PROVE  LET n == [r EXCEPT !.todo = s]
         IN  Onward(r, n) /\ n.pc = r.pc /\ n.todo = s /\ n.at = r.at /\ n.view = r.view
  BY DEF Fields, Onward

LEMMA NewAt ==
  ASSUME NEW r, NEW l, Fields(r)
  PROVE  LET n == [r EXCEPT !.at = l]
         IN  Onward(r, n) /\ n.pc = r.pc /\ n.todo = r.todo /\ n.at = l /\ n.view = r.view
  BY DEF Fields, Onward

LEMMA NewView ==
  ASSUME NEW r, NEW w, Fields(r)
  PROVE  LET n == [r EXCEPT !.view = w]
         IN  Onward(r, n) /\ n.pc = r.pc /\ n.todo = r.todo /\ n.at = r.at /\ n.view = w
  BY DEF Fields, Onward

LEMMA ConcernedType == ASSUME NEW r PROVE Concerned(r) \subseteq Layout
<1>1. \A v : Hosts(v) \subseteq Layout
  BY DEF Hosts
<1>2. UNION {Hosts(v) : v \in r.on} \subseteq Layout
  BY <1>1
<1> QED BY <1>2 DEF Concerned

\* The request goes on with the layouts it has left, or answers.
Onto(p, ls) ==
  \/ ls = {} /\ req'[p] = Idle
  \/ Onward(req[p], req'[p]) /\ req'[p].pc = "sync" /\ req'[p].todo = ls

LEMMA GoOnFacts ==
  ASSUME Types, NEW p \in Proc, req[p].pc \in {"list", "publish"},
         NEW ls \in SUBSET Layout, GoOnWith(p, ls)
  PROVE  Landed(p) /\ Onto(p, ls) /\ req'[p].view = Empty
<1> DEFINE r == req[p]
           k == [r EXCEPT !.pc = "sync"]
           m == [k EXCEPT !.todo = ls]
           o == [m EXCEPT !.at = None]
           e == Empty
           n == [o EXCEPT !.view = e]
<1>1. Shape(r) /\ Fields(r)
  BY DEF Types, Shape
<1>2. CASE ls = {}
  <2>1. End(p)
    BY <1>2 DEF GoOnWith, End
  <2>2. Idle.view = Empty
    BY DEF Idle
  <2> QED BY <1>2, <2>1, <2>2, LandedEnd DEF Onto
<1>3. CASE ls # {}
  <2>1. req' = [req EXCEPT ![p] = n]
    BY <1>3 DEF GoOnWith
  <2> HIDE DEF e
  <2>2. Onward(r, k) /\ k.pc = "sync"
    BY <1>1, NewPc
  <2> HIDE DEF k
  <2>f. Fields(k)
    BY <2>2 DEF Onward
  <2>3. Onward(k, m) /\ m.pc = "sync" /\ m.todo = ls
    BY <2>2, <2>f, NewTodo
  <2> HIDE DEF m
  <2>4. Onward(m, o) /\ o.pc = "sync" /\ o.todo = ls
    BY <2>3, NewAt DEF Onward
  <2> HIDE DEF o
  <2>5. Onward(o, n) /\ n.pc = "sync" /\ n.todo = ls /\ n.view = e
    BY <2>4, NewView DEF Onward
  <2> HIDE DEF n
  <2>6. Onward(r, n)
    BY <2>2, <2>3, <2>4, <2>5 DEF Onward
  <2>7. Shape(n)
    BY <1>1, <2>5, <2>6, OnwardShape
  <2>8. /\ OthersSame(p) /\ req'[p] = n
        /\ req' = [q \in Proc |-> req'[q]] /\ \A q \in Proc : Shape(req'[q])
    BY <2>1, <2>7, ReqUpdate
  <2>9. Landed(p)
    BY <2>5, <2>6, <2>8 DEF Landed, Onward
  <2> QED BY <2>5, <2>6, <2>8, <2>9 DEF Onto, e
<1> QED BY <1>2, <1>3

\* What an error leaves unpublished is some of the layouts.
LEMMA UnpublishedType ==
  ASSUME NEW r, NEW ls \in SUBSET Layout, NEW S \in Unpublished(r, ls)
  PROVE  S \in SUBSET ls
  BY DEF Unpublished

\* The layouts are looked up, or one is published.
LEMMA SettleFacts ==
  ASSUME Types, NEW p \in Proc, NEW ls, ls = IF Publish(p) THEN req[p].todo \ {req[p].at}
                                              ELSE Concerned(req[p]),
         ListLayouts(p) \/ Publish(p)
  PROVE  /\ Landed(p) /\ Onto(p, ls) /\ req'[p].view = Empty /\ UNCHANGED <<tables, crossed>>
         /\ ls \subseteq Layout
         /\ Publish(p) => req[p].pc = "publish" /\ req[p].at \in Layout
         /\ ~Publish(p) => req[p].pc = "list" /\ UNCHANGED <<snap, torn>>
<1>1. CASE Publish(p)
  <2>1. req[p].pc = "publish" /\ UNCHANGED <<tables, crossed>> /\ GoOnWith(p, ls)
    BY <1>1 DEF Publish
  <2>2. req[p].at \in Layout /\ req[p].todo \subseteq Layout
    BY <2>1 DEF Types, Shape
  <2>3. ls \in SUBSET Layout
    BY <1>1, <2>2
  <2> QED BY <1>1, <2>1, <2>2, <2>3, GoOnFacts
<1>2. CASE ~Publish(p)
  <2>1. /\ req[p].pc = "list" /\ UNCHANGED <<tables, snap, crossed, torn>>
        /\ GoOnWith(p, ls)
    BY <1>2 DEF ListLayouts, Kept
  <2>2. ls \in SUBSET Layout
    BY <1>2, ConcernedType
  <2> QED BY <1>2, <2>1, <2>2, GoOnFacts
<1> QED BY <1>1, <1>2

\* An error puts some layouts S on record and goes on with ls.
Drops(p, S, ls) ==
  /\ torn' = torn \cup S /\ Landed(p) /\ Onto(p, ls) /\ req'[p].view = Empty
  /\ UNCHANGED <<tables, crossed>>
  /\ \/ /\ req[p].pc = "publish" /\ req[p].at \in S /\ ls = req[p].todo \ S
     \/ /\ req[p].pc = "list" /\ snap' = snap /\ ls = Concerned(req[p]) \ S

LEMMA DropFacts ==
  ASSUME Types, NEW p \in Proc, PublishFails(p) \/ ListFails(p)
  PROVE  \E S, ls \in SUBSET Layout : Drops(p, S, ls)
<1>1. CASE PublishFails(p)
  <2>1. req[p].pc = "publish" /\ UNCHANGED <<tables, crossed>>
    BY <1>1 DEF PublishFails
  <2>2. req[p].at \in Layout /\ req[p].todo \in SUBSET Layout
    BY <2>1 DEF Types, Shape
  <2>3. PICK U : /\ U = {} \/ U \in Unpublished(req[p], req[p].todo)
                 /\ torn' = torn \cup U \cup {req[p].at}
                 /\ GoOnWith(p, req[p].todo \ (U \cup {req[p].at}))
    BY <1>1 DEF PublishFails
  <2>4. U \in SUBSET Layout
    BY <2>2, <2>3, UnpublishedType
  <2>5. PICK S \in SUBSET Layout : S = U \cup {req[p].at}
    BY <2>2, <2>4
  <2>6. PICK ls \in SUBSET Layout : ls = req[p].todo \ S
    BY <2>2
  <2>7. GoOnWith(p, ls) /\ torn' = torn \cup S
    BY <2>3, <2>5, <2>6
  <2>8. Landed(p) /\ Onto(p, ls) /\ req'[p].view = Empty
    BY <2>1, <2>7, GoOnFacts
  <2> QED BY <2>1, <2>5, <2>6, <2>7, <2>8 DEF Drops
<1>2. CASE ListFails(p)
  <2>1. req[p].pc = "list" /\ UNCHANGED <<tables, snap, crossed>>
    BY <1>2 DEF ListFails
  <2>2. PICK U \in Unpublished(req[p], Concerned(req[p])) :
          torn' = torn \cup U /\ GoOnWith(p, Concerned(req[p]) \ U)
    BY <1>2 DEF ListFails
  <2>3. Concerned(req[p]) \in SUBSET Layout
    BY ConcernedType
  <2>4. U \in SUBSET Layout
    BY <2>2, <2>3, UnpublishedType
  <2>5. PICK ls \in SUBSET Layout : ls = Concerned(req[p]) \ U
    BY <2>3
  <2>6. GoOnWith(p, ls)
    BY <2>2, <2>5
  <2>7. Landed(p) /\ Onto(p, ls) /\ req'[p].view = Empty
    BY <2>1, <2>6, GoOnFacts
  <2> QED BY <2>1, <2>2, <2>4, <2>5, <2>7 DEF Drops
<1> QED BY <1>1, <1>2

LEMMA ReadFacts ==
  ASSUME Types, NEW p \in Proc, NEW l \in Layout, ReadRoster(p, l)
  PROVE  /\ Landed(p) /\ UNCHANGED <<tables, snap, crossed, torn>>
         /\ Onward(req[p], req'[p]) /\ req'[p].pc = "publish" /\ req'[p].todo = req[p].todo
         /\ req'[p].at = l /\ req'[p].view = View(l)
<1> DEFINE r == req[p]
           w == View(l)
           k == [r EXCEPT !.pc = "publish"]
           m == [k EXCEPT !.at = l]
           n == [m EXCEPT !.view = w]
<1>1. /\ Shape(r) /\ Fields(r) /\ r.pc = "sync" /\ l \in r.todo
      /\ UNCHANGED <<tables, snap, crossed, torn>>
  BY DEF Types, Shape, ReadRoster, Kept
<1>2. req' = [req EXCEPT ![p] = n]
  BY DEF ReadRoster, Types
<1> HIDE DEF w
<1>3. Onward(r, k) /\ k.pc = "publish" /\ k.todo = r.todo
  BY <1>1, NewPc
<1> HIDE DEF k
<1>4. Onward(k, m) /\ m.pc = "publish" /\ m.todo = r.todo /\ m.at = l
  BY <1>3, NewAt DEF Onward
<1> HIDE DEF m
<1>5. Onward(m, n) /\ n.pc = "publish" /\ n.todo = r.todo /\ n.at = l /\ n.view = w
  BY <1>4, NewView DEF Onward
<1> HIDE DEF n
<1>6. Onward(r, n)
  BY <1>3, <1>4, <1>5 DEF Onward
<1>7. Shape(n)
  <2>1. r.todo \subseteq Layout
    BY <1>1 DEF Shape
  <2> QED BY <1>1, <1>5, <1>6, <2>1, OnwardShape
<1>8. /\ OthersSame(p) /\ req'[p] = n
      /\ req' = [q \in Proc |-> req'[q]] /\ \A q \in Proc : Shape(req'[q])
  BY <1>2, <1>7, ReqUpdate
<1>9. Landed(p)
  BY <1>5, <1>6, <1>8 DEF Landed, Onward
<1> QED BY <1>1, <1>5, <1>6, <1>8, <1>9 DEF w

LEMMA RowsSyncStep ==
  ASSUME RowInv, NEW p \in Proc, SyncStep(p)
  PROVE  RowInv'
<1>1. Types /\ torn \subseteq Layout
  BY DEF RowInv, Types
<1>2. CASE ListLayouts(p)
  <2>1. PICK ls : ls = IF Publish(p) THEN req[p].todo \ {req[p].at} ELSE Concerned(req[p])
    OBVIOUS
  <2>2. Landed(p) /\ UNCHANGED <<tables, crossed>>
    BY <1>1, <1>2, <2>1, SettleFacts
  <2>3. torn' \subseteq Layout
    BY <1>1, <1>2 DEF ListLayouts, Kept
  <2> QED BY <2>2, <2>3, QuietKeeps
<1>3. CASE NothingToSync(p)
  BY <1>1, <1>3, LandedEnd, QuietKeeps DEF NothingToSync, Kept
<1>4. CASE \E l \in Layout : ReadRoster(p, l)
  BY <1>1, <1>4, ReadFacts, QuietKeeps
<1>5. CASE Publish(p)
  <2>1. PICK ls : ls = IF Publish(p) THEN req[p].todo \ {req[p].at} ELSE Concerned(req[p])
    OBVIOUS
  <2>2. Landed(p) /\ UNCHANGED <<tables, crossed>> /\ req[p].at \in Layout
    BY <1>1, <1>5, <2>1, SettleFacts
  <2>3. torn' \subseteq Layout
    BY <1>1, <1>5, <2>2 DEF Publish
  <2> QED BY <2>2, <2>3, QuietKeeps
<1>6. CASE PublishFails(p) \/ ListFails(p)
  <2>1. PICK S, ls \in SUBSET Layout : Drops(p, S, ls)
    BY <1>1, <1>6, DropFacts
  <2>2. torn' \subseteq Layout /\ Landed(p) /\ UNCHANGED <<tables, crossed>>
    BY <1>1, <2>1 DEF Drops
  <2> QED BY <2>2, QuietKeeps
<1> QED BY <1>2, <1>3, <1>4, <1>5, <1>6 DEF SyncStep

LEMMA RowsCommit ==
  ASSUME RowInv, NEW p \in Proc, Commit(p)
  PROVE  RowInv'
  BY RowsInsertVehicle, RowsRemoveVehicleRows, RowsCommitSlot, RowsReplaceFunctions,
     RowsReplaceMembers, RowsRemoveTrainRows, RowsRemoveLayoutRows, RowsRemoveStationRows,
     RowsStoreVehicle, RowsClearRows, RowsJoinVehicle, RowsJoinTrain, RowsCommitTemplate,
     RowsCommitStations DEF Commit

LEMMA RowsRequest ==
  ASSUME RowInv, NEW p \in Proc,
         \/ VehicleRequest(p) \/ TrainRequest(p) \/ RosterRequest(p)
         \/ FunctionRequest(p) \/ LayoutRequest(p) \/ StationRequest(p)
  PROVE  RowInv'
<1>1. CASE VehicleRequest(p)
  <2>1. ASSUME NEW v \in Vehicle, NEW a \in Addr \cup {None}, UpsertByExternalID(p, v, a)
        PROVE  RowInv'
    <3>1. a \in Addr \cup {None, Keep}
      OBVIOUS
    <3> QED BY <2>1, <3>1, RowsCreateVehicle, RowsUpdateVehicle DEF UpsertByExternalID
  <2>2. ASSUME NEW v \in Vehicle, UpdateVehicle(p, v, Keep) PROVE RowInv'
    <3>1. Keep \in Addr \cup {None, Keep}
      OBVIOUS
    <3> QED BY <2>2, <3>1, RowsUpdateVehicle
  <2>3. ASSUME NEW v \in Vehicle, DeleteByExternalID(p, v) PROVE RowInv'
    BY <2>3, RowsDeleteVehicle DEF DeleteByExternalID
  <2>4. ASSUME NEW vs \in SUBSET Vehicle, ClearDCCAddresses(p, vs) PROVE RowInv'
    BY <2>4, RowsClearDCCAddresses
  <2> QED BY <1>1, <2>1, <2>2, <2>3, <2>4 DEF VehicleRequest
<1>2. CASE TrainRequest(p)
  BY <1>2, RowsCreateTrain, RowsUpdateTrain, RowsDeleteTrain DEF TrainRequest
<1>3. CASE RosterRequest(p)
  BY <1>3, RowsAddTrain, RowsRemoveTrain, RowsAddVehicle, RowsRemoveVehicle DEF RosterRequest
<1>4. CASE FunctionRequest(p)
  BY <1>4, RowsEditSlot, RowsAttachVehicleToTemplate, RowsCopyVehicleFunctionsFromVehicle,
     RowsEditTemplate DEF FunctionRequest
<1>5. CASE LayoutRequest(p)
  BY <1>5, RowsCreateLayout, RowsSetCommandStations, RowsDeleteLayout DEF LayoutRequest
<1>6. CASE StationRequest(p)
  BY <1>6, RowsDeleteStation DEF StationRequest
<1> QED BY <1>1, <1>2, <1>3, <1>4, <1>5, <1>6

LEMMA RowsInit == Init => RowInv
<1> SUFFICES ASSUME Init PROVE RowInv
  OBVIOUS
<1>1. PICK V \in {S \in SUBSET Vehicle : S # {}}, L \in {{}, Layout}, T \in SUBSET Train,
           a \in [Vehicle -> Addr], m \in Template :
         /\ T = {} <=> V # Vehicle
         /\ \A v, w \in Vehicle : v # w => a[v] # a[w]
         /\ life = [x \in Entity |-> IF x \in V \cup L \cup T \cup Station THEN "live" ELSE "new"]
         /\ veh = [v \in Vehicle |-> [addr |-> IF v \in V THEN a[v] ELSE None,
                                      tmpl |-> IF v \in V THEN m ELSE None, det |-> FALSE]]
         /\ own = [v \in Vehicle |-> {}]
         /\ tfn = [n \in Template |-> Num]
         /\ mem = [t \in Train |-> IF t \in T THEN V ELSE {}]
         /\ lv = [l \in Layout |-> IF l \in L /\ T = {} THEN V ELSE {}]
         /\ lt = [l \in Layout |-> IF l \in L THEN T ELSE {}]
         /\ att = [l \in Layout |-> IF l \in L THEN Station ELSE {}]
  BY DEF Init
<1>2. req = [p \in Proc |-> Idle] /\ crossed = {} /\ torn = {}
  BY DEF Init
<1>3. \A x \in Entity : Live(x) <=> x \in V \cup L \cup T \cup Station
  BY <1>1 DEF Live
<1>4. Tables
  BY <1>1 DEF Tables, Row
<1>5. Types
  BY <1>2, <1>4, IdleShape DEF Types
<1>6. Crossing /\ AllChecked
  BY <1>2, IdleShape DEF Crossing, AllChecked, Checked
<1>7. AddressUnique
  <2>1. \A v \in Vehicle : Live(v) => v \in V /\ veh[v].addr = a[v]
    BY <1>1, <1>3, CatalogueAssumption DEF Entity
  <2> QED BY <1>1, <2>1 DEF AddressUnique
<1>8. NoDangling
  BY <1>1, <1>3 DEF NoDangling, Entity
<1>9. AttachedExist
  BY <1>1, <1>3 DEF AttachedExist, Entity
<1>10. KeepsStation
  BY <1>1, <1>3, CatalogueAssumption DEF KeepsStation, Entity
<1>11. FollowsTemplate
  BY <1>1 DEF FollowsTemplate
<1> QED BY <1>5, <1>6, <1>7, <1>8, <1>9, <1>10, <1>11 DEF RowInv, Consistent

LEMMA RowsNext ==
  ASSUME RowInv, [Next]_vars
  PROVE  RowInv'
<1>1. CASE UNCHANGED vars
  BY <1>1 DEF vars, RowInv, Types, Tables, Crossing, AllChecked, Checked, Consistent, AddressUnique,
     NoDangling, AttachedExist, KeepsStation, FollowsTemplate, Live
<1>2. CASE Next
  BY <1>2, RowsRequest, RowsCommit, RowsSyncStep DEF Next
<1> QED BY <1>1, <1>2

LEMMA RowsAlways == Spec => []RowInv
<1>1. RowInv /\ [Next]_vars => RowInv'
  BY RowsNext
<1> QED BY RowsInit, <1>1, PTL DEF Spec

\* The rows stay consistent, whatever requests overlap (vehicle.go, train.go,
\* layout.go, command_station.go): unique addresses, no reference to a row
\* that is gone unless two requests worked on it at once, stations that exist
\* and, but for such an overlap, one at least for every layout.
THEOREM RowsStaySound == Spec => []RowsSound
<1>1. RowInv => RowsSound
  BY DEF RowInv, Types, Tables, Shape, Consistent, RowsSound, TypeOK
<1> QED BY RowsAlways, <1>1, PTL

\* A vehicle that follows its template has no slots of its own (function.go).
THEOREM TemplatesFollowed == Spec => []FollowsTemplate
<1>1. RowInv => FollowsTemplate
  BY DEF RowInv, Consistent
<1> QED BY RowsAlways, <1>1, PTL

-----------------------------------------------------------------------------
(***************************************************************************)
(* Snapshots.  A request that changed what a layout shows owes it a        *)
(* publication; the invariant is that a snapshot differs from the tables   *)
(* only while somebody owes the layout one, or a publication of it went    *)
(* wrong and is on record.                                                 *)
(***************************************************************************)
Full(r) == r.op \notin FunctionOps

Carried(v, l) == v \in lv[l] \/ \E t \in lt[l] : v \in mem[t]

\* The layouts the request will find when it lists them now.
Touches(r, l) ==
  \/ r.op \in {"updateVehicle", "clearDCC"} /\ \E v \in r.on : Carried(v, l)
  \/ r.op \in {"createTrain", "updateTrain"} /\ r.x[1] \in lt[l]
  \/ r.op \in TemplateOps /\ \E v \in lv[l] : Live(v) /\ veh[v].tmpl = r.x[1] /\ ~veh[v].det
  \/ /\ r.op \notin {"updateVehicle", "clearDCC", "createTrain", "updateTrain"} \cup TemplateOps
     /\ r.on \cap lv[l] # {}

Syncing(r, l) == r.pc \in {"sync", "publish"} /\ l \in r.todo

Owes(r, l) == Syncing(r, l) \/ (r.pc = "list" /\ Touches(r, l))

\* A debt nothing but a publication settles, and any debt of all three parts.
Firm(l) == l \in torn \/ \E p \in Proc : Full(req[p]) /\ Syncing(req[p], l)
Marked(l) == l \in torn \/ \E p \in Proc : Full(req[p]) /\ Owes(req[p], l)

VehicleView(l) == {<<v, veh[v].addr>> : v \in Drivable(l)}

IsView(w) == w = [vehicles |-> w.vehicles, trains |-> w.trains, functions |-> w.functions]

Told(l) ==
  \/ Marked(l)
  \/ /\ snap[l].vehicles = VehicleView(l) /\ snap[l].trains = TrainView(l)
     /\ snap[l].functions = FunctionView(l) \/ \E p \in Proc : Owes(req[p], l)

\* Nothing refers to a vehicle that was not created yet.
Refers(r, v) ==
  /\ r.pc = "commit"
  /\ \/ r.op \in Loading \cap FunctionOps /\ v \in r.on
     \/ r.op = "addVehicle" /\ v = r.x[2]
     \/ r.op \in {"createTrain", "updateTrain"} /\ v \in r.x[2]

Unborn(v) ==
  /\ \A l \in Layout : v \notin lv[l]
  /\ \A t \in Train : v \notin mem[t]
  /\ \A p \in Proc : ~Refers(req[p], v)

NotYet == \A v \in Vehicle : life[v] = "new" => Unborn(v)

\* A request that is alone saw all the others idle.
Alone == \A p \in Proc :
           req[p].pc # "idle" /\ req[p].solo => \A q \in Proc \ {p} : req[q].pc = "idle"

Fresh == \A p \in Proc : req[p].pc = "publish" /\ req[p].solo => req[p].view = View(req[p].at)

\* What a transaction is about to take away from a layout is owed by then.
Owing(r) ==
  r.pc = "commit" =>
    /\ r.op = "deleteVehicle" => \A v \in r.on, l \in Layout :
         /\ v \in lv[l] => l \in r.todo \/ Firm(l)
         /\ \A t \in lt[l] : v \in mem[t] => Marked(l)
    /\ r.op = "deleteTrain" => \A l \in Layout : r.x \in lt[l] => l \in r.todo \/ Firm(l)
    /\ r.op \in Loading \cap FunctionOps => \A v \in r.on, l \in Layout :
         r.row[v].addr # veh[v].addr /\ Carried(v, l) => Marked(l)

Views == /\ snap = [l \in Layout |-> snap[l]] /\ \A l \in Layout : IsView(snap[l])
         /\ \A p \in Proc : IsView(req[p].view)

SnapInv == /\ Views /\ NotYet /\ Alone /\ Fresh /\ \A p \in Proc : Owing(req[p])
           /\ \A l \in Layout : life[l] # "gone" => Told(l)

-----------------------------------------------------------------------------
(***************************************************************************)
(* What a layout's snapshot depends on.                                    *)
(***************************************************************************)
Hosting(l) == lv'[l] = lv[l] /\ lt'[l] = lt[l] /\ \A t \in lt[l] : mem'[t] = mem[t]

Steady(l) ==
  /\ \A v \in Vehicle : Carried(v, l) => life'[v] = life[v] /\ veh'[v].addr = veh[v].addr
  /\ \A t \in lt[l] : life'[t] = life[t]

Tuned(l) ==
  \A v \in lv[l] : /\ life'[v] = life[v] /\ veh'[v] = veh[v]
                   /\ Live(v) => Functions(v)' = Functions(v)

LEMMA VehiclesSame ==
  ASSUME Tables, NEW l \in Layout, Hosting(l), Steady(l)
  PROVE  Drivable(l)' = Drivable(l) /\ VehicleView(l)' = VehicleView(l)
<1>1. lv[l] \subseteq Vehicle
  BY DEF Tables
<1>2. \A v \in lv[l] : (Live(v)' <=> Live(v)) /\ veh'[v].addr = veh[v].addr
  BY <1>1 DEF Steady, Carried, Live
<1>3. Drivable(l)' = Drivable(l)
  BY <1>2 DEF Hosting, Drivable
<1>4. \A v \in Drivable(l) : veh'[v].addr = veh[v].addr
  BY <1>2 DEF Drivable
<1> QED BY <1>3, <1>4 DEF VehicleView

LEMMA TrainsSame ==
  ASSUME Tables, NEW l \in Layout, Hosting(l), Steady(l)
  PROVE  TrainView(l)' = TrainView(l)
<1> DEFINE F(t) == {<<t, v, IF Live(v) THEN veh[v].addr ELSE None>> : v \in mem[t]}
           G(t) == {<<t, v, IF Live(v)' THEN veh'[v].addr ELSE None>> : v \in mem'[t]}
           U == {u \in lt[l] : Live(u)}
           W == {u \in lt'[l] : Live(u)'}
<1>1. lt[l] \subseteq Train /\ \A t \in Train : mem[t] \subseteq Vehicle
  BY DEF Tables
<1>2. W = U
  BY DEF Hosting, Steady, Live
<1>3. ASSUME NEW t \in lt[l] PROVE G(t) = F(t)
  <2>1. mem'[t] = mem[t] /\ \A v \in mem[t] : (Live(v)' <=> Live(v)) /\ veh'[v].addr = veh[v].addr
    BY <1>1 DEF Hosting, Steady, Carried, Live
  <2> QED BY <2>1
<1>4. TrainView(l) = UNION {F(t) : t \in U} /\ TrainView(l)' = UNION {G(t) : t \in W}
  BY DEF TrainView
<1>5. \A t \in U : t \in lt[l]
  OBVIOUS
<1> HIDE DEF F, G, U, W
<1>6. {G(t) : t \in W} = {F(t) : t \in U}
  BY <1>2, <1>3, <1>5
<1> QED BY <1>4, <1>6

LEMMA FunctionsSame ==
  ASSUME Tables, NEW l \in Layout, Hosting(l), Tuned(l)
  PROVE  FunctionView(l)' = FunctionView(l)
<1>1. \A v \in lv[l] : (Live(v)' <=> Live(v)) /\ veh'[v] = veh[v]
  BY DEF Tuned, Live
<1>2. Drivable(l)' = Drivable(l)
  BY <1>1 DEF Hosting, Drivable
<1> DEFINE D == {w \in Drivable(l) : Functions(w) # {}}
           E == {w \in Drivable(l)' : Functions(w)' # {}}
<1>3. \A v \in Drivable(l) : Functions(v)' = Functions(v)
  BY DEF Drivable, Tuned
<1>4. E = D /\ D \subseteq Drivable(l)
  BY <1>2, <1>3
<1>5. FunctionView(l) = {<<v, Functions(v)>> : v \in D}
  BY DEF FunctionView
<1>6. FunctionView(l)' = {<<v, Functions(v)'>> : v \in E}
  BY DEF FunctionView
<1> HIDE DEF D, E
<1> QED BY <1>3, <1>4, <1>5, <1>6

LEMMA CarriedKept ==
  ASSUME NEW l \in Layout, Hosting(l), NEW v
  PROVE  Carried(v, l)' <=> Carried(v, l)
  BY DEF Hosting, Carried

LEMMA OwesKept ==
  ASSUME NEW q \in Proc, NEW l \in Layout, Same(req[q], req'[q]), Hosting(l), Owes(req[q], l),
         Full(req[q]) \/ Tuned(l)
  PROVE  Owes(req[q], l)'
<1> DEFINE r == req[q]
           n == req'[q]
<1>1. CASE Syncing(r, l)
  BY <1>1 DEF Same, Syncing, Owes
<1>2. CASE r.pc = "list" /\ Touches(r, l)
  <2>1. lv'[l] = lv[l] /\ lt'[l] = lt[l] /\ n.op = r.op /\ n.on = r.on /\ n.x = r.x /\ n.pc = r.pc
    BY DEF Hosting, Same
  <2>2. CASE r.op \in {"updateVehicle", "clearDCC"}
    <3>1. PICK v \in r.on : Carried(v, l)
      BY <1>2, <2>2 DEF Touches, TemplateOps
    <3>2. Carried(v, l)'
      BY <3>1, CarriedKept
    <3> QED BY <1>2, <2>1, <2>2, <3>2 DEF Owes, Touches
  <2>3. CASE r.op \in {"createTrain", "updateTrain"}
    <3>1. r.x[1] \in lt[l]
      BY <1>2, <2>3 DEF Touches, TemplateOps
    <3> QED BY <1>2, <2>1, <2>3, <3>1 DEF Owes, Touches
  <2>4. CASE r.op \in TemplateOps
    <3>1. Tuned(l)
      BY <2>4 DEF Full, FunctionOps
    <3>2. PICK v \in lv[l] : Live(v) /\ veh[v].tmpl = r.x[1] /\ ~veh[v].det
      BY <1>2, <2>4 DEF Touches, TemplateOps
    <3>3. v \in lv'[l] /\ Live(v)' /\ veh'[v].tmpl = n.x[1] /\ ~veh'[v].det
      BY <2>1, <3>1, <3>2 DEF Tuned, Live
    <3> QED BY <1>2, <2>1, <2>4, <3>3 DEF Owes, Touches
  <2>5. CASE r.op \notin {"updateVehicle", "clearDCC", "createTrain", "updateTrain"} \cup TemplateOps
    BY <1>2, <2>1, <2>5 DEF Owes, Touches
  <2> QED BY <2>2, <2>3, <2>4, <2>5
<1> QED BY <1>1, <1>2 DEF Owes

LEMMA FirmKept ==
  ASSUME Types, NEW p \in Proc, OthersSame(p), req[p].pc = "commit", torn' = torn,
         NEW l \in Layout, Firm(l)
  PROVE  Firm(l)'
  BY DEF Firm, OthersSame, Full, Syncing

LEMMA MarkedKept ==
  ASSUME Types, NEW p \in Proc, OthersSame(p), req[p].pc = "commit", torn' = torn,
         NEW l \in Layout, Hosting(l), Marked(l)
  PROVE  Marked(l)'
<1>1. CASE l \in torn
  BY <1>1 DEF Marked
<1>2. CASE l \notin torn
  <2>1. PICK q \in Proc : Full(req[q]) /\ Owes(req[q], l)
    BY <1>2 DEF Marked
  <2>2. q # p
    BY <2>1 DEF Owes, Syncing
  <2>3. req'[q] = req[q]
    BY <2>2 DEF OthersSame
  <2>4. Owes(req[q], l)' /\ Full(req[q])'
    BY <2>1, <2>3, OwesKept DEF Same, Full
  <2> QED BY <2>4 DEF Marked
<1> QED BY <1>1, <1>2

LEMMA FirmMarked == ASSUME NEW l \in Layout, Firm(l)' PROVE Marked(l)'
  BY DEF Firm, Marked, Owes

\* What becomes of a layout in the transaction of p.
Emptied(l) == lv'[l] = {} /\ lt'[l] = {} /\ life'[l] = "gone"

Settled(p, l) ==
  \/ Marked(l)'
  \/ Emptied(l)
  \/ Hosting(l) /\ (Steady(l) \/ Marked(l)) /\ (Owes(req[p], l)' \/ Tuned(l))

\* Who joins a layout, and who changes an address, marks it.
Joins == /\ \A l \in Layout : \A v \in lv'[l] : v \in lv[l] \/ Firm(l)'
         /\ \A l \in Layout : \A t \in lt'[l] : t \in lt[l] \/ Firm(l)'

Readdressed == \A v \in Vehicle, l \in Layout :
                 life[v] # "new" /\ veh'[v].addr # veh[v].addr /\ Carried(v, l)' => Marked(l)'

LEMMA ToldKept ==
  ASSUME RowInv, NEW p \in Proc, OthersSame(p), req[p].pc = "commit", UNCHANGED <<snap, torn>>,
         NEW l \in Layout, Told(l), Settled(p, l), life'[l] # "gone"
  PROVE  Told(l)'
<1>1. Types /\ Tables
  BY DEF RowInv, Types
<1>2. CASE Marked(l)'
  BY <1>2 DEF Told
<1>3. CASE Hosting(l) /\ Marked(l)
  BY <1>1, <1>3, MarkedKept DEF Told
<1>4. CASE Hosting(l) /\ Steady(l) /\ ~Marked(l) /\ (Owes(req[p], l)' \/ Tuned(l))
  <2>1. snap'[l].vehicles = VehicleView(l)' /\ snap'[l].trains = TrainView(l)'
    BY <1>1, <1>4, VehiclesSame, TrainsSame DEF Told
  <2>2. CASE Owes(req[p], l)'
    BY <2>1, <2>2 DEF Told
  <2>3. CASE Tuned(l) /\ snap[l].functions = FunctionView(l)
    <3>1. snap'[l].functions = FunctionView(l)'
      BY <1>1, <1>4, <2>3, FunctionsSame
    <3> QED BY <2>1, <3>1 DEF Told
  <2>4. CASE Tuned(l) /\ \E q \in Proc : Owes(req[q], l)
    <3>1. PICK q \in Proc : Owes(req[q], l)
      BY <2>4
    <3>2. q # p
      BY <3>1 DEF Owes, Syncing
    <3>3. req'[q] = req[q]
      BY <3>2 DEF OthersSame
    <3>4. Owes(req[q], l)'
      BY <1>4, <2>4, <3>1, <3>3, OwesKept DEF Same
    <3> QED BY <2>1, <3>4 DEF Told
  <2> QED BY <1>4, <2>2, <2>3, <2>4 DEF Told
<1> QED BY <1>2, <1>3, <1>4 DEF Settled, Emptied

LEMMA OwingKept ==
  ASSUME RowInv, NEW p \in Proc, OthersSame(p), req[p].pc = "commit", torn' = torn, NotYet,
         \A l \in Layout : Settled(p, l), Joins, Readdressed,
         NEW q \in Proc \ {p}, Owing(req[q])
  PROVE  Owing(req[q])'
<1>1. Types /\ Tables
  BY DEF RowInv, Types
<1> DEFINE r == req[q]
<1>2. req'[q] = r
  BY DEF OthersSame
<1>3. SUFFICES ASSUME r.pc = "commit" PROVE Owing(req[q])'
  BY <1>2 DEF Owing
<1>4. Owing(r) /\ Carries(r)
  BY <1>1, <1>3 DEF Types, Shape
<1> HIDE DEF r
<1>5. ASSUME NEW l \in Layout PROVE Firm(l) => Firm(l)'
  BY <1>1, FirmKept
<1>6. ASSUME NEW l \in Layout, NEW v, Carried(v, l)', Carried(v, l) => Marked(l)
      PROVE  Marked(l)'
  <2>1. CASE Hosting(l)
    BY <1>1, <1>6, <2>1, CarriedKept, MarkedKept
  <2>2. CASE ~Hosting(l)
    BY <1>6, <2>2 DEF Settled, Emptied, Carried
  <2> QED BY <2>1, <2>2
<1>7. ASSUME r.op = "deleteVehicle", NEW v \in r.on, NEW l \in Layout
      PROVE  /\ v \in lv'[l] => l \in r.todo \/ Firm(l)'
             /\ \A t \in lt'[l] : v \in mem'[t] => Marked(l)'
  <2>1. v \in lv[l] => l \in r.todo \/ Firm(l)
    BY <1>3, <1>4, <1>7 DEF Owing
  <2>2. v \in lv'[l] => l \in r.todo \/ Firm(l)'
    BY <1>5, <2>1 DEF Joins
  <2>3. ASSUME NEW t \in lt'[l], v \in mem'[t] PROVE Marked(l)'
    <3>1. CASE Hosting(l)
      <4>1. t \in lt[l] /\ v \in mem[t]
        BY <2>3, <3>1 DEF Hosting
      <4>2. Marked(l)
        BY <1>3, <1>4, <1>7, <4>1 DEF Owing
      <4> QED BY <1>1, <3>1, <4>2, MarkedKept
    <3>2. CASE ~Hosting(l)
      BY <2>3, <3>2 DEF Settled, Emptied
    <3> QED BY <3>1, <3>2
  <2> QED BY <2>2, <2>3
<1>8. ASSUME r.op = "deleteTrain", NEW l \in Layout, r.x \in lt'[l]
      PROVE  l \in r.todo \/ Firm(l)'
  BY <1>3, <1>4, <1>5, <1>8 DEF Owing, Joins
<1>9. ASSUME r.op \in Loading \cap FunctionOps, NEW v \in r.on, NEW l \in Layout,
             r.row[v].addr # veh'[v].addr, Carried(v, l)'
      PROVE  Marked(l)'
  <2>1. v \in Vehicle /\ life[v] # "new"
    <3>1. r.on \subseteq Vehicle
      BY <1>4, <1>9 DEF Carries, Loading, FunctionOps
    <3> QED BY <1>3, <1>9, <3>1 DEF NotYet, Unborn, Refers, r
  <2>2. CASE veh'[v].addr # veh[v].addr
    BY <1>9, <2>1, <2>2 DEF Readdressed
  <2>3. CASE veh'[v].addr = veh[v].addr
    BY <1>3, <1>4, <1>6, <1>9, <2>3 DEF Owing
  <2> QED BY <2>2, <2>3
<1> QED BY <1>2, <1>3, <1>7, <1>8, <1>9 DEF Owing, r

\* A request that has committed, and goes on or has answered.
Committed(p) ==
  /\ Landed(p) /\ req[p].pc = "commit" /\ (req'[p] = Idle \/ SameRest(p))
  /\ req'[p].pc \in {"idle", "list", "sync"} /\ UNCHANGED <<snap, torn>>

LEMMA CommittedEnd ==
  ASSUME Types, NEW p \in Proc, End(p), req[p].pc = "commit", UNCHANGED <<snap, torn>>
  PROVE  Committed(p) /\ req'[p] = Idle
  BY LandedEnd, IdleShape DEF Committed

LEMMA CommittedTo ==
  ASSUME Types, NEW p \in Proc, NEW pc \in {"list", "sync"}, To(p, pc), req[p].pc = "commit",
         UNCHANGED <<snap, torn>>
  PROVE  Committed(p) /\ SameRest(p) /\ req'[p].pc = pc
  BY LandedTo DEF Committed

LEMMA CommitSnap ==
  ASSUME RowInv, SnapInv, NEW p \in Proc, Committed(p),
         \A l \in Layout : Settled(p, l), Joins, Readdressed, NotYet',
         \A l \in Layout : life[l] = "gone" => life'[l] = "gone"
  PROVE  SnapInv'
<1>1. Types /\ OthersSame(p) /\ Landed(p) /\ req[p].pc = "commit"
  BY DEF RowInv, Committed, Landed
<1>2. Views'
  <2>1. IsView(req'[p].view)
    <3>1. IsView(Empty) /\ Idle.view = Empty
      BY DEF IsView, Empty, Idle
    <3> QED BY <3>1 DEF SnapInv, Views, Committed, SameRest
  <2>2. \A q \in Proc : IsView(req'[q].view)
    BY <1>1, <2>1 DEF SnapInv, Views, OthersSame
  <2> QED BY <2>2 DEF SnapInv, Views, Committed
<1>3. Alone'
  <2>1. ASSUME NEW q \in Proc, NEW s \in Proc \ {q}, req'[q].pc # "idle", req'[q].solo
        PROVE  req'[s].pc = "idle"
    <3>1. CASE q = p
      <4>1. req[p].solo
        BY <2>1, <3>1, IdleShape DEF Committed, SameRest
      <4> QED BY <1>1, <2>1, <3>1, <4>1 DEF SnapInv, Alone, OthersSame
    <3>2. CASE q # p
      BY <1>1, <2>1, <3>2 DEF SnapInv, Alone, OthersSame
    <3> QED BY <3>1, <3>2
  <2> QED BY <2>1 DEF Alone
<1>4. Fresh'
  <2>1. ASSUME NEW q \in Proc, req'[q].pc = "publish", req'[q].solo PROVE FALSE
    <3>1. q # p
      BY <2>1 DEF Committed
    <3> QED BY <1>1, <2>1, <3>1 DEF SnapInv, Alone, OthersSame
  <2> QED BY <2>1 DEF Fresh
<1>5. ASSUME NEW q \in Proc PROVE Owing(req[q])'
  <2>1. CASE q = p
    BY <2>1 DEF Committed, Owing
  <2>2. CASE q # p
    BY <1>1, <2>2, OwingKept DEF SnapInv, Committed
  <2> QED BY <2>1, <2>2
<1>6. ASSUME NEW l \in Layout, life'[l] # "gone" PROVE Told(l)'
  BY <1>1, <1>6, ToldKept DEF SnapInv, Committed
<1> QED BY <1>2, <1>3, <1>4, <1>5, <1>6 DEF SnapInv

\* A refused transaction.
LEMMA RefuseSnap ==
  ASSUME RowInv, SnapInv, NEW p \in Proc, req[p].pc = "commit", Refuse(p), Kept
  PROVE  SnapInv'
<1>1. Committed(p) /\ UNCHANGED tables
  BY CommittedEnd DEF Refuse, Kept, RowInv
<1>2. \A l \in Layout : Hosting(l) /\ Steady(l) /\ Tuned(l)
  BY <1>1 DEF Hosting, Steady, Tuned, tables, Functions
<1>3. Joins /\ Readdressed /\ \A l \in Layout : Settled(p, l)
  BY <1>1, <1>2 DEF Joins, Readdressed, Settled, tables
<1>4. NotYet'
  <2>1. \A q \in Proc, v \in Vehicle : Refers(req'[q], v) => Refers(req[q], v)
    BY <1>1 DEF Committed, Landed, OthersSame, Refers
  <2> QED BY <1>1, <2>1 DEF SnapInv, NotYet, Unborn, tables
<1> QED BY <1>1, <1>3, <1>4, CommitSnap DEF tables

LEMMA NotYetKept ==
  ASSUME NotYet, NEW p \in Proc, Committed(p),
         \A v \in Vehicle : life'[v] = "new" => life[v] = "new",
         \A l \in Layout : \A v \in lv'[l] : v \in lv[l] \/ Refers(req[p], v),
         \A t \in Train : \A v \in mem'[t] : v \in mem[t] \/ Refers(req[p], v)
  PROVE  NotYet'
<1> SUFFICES ASSUME NEW v \in Vehicle, life'[v] = "new" PROVE Unborn(v)'
  BY DEF NotYet
<1>1. Unborn(v)
  BY DEF NotYet
<1>2. \A q \in Proc : Refers(req'[q], v) => Refers(req[q], v)
  BY DEF Committed, Landed, OthersSame, Refers
<1> QED BY <1>1, <1>2 DEF Unborn

\* A transaction that changes nothing the layouts show.
LEMMA AsideSnap ==
  ASSUME RowInv, SnapInv, NEW p \in Proc, Committed(p), UNCHANGED <<lv, lt, mem>>,
         NEW u, \A l \in Layout : ~Carried(u, l),
         \A v \in Vehicle \ {u} : life'[v] = life[v] /\ veh'[v] = veh[v] /\ own'[v] = own[v],
         tfn' = tfn, \A t \in Train : life'[t] = life[t],
         u \in Vehicle => life[u] = "new" /\ life'[u] # "new",
         \A l \in Layout : life[l] = "gone" => life'[l] = "gone"
  PROVE  SnapInv'
<1>1. Types /\ Tables
  BY DEF RowInv, Types
<1>2. ASSUME NEW l \in Layout PROVE Hosting(l) /\ Steady(l) /\ Tuned(l)
  <2>1. \A v \in Vehicle : Carried(v, l) => v # u
    OBVIOUS
  <2>2. lv[l] \subseteq Vehicle /\ lt[l] \subseteq Train /\ \A v \in lv[l] : Carried(v, l)
    BY <1>1 DEF Tables, Carried
  <2>3. Hosting(l)
    BY DEF Hosting
  <2>4. Steady(l)
    BY <2>1, <2>2 DEF Steady
  <2>5. Tuned(l)
    BY <2>1, <2>2 DEF Tuned, Functions
  <2> QED BY <2>3, <2>4, <2>5
<1>3. Joins
  BY DEF Joins
<1>4. Readdressed
  BY DEF Readdressed
<1>5. NotYet'
  BY NotYetKept DEF SnapInv
<1> QED BY <1>2, <1>3, <1>4, <1>5, CommitSnap DEF Settled

LEMMA SnapInsertVehicle ==
  ASSUME RowInv, SnapInv, NEW p \in Proc, NEW v \in Vehicle, InsertVehicle(p, v)
  PROVE  SnapInv'
<1>1. Types /\ Tables /\ req[p].pc = "commit" /\ Kept
  BY DEF RowInv, Types, InsertVehicle, Committing
<1>2. CASE ~(life[v] = "new" /\ AddressFree(v, req[p].x))
  BY <1>1, <1>2, RefuseSnap DEF InsertVehicle
<1>3. CASE life[v] = "new" /\ AddressFree(v, req[p].x)
  <2>1. /\ life' = [life EXCEPT ![v] = "live"] /\ v \in Entity /\ v \notin Train \cup Layout
        /\ veh' = [veh EXCEPT ![v] = [addr |-> req[p].x, tmpl |-> None, det |-> FALSE]]
        /\ End(p) /\ UNCHANGED <<own, tfn, mem, lv, lt, att, snap, torn>>
    BY <1>3, CatalogueAssumption DEF InsertVehicle, Kept, Entity
  <2>2. Committed(p)
    BY <1>1, <2>1, CommittedEnd
  <2>3. \A l \in Layout : ~Carried(v, l)
    BY <1>1, <1>3 DEF SnapInv, NotYet, Unborn, Carried, Tables
  <2>4. /\ \A w \in Vehicle \ {v} : life'[w] = life[w] /\ veh'[w] = veh[w] /\ own'[w] = own[w]
        /\ \A t \in Train : life'[t] = life[t]
        /\ life[v] = "new" /\ life'[v] # "new"
        /\ \A l \in Layout : life[l] = "gone" => life'[l] = "gone"
    BY <1>1, <1>3, <2>1 DEF Tables, Entity
  <2> QED BY <2>1, <2>2, <2>3, <2>4, AsideSnap
<1> QED BY <1>2, <1>3

LEMMA SnapWriteRows ==
  ASSUME RowInv, SnapInv, NEW p \in Proc, req[p].pc = "commit",
         req[p].op \in {"updateVehicle", "clearDCC"},
         NEW rows, DOMAIN rows \subseteq req[p].on, WriteRows(p, rows), Kept
  PROVE  SnapInv'
<1>1. Types /\ Tables
  BY DEF RowInv, Types
<1>2. CASE ~(\A v \in DOMAIN rows : Live(v) /\ AddressFree(v, rows[v].addr))
  BY <1>2, RefuseSnap DEF WriteRows
<1>3. CASE \A v \in DOMAIN rows : Live(v) /\ AddressFree(v, rows[v].addr)
  <2>1. /\ veh' = [v \in Vehicle |-> IF v \in DOMAIN rows THEN rows[v] ELSE veh[v]]
        /\ To(p, "list") /\ UNCHANGED <<life, own, tfn, mem, lv, lt, att, snap, torn>>
    BY <1>3 DEF WriteRows, Kept
  <2>2. Committed(p) /\ SameRest(p) /\ req'[p].pc = "list"
    BY <1>1, <2>1, CommittedTo
  <2>3. ASSUME NEW l \in Layout, NEW v \in req[p].on, Carried(v, l) PROVE Marked(l)'
    <3>1. Carried(v, l)' /\ v \in req'[p].on /\ req'[p].op \in {"updateVehicle", "clearDCC"}
      BY <2>1, <2>2, <2>3 DEF Carried, SameRest
    <3>2. Full(req[p])' /\ Owes(req[p], l)'
      BY <2>2, <3>1 DEF Full, FunctionOps, SlotOps, TemplateOps, Owes, Touches
    <3> QED BY <3>2 DEF Marked
  <2>4. ASSUME NEW l \in Layout PROVE Settled(p, l)
    <3>1. CASE \E v \in req[p].on : Carried(v, l)
      BY <2>3, <3>1 DEF Settled
    <3>2. CASE ~\E v \in req[p].on : Carried(v, l)
      <4>1. \A v \in Vehicle : Carried(v, l) => veh'[v] = veh[v]
        BY <2>1, <3>2
      <4>2. lv[l] \subseteq Vehicle /\ \A v \in lv[l] : Carried(v, l)
        BY <1>1 DEF Tables, Carried
      <4>3. Hosting(l) /\ Steady(l) /\ Tuned(l)
        BY <2>1, <4>1, <4>2 DEF Hosting, Steady, Tuned, Functions
      <4> QED BY <4>3 DEF Settled
    <3> QED BY <3>1, <3>2
  <2>5. Joins
    BY <2>1 DEF Joins
  <2>6. Readdressed
    BY <2>1, <2>3 DEF Readdressed, Carried
  <2>7. NotYet'
    BY <2>1, <2>2, NotYetKept DEF SnapInv
  <2> QED BY <2>1, <2>2, <2>4, <2>5, <2>6, <2>7, CommitSnap
<1> QED BY <1>2, <1>3

LEMMA SnapStoreVehicle ==
  ASSUME RowInv, SnapInv, NEW p \in Proc, StoreVehicle(p)
  PROVE  SnapInv'
<1> DEFINE r == req[p]
           rows == [v \in DOMAIN r.row |-> [r.row[v] EXCEPT !.addr = IF r.x = Keep THEN @ ELSE r.x]]
<1>1. r.pc = "commit" /\ r.op = "updateVehicle" /\ WriteRows(p, rows) /\ Kept
  BY DEF StoreVehicle, Committing
<1>2. Carries(r)
  BY <1>1 DEF RowInv, Types, Shape
<1>3. r.row \in [r.on -> Row]
  BY <1>1, <1>2 DEF Carries, Loading, OfVehicle
<1>4. DOMAIN rows \subseteq r.on
  BY <1>3
<1> HIDE DEF rows
<1> QED BY <1>1, <1>4, SnapWriteRows

LEMMA SnapClearRows ==
  ASSUME RowInv, SnapInv, NEW p \in Proc, ClearRows(p)
  PROVE  SnapInv'
<1> DEFINE r == req[p]
           rows == [v \in {w \in DOMAIN r.row : r.row[w].addr # None} |-> [r.row[v] EXCEPT !.addr = None]]
<1>1. r.pc = "commit" /\ r.op = "clearDCC" /\ WriteRows(p, rows) /\ Kept
  BY DEF ClearRows, Committing
<1>2. Carries(r)
  BY <1>1 DEF RowInv, Types, Shape
<1>3. r.row \in [r.on -> Row]
  BY <1>1, <1>2 DEF Carries, Loading
<1>4. DOMAIN rows \subseteq r.on
  BY <1>3
<1> HIDE DEF rows
<1> QED BY <1>1, <1>4, SnapWriteRows

LEMMA SnapRemoveVehicleRows ==
  ASSUME RowInv, SnapInv, NEW p \in Proc, NEW v \in Vehicle, RemoveVehicleRows(p, v)
  PROVE  SnapInv'
<1>1. /\ Types /\ Tables /\ req[p].pc = "commit" /\ req[p].op = "deleteVehicle" /\ Kept
      /\ v \in req[p].on
  BY DEF RowInv, Types, RemoveVehicleRows, Committing
<1>2. CASE ~Live(v)
  BY <1>1, <1>2, RefuseSnap DEF RemoveVehicleRows
<1>3. CASE Live(v)
  <2>1. /\ life' = [life EXCEPT ![v] = "gone"] /\ own' = [own EXCEPT ![v] = {}]
        /\ lv' = [l \in Layout |-> lv[l] \ {v}] /\ To(p, "sync")
        /\ UNCHANGED <<veh, tfn, mem, lt, att, snap, torn>>
        /\ v \in Entity /\ v \notin Train \cup Layout
    BY <1>3, CatalogueAssumption DEF RemoveVehicleRows, Kept, Entity
  <2>2. Committed(p) /\ SameRest(p) /\ req'[p].pc = "sync" /\ OthersSame(p)
    BY <1>1, <2>1, CommittedTo DEF Committed, Landed
  <2>3. /\ \A w \in Vehicle \ {v} : life'[w] = life[w] /\ own'[w] = own[w]
        /\ \A t \in Train : life'[t] = life[t]
        /\ \A l \in Layout : life'[l] = life[l]
        /\ life'[v] = "gone"
    BY <1>1, <2>1 DEF Tables, Entity
  <2>4. ASSUME NEW l \in Layout, v \in lv[l] PROVE Marked(l)'
    <3>1. l \in req[p].todo \/ Firm(l)
      BY <1>1, <2>4 DEF SnapInv, Owing
    <3>2. CASE Firm(l)
      BY <1>1, <2>1, <2>2, <3>2, FirmKept, FirmMarked
    <3>3. CASE l \in req[p].todo
      <4>1. Full(req[p])' /\ Syncing(req[p], l)'
        BY <1>1, <2>2, <3>3 DEF SameRest, Full, FunctionOps, SlotOps, TemplateOps, Syncing
      <4>2. Firm(l)'
        BY <4>1 DEF Firm
      <4> QED BY <4>2, FirmMarked
    <3> QED BY <3>1, <3>2, <3>3
  <2>5. ASSUME NEW l \in Layout PROVE Settled(p, l)
    <3>1. CASE v \in lv[l]
      BY <2>4, <3>1 DEF Settled
    <3>2. CASE v \notin lv[l]
      <4>1. lv[l] \subseteq Vehicle \ {v} /\ lt[l] \subseteq Train
        BY <1>1, <3>2 DEF Tables
      <4>2. Hosting(l)
        BY <2>1, <3>2 DEF Hosting
      <4>3. Tuned(l)
        BY <2>1, <2>3, <4>1 DEF Tuned, Functions
      <4>4. CASE Carried(v, l)
        <5>1. Marked(l)
          BY <1>1, <3>2, <4>4 DEF SnapInv, Owing, Carried
        <5> QED BY <4>2, <4>3, <5>1 DEF Settled
      <4>5. CASE ~Carried(v, l)
        <5>1. Steady(l)
          BY <2>1, <2>3, <4>1, <4>5 DEF Steady
        <5> QED BY <4>2, <4>3, <5>1 DEF Settled
      <4> QED BY <4>4, <4>5
    <3> QED BY <3>1, <3>2
  <2>6. Joins
    BY <2>1 DEF Joins
  <2>7. Readdressed
    BY <2>1 DEF Readdressed
  <2>8. NotYet'
    <3>1. /\ \A w \in Vehicle : life'[w] = "new" => life[w] = "new"
          /\ \A l \in Layout : \A w \in lv'[l] : w \in lv[l]
      BY <2>1, <2>3
    <3> QED BY <2>1, <2>2, <3>1, NotYetKept DEF SnapInv
  <2> QED BY <2>2, <2>3, <2>5, <2>6, <2>7, <2>8, CommitSnap
<1> QED BY <1>2, <1>3

LEMMA SnapReplaceMembers ==
  ASSUME RowInv, SnapInv, NEW p \in Proc, NEW t \in Train, ReplaceMembers(p, t)
  PROVE  SnapInv'
<1>1. PICK op \in {"createTrain", "updateTrain"} :
         /\ Committing(p, op) /\ req[p].x[1] = t
         /\ IF life[t] = (IF op = "createTrain" THEN "new" ELSE "live")
            THEN /\ life' = [life EXCEPT ![t] = "live"]
                 /\ mem' = [mem EXCEPT ![t] = req[p].x[2]]
                 /\ To(p, "list")
                 /\ UNCHANGED <<veh, own, tfn, lv, lt, att>>
            ELSE Refuse(p)
  BY DEF ReplaceMembers
<1>2. Types /\ Tables /\ req[p].pc = "commit" /\ req[p].op = op /\ Kept
  BY <1>1 DEF RowInv, Types, ReplaceMembers, Committing
<1>3. CASE Refuse(p)
  BY <1>2, <1>3, RefuseSnap
<1>4. CASE ~Refuse(p)
  <2>1. /\ life' = [life EXCEPT ![t] = "live"] /\ mem' = [mem EXCEPT ![t] = req[p].x[2]]
        /\ To(p, "list") /\ UNCHANGED <<veh, own, tfn, lv, lt, att, snap, torn>>
        /\ t \in Entity /\ t \notin Vehicle \cup Layout
    BY <1>1, <1>2, <1>4, CatalogueAssumption DEF Kept, Entity
  <2>2. Committed(p) /\ SameRest(p) /\ req'[p].pc = "list"
    BY <1>2, <2>1, CommittedTo
  <2>3. /\ \A v \in Vehicle : life'[v] = life[v]
        /\ \A l \in Layout : life'[l] = life[l]
        /\ \A u \in Train \ {t} : life'[u] = life[u] /\ mem'[u] = mem[u]
        /\ mem'[t] = req[p].x[2]
    BY <1>2, <2>1 DEF Tables, Entity
  <2>4. ASSUME NEW l \in Layout PROVE Settled(p, l)
    <3>1. CASE t \in lt[l]
      <4>1. Full(req[p])' /\ Owes(req[p], l)'
        BY <1>1, <1>2, <2>1, <2>2, <3>1
        DEF SameRest, Full, FunctionOps, SlotOps, TemplateOps, Owes, Touches
      <4> QED BY <4>1 DEF Settled, Marked
    <3>2. CASE t \notin lt[l]
      <4>1. lv[l] \subseteq Vehicle /\ lt[l] \subseteq Train \ {t}
        BY <1>2, <3>2 DEF Tables
      <4>2. Hosting(l) /\ Steady(l) /\ Tuned(l)
        BY <2>1, <2>3, <4>1 DEF Hosting, Steady, Tuned, Functions
      <4> QED BY <4>2 DEF Settled
    <3> QED BY <3>1, <3>2
  <2>5. Joins /\ Readdressed
    BY <2>1 DEF Joins, Readdressed
  <2>6. NotYet'
    <3>1. \A v \in req[p].x[2] : Refers(req[p], v)
      BY <1>2 DEF Refers
    <3>2. \A u \in Train : \A v \in mem'[u] : v \in mem[u] \/ Refers(req[p], v)
      BY <2>3, <3>1
    <3> QED BY <2>1, <2>2, <2>3, <3>2, NotYetKept DEF SnapInv
  <2> QED BY <2>2, <2>3, <2>4, <2>5, <2>6, CommitSnap
<1> QED BY <1>3, <1>4

LEMMA SnapRemoveTrainRows ==
  ASSUME RowInv, SnapInv, NEW p \in Proc, NEW t \in Train, RemoveTrainRows(p, t)
  PROVE  SnapInv'
<1>1. /\ Types /\ Tables /\ req[p].pc = "commit" /\ req[p].op = "deleteTrain"
      /\ req[p].x = t /\ Kept
  BY DEF RowInv, Types, RemoveTrainRows, Committing
<1>2. CASE ~Live(t)
  BY <1>1, <1>2, RefuseSnap DEF RemoveTrainRows
<1>3. CASE Live(t)
  <2>1. /\ life' = [life EXCEPT ![t] = "gone"] /\ mem' = [mem EXCEPT ![t] = {}]
        /\ lt' = [l \in Layout |-> lt[l] \ {t}] /\ To(p, "sync")
        /\ UNCHANGED <<veh, own, tfn, lv, att, snap, torn>>
        /\ t \in Entity /\ t \notin Vehicle \cup Layout
    BY <1>3, CatalogueAssumption, <1>1 DEF RemoveTrainRows, Kept, Entity
  <2>2. Committed(p) /\ SameRest(p) /\ req'[p].pc = "sync" /\ OthersSame(p)
    BY <1>1, <2>1, CommittedTo DEF Committed, Landed
  <2>3. /\ \A v \in Vehicle : life'[v] = life[v]
        /\ \A l \in Layout : life'[l] = life[l]
        /\ \A u \in Train \ {t} : life'[u] = life[u] /\ mem'[u] = mem[u]
        /\ mem'[t] = {}
    BY <1>1, <2>1 DEF Tables, Entity
  <2>4. ASSUME NEW l \in Layout, t \in lt[l] PROVE Marked(l)'
    <3>1. l \in req[p].todo \/ Firm(l)
      BY <1>1, <2>4 DEF SnapInv, Owing
    <3>2. CASE Firm(l)
      BY <1>1, <2>1, <2>2, <3>2, FirmKept, FirmMarked
    <3>3. CASE l \in req[p].todo
      <4>1. Full(req[p])' /\ Syncing(req[p], l)'
        BY <1>1, <2>2, <3>3 DEF SameRest, Full, FunctionOps, SlotOps, TemplateOps, Syncing
      <4>2. Firm(l)'
        BY <4>1 DEF Firm
      <4> QED BY <4>2, FirmMarked
    <3> QED BY <3>1, <3>2, <3>3
  <2>5. ASSUME NEW l \in Layout PROVE Settled(p, l)
    <3>1. CASE t \in lt[l]
      BY <2>4, <3>1 DEF Settled
    <3>2. CASE t \notin lt[l]
      <4>1. lv[l] \subseteq Vehicle /\ lt[l] \subseteq Train \ {t}
        BY <1>1, <3>2 DEF Tables
      <4>2. Hosting(l) /\ Steady(l) /\ Tuned(l)
        BY <2>1, <2>3, <3>2, <4>1 DEF Hosting, Steady, Tuned, Functions
      <4> QED BY <4>2 DEF Settled
    <3> QED BY <3>1, <3>2
  <2>6. Joins /\ Readdressed
    BY <2>1 DEF Joins, Readdressed
  <2>7. NotYet'
    <3>1. \A u \in Train : \A v \in mem'[u] : v \in mem[u]
      BY <2>3
    <3> QED BY <2>1, <2>2, <2>3, <3>1, NotYetKept DEF SnapInv
  <2> QED BY <2>2, <2>3, <2>5, <2>6, <2>7, CommitSnap
<1> QED BY <1>2, <1>3

LEMMA SnapJoinVehicle ==
  ASSUME RowInv, SnapInv, NEW p \in Proc, JoinVehicle(p)
  PROVE  SnapInv'
<1>1. PICK op \in {"addVehicle", "removeVehicle"} :
         /\ Committing(p, op)
         /\ LET l == req[p].x[1]  v == req[p].x[2]  add == op = "addVehicle"
            IN  IF (v \in lv[l]) # add
                THEN /\ lv' = [lv EXCEPT ![l] = IF add THEN @ \cup {v} ELSE @ \ {v}]
                     /\ To(p, "sync")
                     /\ UNCHANGED <<life, veh, own, tfn, mem, lt, att>>
                ELSE Refuse(p)
  BY DEF JoinVehicle
<1>2. Types /\ Tables /\ req[p].pc = "commit" /\ req[p].op = op /\ Kept
  BY <1>1 DEF RowInv, Types, JoinVehicle, Committing
<1>3. PICK l \in Layout, v \in Vehicle : req[p].x = <<l, v>> /\ req[p].todo = {l}
  <2>1. Shape(req[p]) /\ Carries(req[p])
    BY <1>2 DEF Types, Shape
  <2>2. PICK k \in Layout, v \in Vehicle : req[p].x = <<k, v>>
    BY <1>2, <2>1 DEF Carries
  <2>3. req[p].todo = {req[p].x[1]}
    BY <1>2, <2>1 DEF Shape, Joining
  <2> QED BY <2>2, <2>3
<1>4. CASE Refuse(p)
  BY <1>2, <1>4, RefuseSnap
<1>5. CASE ~Refuse(p)
  <2>1. /\ To(p, "sync") /\ UNCHANGED <<life, veh, own, tfn, mem, lt, att, snap, torn>>
        /\ lv' = [lv EXCEPT ![l] = IF op = "addVehicle" THEN @ \cup {v} ELSE @ \ {v}]
    BY <1>1, <1>2, <1>3, <1>5 DEF Kept
  <2>2. Committed(p) /\ SameRest(p) /\ req'[p].pc = "sync"
    BY <1>2, <2>1, CommittedTo
  <2>3. Firm(l)' /\ Marked(l)'
    <3>1. Full(req[p])' /\ Syncing(req[p], l)'
      BY <1>2, <1>3, <2>2 DEF SameRest, Full, FunctionOps, SlotOps, TemplateOps, Syncing
    <3> QED BY <3>1, FirmMarked DEF Firm
  <2>4. ASSUME NEW k \in Layout PROVE Settled(p, k)
    <3>1. CASE k = l
      BY <2>3, <3>1 DEF Settled
    <3>2. CASE k # l
      <4>1. Hosting(k) /\ Steady(k) /\ Tuned(k)
        BY <1>2, <2>1, <3>2 DEF Hosting, Steady, Tuned, Functions, Tables
      <4> QED BY <4>1 DEF Settled
    <3> QED BY <3>1, <3>2
  <2>5. Joins
    BY <1>2, <2>1, <2>3 DEF Joins, Tables
  <2>6. Readdressed
    BY <2>1 DEF Readdressed
  <2>7. NotYet'
    BY <1>2, <1>3, <2>1, <2>2, NotYetKept DEF SnapInv, Refers, Tables
  <2> QED BY <2>1, <2>2, <2>4, <2>5, <2>6, <2>7, CommitSnap
<1> QED BY <1>4, <1>5

LEMMA SnapJoinTrain ==
  ASSUME RowInv, SnapInv, NEW p \in Proc, JoinTrain(p)
  PROVE  SnapInv'
<1>1. PICK op \in {"addTrain", "removeTrain"} :
         /\ Committing(p, op)
         /\ LET l == req[p].x[1]  t == req[p].x[2]  add == op = "addTrain"
            IN  IF (t \in lt[l]) # add
                THEN /\ lt' = [lt EXCEPT ![l] = IF add THEN @ \cup {t} ELSE @ \ {t}]
                     /\ To(p, "sync")
                     /\ UNCHANGED <<life, veh, own, tfn, mem, lv, att>>
                ELSE Refuse(p)
  BY DEF JoinTrain
<1>2. Types /\ Tables /\ req[p].pc = "commit" /\ req[p].op = op /\ Kept
  BY <1>1 DEF RowInv, Types, JoinTrain, Committing
<1>3. PICK l \in Layout, t \in Train : req[p].x = <<l, t>> /\ req[p].todo = {l}
  <2>1. Shape(req[p]) /\ Carries(req[p])
    BY <1>2 DEF Types, Shape
  <2>2. PICK k \in Layout, t \in Train : req[p].x = <<k, t>>
    BY <1>2, <2>1 DEF Carries
  <2>3. req[p].todo = {req[p].x[1]}
    BY <1>2, <2>1 DEF Shape, Joining
  <2> QED BY <2>2, <2>3
<1>4. CASE Refuse(p)
  BY <1>2, <1>4, RefuseSnap
<1>5. CASE ~Refuse(p)
  <2>1. /\ To(p, "sync") /\ UNCHANGED <<life, veh, own, tfn, mem, lv, att, snap, torn>>
        /\ lt' = [lt EXCEPT ![l] = IF op = "addTrain" THEN @ \cup {t} ELSE @ \ {t}]
    BY <1>1, <1>2, <1>3, <1>5 DEF Kept
  <2>2. Committed(p) /\ SameRest(p) /\ req'[p].pc = "sync"
    BY <1>2, <2>1, CommittedTo
  <2>3. Firm(l)' /\ Marked(l)'
    <3>1. Full(req[p])' /\ Syncing(req[p], l)'
      BY <1>2, <1>3, <2>2 DEF SameRest, Full, FunctionOps, SlotOps, TemplateOps, Syncing
    <3> QED BY <3>1, FirmMarked DEF Firm
  <2>4. ASSUME NEW k \in Layout PROVE Settled(p, k)
    <3>1. CASE k = l
      BY <2>3, <3>1 DEF Settled
    <3>2. CASE k # l
      <4>1. Hosting(k) /\ Steady(k) /\ Tuned(k)
        BY <1>2, <2>1, <3>2 DEF Hosting, Steady, Tuned, Functions, Tables
      <4> QED BY <4>1 DEF Settled
    <3> QED BY <3>1, <3>2
  <2>5. Joins
    BY <1>2, <2>1, <2>3 DEF Joins, Tables
  <2>6. Readdressed
    BY <2>1 DEF Readdressed
  <2>7. NotYet'
    BY <2>1, <2>2, NotYetKept DEF SnapInv
  <2> QED BY <2>1, <2>2, <2>4, <2>5, <2>6, <2>7, CommitSnap
<1> QED BY <1>4, <1>5

\* One vehicle's row and slots are written; another address than the loaded
\* one has been owed to its layouts since it changed.
LEMMA SlotsSnap ==
  ASSUME RowInv, SnapInv, NEW p \in Proc, req[p].pc = "commit",
         req[p].op \in Loading \cap FunctionOps, To(p, "list"), NEW v \in Vehicle, v \in req[p].on,
         NEW row, NEW S, veh' = [veh EXCEPT ![v] = row], own' = [own EXCEPT ![v] = S],
         UNCHANGED <<life, tfn, mem, lv, lt, snap, torn>>,
         row.addr = veh[v].addr \/ row.addr = req[p].row[v].addr
  PROVE  SnapInv'
<1>1. Types /\ Tables
  BY DEF RowInv, Types
<1>2. Committed(p) /\ SameRest(p) /\ req'[p].pc = "list" /\ OthersSame(p)
  BY <1>1, CommittedTo DEF Committed, Landed
<1>3. veh'[v] = row /\ \A w \in Vehicle \ {v} : veh'[w] = veh[w] /\ own'[w] = own[w]
  BY <1>1 DEF Tables
<1>4. ASSUME NEW l \in Layout PROVE Hosting(l)
  BY DEF Hosting
<1>5. ASSUME NEW l \in Layout, Carried(v, l), veh'[v].addr # veh[v].addr PROVE Marked(l)
  BY <1>3, <1>5 DEF SnapInv, Owing
<1>6. ASSUME NEW l \in Layout PROVE Settled(p, l)
  <2>1. lv[l] \subseteq Vehicle
    BY <1>1 DEF Tables
  <2>2. Steady(l) \/ Marked(l)
    BY <1>3, <1>5 DEF Steady
  <2>3. Owes(req[p], l)' \/ Tuned(l)
    <3>1. CASE v \in lv[l]
      <4>1. /\ req'[p].on \cap lv'[l] # {}
            /\ req'[p].op \in SlotOps \cup {"attachTemplate", "copyFunctions"}
        BY <1>2, <3>1 DEF SameRest, Loading, OfVehicle, FunctionOps, SlotOps, TemplateOps
      <4> QED BY <1>2, <4>1 DEF Owes, Touches, SlotOps, TemplateOps
    <3>2. CASE v \notin lv[l]
      BY <1>3, <2>1, <3>2 DEF Tuned, Functions
    <3> QED BY <3>1, <3>2
  <2> QED BY <1>4, <2>2, <2>3 DEF Settled
<1>7. Joins
  BY DEF Joins
<1>8. Readdressed
  <2>1. ASSUME NEW w \in Vehicle, NEW l \in Layout, veh'[w].addr # veh[w].addr, Carried(w, l)'
        PROVE  Marked(l)'
    <3>1. w = v
      BY <1>3, <2>1
    <3>2. Marked(l)
      BY <1>4, <1>5, <2>1, <3>1, CarriedKept
    <3> QED BY <1>1, <1>2, <1>4, <3>2, MarkedKept
  <2> QED BY <2>1 DEF Readdressed
<1>9. NotYet'
  BY <1>2, NotYetKept DEF SnapInv
<1> QED BY <1>2, <1>6, <1>7, <1>8, <1>9, CommitSnap

LEMMA SnapCommitSlot ==
  ASSUME RowInv, SnapInv, NEW p \in Proc, NEW v \in Vehicle, CommitSlot(p, v)
  PROVE  SnapInv'
<1> DEFINE row == req[p].row[v]
           detach == row.tmpl # None /\ ~row.det
           copied == IF detach THEN tfn[row.tmpl] ELSE {}
           had == own[v] \cup copied
<1>1. PICK op \in SlotOps :
         /\ Committing(p, op) /\ v \in req[p].on
         /\ IF /\ copied \cap own[v] = {}
               /\ detach => Live(v) /\ AddressFree(v, row.addr)
               /\ op = "deleteSlot" => req[p].x \in had
            THEN /\ own' = [own EXCEPT ![v] = IF op = "deleteSlot" THEN had \ {req[p].x}
                                                                 ELSE had \cup {req[p].x}]
                 /\ veh' = [veh EXCEPT ![v] = IF detach THEN [row EXCEPT !.det = TRUE] ELSE @]
                 /\ To(p, "list")
                 /\ UNCHANGED <<life, tfn, mem, lv, lt, att>>
            ELSE Refuse(p)
  BY DEF CommitSlot
<1>2. Types /\ Tables /\ req[p].pc = "commit" /\ req[p].op = op /\ Kept /\ v \in req[p].on
  BY <1>1 DEF RowInv, Types, CommitSlot, Committing
<1>3. row \in Row
  <2>1. Carries(req[p])
    BY <1>2 DEF Types, Shape
  <2> QED BY <1>2, <2>1 DEF Carries, Loading, OfVehicle
<1>4. CASE Refuse(p)
  BY <1>2, <1>4, RefuseSnap
<1>5. CASE ~Refuse(p)
  <2> DEFINE S == IF op = "deleteSlot" THEN had \ {req[p].x} ELSE had \cup {req[p].x}
             new == IF detach THEN [row EXCEPT !.det = TRUE] ELSE veh[v]
  <2>1. /\ own' = [own EXCEPT ![v] = S] /\ veh' = [veh EXCEPT ![v] = new] /\ To(p, "list")
        /\ UNCHANGED <<life, tfn, mem, lv, lt, snap, torn>>
    BY <1>1, <1>2, <1>5 DEF Kept, Tables
  <2>2. new.addr = veh[v].addr \/ new.addr = row.addr
    BY <1>3 DEF Row
  <2>3. req[p].op \in Loading \cap FunctionOps
    BY <1>2 DEF Loading, OfVehicle, FunctionOps
  <2> HIDE DEF S, new
  <2> QED BY <1>2, <2>1, <2>2, <2>3, SlotsSnap
<1> QED BY <1>4, <1>5

LEMMA SnapReplaceFunctions ==
  ASSUME RowInv, SnapInv, NEW p \in Proc, NEW v \in Vehicle, ReplaceFunctions(p, v)
  PROVE  SnapInv'
<1> DEFINE row == req[p].row[v]
           m == req[p].x[1]
           S == req[p].x[2]
           k == [row EXCEPT !.tmpl = m]
           new == [k EXCEPT !.det = FALSE]
<1>1. /\ Types /\ Tables /\ req[p].pc = "commit" /\ req[p].op \in {"attachTemplate", "copyFunctions"}
      /\ Kept /\ v \in req[p].on
  BY DEF RowInv, Types, ReplaceFunctions, Committing
<1>2. row \in Row
  <2>1. Carries(req[p])
    BY <1>1 DEF Types, Shape
  <2> QED BY <1>1, <2>1 DEF Carries, Loading, OfVehicle
<1>3. CASE Refuse(p)
  BY <1>1, <1>3, RefuseSnap
<1>4. CASE ~Refuse(p)
  <2>1. /\ own' = [own EXCEPT ![v] = S] /\ veh' = [veh EXCEPT ![v] = new] /\ To(p, "list")
        /\ UNCHANGED <<life, tfn, mem, lv, lt, snap, torn>>
    BY <1>1, <1>4 DEF ReplaceFunctions, Kept
  <2>2. row = [addr |-> row.addr, tmpl |-> row.tmpl, det |-> row.det]
    BY <1>2 DEF Row
  <2>3. k = [addr |-> row.addr, tmpl |-> m, det |-> row.det]
    BY <2>2
  <2> HIDE DEF k, row
  <2>4. new.addr = row.addr
    BY <2>3
  <2>5. req[p].op \in Loading \cap FunctionOps
    BY <1>1 DEF Loading, OfVehicle, FunctionOps
  <2> HIDE DEF new, S
  <2> QED BY <1>1, <2>1, <2>4, <2>5, SlotsSnap DEF row
<1> QED BY <1>3, <1>4

LEMMA SnapCommitTemplate ==
  ASSUME RowInv, SnapInv, NEW p \in Proc, CommitTemplate(p)
  PROVE  SnapInv'
<1>1. PICK op \in TemplateOps :
         /\ Committing(p, op)
         /\ LET m == req[p].x[1]  f == req[p].x[2]
            IN  IF op = "deleteTemplate" /\ f \notin tfn[m]
                THEN Refuse(p)
                ELSE /\ tfn' = [tfn EXCEPT ![m] = IF op = "deleteTemplate" THEN @ \ {f}
                                                                        ELSE @ \cup {f}]
                     /\ To(p, "list")
                     /\ UNCHANGED <<life, veh, own, mem, lv, lt, att>>
  BY DEF CommitTemplate
<1>2. Types /\ Tables /\ req[p].pc = "commit" /\ req[p].op = op /\ Kept
  BY <1>1 DEF RowInv, Types, CommitTemplate, Committing
<1> DEFINE m == req[p].x[1]
<1>3. CASE Refuse(p)
  BY <1>2, <1>3, RefuseSnap
<1>4. CASE ~Refuse(p)
  <2>1. /\ \A n \in Template \ {m} : tfn'[n] = tfn[n]
        /\ To(p, "list") /\ UNCHANGED <<life, veh, own, mem, lv, lt, att, snap, torn>>
    BY <1>1, <1>2, <1>4 DEF Kept, Tables
  <2>2. Committed(p) /\ SameRest(p) /\ req'[p].pc = "list"
    BY <1>2, <2>1, CommittedTo
  <2>3. ASSUME NEW l \in Layout PROVE Settled(p, l)
    <3>1. Hosting(l) /\ Steady(l)
      BY <2>1 DEF Hosting, Steady
    <3>2. CASE \E v \in lv[l] : Live(v) /\ veh[v].tmpl = m /\ ~veh[v].det
      <4>1. \E v \in lv'[l] : Live(v)' /\ veh'[v].tmpl = req'[p].x[1] /\ ~veh'[v].det
        BY <2>1, <2>2, <3>2 DEF Live, SameRest
      <4>2. Owes(req[p], l)'
        BY <1>2, <2>2, <4>1 DEF Owes, Touches, SameRest
      <4> QED BY <3>1, <4>2 DEF Settled
    <3>3. CASE ~\E v \in lv[l] : Live(v) /\ veh[v].tmpl = m /\ ~veh[v].det
      <4>1. ASSUME NEW v \in lv[l], Live(v) PROVE Functions(v)' = Functions(v)
        <5>1. v \in Vehicle /\ veh[v].tmpl \in Template \cup {None}
          BY <1>2 DEF Tables, Row
        <5> QED BY <2>1, <3>3, <4>1, <5>1 DEF Functions
      <4>2. Tuned(l)
        BY <2>1, <4>1 DEF Tuned
      <4> QED BY <3>1, <4>2 DEF Settled
    <3> QED BY <3>2, <3>3
  <2>4. Joins /\ Readdressed
    BY <2>1 DEF Joins, Readdressed
  <2>5. NotYet'
    BY <2>1, <2>2, NotYetKept DEF SnapInv
  <2> QED BY <2>1, <2>2, <2>3, <2>4, <2>5, CommitSnap
<1> QED BY <1>3, <1>4

LEMMA SnapCommitStations ==
  ASSUME RowInv, SnapInv, NEW p \in Proc, CommitStations(p)
  PROVE  SnapInv'
<1>1. PICK op \in {"createLayout", "setStations"} :
         /\ Committing(p, op)
         /\ LET l == req[p].x[1]  S == req[p].x[2]
            IN  IF /\ S # {} /\ \A s \in S : Live(s)
                   /\ op = "createLayout" => life[l] = "new"
                THEN /\ att' = [att EXCEPT ![l] = S]
                     /\ life' = IF op = "createLayout" THEN [life EXCEPT ![l] = "live"] ELSE life
                     /\ End(p)
                     /\ UNCHANGED <<veh, own, tfn, mem, lv, lt>>
                ELSE Refuse(p)
  BY DEF CommitStations
<1>2. Types /\ Tables /\ req[p].pc = "commit" /\ req[p].op = op /\ Kept
  BY <1>1 DEF RowInv, Types, CommitStations, Committing
<1>3. PICK l \in Layout, S \in SUBSET Station : req[p].x = <<l, S>> /\ req[p].on = {l} \cup S
  <2>1. Carries(req[p])
    BY <1>2 DEF Types, Shape
  <2> QED BY <1>2, <2>1 DEF Carries
<1>4. CASE Refuse(p)
  BY <1>2, <1>4, RefuseSnap
<1>5. CASE ~Refuse(p)
  <2>1. /\ life' = life \/ (life[l] = "new" /\ life' = [life EXCEPT ![l] = "live"])
        /\ End(p) /\ UNCHANGED <<veh, own, tfn, mem, lv, lt, snap, torn>>
        /\ l \in Entity /\ l \notin Vehicle \cup Train
    BY <1>1, <1>2, <1>3, <1>5, CatalogueAssumption DEF Kept, Entity
  <2>2. Committed(p)
    BY <1>2, <2>1, CommittedEnd
  <2>3. \A k \in Layout : ~Carried(l, k)
    BY <1>2, <2>1 DEF Carried, Tables
  <2>4. /\ \A e \in Vehicle \cup Train : life'[e] = life[e]
        /\ \A k \in Layout : life[k] = "gone" => life'[k] = "gone"
    BY <1>2, <2>1 DEF Tables, Entity
  <2> QED BY <2>1, <2>2, <2>3, <2>4, AsideSnap
<1> QED BY <1>4, <1>5

LEMMA SnapRemoveLayoutRows ==
  ASSUME RowInv, SnapInv, NEW p \in Proc, NEW l \in Layout, RemoveLayoutRows(p, l)
  PROVE  SnapInv'
<1>1. Types /\ Tables /\ req[p].pc = "commit" /\ Kept
  BY DEF RowInv, Types, RemoveLayoutRows, Committing
<1>2. CASE ~Live(l)
  BY <1>1, <1>2, RefuseSnap DEF RemoveLayoutRows
<1>3. CASE Live(l)
  <2>1. /\ life' = [life EXCEPT ![l] = "gone"] /\ lv' = [lv EXCEPT ![l] = {}]
        /\ lt' = [lt EXCEPT ![l] = {}] /\ End(p) /\ UNCHANGED <<veh, own, tfn, mem, snap, torn>>
        /\ l \in Entity /\ l \notin Vehicle \cup Train
    BY <1>1, <1>3, CatalogueAssumption DEF RemoveLayoutRows, Kept, Entity
  <2>2. Committed(p)
    BY <1>1, <2>1, CommittedEnd
  <2>3. /\ \A e \in Vehicle \cup Train : life'[e] = life[e]
        /\ \A k \in Layout : life[k] = "gone" => life'[k] = "gone"
        /\ lv'[l] = {} /\ lt'[l] = {} /\ life'[l] = "gone"
        /\ \A k \in Layout \ {l} : lv'[k] = lv[k] /\ lt'[k] = lt[k]
    BY <1>1, <2>1 DEF Tables, Entity
  <2>4. ASSUME NEW k \in Layout PROVE Settled(p, k)
    <3>1. CASE k = l
      BY <2>3, <3>1 DEF Settled, Emptied
    <3>2. CASE k # l
      <4>1. lv[k] \subseteq Vehicle /\ lt[k] \subseteq Train
        BY <1>1 DEF Tables
      <4>2. Hosting(k) /\ Steady(k) /\ Tuned(k)
        BY <2>1, <2>3, <3>2, <4>1 DEF Hosting, Steady, Tuned, Functions
      <4> QED BY <4>2 DEF Settled
    <3> QED BY <3>1, <3>2
  <2>5. Joins /\ Readdressed
    BY <2>1, <2>3 DEF Joins, Readdressed
  <2>6. NotYet'
    <3>1. \A k \in Layout : \A v \in lv'[k] : v \in lv[k]
      BY <2>3
    <3> QED BY <2>1, <2>2, <2>3, <3>1, NotYetKept DEF SnapInv
  <2> QED BY <2>2, <2>3, <2>4, <2>5, <2>6, CommitSnap
<1> QED BY <1>2, <1>3

LEMMA SnapRemoveStationRows ==
  ASSUME RowInv, SnapInv, NEW p \in Proc, NEW s \in Station, RemoveStationRows(p, s)
  PROVE  SnapInv'
<1>1. Types /\ Tables /\ req[p].pc = "commit" /\ Kept
  BY DEF RowInv, Types, RemoveStationRows, Committing
<1>2. CASE ~Live(s)
  BY <1>1, <1>2, RefuseSnap DEF RemoveStationRows
<1>3. CASE Live(s)
  <2>1. /\ life' = [life EXCEPT ![s] = "gone"] /\ End(p)
        /\ UNCHANGED <<veh, own, tfn, mem, lv, lt, snap, torn>>
        /\ s \in Entity /\ s \notin Vehicle \cup Train \cup Layout
    BY <1>1, <1>3, CatalogueAssumption DEF RemoveStationRows, Kept, Entity
  <2>2. Committed(p)
    BY <1>1, <2>1, CommittedEnd
  <2>3. \A k \in Layout : ~Carried(s, k)
    BY <1>1, <2>1 DEF Carried, Tables
  <2>4. \A e \in Vehicle \cup Train \cup Layout : life'[e] = life[e]
    BY <1>1, <2>1 DEF Tables, Entity
  <2> QED BY <2>1, <2>2, <2>3, <2>4, AsideSnap
<1> QED BY <1>2, <1>3

-----------------------------------------------------------------------------
(***************************************************************************)
(* Steps that leave the tables alone pay debts or leave them.              *)
(***************************************************************************)
LEMMA StillViews ==
  ASSUME UNCHANGED tables, NEW l \in Layout
  PROVE  /\ Hosting(l) /\ Steady(l) /\ Tuned(l) /\ VehicleView(l)' = VehicleView(l)
         /\ TrainView(l)' = TrainView(l) /\ FunctionView(l)' = FunctionView(l)
<1> USE DEF tables, Live, Functions, Drivable
<1>1. Hosting(l) /\ Steady(l) /\ Tuned(l)
  BY DEF Hosting, Steady, Tuned
<1>2. VehicleView(l)' = VehicleView(l)
  BY DEF VehicleView
<1>3. TrainView(l)' = TrainView(l)
  BY DEF TrainView
<1>4. FunctionView(l)' = FunctionView(l)
  BY DEF FunctionView
<1> QED BY <1>1, <1>2, <1>3, <1>4

\* No debt is forgotten.
Remembers(l) == /\ Firm(l) => Firm(l)'
                /\ Marked(l) => Marked(l)'

LEMMA OwingStill ==
  ASSUME UNCHANGED tables, NEW q \in Proc, Same(req[q], req'[q]), Owing(req[q]),
         \A l \in Layout : Remembers(l)
  PROVE  Owing(req[q])'
<1> DEFINE r == req[q]
           n == req'[q]
<1>1. n.pc = r.pc /\ n.op = r.op /\ n.on = r.on /\ n.row = r.row /\ n.x = r.x /\ n.todo = r.todo
  BY DEF Same
<1>2. SUFFICES ASSUME r.pc = "commit" PROVE Owing(req[q])'
  BY <1>1 DEF Owing
<1>3. ASSUME r.op = "deleteVehicle", NEW v \in r.on, NEW l \in Layout
      PROVE  /\ v \in lv'[l] => l \in r.todo \/ Firm(l)'
             /\ \A t \in lt'[l] : v \in mem'[t] => Marked(l)'
  BY <1>2, <1>3 DEF Owing, tables, Remembers
<1>4. ASSUME r.op = "deleteTrain", NEW l \in Layout, r.x \in lt'[l]
      PROVE  l \in r.todo \/ Firm(l)'
  BY <1>2, <1>4 DEF Owing, tables, Remembers
<1>5. ASSUME r.op \in Loading \cap FunctionOps, NEW v \in r.on, NEW l \in Layout,
             r.row[v].addr # veh'[v].addr, Carried(v, l)'
      PROVE  Marked(l)'
  <2>1. Carried(v, l)
    BY <1>5 DEF Carried, tables
  <2> QED BY <1>2, <1>5, <2>1 DEF Owing, tables, Remembers
<1> HIDE DEF r, n
<1>6. n = req'[q]
  BY DEF n
<1> QED BY <1>1, <1>2, <1>3, <1>4, <1>5, <1>6 DEF Owing

LEMMA ToldStill ==
  ASSUME UNCHANGED tables, NEW l \in Layout, Told(l), snap'[l] = snap[l], Remembers(l),
         (\E q \in Proc : Owes(req[q], l)) => (\E q \in Proc : Owes(req[q], l)')
  PROVE  Told(l)'
<1>1. CASE Marked(l)
  BY <1>1 DEF Remembers, Told
<1>2. CASE ~Marked(l)
  BY <1>2, StillViews DEF Told
<1> QED BY <1>1, <1>2

LEMMA BeginSnap ==
  ASSUME RowInv, SnapInv, NEW p \in Proc, NEW op, NEW on, NEW vs, NEW x, NEW todo,
         Begin(p, op, on, vs, x, todo), Owing(req[p])',
         \A v \in Vehicle : Refers(req'[p], v) => life[v] # "new"
  PROVE  SnapInv'
<1>0. Types
  BY DEF RowInv
<1>1. /\ Types /\ Begun(p, op, on, x, todo) /\ UNCHANGED tables /\ UNCHANGED <<snap, torn>>
      /\ req[p].pc = "idle"
  <2>1. Begun(p, op, on, x, todo) /\ UNCHANGED <<tables, snap, torn>>
    BY <1>0, BeginFacts
  <2>2. req[p].pc = "idle"
    BY DEF Begin
  <2> QED BY <1>0, <2>1, <2>2
<1>2. ASSUME NEW q \in Proc \ {p}
      PROVE  /\ Same(req[q], req'[q]) /\ req'[q].pc = req[q].pc
             /\ req[q].pc # "idle" => ~req'[q].solo
  BY <1>1 DEF Begun, Same
<1>3. ASSUME NEW q \in Proc, NEW l \in Layout, Owes(req[q], l)
      PROVE  q # p /\ Owes(req[q], l)'
  <2>1. q # p
    BY <1>1, <1>3 DEF Owes, Syncing
  <2> QED BY <1>1, <1>2, <1>3, <2>1, StillViews, OwesKept
<1>4. ASSUME NEW l \in Layout PROVE Remembers(l)
  <2>1. ASSUME NEW q \in Proc, Full(req[q]), Syncing(req[q], l)
        PROVE  Full(req[q])' /\ Syncing(req[q], l)'
    <3>1. q # p
      BY <1>1, <2>1 DEF Syncing
    <3> QED BY <1>2, <2>1, <3>1 DEF Same, Full, Syncing
  <2>2. ASSUME NEW q \in Proc, Full(req[q]), Owes(req[q], l)
        PROVE  Full(req[q])' /\ Owes(req[q], l)'
    <3>1. q # p /\ Owes(req[q], l)'
      BY <1>3, <2>2
    <3> QED BY <1>2, <2>2, <3>1 DEF Same, Full
  <2>3. Firm(l) => Firm(l)'
    BY <1>1, <2>1 DEF Firm
  <2>4. Marked(l) => Marked(l)'
    BY <1>1, <2>2 DEF Marked
  <2> QED BY <2>3, <2>4 DEF Remembers
<1>5. Views'
  <2>1. IsView(Empty)
    BY DEF IsView, Empty
  <2>2. \A q \in Proc : IsView(req'[q].view)
    BY <1>1, <1>2, <2>1 DEF Begun, Same, SnapInv, Views
  <2> QED BY <1>1, <2>2 DEF SnapInv, Views
<1>6. NotYet'
  <2> SUFFICES ASSUME NEW v \in Vehicle, life'[v] = "new" PROVE Unborn(v)'
    BY DEF NotYet
  <2>1. Unborn(v) /\ ~Refers(req'[p], v)
    BY <1>1 DEF SnapInv, NotYet, tables
  <2>2. \A q \in Proc \ {p} : Refers(req'[q], v) => Refers(req[q], v)
    BY <1>2 DEF Same, Refers
  <2> QED BY <1>1, <2>1, <2>2 DEF Unborn, tables
<1>7. Alone'
  <2>1. ASSUME NEW q \in Proc, req'[q].pc # "idle", req'[q].solo, NEW s \in Proc \ {q}
        PROVE  req'[s].pc = "idle"
    <3>1. q = p
      BY <1>2, <2>1
    <3>2. Busy = {}
      BY <1>1, <2>1, <3>1 DEF Begun
    <3> QED BY <1>2, <3>1, <3>2 DEF Busy
  <2> QED BY <2>1 DEF Alone
<1>8. Fresh'
  <2>1. ASSUME NEW q \in Proc, req'[q].pc = "publish", req'[q].solo PROVE FALSE
    <3>1. q # p
      BY <1>1, <2>1 DEF Begun
    <3> QED BY <1>2, <2>1, <3>1
  <2> QED BY <2>1 DEF Fresh
<1>9. ASSUME NEW q \in Proc PROVE Owing(req[q])'
  BY <1>1, <1>2, <1>4, OwingStill DEF SnapInv
<1>10. ASSUME NEW l \in Layout, life'[l] # "gone" PROVE Told(l)'
  <2>1. Told(l) /\ snap'[l] = snap[l]
    BY <1>1, <1>10 DEF SnapInv, tables
  <2>2. (\E q \in Proc : Owes(req[q], l)) => (\E q \in Proc : Owes(req[q], l)')
    BY <1>3
  <2> QED BY <1>1, <1>4, <2>1, <2>2, ToldStill
<1> QED BY <1>5, <1>6, <1>7, <1>8, <1>9, <1>10 DEF SnapInv

\* Every request starts with nothing owed, and finds what it is about to change.

LEMMA SnapCreateVehicle ==
  ASSUME RowInv, SnapInv, NEW p \in Proc, NEW v \in Vehicle, NEW a, CreateVehicle(p, v, a)
  PROVE  SnapInv'
<1>1. Types
  BY DEF RowInv
<1>2. Begin(p, "createVehicle", {v}, {v}, a, {})
  BY DEF CreateVehicle
<1>3. /\ req'[p].op = "createVehicle" /\ req'[p].on = {v} /\ req'[p].x = a
      /\ req'[p].todo = {} /\ req'[p].row = [u \in {v} |-> veh[u]]
      /\ UNCHANGED <<lv, lt, mem, veh>>
  BY <1>1, <1>2, BeginFacts DEF Begun, tables
<1>4. Owing(req[p])'
  BY <1>3 DEF CreateVehicle, Owing, Loading, OfVehicle, FunctionOps, SlotOps, TemplateOps
<1>5. \A u \in Vehicle : Refers(req'[p], u) => life[u] # "new"
  BY <1>3 DEF CreateVehicle, ValidMembers, Refers, Loading, OfVehicle, FunctionOps, SlotOps, TemplateOps, Live
<1> QED BY <1>2, <1>4, <1>5, BeginSnap

LEMMA SnapUpdateVehicle ==
  ASSUME RowInv, SnapInv, NEW p \in Proc, NEW v \in Vehicle, NEW a, UpdateVehicle(p, v, a)
  PROVE  SnapInv'
<1>1. Types
  BY DEF RowInv
<1>2. Begin(p, "updateVehicle", {v}, {v}, a, {})
  BY DEF UpdateVehicle
<1>3. /\ req'[p].op = "updateVehicle" /\ req'[p].on = {v} /\ req'[p].x = a
      /\ req'[p].todo = {} /\ req'[p].row = [u \in {v} |-> veh[u]]
      /\ UNCHANGED <<lv, lt, mem, veh>>
  BY <1>1, <1>2, BeginFacts DEF Begun, tables
<1>4. Owing(req[p])'
  BY <1>3 DEF UpdateVehicle, Owing, Loading, OfVehicle, FunctionOps, SlotOps, TemplateOps
<1>5. \A u \in Vehicle : Refers(req'[p], u) => life[u] # "new"
  BY <1>3 DEF UpdateVehicle, ValidMembers, Refers, Loading, OfVehicle, FunctionOps, SlotOps, TemplateOps, Live
<1> QED BY <1>2, <1>4, <1>5, BeginSnap

LEMMA SnapClearDCCAddresses ==
  ASSUME RowInv, SnapInv, NEW p \in Proc, NEW vs \in SUBSET Vehicle, ClearDCCAddresses(p, vs)
  PROVE  SnapInv'
<1>1. Types
  BY DEF RowInv
<1>2. Begin(p, "clearDCC", vs, vs, None, {})
  BY DEF ClearDCCAddresses
<1>3. /\ req'[p].op = "clearDCC" /\ req'[p].on = vs /\ req'[p].x = None
      /\ req'[p].todo = {} /\ req'[p].row = [u \in vs |-> veh[u]]
      /\ UNCHANGED <<lv, lt, mem, veh>>
  BY <1>1, <1>2, BeginFacts DEF Begun, tables
<1>4. Owing(req[p])'
  BY <1>3 DEF ClearDCCAddresses, Owing, Loading, OfVehicle, FunctionOps, SlotOps, TemplateOps
<1>5. \A u \in Vehicle : Refers(req'[p], u) => life[u] # "new"
  BY <1>3 DEF ClearDCCAddresses, ValidMembers, Refers, Loading, OfVehicle, FunctionOps, SlotOps, TemplateOps, Live
<1> QED BY <1>2, <1>4, <1>5, BeginSnap

LEMMA SnapDeleteVehicle ==
  ASSUME RowInv, SnapInv, NEW p \in Proc, NEW v \in Vehicle, DeleteVehicle(p, v)
  PROVE  SnapInv'
<1>1. Types
  BY DEF RowInv
<1>2. Begin(p, "deleteVehicle", {v}, {v}, None, {l \in Layout : v \in lv[l]})
  BY DEF DeleteVehicle
<1>3. /\ req'[p].op = "deleteVehicle" /\ req'[p].on = {v} /\ req'[p].x = None
      /\ req'[p].todo = {l \in Layout : v \in lv[l]} /\ req'[p].row = [u \in {v} |-> veh[u]]
      /\ UNCHANGED <<lv, lt, mem, veh>>
  BY <1>1, <1>2, BeginFacts DEF Begun, tables
<1>t. \A l \in Layout : lt[l] \subseteq Train
  BY <1>1 DEF Types, Tables
<1>4. Owing(req[p])'
  BY <1>3, <1>t DEF DeleteVehicle, Owing, Loading, OfVehicle, FunctionOps, SlotOps, TemplateOps
<1>5. \A u \in Vehicle : Refers(req'[p], u) => life[u] # "new"
  BY <1>3 DEF DeleteVehicle, ValidMembers, Refers, Loading, OfVehicle, FunctionOps, SlotOps, TemplateOps, Live
<1> QED BY <1>2, <1>4, <1>5, BeginSnap

LEMMA SnapCreateTrain ==
  ASSUME RowInv, SnapInv, NEW p \in Proc, NEW t \in Train, NEW vs \in SUBSET Vehicle, CreateTrain(p, t, vs)
  PROVE  SnapInv'
<1>1. Types
  BY DEF RowInv
<1>2. Begin(p, "createTrain", {t} \cup vs, {}, <<t, vs>>, {})
  BY DEF CreateTrain
<1>3. /\ req'[p].op = "createTrain" /\ req'[p].on = {t} \cup vs /\ req'[p].x = <<t, vs>>
      /\ req'[p].todo = {}
      /\ UNCHANGED <<lv, lt, mem, veh>>
  BY <1>1, <1>2, BeginStill DEF Begun, Still, tables
<1>4. Owing(req[p])'
  BY <1>3 DEF CreateTrain, Owing, Loading, OfVehicle, FunctionOps, SlotOps, TemplateOps
<1>5. \A u \in Vehicle : Refers(req'[p], u) => life[u] # "new"
  BY <1>3 DEF CreateTrain, ValidMembers, Refers, Loading, OfVehicle, FunctionOps, SlotOps, TemplateOps, Live
<1> QED BY <1>2, <1>4, <1>5, BeginSnap

LEMMA SnapUpdateTrain ==
  ASSUME RowInv, SnapInv, NEW p \in Proc, NEW t \in Train, NEW vs \in SUBSET Vehicle, UpdateTrain(p, t, vs)
  PROVE  SnapInv'
<1>1. Types
  BY DEF RowInv
<1>2. Begin(p, "updateTrain", {t} \cup vs, {}, <<t, vs>>, {})
  BY DEF UpdateTrain
<1>3. /\ req'[p].op = "updateTrain" /\ req'[p].on = {t} \cup vs /\ req'[p].x = <<t, vs>>
      /\ req'[p].todo = {}
      /\ UNCHANGED <<lv, lt, mem, veh>>
  BY <1>1, <1>2, BeginStill DEF Begun, Still, tables
<1>4. Owing(req[p])'
  BY <1>3 DEF UpdateTrain, Owing, Loading, OfVehicle, FunctionOps, SlotOps, TemplateOps
<1>5. \A u \in Vehicle : Refers(req'[p], u) => life[u] # "new"
  BY <1>3 DEF UpdateTrain, ValidMembers, Refers, Loading, OfVehicle, FunctionOps, SlotOps, TemplateOps, Live
<1> QED BY <1>2, <1>4, <1>5, BeginSnap

LEMMA SnapDeleteTrain ==
  ASSUME RowInv, SnapInv, NEW p \in Proc, NEW t \in Train, DeleteTrain(p, t)
  PROVE  SnapInv'
<1>1. Types
  BY DEF RowInv
<1>2. Begin(p, "deleteTrain", {t}, {}, t, {l \in Layout : t \in lt[l]})
  BY DEF DeleteTrain
<1>3. /\ req'[p].op = "deleteTrain" /\ req'[p].on = {t} /\ req'[p].x = t
      /\ req'[p].todo = {l \in Layout : t \in lt[l]}
      /\ UNCHANGED <<lv, lt, mem, veh>>
  BY <1>1, <1>2, BeginStill DEF Begun, Still, tables
<1>4. Owing(req[p])'
  BY <1>3 DEF DeleteTrain, Owing, Loading, OfVehicle, FunctionOps, SlotOps, TemplateOps
<1>5. \A u \in Vehicle : Refers(req'[p], u) => life[u] # "new"
  BY <1>3 DEF DeleteTrain, ValidMembers, Refers, Loading, OfVehicle, FunctionOps, SlotOps, TemplateOps, Live
<1> QED BY <1>2, <1>4, <1>5, BeginSnap

LEMMA SnapAddVehicle ==
  ASSUME RowInv, SnapInv, NEW p \in Proc, NEW l \in Layout, NEW v \in Vehicle, AddVehicle(p, l, v)
  PROVE  SnapInv'
<1>1. Types
  BY DEF RowInv
<1>2. Begin(p, "addVehicle", {l, v}, {}, <<l, v>>, {l})
  BY DEF AddVehicle
<1>3. /\ req'[p].op = "addVehicle" /\ req'[p].on = {l, v} /\ req'[p].x = <<l, v>>
      /\ req'[p].todo = {l}
      /\ UNCHANGED <<lv, lt, mem, veh>>
  BY <1>1, <1>2, BeginStill DEF Begun, Still, tables
<1>4. Owing(req[p])'
  BY <1>3 DEF AddVehicle, Owing, Loading, OfVehicle, FunctionOps, SlotOps, TemplateOps
<1>5. \A u \in Vehicle : Refers(req'[p], u) => life[u] # "new"
  BY <1>3 DEF AddVehicle, ValidMembers, Refers, Loading, OfVehicle, FunctionOps, SlotOps, TemplateOps, Live
<1> QED BY <1>2, <1>4, <1>5, BeginSnap

LEMMA SnapRemoveVehicle ==
  ASSUME RowInv, SnapInv, NEW p \in Proc, NEW l \in Layout, NEW v \in Vehicle, RemoveVehicle(p, l, v)
  PROVE  SnapInv'
<1>1. Types
  BY DEF RowInv
<1>2. Begin(p, "removeVehicle", {l, v}, {}, <<l, v>>, {l})
  BY DEF RemoveVehicle
<1>3. /\ req'[p].op = "removeVehicle" /\ req'[p].on = {l, v} /\ req'[p].x = <<l, v>>
      /\ req'[p].todo = {l}
      /\ UNCHANGED <<lv, lt, mem, veh>>
  BY <1>1, <1>2, BeginStill DEF Begun, Still, tables
<1>4. Owing(req[p])'
  BY <1>3 DEF RemoveVehicle, Owing, Loading, OfVehicle, FunctionOps, SlotOps, TemplateOps
<1>5. \A u \in Vehicle : Refers(req'[p], u) => life[u] # "new"
  BY <1>3 DEF RemoveVehicle, ValidMembers, Refers, Loading, OfVehicle, FunctionOps, SlotOps, TemplateOps, Live
<1> QED BY <1>2, <1>4, <1>5, BeginSnap

LEMMA SnapAddTrain ==
  ASSUME RowInv, SnapInv, NEW p \in Proc, NEW l \in Layout, NEW t \in Train, AddTrain(p, l, t)
  PROVE  SnapInv'
<1>1. Types
  BY DEF RowInv
<1>2. Begin(p, "addTrain", {l, t}, {}, <<l, t>>, {l})
  BY DEF AddTrain
<1>3. /\ req'[p].op = "addTrain" /\ req'[p].on = {l, t} /\ req'[p].x = <<l, t>>
      /\ req'[p].todo = {l}
      /\ UNCHANGED <<lv, lt, mem, veh>>
  BY <1>1, <1>2, BeginStill DEF Begun, Still, tables
<1>4. Owing(req[p])'
  BY <1>3 DEF AddTrain, Owing, Loading, OfVehicle, FunctionOps, SlotOps, TemplateOps
<1>5. \A u \in Vehicle : Refers(req'[p], u) => life[u] # "new"
  BY <1>3 DEF AddTrain, ValidMembers, Refers, Loading, OfVehicle, FunctionOps, SlotOps, TemplateOps, Live
<1> QED BY <1>2, <1>4, <1>5, BeginSnap

LEMMA SnapRemoveTrain ==
  ASSUME RowInv, SnapInv, NEW p \in Proc, NEW l \in Layout, NEW t \in Train, RemoveTrain(p, l, t)
  PROVE  SnapInv'
<1>1. Types
  BY DEF RowInv
<1>2. Begin(p, "removeTrain", {l, t}, {}, <<l, t>>, {l})
  BY DEF RemoveTrain
<1>3. /\ req'[p].op = "removeTrain" /\ req'[p].on = {l, t} /\ req'[p].x = <<l, t>>
      /\ req'[p].todo = {l}
      /\ UNCHANGED <<lv, lt, mem, veh>>
  BY <1>1, <1>2, BeginStill DEF Begun, Still, tables
<1>4. Owing(req[p])'
  BY <1>3 DEF RemoveTrain, Owing, Loading, OfVehicle, FunctionOps, SlotOps, TemplateOps
<1>5. \A u \in Vehicle : Refers(req'[p], u) => life[u] # "new"
  BY <1>3 DEF RemoveTrain, ValidMembers, Refers, Loading, OfVehicle, FunctionOps, SlotOps, TemplateOps, Live
<1> QED BY <1>2, <1>4, <1>5, BeginSnap

LEMMA SnapEditSlot ==
  ASSUME RowInv, SnapInv, NEW p \in Proc, NEW v \in Vehicle, NEW op \in SlotOps, NEW f, EditSlot(p, v, op, f)
  PROVE  SnapInv'
<1>1. Types
  BY DEF RowInv
<1>2. Begin(p, op, {v}, {v}, f, {})
  BY DEF EditSlot
<1>3. /\ req'[p].op = op /\ req'[p].on = {v} /\ req'[p].x = f
      /\ req'[p].todo = {} /\ req'[p].row = [u \in {v} |-> veh[u]]
      /\ UNCHANGED <<lv, lt, mem, veh>>
  BY <1>1, <1>2, BeginFacts DEF Begun, tables
<1>4. Owing(req[p])'
  BY <1>3 DEF EditSlot, Owing, Loading, OfVehicle, FunctionOps, SlotOps, TemplateOps
<1>5. \A u \in Vehicle : Refers(req'[p], u) => life[u] # "new"
  BY <1>3 DEF EditSlot, ValidMembers, Refers, Loading, OfVehicle, FunctionOps, SlotOps, TemplateOps, Live
<1> QED BY <1>2, <1>4, <1>5, BeginSnap

LEMMA SnapAttachVehicleToTemplate ==
  ASSUME RowInv, SnapInv, NEW p \in Proc, NEW v \in Vehicle, NEW m \in Template, AttachVehicleToTemplate(p, v, m)
  PROVE  SnapInv'
<1>1. Types
  BY DEF RowInv
<1>2. Begin(p, "attachTemplate", {v}, {v}, <<m, {}>>, {})
  BY DEF AttachVehicleToTemplate
<1>3. /\ req'[p].op = "attachTemplate" /\ req'[p].on = {v} /\ req'[p].x = <<m, {}>>
      /\ req'[p].todo = {} /\ req'[p].row = [u \in {v} |-> veh[u]]
      /\ UNCHANGED <<lv, lt, mem, veh>>
  BY <1>1, <1>2, BeginFacts DEF Begun, tables
<1>4. Owing(req[p])'
  BY <1>3 DEF AttachVehicleToTemplate, Owing, Loading, OfVehicle, FunctionOps, SlotOps, TemplateOps
<1>5. \A u \in Vehicle : Refers(req'[p], u) => life[u] # "new"
  BY <1>3 DEF AttachVehicleToTemplate, ValidMembers, Refers, Loading, OfVehicle, FunctionOps, SlotOps, TemplateOps, Live
<1> QED BY <1>2, <1>4, <1>5, BeginSnap

LEMMA SnapCopyVehicleFunctionsFromVehicle ==
  ASSUME RowInv, SnapInv, NEW p \in Proc, NEW v \in Vehicle, NEW w \in Vehicle, CopyVehicleFunctionsFromVehicle(p, v, w)
  PROVE  SnapInv'
<1>1. Types
  BY DEF RowInv
<1>2. Begin(p, "copyFunctions", {v}, {v}, <<None, Functions(w)>>, {})
  BY DEF CopyVehicleFunctionsFromVehicle
<1>3. /\ req'[p].op = "copyFunctions" /\ req'[p].on = {v} /\ req'[p].x = <<None, Functions(w)>>
      /\ req'[p].todo = {} /\ req'[p].row = [u \in {v} |-> veh[u]]
      /\ UNCHANGED <<lv, lt, mem, veh>>
  BY <1>1, <1>2, BeginFacts DEF Begun, tables
<1>4. Owing(req[p])'
  BY <1>3 DEF CopyVehicleFunctionsFromVehicle, Owing, Loading, OfVehicle, FunctionOps, SlotOps, TemplateOps
<1>5. \A u \in Vehicle : Refers(req'[p], u) => life[u] # "new"
  BY <1>3 DEF CopyVehicleFunctionsFromVehicle, ValidMembers, Refers, Loading, OfVehicle, FunctionOps, SlotOps, TemplateOps, Live
<1> QED BY <1>2, <1>4, <1>5, BeginSnap

LEMMA SnapEditTemplate ==
  ASSUME RowInv, SnapInv, NEW p \in Proc, NEW m \in Template, NEW op \in TemplateOps, NEW f, EditTemplate(p, m, op, f)
  PROVE  SnapInv'
<1>1. Types
  BY DEF RowInv
<1>2. Begin(p, op, {}, {}, <<m, f>>, {})
  BY DEF EditTemplate
<1>3. /\ req'[p].op = op /\ req'[p].on = {} /\ req'[p].x = <<m, f>>
      /\ req'[p].todo = {}
      /\ UNCHANGED <<lv, lt, mem, veh>>
  BY <1>1, <1>2, BeginStill DEF Begun, Still, tables
<1>4. Owing(req[p])'
  BY <1>3 DEF EditTemplate, Owing, Loading, OfVehicle, FunctionOps, SlotOps, TemplateOps
<1>5. \A u \in Vehicle : Refers(req'[p], u) => life[u] # "new"
  BY <1>3 DEF EditTemplate, ValidMembers, Refers, Loading, OfVehicle, FunctionOps, SlotOps, TemplateOps, Live
<1> QED BY <1>2, <1>4, <1>5, BeginSnap

LEMMA SnapCreateLayout ==
  ASSUME RowInv, SnapInv, NEW p \in Proc, NEW l \in Layout, NEW S \in SUBSET Station, CreateLayout(p, l, S)
  PROVE  SnapInv'
<1>1. Types
  BY DEF RowInv
<1>2. Begin(p, "createLayout", {l} \cup S, {}, <<l, S>>, {})
  BY DEF CreateLayout
<1>3. /\ req'[p].op = "createLayout" /\ req'[p].on = {l} \cup S /\ req'[p].x = <<l, S>>
      /\ req'[p].todo = {}
      /\ UNCHANGED <<lv, lt, mem, veh>>
  BY <1>1, <1>2, BeginStill DEF Begun, Still, tables
<1>4. Owing(req[p])'
  BY <1>3 DEF CreateLayout, Owing, Loading, OfVehicle, FunctionOps, SlotOps, TemplateOps
<1>5. \A u \in Vehicle : Refers(req'[p], u) => life[u] # "new"
  BY <1>3 DEF CreateLayout, ValidMembers, Refers, Loading, OfVehicle, FunctionOps, SlotOps, TemplateOps, Live
<1> QED BY <1>2, <1>4, <1>5, BeginSnap

LEMMA SnapSetCommandStations ==
  ASSUME RowInv, SnapInv, NEW p \in Proc, NEW l \in Layout, NEW S \in SUBSET Station, SetCommandStations(p, l, S)
  PROVE  SnapInv'
<1>1. Types
  BY DEF RowInv
<1>2. Begin(p, "setStations", {l} \cup S, {}, <<l, S>>, {})
  BY DEF SetCommandStations
<1>3. /\ req'[p].op = "setStations" /\ req'[p].on = {l} \cup S /\ req'[p].x = <<l, S>>
      /\ req'[p].todo = {}
      /\ UNCHANGED <<lv, lt, mem, veh>>
  BY <1>1, <1>2, BeginStill DEF Begun, Still, tables
<1>4. Owing(req[p])'
  BY <1>3 DEF SetCommandStations, Owing, Loading, OfVehicle, FunctionOps, SlotOps, TemplateOps
<1>5. \A u \in Vehicle : Refers(req'[p], u) => life[u] # "new"
  BY <1>3 DEF SetCommandStations, ValidMembers, Refers, Loading, OfVehicle, FunctionOps, SlotOps, TemplateOps, Live
<1> QED BY <1>2, <1>4, <1>5, BeginSnap

LEMMA SnapDeleteLayout ==
  ASSUME RowInv, SnapInv, NEW p \in Proc, NEW l \in Layout, DeleteLayout(p, l)
  PROVE  SnapInv'
<1>1. Types
  BY DEF RowInv
<1>2. Begin(p, "deleteLayout", {l}, {}, l, {})
  BY DEF DeleteLayout
<1>3. /\ req'[p].op = "deleteLayout" /\ req'[p].on = {l} /\ req'[p].x = l
      /\ req'[p].todo = {}
      /\ UNCHANGED <<lv, lt, mem, veh>>
  BY <1>1, <1>2, BeginStill DEF Begun, Still, tables
<1>4. Owing(req[p])'
  BY <1>3 DEF DeleteLayout, Owing, Loading, OfVehicle, FunctionOps, SlotOps, TemplateOps
<1>5. \A u \in Vehicle : Refers(req'[p], u) => life[u] # "new"
  BY <1>3 DEF DeleteLayout, ValidMembers, Refers, Loading, OfVehicle, FunctionOps, SlotOps, TemplateOps, Live
<1> QED BY <1>2, <1>4, <1>5, BeginSnap

LEMMA SnapDeleteStation ==
  ASSUME RowInv, SnapInv, NEW p \in Proc, NEW s \in Station, DeleteStation(p, s)
  PROVE  SnapInv'
<1>1. Types
  BY DEF RowInv
<1>2. Begin(p, "deleteStation", {s} \cup Layout, {}, s, {})
  BY DEF DeleteStation
<1>3. /\ req'[p].op = "deleteStation" /\ req'[p].on = {s} \cup Layout /\ req'[p].x = s
      /\ req'[p].todo = {}
      /\ UNCHANGED <<lv, lt, mem, veh>>
  BY <1>1, <1>2, BeginStill DEF Begun, Still, tables
<1>4. Owing(req[p])'
  BY <1>3 DEF DeleteStation, Owing, Loading, OfVehicle, FunctionOps, SlotOps, TemplateOps
<1>5. \A u \in Vehicle : Refers(req'[p], u) => life[u] # "new"
  BY <1>3 DEF DeleteStation, ValidMembers, Refers, Loading, OfVehicle, FunctionOps, SlotOps, TemplateOps, Live
<1> QED BY <1>2, <1>4, <1>5, BeginSnap

LEMMA ConcernIs ==
  ASSUME NEW r, NEW l \in Layout, Touches(r, l)
  PROVE  l \in Concerned(r)
<1>1. \A v : Carried(v, l) => l \in Hosts(v)
  BY DEF Carried, Hosts
<1>2. CASE r.op \in {"updateVehicle", "clearDCC"}
  <2>1. PICK v \in r.on : Carried(v, l)
    BY <1>2 DEF Touches, TemplateOps
  <2>2. l \in UNION {Hosts(u) : u \in r.on}
    BY <1>1, <2>1
  <2> QED BY <1>2, <2>2 DEF Concerned, TemplateOps
<1>3. CASE r.op \notin {"updateVehicle", "clearDCC"}
  BY <1>3 DEF Touches, Concerned, TemplateOps
<1> QED BY <1>2, <1>3

\* Looking layouts up and reading a roster.
LEMMA SyncSnap ==
  ASSUME RowInv, SnapInv, NEW p \in Proc, Landed(p), UNCHANGED tables, UNCHANGED <<snap, torn>>,
         req[p].pc \in {"list", "sync"}, IsView(req'[p].view),
         req'[p] = Idle \/ Onward(req[p], req'[p]),
         \A l \in Layout : Owes(req[p], l) => Syncing(req[p], l)',
         req'[p].pc = "publish" => req'[p].view = View(req'[p].at)
  PROVE  SnapInv'
<1>1. Types /\ OthersSame(p)
  BY DEF RowInv, Landed
<1>2. \A q \in Proc \ {p} : req'[q] = req[q] /\ Same(req[q], req'[q])
  BY <1>1 DEF OthersSame, Same
<1>3. ASSUME NEW l \in Layout, Owes(req[p], l) PROVE Full(req[p]) => Full(req[p])'
  <2>1. Syncing(req[p], l)'
    BY <1>3
  <2>2. Onward(req[p], req'[p])
    BY <2>1, IdleShape DEF Syncing
  <2> QED BY <2>2 DEF Onward, Full
<1>4. ASSUME NEW q \in Proc, NEW l \in Layout, Owes(req[q], l)
      PROVE  Owes(req[q], l)' /\ (Full(req[q]) => Full(req[q])')
  <2>1. CASE q = p
    BY <1>3, <1>4, <2>1 DEF Owes
  <2>2. CASE q # p
    BY <1>2, <1>4, <2>2, StillViews, OwesKept DEF Full
  <2> QED BY <2>1, <2>2
<1>5. ASSUME NEW l \in Layout PROVE Remembers(l)
  <2>1. ASSUME NEW q \in Proc, Full(req[q]), Syncing(req[q], l)
        PROVE  Full(req[q])' /\ Syncing(req[q], l)'
    <3>1. CASE q = p
      BY <1>4, <2>1, <3>1 DEF Owes
    <3>2. CASE q # p
      BY <1>2, <2>1, <3>2 DEF Same, Full, Syncing
    <3> QED BY <3>1, <3>2
  <2>2. Firm(l) => Firm(l)'
    BY <2>1 DEF Firm
  <2>3. Marked(l) => Marked(l)'
    BY <1>4 DEF Marked
  <2> QED BY <2>2, <2>3 DEF Remembers
<1>6. Views'
  BY <1>2 DEF SnapInv, Views
<1>7. NotYet'
  <2>1. \A q \in Proc, v \in Vehicle : Refers(req'[q], v) => Refers(req[q], v)
    BY <1>2 DEF Landed, Refers
  <2> QED BY <2>1 DEF SnapInv, NotYet, Unborn, tables
<1>8. Alone'
  <2>1. ASSUME NEW q \in Proc, NEW s \in Proc \ {q}, req'[q].pc # "idle", req'[q].solo
        PROVE  req'[s].pc = "idle"
    <3>1. CASE q = p
      <4>1. req[p].solo
        BY <2>1, <3>1, IdleShape DEF Onward
      <4> QED BY <1>2, <2>1, <3>1, <4>1 DEF SnapInv, Alone
    <3>2. CASE q # p
      BY <1>2, <2>1, <3>2 DEF SnapInv, Alone
    <3> QED BY <3>1, <3>2
  <2> QED BY <2>1 DEF Alone
<1>9. Fresh'
  <2>1. ASSUME NEW q \in Proc, req'[q].pc = "publish", req'[q].solo
        PROVE  req'[q].view = View(req[q].at)'
    <3>1. CASE q = p
      BY <2>1, <3>1 DEF tables, View, Drivable, TrainView, FunctionView, Functions, Live
    <3>2. CASE q # p
      BY <1>2, <2>1, <3>2 DEF SnapInv, Alone
    <3> QED BY <3>1, <3>2
  <2> QED BY <2>1 DEF Fresh
<1>10. ASSUME NEW q \in Proc PROVE Owing(req[q])'
  <2>1. CASE q = p
    BY <2>1 DEF Landed, Owing
  <2>2. CASE q # p
    BY <1>2, <1>5, <2>2, OwingStill DEF SnapInv
  <2> QED BY <2>1, <2>2
<1>11. ASSUME NEW l \in Layout, life'[l] # "gone" PROVE Told(l)'
  <2>1. Told(l) /\ snap'[l] = snap[l]
    BY <1>11 DEF SnapInv, tables
  <2>2. (\E q \in Proc : Owes(req[q], l)) => (\E q \in Proc : Owes(req[q], l)')
    BY <1>4
  <2> QED BY <1>5, <2>1, <2>2, ToldStill
<1> QED BY <1>6, <1>7, <1>8, <1>9, <1>10, <1>11 DEF SnapInv

LEMMA SnapListing ==
  ASSUME RowInv, SnapInv, NEW p \in Proc,
         ListLayouts(p) \/ NothingToSync(p) \/ \E l \in Layout : ReadRoster(p, l)
  PROVE  SnapInv'
<1>1. Types
  BY DEF RowInv
<1>2. IsView(Idle.view) /\ Idle.pc = "idle"
  BY DEF Idle, Empty, IsView
<1>3. CASE ListLayouts(p)
  <2>1. PICK ls : ls = IF Publish(p) THEN req[p].todo \ {req[p].at} ELSE Concerned(req[p])
    OBVIOUS
  <2>2. req[p].pc = "list" /\ ~Publish(p)
    BY <1>3 DEF ListLayouts, Publish
  <2>3. Landed(p) /\ UNCHANGED <<tables, snap, torn>> /\ Onto(p, ls) /\ req'[p].view = Empty
    BY <1>1, <1>3, <2>1, <2>2, SettleFacts
  <2>4. ASSUME NEW l \in Layout, Owes(req[p], l) PROVE Syncing(req[p], l)'
    <3>1. l \in ls
      BY <2>1, <2>2, <2>4, ConcernIs DEF Owes, Syncing
    <3> QED BY <2>3, <3>1 DEF Syncing, Onto
  <2>5. req'[p].pc # "publish" /\ (req'[p] = Idle \/ Onward(req[p], req'[p]))
    BY <1>2, <2>3 DEF Onto
  <2>6. IsView(req'[p].view)
    BY <2>3 DEF IsView, Empty
  <2> QED BY <2>2, <2>3, <2>4, <2>5, <2>6, SyncSnap
<1>4. CASE NothingToSync(p)
  <2>1. Landed(p) /\ req'[p] = Idle /\ UNCHANGED <<tables, snap, torn>>
    BY <1>1, <1>4, LandedEnd DEF NothingToSync, Kept
  <2>2. req[p].pc = "sync" /\ req[p].todo = {}
    BY <1>4 DEF NothingToSync
  <2>3. \A l \in Layout : ~Owes(req[p], l)
    BY <2>2 DEF Owes, Syncing
  <2> QED BY <1>2, <2>1, <2>2, <2>3, SyncSnap
<1>5. CASE \E l \in Layout : ReadRoster(p, l)
  <2>1. PICK l \in Layout : ReadRoster(p, l)
    BY <1>5
  <2>2. /\ Landed(p) /\ UNCHANGED <<tables, snap, torn>> /\ Onward(req[p], req'[p])
        /\ req'[p].pc = "publish" /\ req'[p].todo = req[p].todo
        /\ req'[p].at = l /\ req'[p].view = View(l)
    BY <1>1, <2>1, ReadFacts
  <2>3. req[p].pc = "sync"
    BY <2>1 DEF ReadRoster
  <2>4. IsView(View(l))
    BY DEF View, IsView
  <2>5. \A k \in Layout : Owes(req[p], k) => Syncing(req[p], k)'
    BY <2>2, <2>3 DEF Owes, Syncing
  <2> QED BY <2>2, <2>3, <2>4, <2>5, SyncSnap
<1> QED BY <1>3, <1>4, <1>5

\* What a request goes on with is still owed.
LEMMA PaidOthers ==
  ASSUME RowInv, NEW p \in Proc, Landed(p), NEW ls \in SUBSET Layout, Onto(p, ls),
         UNCHANGED tables, NEW l \in Layout, Owes(req[p], l) => l \in ls, l \in torn => l \in torn'
  PROVE  /\ Remembers(l)
         /\ (\E q \in Proc : Owes(req[q], l)) => (\E q \in Proc : Owes(req[q], l)')
<1>1. \A q \in Proc \ {p} : req'[q] = req[q] /\ Same(req[q], req'[q])
  BY DEF Landed, OthersSame, Same
<1>2. l \in ls => Syncing(req[p], l)' /\ (Full(req[p]) => Full(req[p])')
  BY DEF Onto, Syncing, Onward, Full
<1>3. Owes(req[p], l) => l \in ls
  OBVIOUS
<1>4. ASSUME NEW q \in Proc, Owes(req[q], l)
      PROVE  Owes(req[q], l)' /\ (Full(req[q]) => Full(req[q])')
  <2>1. CASE q = p
    BY <1>2, <1>3, <1>4, <2>1 DEF Owes
  <2>2. CASE q # p
    BY <1>1, <1>4, <2>2, StillViews, OwesKept DEF Full
  <2> QED BY <2>1, <2>2
<1>5. ASSUME NEW q \in Proc, Full(req[q]), Syncing(req[q], l)
      PROVE  Full(req[q])' /\ Syncing(req[q], l)'
  <2>1. CASE q = p
    BY <1>2, <1>3, <1>5, <2>1 DEF Owes
  <2>2. CASE q # p
    BY <1>1, <1>5, <2>2 DEF Same, Full, Syncing
  <2> QED BY <2>1, <2>2
<1>6. Firm(l) => Firm(l)'
  BY <1>5 DEF Firm
<1>7. Marked(l) => Marked(l)'
  BY <1>4 DEF Marked
<1> QED BY <1>4, <1>6, <1>7 DEF Remembers

\* What every publication leaves as it was.
LEMMA PaidRest ==
  ASSUME RowInv, SnapInv, NEW p \in Proc, req[p].pc \in {"list", "publish"}, Landed(p), NEW ls,
         Onto(p, ls), IsView(req'[p].view), UNCHANGED tables
  PROVE  NotYet' /\ Alone' /\ Fresh' /\ \A q \in Proc : IsView(req'[q].view)
<1>1. \A q \in Proc \ {p} : req'[q] = req[q]
  BY DEF Landed, OthersSame
<1>2. NotYet'
  <2>1. \A q \in Proc, v \in Vehicle : Refers(req'[q], v) => Refers(req[q], v)
    BY <1>1 DEF Landed, Refers
  <2> QED BY <2>1 DEF SnapInv, NotYet, Unborn, tables
<1>3. Alone'
  <2>1. ASSUME NEW q \in Proc, NEW s \in Proc \ {q}, req'[q].pc # "idle", req'[q].solo
        PROVE  req'[s].pc = "idle"
    <3>1. CASE q = p
      <4>1. req[p].solo
        BY <2>1, <3>1, IdleShape DEF Onto, Onward
      <4> QED BY <1>1, <2>1, <3>1, <4>1 DEF SnapInv, Alone
    <3>2. CASE q # p
      BY <1>1, <2>1, <3>2 DEF SnapInv, Alone
    <3> QED BY <3>1, <3>2
  <2> QED BY <2>1 DEF Alone
<1>4. Fresh'
  <2>1. ASSUME NEW q \in Proc, req'[q].pc = "publish", req'[q].solo PROVE FALSE
    <3>1. q # p
      BY <2>1, IdleShape DEF Onto
    <3> QED BY <1>1, <2>1, <3>1 DEF SnapInv, Alone
  <2> QED BY <2>1 DEF Fresh
<1> QED BY <1>1, <1>2, <1>3, <1>4 DEF SnapInv, Views

\* A publication that failed, or met another request, is on record.
LEMMA SnapTorn ==
  ASSUME RowInv, SnapInv, NEW p \in Proc, req[p].pc \in {"list", "publish"},
         Landed(p), NEW S \in SUBSET Layout, NEW ls \in SUBSET Layout, Onto(p, ls),
         IsView(req'[p].view), UNCHANGED tables, torn' = torn \cup S,
         \A l \in Layout \ S : Owes(req[p], l) => l \in ls,
         snap' = [l \in Layout |-> snap'[l]], \A l \in Layout : IsView(snap'[l]),
         \A l \in Layout \ S : snap'[l] = snap[l]
  PROVE  SnapInv'
<1>1. NotYet' /\ Alone' /\ Fresh' /\ Views'
  BY PaidRest DEF Views
<1>2. ASSUME NEW l \in Layout PROVE Remembers(l)
  <2>1. CASE l \in S
    BY <2>1 DEF Remembers, Firm, Marked
  <2>2. CASE l \notin S
    BY <2>2, PaidOthers
  <2> QED BY <2>1, <2>2
<1>3. ASSUME NEW q \in Proc PROVE Owing(req[q])'
  <2>1. CASE q = p
    BY <2>1 DEF Landed, Owing
  <2>2. CASE q # p
    <3>1. Same(req[q], req'[q])
      BY <2>2 DEF Landed, OthersSame, Same
    <3> QED BY <1>2, <3>1, OwingStill DEF SnapInv
  <2> QED BY <2>1, <2>2
<1>4. ASSUME NEW l \in Layout, life'[l] # "gone" PROVE Told(l)'
  <2>1. CASE l \in S
    BY <2>1 DEF Told, Marked
  <2>2. CASE l \notin S
    <3>1. Told(l) /\ snap'[l] = snap[l]
      BY <1>4, <2>2 DEF SnapInv, tables
    <3>2. (\E q \in Proc : Owes(req[q], l)) => (\E q \in Proc : Owes(req[q], l)')
      BY <2>2, PaidOthers
    <3> QED BY <1>2, <3>1, <3>2, ToldStill
  <2> QED BY <2>1, <2>2
<1> QED BY <1>1, <1>3, <1>4 DEF SnapInv

\* A request that runs alone publishes what the tables say.
LEMMA SnapAlone ==
  ASSUME RowInv, SnapInv, NEW p \in Proc, req[p].pc = "publish", NEW k \in Layout, req[p].at = k,
         Landed(p), NEW ls \in SUBSET Layout, ls = req[p].todo \ {k}, Onto(p, ls),
         IsView(req'[p].view), UNCHANGED tables, req[p].solo,
         torn' = torn \/ (Full(req[p]) /\ torn' = torn \ {k}),
         snap' = [l \in Layout |-> snap'[l]], \A l \in Layout : IsView(snap'[l]),
         \A l \in Layout \ {k} : snap'[l] = snap[l],
         snap'[k].functions = req[p].view.functions,
         \/ snap'[k] = req[p].view
         \/ /\ ~Full(req[p]) /\ snap'[k].vehicles = snap[k].vehicles /\ snap'[k].trains = snap[k].trains
  PROVE  SnapInv'
<1>1. NotYet' /\ Alone' /\ Fresh' /\ Views'
  BY PaidRest DEF Views
<1>2. \A q \in Proc \ {p} : req[q].pc = "idle" /\ req'[q].pc = "idle"
  BY DEF SnapInv, Alone, Landed, OthersSame
<1>3. ASSUME NEW q \in Proc PROVE Owing(req[q])'
  BY <1>2 DEF Landed, Owing
<1>4. req[p].view = View(k)
  BY DEF SnapInv, Fresh
<1>5. /\ View(k).vehicles = VehicleView(k) /\ View(k).trains = TrainView(k)
      /\ View(k).functions = FunctionView(k)
  BY DEF View, VehicleView
<1>6. /\ VehicleView(k)' = VehicleView(k) /\ TrainView(k)' = TrainView(k)
      /\ FunctionView(k)' = FunctionView(k)
  BY StillViews
<1>7. ASSUME life'[k] # "gone" PROVE Told(k)'
  <2>1. snap'[k].functions = FunctionView(k)'
    BY <1>4, <1>5, <1>6
  <2>2. CASE snap'[k] = req[p].view
    <3>1. snap'[k].vehicles = VehicleView(k)' /\ snap'[k].trains = TrainView(k)'
      BY <1>4, <1>5, <1>6, <2>2
    <3> QED BY <2>1, <3>1 DEF Told
  <2>3. CASE ~Full(req[p]) /\ snap'[k].vehicles = snap[k].vehicles /\ snap'[k].trains = snap[k].trains
    <3>1. torn' = torn /\ Told(k)
      BY <1>7, <2>3 DEF SnapInv, tables
    <3>2. Marked(k) => k \in torn
      BY <1>2, <2>3 DEF Marked, Owes, Syncing
    <3>3. CASE k \in torn
      BY <3>1, <3>3 DEF Told, Marked
    <3>4. CASE k \notin torn
      <4>1. snap[k].vehicles = VehicleView(k) /\ snap[k].trains = TrainView(k)
        BY <3>1, <3>2, <3>4 DEF Told
      <4>2. snap'[k].vehicles = VehicleView(k)' /\ snap'[k].trains = TrainView(k)'
        BY <1>6, <2>3, <4>1
      <4> QED BY <2>1, <4>2 DEF Told
    <3> QED BY <3>3, <3>4
  <2> QED BY <2>2, <2>3
<1>8. ASSUME NEW l \in Layout \ {k}, life'[l] # "gone" PROVE Told(l)'
  <2>1. Told(l) /\ snap'[l] = snap[l]
    BY <1>8 DEF SnapInv, tables
  <2>2. Owes(req[p], l) => l \in ls
    BY <1>8 DEF Owes, Syncing
  <2>3. /\ Remembers(l)
        /\ (\E q \in Proc : Owes(req[q], l)) => (\E q \in Proc : Owes(req[q], l)')
    BY <2>2, PaidOthers
  <2> QED BY <2>1, <2>3, ToldStill
<1> QED BY <1>1, <1>3, <1>7, <1>8 DEF SnapInv

LEMMA SnapPublish ==
  ASSUME RowInv, SnapInv, NEW p \in Proc, Publish(p)
  PROVE  SnapInv'
<1> DEFINE r == req[p]
<1>a. PICK ls : ls = IF Publish(p) THEN r.todo \ {r.at} ELSE Concerned(r)
  OBVIOUS
<1>b. /\ r.pc = "publish" /\ r.at \in Layout /\ Landed(p) /\ Onto(p, ls) /\ UNCHANGED tables
      /\ req'[p].view = Empty /\ ls \in SUBSET Layout
  BY <1>a, SettleFacts DEF RowInv
<1>1. /\ r.pc = "publish" /\ r.at \in Layout /\ Landed(p) /\ Onto(p, ls) /\ UNCHANGED tables
      /\ IsView(req'[p].view) /\ ls \in SUBSET Layout /\ ls = r.todo \ {r.at}
  BY <1>a, <1>b DEF IsView, Empty
<1>2. PICK k \in Layout : r.at = k
  BY <1>1
<1>3. /\ snap' = [snap EXCEPT ![k] = IF Full(r) THEN r.view
                                     ELSE [@ EXCEPT !.functions = r.view.functions]]
      /\ torn' = IF ~r.solo THEN torn \cup {k} ELSE IF Full(r) THEN torn \ {k} ELSE torn
  BY <1>2 DEF Publish, Full
<1>4. /\ snap = [l \in Layout |-> snap[l]] /\ \A l \in Layout : IsView(snap[l])
      /\ IsView(r.view)
  BY DEF SnapInv, Views
<1> DEFINE new == [snap[k] EXCEPT !.functions = r.view.functions]
<1>5. /\ new.vehicles = snap[k].vehicles /\ new.trains = snap[k].trains
      /\ new.functions = r.view.functions /\ IsView(new)
  BY <1>4 DEF IsView
<1>6. /\ snap' = [l \in Layout |-> snap'[l]] /\ \A l \in Layout \ {k} : snap'[l] = snap[l]
      /\ snap'[k] = IF Full(r) THEN r.view ELSE new
  BY <1>3, <1>4
<1> HIDE DEF new
<1>7. \A l \in Layout : IsView(snap'[l])
  BY <1>4, <1>5, <1>6
<1>8. CASE ~r.solo
  <2>1. PICK S \in SUBSET Layout : S = {k}
    OBVIOUS
  <2>2. torn' = torn \cup S /\ \A l \in Layout \ S : snap'[l] = snap[l]
    BY <1>3, <1>6, <1>8, <2>1
  <2>3. \A l \in Layout \ S : Owes(r, l) => l \in ls
    BY <1>1, <1>2, <2>1 DEF Owes, Syncing
  <2> QED BY <1>1, <1>6, <1>7, <2>2, <2>3, SnapTorn
<1>9. CASE r.solo
  <2>1. torn' = torn \/ (Full(r) /\ torn' = torn \ {k})
    BY <1>3, <1>9
  <2>2. /\ snap'[k].functions = r.view.functions
        /\ \/ snap'[k] = r.view
           \/ /\ ~Full(r) /\ snap'[k].vehicles = snap[k].vehicles
              /\ snap'[k].trains = snap[k].trains
    BY <1>5, <1>6
  <2> QED BY <1>1, <1>2, <1>6, <1>7, <1>9, <2>1, <2>2, SnapAlone
<1> QED BY <1>8, <1>9

\* What was published of a layout before the error stays.
LEMMA HalfPublished ==
  ASSUME SnapInv, NEW p \in Proc, PublishFails(p), NEW S, req[p].at \in S
  PROVE  /\ snap' = [l \in Layout |-> snap'[l]] /\ \A l \in Layout : IsView(snap'[l])
         /\ \A l \in Layout \ S : snap'[l] = snap[l]
<1>1. snap = [l \in Layout |-> snap[l]] /\ \A l \in Layout : IsView(snap[l])
  BY DEF SnapInv, Views
<1> DEFINE a == req[p].at
           Half(parts) == [k \in DOMAIN Empty |-> IF k \in parts THEN req[p].view[k] ELSE snap[a][k]]
<1>2. PICK parts : snap' = [snap EXCEPT ![a] = Half(parts)]
  <2>1. PICK parts : snap' = [snap EXCEPT ![a] = [k \in DOMAIN Empty |->
                                IF k \in parts THEN req[p].view[k] ELSE @[k]]]
    BY DEF PublishFails
  <2>2. snap' = [snap EXCEPT ![a] = Half(parts)]
    BY <2>1
  <2> QED BY <2>2
<1>3. IsView(Half(parts))
  <2>1. DOMAIN Empty = {"vehicles", "trains", "functions"}
    BY DEF Empty
  <2> QED BY <2>1 DEF IsView
<1> HIDE DEF Half
<1> QED BY <1>1, <1>2, <1>3

LEMMA SnapFails ==
  ASSUME RowInv, SnapInv, NEW p \in Proc, PublishFails(p) \/ ListFails(p)
  PROVE  SnapInv'
<1>1. PICK S, ls \in SUBSET Layout : Drops(p, S, ls)
  BY DropFacts DEF RowInv
<1>2. /\ req[p].pc \in {"list", "publish"} /\ Landed(p) /\ Onto(p, ls) /\ UNCHANGED tables
      /\ torn' = torn \cup S /\ IsView(req'[p].view)
  BY <1>1 DEF Drops, IsView, Empty
<1>3. \A l \in Layout \ S : Owes(req[p], l) => l \in ls
  <2>1. CASE req[p].pc = "publish"
    BY <1>1, <2>1 DEF Drops, Owes, Syncing
  <2>2. CASE req[p].pc = "list"
    BY <1>1, <2>2, ConcernIs DEF Drops, Owes, Syncing
  <2> QED BY <1>2, <2>1, <2>2
<1>4. /\ snap' = [l \in Layout |-> snap'[l]] /\ \A l \in Layout : IsView(snap'[l])
      /\ \A l \in Layout \ S : snap'[l] = snap[l]
  <2>1. CASE PublishFails(p)
    <3>1. req[p].at \in S
      BY <1>1, <2>1 DEF Drops, PublishFails
    <3> QED BY <2>1, <3>1, HalfPublished
  <2>2. CASE ListFails(p)
    <3>1. snap' = snap
      BY <2>2 DEF ListFails
    <3> QED BY <3>1 DEF SnapInv, Views
  <2> QED BY <2>1, <2>2
<1> QED BY <1>2, <1>3, <1>4, SnapTorn

LEMMA SnapInit == Init => SnapInv
<1> SUFFICES ASSUME Init PROVE SnapInv
  OBVIOUS
<1>1. /\ req = [p \in Proc |-> Idle] /\ snap = [l \in Layout |-> View(l)] /\ torn = {}
  BY DEF Init
<1>2. \A p \in Proc : req[p].pc = "idle" /\ req[p].view = Empty
  BY <1>1 DEF Idle
<1>3. Views
  BY <1>1, <1>2 DEF Views, IsView, View, Empty
<1>4. NotYet
  <2>1. PICK V \in {S \in SUBSET Vehicle : S # {}}, L \in {{}, Layout}, T \in SUBSET Train,
             a \in [Vehicle -> Addr], m \in Template :
          /\ T = {} <=> V # Vehicle
          /\ \A v, w \in Vehicle : v # w => a[v] # a[w]
          /\ life = [x \in Entity |-> IF x \in V \cup L \cup T \cup Station THEN "live" ELSE "new"]
          /\ veh = [v \in Vehicle |-> [addr |-> IF v \in V THEN a[v] ELSE None,
                                       tmpl |-> IF v \in V THEN m ELSE None, det |-> FALSE]]
          /\ own = [v \in Vehicle |-> {}]
          /\ tfn = [n \in Template |-> Num]
          /\ mem = [t \in Train |-> IF t \in T THEN V ELSE {}]
          /\ lv = [l \in Layout |-> IF l \in L /\ T = {} THEN V ELSE {}]
          /\ lt = [l \in Layout |-> IF l \in L THEN T ELSE {}]
          /\ att = [l \in Layout |-> IF l \in L THEN Station ELSE {}]
    BY DEF Init
  <2>2. \A v \in Vehicle : life[v] = "new" => v \notin V
    BY <2>1 DEF Entity
  <2>3. \A l \in Layout : lv[l] \subseteq V
    BY <2>1
  <2>4. \A t \in Train : mem[t] \subseteq V
    BY <2>1
  <2> QED BY <1>2, <2>2, <2>3, <2>4 DEF NotYet, Unborn, Refers
<1>5. Alone /\ Fresh /\ \A p \in Proc : Owing(req[p])
  BY <1>2 DEF Alone, Fresh, Owing
<1>6. \A l \in Layout : Told(l)
  BY <1>1 DEF Told, View, VehicleView
<1> QED BY <1>3, <1>4, <1>5, <1>6 DEF SnapInv

LEMMA SnapStutter == ASSUME SnapInv, UNCHANGED vars PROVE SnapInv'
<1>1. UNCHANGED <<life, veh, own, tfn, mem, lv, lt, att, snap, req, torn>> /\ UNCHANGED tables
  BY DEF vars, tables
<1>2. Views' /\ NotYet' /\ Alone'
  BY <1>1 DEF SnapInv, Views, NotYet, Unborn, Alone
<1>3. ASSUME NEW q \in Proc, NEW l \in Layout
      PROVE  (Owes(req[q], l)' <=> Owes(req[q], l)) /\ (Syncing(req[q], l)' <=> Syncing(req[q], l))
  BY <1>1 DEF Owes, Syncing, Touches, Carried, Live
<1>4. \A l \in Layout : Remembers(l)
  BY <1>1, <1>3 DEF Remembers, Firm, Marked, Full
<1>5. \A q \in Proc : Owing(req[q])'
  BY <1>1, <1>4, OwingStill DEF SnapInv, Same
<1>6. \A l \in Layout : life'[l] # "gone" => Told(l)'
  BY <1>1, <1>3, <1>4, ToldStill DEF SnapInv
<1>7. Fresh'
  <2>1. \A q \in Proc : View(req[q].at)' = View(req[q].at)
    BY <1>1 DEF View, Drivable, TrainView, FunctionView, Functions, Live
  <2> QED BY <1>1, <2>1 DEF SnapInv, Fresh
<1> QED BY <1>2, <1>5, <1>6, <1>7 DEF SnapInv

LEMMA SnapCommit ==
  ASSUME RowInv, SnapInv, NEW p \in Proc, Commit(p)
  PROVE  SnapInv'
  BY SnapInsertVehicle, SnapRemoveVehicleRows, SnapCommitSlot, SnapReplaceFunctions,
     SnapReplaceMembers, SnapRemoveTrainRows, SnapRemoveLayoutRows, SnapRemoveStationRows,
     SnapStoreVehicle, SnapClearRows, SnapJoinVehicle, SnapJoinTrain, SnapCommitTemplate,
     SnapCommitStations DEF Commit

LEMMA SnapRequest ==
  ASSUME RowInv, SnapInv, NEW p \in Proc,
         \/ VehicleRequest(p) \/ TrainRequest(p) \/ RosterRequest(p)
         \/ FunctionRequest(p) \/ LayoutRequest(p) \/ StationRequest(p)
  PROVE  SnapInv'
<1>1. CASE VehicleRequest(p)
  BY <1>1, SnapCreateVehicle, SnapUpdateVehicle, SnapDeleteVehicle, SnapClearDCCAddresses
  DEF VehicleRequest, UpsertByExternalID, DeleteByExternalID
<1>2. CASE TrainRequest(p)
  BY <1>2, SnapCreateTrain, SnapUpdateTrain, SnapDeleteTrain DEF TrainRequest
<1>3. CASE RosterRequest(p)
  BY <1>3, SnapAddTrain, SnapRemoveTrain, SnapAddVehicle, SnapRemoveVehicle DEF RosterRequest
<1>4. CASE FunctionRequest(p)
  BY <1>4, SnapEditSlot, SnapAttachVehicleToTemplate, SnapCopyVehicleFunctionsFromVehicle,
     SnapEditTemplate DEF FunctionRequest
<1>5. CASE LayoutRequest(p)
  BY <1>5, SnapCreateLayout, SnapSetCommandStations, SnapDeleteLayout DEF LayoutRequest
<1>6. CASE StationRequest(p)
  BY <1>6, SnapDeleteStation DEF StationRequest
<1> QED BY <1>1, <1>2, <1>3, <1>4, <1>5, <1>6

LEMMA SnapNext ==
  ASSUME RowInv, SnapInv, [Next]_vars
  PROVE  SnapInv'
<1>1. CASE UNCHANGED vars
  BY <1>1, SnapStutter
<1>2. ASSUME NEW p \in Proc, SyncStep(p) PROVE SnapInv'
  BY <1>2, SnapListing, SnapPublish, SnapFails DEF SyncStep
<1>3. CASE Next
  BY <1>2, <1>3, SnapRequest, SnapCommit DEF Next
<1> QED BY <1>1, <1>3

\* When no request is being served, a layout's snapshot is what the tables
\* say of it, unless an error ended the loop before the layout was published
\* or its last publication met another request (layout_roster_snapshot.go):
\* no change of an address, a member, a roster or a function is left
\* unpublished by handlers whose calls succeed.
THEOREM SnapshotsFollow == Spec => []SnapshotFollows
<1>1. SnapInv => SnapshotFollows
  <2> SUFFICES ASSUME SnapInv, Busy = {}, NEW l \in Layout \ torn, Live(l)
               PROVE  snap[l] = View(l)
    BY DEF SnapshotFollows
  <2>1. \A q \in Proc : ~Owes(req[q], l)
    BY DEF Busy, Owes, Syncing
  <2>2. Told(l) /\ IsView(snap[l])
    BY DEF SnapInv, Views, Live
  <2>3. /\ snap[l].vehicles = VehicleView(l) /\ snap[l].trains = TrainView(l)
        /\ snap[l].functions = FunctionView(l)
    BY <2>1, <2>2 DEF Told, Marked
  <2> QED BY <2>2, <2>3 DEF IsView, View, VehicleView
<1>2. RowInv /\ SnapInv /\ [Next]_vars => SnapInv'
  BY SnapNext
<1> QED BY RowsAlways, SnapInit, <1>1, <1>2, PTL DEF Spec

-----------------------------------------------------------------------------
(***************************************************************************)
(* Supervision.  That a throttle never reaches the daemon of another       *)
(* layout speaks of one moment, the answer of EnsureRunning.  It rests on  *)
(* who has a port anywhere: in the map of the server, in Redis, in the     *)
(* drop-ins, with the supervisor, with a daemon or in the hands of a       *)
(* request.  OneUser says that no two daemons have one port in any of      *)
(* these places; it needs SavedKnown, because a port is only handed out    *)
(* when the map, not Redis, does not have it.                              *)
(***************************************************************************)
Pcs == {"off", "try", "alloc", "upsert", "known", "dial", "persist", "ports", "replace"}
PortState == [pc : Pcs, k : Key \cup {None}, port : Port \cup {None}, todo : SUBSET Key,
          progs : PortMap]
Daemon == [phase : {"off", "boot", "up", "term", "halted"}, port : Port \cup {None}]

\* A request that is past the allocation has a daemon and its port.
Holds(s) ==
  /\ s.pc \in {"try", "alloc", "upsert", "known", "dial", "persist"} => s.k \in Key
  /\ s.pc \in {"try", "upsert", "known", "dial", "persist"} => s.port \in Port

PortTypes ==
  /\ SupTypeOK /\ bus \in [Key -> Daemon] /\ proc \in [Proc -> PortState]
  /\ \A p \in Proc : Holds(proc[p])

\* What Redis has, the map has.
SavedKnown == \A k \in Key : saved[k] # None => saved[k] = ports[k]
MapDistinct == \A j, k \in Key : j # k /\ ports[j] # None => ports[j] # ports[k]

\* k has the port q somewhere.
Uses(k, q) == q \in {ports[k], saved[k]} \/ HasPort(k, q)
OneUser == \A q \in Port : \A j, k \in Key : Uses(j, q) /\ Uses(k, q) => j = k

\* A loco moves only under a daemon that can still stop it.
Stands ==
  \A k \in Key : bus[k].phase \in {"off", "boot", "halted"} /\ k \notin excused => k \notin moving

PortInv ==
  /\ SupervisionAssumption
  /\ PortTypes /\ Stands
  /\ ~late => SavedKnown /\ MapDistinct
  /\ ~late /\ reused = {} => OneUser /\ wrong = {}

-----------------------------------------------------------------------------
(***************************************************************************)
(* Types.                                                                  *)
(***************************************************************************)
LEMMA PortTypeFacts ==
  ASSUME PortInv
  PROVE  /\ attached \subseteq Key /\ online \subseteq Layout
         /\ cache \in [Layout -> SUBSET Station]
         /\ ports \in PortMap /\ saved \in PortMap /\ dropin \in PortMap /\ known \in PortMap
         /\ want \subseteq Key /\ (\A k \in want : known[k] # None)
         /\ bus \in [Key -> Daemon] /\ moving \subseteq Key /\ proc \in [Proc -> PortState]
         /\ \A k \in Key : bus[k].phase = "off" <=> bus[k].port = None
         /\ \A p \in Proc : Holds(proc[p])
         /\ asked \in 0 .. MaxCalls
         /\ reused \subseteq Port /\ late \in BOOLEAN /\ wrong \subseteq Key
         /\ excused \subseteq Key
         /\ None \notin Port /\ MaxCalls \in Nat
BY DEF PortInv, PortTypes, SupTypeOK, SupervisionAssumption

LEMMA PortTypesStep ==
  ASSUME attached' \subseteq Key, online' \subseteq Layout, cache' \in [Layout -> SUBSET Station],
         ports' \in PortMap, saved' \in PortMap, dropin' \in PortMap, known' \in PortMap,
         want' \subseteq Key, \A k \in want' : known'[k] # None,
         bus' \in [Key -> Daemon], \A k \in Key : bus'[k].phase = "off" <=> bus'[k].port = None,
         moving' \subseteq Key, proc' \in [Proc -> PortState], \A p \in Proc : Holds(proc'[p]),
         asked' \in 0 .. MaxCalls, reused' \subseteq Port, late' \in BOOLEAN,
         wrong' \subseteq Key, excused' \subseteq Key
  PROVE  PortTypes'
<1>1. \A k \in Key : /\ bus'[k].phase \in {"off", "boot", "up", "term", "halted"}
                     /\ bus'[k].port \in Port \cup {None}
                     /\ (bus'[k].phase = "off") = (bus'[k].port = None)
  BY DEF Daemon
<1>2. \A p \in Proc :
        /\ proc'[p].pc \in Pcs
        /\ proc'[p].k \in Key \cup {None} /\ proc'[p].port \in Port \cup {None}
        /\ proc'[p].todo \subseteq Key /\ proc'[p].progs \in PortMap
  BY DEF PortState
<1> QED BY <1>1, <1>2 DEF PortTypes, SupTypeOK, Pcs

LEMMA OffOK ==
  /\ Off \in PortState /\ Holds(Off) /\ Off.pc = "off" /\ Off.port = None
  /\ \A k \in Key : Off.progs[k] = None
BY DEF Off, PortState, Pcs, Holds, PortMap

LEMMA CallOK ==
  ASSUME PortInv, Call \/ UNCHANGED asked
  PROVE  asked' \in 0 .. MaxCalls
BY PortTypeFacts DEF Call

\* p has moved; nobody else has.
LEMMA Moved ==
  ASSUME PortInv, NEW p \in Proc, NEW s \in PortState, Holds(s), proc' = [proc EXCEPT ![p] = s]
  PROVE  /\ proc' \in [Proc -> PortState] /\ proc'[p] = s /\ \A q \in Proc : Holds(proc'[q])
         /\ \A q \in Proc \ {p} : proc'[q] = proc[q]
BY PortTypeFacts

-----------------------------------------------------------------------------
(***************************************************************************)
(* Who has a port.                                                         *)
(***************************************************************************)
LEMMA UsesKept ==
  ASSUME \A k \in Key : \A q \in Port :
           q \in {ports'[k], saved'[k], dropin'[k], known'[k], bus'[k].port} => Uses(k, q),
         \A p \in Proc : \/ proc'[p] = proc[p]
                         \/ \A k \in Key : \A q \in Port :
                              \/ proc'[p].progs[k] = q
                              \/ proc'[p].k = k /\ proc'[p].port = q
                              => Uses(k, q)
  PROVE  \A k \in Key : \A q \in Port : Uses(k, q)' => Uses(k, q)
BY DEF Uses, HasPort

\* A step that gives nobody a port he did not have.
LEMMA KeptInv ==
  ASSUME PortInv, PortTypes', Stands', late => late', reused \subseteq reused',
         ~late' => SavedKnown' /\ MapDistinct',
         ~late' /\ reused' = {} => wrong' = {},
         \A k \in Key : \A q \in Port : Uses(k, q)' => Uses(k, q)
  PROVE  PortInv'
<1>1. ASSUME ~late', reused' = {} PROVE OneUser'
  <2>1. OneUser
    BY <1>1 DEF PortInv
  <2> QED BY <2>1 DEF OneUser
<1> QED BY <1>1 DEF PortInv

\* A request takes a step that leaves the map and the daemons alone.
LEMMA RequestInv ==
  ASSUME PortInv, NEW p \in Proc, NEW s \in PortState, Holds(s), proc' = [proc EXCEPT ![p] = s],
         UNCHANGED <<ports, known, bus, moving, excused, reused>>,
         attached' \subseteq Key, online' \subseteq Layout, cache' \in [Layout -> SUBSET Station],
         saved' \in PortMap, dropin' \in PortMap, want' \subseteq Key,
         \A k \in want' : known[k] # None, asked' \in 0 .. MaxCalls,
         late' \in BOOLEAN, late => late', wrong' \subseteq Key,
         ~late' /\ reused = {} => wrong' = {},
         ~late' => SavedKnown',
         \A k \in Key : \A q \in Port : q \in {saved'[k], dropin'[k]} => Uses(k, q),
         \A k \in Key : \A q \in Port : s.progs[k] = q \/ (s.k = k /\ s.port = q) => Uses(k, q)
  PROVE  PortInv'
<1>1. /\ proc' \in [Proc -> PortState] /\ proc'[p] = s /\ \A r \in Proc : Holds(proc'[r])
      /\ \A r \in Proc \ {p} : proc'[r] = proc[r]
  BY Moved
<1>2. PortTypes'
  BY <1>1, PortTypeFacts, PortTypesStep
<1>3. Stands'
  BY DEF PortInv, Stands
<1>4. ~late' => MapDistinct'
  BY DEF PortInv, MapDistinct
<1>5. \A k \in Key : \A q \in Port : Uses(k, q)' => Uses(k, q)
  <2>1. \A k \in Key : \A q \in Port :
          q \in {ports'[k], saved'[k], dropin'[k], known'[k], bus'[k].port} => Uses(k, q)
    BY DEF Uses, HasPort
  <2> QED BY <1>1, <2>1, UsesKept
<1> QED BY <1>2, <1>3, <1>4, <1>5, KeptInv

\* What the port maps of a state say of its users.
LEMMA UsesNow ==
  ASSUME PortInv
  PROVE  /\ \A k \in Key : \A q \in Port :
              q \in {ports[k], saved[k], dropin[k], known[k], bus[k].port} => Uses(k, q)
         /\ \A p \in Proc : \A k \in Key : \A q \in Port :
              proc[p].progs[k] = q \/ (proc[p].k = k /\ proc[p].port = q) => Uses(k, q)
BY DEF Uses, HasPort

\* The caller is told the truth.
LEMMA ReportOK ==
  ASSUME PortInv, NEW p \in Proc, Report(p), proc[p].k \in Key, proc[p].port \in Port
  PROVE  wrong' \subseteq Key /\ (~late /\ reused = {} => wrong' = {})
<1>1. wrong' \subseteq Key
  BY PortTypeFacts DEF Report
<1>2. ASSUME ~late, reused = {} PROVE wrong' = {}
  <2>1. OneUser /\ wrong = {}
    BY <1>2 DEF PortInv
  <2>2. Uses(proc[p].k, proc[p].port)
    BY UsesNow
  <2>3. ASSUME NEW j \in Key, Listens(j, proc[p].port) PROVE j = proc[p].k
    BY <2>1, <2>2, <2>3 DEF OneUser, Uses, HasPort, Listens
  <2>4. Listens(proc[p].k, proc[p].port) \/ ~Dialable(proc[p].port)
    BY <2>3 DEF Dialable
  <2> QED BY <2>1, <2>4 DEF Report
<1> QED BY <1>1, <1>2

-----------------------------------------------------------------------------
(***************************************************************************)
(* Requests.                                                               *)
(***************************************************************************)
LEMMA SavedKept ==
  ASSUME PortInv, UNCHANGED <<ports, saved, late>>
  PROVE  ~late' => SavedKnown'
BY DEF PortInv, SavedKnown

LEMMA WrongKept ==
  ASSUME PortInv, UNCHANGED <<late, wrong>>
  PROVE  late' \in BOOLEAN /\ wrong' \subseteq Key /\ (~late' /\ reused = {} => wrong' = {})
BY PortTypeFacts DEF PortInv

LEMMA EnsureRunningInv ==
  ASSUME PortInv, NEW p \in Proc, NEW k \in Key, EnsureRunning(p, k)
  PROVE  PortInv'
<1>1. /\ UNCHANGED <<attached, online, cache, ports, saved, dropin, known, want, bus, moving>>
      /\ UNCHANGED <<reused, late, wrong, excused>>
      /\ Call
  BY DEF EnsureRunning, server, micro, history
<1>2. PICK pc \in {"alloc", "try"} : pc = IF ports[k] = None THEN "alloc" ELSE "try"
  OBVIOUS
<1>3. PICK s \in PortState : s = [Off EXCEPT !.k = k, !.port = ports[k], !.pc = pc]
  <2>1. ports[k] \in Port \cup {None}
    BY PortTypeFacts DEF PortMap
  <2> QED BY <2>1, OffOK DEF Off, PortState, Pcs
<1>4. /\ s.pc = pc /\ s.k = k /\ s.port = ports[k] /\ \A j \in Key : s.progs[j] = None
  BY <1>3 DEF Off
<1>5. Holds(s)
  BY <1>2, <1>4, PortTypeFacts DEF Holds, PortMap
<1>6. proc' = [proc EXCEPT ![p] = s]
  BY <1>2, <1>3 DEF EnsureRunning
<1>7. /\ \A j \in Key : \A q \in Port : q \in {saved'[j], dropin'[j]} => Uses(j, q)
      /\ \A j \in Key : \A q \in Port : s.progs[j] = q \/ (s.k = j /\ s.port = q) => Uses(j, q)
  BY <1>1, <1>4, UsesNow, PortTypeFacts
<1>8. asked' \in 0 .. MaxCalls
  BY <1>1, CallOK
<1> QED BY <1>1, <1>5, <1>6, <1>7, <1>8, PortTypeFacts, SavedKept, WrongKept, RequestInv

\* A request ends, or goes on to the next point of its program.
LEMMA GotoOK ==
  ASSUME PortInv, NEW p \in Proc, NEW pc \in Pcs, Goto(p, pc) \/ (pc = "off" /\ Served(p)),
         pc \in {"try", "alloc", "upsert", "known", "dial", "persist"} => proc[p].k \in Key,
         pc \in {"try", "upsert", "known", "dial", "persist"} => proc[p].port \in Port
  PROVE  \E s \in PortState :
           /\ Holds(s) /\ s.pc = pc /\ proc' = [proc EXCEPT ![p] = s]
           /\ \A k \in Key : \A q \in Port :
                s.progs[k] = q \/ (s.k = k /\ s.port = q) => Uses(k, q)
<1>1. CASE Goto(p, pc)
  <2>1. proc[p] \in PortState
    BY PortTypeFacts
  <2>2. PICK s \in PortState : s = [proc[p] EXCEPT !.pc = pc]
    BY <2>1 DEF PortState
  <2>3. s.pc = pc /\ s.k = proc[p].k /\ s.port = proc[p].port /\ s.progs = proc[p].progs
    BY <2>1, <2>2 DEF PortState
  <2>4. Holds(s)
    BY <2>3 DEF Holds
  <2>5. proc' = [proc EXCEPT ![p] = s]
    BY <1>1, <2>2 DEF Goto
  <2> QED BY <2>3, <2>4, <2>5, UsesNow, ZenonT(60)
<1>2. CASE pc = "off" /\ Served(p)
  BY <1>2, OffOK, PortTypeFacts DEF Served
<1> QED BY <1>1, <1>2

LEMMA TryPortInv ==
  ASSUME PortInv, NEW p \in Proc, TryPort(p)
  PROVE  PortInv'
<1>1. /\ UNCHANGED <<attached, online, cache, ports, saved, dropin, known, want, bus, moving>>
      /\ UNCHANGED <<asked, reused, late, excused>>
  BY DEF TryPort, server, micro
<1>2. proc[p].k \in Key /\ proc[p].port \in Port
  BY PortTypeFacts DEF TryPort, At, Holds
<1>3. PICK pc \in {"off", "upsert"} : Goto(p, pc) \/ (pc = "off" /\ Served(p))
  BY DEF TryPort
<1>4. PICK s \in PortState :
        /\ Holds(s) /\ proc' = [proc EXCEPT ![p] = s]
        /\ \A k \in Key : \A q \in Port : s.progs[k] = q \/ (s.k = k /\ s.port = q) => Uses(k, q)
  BY <1>2, <1>3, GotoOK DEF Pcs
<1>5. wrong' \subseteq Key /\ (~late' /\ reused = {} => wrong' = {})
  BY <1>1, <1>2, PortTypeFacts, WrongKept, ReportOK DEF TryPort
<1>6. \A k \in Key : \A q \in Port : q \in {saved'[k], dropin'[k]} => Uses(k, q)
  BY <1>1, UsesNow
<1> QED BY <1>1, <1>4, <1>5, <1>6, PortTypeFacts, SavedKept, RequestInv

LEMMA DialInv ==
  ASSUME PortInv, NEW p \in Proc, Dial(p)
  PROVE  PortInv'
<1>1. /\ UNCHANGED <<attached, online, cache, ports, saved, dropin, known, want, bus, moving>>
      /\ UNCHANGED <<reused, late, excused>> /\ (Call \/ UNCHANGED asked)
  BY DEF Dial, server, micro
<1>2. proc[p].k \in Key /\ proc[p].port \in Port
  BY PortTypeFacts DEF Dial, At, Holds
<1>3. PICK pc \in {"off", "persist"} : Goto(p, pc) \/ (pc = "off" /\ Served(p))
  BY DEF Dial
<1>4. PICK s \in PortState :
        /\ Holds(s) /\ proc' = [proc EXCEPT ![p] = s]
        /\ \A k \in Key : \A q \in Port : s.progs[k] = q \/ (s.k = k /\ s.port = q) => Uses(k, q)
  BY <1>2, <1>3, GotoOK DEF Pcs
<1>5. wrong' \subseteq Key /\ (~late' /\ reused = {} => wrong' = {})
  BY <1>1, <1>2, PortTypeFacts, WrongKept, ReportOK DEF Dial
<1>6. \A k \in Key : \A q \in Port : q \in {saved'[k], dropin'[k]} => Uses(k, q)
  BY <1>1, UsesNow
<1>7. asked' \in 0 .. MaxCalls
  BY <1>1, CallOK
<1> QED BY <1>1, <1>4, <1>5, <1>6, <1>7, PortTypeFacts, SavedKept, RequestInv

LEMMA StartServiceInv ==
  ASSUME PortInv, NEW p \in Proc, StartService(p)
  PROVE  PortInv'
<1>1. /\ UNCHANGED <<attached, online, cache, ports, saved, dropin, known, bus, moving>>
      /\ UNCHANGED <<reused, late, wrong, excused>> /\ (Call \/ UNCHANGED asked)
  BY DEF StartService, server, history
<1>2. proc[p].k \in Key /\ proc[p].port \in Port
  BY PortTypeFacts DEF StartService, At, Holds
<1>3. PICK pc \in {"off", "dial"} : Goto(p, pc) \/ (pc = "off" /\ Served(p))
  BY DEF StartService
<1>4. PICK s \in PortState :
        /\ Holds(s) /\ proc' = [proc EXCEPT ![p] = s]
        /\ \A k \in Key : \A q \in Port : s.progs[k] = q \/ (s.k = k /\ s.port = q) => Uses(k, q)
  BY <1>2, <1>3, GotoOK DEF Pcs
<1>5. want' \subseteq Key /\ \A k \in want' : known[k] # None
  BY <1>2, PortTypeFacts DEF StartService
<1>6. \A k \in Key : \A q \in Port : q \in {saved'[k], dropin'[k]} => Uses(k, q)
  BY <1>1, UsesNow
<1>7. asked' \in 0 .. MaxCalls
  BY <1>1, CallOK
<1> QED BY <1>1, <1>4, <1>5, <1>6, <1>7, PortTypeFacts, SavedKept, WrongKept, RequestInv

\* The drop-ins get the port a request has in its hands, or all of its ports.
LEMMA DropinInv ==
  ASSUME PortInv, NEW p \in Proc, Upsert(p) \/ ReplaceServices(p)
  PROVE  PortInv'
<1>1. /\ UNCHANGED <<attached, online, cache, ports, saved, known, want, bus, moving>>
      /\ UNCHANGED <<asked, reused, late, wrong, excused>>
  BY DEF Upsert, ReplaceServices, server, history
<1>2. proc[p] \in PortState /\ Holds(proc[p])
  BY PortTypeFacts
<1>3. PICK pc \in {"off", "known"} :
        /\ Goto(p, pc) \/ (pc = "off" /\ Served(p))
        /\ pc = "known" => proc[p].k \in Key /\ proc[p].port \in Port
  BY <1>2 DEF Upsert, ReplaceServices, At, Holds
<1>4. PICK s \in PortState :
        /\ Holds(s) /\ proc' = [proc EXCEPT ![p] = s]
        /\ \A k \in Key : \A q \in Port : s.progs[k] = q \/ (s.k = k /\ s.port = q) => Uses(k, q)
  BY <1>3, GotoOK DEF Pcs
<1>5. /\ dropin' \in PortMap
      /\ \A k \in Key : \A q \in Port : dropin'[k] = q => Uses(k, q)
  <2>1. CASE Upsert(p)
    <3>1. proc[p].k \in Key /\ proc[p].port \in Port
      BY <1>2, <2>1 DEF Upsert, At, Holds
    <3>2. dropin' = [dropin EXCEPT ![proc[p].k] = proc[p].port]
      BY <2>1 DEF Upsert
    <3>3. dropin' \in PortMap
      BY <3>1, <3>2, PortTypeFacts DEF PortMap
    <3>4. \A k \in Key : dropin'[k] = dropin[k] \/ (k = proc[p].k /\ dropin'[k] = proc[p].port)
      BY <3>1, <3>2, PortTypeFacts DEF PortMap
    <3> QED BY <3>3, <3>4, UsesNow
  <2>2. CASE ReplaceServices(p)
    <3>1. dropin' = proc[p].progs
      BY <2>2 DEF ReplaceServices
    <3>2. dropin' \in PortMap
      BY <1>2, <3>1 DEF PortState
    <3> QED BY <3>1, <3>2, UsesNow
  <2> QED BY <2>1, <2>2
<1>6. \A k \in Key : \A q \in Port : q \in {saved'[k], dropin'[k]} => Uses(k, q)
  BY <1>1, <1>5, UsesNow
<1> QED BY <1>1, <1>4, <1>5, <1>6, PortTypeFacts, SavedKept, WrongKept, RequestInv

LEMMA PersistPortInv ==
  ASSUME PortInv, NEW p \in Proc, PersistPort(p)
  PROVE  PortInv'
<1>1. /\ UNCHANGED <<attached, online, cache, ports, dropin, known, want, bus, moving>>
      /\ UNCHANGED <<reused, wrong, excused>> /\ Served(p) /\ (Call \/ UNCHANGED asked)
      /\ UNCHANGED saved \/ saved' = [saved EXCEPT ![proc[p].k] = proc[p].port]
      /\ late' = (late \/ saved'[proc[p].k] \notin {None, ports[proc[p].k]})
  BY DEF PersistPort, Persisted, server, micro
<1>2. proc[p].k \in Key /\ proc[p].port \in Port
  BY PortTypeFacts DEF PersistPort, At, Holds
<1>3. PICK s \in PortState :
        /\ Holds(s) /\ proc' = [proc EXCEPT ![p] = s]
        /\ \A k \in Key : \A q \in Port : s.progs[k] = q \/ (s.k = k /\ s.port = q) => Uses(k, q)
  BY <1>1, GotoOK DEF Pcs
<1>4. /\ saved' \in PortMap
      /\ \A k \in Key : saved'[k] = saved[k] \/ (k = proc[p].k /\ saved'[k] = proc[p].port)
  BY <1>1, <1>2, PortTypeFacts DEF PortMap
<1>5. late' \in BOOLEAN /\ (late => late') /\ (~late' /\ reused = {} => wrong' = {})
  BY <1>1, PortTypeFacts DEF PortInv
<1>6. ~late' => SavedKnown'
  BY <1>1, <1>4 DEF PortInv, SavedKnown
<1>7. \A k \in Key : \A q \in Port : q \in {saved'[k], dropin'[k]} => Uses(k, q)
  BY <1>1, <1>4, UsesNow
<1>8. asked' \in 0 .. MaxCalls
  BY <1>1, CallOK
<1> QED BY <1>1, <1>3, <1>4, <1>5, <1>6, <1>7, <1>8, PortTypeFacts, RequestInv

\* A sync begins.
LEMMA ObserveInv ==
  ASSUME PortInv, NEW p \in Proc,
         (\E l \in Layout : ObserveLayout(p, l)) \/ (\E t \in Station : ObserveCatalog(p, t))
  PROVE  PortInv'
<1>1. /\ UNCHANGED <<attached, online, ports, saved, dropin, known, want, bus, moving>>
      /\ UNCHANGED <<reused, late, wrong, excused>> /\ Call
      /\ \E ls : SyncProgramsForLayouts(p, ls)
  BY DEF ObserveLayout, ObserveCatalog, server, micro, history
<1>2. cache' \in [Layout -> SUBSET Station]
  BY PortTypeFacts DEF ObserveLayout, ObserveCatalog, server
<1>3. PICK ls : SyncProgramsForLayouts(p, ls)
  BY <1>1
<1>a. PICK pc \in {"ports", "replace"} : pc = IF ls = {} THEN "replace" ELSE "ports"
  OBVIOUS
<1>4. PICK s \in PortState : s = [Off EXCEPT !.pc = pc, !.todo = Of(ls) \cap attached]
  BY OffOK, PortTypeFacts DEF Off, PortState, Pcs
<1>5. s.pc = pc /\ s.port = None /\ \A k \in Key : s.progs[k] = None
  BY <1>4 DEF Off
<1>6. Holds(s) /\ proc' = [proc EXCEPT ![p] = s]
  BY <1>3, <1>4, <1>5, <1>a DEF Holds, SyncProgramsForLayouts
<1>7. /\ \A j \in Key : \A q \in Port : q \in {saved'[j], dropin'[j]} => Uses(j, q)
      /\ \A j \in Key : \A q \in Port : s.progs[j] = q \/ (s.k = j /\ s.port = q) => Uses(j, q)
  BY <1>1, <1>5, UsesNow, PortTypeFacts
<1>8. asked' \in 0 .. MaxCalls
  BY <1>1, CallOK
<1> QED BY <1>1, <1>2, <1>6, <1>7, <1>8, PortTypeFacts, SavedKept, WrongKept, RequestInv

-----------------------------------------------------------------------------
(***************************************************************************)
(* Ports are handed out.                                                   *)
(***************************************************************************)
LEMMA AllocFacts ==
  ASSUME PortInv, NEW k \in Key, NEW q \in Port, AllocatePort(k, q)
  PROVE  /\ ports' \in PortMap /\ ports'[k] = q /\ \A j \in Key \ {k} : ports'[j] = ports[j]
         /\ \A j \in Key : ports[j] # q
         /\ late' \in BOOLEAN /\ (late => late') /\ (~late' => ports[k] = None)
         /\ reused \subseteq reused' /\ reused' \subseteq Port
         /\ reused' = {} => \A j \in Key \ {k} : ~Forgotten(j, q)
<1>1. ports' \in PortMap /\ ports'[k] = q /\ \A j \in Key \ {k} : ports'[j] = ports[j]
  BY PortTypeFacts DEF AllocatePort, PortMap
<1>2. \A j \in Key : ports[j] # q
  BY DEF AllocatePort
<1>3. late' \in BOOLEAN /\ (late => late') /\ (~late' => ports[k] = None)
  BY PortTypeFacts DEF AllocatePort
<1>4. reused' = IF \E j \in Key \ {k} : Forgotten(j, q) THEN reused \cup {q} ELSE reused
  BY DEF AllocatePort
<1>5. reused \subseteq reused' /\ reused' \subseteq Port
  BY <1>4, PortTypeFacts
<1>6. reused' = {} => \A j \in Key \ {k} : ~Forgotten(j, q)
  BY <1>4
<1> QED BY <1>1, <1>2, <1>3, <1>5, <1>6

\* In the state s a request has no port that was not in use, except q for k.
HasOnly(s, k, q) ==
  \A j \in Key : \A r \in Port :
    s.progs[j] = r \/ (s.k = j /\ s.port = r) => Uses(j, r) \/ (j = k /\ r = q)

\* A port is handed out to k, in the map and perhaps in Redis, by a request
\* that keeps it in its hands: nobody else has it.
LEMMA AllocInv ==
  ASSUME PortInv, NEW p \in Proc, NEW k \in Key, NEW q \in Port, NEW s \in PortState, Holds(s),
         AllocatePort(k, q), proc' = [proc EXCEPT ![p] = s],
         UNCHANGED saved \/ saved' = [saved EXCEPT ![k] = q],
         UNCHANGED <<attached, online, cache, dropin, known, want, bus, moving>>,
         UNCHANGED <<wrong, excused>>, asked' \in 0 .. MaxCalls,
         HasOnly(s, k, q)
  PROVE  PortInv'
<1>1. /\ ports' \in PortMap /\ ports'[k] = q /\ \A j \in Key \ {k} : ports'[j] = ports[j]
      /\ \A j \in Key : ports[j] # q
      /\ late' \in BOOLEAN /\ (late => late') /\ (~late' => ports[k] = None)
      /\ reused \subseteq reused' /\ reused' \subseteq Port
      /\ reused' = {} => \A j \in Key \ {k} : ~Forgotten(j, q)
  BY AllocFacts
<1>2. /\ proc' \in [Proc -> PortState] /\ proc'[p] = s /\ \A r \in Proc : Holds(proc'[r])
      /\ \A r \in Proc \ {p} : proc'[r] = proc[r]
  BY Moved
<1>3. /\ saved' \in PortMap /\ \A j \in Key \ {k} : saved'[j] = saved[j]
      /\ saved'[k] \in {saved[k], q}
  BY PortTypeFacts DEF PortMap
<1>4. PortTypes'
  BY <1>1, <1>2, <1>3, PortTypeFacts, PortTypesStep
<1>5. Stands'
  BY DEF PortInv, Stands
<1>6. ASSUME ~late' PROVE SavedKnown' /\ MapDistinct'
  <2>1. SavedKnown /\ MapDistinct /\ ports[k] = None
    BY <1>1, <1>6 DEF PortInv
  <2>2. saved[k] = None
    BY <2>1 DEF SavedKnown
  <2>3. SavedKnown'
    BY <1>1, <1>3, <2>1, <2>2 DEF SavedKnown
  <2>4. MapDistinct'
    BY <1>1, <2>1 DEF MapDistinct
  <2> QED BY <2>3, <2>4
<1>7. \A j \in Key : \A r \in Port : Uses(j, r)' => Uses(j, r) \/ (j = k /\ r = q)
  <2> SUFFICES ASSUME NEW j \in Key, NEW r \in Port, Uses(j, r)'
               PROVE  Uses(j, r) \/ (j = k /\ r = q)
    OBVIOUS
  <2>1. CASE r \in {ports'[j], saved'[j], dropin'[j], known'[j], bus'[j].port}
    BY <1>1, <1>3, <2>1, UsesNow
  <2>2. CASE \E o \in Proc : proc'[o].progs[j] = r \/ (proc'[o].k = j /\ proc'[o].port = r)
    BY <1>2, <2>2, UsesNow DEF HasOnly
  <2> QED BY <2>1, <2>2 DEF Uses, HasPort
<1>8. ASSUME ~late', reused' = {} PROVE OneUser' /\ wrong' = {}
  <2>1. OneUser /\ wrong = {} /\ SavedKnown
    BY <1>1, <1>8 DEF PortInv
  <2>2. ASSUME NEW j \in Key \ {k} PROVE ~Uses(j, q)
    BY <1>1, <1>8, <2>1, <2>2, PortTypeFacts DEF Uses, Forgotten, SavedKnown
  <2>3. OneUser'
    BY <1>7, <2>1, <2>2 DEF OneUser
  <2> QED BY <2>1, <2>3
<1> QED BY <1>4, <1>5, <1>6, <1>8 DEF PortInv

\* A request that ends without having changed anything.
LEMMA EndInv ==
  ASSUME PortInv, NEW p \in Proc, Served(p),
         UNCHANGED <<attached, online, cache, ports, saved, dropin, known, want, bus, moving>>,
         UNCHANGED <<reused, late, wrong, excused>>, Call \/ UNCHANGED asked
  PROVE  PortInv'
<1>1. PICK s \in PortState :
        /\ Holds(s) /\ proc' = [proc EXCEPT ![p] = s]
        /\ \A k \in Key : \A q \in Port : s.progs[k] = q \/ (s.k = k /\ s.port = q) => Uses(k, q)
  BY GotoOK DEF Pcs
<1>2. \A k \in Key : \A q \in Port : q \in {saved'[k], dropin'[k]} => Uses(k, q)
  BY UsesNow
<1>3. asked' \in 0 .. MaxCalls
  BY CallOK
<1> QED BY <1>1, <1>2, <1>3, PortTypeFacts, SavedKept, WrongKept, RequestInv

LEMMA RequestFailsInv ==
  ASSUME PortInv, NEW p \in Proc, RequestFails(p)
  PROVE  PortInv'
BY EndInv DEF RequestFails, server, micro, history

LEMMA AllocateInv ==
  ASSUME PortInv, NEW p \in Proc, Allocate(p)
  PROVE  PortInv'
<1>1. /\ UNCHANGED <<attached, online, cache, saved, dropin, known, want, bus, moving>>
      /\ UNCHANGED <<asked, wrong, excused>>
  BY DEF Allocate, micro
<1>2. proc[p].k \in Key /\ proc[p] \in PortState
  BY PortTypeFacts DEF Allocate, At, Holds
<1>3. CASE PoolExhausted /\ Served(p) /\ UNCHANGED <<ports, reused, late>>
  BY <1>1, <1>3, EndInv
<1>4. CASE \E q \in Port : /\ AllocatePort(proc[p].k, q)
                           /\ proc' = [proc EXCEPT ![p].pc = "upsert", ![p].port = q]
  <2>1. PICK q \in Port : /\ AllocatePort(proc[p].k, q)
                          /\ proc' = [proc EXCEPT ![p].pc = "upsert", ![p].port = q]
    BY <1>4
  <2>2. PICK s \in PortState : s = [proc[p] EXCEPT !.pc = "upsert", !.port = q]
    BY <1>2 DEF PortState, Pcs
  <2>3. s.pc = "upsert" /\ s.k = proc[p].k /\ s.port = q /\ s.progs = proc[p].progs
    BY <1>2, <2>2 DEF PortState
  <2>4. Holds(s)
    BY <1>2, <2>3 DEF Holds
  <2>5. proc' = [proc EXCEPT ![p] = s]
    BY <1>2, <2>1, <2>2, PortTypeFacts DEF PortState
  <2>6. HasOnly(s, proc[p].k, q)
    BY <2>3, UsesNow DEF HasOnly
  <2>7. UNCHANGED saved \/ saved' = [saved EXCEPT ![proc[p].k] = q]
    BY <1>1
  <2>8. asked' \in 0 .. MaxCalls
    BY <1>1, CallOK
  <2> QED BY <1>1, <1>2, <2>1, <2>4, <2>5, <2>6, <2>7, <2>8, AllocInv
<1> QED BY <1>3, <1>4 DEF Allocate

LEMMA EnsurePortInv ==
  ASSUME PortInv, NEW p \in Proc, EnsurePort(p)
  PROVE  PortInv'
<1>1. /\ UNCHANGED <<attached, online, cache, dropin, known, want, bus, moving>>
      /\ UNCHANGED <<wrong, excused>> /\ (Call \/ UNCHANGED asked)
  BY DEF EnsurePort, Persisted, micro
<1>a. asked' \in 0 .. MaxCalls
  BY <1>1, CallOK
<1>2. proc[p] \in PortState /\ proc[p].pc = "ports" /\ proc[p].todo # {} /\ proc[p].todo \subseteq Key
  BY PortTypeFacts DEF EnsurePort, At, PortState
<1>3. PICK k \in Key : k = CHOOSE x \in proc[p].todo : TRUE
  BY <1>2
<1>4. ASSUME NEW q \in Port, proc' = [proc EXCEPT ![p].todo = @ \ {k}, ![p].progs[k] = q]
      PROVE  \E s \in PortState :
               Holds(s) /\ proc' = [proc EXCEPT ![p] = s] /\ HasOnly(s, k, q)
  <2>1. PICK m \in PortMap : m = [proc[p].progs EXCEPT ![k] = q]
    BY <1>2 DEF PortState, PortMap
  <2>2. \A j \in Key : m[j] = IF j = k THEN q ELSE proc[p].progs[j]
    BY <1>2, <2>1 DEF PortState, PortMap
  <2>3. PICK s \in PortState : s = [proc[p] EXCEPT !.todo = @ \ {k}, !.progs = m]
    BY <1>2 DEF PortState
  <2>4. s.pc = "ports" /\ s.k = proc[p].k /\ s.port = proc[p].port /\ s.progs = m
    BY <1>2, <2>3 DEF PortState
  <2>5. Holds(s)
    BY <2>4 DEF Holds
  <2>6. proc' = [proc EXCEPT ![p] = s]
    BY <1>2, <1>4, <2>1, <2>3, PortTypeFacts DEF PortState
  <2>7. HasOnly(s, k, q)
    BY <2>2, <2>4, UsesNow DEF HasOnly
  <2> QED BY <2>5, <2>6, <2>7
<1>5. CASE /\ ports[k] # None /\ UNCHANGED <<ports, saved, reused, late>>
           /\ proc' = [proc EXCEPT ![p].todo = @ \ {k}, ![p].progs[k] = ports[k]]
  <2>1. PICK q \in Port : q = ports[k]
    BY <1>5, PortTypeFacts DEF PortMap
  <2>2. Uses(k, q)
    BY <2>1, UsesNow
  <2>3. PICK s \in PortState :
          Holds(s) /\ proc' = [proc EXCEPT ![p] = s] /\ HasOnly(s, k, q)
    BY <1>4, <1>5, <2>1
  <2>4. \A j \in Key : \A r \in Port : s.progs[j] = r \/ (s.k = j /\ s.port = r) => Uses(j, r)
    BY <2>2, <2>3 DEF HasOnly
  <2>5. \A j \in Key : \A r \in Port : r \in {saved'[j], dropin'[j]} => Uses(j, r)
    BY <1>1, <1>5, UsesNow
  <2> QED BY <1>1, <1>5, <2>3, <2>4, <2>5, <1>a, PortTypeFacts, SavedKept, WrongKept, RequestInv
<1>6. CASE \E q \in Port : /\ AllocatePort(k, q) /\ Persisted(k, q)
                           /\ proc' = [proc EXCEPT ![p].todo = @ \ {k}, ![p].progs[k] = q]
  <2>1. PICK q \in Port : /\ AllocatePort(k, q) /\ Persisted(k, q)
                          /\ proc' = [proc EXCEPT ![p].todo = @ \ {k}, ![p].progs[k] = q]
    BY <1>6
  <2>2. PICK s \in PortState :
          Holds(s) /\ proc' = [proc EXCEPT ![p] = s] /\ HasOnly(s, k, q)
    BY <1>4, <2>1
  <2>3. UNCHANGED saved \/ saved' = [saved EXCEPT ![k] = q]
    BY <2>1 DEF Persisted
  <2> QED BY <1>1, <1>a, <2>1, <2>2, <2>3, AllocInv
<1>7. CASE Served(p) /\ UNCHANGED <<ports, saved, reused, late>>
  BY <1>1, <1>7, EndInv
<1> QED BY <1>3, <1>5, <1>6, <1>7 DEF EnsurePort

LEMMA PrunePortsInv ==
  ASSUME PortInv, NEW p \in Proc, PrunePorts(p)
  PROVE  PortInv'
<1>0. /\ UNCHANGED <<attached, online, cache, dropin, known, want, bus, moving>>
      /\ UNCHANGED <<reused, wrong, excused>> /\ Goto(p, "replace")
  BY DEF PrunePorts, micro
<1> DEFINE gone == {k \in Key : proc[p].progs[k] = None /\ ports[k] # None}
<1>a. PICK stuck \in SUBSET Key :
        /\ ports' = [k \in Key |-> IF k \in gone THEN None ELSE ports[k]]
        /\ saved' = [k \in Key |-> IF k \in gone \ stuck THEN None ELSE saved[k]]
        /\ late' = (late \/ stuck # {}) /\ (Call \/ UNCHANGED asked)
  BY DEF PrunePorts
<1>b. asked' \in 0 .. MaxCalls
  BY <1>a, CallOK
<1>1. late' \in BOOLEAN /\ (late => late') /\ (~late' => stuck = {} /\ ~late)
  BY <1>a, PortTypeFacts
<1>2. PICK s \in PortState :
        /\ Holds(s) /\ proc' = [proc EXCEPT ![p] = s]
        /\ \A k \in Key : \A q \in Port : s.progs[k] = q \/ (s.k = k /\ s.port = q) => Uses(k, q)
  BY <1>0, GotoOK DEF Pcs
<1>3. /\ proc' \in [Proc -> PortState] /\ proc'[p] = s /\ \A r \in Proc : Holds(proc'[r])
      /\ \A r \in Proc \ {p} : proc'[r] = proc[r]
  BY <1>2, Moved
<1>4. /\ ports' \in PortMap /\ saved' \in PortMap
      /\ \A k \in Key : ports'[k] \in {None, ports[k]} /\ saved'[k] \in {None, saved[k]}
      /\ stuck = {} => \A k \in Key : \/ ports'[k] = None /\ saved'[k] = None
                                      \/ ports'[k] = ports[k] /\ saved'[k] = saved[k]
  BY <1>a, PortTypeFacts DEF PortMap
<1>5. PortTypes'
  BY <1>0, <1>1, <1>3, <1>4, <1>b, PortTypeFacts, PortTypesStep
<1>6. Stands'
  BY <1>0 DEF PortInv, Stands
<1>7. ~late' => SavedKnown' /\ MapDistinct'
  BY <1>1, <1>4 DEF PortInv, SavedKnown, MapDistinct
<1>8. \A k \in Key : \A q \in Port : Uses(k, q)' => Uses(k, q)
  <2>1. \A k \in Key : \A q \in Port :
          q \in {ports'[k], saved'[k], dropin'[k], known'[k], bus'[k].port} => Uses(k, q)
    BY <1>0, <1>4, UsesNow, PortTypeFacts
  <2> QED BY <1>2, <1>3, <2>1, UsesKept
<1>9. ~late' /\ reused' = {} => wrong' = {}
  BY <1>0, <1>1 DEF PortInv
<1> QED BY <1>0, <1>1, <1>5, <1>6, <1>7, <1>8, <1>9, KeptInv

-----------------------------------------------------------------------------
(***************************************************************************)
(* The supervisor, the daemons, the server's own life.                     *)
(***************************************************************************)

\* A step of somebody who serves no request and hands out no port.
LEMMA OtherInv ==
  ASSUME PortInv, UNCHANGED <<cache, ports, saved, dropin, proc, reused, late, wrong>>,
         attached' \subseteq Key, online' \subseteq Layout, known' \in PortMap,
         want' \subseteq Key, \A k \in want' : known'[k] # None,
         bus' \in [Key -> Daemon], \A k \in Key : bus'[k].phase = "off" <=> bus'[k].port = None,
         moving' \subseteq Key, asked' \in 0 .. MaxCalls, excused' \subseteq Key, Stands',
         \A k \in Key : \A q \in Port : q \in {known'[k], bus'[k].port} => Uses(k, q)
  PROVE  PortInv'
<1>1. PortTypes'
  BY PortTypeFacts, PortTypesStep
<1>2. ~late' => SavedKnown' /\ MapDistinct'
  BY DEF PortInv, SavedKnown, MapDistinct
<1>3. \A k \in Key : \A q \in Port : Uses(k, q)' => Uses(k, q)
  <2>1. \A k \in Key : \A q \in Port :
          q \in {ports'[k], saved'[k], dropin'[k], known'[k], bus'[k].port} => Uses(k, q)
    BY UsesNow
  <2> QED BY <2>1, UsesKept
<1>4. ~late' /\ reused' = {} => wrong' = {}
  BY DEF PortInv
<1> QED BY <1>1, <1>2, <1>3, <1>4, KeptInv

LEMMA LayoutInv ==
  ASSUME PortInv,
         \/ \E l \in Layout : HandleOpened(l) \/ HandleClosed(l)
         \/ \E k \in Key : Attach(k)
  PROVE  PortInv'
<1>1. /\ UNCHANGED <<cache, ports, saved, dropin, known, want, bus, moving, proc>>
      /\ UNCHANGED <<reused, late, wrong, excused>> /\ (Call \/ UNCHANGED asked)
      /\ attached' \subseteq Key /\ online' \subseteq Layout
  BY PortTypeFacts DEF HandleOpened, HandleClosed, Attach, server, micro, history
<1>2. Stands'
  BY <1>1 DEF PortInv, Stands
<1>3. \A k \in Key : \A q \in Port : q \in {known'[k], bus'[k].port} => Uses(k, q)
  BY <1>1, UsesNow
<1>4. asked' \in 0 .. MaxCalls
  BY <1>1, CallOK
<1> QED BY <1>1, <1>2, <1>3, <1>4, PortTypeFacts, OtherInv

LEMMA ReloadInv ==
  ASSUME PortInv, Reload
  PROVE  PortInv'
<1>1. /\ UNCHANGED <<attached, online, cache, ports, saved, dropin, bus, moving, proc, asked>>
      /\ UNCHANGED <<reused, late, wrong, excused>> /\ known' = dropin
  BY DEF Reload, server, history
<1>2. want' \subseteq Key /\ \A k \in want' : known'[k] # None
  BY DEF Reload
<1>3. Stands'
  BY <1>1 DEF PortInv, Stands
<1>4. \A k \in Key : \A q \in Port : q \in {known'[k], bus'[k].port} => Uses(k, q)
  BY <1>1, UsesNow
<1> QED BY <1>1, <1>2, <1>3, <1>4, PortTypeFacts, OtherInv

\* The requests are gone; the map is what Redis has, or empty.
LEMMA ServerRestartInv ==
  ASSUME PortInv, NEW g \in BOOLEAN, ServerRestart(g)
  PROVE  PortInv'
<1>1. /\ UNCHANGED <<attached, saved, dropin, known, bus, moving>>
      /\ UNCHANGED <<reused, wrong, excused>> /\ Call
      /\ ports' \in {saved, NoPorts} /\ late' = (late \/ ports' # saved) /\ cache' = [l \in Layout |-> {}] /\ online' = {}
      /\ proc' = [p \in Proc |-> Off] /\ want' \subseteq want
  BY DEF ServerRestart
<1>a. late' \in BOOLEAN /\ (late => late') /\ (~late' => ports' = saved /\ ~late)
  BY <1>1, PortTypeFacts
<1>b. NoPorts \in PortMap /\ \A k \in Key : NoPorts[k] = None
  BY DEF NoPorts, PortMap
<1>2. \A p \in Proc : proc'[p] = Off
  BY <1>1
<1>3. proc' \in [Proc -> PortState] /\ \A p \in Proc : Holds(proc'[p])
  BY <1>1, <1>2, OffOK
<1>4. asked' \in 0 .. MaxCalls
  BY <1>1, CallOK
<1>5. PortTypes'
  BY <1>1, <1>3, <1>4, <1>a, <1>b, PortTypeFacts, PortTypesStep
<1>6. Stands'
  BY <1>1 DEF PortInv, Stands
<1>7. ~late' => SavedKnown' /\ MapDistinct'
  BY <1>1, <1>a DEF PortInv, SavedKnown, MapDistinct
<1>8. \A k \in Key : \A q \in Port : Uses(k, q)' => Uses(k, q)
  <2>1. \A k \in Key : \A q \in Port :
          q \in {ports'[k], saved'[k], dropin'[k], known'[k], bus'[k].port} => Uses(k, q)
    BY <1>1, <1>b, UsesNow, PortTypeFacts
  <2>2. \A p \in Proc : \A k \in Key : \A q \in Port :
          ~(proc'[p].progs[k] = q \/ (proc'[p].k = k /\ proc'[p].port = q))
    BY <1>2, OffOK, PortTypeFacts
  <2> QED BY <2>1, <2>2, UsesKept
<1>9. ~late' /\ reused' = {} => wrong' = {}
  BY <1>1, <1>a DEF PortInv
<1> QED BY <1>1, <1>a, <1>5, <1>6, <1>7, <1>8, <1>9, KeptInv

\* The daemon of k takes a step: it gets a phase, and a port it has already
\* or the one of its program.
LEMMA DaemonInv ==
  ASSUME PortInv, NEW k \in Key, NEW d \in Daemon, bus' = [bus EXCEPT ![k] = d],
         d.phase = "off" <=> d.port = None, d.port \in {None, bus[k].port, known[k]},
         UNCHANGED <<attached, online, cache, ports, saved, dropin, known, proc>>,
         UNCHANGED <<reused, late, wrong>>, want' \subseteq Key, \A j \in want' : known[j] # None,
         asked' \in 0 .. MaxCalls, moving' \subseteq Key, excused' \subseteq Key,
         \A j \in Key \ {k} : (j \in moving' => j \in moving) /\ (j \in excused => j \in excused'),
         d.phase \in {"off", "boot", "halted"} /\ k \notin excused' => k \notin moving'
  PROVE  PortInv'
<1>1. bus' \in [Key -> Daemon] /\ bus'[k] = d /\ \A j \in Key \ {k} : bus'[j] = bus[j]
  BY PortTypeFacts
<1>2. \A j \in Key : bus'[j].phase = "off" <=> bus'[j].port = None
  BY <1>1, PortTypeFacts
<1>3. Stands'
  BY <1>1 DEF PortInv, Stands
<1>4. \A j \in Key : \A q \in Port : q \in {known'[j], bus'[j].port} => Uses(j, q)
  BY <1>1, UsesNow, PortTypeFacts
<1> QED BY <1>1, <1>2, <1>3, <1>4, PortTypeFacts, OtherInv

LEMMA DaemonFacts ==
  ASSUME PortInv, NEW k \in Key
  PROVE  /\ bus[k] \in Daemon /\ Down \in Daemon /\ Down.phase = "off" /\ Down.port = None
         /\ bus[k].phase = "off" <=> bus[k].port = None
         /\ bus[k].phase \in {"off", "boot", "halted"} /\ k \notin excused => k \notin moving
BY PortTypeFacts DEF Down, Daemon, PortInv, Stands

\* The daemon of k only changes its phase.
LEMMA PhaseOK ==
  ASSUME PortInv, NEW k \in Key, NEW ph \in {"boot", "up", "term", "halted"},
         bus[k].phase # "off", bus' = [bus EXCEPT ![k].phase = ph]
  PROVE  \E d \in Daemon : /\ bus' = [bus EXCEPT ![k] = d] /\ d.phase = ph
                           /\ d.port = bus[k].port /\ d.port # None
<1>1. bus[k] \in Daemon /\ bus[k].port # None
  BY DaemonFacts
<1>2. PICK d \in Daemon : d = [bus[k] EXCEPT !.phase = ph]
  BY <1>1 DEF Daemon
<1>3. d.phase = ph /\ d.port = bus[k].port
  BY <1>1, <1>2 DEF Daemon
<1>4. bus' = [bus EXCEPT ![k] = d]
  BY <1>2
<1> QED BY <1>1, <1>3, <1>4

LEMMA SpawnInv ==
  ASSUME PortInv, NEW k \in Key, Spawn(k)
  PROVE  PortInv'
<1>1. /\ UNCHANGED <<attached, online, cache, ports, saved, dropin, known, want, proc>>
      /\ UNCHANGED <<reused, late, wrong, moving, asked, excused>>
      /\ k \in want /\ bus[k].phase = "off"
  BY DEF Spawn, server, micro, history
<1>2. known[k] # None /\ known[k] \in Port \cup {None}
  BY <1>1, PortTypeFacts DEF PortMap
<1>3. PICK d \in Daemon : d = [phase |-> "boot", port |-> known[k]]
  BY <1>2 DEF Daemon
<1>4. d.phase = "boot" /\ d.port = known[k] /\ bus' = [bus EXCEPT ![k] = d]
  BY <1>3 DEF Spawn
<1>5. k \notin excused' => k \notin moving'
  BY <1>1, DaemonFacts
<1> QED BY <1>1, <1>2, <1>4, <1>5, PortTypeFacts, DaemonInv

LEMMA TerminateInv ==
  ASSUME PortInv, NEW k \in Key, Terminate(k)
  PROVE  PortInv'
<1>1. /\ UNCHANGED <<attached, online, cache, ports, saved, dropin, known, want, proc>>
      /\ UNCHANGED <<reused, late, wrong, moving, asked, excused>>
      /\ bus[k].phase = "up" /\ bus' = [bus EXCEPT ![k].phase = "term"]
  BY DEF Terminate, server, micro, history
<1>2. PICK d \in Daemon : /\ bus' = [bus EXCEPT ![k] = d] /\ d.phase = "term"
                          /\ d.port = bus[k].port /\ d.port # None
  BY <1>1, PhaseOK
<1> QED BY <1>1, <1>2, PortTypeFacts, DaemonInv, ZenonT(60)

LEMMA ShutdownRouterInv ==
  ASSUME PortInv, NEW k \in Key, ShutdownRouter(k)
  PROVE  PortInv'
<1>1. /\ UNCHANGED <<attached, online, cache, ports, saved, dropin, known, want, proc>>
      /\ UNCHANGED <<reused, late, wrong, asked>>
      /\ \/ moving' = moving \ {k} /\ excused' = excused
         \/ moving' = moving /\ excused' = excused \cup {k}
      /\ bus[k].phase = "term" /\ bus' = [bus EXCEPT ![k].phase = "halted"]
  BY DEF ShutdownRouter, server, micro
<1>2. PICK d \in Daemon : /\ bus' = [bus EXCEPT ![k] = d] /\ d.phase = "halted"
                          /\ d.port = bus[k].port /\ d.port # None
  BY <1>1, PhaseOK
<1>3. /\ moving' \subseteq Key /\ excused' \subseteq Key /\ (k \notin excused' => k \notin moving')
      /\ \A j \in Key \ {k} : (j \in moving' => j \in moving) /\ (j \in excused => j \in excused')
  BY <1>1, PortTypeFacts
<1> QED BY <1>1, <1>2, <1>3, PortTypeFacts, DaemonInv, ZenonT(60)

\* The daemon ends: after its shutdown, before it was up, or killed.
LEMMA DownInv ==
  ASSUME PortInv, NEW k \in Key, Exit(k) \/ BootFails(k) \/ Killed(k)
  PROVE  PortInv'
<1>1. /\ UNCHANGED <<attached, online, cache, ports, saved, dropin, known, want, proc>>
      /\ UNCHANGED <<reused, late, wrong, moving>> /\ (Call \/ UNCHANGED asked)
      /\ bus' = [bus EXCEPT ![k] = Down]
      /\ excused' = excused \/ excused' = excused \cup {k}
  BY DEF Exit, BootFails, Killed, server, micro, history
<1>2. k \notin excused' => k \notin moving'
  BY DaemonFacts DEF Exit, BootFails, Killed, history
<1>3. asked' \in 0 .. MaxCalls
  BY <1>1, CallOK
<1>4. Down \in Daemon /\ Down.phase = "off" /\ Down.port = None
  BY DaemonFacts
<1>5. /\ moving' \subseteq Key /\ excused' \subseteq Key
      /\ \A j \in Key \ {k} : (j \in moving' => j \in moving) /\ (j \in excused => j \in excused')
  BY <1>1, PortTypeFacts
<1> QED BY <1>1, <1>2, <1>3, <1>4, <1>5, PortTypeFacts, DaemonInv

LEMMA BootInv ==
  ASSUME PortInv, NEW k \in Key, Boot(k)
  PROVE  PortInv'
<1>1. /\ UNCHANGED <<attached, online, cache, ports, saved, dropin, known, want, proc>>
      /\ UNCHANGED <<reused, late, wrong, asked>> /\ bus[k].phase = "boot"
      /\ moving' \in {moving, moving \ {k}} /\ excused' \in {excused \ {k}, excused \cup {k}}
  BY DEF Boot, server, micro
<1>2. /\ moving' \subseteq Key /\ excused' \subseteq Key
      /\ \A j \in Key \ {k} : (j \in moving' => j \in moving) /\ (j \in excused => j \in excused')
  BY <1>1, PortTypeFacts
<1>3. bus[k] \in Daemon /\ Down \in Daemon /\ bus[k].port # None
  BY <1>1, DaemonFacts
<1>4. PICK u \in Daemon : u = [bus[k] EXCEPT !.phase = "up"]
  BY <1>3 DEF Daemon
<1>5. u.phase = "up" /\ u.port = bus[k].port
  BY <1>3, <1>4 DEF Daemon
<1>6. \/ bus' = [bus EXCEPT ![k] = Down] /\ (k \notin excused' => k \notin moving')
      \/ bus' = [bus EXCEPT ![k] = u]
  BY <1>4 DEF Boot
<1>7. CASE bus' = [bus EXCEPT ![k] = Down] /\ (k \notin excused' => k \notin moving')
  BY <1>1, <1>2, <1>3, <1>7, DaemonFacts, PortTypeFacts, DaemonInv
<1>8. CASE bus' = [bus EXCEPT ![k] = u]
  BY <1>1, <1>2, <1>3, <1>5, <1>8, PortTypeFacts, DaemonInv
<1> QED BY <1>6, <1>7, <1>8

\* Start, stop or restart of a program.
LEMMA ControlInv ==
  ASSUME PortInv, NEW k \in Key, ControlDccBus(k)
  PROVE  PortInv'
<1>1. /\ UNCHANGED <<attached, online, cache, ports, saved, dropin, known, proc>>
      /\ UNCHANGED <<reused, late, wrong, moving, excused>> /\ Call /\ known[k] # None
      /\ want' \in {want \cup {k}, want \ {k}}
      /\ bus' \in {bus, [bus EXCEPT ![k].phase = IF @ = "up" THEN "term" ELSE @]}
  BY DEF ControlDccBus, server, history
<1>2. want' \subseteq Key /\ \A j \in want' : known[j] # None
  BY <1>1, PortTypeFacts
<1>3. asked' \in 0 .. MaxCalls
  BY <1>1, CallOK
<1>4. bus[k] \in Daemon
  BY DaemonFacts
<1>5. CASE bus[k].phase = "up" /\ bus' = [bus EXCEPT ![k].phase = "term"]
  <2>1. PICK d \in Daemon : /\ bus' = [bus EXCEPT ![k] = d] /\ d.phase = "term"
                            /\ d.port = bus[k].port /\ d.port # None
    BY <1>5, PhaseOK
  <2> QED BY <1>1, <1>2, <1>3, <2>1, PortTypeFacts, DaemonInv
<1>6. CASE UNCHANGED bus
  <2>1. Stands'
    BY <1>1, <1>6 DEF PortInv, Stands
  <2>2. \A j \in Key : \A q \in Port : q \in {known'[j], bus'[j].port} => Uses(j, q)
    BY <1>1, <1>6, UsesNow
  <2> QED BY <1>1, <1>2, <1>3, <1>6, <2>1, <2>2, PortTypeFacts, OtherInv
<1>7. bus[k].phase # "up" /\ bus' = [bus EXCEPT ![k].phase = bus[k].phase] => UNCHANGED bus
  BY <1>4, PortTypeFacts DEF Daemon
<1> QED BY <1>1, <1>4, <1>5, <1>6, <1>7

LEMMA DriveInv ==
  ASSUME PortInv, NEW k \in Key, Drive(k) \/ RadioStop(k)
  PROVE  PortInv'
<1>1. /\ UNCHANGED <<attached, online, cache, ports, saved, dropin, known, want, proc>>
      /\ UNCHANGED <<reused, late, wrong, asked, bus>>
  BY DEF Drive, RadioStop, server, micro, history
<1>2. moving' \subseteq Key /\ excused' \subseteq Key
  BY PortTypeFacts DEF Drive, RadioStop, history
<1>3. Stands'
  BY <1>1 DEF PortInv, Stands, Drive, RadioStop, history
<1>4. \A j \in Key : \A q \in Port : q \in {known'[j], bus'[j].port} => Uses(j, q)
  BY <1>1, UsesNow
<1> QED BY <1>1, <1>2, <1>3, <1>4, PortTypeFacts, OtherInv

-----------------------------------------------------------------------------
(***************************************************************************)
(* The specification.                                                      *)
(***************************************************************************)
LEMMA PortInitInv ==
  ASSUME SupervisionAssumption, SupInit
  PROVE  PortInv
<1>1. /\ \A k \in Key : NoPorts[k] = None
      /\ NoPorts \in PortMap
  BY DEF NoPorts, PortMap
<1>2. /\ bus \in [Key -> Daemon] /\ \A k \in Key : bus[k] = Down
      /\ \A k \in Key : bus[k].phase = "off" /\ bus[k].port = None
  BY DEF SupInit, Down, Daemon
<1>3. /\ proc \in [Proc -> PortState] /\ \A p \in Proc : proc[p] = Off /\ Holds(proc[p])
  BY OffOK DEF SupInit
<1>4. SupTypeOK
  <2>1. \A p \in Proc :
          /\ proc[p].pc \in Pcs
          /\ proc[p].k \in Key \cup {None} /\ proc[p].port \in Port \cup {None}
          /\ proc[p].todo \subseteq Key /\ proc[p].progs \in PortMap
    BY <1>3 DEF PortState
  <2>2. asked \in 0 .. MaxCalls
    BY DEF SupInit, SupervisionAssumption
  <2> QED BY <1>1, <1>2, <2>1, <2>2 DEF SupInit, SupTypeOK, Pcs
<1>5. Stands
  BY DEF SupInit, Stands
<1>6. SavedKnown /\ MapDistinct
  BY <1>1 DEF SupInit, SavedKnown, MapDistinct
<1>7. \A k \in Key : \A q \in Port : ~Uses(k, q)
  BY <1>1, <1>2, <1>3, OffOK DEF SupervisionAssumption, SupInit, Uses, HasPort
<1>8. OneUser /\ wrong = {}
  BY <1>7 DEF OneUser, SupInit
<1> QED BY <1>2, <1>3, <1>4, <1>5, <1>6, <1>8 DEF PortInv, PortTypes

LEMMA PortNextInv ==
  ASSUME PortInv, SupNext
  PROVE  PortInv'
<1>1. ASSUME NEW p \in Proc, Request(p) PROVE PortInv'
  BY <1>1, TryPortInv, AllocateInv, DropinInv, StartServiceInv, DialInv, PersistPortInv,
     EnsurePortInv, PrunePortsInv DEF Request
<1>a. ASSUME NEW p \in Proc, RequestFails(p) PROVE PortInv'
  BY <1>a, RequestFailsInv
<1>2. ASSUME NEW p \in Proc, NEW k \in Key, HandleSetCS(p, k) \/ ServeProxy(p, k) PROVE PortInv'
  BY <1>2, EnsureRunningInv DEF HandleSetCS, ServeProxy
<1>3. ASSUME NEW k \in Key, Life(k) PROVE PortInv'
  BY <1>3, SpawnInv, TerminateInv, BootInv, ShutdownRouterInv, DownInv DEF Life
<1>4. ASSUME NEW k \in Key,
             Attach(k) \/ ControlDccBus(k) \/ BootFails(k) \/ Drive(k) \/ RadioStop(k) \/ Killed(k)
      PROVE  PortInv'
  BY <1>4, LayoutInv, ControlInv, DownInv, DriveInv
<1> QED BY <1>1, <1>a, <1>2, <1>3, <1>4, ObserveInv, LayoutInv, ReloadInv, ServerRestartInv DEF SupNext

LEMMA PortStutterInv ==
  ASSUME PortInv, UNCHANGED supVars
  PROVE  PortInv'
<1>1. /\ UNCHANGED <<attached, online, cache, ports, saved, dropin, known, want, bus, moving>>
      /\ UNCHANGED <<proc, asked, reused, late, wrong, excused>>
  BY DEF supVars, server, micro, history
<1>2. Stands'
  BY <1>1 DEF PortInv, Stands
<1>3. \A k \in Key : \A q \in Port : q \in {known'[k], bus'[k].port} => Uses(k, q)
  BY <1>1, UsesNow
<1> QED BY <1>1, <1>2, <1>3, PortTypeFacts, OtherInv

\* The inductive invariant holds in every reachable state.
THEOREM PortInvHolds == SupSpec => []PortInv
<1>1. SupInit => PortInv
  BY PortInitInv, SupervisionAssumption
<1>2. PortInv /\ [SupNext]_supVars => PortInv'
  BY PortNextInv, PortStutterInv
<1> QED BY <1>1, <1>2, PTL DEF SupSpec

\* Whatever the layouts, stations, pool and requests: no two daemons are
\* assigned one port until a request overwrites or outlives an assignment or
\* Redis fails to remove one or to load them, whatever else fails; and
\* no throttle is sent to the daemon of another layout unless the server had
\* forgotten who holds the port (allocatePortLocked, persistPort, prunePorts,
\* HydratePorts, EnsureRunning).
THEOREM PortsStaySound == SupSpec => []PortsSound
<1>1. PortInv => PortsSound
  BY DEF PortInv, PortTypes, PortsSound, PortsDistinct, RightDaemon, MapDistinct
<1> QED BY <1>1, PortInvHolds, PTL

\* A daemon that has ended in order has left its loco standing, over any
\* sequence of spawns, reloads, failed binds, restarts and kills, with a boot
\* stop or without, unless the station refused its last stop (Shutdown).
THEOREM DaemonsLeaveStanding == SupSpec => []StandsAtExit
<1>1. PortInv => StandsAtExit
  BY DEF PortInv, Stands, StandsAtExit
<1> QED BY <1>1, PortInvHolds, PTL

-----------------------------------------------------------------------------
(***************************************************************************)
(* Accounts.  AccountInv: the transaction that writes a pool checks it     *)
(* against all the others; a ticket owed is in Redis or in the hands of    *)
(* one goroutine (Tickets); a PIN tried under a lock was past the lock     *)
(* before it was set (Locks); every timer comes from one request           *)
(* (Timers); unless a client left before it was registered, whoever is     *)
(* there is known to the hub or about to be, and whoever left is about to  *)
(* be removed (HubInv); a session whose flag is not its user's role has a  *)
(* request on the way that will set it, and an elevation has a timer or a  *)
(* request about to arm one (Flags).                                       *)
(***************************************************************************)
Points == {"off", "insert", "update", "delete", "pin", "upsert", "arm",
        "del", "resolve", "set", "drop", "identity"}

GoFields(r) ==
  r = [pc |-> r.pc, u |-> r.u, row |-> r.row, pool |-> r.pool, flag |-> r.flag, timer |-> r.timer]

\* What a goroutine carries along.
GoShape(r) ==
  /\ GoFields(r) /\ r.pc \in Points /\ r.u \in Person \cup {Nil} /\ r.row \in Acc!Row \cup {Nil}
  /\ r.pool \in (SUBSET Number) \cup {Nil} /\ r.flag \in BOOLEAN /\ r.timer \in BOOLEAN
  /\ r.pc # "off" => r.u \in Person
  /\ r.pc = "off" => r = Acc!Idle
  /\ r.pc = "insert" => r.pool \in SUBSET Number
  /\ r.pc = "update" => r.row \in Acc!Row /\ r.row.state = "there"

Goroutines == goro = [p \in Agent |-> goro[p]] /\ \A p \in Agent : GoShape(goro[p])

OthersRest(p) == \A q \in Agent \ {p} : goro'[q] = goro[q]

\* p goes on to pc on behalf of u; nobody else moves.
Moves(p, pc, u) ==
  /\ Goroutines' /\ OthersRest(p) /\ goro'[p].pc = pc /\ goro'[p].u = u

LEMMA Update ==
  ASSUME Goroutines, NEW p \in Agent, NEW r, GoShape(r), goro' = [goro EXCEPT ![p] = r]
  PROVE  Moves(p, r.pc, r.u) /\ goro'[p] = r
BY DEF Goroutines, OthersRest, Moves

LEMMA GoIdle == GoShape(Acc!Idle) /\ Acc!Idle.pc = "off" /\ Acc!Idle.u = Nil
BY DEF GoShape, GoFields, Acc!Idle, Points

LEMMA Began ==
  ASSUME Goroutines, NEW p \in Agent, NEW u \in Person, NEW pc \in Points \ {"off"},
         goro[p].pc = "off", NEW r \in Acc!Row \cup {Nil}, NEW s \in (SUBSET Number) \cup {Nil},
         pc = "insert" => s \in SUBSET Number,
         pc = "update" => r \in Acc!Row /\ r.state = "there",
         \/ goro' = [goro EXCEPT ![p].pc = pc, ![p].u = u] /\ r = Nil /\ s = Nil
         \/ goro' = [goro EXCEPT ![p].pc = pc, ![p].u = u, ![p].pool = s] /\ r = Nil
         \/ goro' = [goro EXCEPT ![p].pc = pc, ![p].u = u, ![p].row = r, ![p].pool = s]
         \/ goro' = [goro EXCEPT ![p].pc = pc, ![p].u = u, ![p].timer = TRUE]
            /\ r = Nil /\ s = Nil
  PROVE  Moves(p, pc, u)
<1> DEFINE i == Acc!Idle
           a == [i EXCEPT !.pc = pc]
           b == [a EXCEPT !.u = u]
           c == [b EXCEPT !.row = r]
           d == [b EXCEPT !.pool = s]
           e == [c EXCEPT !.pool = s]
           tt == TRUE
           g == [b EXCEPT !.timer = tt]
<1>1. goro[p] = i /\ DOMAIN goro = Agent
  BY DEF Goroutines, GoShape
<1>2. /\ i.pc = "off" /\ i.u = Nil /\ i.row = Nil /\ i.pool = Nil /\ i.flag = FALSE
      /\ i.timer = FALSE /\ GoFields(i)
  BY DEF Acc!Idle, GoFields
<1>3. \/ goro' = [goro EXCEPT ![p] = b] /\ r = Nil /\ s = Nil
      \/ goro' = [goro EXCEPT ![p] = d] /\ r = Nil
      \/ goro' = [goro EXCEPT ![p] = e]
      \/ goro' = [goro EXCEPT ![p] = g] /\ r = Nil /\ s = Nil
  BY <1>1, Zenon
<1>t. tt \in BOOLEAN
  OBVIOUS
<1> HIDE DEF i, tt
<1>4. GoFields(a) /\ a.pc = pc /\ a.u = i.u /\ a.row = i.row /\ a.pool = i.pool /\ a.flag = i.flag
      /\ a.timer = i.timer
  BY <1>2 DEF GoFields
<1> HIDE DEF a
<1>5. GoFields(b) /\ b.pc = pc /\ b.u = u /\ b.row = a.row /\ b.pool = a.pool /\ b.flag = a.flag
      /\ b.timer = a.timer
  BY <1>4 DEF GoFields
<1> HIDE DEF b
<1>6. GoFields(c) /\ c.pc = pc /\ c.u = u /\ c.row = r /\ c.pool = b.pool /\ c.flag = b.flag
      /\ c.timer = b.timer
  BY <1>5 DEF GoFields
<1> HIDE DEF c
<1>7. GoFields(d) /\ d.pc = pc /\ d.u = u /\ d.row = b.row /\ d.pool = s /\ d.flag = b.flag
      /\ d.timer = b.timer
  BY <1>5 DEF GoFields
<1> HIDE DEF d
<1>8. GoFields(e) /\ e.pc = pc /\ e.u = u /\ e.row = r /\ e.pool = s /\ e.flag = b.flag
      /\ e.timer = b.timer
  BY <1>5, <1>6 DEF GoFields
<1> HIDE DEF e
<1>9. GoFields(g) /\ g.pc = pc /\ g.u = u /\ g.row = b.row /\ g.pool = b.pool /\ g.flag = b.flag
      /\ g.timer = tt
  BY <1>5 DEF GoFields
<1> HIDE DEF g
<1>10. CASE goro' = [goro EXCEPT ![p] = b] /\ r = Nil /\ s = Nil
  <2>1. GoShape(b)
    BY <1>2, <1>4, <1>5, <1>10 DEF GoShape
  <2> QED BY <1>5, <1>10, <2>1, Update
<1>11. CASE goro' = [goro EXCEPT ![p] = d] /\ r = Nil
  <2>1. GoShape(d)
    BY <1>2, <1>4, <1>5, <1>7, <1>11, ZenonT(60) DEF GoShape
  <2> QED BY <1>7, <1>11, <2>1, Update
<1>12. CASE goro' = [goro EXCEPT ![p] = e]
  <2>1. GoShape(e)
    BY <1>2, <1>4, <1>5, <1>6, <1>8, <1>12 DEF GoShape
  <2> QED BY <1>8, <1>12, <2>1, Update
<1>13. CASE goro' = [goro EXCEPT ![p] = g] /\ r = Nil /\ s = Nil
  <2>1. GoShape(g)
    BY <1>2, <1>4, <1>5, <1>9, <1>13, <1>t, ZenonT(60) DEF GoShape
  <2> QED BY <1>9, <1>13, <2>1, Update
<1> QED BY <1>3, <1>10, <1>11, <1>12, <1>13

LEMMA Went ==
  ASSUME Goroutines, NEW p \in Agent, NEW pc \in Points \ {"off", "insert", "update"},
         goro[p].pc # "off", Acc!Go(p, pc)
  PROVE  Moves(p, pc, goro[p].u) /\ goro'[p].flag = goro[p].flag
<1> DEFINE r == goro[p]
           n == [r EXCEPT !.pc = pc]
<1>1. GoShape(r) /\ GoFields(r)
  BY DEF Goroutines, GoShape
<1>2. GoFields(n) /\ n.pc = pc /\ n.u = r.u /\ n.row = r.row /\ n.pool = r.pool /\ n.flag = r.flag
      /\ n.timer = r.timer
  BY <1>1 DEF GoFields
<1>3. goro' = [goro EXCEPT ![p] = n]
  BY Zenon DEF Acc!Go
<1> HIDE DEF n
<1>4. GoShape(n)
  BY <1>1, <1>2 DEF GoShape
<1> QED BY <1>2, <1>3, <1>4, Update

LEMMA Ended ==
  ASSUME Goroutines, NEW p \in Agent, Acc!End(p)
  PROVE  Moves(p, "off", Nil) /\ goro'[p] = Acc!Idle
BY GoIdle, Update DEF Acc!End

LEMMA Resolved ==
  ASSUME Goroutines, NEW p \in Agent, goro[p].pc # "off", NEW b \in BOOLEAN,
         goro' = [goro EXCEPT ![p].pc = "set", ![p].flag = b]
  PROVE  Moves(p, "set", goro[p].u) /\ goro'[p].flag = b
<1> DEFINE r == goro[p]
           m == [r EXCEPT !.pc = "set"]
           n == [m EXCEPT !.flag = b]
<1>1. GoShape(r) /\ GoFields(r)
  BY DEF Goroutines, GoShape
<1>2. GoFields(m) /\ m.pc = "set" /\ m.u = r.u /\ m.row = r.row /\ m.pool = r.pool
      /\ m.timer = r.timer
  BY <1>1 DEF GoFields
<1>3. goro' = [goro EXCEPT ![p] = n]
  BY Zenon DEF Goroutines
<1> HIDE DEF m
<1>4. GoFields(n) /\ n.pc = "set" /\ n.u = r.u /\ n.row = r.row /\ n.pool = r.pool
      /\ n.timer = r.timer /\ n.flag = b
  BY <1>2 DEF GoFields
<1> HIDE DEF n
<1>5. GoShape(n)
  BY <1>1, <1>4 DEF GoShape, Points
<1>6. Moves(p, "set", goro[p].u) /\ goro'[p] = n
  <2>1. n.pc = "set" /\ n.u = goro[p].u
    BY <1>4
  <2>2. Moves(p, n.pc, n.u) /\ goro'[p] = n
    BY <1>3, <1>5, Update
  <2> QED BY <2>1, <2>2, Zenon
<1> QED BY <1>4, <1>6, Zenon

-----------------------------------------------------------------------------
(***************************************************************************)
(* What each request does to its goroutine.                                *)
(***************************************************************************)
RowTypes == users \in [Person -> Acc!Row] /\ pool \in [Person -> SUBSET Number]

LEMMA StartMoves ==
  ASSUME Goroutines, NEW p \in Agent, NEW u \in Person,
         NEW pc \in Points \ {"off", "insert", "update"}, Acc!Start(p, u, pc)
  PROVE  Moves(p, pc, u) /\ goro[p] = Acc!Idle
<1>1. goro[p].pc = "off" /\ goro' = [goro EXCEPT ![p].pc = pc, ![p].u = u]
  BY Zenon DEF Acc!Start
<1>2. goro[p] = Acc!Idle
  BY <1>1 DEF Goroutines, GoShape
<1>3. Moves(p, pc, u)
  <2> DEFINE none == Nil
  <2>1. none \in Acc!Row \cup {Nil} /\ none \in (SUBSET Number) \cup {Nil}
    OBVIOUS
  <2> QED BY <1>1, <2>1, Began
<1> QED BY <1>2, <1>3

LEMMA CreateMoves ==
  ASSUME Goroutines, NEW p \in Agent, NEW u \in Person, Acc!Create(p, u), Acc!AccountsAssumption, RowTypes
  PROVE  Moves(p, "insert", u) /\ goro[p] = Acc!Idle
<1>1. PICK s \in (SUBSET Number) \cup {Acc!Allocate} :
        goro[p].pc = "off" /\ goro' = [goro EXCEPT ![p].pc = "insert", ![p].u = u, ![p].pool = s]
  BY DEF Acc!Create
<1>2. Acc!Allocate \in SUBSET Number
  <2> DEFINE free == Number \ UNION {pool[v] : v \in Person}
  <2>1. CASE free = {}
    BY <2>1 DEF Acc!Allocate
  <2>2. CASE free # {}
    <3>1. free \subseteq Nat
      BY DEF Acc!AccountsAssumption
    <3>2. \E x \in free : \A y \in free : ~(<<y, x>> \in OpToRel(<, Nat))
      BY <2>2, <3>1, NatLessThanWellFounded, WFMin
    <3>a. \A x, y \in Nat : y < x => <<y, x>> \in OpToRel(<, Nat)
      BY Zenon DEF OpToRel
    <3>3. \E x \in free : \A y \in free : x <= y
      <4> HIDE DEF free
      <4> DEFINE R == OpToRel(<, Nat)
      <4>1. PICK x \in free : \A y \in free : ~(<<y, x>> \in R)
        BY <3>2
      <4>2. \A y \in Nat : x \in Nat /\ y < x => <<y, x>> \in R
        BY <3>a
      <4> HIDE DEF R
      <4>3. ASSUME NEW y \in free PROVE x <= y
        <5>1. x \in Nat /\ y \in Nat
          BY <3>1, <4>1
        <5>2. ~(y < x)
          BY <4>1, <4>2, <5>1, Zenon
        <5> QED BY <5>1, <5>2
      <4> QED BY <4>3
    <3>4. Acc!Min(free) \in free
      BY <3>3 DEF Acc!Min
    <3> QED BY <2>2, <3>4 DEF Acc!Allocate
  <2> QED BY <2>1, <2>2
<1>3. goro[p] = Acc!Idle
  BY <1>1 DEF Goroutines, GoShape
<1>4. Moves(p, "insert", u)
  <2> DEFINE none == Nil
  <2>1. none \in Acc!Row \cup {Nil} /\ s \in (SUBSET Number) \cup {Nil}
    BY <1>2
  <2>2. "insert" \in Points \ {"off"}
    BY DEF Points
  <2> QED BY <1>1, <1>2, <2>1, <2>2, Began
<1> QED BY <1>3, <1>4

LEMMA ReadRowMoves ==
  ASSUME Goroutines, NEW p \in Agent, NEW u \in Person, NEW r \in Acc!Row, r.state = "there",
         NEW s \in (SUBSET Number) \cup {Nil}, Acc!ReadRow(p, u, r, s)
  PROVE  Moves(p, "update", u) /\ goro[p] = Acc!Idle
<1>1. /\ goro[p].pc = "off"
      /\ goro' = [goro EXCEPT ![p].pc = "update", ![p].u = u, ![p].row = r, ![p].pool = s]
  BY Zenon DEF Acc!ReadRow
<1>2. "update" \in Points \ {"off"}
  BY DEF Points
<1>3. goro[p] = Acc!Idle
  BY <1>1 DEF Goroutines, GoShape
<1>4. Moves(p, "update", u)
  BY <1>1, <1>2, Began
<1> QED BY <1>3, <1>4

\* Every request that reads a row reads one that is there.
Reads(p, u) ==
  \E r \in Acc!Row, s \in (SUBSET Number) \cup {Nil} :
    r.state = "there" /\ Acc!ReadRow(p, u, r, s)

LEMMA ReadRequests ==
  ASSUME NEW p \in Agent, NEW u \in Person, RowTypes,
         Acc!UpdateUser(p, u) \/ Acc!SetActive(p, u) \/ Acc!UpdateProfile(p, u)
  PROVE  Reads(p, u)
<1>1. users[u] \in Acc!Row
  BY DEF RowTypes
<1>2. ASSUME NEW b \in BOOLEAN
      PROVE  /\ [users[u] EXCEPT !.admin = b] \in Acc!Row /\ [users[u] EXCEPT !.active = b] \in Acc!Row
             /\ [users[u] EXCEPT !.admin = b].state = users[u].state
             /\ [users[u] EXCEPT !.active = b].state = users[u].state
  BY <1>1 DEF Acc!Row
<1>3. ASSUME NEW r \in Acc!Row, r.state = users[u].state, NEW s \in (SUBSET Number) \cup {Nil},
             Acc!ReadRow(p, u, r, s)
      PROVE  Reads(p, u)
  BY <1>3 DEF Acc!ReadRow, Acc!There, Reads
<1>4. CASE Acc!UpdateUser(p, u)
  <2>1. CASE \E s \in (SUBSET Number) \ {{}} : Acc!ReadRow(p, u, users[u], s)
    BY <1>1, <1>3, <2>1
  <2>2. CASE \E b \in BOOLEAN : Acc!ReadRow(p, u, [users[u] EXCEPT !.admin = b], Nil)
    BY <1>2, <1>3, <2>2
  <2> QED BY <1>4, <2>1, <2>2 DEF Acc!UpdateUser
<1>5. CASE Acc!SetActive(p, u)
  <2>1. PICK b \in BOOLEAN : Acc!ReadRow(p, u, [users[u] EXCEPT !.active = b], Nil)
    BY <1>5 DEF Acc!SetActive
  <2> QED BY <1>2, <1>3, <2>1
<1>6. CASE Acc!UpdateProfile(p, u)
  BY <1>1, <1>3, <1>6 DEF Acc!UpdateProfile
<1> QED BY <1>4, <1>5, <1>6

-----------------------------------------------------------------------------
(***************************************************************************)
(* Accounts and pools.                                                     *)
(***************************************************************************)
LEMMA DbSame ==
  ASSUME Acc!Next, ~(\E p \in Agent : Acc!Insert(p) \/ Acc!UpdateRow(p) \/ Acc!RemoveRow(p))
  PROVE  UNCHANGED <<users, pool>>
<1>1. CASE Acc!HubStep \/ Acc!Restart
  BY <1>1 DEF Acc!HubStep, Acc!Restart, Acc!addClient, Acc!removeClient, Acc!CloseSend, Acc!db
<1>2. CASE \E c \in Conn : Acc!ReadEnds(c) \/ \E u \in Person : Acc!ServeWS(c, u)
  BY <1>2 DEF Acc!ReadEnds, Acc!ServeWS, Acc!db
<1>3. CASE \E u \in Person : Acc!IssueTicket(u) \/ Acc!TicketExpires(u) \/ Acc!LockEnds(u) \/ Acc!ElevationEnds(u)
  BY <1>3 DEF Acc!IssueTicket, Acc!TicketExpires, Acc!LockEnds, Acc!ElevationEnds, Acc!db
<1>4. ASSUME NEW p \in Agent, Acc!ProcStep(p) PROVE UNCHANGED <<users, pool>>
  <2>1. \/ Acc!IdentityFor(p) \/ Acc!WrongPIN(p) \/ Acc!RightPIN(p) \/ Acc!Upsert(p) \/ Acc!UpsertFails(p)
        \/ Acc!scheduleExpiryBroadcast(p) \/ Acc!RevokeElevation(p) \/ Acc!RevokeFails(p)
        \/ Acc!BroadcastElevationChanged(p) \/ Acc!refreshEffectiveAdmin(p) \/ Acc!DropEntry(p)
    BY <1>4 DEF Acc!ProcStep
  <2> QED BY <2>1 DEF Acc!IdentityFor, Acc!WrongPIN, Acc!RightPIN, Acc!Upsert, Acc!UpsertFails, Acc!RevokeElevation,
               Acc!scheduleExpiryBroadcast, Acc!RevokeFails, Acc!BroadcastElevationChanged,
               Acc!refreshEffectiveAdmin, Acc!DropEntry, Acc!db
<1>5. ASSUME NEW p \in Agent, NEW u \in Person, Acc!Request(p, u) \/ Acc!Fire(p, u)
      PROVE  UNCHANGED <<users, pool>>
  BY <1>5 DEF Acc!Request, Acc!UserRequest, Acc!AuthRequest, Acc!OAuthRequest, Acc!SudoRequest, Acc!Create, Acc!UpdateUser,
       Acc!SetActive, Acc!UpdateProfile, Acc!ReadRow, Acc!DeleteUser, Acc!ConsumeTicket, Acc!Sudo, Acc!Revoke, Acc!Fire, Acc!db
<1> QED BY <1>1, <1>2, <1>3, <1>4, <1>5 DEF Acc!Next

LEMMA ReplaceDisjoint ==
  ASSUME RowTypes, Acc!PoolsDisjoint, NEW u \in Person, NEW s \in SUBSET Number, Acc!Replace(u, s)
  PROVE  Acc!PoolsDisjoint' /\ pool' \in [Person -> SUBSET Number]
BY DEF RowTypes, Acc!PoolsDisjoint, Acc!Replace, Acc!ValidPool

LEMMA CreatedRow == \A b \in BOOLEAN : Acc!Created(b) \in Acc!Row
BY DEF Acc!Created, Acc!Row

LEMMA PoolsStep ==
  ASSUME RowTypes, Goroutines, Acc!PoolsDisjoint, [Acc!Next]_(Acc!vars)
  PROVE  RowTypes' /\ Acc!PoolsDisjoint'
<1>1. CASE UNCHANGED <<users, pool>>
  BY <1>1 DEF RowTypes, Acc!PoolsDisjoint
<1>2. ASSUME NEW p \in Agent, Acc!Insert(p) PROVE RowTypes' /\ Acc!PoolsDisjoint'
  <2>1. goro[p].u \in Person /\ goro[p].pool \in SUBSET Number
    BY <1>2 DEF Acc!Insert, Acc!At, Goroutines, GoShape
  <2>2. CASE UNCHANGED Acc!db
    BY <1>1, <2>2 DEF Acc!db
  <2>3. CASE Acc!Replace(goro[p].u, goro[p].pool) /\ users' = [users EXCEPT ![goro[p].u] = Acc!Created(FALSE)]
    <3>1. Acc!Created(FALSE) \in Acc!Row
      BY CreatedRow
    <3>2. users' \in [Person -> Acc!Row]
      BY <2>1, <2>3, <3>1 DEF RowTypes
    <3> QED BY <2>1, <2>3, <3>2, ReplaceDisjoint DEF RowTypes
  <2> QED BY <1>2, <2>2, <2>3 DEF Acc!Insert
<1>3. ASSUME NEW p \in Agent, Acc!UpdateRow(p) PROVE RowTypes' /\ Acc!PoolsDisjoint'
  <2>1. goro[p].u \in Person /\ goro[p].row \in Acc!Row /\ goro[p].pool \in (SUBSET Number) \cup {Nil}
    BY <1>3 DEF Acc!UpdateRow, Acc!At, Goroutines, GoShape
  <2>2. CASE UNCHANGED Acc!db
    BY <1>1, <2>2 DEF Acc!db
  <2>3. CASE /\ users' = [users EXCEPT ![goro[p].u] = goro[p].row]
             /\ IF goro[p].pool = Nil THEN UNCHANGED pool ELSE Acc!Replace(goro[p].u, goro[p].pool)
    <3>1. users' \in [Person -> Acc!Row]
      BY <2>1, <2>3 DEF RowTypes
    <3>2. CASE UNCHANGED pool
      BY <3>1, <3>2 DEF RowTypes, Acc!PoolsDisjoint
    <3>3. CASE goro[p].pool # Nil /\ Acc!Replace(goro[p].u, goro[p].pool)
      BY <2>1, <3>1, <3>3, ReplaceDisjoint DEF RowTypes
    <3> QED BY <2>3, <3>2, <3>3
  <2> QED BY <1>3, <2>2, <2>3 DEF Acc!UpdateRow
<1>4. ASSUME NEW p \in Agent, Acc!RemoveRow(p) PROVE RowTypes' /\ Acc!PoolsDisjoint'
  <2>1. goro[p].u \in Person
    BY <1>4 DEF Acc!RemoveRow, Acc!At, Goroutines, GoShape
  <2> DEFINE u == goro[p].u
  <2>2. users' = [users EXCEPT ![u].state = "gone"] /\ pool' = [pool EXCEPT ![u] = {}]
    BY <1>4 DEF Acc!RemoveRow
  <2> HIDE DEF u
  <2>3. users' \in [Person -> Acc!Row]
    BY <2>1, <2>2 DEF RowTypes, Acc!Row, u
  <2> QED BY <2>1, <2>2, <2>3 DEF RowTypes, Acc!PoolsDisjoint, u
<1> QED BY <1>1, <1>2, <1>3, <1>4, DbSame DEF Acc!vars, Acc!db

-----------------------------------------------------------------------------
(***************************************************************************)
(* Goroutines.                                                             *)
(***************************************************************************)

\* An idle goroutine takes up pc for u; one at a goes on to b, or ends.
Enter(p, pc, u) == goro[p] = Acc!Idle /\ Moves(p, pc, u)
Jump(p, a, b) == goro[p].pc = a /\ goro[p].u \in Person /\ Moves(p, b, goro[p].u)
Finish(p, a) == goro[p].pc = a /\ goro[p].u \in Person /\ Moves(p, "off", Nil) /\ goro'[p] = Acc!Idle

LEMMA Enters ==
  ASSUME Acc!AccountsAssumption, Goroutines, RowTypes, NEW p \in Agent, NEW u \in Person
  PROVE  /\ Acc!Create(p, u) => Enter(p, "insert", u)
         /\ Acc!UpdateUser(p, u) \/ Acc!SetActive(p, u) \/ Acc!UpdateProfile(p, u) => Enter(p, "update", u)
         /\ Acc!DeleteUser(p, u) => Enter(p, "delete", u)
         /\ Acc!ConsumeTicket(p, u) => Enter(p, "identity", u)
         /\ Acc!Sudo(p, u) => Enter(p, "pin", u)
         /\ Acc!Revoke(p, u) => Enter(p, "del", u)
         /\ Acc!Fire(p, u) => Enter(p, "resolve", u)
<1>1. Acc!Create(p, u) => Enter(p, "insert", u)
  BY CreateMoves DEF Enter
<1>2. ASSUME Acc!UpdateUser(p, u) \/ Acc!SetActive(p, u) \/ Acc!UpdateProfile(p, u)
      PROVE  Enter(p, "update", u)
  <2>1. Reads(p, u)
    BY <1>2, ReadRequests
  <2> QED BY <2>1, ReadRowMoves DEF Reads, Enter
<1>3. ASSUME NEW pc \in {"delete", "identity", "pin", "del"}, Acc!Start(p, u, pc)
      PROVE  Enter(p, pc, u)
  BY <1>3, StartMoves DEF Enter, Points
<1>4. ASSUME Acc!Fire(p, u) PROVE Enter(p, "resolve", u)
  <2>1. /\ goro[p].pc = "off"
        /\ goro' = [goro EXCEPT ![p].pc = "resolve", ![p].u = u, ![p].timer = TRUE]
    BY <1>4, Zenon DEF Acc!Fire
  <2>2. goro[p] = Acc!Idle
    BY <2>1 DEF Goroutines, GoShape
  <2> DEFINE none == Nil
  <2>3. none \in Acc!Row \cup {Nil} /\ none \in (SUBSET Number) \cup {Nil}
        /\ "resolve" \in Points \ {"off"}
    BY DEF Points
  <2>4. Moves(p, "resolve", u)
    BY <2>1, <2>3, Began
  <2> QED BY <2>2, <2>4 DEF Enter
<1> QED BY <1>1, <1>2, <1>3, <1>4 DEF Acc!DeleteUser, Acc!ConsumeTicket, Acc!Sudo, Acc!Revoke

LEMMA JumpOK ==
  ASSUME Goroutines, NEW p \in Agent, NEW a \in Points \ {"off"}, goro[p].pc = a
  PROVE  /\ \A b \in Points \ {"off", "insert", "update"} : Acc!Go(p, b) => Jump(p, a, b)
         /\ Acc!End(p) => Finish(p, a)
<1>1. goro[p].u \in Person
  BY DEF Goroutines, GoShape
<1>2. ASSUME NEW b \in Points \ {"off", "insert", "update"}, Acc!Go(p, b) PROVE Jump(p, a, b)
  BY <1>1, <1>2, Went DEF Jump
<1> QED BY <1>1, <1>2, Ended DEF Finish

LEMMA Jumps ==
  ASSUME Goroutines, NEW p \in Agent
  PROVE  /\ Acc!Insert(p) => Finish(p, "insert")
         /\ Acc!UpdateRow(p) => Finish(p, "update")
         /\ Acc!RemoveRow(p) => Finish(p, "delete")
         /\ Acc!IdentityFor(p) => Finish(p, "identity")
         /\ Acc!WrongPIN(p) => Finish(p, "pin")
         /\ Acc!RightPIN(p) => Jump(p, "pin", "upsert")
         /\ Acc!Upsert(p) => Jump(p, "upsert", "arm")
         /\ Acc!UpsertFails(p) => Finish(p, "upsert")
         /\ Acc!scheduleExpiryBroadcast(p) => Jump(p, "arm", "resolve")
         /\ Acc!RevokeElevation(p) => Jump(p, "del", "resolve")
         /\ Acc!RevokeFails(p) => Finish(p, "del")
         /\ Acc!BroadcastElevationChanged(p) => Jump(p, "resolve", "set") \/ Finish(p, "resolve")
         /\ Acc!refreshEffectiveAdmin(p) => Jump(p, "set", "drop") \/ Finish(p, "set")
         /\ Acc!DropEntry(p) => Finish(p, "drop")
<1> USE DEF Points
<1>1. Acc!Insert(p) => Finish(p, "insert")
  BY JumpOK DEF Acc!Insert, Acc!At
<1>2. Acc!UpdateRow(p) => Finish(p, "update")
  BY JumpOK DEF Acc!UpdateRow, Acc!At
<1>3. Acc!RemoveRow(p) => Finish(p, "delete")
  BY JumpOK DEF Acc!RemoveRow, Acc!At
<1>4. Acc!IdentityFor(p) => Finish(p, "identity")
  BY JumpOK DEF Acc!IdentityFor, Acc!At
<1>5. Acc!WrongPIN(p) => Finish(p, "pin")
  BY JumpOK DEF Acc!WrongPIN, Acc!At
<1>6. Acc!RightPIN(p) => Jump(p, "pin", "upsert")
  BY JumpOK DEF Acc!RightPIN, Acc!At
<1>7. Acc!Upsert(p) => Jump(p, "upsert", "arm")
  BY JumpOK DEF Acc!Upsert, Acc!At
<1>8. Acc!UpsertFails(p) => Finish(p, "upsert")
  BY JumpOK DEF Acc!UpsertFails, Acc!At
<1>9. Acc!scheduleExpiryBroadcast(p) => Jump(p, "arm", "resolve")
  BY JumpOK DEF Acc!scheduleExpiryBroadcast, Acc!At
<1>10. Acc!RevokeElevation(p) => Jump(p, "del", "resolve")
  BY JumpOK DEF Acc!RevokeElevation, Acc!At
<1>11. Acc!RevokeFails(p) => Finish(p, "del")
  BY JumpOK DEF Acc!RevokeFails, Acc!At
<1>12. ASSUME Acc!BroadcastElevationChanged(p)
       PROVE  Jump(p, "resolve", "set") \/ Finish(p, "resolve")
  <2>0. PICK ok \in BOOLEAN :
          \/ Acc!End(p)
          \/ goro' = [goro EXCEPT ![p].pc = "set", ![p].flag = Acc!RoleRead(goro[p].u, ok)]
    BY <1>12, Zenon DEF Acc!BroadcastElevationChanged
  <2> DEFINE b == Acc!RoleRead(goro[p].u, ok)
  <2>1. goro[p].pc = "resolve" /\ goro[p].u \in Person
    BY <1>12 DEF Acc!BroadcastElevationChanged, Acc!At, Goroutines, GoShape
  <2>2. CASE Acc!End(p)
    BY <2>1, <2>2, JumpOK
  <2>3. CASE goro' = [goro EXCEPT ![p].pc = "set", ![p].flag = b]
    <3>1. b \in BOOLEAN
      BY DEF Acc!RoleRead, Acc!IsAdmin, Acc!There
    <3> HIDE DEF b
    <3> QED BY <2>1, <2>3, <3>1, Resolved DEF Jump
  <2> QED BY <2>0, <2>2, <2>3
<1>13. Acc!refreshEffectiveAdmin(p) => Jump(p, "set", "drop") \/ Finish(p, "set")
  BY JumpOK DEF Acc!refreshEffectiveAdmin, Acc!At
<1>14. Acc!DropEntry(p) => Finish(p, "drop")
  BY JumpOK DEF Acc!DropEntry, Acc!At
<1> QED BY <1>1, <1>2, <1>3, <1>4, <1>5, <1>6, <1>7, <1>8, <1>9, <1>10, <1>11, <1>12, <1>13,
           <1>14

\* The steps that move no goroutine, but for Restart.
Aside ==
  \/ Acc!HubStep
  \/ \E c \in Conn : Acc!ReadEnds(c) \/ \E u \in Person : Acc!ServeWS(c, u)
  \/ \E u \in Person : Acc!IssueTicket(u) \/ Acc!TicketExpires(u) \/ Acc!LockEnds(u) \/ Acc!ElevationEnds(u)

LEMMA AsideSame ==
  ASSUME Aside
  PROVE  UNCHANGED goro
<1>1. CASE Acc!HubStep
  BY <1>1 DEF Acc!HubStep, Acc!addClient, Acc!removeClient, Acc!CloseSend
<1>2. CASE \E c \in Conn : Acc!ReadEnds(c) \/ \E u \in Person : Acc!ServeWS(c, u)
  BY <1>2 DEF Acc!ReadEnds, Acc!ServeWS
<1>3. CASE \E u \in Person : Acc!IssueTicket(u) \/ Acc!TicketExpires(u) \/ Acc!LockEnds(u) \/ Acc!ElevationEnds(u)
  BY <1>3 DEF Acc!IssueTicket, Acc!TicketExpires, Acc!LockEnds, Acc!ElevationEnds
<1> QED BY <1>1, <1>2, <1>3 DEF Aside

LEMMA GoroutinesStep ==
  ASSUME Acc!AccountsAssumption, Goroutines, RowTypes, [Acc!Next]_(Acc!vars)
  PROVE  Goroutines'
<1>1. CASE UNCHANGED goro
  BY <1>1 DEF Goroutines
<1>2. CASE Acc!Restart
  BY <1>2, GoIdle DEF Acc!Restart, Goroutines
<1>3. ASSUME NEW p \in Agent, Acc!ProcStep(p) PROVE Goroutines'
  BY <1>3, Jumps DEF Acc!ProcStep, Jump, Finish, Moves
<1>4. ASSUME NEW p \in Agent, NEW u \in Person, Acc!Request(p, u) \/ Acc!Fire(p, u) PROVE Goroutines'
  BY <1>4, Enters DEF Acc!Request, Acc!UserRequest, Acc!AuthRequest, Acc!OAuthRequest, Acc!SudoRequest, Enter, Moves
<1> QED BY <1>1, <1>2, <1>3, <1>4, AsideSame DEF Acc!vars, Acc!Next, Aside

-----------------------------------------------------------------------------
(***************************************************************************)
(* How many goroutines are at one of the points S for u.                   *)
(***************************************************************************)
Doing(S, u) == {q \in Agent : goro[q].pc \in S /\ goro[q].u = u}
Count(S, u) == Cardinality(Doing(S, u))

\* The instance's own finiteness and cardinality are the library's.
LEMMA FiniteProc ==
  ASSUME Acc!AccountsAssumption
  PROVE  IsFiniteSet(Agent) /\ Cardinality(Agent) = Acc!Cardinality(Agent)
BY DEF Acc!AccountsAssumption, Acc!IsFiniteSet, IsFiniteSet, Acc!Cardinality, Cardinality

LEMMA CountType ==
  ASSUME Acc!AccountsAssumption, NEW S, NEW u
  PROVE  Count(S, u) \in Nat /\ Count(S, u) <= Cardinality(Agent) /\ IsFiniteSet(Doing(S, u))
         /\ Cardinality(Agent) \in Nat
BY FiniteProc, FS_Subset, FS_CardinalityType DEF Doing, Count

LEMMA CountMoves ==
  ASSUME Acc!AccountsAssumption, NEW S, NEW u, NEW p \in Agent, NEW b, NEW v, Moves(p, b, v)
  PROVE  /\ b \in S /\ v = u => Count(S, u)' =
              IF p \in Doing(S, u) THEN Count(S, u) ELSE Count(S, u) + 1
         /\ ~(b \in S /\ v = u) => Count(S, u)' =
              IF p \in Doing(S, u) THEN Count(S, u) - 1 ELSE Count(S, u)
<1>1. IsFiniteSet(Doing(S, u))
  BY CountType
<1>2. CASE b \in S /\ v = u
  <2>1. Doing(S, u)' = Doing(S, u) \cup {p}
    BY <1>2 DEF Doing, Moves, OthersRest
  <2> QED BY <1>1, <1>2, <2>1, FS_AddElement DEF Count
<1>3. CASE ~(b \in S /\ v = u)
  <2>1. Doing(S, u)' = Doing(S, u) \ {p}
    BY <1>3 DEF Doing, Moves, OthersRest
  <2> QED BY <1>1, <1>3, <2>1, FS_RemoveElement DEF Count
<1> QED BY <1>2, <1>3

LEMMA CountEnter ==
  ASSUME Acc!AccountsAssumption, NEW S, "off" \notin S, NEW u, NEW p \in Agent, NEW pc, NEW v,
         Enter(p, pc, v)
  PROVE  Count(S, u)' = IF pc \in S /\ v = u THEN Count(S, u) + 1 ELSE Count(S, u)
<1>1. p \notin Doing(S, u)
  BY GoIdle DEF Enter, Doing
<1> QED BY <1>1, CountMoves DEF Enter

LEMMA CountEnters ==
  ASSUME Acc!AccountsAssumption, NEW S, "off" \notin S, NEW p \in Agent, NEW pc \in S, NEW u \in Person,
         Enter(p, pc, u)
  PROVE  Count(S, u)' = Count(S, u) + 1 /\ \A v \in Person \ {u} : Count(S, v)' = Count(S, v)
<1>1. Count(S, u)' = Count(S, u) + 1
  BY CountEnter
<1>2. ASSUME NEW v \in Person \ {u} PROVE Count(S, v)' = Count(S, v)
  <2>1. Count(S, v)' = IF pc \in S /\ u = v THEN Count(S, v) + 1 ELSE Count(S, v)
    BY CountEnter
  <2> QED BY <2>1
<1> QED BY <1>1, <1>2

LEMMA CountJump ==
  ASSUME Acc!AccountsAssumption, NEW S, "off" \notin S, NEW u, NEW p \in Agent, NEW a, NEW b,
         Jump(p, a, b), a \in S => b \in S
  PROVE  Count(S, u)' = IF a \notin S /\ b \in S /\ goro[p].u = u THEN Count(S, u) + 1
                        ELSE Count(S, u)
<1>1. p \in Doing(S, u) <=> a \in S /\ goro[p].u = u
  BY DEF Jump, Doing
<1> QED BY <1>1, CountMoves DEF Jump

LEMMA CountLeave ==
  ASSUME Acc!AccountsAssumption, NEW S, "off" \notin S, NEW u, NEW p \in Agent, NEW a, NEW b,
         (Jump(p, a, b) /\ b \notin S) \/ Finish(p, a)
  PROVE  Count(S, u)' = IF a \in S /\ goro[p].u = u THEN Count(S, u) - 1 ELSE Count(S, u)
<1>1. p \in Doing(S, u) <=> a \in S /\ goro[p].u = u
  BY DEF Jump, Finish, Doing
<1> QED BY <1>1, CountMoves DEF Jump, Finish

LEMMA CountSame ==
  ASSUME NEW S, NEW u, UNCHANGED goro
  PROVE  Count(S, u)' = Count(S, u)
BY DEF Count, Doing

LEMMA CountNone ==
  ASSUME NEW S, "off" \notin S, NEW u, goro' = [p \in Agent |-> Acc!Idle]
  PROVE  Count(S, u)' = 0
<1>1. Doing(S, u)' = {}
  BY GoIdle DEF Doing
<1> QED BY <1>1, FS_EmptySet DEF Count

LEMMA CountNat ==
  ASSUME Acc!AccountsAssumption, NEW S, NEW u
  PROVE  /\ Count(S, u) \in Nat /\ Count(S, u)' \in Nat
         /\ Count(S, u) <= Cardinality(Agent) /\ Count(S, u)' <= Cardinality(Agent)
         /\ Cardinality(Agent) \in Nat
<1>1. {q \in Agent : goro'[q].pc \in S /\ goro'[q].u = u} \in SUBSET Agent
  OBVIOUS
<1>2. /\ Cardinality({q \in Agent : goro'[q].pc \in S /\ goro'[q].u = u}) \in Nat
      /\ Cardinality({q \in Agent : goro'[q].pc \in S /\ goro'[q].u = u}) <= Cardinality(Agent)
  BY <1>1, FiniteProc, FS_Subset, FS_CardinalityType
<1> QED BY <1>2, CountType DEF Count, Doing

-----------------------------------------------------------------------------
(***************************************************************************)
(* Calls.                                                                  *)
(***************************************************************************)
LEMMA CallsStep ==
  ASSUME Acc!AccountsAssumption, aCalls \in 0 .. MaxEvents, [Acc!Next]_(Acc!vars)
  PROVE  aCalls' \in 0 .. MaxEvents /\ aCalls <= aCalls'
<1> USE DEF Acc!AccountsAssumption
<1>1. CASE UNCHANGED aCalls
  BY <1>1
<1>2. CASE aCalls < MaxEvents /\ aCalls' = aCalls + 1
  BY <1>2
<1>c. ASSUME NEW ok, NEW n \in {0, 1}, Acc!Charge(ok, n)
      PROVE  aCalls' \in 0 .. MaxEvents /\ aCalls <= aCalls'
  BY <1>c DEF Acc!Charge
<1>3. CASE Acc!HubStep \/ Acc!Restart
  BY <1>1, <1>2, <1>3 DEF Acc!HubStep, Acc!Restart, Acc!addClient, Acc!removeClient, Acc!CloseSend
<1>4. CASE \E c \in Conn : Acc!ReadEnds(c) \/ \E u \in Person : Acc!ServeWS(c, u)
  BY <1>1, <1>4, <1>c DEF Acc!ReadEnds, Acc!ServeWS
<1>5. CASE \E u \in Person : Acc!IssueTicket(u) \/ Acc!TicketExpires(u) \/ Acc!LockEnds(u) \/ Acc!ElevationEnds(u)
  BY <1>1, <1>2, <1>5 DEF Acc!IssueTicket, Acc!TicketExpires, Acc!LockEnds, Acc!ElevationEnds
<1>6. ASSUME NEW p \in Agent, Acc!ProcStep(p)
      PROVE  \/ UNCHANGED aCalls \/ (aCalls < MaxEvents /\ aCalls' = aCalls + 1)
             \/ \E ok \in BOOLEAN : Acc!Charge(ok, 0)
  BY <1>6 DEF Acc!ProcStep, Acc!Insert, Acc!UpdateRow, Acc!RemoveRow, Acc!IdentityFor, Acc!WrongPIN, Acc!RightPIN, Acc!Upsert,
       Acc!UpsertFails, Acc!RevokeElevation, Acc!scheduleExpiryBroadcast, Acc!RevokeFails,
       Acc!BroadcastElevationChanged, Acc!refreshEffectiveAdmin, Acc!DropEntry
<1>7. ASSUME NEW p \in Agent, NEW u \in Person, Acc!Request(p, u) \/ Acc!Fire(p, u)
      PROVE UNCHANGED aCalls \/ (aCalls < MaxEvents /\ aCalls' = aCalls + 1)
  BY <1>7 DEF Acc!Request, Acc!UserRequest, Acc!AuthRequest, Acc!OAuthRequest, Acc!SudoRequest, Acc!Create, Acc!UpdateUser,
       Acc!SetActive, Acc!UpdateProfile, Acc!ReadRow, Acc!DeleteUser, Acc!ConsumeTicket, Acc!Sudo, Acc!Revoke, Acc!Fire, Acc!Start
<1>8. CASE Acc!Next
  BY <1>1, <1>2, <1>3, <1>4, <1>5, <1>6, <1>7, <1>8, <1>c DEF Acc!Next
<1> QED BY <1>1, <1>8 DEF Acc!vars

\* The requests, and the steps of goroutines, by the points they are about.
LEMMA CountRequest ==
  ASSUME Acc!AccountsAssumption, Goroutines, RowTypes, NEW S, "off" \notin S, NEW v,
         NEW p \in Agent, NEW u \in Person, Acc!Request(p, u) \/ Acc!Fire(p, u)
  PROVE  \/ Count(S, v)' = Count(S, v)
         \/ Acc!Create(p, u) /\ "insert" \in S
         \/ Reads(p, u) /\ "update" \in S
         \/ Acc!DeleteUser(p, u) /\ "delete" \in S
         \/ Acc!ConsumeTicket(p, u) /\ "identity" \in S
         \/ Acc!Sudo(p, u) /\ "pin" \in S
         \/ Acc!Revoke(p, u) /\ "del" \in S
         \/ Acc!Fire(p, u) /\ "resolve" \in S
<1>1. ASSUME NEW pc, Enter(p, pc, u), pc \notin S PROVE Count(S, v)' = Count(S, v)
  BY <1>1, CountEnter
<1> QED BY <1>1, Enters, ReadRequests
        DEF Acc!Request, Acc!UserRequest, Acc!AuthRequest, Acc!OAuthRequest, Acc!SudoRequest

LEMMA CountProc ==
  ASSUME Acc!AccountsAssumption, Goroutines, NEW S, "off" \notin S, NEW v, NEW p \in Agent,
         Acc!ProcStep(p)
  PROVE  \/ Count(S, v)' = Count(S, v)
         \/ Acc!Insert(p) /\ "insert" \in S
         \/ Acc!UpdateRow(p) /\ "update" \in S
         \/ Acc!RemoveRow(p) /\ "delete" \in S
         \/ Acc!IdentityFor(p) /\ "identity" \in S
         \/ Acc!WrongPIN(p) /\ "pin" \in S
         \/ Acc!RightPIN(p) /\ ("pin" \in S \/ "upsert" \in S)
         \/ Acc!Upsert(p) /\ ("upsert" \in S \/ "arm" \in S)
         \/ Acc!UpsertFails(p) /\ "upsert" \in S
         \/ Acc!scheduleExpiryBroadcast(p) /\ ("arm" \in S \/ "resolve" \in S)
         \/ Acc!RevokeElevation(p) /\ ("del" \in S \/ "resolve" \in S)
         \/ Acc!RevokeFails(p) /\ "del" \in S
         \/ Acc!BroadcastElevationChanged(p) /\ ("resolve" \in S \/ "set" \in S)
         \/ Acc!refreshEffectiveAdmin(p) /\ ("set" \in S \/ "drop" \in S)
         \/ Acc!DropEntry(p) /\ "drop" \in S
<1>1. ASSUME NEW a, NEW b, Jump(p, a, b) \/ Finish(p, a), a \notin S, b \notin S
      PROVE  Count(S, v)' = Count(S, v)
  BY <1>1, CountLeave
<1>2. ASSUME Acc!Insert(p), "insert" \notin S PROVE Count(S, v)' = Count(S, v)
  <2>1. Finish(p, "insert")
    BY <1>2, Jumps
  <2> QED BY <1>1, <1>2, <2>1
<1>3. ASSUME Acc!UpdateRow(p), "update" \notin S PROVE Count(S, v)' = Count(S, v)
  <2>1. Finish(p, "update")
    BY <1>3, Jumps
  <2> QED BY <1>1, <1>3, <2>1
<1>4. ASSUME Acc!RemoveRow(p), "delete" \notin S PROVE Count(S, v)' = Count(S, v)
  <2>1. Finish(p, "delete")
    BY <1>4, Jumps
  <2> QED BY <1>1, <1>4, <2>1
<1>5. ASSUME Acc!IdentityFor(p), "identity" \notin S PROVE Count(S, v)' = Count(S, v)
  <2>1. Finish(p, "identity")
    BY <1>5, Jumps
  <2> QED BY <1>1, <1>5, <2>1
<1>6. ASSUME Acc!WrongPIN(p), "pin" \notin S PROVE Count(S, v)' = Count(S, v)
  <2>1. Finish(p, "pin")
    BY <1>6, Jumps
  <2> QED BY <1>1, <1>6, <2>1
<1>7. ASSUME Acc!RightPIN(p), "pin" \notin S, "upsert" \notin S PROVE Count(S, v)' = Count(S, v)
  <2>1. Jump(p, "pin", "upsert")
    BY <1>7, Jumps
  <2> QED BY <1>1, <1>7, <2>1
<1>8. ASSUME Acc!Upsert(p), "upsert" \notin S, "arm" \notin S PROVE Count(S, v)' = Count(S, v)
  <2>1. Jump(p, "upsert", "arm")
    BY <1>8, Jumps
  <2> QED BY <1>1, <1>8, <2>1
<1>9. ASSUME Acc!UpsertFails(p), "upsert" \notin S PROVE Count(S, v)' = Count(S, v)
  <2>1. Finish(p, "upsert")
    BY <1>9, Jumps
  <2> QED BY <1>1, <1>9, <2>1
<1>10. ASSUME Acc!scheduleExpiryBroadcast(p), "arm" \notin S, "resolve" \notin S PROVE Count(S, v)' = Count(S, v)
  <2>1. Jump(p, "arm", "resolve")
    BY <1>10, Jumps
  <2> QED BY <1>1, <1>10, <2>1
<1>11. ASSUME Acc!RevokeElevation(p), "del" \notin S, "resolve" \notin S PROVE Count(S, v)' = Count(S, v)
  <2>1. Jump(p, "del", "resolve")
    BY <1>11, Jumps
  <2> QED BY <1>1, <1>11, <2>1
<1>12. ASSUME Acc!RevokeFails(p), "del" \notin S PROVE Count(S, v)' = Count(S, v)
  <2>1. Finish(p, "del")
    BY <1>12, Jumps
  <2> QED BY <1>1, <1>12, <2>1
<1>13. ASSUME Acc!BroadcastElevationChanged(p), "resolve" \notin S, "set" \notin S PROVE Count(S, v)' = Count(S, v)
  <2>1. Jump(p, "resolve", "set") \/ Finish(p, "resolve")
    BY <1>13, Jumps
  <2> QED BY <1>1, <1>13, <2>1
<1>14. ASSUME Acc!refreshEffectiveAdmin(p), "set" \notin S, "drop" \notin S PROVE Count(S, v)' = Count(S, v)
  <2>1. Jump(p, "set", "drop") \/ Finish(p, "set")
    BY <1>14, Jumps
  <2> QED BY <1>1, <1>14, <2>1
<1>15. ASSUME Acc!DropEntry(p), "drop" \notin S PROVE Count(S, v)' = Count(S, v)
  <2>1. Finish(p, "drop")
    BY <1>15, Jumps
  <2> QED BY <1>1, <1>15, <2>1
<1> QED BY <1>2, <1>3, <1>4, <1>5, <1>6, <1>7, <1>8, <1>9, <1>10, <1>11, <1>12, <1>13, <1>14, <1>15 DEF Acc!ProcStep

-----------------------------------------------------------------------------
(***************************************************************************)
(* Tickets.                                                                *)
(***************************************************************************)
One(b) == IF b THEN 1 ELSE 0

\* A ticket owed is in Redis or in the hands of one goroutine.
Tickets ==
  /\ aOwed \in [Person -> Int] /\ tickets \subseteq Person
  /\ \A u \in Person :
       aOwed[u] <= aCalls /\ aOwed[u] >= One(u \in tickets) + Count({"identity"}, u)

LEMMA TicketSame ==
  ASSUME Acc!Next, ~(\E u \in Person : Acc!IssueTicket(u) \/ Acc!TicketExpires(u)),
         ~(\E p \in Agent : Acc!IdentityFor(p) \/ \E u \in Person : Acc!ConsumeTicket(p, u))
  PROVE  UNCHANGED <<tickets, aOwed>>
<1>1. CASE Acc!HubStep \/ Acc!Restart
  BY <1>1 DEF Acc!HubStep, Acc!Restart, Acc!addClient, Acc!removeClient, Acc!CloseSend, Acc!ticket
<1>2. CASE \E c \in Conn : Acc!ReadEnds(c) \/ \E u \in Person : Acc!ServeWS(c, u)
  BY <1>2 DEF Acc!ReadEnds, Acc!ServeWS, Acc!ticket
<1>3. CASE \E u \in Person : Acc!LockEnds(u) \/ Acc!ElevationEnds(u)
  BY <1>3 DEF Acc!LockEnds, Acc!ElevationEnds, Acc!ticket
<1>4. ASSUME NEW p \in Agent, Acc!ProcStep(p) PROVE UNCHANGED <<tickets, aOwed>>
  BY <1>4 DEF Acc!ProcStep, Acc!Insert, Acc!UpdateRow, Acc!RemoveRow, Acc!WrongPIN, Acc!RightPIN, Acc!Upsert,
       Acc!UpsertFails, Acc!RevokeElevation, Acc!scheduleExpiryBroadcast, Acc!RevokeFails,
       Acc!BroadcastElevationChanged, Acc!refreshEffectiveAdmin, Acc!DropEntry, Acc!ticket
<1>5. ASSUME NEW p \in Agent, NEW u \in Person, Acc!Request(p, u) \/ Acc!Fire(p, u)
      PROVE  UNCHANGED <<tickets, aOwed>>
  BY <1>5 DEF Acc!Request, Acc!UserRequest, Acc!AuthRequest, Acc!OAuthRequest, Acc!SudoRequest, Acc!Create, Acc!UpdateUser,
       Acc!SetActive, Acc!UpdateProfile, Acc!ReadRow, Acc!DeleteUser, Acc!Sudo, Acc!Revoke, Acc!Fire, Acc!ticket
<1> QED BY <1>1, <1>2, <1>3, <1>4, <1>5 DEF Acc!Next

LEMMA IdentitySame ==
  ASSUME Acc!AccountsAssumption, Goroutines, RowTypes, Acc!Next, ~Acc!Restart, NEW v \in Person,
         ~(\E p \in Agent : Acc!IdentityFor(p) \/ \E u \in Person : Acc!ConsumeTicket(p, u))
  PROVE  Count({"identity"}, v)' = Count({"identity"}, v)
<1>1. CASE UNCHANGED goro
  BY <1>1, CountSame
<1>2. ASSUME NEW p \in Agent, Acc!ProcStep(p) PROVE Count({"identity"}, v)' = Count({"identity"}, v)
  BY <1>2, CountProc
<1>3. ASSUME NEW p \in Agent, NEW u \in Person, Acc!Request(p, u) \/ Acc!Fire(p, u)
      PROVE  Count({"identity"}, v)' = Count({"identity"}, v)
  BY <1>3, CountRequest
<1> QED BY <1>1, <1>2, <1>3, AsideSame DEF Acc!Next, Aside

LEMMA TicketsStep ==
  ASSUME Acc!AccountsAssumption, Goroutines, RowTypes, aCalls \in 0 .. MaxEvents, Tickets, [Acc!Next]_(Acc!vars)
  PROVE  Tickets'
<1> DEFINE S == {"identity"}
           N(u) == Count(S, u)
<1>1. \A u \in Person : N(u) \in Nat /\ N(u)' \in Nat
  BY CountNat
<1>2. aCalls \in Nat /\ aCalls' \in Nat /\ aCalls <= aCalls'
  BY CallsStep DEF Acc!AccountsAssumption
<1>3. CASE UNCHANGED Acc!vars
  BY <1>3, CountSame DEF Acc!vars, Acc!ticket, Tickets
<1>4. CASE Acc!Restart
  <2>1. \A u \in Person : N(u)' = 0
    BY <1>4, CountNone DEF Acc!Restart
  <2> QED BY <1>1, <1>2, <1>4, <2>1 DEF Acc!Restart, Acc!ticket, Tickets, One
<1>5. ASSUME NEW u \in Person, Acc!IssueTicket(u) PROVE Tickets'
  <2>1. \A v \in Person : N(v)' = N(v)
    BY <1>5, CountSame DEF Acc!IssueTicket
  <2>2. /\ u \notin tickets /\ tickets' = tickets \cup {u}
        /\ aOwed' = [aOwed EXCEPT ![u] = @ + 1] /\ aCalls' = aCalls + 1
    BY <1>5 DEF Acc!IssueTicket
  <2> HIDE DEF N
  <2>3. aOwed' \in [Person -> Int] /\ aOwed'[u] = aOwed[u] + 1 /\ \A v \in Person \ {u} : aOwed'[v] = aOwed[v]
    BY <2>2 DEF Tickets
  <2>4. ASSUME NEW v \in Person PROVE aOwed'[v] <= aCalls' /\ aOwed'[v] >= One(v \in tickets') + N(v)'
    BY <1>1, <1>2, <2>1, <2>2, <2>3 DEF Tickets, One, N
  <2> QED BY <2>2, <2>3, <2>4 DEF Tickets, N
<1>6. ASSUME NEW u \in Person, Acc!TicketExpires(u) PROVE Tickets'
  <2>1. \A v \in Person : N(v)' = N(v)
    BY <1>6, CountSame DEF Acc!TicketExpires
  <2>2. tickets' = tickets \ {u} /\ aOwed' = aOwed /\ aCalls' = aCalls
    BY <1>6 DEF Acc!TicketExpires
  <2> QED BY <1>1, <1>2, <2>1, <2>2 DEF Tickets, One
<1>7. ASSUME NEW p \in Agent, NEW u \in Person, Acc!ConsumeTicket(p, u) PROVE Tickets'
  <2>1. Enter(p, "identity", u)
    BY <1>7, Enters
  <2>2. N(u)' = N(u) + 1 /\ \A v \in Person \ {u} : N(v)' = N(v)
    <3>1. "off" \notin S /\ "identity" \in S
      OBVIOUS
    <3> HIDE DEF S
    <3> QED BY <2>1, <3>1, CountEnters
  <2>3. u \in tickets /\ tickets' = tickets \ {u} /\ aOwed' = aOwed
    BY <1>7 DEF Acc!ConsumeTicket, Acc!GetDel
  <2> QED BY <1>1, <1>2, <2>2, <2>3 DEF Tickets, One
<1>8. ASSUME NEW p \in Agent, Acc!IdentityFor(p) PROVE Tickets'
  <2>1. Finish(p, "identity")
    BY <1>8, Jumps
  <2>u. PICK u \in Person : u = goro[p].u
    BY <2>1 DEF Finish
  <2>2. N(u)' = N(u) - 1 /\ \A v \in Person \ {u} : N(v)' = N(v)
    <3>1. N(u)' = N(u) - 1
      BY <2>1, <2>u, CountLeave, ZenonT(60)
    <3>2. ASSUME NEW v \in Person \ {u} PROVE N(v)' = N(v)
      BY <3>2, <2>1, <2>u, CountLeave
    <3> QED BY <3>1, <3>2
  <2>3. tickets' = tickets /\ aOwed' \in {aOwed, [aOwed EXCEPT ![u] = @ - 1]}
    BY <1>8, <2>u DEF Acc!IdentityFor
  <2>4. /\ aOwed' \in [Person -> Int] /\ aOwed'[u] \in {aOwed[u], aOwed[u] - 1}
        /\ \A v \in Person \ {u} : aOwed'[v] = aOwed[v]
    BY <2>2, <2>3 DEF Tickets
  <2> QED BY <1>1, <1>2, <2>2, <2>3, <2>4 DEF Tickets, One
<1>9. CASE /\ Acc!Next /\ ~Acc!Restart /\ ~(\E u \in Person : Acc!IssueTicket(u) \/ Acc!TicketExpires(u))
           /\ ~(\E p \in Agent : Acc!IdentityFor(p) \/ \E u \in Person : Acc!ConsumeTicket(p, u))
  BY <1>1, <1>2, <1>9, TicketSame, IdentitySame DEF Tickets, One
<1> QED BY <1>3, <1>4, <1>5, <1>6, <1>7, <1>8, <1>9

-----------------------------------------------------------------------------
(***************************************************************************)
(* The lock.                                                               *)
(***************************************************************************)

\* A PIN tried while the lock is set was past it before: with the ones still to
\* be verified there are fewer than the goroutines, the one that set it apart.
Locks ==
  /\ fails \in [Person -> 0 .. MaxFailures - 1] /\ locked \subseteq Person
  /\ inLock \in [Person -> Nat]
  /\ \A u \in Person : u \notin locked => inLock[u] = 0
  /\ \A u \in Person : u \in locked => inLock[u] + Count({"pin"}, u) <= Cardinality(Agent) - 1
  /\ \A u \in Person : inLock[u] + Count({"pin"}, u) <= aCalls

LEMMA PinsSame ==
  ASSUME Acc!Next, ~Acc!Restart, ~(\E u \in Person : Acc!LockEnds(u)),
         ~(\E p \in Agent : Acc!WrongPIN(p) \/ Acc!RightPIN(p))
  PROVE  UNCHANGED <<fails, locked, inLock>>
<1>1. CASE Acc!HubStep
  BY <1>1 DEF Acc!HubStep, Acc!addClient, Acc!removeClient, Acc!CloseSend, Acc!pins
<1>2. CASE \E c \in Conn : Acc!ReadEnds(c) \/ \E u \in Person : Acc!ServeWS(c, u)
  BY <1>2 DEF Acc!ReadEnds, Acc!ServeWS, Acc!pins
<1>3. CASE \E u \in Person : Acc!IssueTicket(u) \/ Acc!TicketExpires(u) \/ Acc!ElevationEnds(u)
  BY <1>3 DEF Acc!IssueTicket, Acc!TicketExpires, Acc!ElevationEnds, Acc!pins
<1>4. ASSUME NEW p \in Agent, Acc!ProcStep(p) PROVE UNCHANGED <<fails, locked, inLock>>
  BY <1>4 DEF Acc!ProcStep, Acc!Insert, Acc!UpdateRow, Acc!RemoveRow, Acc!IdentityFor, Acc!Upsert,
       Acc!UpsertFails, Acc!RevokeElevation, Acc!scheduleExpiryBroadcast, Acc!RevokeFails,
       Acc!BroadcastElevationChanged, Acc!refreshEffectiveAdmin, Acc!DropEntry, Acc!pins
<1>5. ASSUME NEW p \in Agent, NEW u \in Person, Acc!Request(p, u) \/ Acc!Fire(p, u)
      PROVE  UNCHANGED <<fails, locked, inLock>>
  BY <1>5 DEF Acc!Request, Acc!UserRequest, Acc!AuthRequest, Acc!OAuthRequest, Acc!SudoRequest, Acc!Create, Acc!UpdateUser,
       Acc!SetActive, Acc!UpdateProfile, Acc!ReadRow, Acc!DeleteUser, Acc!ConsumeTicket, Acc!Sudo, Acc!Revoke, Acc!Fire, Acc!pins
<1> QED BY <1>1, <1>2, <1>3, <1>4, <1>5 DEF Acc!Next

LEMMA PinSame ==
  ASSUME Acc!AccountsAssumption, Goroutines, RowTypes, Acc!Next, ~Acc!Restart, NEW v \in Person,
         ~(\E p \in Agent : Acc!WrongPIN(p) \/ Acc!RightPIN(p) \/ \E u \in Person : Acc!Sudo(p, u))
  PROVE  Count({"pin"}, v)' = Count({"pin"}, v)
<1>1. CASE UNCHANGED goro
  BY <1>1, CountSame
<1>2. ASSUME NEW p \in Agent, Acc!ProcStep(p) PROVE Count({"pin"}, v)' = Count({"pin"}, v)
  BY <1>2, CountProc
<1>3. ASSUME NEW p \in Agent, NEW u \in Person, Acc!Request(p, u) \/ Acc!Fire(p, u)
      PROVE  Count({"pin"}, v)' = Count({"pin"}, v)
  BY <1>3, CountRequest
<1> QED BY <1>1, <1>2, <1>3, AsideSame DEF Acc!Next, Aside

LEMMA LocksStep ==
  ASSUME Acc!AccountsAssumption, Goroutines, RowTypes, aCalls \in 0 .. MaxEvents, Locks, [Acc!Next]_(Acc!vars)
  PROVE  Locks'
<1> DEFINE S == {"pin"}
           N(u) == Count(S, u)
           K == Cardinality(Agent)
<1>1. K \in Nat /\ \A u \in Person : N(u) \in Nat /\ N(u)' \in Nat /\ N(u) <= K /\ N(u)' <= K
  BY CountNat
<1>2. aCalls \in Nat /\ aCalls' \in Nat /\ aCalls <= aCalls'
  BY CallsStep DEF Acc!AccountsAssumption
<1>k. K >= 1 /\ MaxFailures \in Nat \ {0}
  BY <1>1, FiniteProc, FS_EmptySet DEF Acc!AccountsAssumption
<1>3. CASE UNCHANGED Acc!vars
  BY <1>3, CountSame DEF Acc!vars, Acc!pins, Locks
<1>4. CASE Acc!Restart
  <2>1. \A u \in Person : N(u)' = 0
    BY <1>4, CountNone DEF Acc!Restart
  <2>2. fails' = [u \in Person |-> 0] /\ locked' = {} /\ inLock' = [u \in Person |-> 0]
    BY <1>4 DEF Acc!Restart
  <2> HIDE DEF N
  <2> QED BY <1>1, <1>2, <1>k, <2>1, <2>2 DEF Locks, N
<1>5. ASSUME NEW p \in Agent, NEW u \in Person, Acc!Sudo(p, u) PROVE Locks'
  <2>1. Enter(p, "pin", u)
    BY <1>5, Enters
  <2>2. N(u)' = N(u) + 1 /\ \A v \in Person \ {u} : N(v)' = N(v)
    <3>1. "off" \notin S /\ "pin" \in S
      OBVIOUS
    <3> HIDE DEF S
    <3> QED BY <2>1, <3>1, CountEnters
  <2>3. u \notin locked /\ UNCHANGED <<fails, locked, inLock>> /\ aCalls' = aCalls + 1
    BY <1>5 DEF Acc!Sudo, Acc!lockedUntil, Acc!Start, Acc!pins
  <2> HIDE DEF N
  <2> QED BY <1>1, <1>2, <1>k, <2>2, <2>3 DEF Locks, N
<1>6. ASSUME NEW p \in Agent, Acc!WrongPIN(p) PROVE Locks'
  <2>1. Finish(p, "pin")
    BY <1>6, Jumps
  <2>u. PICK u \in Person : u = goro[p].u
    BY <2>1 DEF Finish
  <2>2. N(u)' = N(u) - 1 /\ \A v \in Person \ {u} : N(v)' = N(v)
    <3>1. N(u)' = N(u) - 1
      BY <2>1, <2>u, CountLeave, ZenonT(60)
    <3>2. ASSUME NEW v \in Person \ {u} PROVE N(v)' = N(v)
      BY <3>2, <2>1, <2>u, CountLeave
    <3> QED BY <3>1, <3>2
  <2>3. Acc!recordFailure(u) /\ inLock' = (IF u \in locked THEN [inLock EXCEPT ![u] = @ + 1] ELSE inLock)
        /\ aCalls' = aCalls
    BY <1>6, <2>u DEF Acc!WrongPIN
  <2> HIDE DEF N, K
  <2>4. fails' \in [Person -> 0 .. MaxFailures - 1] /\ locked' \in {locked, locked \cup {u}}
    BY <1>k, <2>3 DEF Acc!recordFailure, Locks
  <2>5. /\ inLock' \in [Person -> Nat] /\ \A v \in Person \ {u} : inLock'[v] = inLock[v]
        /\ inLock'[u] = IF u \in locked THEN inLock[u] + 1 ELSE inLock[u]
    BY <2>3 DEF Locks
  <2>6. locked' \subseteq Person /\ \A v \in Person \ {u} : v \in locked' <=> v \in locked
    BY <2>4 DEF Locks
  <2>7. u \in locked => u \in locked'
    BY <2>4
  <2>8. ASSUME NEW v \in Person PROVE
          /\ v \notin locked' => inLock'[v] = 0
          /\ v \in locked' => inLock'[v] + N(v)' <= K - 1
          /\ inLock'[v] + N(v)' <= aCalls'
    <3>1. CASE v # u
      BY <1>1, <1>2, <2>2, <2>3, <2>5, <2>6, <3>1 DEF Locks, N, K
    <3>2. CASE v = u
      BY <1>1, <1>2, <2>2, <2>3, <2>5, <2>7, <3>2 DEF Locks, N, K
    <3> QED BY <3>1, <3>2
  <2> QED BY <2>4, <2>5, <2>6, <2>8 DEF Locks, N, K
<1>7. ASSUME NEW p \in Agent, Acc!RightPIN(p) PROVE Locks'
  <2>1. Jump(p, "pin", "upsert")
    BY <1>7, Jumps
  <2>u. PICK u \in Person : u = goro[p].u
    BY <2>1 DEF Jump
  <2>2. N(u)' = N(u) - 1 /\ \A v \in Person \ {u} : N(v)' = N(v)
    <3>0. ~("upsert" \in S) /\ "pin" \in S /\ ~("off" \in S)
      OBVIOUS
    <3> HIDE DEF S
    <3>1. N(u)' = N(u) - 1
      BY <2>1, <2>u, <3>0, CountLeave
    <3>2. ASSUME NEW v \in Person \ {u} PROVE N(v)' = N(v)
      BY <2>1, <2>u, <3>0, <3>2, CountLeave
    <3> QED BY <3>1, <3>2
  <2>3. Acc!clearFailures(u) /\ aCalls' = aCalls
    BY <1>7, <2>u DEF Acc!RightPIN
  <2> HIDE DEF N, K
  <2>4. /\ fails' \in [Person -> 0 .. MaxFailures - 1] /\ locked' = locked \ {u}
        /\ inLock' \in [Person -> Nat] /\ \A v \in Person \ {u} : inLock'[v] = inLock[v]
        /\ inLock'[u] = 0
    BY <1>k, <2>3 DEF Acc!clearFailures, Locks
  <2> QED BY <1>1, <1>2, <2>2, <2>3, <2>4 DEF Locks, N, K
<1>8. ASSUME NEW u \in Person, Acc!LockEnds(u) PROVE Locks'
  <2>1. \A v \in Person : N(v)' = N(v)
    BY <1>8, CountSame DEF Acc!LockEnds
  <2>2. CASE u \in locked
    <3>1. /\ locked' = locked \ {u} /\ inLock' = [inLock EXCEPT ![u] = 0] /\ UNCHANGED <<fails, aCalls>>
      BY <1>8, <2>2 DEF Acc!LockEnds
    <3> HIDE DEF N, K
    <3>2. /\ inLock' \in [Person -> Nat] /\ \A v \in Person \ {u} : inLock'[v] = inLock[v]
          /\ inLock'[u] = 0
      BY <3>1 DEF Locks
    <3> QED BY <1>1, <1>2, <2>1, <3>1, <3>2 DEF Locks, N, K
  <2>3. CASE u \notin locked
    <3>1. /\ fails[u] > 0 /\ fails' = [fails EXCEPT ![u] = @ - 1] /\ UNCHANGED <<locked, inLock, aCalls>>
      BY <1>8, <2>3 DEF Acc!LockEnds
    <3>2. fails' \in [Person -> 0 .. MaxFailures - 1]
      BY <1>k, <3>1 DEF Locks
    <3> QED BY <1>1, <1>2, <2>1, <3>1, <3>2 DEF Locks
  <2> QED BY <2>2, <2>3
<1>9. CASE /\ Acc!Next /\ ~Acc!Restart /\ ~(\E u \in Person : Acc!LockEnds(u))
           /\ ~(\E p \in Agent : Acc!WrongPIN(p) \/ Acc!RightPIN(p) \/ \E u \in Person : Acc!Sudo(p, u))
  <2>1. UNCHANGED <<fails, locked, inLock>>
    BY <1>9, PinsSame
  <2>2. \A u \in Person : N(u)' = N(u)
    BY <1>9, PinSame
  <2> HIDE DEF N, K
  <2> QED BY <1>1, <1>2, <2>1, <2>2 DEF Locks, N, K
<1> QED BY <1>3, <1>4, <1>5, <1>6, <1>7, <1>8, <1>9

-----------------------------------------------------------------------------
(***************************************************************************)
(* Timers.                                                                 *)
(***************************************************************************)
Sudoing == {"pin", "upsert", "arm"}

\* Every timer comes from a request, armed once.
Timers ==
  /\ entry \in [Person -> {"none", "armed", "fired"}] /\ orphans \in [Person -> Nat]
  /\ elev \subseteq Person /\ early \subseteq Person
  /\ \A u \in Person : orphans[u] + One(entry[u] = "armed") + Count(Sudoing, u) <= aCalls

LEMMA TimersSame ==
  ASSUME Acc!Next, ~Acc!Restart,
         ~(\E p \in Agent : Acc!scheduleExpiryBroadcast(p) \/ Acc!DropEntry(p)
                             \/ \E u \in Person : Acc!Revoke(p, u) \/ Acc!Fire(p, u))
  PROVE  UNCHANGED <<entry, orphans>>
<1>1. CASE Acc!HubStep
  BY <1>1 DEF Acc!HubStep, Acc!addClient, Acc!removeClient, Acc!CloseSend, Acc!sudo, Acc!timers
<1>2. CASE \E c \in Conn : Acc!ReadEnds(c) \/ \E u \in Person : Acc!ServeWS(c, u)
  BY <1>2 DEF Acc!ReadEnds, Acc!ServeWS, Acc!sudo, Acc!timers
<1>3. CASE \E u \in Person : Acc!IssueTicket(u) \/ Acc!TicketExpires(u) \/ Acc!LockEnds(u) \/ Acc!ElevationEnds(u)
  BY <1>3 DEF Acc!IssueTicket, Acc!TicketExpires, Acc!LockEnds, Acc!ElevationEnds, Acc!sudo, Acc!timers
<1>4. ASSUME NEW p \in Agent, Acc!ProcStep(p) PROVE UNCHANGED <<entry, orphans>>
  BY <1>4 DEF Acc!ProcStep, Acc!Insert, Acc!UpdateRow, Acc!RemoveRow, Acc!IdentityFor, Acc!WrongPIN, Acc!RightPIN, Acc!Upsert,
       Acc!UpsertFails, Acc!RevokeElevation, Acc!RevokeFails,
       Acc!BroadcastElevationChanged, Acc!refreshEffectiveAdmin, Acc!sudo, Acc!timers
<1>5. ASSUME NEW p \in Agent, NEW u \in Person, Acc!Request(p, u)
      PROVE  UNCHANGED <<entry, orphans>>
  BY <1>5 DEF Acc!Request, Acc!UserRequest, Acc!AuthRequest, Acc!OAuthRequest, Acc!SudoRequest, Acc!Create, Acc!UpdateUser,
       Acc!SetActive, Acc!UpdateProfile, Acc!ReadRow, Acc!DeleteUser, Acc!ConsumeTicket, Acc!Sudo, Acc!sudo, Acc!timers
<1> QED BY <1>1, <1>2, <1>3, <1>4, <1>5 DEF Acc!Next

LEMMA ElevSame ==
  ASSUME Acc!Next, ~Acc!Restart, ~(\E u \in Person : Acc!ElevationEnds(u)),
         ~(\E p \in Agent : Acc!Upsert(p) \/ Acc!RevokeElevation(p))
  PROVE  UNCHANGED <<elev, early>>
<1>1. CASE Acc!HubStep
  BY <1>1 DEF Acc!HubStep, Acc!addClient, Acc!removeClient, Acc!CloseSend, Acc!sudo, Acc!timers
<1>2. CASE \E c \in Conn : Acc!ReadEnds(c) \/ \E u \in Person : Acc!ServeWS(c, u)
  BY <1>2 DEF Acc!ReadEnds, Acc!ServeWS, Acc!sudo, Acc!timers
<1>3. CASE \E u \in Person : Acc!IssueTicket(u) \/ Acc!TicketExpires(u) \/ Acc!LockEnds(u)
  BY <1>3 DEF Acc!IssueTicket, Acc!TicketExpires, Acc!LockEnds, Acc!sudo, Acc!timers
<1>4. ASSUME NEW p \in Agent, Acc!ProcStep(p) PROVE UNCHANGED <<elev, early>>
  BY <1>4 DEF Acc!ProcStep, Acc!Insert, Acc!UpdateRow, Acc!RemoveRow, Acc!IdentityFor, Acc!WrongPIN, Acc!RightPIN,
       Acc!UpsertFails, Acc!RevokeFails, Acc!scheduleExpiryBroadcast, Acc!DropEntry,
       Acc!BroadcastElevationChanged, Acc!refreshEffectiveAdmin, Acc!sudo, Acc!timers
<1>5. ASSUME NEW p \in Agent, NEW u \in Person, Acc!Request(p, u) \/ Acc!Fire(p, u)
      PROVE  UNCHANGED <<elev, early>>
  BY <1>5 DEF Acc!Request, Acc!UserRequest, Acc!AuthRequest, Acc!OAuthRequest, Acc!SudoRequest, Acc!Create, Acc!UpdateUser,
       Acc!SetActive, Acc!UpdateProfile, Acc!ReadRow, Acc!DeleteUser, Acc!ConsumeTicket, Acc!Sudo, Acc!Revoke, Acc!Fire, Acc!sudo,
       Acc!timers
<1> QED BY <1>1, <1>2, <1>3, <1>4, <1>5 DEF Acc!Next

LEMMA ElevTypes ==
  ASSUME Goroutines, elev \subseteq Person, early \subseteq Person, [Acc!Next]_(Acc!vars)
  PROVE  elev' \subseteq Person /\ early' \subseteq Person
<1>1. CASE UNCHANGED <<elev, early>>
  BY <1>1
<1>2. CASE Acc!Restart
  BY <1>2 DEF Acc!Restart
<1>3. ASSUME NEW u \in Person, Acc!ElevationEnds(u) PROVE elev' \subseteq Person /\ early' \subseteq Person
  BY <1>3 DEF Acc!ElevationEnds, Acc!timers
<1>4. ASSUME NEW p \in Agent, Acc!Upsert(p) PROVE elev' \subseteq Person /\ early' \subseteq Person
  <2>1. goro[p].u \in Person
    BY <1>4, Jumps DEF Jump
  <2> QED BY <1>4, <2>1 DEF Acc!Upsert
<1>5. ASSUME NEW p \in Agent, Acc!RevokeElevation(p) PROVE elev' \subseteq Person /\ early' \subseteq Person
  BY <1>5 DEF Acc!RevokeElevation, Acc!timers
<1> QED BY <1>1, <1>2, <1>3, <1>4, <1>5, ElevSame DEF Acc!vars, Acc!sudo, Acc!timers

\* A step that brings the bound no nearer.
LEMMA TimersKept ==
  ASSUME Acc!AccountsAssumption, Timers, elev' \subseteq Person, early' \subseteq Person,
         aCalls \in 0 .. MaxEvents, aCalls' \in 0 .. MaxEvents, aCalls <= aCalls',
         entry' \in [Person -> {"none", "armed", "fired"}], orphans' \in [Person -> Nat],
         \A u \in Person :
           \/ /\ orphans'[u] + One(entry'[u] = "armed") <= orphans[u] + One(entry[u] = "armed")
              /\ Count(Sudoing, u)' <= Count(Sudoing, u)
           \/ /\ entry'[u] = entry[u] /\ orphans'[u] = orphans[u] /\ aCalls' = aCalls + 1
              /\ Count(Sudoing, u)' = Count(Sudoing, u) + 1
           \/ /\ entry'[u] = "armed" /\ orphans'[u] = orphans[u]
              /\ Count(Sudoing, u)' = Count(Sudoing, u) - 1
  PROVE  Timers'
<1>1. ASSUME NEW u \in Person
      PROVE  orphans'[u] + One(entry'[u] = "armed") + Count(Sudoing, u)' <= aCalls'
  <2> DEFINE N == Count(Sudoing, u)
             n == Count(Sudoing, u)'
             a == orphans[u] + One(entry[u] = "armed")
             b == orphans'[u] + One(entry'[u] = "armed")
  <2>1. N \in Nat /\ n \in Nat /\ aCalls \in Nat /\ aCalls' \in Nat /\ a + N <= aCalls
    BY CountNat DEF Acc!AccountsAssumption, Timers
  <2>2. a \in Nat /\ b \in Nat /\ orphans[u] \in Nat /\ orphans'[u] \in Nat
        /\ a >= orphans[u] /\ b <= orphans'[u] + 1
    BY DEF Timers, One
  <2>3. \/ b <= a /\ n <= N
        \/ b = a /\ n = N + 1 /\ aCalls' = aCalls + 1
        \/ orphans'[u] = orphans[u] /\ n = N - 1
    OBVIOUS
  <2> HIDE DEF N, n, a, b
  <2> QED BY <2>1, <2>2, <2>3 DEF a, b, n, N
<1> QED BY <1>1 DEF Timers

LEMMA TimersStep ==
  ASSUME Acc!AccountsAssumption, Goroutines, RowTypes, aCalls \in 0 .. MaxEvents, Timers, [Acc!Next]_(Acc!vars)
  PROVE  Timers'
<1> DEFINE N(u) == Count(Sudoing, u)
<1>1. elev' \subseteq Person /\ early' \subseteq Person
  BY ElevTypes DEF Timers
<1>2. aCalls' \in 0 .. MaxEvents /\ aCalls <= aCalls'
  BY CallsStep
<1>3. /\ entry \in [Person -> {"none", "armed", "fired"}] /\ orphans \in [Person -> Nat]
      /\ \A u \in Person : N(u) \in Nat /\ N(u)' \in Nat /\ orphans[u] + One(entry[u] = "armed") \in Nat
  BY CountNat DEF Timers, One
<1>4. CASE UNCHANGED <<entry, orphans>> /\ \A u \in Person : N(u)' <= N(u)
  BY <1>1, <1>2, <1>3, <1>4, TimersKept
<1>5. CASE Acc!Restart
  <2>1. \A u \in Person : N(u)' = 0
    BY <1>5, CountNone DEF Acc!Restart, Sudoing
  <2>2. entry' = [u \in Person |-> "none"] /\ orphans' = [u \in Person |-> 0]
    BY <1>5 DEF Acc!Restart
  <2>3. ASSUME NEW u \in Person
        PROVE  /\ orphans'[u] + One(entry'[u] = "armed") <= orphans[u] + One(entry[u] = "armed")
               /\ N(u)' <= N(u)
    BY <1>3, <2>1, <2>2 DEF One
  <2> QED BY <1>1, <1>2, <2>2, <2>3, TimersKept
<1>6. ASSUME NEW p \in Agent, NEW u \in Person, Acc!Sudo(p, u) PROVE Timers'
  <2>1. Enter(p, "pin", u)
    BY <1>6, Enters
  <2>a. "off" \notin Sudoing /\ "pin" \in Sudoing
    BY DEF Sudoing
  <2>2. N(u)' = N(u) + 1 /\ \A v \in Person \ {u} : N(v)' = N(v)
    BY <2>1, <2>a, CountEnters
  <2>3. UNCHANGED <<entry, orphans>> /\ aCalls' = aCalls + 1
    BY <1>6 DEF Acc!Sudo, Acc!Start, Acc!sudo, Acc!timers
  <2> QED BY <1>1, <1>2, <1>3, <2>2, <2>3, TimersKept
<1>7. ASSUME NEW p \in Agent, Acc!scheduleExpiryBroadcast(p) PROVE Timers'
  <2>1. Jump(p, "arm", "resolve")
    BY <1>7, Jumps
  <2>u. PICK u \in Person : u = goro[p].u
    BY <2>1 DEF Jump
  <2>2. N(u)' = N(u) - 1 /\ \A v \in Person \ {u} : N(v)' = N(v)
    BY <2>1, <2>u, CountLeave DEF Sudoing
  <2>3. entry' = [entry EXCEPT ![u] = "armed"] /\ orphans' = orphans
    BY <1>7, <2>u DEF Acc!scheduleExpiryBroadcast
  <2>4. entry'[u] = "armed" /\ \A v \in Person \ {u} : entry'[v] = entry[v]
    BY <1>3, <2>3
  <2>5. entry' \in [Person -> {"none", "armed", "fired"}] /\ orphans' \in [Person -> Nat]
    BY <1>3, <2>3
  <2> QED BY <1>1, <1>2, <1>3, <2>2, <2>3, <2>4, <2>5, TimersKept
<1>8. ASSUME NEW p \in Agent, NEW u \in Person, Acc!Revoke(p, u) \/ Acc!Fire(p, u) PROVE Timers'
  <2>1. Enter(p, "del", u) \/ Enter(p, "resolve", u)
    BY <1>8, Enters
  <2>2. \A v \in Person : N(v)' = N(v)
    BY <2>1, CountEnter DEF Sudoing
  <2>3. \/ entry' = [entry EXCEPT ![u] = "none"] /\ orphans' = orphans
        \/ entry' = [entry EXCEPT ![u] = "fired"] /\ orphans' = orphans
        \/ entry' = entry /\ orphans' = [orphans EXCEPT ![u] = @ - 1] /\ orphans[u] > 0
    BY <1>8 DEF Acc!Revoke, Acc!Fire
  <2>4. /\ entry' \in [Person -> {"none", "armed", "fired"}] /\ orphans' \in [Person -> Nat]
        /\ \A v \in Person \ {u} : entry'[v] = entry[v] /\ orphans'[v] = orphans[v]
        /\ \/ entry'[u] \in {"none", "fired"} /\ orphans'[u] = orphans[u]
           \/ entry'[u] = entry[u] /\ orphans'[u] = orphans[u] - 1
    BY <1>3, <2>3
  <2>5. ASSUME NEW v \in Person
        PROVE  orphans'[v] + One(entry'[v] = "armed") <= orphans[v] + One(entry[v] = "armed")
    BY <1>3, <2>4 DEF One
  <2> QED BY <1>1, <1>2, <1>3, <2>2, <2>4, <2>5, TimersKept
<1>9. ASSUME NEW p \in Agent, Acc!DropEntry(p) PROVE Timers'
  <2>1. Finish(p, "drop")
    BY <1>9, Jumps
  <2>u. PICK u \in Person : u = goro[p].u
    BY <2>1 DEF Finish
  <2>2. \A v \in Person : N(v)' = N(v)
    BY <2>1, CountLeave DEF Sudoing
  <2>3. /\ orphans' = IF entry[u] = "armed" THEN [orphans EXCEPT ![u] = @ + 1] ELSE orphans
        /\ entry' = [entry EXCEPT ![u] = "none"]
    BY <1>9, <2>u DEF Acc!DropEntry
  <2>4. /\ entry' \in [Person -> {"none", "armed", "fired"}] /\ orphans' \in [Person -> Nat]
        /\ \A v \in Person \ {u} : entry'[v] = entry[v] /\ orphans'[v] = orphans[v]
        /\ entry'[u] = "none"
        /\ orphans'[u] = IF entry[u] = "armed" THEN orphans[u] + 1 ELSE orphans[u]
    BY <1>3, <2>3
  <2>5. ASSUME NEW v \in Person
        PROVE  orphans'[v] + One(entry'[v] = "armed") <= orphans[v] + One(entry[v] = "armed")
    BY <1>3, <2>4 DEF One
  <2> QED BY <1>1, <1>2, <1>3, <2>2, <2>4, <2>5, TimersKept
<1>10. CASE /\ Acc!Next /\ ~Acc!Restart
            /\ ~(\E p \in Agent : Acc!scheduleExpiryBroadcast(p) \/ Acc!DropEntry(p)
                                 \/ \E u \in Person : Acc!Sudo(p, u) \/ Acc!Revoke(p, u) \/ Acc!Fire(p, u))
  <2>1. UNCHANGED <<entry, orphans>>
    BY <1>10, TimersSame
  <2>2. CASE UNCHANGED goro
    BY <1>4, <2>1, <2>2, CountSame, <1>3
  <2>3. ASSUME NEW p \in Agent, Acc!ProcStep(p) PROVE Timers'
    <3>1. ASSUME NEW v \in Person PROVE N(v)' <= N(v)
      <4>1. CASE N(v)' = N(v)
        BY <1>3, <4>1
      <4>2. CASE Acc!RightPIN(p) \/ Acc!Upsert(p)
        <5>1. Jump(p, "pin", "upsert") \/ Jump(p, "upsert", "arm")
          BY <4>2, Jumps
        <5>2. "off" \notin Sudoing /\ "pin" \in Sudoing /\ "upsert" \in Sudoing
              /\ "arm" \in Sudoing
          BY DEF Sudoing
        <5>3. N(v)' = N(v)
          BY <5>1, <5>2, CountJump
        <5> QED BY <1>3, <5>3
      <4>3. CASE Acc!WrongPIN(p) \/ Acc!UpsertFails(p)
        <5>1. Finish(p, "pin") \/ Finish(p, "upsert")
          BY <4>3, Jumps
        <5>2. N(v)' = N(v) - 1 \/ N(v)' = N(v)
          BY <5>1, CountLeave DEF Sudoing
        <5> QED BY <1>3, <5>2
      <4> QED BY <1>10, <2>3, <4>1, <4>2, <4>3, CountProc DEF Sudoing
    <3> QED BY <1>4, <2>1, <3>1
  <2>4. ASSUME NEW p \in Agent, NEW u \in Person, Acc!Request(p, u) \/ Acc!Fire(p, u) PROVE Timers'
    <3>1. \A v \in Person : N(v)' = N(v)
      BY <1>10, <2>4, CountRequest DEF Sudoing
    <3> QED BY <1>3, <1>4, <2>1, <3>1
  <2> QED BY <1>10, <2>2, <2>3, <2>4, AsideSame DEF Acc!Next, Aside
<1>11. CASE UNCHANGED Acc!vars
  <2>1. \A u \in Person : N(u)' = N(u)
    BY <1>11, CountSame DEF Acc!vars
  <2> QED BY <1>3, <1>4, <1>11, <2>1 DEF Acc!vars, Acc!sudo, Acc!timers
<1> QED BY <1>5, <1>6, <1>7, <1>8, <1>9, <1>10, <1>11

-----------------------------------------------------------------------------
(***************************************************************************)
(* Connections.                                                            *)
(***************************************************************************)
Line(k) ==
  /\ k = [st |-> k.st, user |-> k.user, flag |-> k.flag]
  /\ k.st \in {"off", "serve", "gone"} /\ k.user \in Person \cup {Nil} /\ k.flag \in BOOLEAN
  /\ k.st # "off" => k.user \in Person

Lines == conn = [c \in Conn |-> conn[c]] /\ \A c \in Conn : Line(conn[c])

OtherLines(c) == \A d \in Conn \ {c} : conn'[d] = conn[d]

LEMMA UnusedLine == Line(Acc!Unused) /\ Acc!Unused.st = "off"
BY DEF Line, Acc!Unused

LEMMA ConnSame ==
  ASSUME Acc!Next, ~Acc!Restart, ~Acc!CloseSend, ~(\E p \in Agent : Acc!refreshEffectiveAdmin(p)),
         ~(\E c \in Conn : Acc!ReadEnds(c) \/ \E u \in Person : Acc!ServeWS(c, u))
  PROVE  UNCHANGED conn
<1>1. CASE Acc!HubStep
  BY <1>1 DEF Acc!HubStep, Acc!addClient, Acc!removeClient
<1>2. CASE \E u \in Person : Acc!IssueTicket(u) \/ Acc!TicketExpires(u) \/ Acc!LockEnds(u) \/ Acc!ElevationEnds(u)
  BY <1>2 DEF Acc!IssueTicket, Acc!TicketExpires, Acc!LockEnds, Acc!ElevationEnds, Acc!wire
<1>3. ASSUME NEW p \in Agent, Acc!ProcStep(p) PROVE UNCHANGED conn
  BY <1>3 DEF Acc!ProcStep, Acc!Insert, Acc!UpdateRow, Acc!RemoveRow, Acc!IdentityFor, Acc!WrongPIN, Acc!RightPIN,
       Acc!Upsert, Acc!RevokeElevation, Acc!UpsertFails, Acc!RevokeFails, Acc!scheduleExpiryBroadcast, Acc!DropEntry,
       Acc!BroadcastElevationChanged, Acc!wire
<1>4. ASSUME NEW p \in Agent, NEW u \in Person, Acc!Request(p, u) \/ Acc!Fire(p, u)
      PROVE  UNCHANGED conn
  BY <1>4 DEF Acc!Request, Acc!UserRequest, Acc!AuthRequest, Acc!OAuthRequest, Acc!SudoRequest, Acc!Create, Acc!UpdateUser,
       Acc!SetActive, Acc!UpdateProfile, Acc!ReadRow, Acc!DeleteUser, Acc!ConsumeTicket, Acc!Sudo, Acc!Revoke, Acc!Fire, Acc!wire
<1> QED BY <1>1, <1>2, <1>3, <1>4 DEF Acc!Next

LEMMA ServeLine ==
  ASSUME Lines, NEW c \in Conn, NEW u \in Person, Acc!ServeWS(c, u)
  PROVE  /\ Lines' /\ OtherLines(c) /\ conn'[c].st = "serve" /\ conn'[c].user = u
         /\ \E b \in BOOLEAN :
              /\ conn'[c].flag = b
              /\ stale' = IF b # Acc!IsAdmin(u) THEN stale \cup {u}
                          ELSE IF Acc!SessionsOf(u) = {} /\ ~Acc!InFlight(Nil, u) /\ Acc!Watched(u)
                               THEN stale \ {u} ELSE stale
<1>0. PICK ok \in BOOLEAN :
        /\ conn' = [conn EXCEPT ![c] = [st |-> "serve", user |-> u, flag |-> Acc!RoleRead(u, ok)]]
        /\ stale' = IF Acc!RoleRead(u, ok) # Acc!IsAdmin(u) THEN stale \cup {u}
                    ELSE IF Acc!SessionsOf(u) = {} /\ ~Acc!InFlight(Nil, u) /\ Acc!Watched(u)
                         THEN stale \ {u} ELSE stale
  BY Zenon DEF Acc!ServeWS
<1> DEFINE b == Acc!RoleRead(u, ok)
           n == [st |-> "serve", user |-> u, flag |-> b]
<1>1. b \in BOOLEAN
  BY DEF Acc!RoleRead, Acc!IsAdmin, Acc!There
<1>2. /\ conn' = [conn EXCEPT ![c] = n]
      /\ stale' = IF b # Acc!IsAdmin(u) THEN stale \cup {u}
                  ELSE IF Acc!SessionsOf(u) = {} /\ ~Acc!InFlight(Nil, u) /\ Acc!Watched(u)
                       THEN stale \ {u} ELSE stale
  BY <1>0, Zenon
<1> HIDE DEF b
<1>3. Line(n) /\ n.st = "serve" /\ n.user = u
  BY <1>1 DEF Line
<1>4. n.flag = b
  BY Zenon
<1> HIDE DEF n
<1>5. Lines' /\ OtherLines(c) /\ conn'[c] = n
  BY <1>2, <1>3 DEF Lines, OtherLines
<1>6. conn'[c].flag = b
  BY <1>4, <1>5, Zenon
<1> QED BY <1>1, <1>2, <1>3, <1>5, <1>6, Zenon

LEMMA EndLine ==
  ASSUME Lines, NEW c \in Conn, Acc!ReadEnds(c)
  PROVE  /\ Lines' /\ OtherLines(c) /\ conn'[c].st = "gone" /\ conn'[c].user = conn[c].user
         /\ conn'[c].flag = conn[c].flag /\ conn[c].st = "serve"
<1> DEFINE r == conn[c]
           n == [r EXCEPT !.st = "gone"]
<1>1. Line(r) /\ r.st = "serve" /\ conn' = [conn EXCEPT ![c] = n]
  BY Zenon DEF Acc!ReadEnds, Lines
<1>2. Line(n) /\ n.st = "gone" /\ n.user = r.user /\ n.flag = r.flag
  BY <1>1 DEF Line
<1> HIDE DEF n
<1>3. Lines' /\ OtherLines(c) /\ conn'[c] = n
  BY <1>1, <1>2 DEF Lines, OtherLines
<1> QED BY <1>1, <1>2, <1>3

LEMMA RefreshLine ==
  ASSUME Lines, Goroutines, NEW p \in Agent, Acc!refreshEffectiveAdmin(p)
  PROVE  /\ Lines'
         /\ \A c \in Conn :
              /\ conn'[c].st = conn[c].st /\ conn'[c].user = conn[c].user
              /\ c \in Acc!SessionsOf(goro[p].u) => conn'[c].flag = goro[p].flag
              /\ c \notin Acc!SessionsOf(goro[p].u) => conn'[c].flag = conn[c].flag
<1> DEFINE f == goro[p].flag
           n(c) == [conn[c] EXCEPT !.flag = f]
<1>1. f \in BOOLEAN
  BY DEF Goroutines, GoShape
<1>2. conn' = [c \in Conn |-> IF c \in Acc!SessionsOf(goro[p].u) THEN n(c) ELSE conn[c]]
  BY DEF Acc!refreshEffectiveAdmin
<1> HIDE DEF f
<1>3. ASSUME NEW c \in Conn
      PROVE  Line(n(c)) /\ n(c).st = conn[c].st /\ n(c).user = conn[c].user /\ n(c).flag = f
  BY <1>1 DEF Lines, Line
<1> HIDE DEF n
<1> QED BY <1>2, <1>3 DEF Lines, f

LEMMA LinesStep ==
  ASSUME Lines, Goroutines, [Acc!Next]_(Acc!vars)
  PROVE  Lines'
<1>1. CASE UNCHANGED conn
  BY <1>1 DEF Lines
<1>2. CASE Acc!Restart
  BY <1>2, UnusedLine DEF Acc!Restart, Lines
<1>3. CASE Acc!CloseSend
  <2>1. CASE conn' = [conn EXCEPT ![hub.c] = Acc!Unused]
    BY <2>1, UnusedLine DEF Lines
  <2> QED BY <1>1, <1>3, <2>1 DEF Acc!CloseSend
<1> QED BY <1>1, <1>2, <1>3, ConnSame, ServeLine, EndLine, RefreshLine DEF Acc!vars, Acc!wire

-----------------------------------------------------------------------------
(***************************************************************************)
(* The hub.                                                                *)
(***************************************************************************)
HubTypes ==
  /\ reg \subseteq Conn /\ unreg \subseteq Conn /\ clients \subseteq Conn /\ closed \subseteq Conn
  /\ aOnline \subseteq Person
  /\ hub.pc \in {"wait", "close", "crashed"} /\ hub.c \in Conn \cup {Nil}
  /\ swapped \in BOOLEAN /\ panicked \in BOOLEAN

\* A connection that is off is nowhere; one that leaves leaves once.
Known(c) == c \in reg \cup clients
Places ==
  /\ \A c \in Conn : conn[c].st = "off" => ~Known(c) /\ c \notin unreg
  /\ \A c \in unreg : conn[c].st = "gone"
  /\ hub.pc = "close" => /\ hub.c \in Conn /\ conn[hub.c].st = "gone"
                         /\ hub.c \notin unreg /\ hub.c \notin clients

\* Unless a client left before it was registered, whoever is there is known to
\* the hub or about to be, whoever left and is known will be removed, and no
\* channel the hub may still send on is closed.
InStep ==
  /\ \A c \in Conn : conn[c].st = "serve" => Known(c)
  /\ \A c \in Conn : conn[c].st = "gone" /\ Known(c) => c \in unreg
  /\ aOnline = {conn[c].user : c \in clients}
  /\ closed = {} /\ ~panicked
  /\ hub.pc = "close" => ~Known(hub.c)

HubInv == HubTypes /\ Places /\ (~swapped => InStep)

LEMMA WireSame ==
  ASSUME Acc!Next, ~Acc!Restart, ~Acc!HubStep,
         ~(\E p \in Agent : Acc!BroadcastElevationChanged(p)),
         ~(\E c \in Conn : Acc!ReadEnds(c) \/ \E u \in Person : Acc!ServeWS(c, u))
  PROVE  UNCHANGED <<reg, unreg, clients, closed, aOnline, hub, swapped, panicked>>
<1>2. CASE \E u \in Person : Acc!IssueTicket(u) \/ Acc!TicketExpires(u) \/ Acc!LockEnds(u) \/ Acc!ElevationEnds(u)
  BY <1>2 DEF Acc!IssueTicket, Acc!TicketExpires, Acc!LockEnds, Acc!ElevationEnds, Acc!wire, Acc!registry, Acc!blame
<1>3. ASSUME NEW p \in Agent, Acc!ProcStep(p)
      PROVE  UNCHANGED <<reg, unreg, clients, closed, aOnline, hub, swapped, panicked>>
  BY <1>3 DEF Acc!ProcStep, Acc!Insert, Acc!UpdateRow, Acc!RemoveRow, Acc!IdentityFor, Acc!WrongPIN, Acc!RightPIN,
       Acc!Upsert, Acc!RevokeElevation, Acc!UpsertFails, Acc!RevokeFails, Acc!scheduleExpiryBroadcast, Acc!DropEntry,
       Acc!refreshEffectiveAdmin, Acc!wire, Acc!registry, Acc!blame
<1>4. ASSUME NEW p \in Agent, NEW u \in Person, Acc!Request(p, u) \/ Acc!Fire(p, u)
      PROVE  UNCHANGED <<reg, unreg, clients, closed, aOnline, hub, swapped, panicked>>
  BY <1>4 DEF Acc!Request, Acc!UserRequest, Acc!AuthRequest, Acc!OAuthRequest, Acc!SudoRequest, Acc!Create, Acc!UpdateUser,
       Acc!SetActive, Acc!UpdateProfile, Acc!ReadRow, Acc!DeleteUser, Acc!ConsumeTicket, Acc!Sudo, Acc!Revoke, Acc!Fire, Acc!wire,
       Acc!registry, Acc!blame
<1> QED BY <1>2, <1>3, <1>4 DEF Acc!Next

\* The connections stay as they are, but for their flags.
LEMMA HubKept ==
  ASSUME HubInv, UNCHANGED <<reg, unreg, clients, closed, aOnline, hub, swapped, panicked>>,
         \A c \in Conn : conn'[c].st = conn[c].st /\ conn'[c].user = conn[c].user
  PROVE  HubInv'
BY DEF HubInv, HubTypes, Places, InStep, Known

\* The broadcast of the hub's own goroutine.
LEMMA BroadcastHub ==
  ASSUME Acc!RefreshAndBroadcast, panicked \in BOOLEAN
  PROVE  /\ panicked' \in BOOLEAN /\ hub'.pc \in {"wait", "crashed"} /\ hub'.c = Nil
         /\ clients' \cap closed' = {} => panicked' = panicked /\ hub'.pc = "wait"
<1> DEFINE dead == clients' \cap closed' # {}
<1>1. dead \in BOOLEAN /\ panicked' = (panicked \/ dead)
      /\ hub' = IF dead THEN [pc |-> "crashed", c |-> Nil] ELSE Acc!Listening
  BY Zenon DEF Acc!RefreshAndBroadcast
<1>2. hub'.pc \in {"wait", "crashed"} /\ hub'.c = Nil /\ (~dead => hub'.pc = "wait")
  BY <1>1 DEF Acc!Listening
<1>3. panicked' \in BOOLEAN /\ (~dead => panicked' = panicked)
  <2> HIDE DEF dead
  <2> QED BY <1>1, Zenon
<1> QED BY <1>2, <1>3

LEMMA AddClientInv ==
  ASSUME HubInv, Lines, NEW c \in Conn, Acc!addClient(c)
  PROVE  HubInv'
<1>1. /\ hub.pc = "wait" /\ c \in reg /\ reg' = reg \ {c} /\ clients' = clients \cup {c}
      /\ aOnline' = aOnline \cup {conn[c].user} /\ UNCHANGED <<conn, unreg, closed, swapped>>
      /\ Acc!RefreshAndBroadcast
  BY DEF Acc!addClient
<1>2. /\ panicked' \in BOOLEAN /\ hub'.pc \in {"wait", "crashed"} /\ hub'.c = Nil
      /\ clients' \cap closed' = {} => panicked' = panicked /\ hub'.pc = "wait"
  BY <1>1, BroadcastHub DEF HubInv, HubTypes
<1>3. conn[c].st # "off" /\ conn[c].user \in Person
  BY <1>1 DEF HubInv, Places, Known, Lines, Line
<1>4. HubTypes'
  BY <1>1, <1>2, <1>3 DEF HubInv, HubTypes
<1>5. Places'
  BY <1>1, <1>2 DEF HubInv, Places, Known
<1>6. ASSUME ~swapped' PROVE InStep'
  <2>1. InStep
    BY <1>1, <1>6 DEF HubInv
  <2>2. closed' = {} /\ panicked' = panicked /\ hub'.pc = "wait"
    BY <1>1, <1>2, <2>1 DEF InStep
  <2>3. aOnline' = {conn'[d].user : d \in clients'}
    BY <1>1, <2>1 DEF InStep
  <2>4. \A d \in Conn : Known(d)' <=> Known(d)
    BY <1>1 DEF Known
  <2> QED BY <1>1, <2>1, <2>2, <2>3, <2>4 DEF InStep
<1> QED BY <1>4, <1>5, <1>6 DEF HubInv

LEMMA RemoveClientInv ==
  ASSUME HubInv, Lines, NEW c \in Conn, Acc!removeClient(c)
  PROVE  HubInv'
<1>1. /\ hub.pc = "wait" /\ c \in unreg /\ unreg' = unreg \ {c} /\ clients' = clients \ {c}
      /\ aOnline' = (IF Acc!StillOnline(c) THEN aOnline ELSE aOnline \ {conn[c].user})
      /\ hub' = [pc |-> "close", c |-> c] /\ UNCHANGED <<conn, reg, closed, panicked>>
  BY DEF Acc!removeClient
<1>2. swapped' \in BOOLEAN /\ (~swapped' => ~swapped /\ c \notin reg)
  <2> DEFINE b == c \in reg
  <2>1. swapped' = (swapped \/ b) /\ b \in BOOLEAN /\ swapped \in BOOLEAN
    <3>1. b \in BOOLEAN
      OBVIOUS
    <3>2. swapped \in BOOLEAN
      BY DEF HubInv, HubTypes
    <3> QED BY <3>1, <3>2 DEF Acc!removeClient
  <2> HIDE DEF b
  <2>2. swapped' \in BOOLEAN /\ (~swapped' => ~swapped /\ ~b)
    BY <2>1, Zenon
  <2> QED BY <2>2 DEF b
<1>3. conn[c].st = "gone"
  BY <1>1 DEF HubInv, Places
<1>4. HubTypes'
  BY <1>1, <1>2 DEF HubInv, HubTypes
<1>5. Places'
  BY <1>1, <1>3 DEF HubInv, Places, Known
<1>6. ASSUME ~swapped' PROVE InStep'
  <2>1. InStep /\ c \notin reg
    BY <1>2, <1>6 DEF HubInv
  <2>2. aOnline' = {conn'[d].user : d \in clients'}
    BY <1>1, <2>1 DEF InStep, Acc!StillOnline
  <2>3. /\ \A d \in Conn \ {c} : Known(d)' <=> Known(d)
        /\ ~Known(c)'
    BY <1>1, <2>1 DEF Known
  <2>4. hub'.pc = "close" => ~Known(hub.c)'
    BY <1>1, <2>3
  <2> QED BY <1>1, <1>3, <2>1, <2>2, <2>3, <2>4 DEF InStep
<1> QED BY <1>4, <1>5, <1>6 DEF HubInv

LEMMA CloseSendInv ==
  ASSUME HubInv, Lines, Acc!CloseSend
  PROVE  HubInv'
<1>1. /\ hub.pc = "close" /\ hub.c \in Conn /\ UNCHANGED <<reg, unreg, clients, aOnline, swapped>>
      /\ Acc!RefreshAndBroadcast
      /\ \/ Known(hub.c) /\ closed' = closed \cup {hub.c} /\ conn' = conn
         \/ ~Known(hub.c) /\ conn' = [conn EXCEPT ![hub.c] = Acc!Unused] /\ closed' = closed
  BY DEF Acc!CloseSend, HubInv, Places, Known
<1>2. /\ panicked' \in BOOLEAN /\ hub'.pc \in {"wait", "crashed"} /\ hub'.c = Nil
      /\ clients' \cap closed' = {} => panicked' = panicked /\ hub'.pc = "wait"
  BY <1>1, BroadcastHub DEF HubInv, HubTypes
<1>3. HubTypes'
  BY <1>1, <1>2 DEF HubInv, HubTypes
<1>4. /\ \A d \in Conn : conn'[d] = conn[d] \/ (d = hub.c /\ ~Known(d) /\ conn'[d].st = "off")
      /\ \A d \in Conn : Known(d)' <=> Known(d)
  BY <1>1, UnusedLine DEF Lines, Known
<1>5. Places'
  BY <1>1, <1>2, <1>4 DEF HubInv, HubTypes, Places
<1>6. ASSUME ~swapped' PROVE InStep'
  <2>1. InStep /\ ~Known(hub.c) /\ closed' = closed
    BY <1>1, <1>6 DEF HubInv, InStep
  <2>2. closed' = {} /\ panicked' = panicked /\ hub'.pc = "wait"
    BY <1>1, <1>2, <2>1 DEF InStep
  <2>3. \A d \in clients : conn'[d] = conn[d]
    BY <1>4 DEF Known, HubInv, HubTypes
  <2>4. aOnline' = {conn'[d].user : d \in clients'}
    BY <1>1, <2>1, <2>3 DEF InStep
  <2> QED BY <1>1, <1>4, <2>1, <2>2, <2>4 DEF InStep
<1> QED BY <1>3, <1>5, <1>6 DEF HubInv

LEMMA ServeInv ==
  ASSUME HubInv, Lines, NEW c \in Conn, NEW u \in Person, Acc!ServeWS(c, u)
  PROVE  HubInv'
<1>1. /\ conn[c].st = "off" /\ reg' = reg \cup {c}
      /\ UNCHANGED <<unreg, clients, closed, aOnline, hub, swapped, panicked>>
  BY DEF Acc!ServeWS, Acc!registry, Acc!blame
<1>2. OtherLines(c) /\ conn'[c].st = "serve"
  BY ServeLine
<1>3. HubTypes'
  BY <1>1 DEF HubInv, HubTypes
<1>4. c \notin clients /\ c \notin unreg /\ (hub.pc = "close" => hub.c # c)
  BY <1>1 DEF HubInv, Places, Known
<1>5. Places'
  BY <1>1, <1>2, <1>4, <1>3 DEF HubInv, HubTypes, Places, Known, OtherLines
<1>6. ASSUME ~swapped' PROVE InStep'
  <2>1. InStep
    BY <1>1, <1>6 DEF HubInv
  <2>2. \A d \in clients : conn'[d] = conn[d]
    BY <1>2, <1>4 DEF OtherLines, HubInv, HubTypes
  <2>3. aOnline' = {conn'[d].user : d \in clients'}
    BY <1>1, <2>1, <2>2 DEF InStep
  <2>4. /\ \A d \in Conn \ {c} : Known(d)' <=> Known(d)
        /\ Known(c)'
    BY <1>1 DEF Known
  <2>5. hub'.pc = "close" => ~Known(hub.c)'
    BY <1>1, <1>4, <2>1, <2>4 DEF InStep, Known
  <2> QED BY <1>1, <1>2, <2>1, <2>3, <2>4, <2>5 DEF InStep, OtherLines
<1> QED BY <1>3, <1>5, <1>6 DEF HubInv

LEMMA ReadEndsInv ==
  ASSUME HubInv, Lines, NEW c \in Conn, Acc!ReadEnds(c)
  PROVE  HubInv'
<1>1. /\ unreg' = unreg \cup {c}
      /\ UNCHANGED <<reg, clients, closed, aOnline, hub, swapped, panicked>>
  BY DEF Acc!ReadEnds, Acc!registry, Acc!blame
<1>2. OtherLines(c) /\ conn'[c].st = "gone" /\ conn[c].st = "serve" /\ conn'[c].user = conn[c].user
  BY EndLine
<1>3. HubTypes'
  BY <1>1 DEF HubInv, HubTypes
<1>4. Places'
  BY <1>1, <1>2 DEF HubInv, HubTypes, Places, Known, OtherLines
<1>5. ASSUME ~swapped' PROVE InStep'
  <2>1. InStep
    BY <1>1, <1>5 DEF HubInv
  <2>2. \A d \in clients : conn'[d].user = conn[d].user
    BY <1>2 DEF OtherLines, HubInv, HubTypes
  <2>3. aOnline' = {conn'[d].user : d \in clients'}
    BY <1>1, <2>1, <2>2 DEF InStep
  <2>4. \A d \in Conn : Known(d)' <=> Known(d)
    BY <1>1 DEF Known
  <2> QED BY <1>1, <1>2, <2>1, <2>3, <2>4 DEF InStep, OtherLines, Known
<1> QED BY <1>3, <1>4, <1>5 DEF HubInv

LEMMA BroadcastInv ==
  ASSUME HubInv, NEW p \in Agent, Acc!BroadcastElevationChanged(p)
  PROVE  HubInv'
<1> DEFINE dead == Acc!SessionsOf(goro[p].u) \cap closed # {}
<1>1. UNCHANGED <<conn, reg, unreg, clients, closed, aOnline, swapped>>
  BY DEF Acc!BroadcastElevationChanged, Acc!wire
<1>2. /\ panicked' = (panicked \/ dead) /\ dead \in BOOLEAN
      /\ hub' \in {hub, [pc |-> "crashed", c |-> Nil]} /\ (~dead => hub' = hub)
  BY Zenon DEF Acc!BroadcastElevationChanged
<1>3. panicked' \in BOOLEAN /\ (~dead => panicked' = panicked)
  <2>1. panicked \in BOOLEAN
    BY DEF HubInv, HubTypes
  <2> HIDE DEF dead
  <2> QED BY <1>2, <2>1, Zenon
<1>4. ~swapped => ~dead
  BY DEF HubInv, InStep
<1>5. HubTypes'
  BY <1>1, <1>2, <1>3 DEF HubInv, HubTypes
<1>6. Places'
  BY <1>1, <1>2 DEF HubInv, Places, Known
<1>7. ~swapped' => InStep'
  <2> HIDE DEF dead
  <2> QED BY <1>1, <1>2, <1>3, <1>4 DEF HubInv, InStep, Known
<1> QED BY <1>5, <1>6, <1>7 DEF HubInv

LEMMA HubStepInv ==
  ASSUME HubInv, Lines, Goroutines, [Acc!Next]_(Acc!vars)
  PROVE  HubInv'
<1>1. CASE UNCHANGED <<conn, reg, unreg, clients, closed, aOnline, hub, swapped, panicked>>
  BY <1>1, HubKept
<1>2. CASE Acc!Restart
  <2>1. /\ conn' = [c \in Conn |-> Acc!Unused] /\ reg' = {} /\ unreg' = {} /\ clients' = {}
        /\ closed' = {} /\ aOnline' = {} /\ hub' = Acc!Listening /\ swapped' = FALSE /\ panicked' = FALSE
    BY <1>2 DEF Acc!Restart
  <2>2. HubTypes' /\ Places'
    BY <2>1 DEF HubTypes, Places, Known, Acc!Listening, Acc!Unused
  <2>3. InStep'
    BY <2>1 DEF InStep, Known, Acc!Listening, Acc!Unused
  <2> QED BY <2>2, <2>3 DEF HubInv
<1>3. CASE Acc!HubStep
  BY <1>3, AddClientInv, RemoveClientInv, CloseSendInv DEF Acc!HubStep
<1>4. ASSUME NEW p \in Agent, Acc!refreshEffectiveAdmin(p) PROVE HubInv'
  <2>1. \A c \in Conn : conn'[c].st = conn[c].st /\ conn'[c].user = conn[c].user
    BY <1>4, RefreshLine
  <2>2. UNCHANGED <<reg, unreg, clients, closed, aOnline, hub, swapped, panicked>>
    BY <1>4 DEF Acc!refreshEffectiveAdmin, Acc!registry, Acc!blame
  <2> QED BY <2>1, <2>2, HubKept
<1>5. CASE /\ Acc!Next /\ ~Acc!Restart /\ ~Acc!HubStep
           /\ ~(\E p \in Agent : Acc!BroadcastElevationChanged(p) \/ Acc!refreshEffectiveAdmin(p))
           /\ ~(\E c \in Conn : Acc!ReadEnds(c) \/ \E u \in Person : Acc!ServeWS(c, u))
  <2>1. ~Acc!CloseSend
    BY <1>5 DEF Acc!HubStep
  <2> QED BY <1>1, <1>5, <2>1, WireSame, ConnSame
<1> QED BY <1>1, <1>2, <1>3, <1>4, <1>5, ServeInv, ReadEndsInv, BroadcastInv
        DEF Acc!vars, Acc!wire, Acc!registry, Acc!blame

-----------------------------------------------------------------------------
(***************************************************************************)
(* The flags of the sessions.                                              *)
(***************************************************************************)

\* The flag says what the role is now.
Right(v, u) == v = TRUE <=> Acc!IsAdmin(u)

\* A timer that is still to fire for u; a goroutine that is at a point of S.
TimerOn(u) == entry[u] = "armed" \/ orphans[u] > 0
AtWork(S, u) == \E p \in Agent : goro[p].u = u /\ goro[p].pc \in S

\* The sessions of u are still to hear of his role.
Pending(u) == AtWork({"arm", "del", "resolve", "set"}, u) \/ (u \notin elev /\ TimerOn(u))

\* A user who does not exist yet is not about to be elevated.
NewUsers ==
  \A u \in Person : users[u].state = "new" => u \notin elev /\ ~AtWork({"pin", "upsert"}, u)

Follows(u) ==
  /\ \A p \in Agent : goro[p].u = u /\ goro[p].pc = "set" => Right(goro[p].flag, u)
  /\ \A c \in reg : conn[c].user = u => Right(conn[c].flag, u)
  /\ \A c \in clients : conn[c].user = u => Right(conn[c].flag, u) \/ Pending(u)
  /\ u \in elev => u \notin early /\ (TimerOn(u) \/ AtWork({"arm", "del"}, u))

Flags == stale \subseteq Person /\ NewUsers /\ \A u \in Person \ stale : Follows(u)

LEMMA AdminKept ==
  ASSUME NEW u \in Person, users'[u] = users[u], u \in elev' <=> u \in elev
  PROVE  Acc!IsAdmin(u)' <=> Acc!IsAdmin(u)
BY DEF Acc!IsAdmin, Acc!There

LEMMA BusyMoves ==
  ASSUME NEW p \in Agent, NEW b, NEW v, Moves(p, b, v), NEW S, NEW u
  PROVE  /\ AtWork(S, u)' => AtWork(S, u) \/ (b \in S /\ v = u)
         /\ b \in S /\ v = u => AtWork(S, u)'
         /\ AtWork(S, u) /\ ~(goro[p].u = u /\ goro[p].pc \in S) => AtWork(S, u)'
BY DEF AtWork, Moves, OthersRest

LEMMA FollowsKept ==
  ASSUME NEW u, Follows(u), Acc!IsAdmin(u)' <=> Acc!IsAdmin(u),
         \A c \in reg' : conn'[c].user = u => c \in reg, clients' \subseteq clients \cup reg,
         \A c \in reg \cup clients :
           conn'[c].user = conn[c].user /\ (conn[c].user = u => conn'[c].flag = conn[c].flag),
         \A q \in Agent : goro'[q].u = u /\ goro'[q].pc = "set" =>
                           goro'[q] = goro[q] \/ (goro'[q].flag = TRUE <=> Acc!IsAdmin(u)'),
         Pending(u) => Pending(u)',
         u \in elev' => u \notin early' /\ (TimerOn(u)' \/ AtWork({"arm", "del"}, u)')
  PROVE  Follows(u)'
<1>1. ASSUME NEW q \in Agent, goro'[q].u = u, goro'[q].pc = "set"
      PROVE  goro'[q].flag = TRUE <=> Acc!IsAdmin(u)'
  BY <1>1 DEF Follows, Right
<1>2. ASSUME NEW c \in reg', conn'[c].user = u PROVE conn'[c].flag = TRUE <=> Acc!IsAdmin(u)'
  BY <1>2 DEF Follows, Right
<1>3. ASSUME NEW c \in clients', conn'[c].user = u
      PROVE  (conn'[c].flag = TRUE <=> Acc!IsAdmin(u)') \/ Pending(u)'
  BY <1>3 DEF Follows, Right
<1> QED BY <1>1, <1>2, <1>3 DEF Follows, Right

LEMMA FollowsPending ==
  ASSUME NEW u, \A q \in Agent : goro'[q].u = u => goro'[q].pc # "set",
         \A c \in reg' : conn'[c].user # u, Pending(u)',
         u \in elev' => u \notin early' /\ (TimerOn(u)' \/ AtWork({"arm", "del"}, u)')
  PROVE  Follows(u)'
BY DEF Follows

\* A goroutine moves that is not about to tell the sessions, and nothing that
\* decides about the flags of u changes.
LEMMA FollowsMove ==
  ASSUME NEW u \in Person, Follows(u), NEW p \in Agent, NEW b, NEW v, Moves(p, b, v),
         Acc!IsAdmin(u)' <=> Acc!IsAdmin(u), u \in elev' <=> u \in elev, u \in early' => u \in early,
         TimerOn(u) => TimerOn(u)',
         reg' \subseteq reg, clients' \subseteq clients \cup reg,
         \A c \in reg \cup clients :
           conn'[c].user = conn[c].user /\ (conn[c].user = u => conn'[c].flag = conn[c].flag),
         \/ goro[p].u # u /\ v # u
         \/ goro[p].pc \notin {"arm", "del", "resolve", "set"} /\ b # "set"
  PROVE  Follows(u)'
<1>2. AtWork({"arm", "del", "resolve", "set"}, u) => AtWork({"arm", "del", "resolve", "set"}, u)'
  BY BusyMoves
<1>3. AtWork({"arm", "del"}, u) => AtWork({"arm", "del"}, u)'
  BY BusyMoves
<1>4. Pending(u) => Pending(u)'
  BY <1>2 DEF Pending
<1>5. u \in elev' => u \notin early' /\ (TimerOn(u)' \/ AtWork({"arm", "del"}, u)')
  BY <1>3 DEF Follows
<1>6. \A q \in Agent : goro'[q].u = u /\ goro'[q].pc = "set" => goro'[q] = goro[q]
  BY DEF Moves, OthersRest
<1> QED BY <1>4, <1>5, <1>6, FollowsKept

\* Nothing moves.
LEMMA FollowsStill ==
  ASSUME NEW u \in Person, Follows(u), UNCHANGED <<goro, early, entry, orphans>>,
         users'[u] = users[u], u \in elev' <=> u \in elev,
         \A c \in reg' : conn'[c].user = u => c \in reg, clients' \subseteq clients \cup reg,
         \A c \in reg \cup clients :
           conn'[c].user = conn[c].user /\ (conn[c].user = u => conn'[c].flag = conn[c].flag)
  PROVE  Follows(u)'
<1>1. Acc!IsAdmin(u)' <=> Acc!IsAdmin(u)
  BY AdminKept
<1>2. /\ Pending(u) => Pending(u)'
      /\ TimerOn(u)' <=> TimerOn(u)
      /\ AtWork({"arm", "del"}, u)' <=> AtWork({"arm", "del"}, u)
  BY DEF Pending, AtWork, TimerOn
<1>3. u \in elev' => u \notin early' /\ (TimerOn(u)' \/ AtWork({"arm", "del"}, u)')
  BY <1>2 DEF Follows
<1> QED BY <1>1, <1>2, <1>3, FollowsKept

LEMMA RowsAge ==
  ASSUME RowTypes, Goroutines, [Acc!Next]_(Acc!vars), NEW u \in Person, users'[u].state = "new"
  PROVE  users'[u] = users[u]
<1>1. ASSUME NEW p \in Agent, Acc!Insert(p) PROVE users'[u] = users[u]
  <2>1. goro[p].u \in Person
    BY <1>1, Jumps DEF Finish
  <2>2. \/ users' = users
        \/ users' = [users EXCEPT ![goro[p].u] = Acc!Created(FALSE)]
    BY <1>1 DEF Acc!Insert, Acc!db
  <2> QED BY <2>1, <2>2 DEF RowTypes, Acc!Created
<1>2. ASSUME NEW p \in Agent, Acc!UpdateRow(p) PROVE users'[u] = users[u]
  <2>1. goro[p].u \in Person /\ goro[p].row.state = "there"
    BY <1>2 DEF Acc!UpdateRow, Acc!At, Goroutines, GoShape
  <2>2. users' = users \/ users' = [users EXCEPT ![goro[p].u] = goro[p].row]
    BY <1>2 DEF Acc!UpdateRow, Acc!db
  <2> QED BY <2>1, <2>2 DEF RowTypes
<1>3. ASSUME NEW p \in Agent, Acc!RemoveRow(p) PROVE users'[u] = users[u]
  <2>1. PICK v \in Person : v = goro[p].u
    BY <1>3, Jumps DEF Finish
  <2>2. users' = [users EXCEPT ![v].state = "gone"]
    BY <1>3, <2>1 DEF Acc!RemoveRow
  <2>3. users[v] \in Acc!Row
    BY DEF RowTypes
  <2>4. users'[v].state = "gone"
    BY <2>2, <2>3 DEF RowTypes, Acc!Row
  <2> QED BY <2>2, <2>4 DEF RowTypes
<1> QED BY <1>1, <1>2, <1>3, DbSame DEF Acc!vars, Acc!db

\* Only Upsert elevates.
LEMMA ElevGrows ==
  ASSUME Goroutines, [Acc!Next]_(Acc!vars), NEW u \in Person, u \in elev', u \notin elev
  PROVE  \E p \in Agent : Acc!Upsert(p) /\ goro[p].u = u /\ goro[p].pc = "upsert"
<1>1. ASSUME NEW p \in Agent, Acc!Upsert(p)
      PROVE  \E q \in Agent : Acc!Upsert(q) /\ goro[q].u = u /\ goro[q].pc = "upsert"
  BY <1>1 DEF Acc!Upsert, Acc!At
<1>2. ~Acc!Restart /\ ~(\E v \in Person : Acc!ElevationEnds(v)) /\ ~(\E p \in Agent : Acc!RevokeElevation(p))
  BY DEF Acc!Restart, Acc!ElevationEnds, Acc!RevokeElevation
<1>3. Acc!Next
  BY DEF Acc!vars, Acc!sudo
<1> QED BY <1>1, <1>2, <1>3, ElevSame

\* Only Sudo asks for the PIN.
LEMMA PinEntered ==
  ASSUME Acc!AccountsAssumption, Goroutines, RowTypes, [Acc!Next]_(Acc!vars), NEW u \in Person,
         AtWork({"pin", "upsert"}, u)'
  PROVE  AtWork({"pin", "upsert"}, u) \/ Acc!There(u)
<1> DEFINE S == {"pin", "upsert"}
<1>1. CASE UNCHANGED goro
  BY <1>1 DEF AtWork
<1>2. CASE Acc!Restart
  BY <1>2 DEF Acc!Restart, AtWork, Acc!Idle
<1>3. ASSUME NEW p \in Agent, Acc!ProcStep(p) PROVE AtWork(S, u)
  <2>1. CASE \E b \in Points \ S : Moves(p, b, goro[p].u) \/ Moves(p, b, Nil)
    BY <2>1, BusyMoves
  <2>2. CASE Acc!RightPIN(p)
    <3>1. Jump(p, "pin", "upsert")
      BY <2>2, Jumps
    <3>2. AtWork(S, u) \/ goro[p].u = u
      BY <3>1, BusyMoves DEF Jump
    <3> QED BY <3>1, <3>2 DEF Jump, AtWork
  <2>3. CASE ~Acc!RightPIN(p)
    <3>1. \/ \E a \in Points : Finish(p, a)
          \/ \E a \in Points, b \in Points \ S : Jump(p, a, b)
      BY <1>3, <2>3, Jumps DEF Acc!ProcStep, Points
    <3> QED BY <2>1, <3>1 DEF Jump, Finish, Points
  <2> QED BY <2>2, <2>3
<1>4. ASSUME NEW p \in Agent, NEW v \in Person, Acc!Request(p, v) \/ Acc!Fire(p, v)
      PROVE  AtWork(S, u) \/ Acc!There(u)
  <2>1. CASE Acc!Sudo(p, v)
    <3>1. Enter(p, "pin", v) /\ Acc!There(v)
      BY <2>1, Enters DEF Acc!Sudo
    <3> QED BY <3>1, BusyMoves DEF Enter
  <2>2. CASE ~Acc!Sudo(p, v)
    <3>1. \E b \in Points \ S : Enter(p, b, v)
      BY <1>4, <2>2, Enters DEF Acc!Request, Acc!UserRequest, Acc!AuthRequest, Acc!OAuthRequest, Acc!SudoRequest, Points
    <3> QED BY <3>1, BusyMoves DEF Enter
  <2> QED BY <2>1, <2>2
<1> QED BY <1>1, <1>2, <1>3, <1>4, AsideSame DEF Acc!vars, Acc!Next, Aside

LEMMA NewUsersStep ==
  ASSUME Acc!AccountsAssumption, Goroutines, RowTypes, NewUsers, [Acc!Next]_(Acc!vars)
  PROVE  NewUsers'
<1> SUFFICES ASSUME NEW u \in Person, users'[u].state = "new"
             PROVE  u \notin elev' /\ ~AtWork({"pin", "upsert"}, u)'
  BY DEF NewUsers
<1>1. users[u].state = "new"
  BY RowsAge
<1>2. u \notin elev /\ ~AtWork({"pin", "upsert"}, u) /\ ~Acc!There(u)
  BY <1>1 DEF NewUsers, Acc!There
<1> QED BY <1>2, ElevGrows, PinEntered DEF AtWork

\* A goroutine moves that has nothing to tell to the sessions.
LEMMA FlagsMove ==
  ASSUME Flags, NewUsers', stale \subseteq stale', stale' \subseteq Person,
         NEW p \in Agent, NEW b, NEW w, Moves(p, b, w),
         UNCHANGED <<elev, early, reg, clients, conn>>,
         \A u \in Person : TimerOn(u) => TimerOn(u)',
         \A u \in Person \ stale' : Acc!IsAdmin(u)' <=> Acc!IsAdmin(u),
         goro[p].pc \notin {"arm", "del", "resolve", "set"}, b # "set"
  PROVE  Flags'
<1>1. ASSUME NEW u \in Person \ stale' PROVE Follows(u)'
  <2>1. Follows(u)
    BY DEF Flags
  <2> QED BY <2>1, FollowsMove
<1> QED BY <1>1 DEF Flags

\* A step on behalf of v, as far as the others are concerned.
Apart(v) ==
  /\ stale \ {v} \subseteq stale' /\ stale' \subseteq stale \cup {v}
  /\ \A u \in Person \ {v} :
       /\ users'[u] = users[u] /\ (u \in elev' <=> u \in elev) /\ (u \in early' => u \in early)
       /\ entry'[u] = entry[u] /\ orphans'[u] = orphans[u]
  /\ reg' = reg /\ clients' = clients
  /\ \A c \in reg \cup clients :
       conn'[c].user = conn[c].user /\ (conn[c].user # v => conn'[c].flag = conn[c].flag)

LEMMA FlagsOf ==
  ASSUME Flags, NewUsers', NEW v \in Person, Apart(v), NEW p \in Agent, NEW b, NEW w,
         Moves(p, b, w), goro[p].u \in {v, Nil}, w \in {v, Nil}, Nil \notin Person,
         v \notin stale' => Follows(v)'
  PROVE  Flags'
<1>1. ASSUME NEW u \in Person \ stale', u # v PROVE Follows(u)'
  <2>1. Follows(u) /\ (Acc!IsAdmin(u)' <=> Acc!IsAdmin(u))
    BY <1>1, AdminKept DEF Flags, Apart
  <2>2. TimerOn(u) => TimerOn(u)'
    BY <1>1 DEF Apart, TimerOn
  <2>3. goro[p].u # u /\ w # u
    BY <1>1
  <2> QED BY <1>1, <2>1, <2>2, <2>3, FollowsMove DEF Apart
<1>2. stale' \subseteq Person
  BY DEF Flags, Apart
<1> QED BY <1>1, <1>2 DEF Flags

LEMMA FlagsUpsert ==
  ASSUME Acc!AccountsAssumption, Flags, NewUsers', Goroutines, HubInv, NEW p \in Agent, Acc!Upsert(p)
  PROVE  Flags'
<1>1. PICK v \in Person : v = goro[p].u
  BY Jumps DEF Jump
<1> DEFINE overlaps == \E q \in Agent \ {p} : goro[q].u = v /\ goro[q].pc = "arm"
<1>2. /\ elev' = elev \cup {v}
      /\ early' = IF overlaps THEN early \cup {v} ELSE early \ {v}
      /\ stale' = IF overlaps \/ Acc!InFlight(p, v) THEN stale \cup {v} ELSE stale
      /\ UNCHANGED <<users, entry, orphans, reg, clients, conn>>
  BY <1>1 DEF Acc!Upsert, Acc!db, Acc!wire, Acc!registry
<1>3. Moves(p, "arm", v)
  BY <1>1, Jumps DEF Jump
<1>4. Apart(v)
  BY <1>2 DEF Apart
<1>5. ASSUME v \notin stale' PROVE Follows(v)'
  <2>1. v \notin early' /\ ~Acc!InFlight(p, v)
    BY <1>2, <1>5
  <2>2. \A q \in Agent : goro'[q].u = v => goro'[q].pc # "set"
    BY <1>3, <2>1 DEF Acc!InFlight, Moves, OthersRest
  <2>3. \A c \in reg' : conn'[c].user # v
    BY <1>2, <2>1 DEF Acc!InFlight, HubInv, HubTypes
  <2>4. AtWork({"arm", "del"}, v)' /\ AtWork({"arm", "del", "resolve", "set"}, v)'
    BY <1>3, BusyMoves
  <2>5. Pending(v)'
    BY <2>4 DEF Pending
  <2> QED BY <2>1, <2>2, <2>3, <2>4, <2>5, FollowsPending
<1>6. Nil \notin Person
  BY DEF Acc!AccountsAssumption
<1> QED BY <1>1, <1>3, <1>4, <1>5, <1>6, FlagsOf

LEMMA FlagsRevoked ==
  ASSUME Acc!AccountsAssumption, Flags, NewUsers', Goroutines, HubInv, NEW p \in Agent,
         Acc!RevokeElevation(p)
  PROVE  Flags'
<1>1. PICK v \in Person : v = goro[p].u
  BY Jumps DEF Jump
<1>2. /\ elev' = elev \ {v}
      /\ stale' = IF Acc!InFlight(p, v) THEN stale \cup {v} ELSE stale
      /\ UNCHANGED <<users, entry, orphans, early, reg, clients, conn>>
  BY <1>1 DEF Acc!RevokeElevation, Acc!timers, Acc!db, Acc!wire, Acc!registry
<1>3. Moves(p, "resolve", v)
  BY <1>1, Jumps DEF Jump
<1>4. Apart(v)
  BY <1>2 DEF Apart
<1>5. ASSUME v \notin stale' PROVE Follows(v)'
  <2>1. v \notin elev' /\ ~Acc!InFlight(p, v)
    BY <1>2, <1>5
  <2>2. \A q \in Agent : goro'[q].u = v => goro'[q].pc # "set"
    BY <1>3, <2>1 DEF Acc!InFlight, Moves, OthersRest
  <2>3. \A c \in reg' : conn'[c].user # v
    BY <1>2, <2>1 DEF Acc!InFlight, HubInv, HubTypes
  <2>4. AtWork({"arm", "del", "resolve", "set"}, v)'
    BY <1>3, BusyMoves
  <2>5. Pending(v)'
    BY <2>4 DEF Pending
  <2> QED BY <2>1, <2>2, <2>3, <2>5, FollowsPending
<1>6. Nil \notin Person
  BY DEF Acc!AccountsAssumption
<1> QED BY <1>1, <1>3, <1>4, <1>5, <1>6, FlagsOf

LEMMA FlagsRevokeFails ==
  ASSUME Acc!AccountsAssumption, Flags, NewUsers', Goroutines, NEW p \in Agent, Acc!RevokeFails(p)
  PROVE  Flags'
<1>1. PICK v \in Person : v = goro[p].u
  BY Jumps DEF Finish
<1>2. stale' = stale \cup {v} /\ UNCHANGED <<users, elev, entry, orphans, early, reg, clients, conn>>
  BY <1>1 DEF Acc!RevokeFails, Acc!sudo, Acc!timers, Acc!db, Acc!wire, Acc!registry
<1>3. Moves(p, "off", Nil)
  BY Jumps DEF Finish
<1>4. Apart(v)
  BY <1>2 DEF Apart
<1>5. Nil \notin Person
  BY DEF Acc!AccountsAssumption
<1> QED BY <1>1, <1>2, <1>3, <1>4, <1>5, FlagsOf

\* A goroutine of v that is about to tell his sessions takes over.
LEMMA FollowsTold ==
  ASSUME NEW v \in Person, Follows(v), NEW p \in Agent, NEW b \in {"arm", "del", "resolve"},
         Moves(p, b, v), UNCHANGED <<users, elev, early, reg, clients, conn>>,
         v \in elev => TimerOn(v)' \/ AtWork({"arm", "del"}, v)'
  PROVE  Follows(v)'
<1>1. Acc!IsAdmin(v)' <=> Acc!IsAdmin(v)
  BY AdminKept
<1>2. Pending(v)'
  BY BusyMoves DEF Pending
<1>3. \A q \in Agent : goro'[q].u = v /\ goro'[q].pc = "set" => goro'[q] = goro[q]
  BY DEF Moves, OthersRest
<1>4. v \in elev' => v \notin early' /\ (TimerOn(v)' \/ AtWork({"arm", "del"}, v)')
  BY DEF Follows
<1> QED BY <1>1, <1>2, <1>3, <1>4, FollowsKept

LEMMA FlagsSchedule ==
  ASSUME Acc!AccountsAssumption, Flags, NewUsers', Goroutines, Timers, NEW p \in Agent,
         Acc!scheduleExpiryBroadcast(p)
  PROVE  Flags'
<1>1. PICK v \in Person : v = goro[p].u
  BY Jumps DEF Jump
<1>2. /\ entry' = [entry EXCEPT ![v] = "armed"]
      /\ UNCHANGED <<users, elev, orphans, early, reg, clients, conn, stale>>
  BY <1>1 DEF Acc!scheduleExpiryBroadcast, Acc!db, Acc!wire, Acc!registry
<1>3. Moves(p, "resolve", v)
  BY <1>1, Jumps DEF Jump
<1>4. Apart(v) /\ TimerOn(v)'
  BY <1>2 DEF Apart, TimerOn, Timers
<1>5. ASSUME v \notin stale' PROVE Follows(v)'
  <2>1. Follows(v)
    BY <1>2, <1>5 DEF Flags
  <2> QED BY <1>2, <1>3, <1>4, <2>1, FollowsTold
<1>6. Nil \notin Person
  BY DEF Acc!AccountsAssumption
<1> QED BY <1>1, <1>3, <1>4, <1>5, <1>6, FlagsOf

LEMMA FlagsRevoke ==
  ASSUME Acc!AccountsAssumption, Flags, NewUsers', Goroutines, RowTypes, Timers, NEW p \in Agent,
         NEW v \in Person, Acc!Revoke(p, v)
  PROVE  Flags'
<1>1. /\ entry' = [entry EXCEPT ![v] = "none"]
      /\ UNCHANGED <<users, elev, orphans, early, reg, clients, conn, stale>>
  BY DEF Acc!Revoke, Acc!db, Acc!wire, Acc!registry
<1>2. Moves(p, "del", v) /\ goro[p] = Acc!Idle
  BY Enters DEF Enter
<1>3. Apart(v) /\ AtWork({"arm", "del"}, v)'
  BY <1>1, <1>2, BusyMoves DEF Apart, Timers
<1>4. ASSUME v \notin stale' PROVE Follows(v)'
  <2>1. Follows(v)
    BY <1>1, <1>4 DEF Flags
  <2> QED BY <1>1, <1>2, <1>3, <2>1, FollowsTold
<1>5. Nil \notin Person /\ goro[p].u = Nil
  BY <1>2 DEF Acc!AccountsAssumption, Acc!Idle
<1> QED BY <1>2, <1>3, <1>4, <1>5, FlagsOf

LEMMA FlagsFire ==
  ASSUME Acc!AccountsAssumption, Flags, NewUsers', Goroutines, RowTypes, Timers, NEW p \in Agent,
         NEW v \in Person, Acc!Fire(p, v)
  PROVE  Flags'
<1>1. UNCHANGED <<users, elev, early, reg, clients, conn, stale>>
  BY DEF Acc!Fire, Acc!db, Acc!wire, Acc!registry
<1>2. Moves(p, "resolve", v) /\ goro[p] = Acc!Idle
  BY Enters DEF Enter
<1>3. \/ /\ entry[v] = "armed" /\ (v \notin elev \/ AtWork({"arm"}, v) \/ v \in early)
         /\ entry' = [entry EXCEPT ![v] = "fired"] /\ orphans' = orphans
      \/ /\ v \notin elev \/ AtWork({"arm"}, v) \/ v \in early \/ entry[v] = "armed" \/ orphans[v] > 1
         /\ orphans' = [orphans EXCEPT ![v] = @ - 1] /\ entry' = entry
  BY DEF Acc!Fire, AtWork
<1>4. Apart(v)
  BY <1>1, <1>3 DEF Apart, Timers
<1>5. ASSUME v \notin stale' PROVE Follows(v)'
  <2>1. Follows(v)
    BY <1>1, <1>5 DEF Flags
  <2>2. AtWork({"arm"}, v) => AtWork({"arm", "del"}, v)'
    <3>1. AtWork({"arm"}, v) => AtWork({"arm", "del"}, v)
      BY DEF AtWork
    <3>2. AtWork({"arm", "del"}, v) => AtWork({"arm", "del"}, v)'
      BY <1>2, BusyMoves DEF Acc!Idle
    <3> QED BY <3>1, <3>2
  <2>3. entry[v] = "armed" /\ entry' = entry => TimerOn(v)'
    BY DEF TimerOn
  <2>4. orphans[v] > 1 /\ orphans' = [orphans EXCEPT ![v] = @ - 1] => TimerOn(v)'
    BY DEF TimerOn, Timers
  <2>5. v \in elev => v \notin early
    BY <2>1 DEF Follows
  <2>6. v \in elev => TimerOn(v)' \/ AtWork({"arm", "del"}, v)'
    BY <1>3, <2>2, <2>3, <2>4, <2>5
  <2> QED BY <1>1, <1>2, <2>1, <2>6, FollowsTold
<1>6. Nil \notin Person /\ goro[p].u = Nil
  BY <1>2 DEF Acc!AccountsAssumption, Acc!Idle
<1> QED BY <1>2, <1>4, <1>5, <1>6, FlagsOf

LEMMA FlagsBroadcast ==
  ASSUME Acc!AccountsAssumption, Flags, NewUsers', Goroutines, NEW p \in Agent,
         Acc!BroadcastElevationChanged(p)
  PROVE  Flags'
<1>1. PICK v \in Person : v = goro[p].u
  BY Jumps DEF Jump, Finish
<1> DEFINE dead == Acc!SessionsOf(v) \cap closed # {}
<1>a. PICK ok \in BOOLEAN :
        /\ IF dead THEN Acc!End(p)
           ELSE goro' = [goro EXCEPT ![p].pc = "set", ![p].flag = Acc!RoleRead(v, ok)]
        /\ stale' = IF dead \/ Acc!RoleRead(v, ok) # Acc!IsAdmin(v) THEN stale \cup {v} ELSE stale
  BY <1>1, Zenon DEF Acc!BroadcastElevationChanged
<1> DEFINE b == Acc!RoleRead(v, ok)
<1>b. /\ goro[p].pc = "resolve"
      /\ UNCHANGED <<users, elev, entry, orphans, early, reg, clients, conn>>
  BY <1>1, Zenon DEF Acc!BroadcastElevationChanged, Acc!At, Acc!db, Acc!sudo, Acc!timers, Acc!wire
<1>2. /\ goro[p].pc = "resolve"
      /\ IF dead THEN Acc!End(p) ELSE goro' = [goro EXCEPT ![p].pc = "set", ![p].flag = b]
      /\ stale' = IF dead \/ b # Acc!IsAdmin(v) THEN stale \cup {v} ELSE stale
      /\ UNCHANGED <<users, elev, entry, orphans, early, reg, clients, conn>>
  BY <1>a, <1>b, Zenon
<1>3. Apart(v)
  BY <1>2 DEF Apart
<1>4. Nil \notin Person
  BY DEF Acc!AccountsAssumption
<1>5. CASE dead
  <2>1. v \in stale' /\ Moves(p, "off", Nil)
    BY <1>2, <1>5, Ended
  <2> QED BY <1>1, <1>3, <1>4, <2>1, FlagsOf
<1>6. CASE ~dead
  <2>1. b \in BOOLEAN
    BY DEF Acc!RoleRead, Acc!IsAdmin, Acc!There
  <2>2. Moves(p, "set", v) /\ goro'[p].flag = b
    <3> HIDE DEF b
    <3> QED BY <1>1, <1>2, <1>6, <2>1, Resolved
  <2>3. Acc!IsAdmin(v)' <=> Acc!IsAdmin(v)
    BY <1>2, AdminKept
  <2>4. ASSUME v \notin stale' PROVE goro'[p].flag = TRUE <=> Acc!IsAdmin(v)
    <3>1. b = Acc!IsAdmin(v)
      BY <1>2, <2>4, Zenon
    <3>2. Acc!IsAdmin(v) \in BOOLEAN
      BY DEF Acc!IsAdmin, Acc!There
    <3> HIDE DEF b
    <3> QED BY <2>1, <2>2, <3>1, <3>2, Zenon
  <2>5. Pending(v)'
    BY <2>2, BusyMoves DEF Pending
  <2>6. AtWork({"arm", "del"}, v) => AtWork({"arm", "del"}, v)'
    BY <1>2, <2>2, BusyMoves
  <2>7. ASSUME v \notin stale'
        PROVE  \A q \in Agent : goro'[q].u = v /\ goro'[q].pc = "set" =>
                          goro'[q] = goro[q] \/ (goro'[q].flag = TRUE <=> Acc!IsAdmin(v)')
    BY <2>2, <2>3, <2>4, <2>7 DEF Moves, OthersRest
  <2>8. ASSUME v \notin stale' PROVE Follows(v)'
    <3>1. Follows(v)
      BY <1>2, <2>8 DEF Flags
    <3>2. v \in elev' => v \notin early' /\ (TimerOn(v)' \/ AtWork({"arm", "del"}, v)')
      BY <1>2, <2>6, <3>1 DEF Follows, TimerOn
    <3> QED BY <1>2, <2>3, <2>5, <2>7, <2>8, <3>1, <3>2, FollowsKept
  <2> QED BY <1>1, <1>3, <1>4, <2>2, <2>8, FlagsOf
<1> QED BY <1>5, <1>6

LEMMA FlagsRefresh ==
  ASSUME Acc!AccountsAssumption, Flags, NewUsers', Goroutines, Lines, HubInv, NEW p \in Agent,
         Acc!refreshEffectiveAdmin(p)
  PROVE  Flags'
<1>1. PICK v \in Person : v = goro[p].u
  BY Jumps DEF Jump, Finish
<1>2. /\ goro[p].pc = "set"
      /\ stale' = IF ~Acc!InFlight(p, v) /\ goro[p].flag = Acc!IsAdmin(v) /\ Acc!Watched(v)
                  THEN stale \ {v} ELSE stale
      /\ UNCHANGED <<users, elev, entry, orphans, early, reg, clients>>
  BY <1>1 DEF Acc!refreshEffectiveAdmin, Acc!At, Acc!db, Acc!sudo, Acc!timers, Acc!registry
<1>3. \A c \in Conn :
        /\ conn'[c].user = conn[c].user
        /\ c \in Acc!SessionsOf(v) => conn'[c].flag = goro[p].flag
        /\ c \notin Acc!SessionsOf(v) => conn'[c].flag = conn[c].flag
  BY <1>1, RefreshLine
<1>4. reg \subseteq Conn /\ clients \subseteq Conn
  BY DEF HubInv, HubTypes
<1>5. Apart(v)
  BY <1>2, <1>3, <1>4 DEF Apart, Acc!SessionsOf
<1>6. PICK b \in {"off", "drop"}, w \in {v, Nil} : Moves(p, b, w)
  BY <1>1, Jumps DEF Jump, Finish
<1>7. Acc!IsAdmin(v)' <=> Acc!IsAdmin(v)
  BY <1>2, AdminKept
<1>8. ASSUME v \notin stale' PROVE Follows(v)'
  <2>1. /\ goro[p].flag = TRUE <=> Acc!IsAdmin(v)
        /\ \A q \in Agent \ {p} : goro[q].u = v /\ goro[q].pc = "set" =>
             (goro[q].flag = TRUE <=> Acc!IsAdmin(v))
        /\ \A c \in reg : conn[c].user = v => (conn[c].flag = TRUE <=> Acc!IsAdmin(v))
        /\ v \in elev => v \notin early /\ (TimerOn(v) \/ AtWork({"arm", "del"}, v))
    <3>1. CASE v \notin stale
      BY <1>1, <1>2, <3>1 DEF Flags, Follows, Right
    <3>2. CASE v \in stale
      <4>1. ~Acc!InFlight(p, v) /\ Acc!Watched(v) /\ goro[p].flag = Acc!IsAdmin(v)
        BY <1>2, <1>8, <3>2, Zenon
      <4>2. goro[p].flag = TRUE <=> Acc!IsAdmin(v)
        <5>1. goro[p].flag \in BOOLEAN /\ Acc!IsAdmin(v) \in BOOLEAN
          BY DEF Goroutines, GoShape, Acc!IsAdmin, Acc!There
        <5> QED BY <4>1, <5>1, Zenon
      <4> QED BY <1>4, <4>1, <4>2 DEF Acc!InFlight, Acc!Watched, TimerOn
    <3> QED BY <3>1, <3>2
  <2>2. ASSUME NEW q \in Agent, goro'[q].u = v, goro'[q].pc = "set"
        PROVE  goro'[q].flag = TRUE <=> Acc!IsAdmin(v)'
    BY <1>6, <1>7, <2>1, <2>2 DEF Moves, OthersRest
  <2>3. ASSUME NEW c \in reg', conn'[c].user = v PROVE conn'[c].flag = TRUE <=> Acc!IsAdmin(v)'
    BY <1>2, <1>3, <1>4, <1>7, <2>1, <2>3
  <2>4. ASSUME NEW c \in clients', conn'[c].user = v PROVE conn'[c].flag = TRUE <=> Acc!IsAdmin(v)'
    BY <1>2, <1>3, <1>4, <1>7, <2>1, <2>4 DEF Acc!SessionsOf
  <2>5. AtWork({"arm", "del"}, v) => AtWork({"arm", "del"}, v)'
    BY <1>2, <1>6, BusyMoves
  <2>6. v \in elev' => v \notin early' /\ (TimerOn(v)' \/ AtWork({"arm", "del"}, v)')
    BY <1>2, <2>1, <2>5 DEF TimerOn
  <2> QED BY <2>2, <2>3, <2>4, <2>6 DEF Follows, Right
<1>9. Nil \notin Person
  BY DEF Acc!AccountsAssumption
<1> QED BY <1>1, <1>5, <1>6, <1>8, <1>9, FlagsOf

LEMMA FlagsServe ==
  ASSUME Acc!AccountsAssumption, Flags, NewUsers', Lines, HubInv, NEW c \in Conn, NEW v \in Person,
         Acc!ServeWS(c, v)
  PROVE  Flags'
<1>a. /\ conn[c].st = "off" /\ reg' = reg \cup {c}
      /\ UNCHANGED <<users, elev, entry, orphans, early, clients, goro>>
  BY DEF Acc!ServeWS, Acc!db, Acc!sudo, Acc!timers, Acc!registry
<1>b. PICK b \in BOOLEAN :
        /\ OtherLines(c) /\ conn'[c].user = v /\ conn'[c].flag = b
        /\ stale' = IF b # Acc!IsAdmin(v) THEN stale \cup {v}
                    ELSE IF Acc!SessionsOf(v) = {} /\ ~Acc!InFlight(Nil, v) /\ Acc!Watched(v)
                         THEN stale \ {v} ELSE stale
  BY ServeLine
<1>c. /\ v \notin stale' => b = Acc!IsAdmin(v)
      /\ v \notin stale' => \/ v \notin stale
                            \/ Acc!SessionsOf(v) = {} /\ ~Acc!InFlight(Nil, v) /\ Acc!Watched(v)
      /\ stale' \ {v} = stale \ {v}
  BY <1>b, Zenon
<1>1. /\ conn[c].st = "off" /\ reg' = reg \cup {c} /\ stale' \subseteq stale \cup {v}
      /\ \A u : u # v /\ u \notin stale' => u \notin stale
      /\ UNCHANGED <<users, elev, entry, orphans, early, clients, goro>>
  BY <1>a, <1>c
<1>2. OtherLines(c) /\ conn'[c].user = v
  BY <1>b
<1>3. c \notin reg /\ c \notin clients /\ reg \subseteq Conn /\ clients \subseteq Conn
  BY <1>1 DEF HubInv, HubTypes, Places, Known
<1>4. \A d \in reg \cup clients : conn'[d] = conn[d]
  BY <1>2, <1>3 DEF OtherLines
<1>5. ASSUME NEW u \in Person \ stale', u # v PROVE Follows(u)'
  <2>1. Follows(u)
    BY <1>1, <1>5 DEF Flags
  <2> QED BY <1>1, <1>2, <1>4, <1>5, <2>1, FollowsStill
<1>6. Acc!IsAdmin(v)' <=> Acc!IsAdmin(v)
  BY <1>1, AdminKept
<1>7. ASSUME v \notin stale' PROVE conn'[c].flag = TRUE <=> Acc!IsAdmin(v)
  <2>1. Acc!IsAdmin(v) \in BOOLEAN
    BY DEF Acc!IsAdmin, Acc!There
  <2> QED BY <1>7, <1>b, <1>c, <2>1, Zenon
<1>8. ASSUME v \notin stale' PROVE Follows(v)'
  <2>1. /\ \A q \in Agent : goro[q].u = v /\ goro[q].pc = "set" =>
             (goro[q].flag = TRUE <=> Acc!IsAdmin(v))
        /\ \A d \in reg : conn[d].user = v => (conn[d].flag = TRUE <=> Acc!IsAdmin(v))
        /\ \A d \in clients : conn[d].user = v =>
             (conn[d].flag = TRUE <=> Acc!IsAdmin(v)) \/ Pending(v)
        /\ v \in elev => v \notin early /\ (TimerOn(v) \/ AtWork({"arm", "del"}, v))
    <3>1. CASE v \notin stale
      BY <3>1 DEF Flags, Follows, Right
    <3>2. CASE v \in stale
      <4>1. ~Acc!InFlight(Nil, v) /\ Acc!Watched(v) /\ Acc!SessionsOf(v) = {}
        BY <1>8, <1>c, <3>2
      <4>2. Agent \ {Nil} = Agent
        BY DEF Acc!AccountsAssumption
      <4> QED BY <1>3, <4>1, <4>2 DEF Acc!InFlight, Acc!Watched, TimerOn, Acc!SessionsOf
    <3> QED BY <3>1, <3>2
  <2>2. ASSUME NEW q \in Agent, goro'[q].u = v, goro'[q].pc = "set"
        PROVE  goro'[q].flag = TRUE <=> Acc!IsAdmin(v)'
    BY <1>1, <1>6, <2>1, <2>2
  <2>3. ASSUME NEW d \in reg', conn'[d].user = v PROVE conn'[d].flag = TRUE <=> Acc!IsAdmin(v)'
    BY <1>1, <1>4, <1>6, <1>7, <1>8, <2>1, <2>3
  <2>4. Pending(v)' <=> Pending(v)
    BY <1>1 DEF Pending, AtWork, TimerOn
  <2>5. ASSUME NEW d \in clients', conn'[d].user = v
        PROVE  (conn'[d].flag = TRUE <=> Acc!IsAdmin(v)') \/ Pending(v)'
    BY <1>1, <1>4, <1>6, <2>1, <2>4, <2>5
  <2>6. v \in elev' => v \notin early' /\ (TimerOn(v)' \/ AtWork({"arm", "del"}, v)')
    BY <1>1, <2>1 DEF TimerOn, AtWork
  <2> QED BY <2>2, <2>3, <2>5, <2>6 DEF Follows, Right
<1>9. stale' \subseteq Person
  BY <1>1 DEF Flags
<1> QED BY <1>5, <1>8, <1>9 DEF Flags

LEMMA FlagsEnds ==
  ASSUME Acc!AccountsAssumption, Flags, NewUsers', HubInv, NEW v \in Person, Acc!ElevationEnds(v)
  PROVE  Flags'
<1>1. /\ v \in elev /\ elev' = elev \ {v}
      /\ stale' = IF Acc!InFlight(Nil, v) THEN stale \cup {v} ELSE stale
      /\ UNCHANGED <<users, entry, orphans, early, reg, clients, conn, goro>>
  BY DEF Acc!ElevationEnds, Acc!db, Acc!timers, Acc!wire, Acc!registry
<1>2. ASSUME NEW u \in Person \ stale', u # v PROVE Follows(u)'
  <2>1. Follows(u)
    BY <1>1, <1>2 DEF Flags
  <2> QED BY <1>1, <1>2, <2>1, FollowsStill
<1>3. ASSUME v \notin stale' PROVE Follows(v)'
  <2>1. Follows(v) /\ ~Acc!InFlight(Nil, v)
    BY <1>1, <1>3 DEF Flags
  <2>2. Agent \ {Nil} = Agent /\ reg \subseteq Conn
    BY DEF Acc!AccountsAssumption, HubInv, HubTypes
  <2>3. /\ \A q \in Agent : goro'[q].u = v => goro'[q].pc # "set"
        /\ \A c \in reg' : conn'[c].user # v
    BY <1>1, <2>1, <2>2 DEF Acc!InFlight
  <2>4. TimerOn(v) \/ AtWork({"arm", "del"}, v)
    BY <1>1, <2>1 DEF Follows
  <2>5. Pending(v)'
    BY <1>1, <2>4 DEF Pending, TimerOn, AtWork
  <2> QED BY <1>1, <2>3, <2>5, FollowsPending
<1>4. stale' \subseteq Person
  BY <1>1 DEF Flags
<1> QED BY <1>2, <1>3, <1>4 DEF Flags

\* The connections come and go; what they know stays.
LEMMA FlagsStill ==
  ASSUME Flags, NewUsers', UNCHANGED <<users, elev, early, entry, orphans, goro, stale>>,
         reg' \subseteq reg, clients' \subseteq clients \cup reg,
         \A c \in reg \cup clients : conn'[c].user = conn[c].user /\ conn'[c].flag = conn[c].flag
  PROVE  Flags'
<1>1. ASSUME NEW u \in Person \ stale' PROVE Follows(u)'
  <2>1. Follows(u)
    BY DEF Flags
  <2> QED BY <2>1, FollowsStill
<1> QED BY <1>1 DEF Flags

LEMMA FlagsHub ==
  ASSUME Flags, NewUsers', Lines, HubInv,
         Acc!HubStep \/ \E c \in Conn : Acc!ReadEnds(c)
  PROVE  Flags'
<1>1. reg \subseteq Conn /\ clients \subseteq Conn
  BY DEF HubInv, HubTypes
<1>2. ASSUME NEW c \in Conn, Acc!addClient(c) \/ Acc!removeClient(c) PROVE Flags'
  BY <1>2, FlagsStill DEF Acc!addClient, Acc!removeClient, Acc!db, Acc!sudo, Acc!timers
<1>3. CASE Acc!CloseSend
  <2>1. UNCHANGED <<users, elev, early, entry, orphans, goro, stale, reg, clients>>
    BY <1>3 DEF Acc!CloseSend, Acc!db, Acc!sudo, Acc!timers
  <2>2. \A c \in reg \cup clients : conn'[c] = conn[c]
    BY <1>1, <1>3 DEF Acc!CloseSend, Lines
  <2> QED BY <2>1, <2>2, FlagsStill
<1>4. ASSUME NEW c \in Conn, Acc!ReadEnds(c) PROVE Flags'
  <2>1. UNCHANGED <<users, elev, early, entry, orphans, goro, stale, reg, clients>>
    BY <1>4 DEF Acc!ReadEnds, Acc!db, Acc!sudo, Acc!timers, Acc!registry
  <2>2. \A d \in Conn : conn'[d].user = conn[d].user /\ conn'[d].flag = conn[d].flag
    BY <1>4, EndLine DEF OtherLines
  <2> QED BY <1>1, <2>1, <2>2, FlagsStill
<1> QED BY <1>2, <1>3, <1>4 DEF Acc!HubStep

\* A role that an edit changes makes the user's sessions stale.
LEMMA FlagsRows ==
  ASSUME Flags, NewUsers', Goroutines, RowTypes, NEW p \in Agent,
         Acc!Insert(p) \/ Acc!UpdateRow(p) \/ Acc!RemoveRow(p)
  PROVE  Flags'
<1>1. PICK v \in Person : v = goro[p].u
  BY Jumps DEF Finish
<1>2. /\ Moves(p, "off", Nil) /\ goro[p].pc \notin {"arm", "del", "resolve", "set"}
      /\ goro[p].pc = "update" => goro[p].row \in Acc!Row /\ goro[p].row.state = "there"
  BY Jumps DEF Finish, Goroutines, GoShape
<1>3. UNCHANGED <<elev, early, entry, orphans, reg, clients, conn>>
  BY DEF Acc!Insert, Acc!UpdateRow, Acc!RemoveRow, Acc!sudo, Acc!timers, Acc!wire, Acc!registry
<1>4. CASE UNCHANGED <<users, stale>>
  <2>1. \A u \in Person \ stale' : Acc!IsAdmin(u)' <=> Acc!IsAdmin(u)
    BY <1>3, <1>4, AdminKept
  <2> QED BY <1>2, <1>3, <1>4, <2>1, FlagsMove DEF TimerOn, Flags
<1>5. ASSUME stale' \in {stale, stale \cup {v}}, \A u \in Person \ {v} : users'[u] = users[u],
             v \notin stale' => (Acc!IsAdmin(v)' <=> Acc!IsAdmin(v))
      PROVE  Flags'
  <2>1. \A u \in Person \ stale' : Acc!IsAdmin(u)' <=> Acc!IsAdmin(u)
    BY <1>3, <1>5, AdminKept
  <2> QED BY <1>2, <1>3, <1>5, <2>1, FlagsMove DEF TimerOn, Flags
<1>6. CASE /\ users[v].state = "new" /\ users' = [users EXCEPT ![v] = Acc!Created(FALSE)] /\ stale' = stale
  <2>1. v \notin elev /\ ~Acc!There(v)
    BY <1>6 DEF Flags, NewUsers, Acc!There
  <2>2. users'[v] = Acc!Created(FALSE) /\ \A u \in Person \ {v} : users'[u] = users[u]
    BY <1>6 DEF RowTypes
  <2>3. ~Acc!IsAdmin(v)' /\ ~Acc!IsAdmin(v)
    BY <1>3, <2>1, <2>2 DEF Acc!IsAdmin, Acc!Created
  <2> QED BY <1>5, <1>6, <2>2, <2>3
<1>7. CASE /\ goro[p].pc = "update" /\ Acc!There(v) /\ users' = [users EXCEPT ![v] = goro[p].row]
           /\ stale' = IF users[v].admin # goro[p].row.admin THEN stale \cup {v} ELSE stale
  <2>1. users'[v] = goro[p].row /\ \A u \in Person \ {v} : users'[u] = users[u]
    BY <1>7 DEF RowTypes
  <2>2. v \notin stale' => users'[v].admin = users[v].admin
    BY <1>7, <2>1
  <2>3. users'[v].state = users[v].state
    BY <1>2, <1>7, <2>1 DEF Acc!There
  <2>4. v \notin stale' => (Acc!IsAdmin(v)' <=> Acc!IsAdmin(v))
    BY <1>3, <2>2, <2>3 DEF Acc!IsAdmin, Acc!There
  <2>5. stale' \in {stale, stale \cup {v}}
    BY <1>7
  <2> QED BY <1>5, <2>1, <2>4, <2>5
<1>8. CASE Acc!RemoveRow(p)
  <2>1. stale' = stale \cup {v} /\ \A u \in Person \ {v} : users'[u] = users[u]
    BY <1>1, <1>8 DEF Acc!RemoveRow, RowTypes
  <2> QED BY <1>5, <2>1
<1> QED BY <1>1, <1>4, <1>6, <1>7, <1>8 DEF Acc!Insert, Acc!UpdateRow, Acc!Replace, Acc!At, Acc!db

LEMMA FlagsAside ==
  ASSUME Acc!AccountsAssumption, Flags, NewUsers', Goroutines, RowTypes, NEW p \in Agent,
         \/ Acc!IdentityFor(p) \/ Acc!WrongPIN(p) \/ Acc!RightPIN(p) \/ Acc!UpsertFails(p)
         \/ \E u \in Person : \/ Acc!UserRequest(p, u) \/ Acc!AuthRequest(p, u) \/ Acc!OAuthRequest(p, u)
                              \/ Acc!Sudo(p, u)
  PROVE  Flags'
<1>1. UNCHANGED <<users, elev, early, entry, orphans, reg, clients, conn, stale>>
  BY DEF Acc!IdentityFor, Acc!WrongPIN, Acc!RightPIN, Acc!UpsertFails, Acc!UserRequest, Acc!AuthRequest, Acc!OAuthRequest,
     Acc!Sudo, Acc!Create, Acc!UpdateUser, Acc!SetActive, Acc!UpdateProfile, Acc!ReadRow, Acc!DeleteUser, Acc!ConsumeTicket,
     Acc!db, Acc!sudo, Acc!timers, Acc!wire, Acc!registry
<1>2. PICK b \in Points \ {"set"}, w \in Person \cup {Nil} :
        Moves(p, b, w) /\ goro[p].pc \notin {"arm", "del", "resolve", "set"}
  <2>1. CASE Acc!IdentityFor(p) \/ Acc!WrongPIN(p) \/ Acc!RightPIN(p) \/ Acc!UpsertFails(p)
    BY <2>1, Jumps DEF Jump, Finish, Points
  <2>2. ASSUME NEW u \in Person,
               Acc!UserRequest(p, u) \/ Acc!AuthRequest(p, u) \/ Acc!OAuthRequest(p, u) \/ Acc!Sudo(p, u)
        PROVE  \E b \in Points \ {"set"} : Enter(p, b, u)
    BY <2>2, Enters DEF Acc!UserRequest, Acc!AuthRequest, Acc!OAuthRequest, Points
  <2> QED BY <2>1, <2>2, GoIdle DEF Enter
<1>3. \A u \in Person \ stale' : Acc!IsAdmin(u)' <=> Acc!IsAdmin(u)
  BY <1>1, AdminKept
<1> QED BY <1>1, <1>2, <1>3, FlagsMove DEF TimerOn, Flags

LEMMA FlagsDrop ==
  ASSUME Flags, NewUsers', Goroutines, Timers, NEW p \in Agent, Acc!DropEntry(p)
  PROVE  Flags'
<1>1. PICK v \in Person : v = goro[p].u
  BY Jumps DEF Finish
<1>2. /\ orphans' = IF entry[v] = "armed" THEN [orphans EXCEPT ![v] = @ + 1] ELSE orphans
      /\ entry' = [entry EXCEPT ![v] = "none"]
      /\ UNCHANGED <<users, elev, early, reg, clients, conn, stale>>
  BY <1>1 DEF Acc!DropEntry, Acc!db, Acc!wire, Acc!registry
<1>3. Moves(p, "off", Nil) /\ goro[p].pc = "drop"
  BY Jumps DEF Finish
<1>4. ASSUME NEW u \in Person, TimerOn(u) PROVE TimerOn(u)'
  <2>1. orphans[u] \in Nat
    BY DEF Timers
  <2>2. CASE u # v
    BY <1>2, <1>4, <2>2 DEF TimerOn, Timers
  <2>3. CASE u = v /\ entry[v] = "armed"
    BY <1>2, <2>1, <2>3 DEF TimerOn, Timers
  <2>4. CASE u = v /\ entry[v] # "armed"
    BY <1>2, <1>4, <2>4 DEF TimerOn, Timers
  <2> QED BY <2>2, <2>3, <2>4
<1>5. \A u \in Person \ stale' : Acc!IsAdmin(u)' <=> Acc!IsAdmin(u)
  BY <1>2, AdminKept
<1> QED BY <1>2, <1>3, <1>4, <1>5, FlagsMove DEF Flags

LEMMA FlagsStep ==
  ASSUME Acc!AccountsAssumption, RowTypes, Goroutines, Timers, Lines, HubInv, Flags, [Acc!Next]_(Acc!vars)
  PROVE  Flags'
<1>1. NewUsers'
  BY NewUsersStep DEF Flags
<1>2. CASE Acc!Restart
  <2>1. /\ stale' = elev /\ elev' = elev /\ users' = users /\ reg' = {} /\ clients' = {}
        /\ goro' = [p \in Agent |-> Acc!Idle] /\ elev \subseteq Person
    BY <1>2 DEF Acc!Restart, Acc!db, Timers
  <2>2. \A u \in Person \ stale' : Follows(u)'
    BY <2>1, GoIdle DEF Follows
  <2> QED BY <1>1, <2>1, <2>2 DEF Flags
<1>3. CASE UNCHANGED Acc!vars
  BY <1>1, <1>3, FlagsStill DEF Acc!vars, Acc!db, Acc!sudo, Acc!timers, Acc!wire, Acc!registry
<1>4. ASSUME NEW u \in Person, Acc!IssueTicket(u) \/ Acc!TicketExpires(u) \/ Acc!LockEnds(u) PROVE Flags'
  BY <1>1, <1>4, FlagsStill DEF Acc!IssueTicket, Acc!TicketExpires, Acc!LockEnds, Acc!db, Acc!sudo, Acc!timers, Acc!wire,
     Acc!registry
<1>5. ASSUME NEW p \in Agent, Acc!ProcStep(p) PROVE Flags'
  BY <1>1, <1>5, FlagsRows, FlagsAside, FlagsUpsert, FlagsSchedule, FlagsRevoked,
     FlagsRevokeFails, FlagsBroadcast, FlagsRefresh, FlagsDrop DEF Acc!ProcStep
<1>6. ASSUME NEW p \in Agent, NEW u \in Person, Acc!Request(p, u) \/ Acc!Fire(p, u) PROVE Flags'
  BY <1>1, <1>6, FlagsAside, FlagsRevoke, FlagsFire DEF Acc!Request, Acc!SudoRequest
<1> QED BY <1>1, <1>2, <1>3, <1>4, <1>5, <1>6, FlagsHub, FlagsServe, FlagsEnds DEF Acc!Next

-----------------------------------------------------------------------------
(***************************************************************************)
(* The inductive invariant and the theorems.                               *)
(***************************************************************************)
AccountInv ==
  /\ RowTypes /\ Acc!PoolsDisjoint /\ Goroutines /\ aCalls \in 0 .. MaxEvents
  /\ Tickets /\ Locks /\ Timers /\ Lines /\ HubInv /\ Flags

LEMMA CountIdle ==
  ASSUME NEW S, "off" \notin S, NEW u, goro = [p \in Agent |-> Acc!Idle]
  PROVE  Count(S, u) = 0
<1>1. Doing(S, u) = {}
  BY GoIdle DEF Doing
<1> QED BY <1>1, FS_EmptySet DEF Count

LEMMA AccountInit ==
  ASSUME Acc!AccountsAssumption, Acc!Init
  PROVE  AccountInv
<1>1. RowTypes /\ Acc!PoolsDisjoint
  <2> DEFINE new == [state |-> "new", active |-> FALSE, admin |-> FALSE]
  <2>1. PICK driver \in SUBSET (Person \ First) :
          users = [u \in Person |-> CASE u \in First -> Acc!Created(TRUE)
                                    [] u \in driver -> Acc!Created(FALSE)
                                    [] OTHER -> new]
    BY Zenon DEF Acc!Init
  <2>2. new \in Acc!Row /\ Acc!Created(TRUE) \in Acc!Row /\ Acc!Created(FALSE) \in Acc!Row
    BY DEF Acc!Row, Acc!Created
  <2> HIDE DEF new
  <2>3. users \in [Person -> Acc!Row]
    BY <2>1, <2>2
  <2>4. PICK at \in [Person -> Number] :
          /\ \A u, v \in Person : u # v => at[u] # at[v]
          /\ pool = [u \in Person |-> IF Acc!There(u) THEN {at[u]} ELSE {}]
    BY DEF Acc!Init
  <2> QED BY <2>3, <2>4 DEF RowTypes, Acc!PoolsDisjoint
<1>2. goro = [p \in Agent |-> Acc!Idle]
  BY DEF Acc!Init
<1>3. Goroutines
  BY <1>2, GoIdle DEF Goroutines
<1>4. aCalls \in 0 .. MaxEvents /\ aCalls = 0
  BY DEF Acc!Init, Acc!AccountsAssumption
<1>5. Tickets
  BY <1>2, <1>4, CountIdle, SMTT(30) DEF Acc!Init, Tickets, One
<1>6. Locks
  <2>1. Cardinality(Agent) \in Nat /\ Cardinality(Agent) # 0
    BY FiniteProc, FS_CardinalityType, FS_EmptySet DEF Acc!AccountsAssumption
  <2> QED BY <1>2, <1>4, <2>1, CountIdle DEF Acc!Init, Locks
<1>7. Timers
  BY <1>2, <1>4, CountIdle, SMTT(30) DEF Acc!Init, Timers, One, Sudoing
<1>8. Lines
  BY UnusedLine DEF Acc!Init, Lines
<1>9. HubInv
  BY DEF Acc!Init, HubInv, HubTypes, Places, InStep, Known, Acc!Listening, Acc!Unused
<1>10. Flags
  <2>1. ~(\E u \in Person, S \in SUBSET (Points \ {"off"}) : AtWork(S, u))
    BY <1>2, GoIdle DEF AtWork
  <2>2. NewUsers
    BY <2>1 DEF Acc!Init, NewUsers, Points
  <2>3. ASSUME NEW u \in Person PROVE Follows(u)
    BY <1>2, GoIdle DEF Acc!Init, Follows
  <2> QED BY <2>2, <2>3 DEF Acc!Init, Flags
<1> QED BY <1>1, <1>3, <1>4, <1>5, <1>6, <1>7, <1>8, <1>9, <1>10 DEF AccountInv

LEMMA AccountStep ==
  ASSUME Acc!AccountsAssumption, AccountInv, [Acc!Next]_(Acc!vars)
  PROVE  AccountInv'
BY PoolsStep, GoroutinesStep, CallsStep, TicketsStep, LocksStep, TimersStep, LinesStep,
   HubStepInv, FlagsStep DEF AccountInv

LEMMA AccountInvHolds == ServicesSpec => [](part = "accounts" => AccountInv)
<1> DEFINE I == part = "accounts" => AccountInv
<1>1. ServicesInit => I
  BY AccountInit, ServicesAssumption DEF ServicesInit
<1>2. I /\ [ServicesNext]_<<part, accounts, boxes>> => I'
  <2> SUFFICES ASSUME I, [ServicesNext]_<<part, accounts, boxes>>, part' = "accounts"
               PROVE  AccountInv'
    OBVIOUS
  <2>1. CASE Accounting /\ Acc!Next
    BY <2>1, AccountStep, ServicesAssumption DEF Accounting
  <2>2. CASE UNCHANGED <<part, accounts, boxes>>
    <3>1. UNCHANGED Acc!vars
      BY <2>2 DEF accounts, Acc!vars, Acc!db, Acc!sudo, Acc!timers, Acc!ticket, Acc!pins, Acc!wire,
                  Acc!registry, Acc!blame
    <3> QED BY <2>2, <3>1, AccountStep, ServicesAssumption
  <2> QED BY <2>1, <2>2 DEF ServicesNext, Signalling
<1> QED BY <1>1, <1>2, PTL DEF ServicesSpec

LEMMA AccountTypes ==
  ASSUME Acc!AccountsAssumption, AccountInv
  PROVE  Acc!LoginsSound
<1>1. aOwed \in [Person -> -MaxEvents .. MaxEvents] /\ Acc!TicketOnce
  <2>1. ASSUME NEW u \in Person PROVE aOwed[u] \in 0 .. MaxEvents
    <3> DEFINE n == One(u \in tickets) + Count({"identity"}, u)
    <3>1. n >= 0 /\ n \in Int
      BY CountNat DEF One
    <3> HIDE DEF n
    <3>2. aOwed[u] \in Int /\ aOwed[u] <= aCalls /\ aOwed[u] >= n
      BY DEF AccountInv, Tickets, n
    <3> QED BY <3>1, <3>2 DEF AccountInv, Acc!AccountsAssumption
  <2> QED BY <2>1 DEF AccountInv, Tickets, Acc!TicketOnce, Acc!AccountsAssumption
<1>2. inLock \in [Person -> 0 .. MaxEvents] /\ Acc!LockHolds
  <2>1. ASSUME NEW u \in Person
        PROVE  inLock[u] \in 0 .. MaxEvents /\ inLock[u] <= Cardinality(Agent) - 1
    <3> DEFINE n == Count({"pin"}, u)
    <3>1. n \in Nat /\ Cardinality(Agent) \in Nat /\ Cardinality(Agent) # 0
      BY FiniteProc, CountNat, FS_EmptySet DEF Acc!AccountsAssumption
    <3> HIDE DEF n
    <3>2. /\ inLock[u] \in Nat /\ inLock[u] + n <= aCalls
          /\ u \in locked => inLock[u] + n <= Cardinality(Agent) - 1
          /\ u \notin locked => inLock[u] = 0
      BY DEF AccountInv, Locks, n
    <3> QED BY <3>1, <3>2 DEF AccountInv, Acc!AccountsAssumption
  <2> QED BY <2>1, FiniteProc DEF AccountInv, Locks, Acc!LockHolds
<1>3. orphans \in [Person -> 0 .. MaxEvents]
  <2>1. ASSUME NEW u \in Person PROVE orphans[u] \in 0 .. MaxEvents
    <3> DEFINE n == Count(Sudoing, u)
               m == One(entry[u] = "armed")
    <3>1. n \in Nat /\ m \in Nat
      BY CountNat DEF One
    <3> HIDE DEF n, m
    <3>2. orphans[u] \in Nat /\ orphans[u] + m + n <= aCalls
      BY DEF AccountInv, Timers, n, m
    <3> QED BY <3>1, <3>2 DEF AccountInv, Acc!AccountsAssumption
  <2> QED BY <2>1 DEF AccountInv, Timers
<1>4. conn \in [Conn -> [st : {"off", "serve", "gone"}, user : Person \cup {Nil}, flag : BOOLEAN]]
  BY DEF AccountInv, Lines, Line
<1>5. \A p \in Agent :
        /\ goro[p].pc \in {"off", "insert", "update", "delete", "pin", "upsert", "arm",
                           "del", "resolve", "set", "drop", "identity"}
        /\ goro[p].u \in Person \cup {Nil} /\ goro[p].row \in Acc!Row \cup {Nil}
        /\ goro[p].pool \in (SUBSET Number) \cup {Nil}
        /\ {goro[p].flag, goro[p].timer} \subseteq BOOLEAN
  BY DEF AccountInv, Goroutines, GoShape, Points
<1>6. /\ users \in [Person -> Acc!Row] /\ pool \in [Person -> SUBSET Number] /\ tickets \subseteq Person
      /\ elev \subseteq Person /\ entry \in [Person -> {"none", "armed", "fired"}]
      /\ early \subseteq Person /\ fails \in [Person -> 0 .. MaxFailures - 1] /\ locked \subseteq Person
      /\ aCalls \in 0 .. MaxEvents /\ stale \subseteq Person
  BY DEF AccountInv, RowTypes, Tickets, Locks, Timers, Flags
<1>7. /\ {reg, unreg, clients, closed} \subseteq SUBSET Conn /\ aOnline \subseteq Person
      /\ hub.pc \in {"wait", "close", "crashed"} /\ hub.c \in Conn \cup {Nil}
      /\ {swapped, panicked} \subseteq BOOLEAN
  BY DEF AccountInv, HubInv, HubTypes
<1> QED BY <1>1, <1>2, <1>3, <1>4, <1>5, <1>6, <1>7 DEF Acc!LoginsSound, Acc!TypeOK

LEMMA FlagsKnown ==
  ASSUME AccountInv
  PROVE  Acc!FlagFollows
<1> SUFFICES ASSUME NEW c \in clients, Acc!Quiet(conn[c].user), conn[c].user \notin stale
             PROVE  conn[c].flag = Acc!IsAdmin(conn[c].user)
  BY DEF Acc!FlagFollows
<1>1. c \in Conn /\ conn[c].st # "off"
  BY DEF AccountInv, HubInv, HubTypes, Places, Known
<1>2. PICK u \in Person : u = conn[c].user
  BY <1>1 DEF AccountInv, Lines, Line
<1>3. Follows(u) /\ ~Pending(u)
  BY <1>2 DEF AccountInv, Flags, Acc!Quiet, Pending, AtWork, TimerOn
<1>4. conn[c].flag = TRUE <=> Acc!IsAdmin(u)
  BY <1>2, <1>3 DEF Follows, Right
<1>5. conn[c].flag \in BOOLEAN /\ Acc!IsAdmin(u) \in BOOLEAN
  BY <1>1 DEF AccountInv, Lines, Line, Acc!IsAdmin, Acc!There
<1> QED BY <1>2, <1>4, <1>5, Zenon

LEMMA HubKnows ==
  ASSUME AccountInv
  PROVE  Acc!HubSound
<1>1. ASSUME hub.pc = "wait", reg = {}, unreg = {}, ~swapped
      PROVE  aOnline = {conn[c].user : c \in {d \in Conn : conn[d].st = "serve"}}
  <2>1. InStep
    BY <1>1 DEF AccountInv, HubInv
  <2>2. clients = {d \in Conn : conn[d].st = "serve"}
    BY <1>1, <2>1 DEF AccountInv, HubInv, HubTypes, Places, InStep, Known, Lines, Line
  <2> QED BY <2>1, <2>2 DEF InStep
<1>2. panicked => swapped
  BY DEF AccountInv, HubInv, InStep
<1> QED BY <1>1, <1>2 DEF Acc!HubSound, Acc!PresenceFollows, Acc!NoClosedSend

\* No two users have an address in common (user.go, dcc_pool.go): the transaction
\* that writes a pool checks it against all the others, whatever was read before.
THEOREM PoolsStayDisjoint == ServicesSpec => []PoolsDisjoint
<1>1. (part = "accounts" => AccountInv) => PoolsDisjoint
  BY DEF AccountInv, PoolsDisjoint
<1> QED BY <1>1, AccountInvHolds, PTL

\* A ticket or code logs in at most once and a lock lets only those PINs through
\* that were past it, with type correctness (oauth.go, sudo.go).
THEOREM LoginsStaySound == ServicesSpec => []LoginsSound
<1>1. (part = "accounts" => AccountInv) => LoginsSound
  BY AccountTypes, ServicesAssumption DEF LoginsSound
<1> QED BY <1>1, AccountInvHolds, PTL

\* When no change of a user's elevation is under way his sessions know his role,
\* outside the cases the history variable stale names: a role that could not be
\* read among them (hub.go, sudo.go, http/ws.go).
THEOREM FlagsFollowRoles == ServicesSpec => []FlagFollows
<1>1. (part = "accounts" => AccountInv) => FlagFollows
  BY FlagsKnown DEF FlagFollows
<1> QED BY <1>1, AccountInvHolds, PTL

\* The hub shows who is there and sends on no closed channel (hub.go Run), unless
\* a client left before it was registered.
THEOREM HubStaysSound == ServicesSpec => []HubSound
<1>1. (part = "accounts" => AccountInv) => HubSound
  BY HubKnows DEF HubSound
<1> QED BY <1>1, AccountInvHolds, PTL
=============================================================================
