----------------------------- MODULE Catalogue -----------------------------
(***************************************************************************)
(* The catalogue the server keeps in SQLite: vehicles, trains, the roster  *)
(* of each layout, function slots and templates, layouts and the command   *)
(* stations attached to them; and the roster snapshot in Redis that the    *)
(* daemons drive from.                                                     *)
(*                                                                         *)
(* A request is an HTTP handler.  It loads rows and checks them, then      *)
(* commits one transaction, then republishes the layouts it concerns.      *)
(* Requests interleave between these steps: the checks are made outside    *)
(* the transaction and a vehicle is written back as the whole row that was *)
(* loaded.  What SQLite guards itself (unique indexes, "no such row") and  *)
(* what is checked inside the transaction holds at the commit (a           *)
(* transaction that read before another one committed fails).              *)
(*                                                                         *)
(* Owners and address pools are left to Accounts: every request here is    *)
(* allowed.  Names, positions and other columns are not told apart.        *)
(***************************************************************************)
EXTENDS Naturals, Layouts

CONSTANTS Vehicle, Train, Template, Num, Addr,
          Keep           \* a patch that does not set the address

\* Every table has ids of its own, and there is a station for the layouts
\* that exist from the start.
ASSUME CatalogueAssumption ==
    /\ Vehicle \cap (Train \cup Layout \cup Station) = {}
    /\ Train \cap (Layout \cup Station) = {} /\ Layout \cap Station = {}
    /\ Station # {}

Row == [addr : Addr \cup {None}, tmpl : Template \cup {None}, det : BOOLEAN]
Entity == Vehicle \cup Train \cup Layout \cup Station
SlotOps == {"upsertSlot", "deleteSlot"}
TemplateOps == {"upsertTemplate", "deleteTemplate"}

VARIABLES
    life,      \* [Entity -> {"new", "live", "gone"}]: an id is never used twice
    veh,       \* [Vehicle -> Row]
    own,       \* [Vehicle -> SUBSET Num]: dcc_functions with a vehicle_id
    tfn,       \* [Template -> SUBSET Num]: dcc_functions with a template_id
    mem,       \* [Train -> SUBSET Vehicle]: train_members
    lv, lt,    \* layout_vehicles, layout_trains
    att,       \* [Layout -> SUBSET Station]: layout_command_stations
    snap,      \* [Layout -> snapshot in Redis]
    req,       \* [Proc -> request being served]
    crossed,   \* history: entities two requests worked on at the same time
    torn,      \* history: layouts a request left unpublished or published beside another
    calls

vars == <<life, veh, own, tfn, mem, lv, lt, att, snap, req, crossed, torn, calls>>
tables == <<life, veh, own, tfn, mem, lv, lt, att>>

Live(x) == life[x] = "live"

-----------------------------------------------------------------------------
(* What the tables say.                                                    *)

\* Function.ListForVehicle: the template's slots until the vehicle is detached
Functions(v) == IF veh[v].tmpl # None /\ ~veh[v].det THEN tfn[veh[v].tmpl] ELSE own[v]

\* the unique index on dcc_address
AddressFree(v, a) == a = None \/ \A w \in Vehicle \ {v} : Live(w) => veh[w].addr # a

Drivable(l) == {v \in lv[l] : Live(v) /\ veh[v].addr # None}

\* buildVehicleFunctionsSnapshot
FunctionView(l) == {<<v, Functions(v)>> : v \in {w \in Drivable(l) : Functions(w) # {}}}

\* buildDefinedTrainsSnapshot: a member whose vehicle is missing keeps no address
TrainView(l) ==
    UNION {{<<t, v, IF Live(v) THEN veh[v].addr ELSE None>> : v \in mem[t]} :
           t \in {u \in lt[l] : Live(u)}}

\* SyncLayoutRosterToRedis: the three snapshots of a layout
View(l) == [vehicles |-> {<<v, veh[v].addr>> : v \in Drivable(l)},
            trains |-> TrainView(l), functions |-> FunctionView(l)]

Empty == [vehicles |-> {}, trains |-> {}, functions |-> {}]

\* Mutant: the trains the vehicle runs in are forgotten.
HostsDirect(v) == {l \in Layout : v \in lv[l]}

\* layouts that carry the vehicle, itself or in a train
Hosts(v) == {l \in Layout : v \in lv[l] \/ \E t \in lt[l] : v \in mem[t]}

-----------------------------------------------------------------------------
(* Requests.                                                               *)

Idle == [pc |-> "idle", op |-> None, on |-> {}, row |-> << >>, x |-> None,
         todo |-> {}, view |-> Empty, at |-> None, solo |-> TRUE]

Busy == {p \in Proc : req[p].pc # "idle"}

Init ==
    /\ \E V \in {S \in SUBSET Vehicle : S # {}}, L \in {{}, Layout}, T \in SUBSET Train,
          a \in [Vehicle -> Addr], m \in Template :
         /\ T = {} <=> V # Vehicle
         /\ \A v, w \in Vehicle : v # w => a[v] # a[w]
         /\ life = [x \in Entity |-> IF x \in V \cup L \cup T \cup Station THEN "live" ELSE "new"]
         /\ veh = [v \in Vehicle |-> [addr |-> IF v \in V THEN a[v] ELSE None,
                                      tmpl |-> IF v \in V THEN m ELSE None, det |-> FALSE]]
         /\ own = [v \in Vehicle |-> {}]
         /\ tfn = [n \in Template |-> Num]
         /\ mem = [t \in Train |-> IF t \in T THEN V ELSE {}]
         /\ lv = [l \in Layout |-> IF l \in L /\ T = {} THEN V ELSE {}]
         /\ lt = [l \in Layout |-> IF l \in L THEN T ELSE {}]
         /\ att = [l \in Layout |-> IF l \in L THEN Station ELSE {}]
    /\ snap = [l \in Layout |-> View(l)]
    /\ req = [p \in Proc |-> Idle]
    /\ crossed = {}
    /\ torn = {}
    /\ calls = 0

\* The rows the request loaded are kept in row, its argument in x; the
\* layouts it found before the transaction are in todo.
Begin(p, op, on, vs, x, todo) ==
    /\ req[p].pc = "idle"
    /\ calls < MaxCalls
    /\ calls' = calls + 1
    /\ req' = [q \in Proc |->
                 IF q = p THEN [pc |-> "commit", op |-> op, on |-> on,
                                row |-> [v \in vs |-> veh[v]], x |-> x, todo |-> todo,
                                view |-> Empty, at |-> None, solo |-> Busy = {}]
                 ELSE [req[q] EXCEPT !.solo = @ /\ req[q].pc = "idle"]]
    /\ crossed' = crossed \cup (on \cap UNION {req[q].on : q \in Busy})
    /\ UNCHANGED <<tables, snap, torn>>

Committing(p, op) == req[p].pc = "commit" /\ req[p].op = op

To(p, pc) == req' = [req EXCEPT ![p].pc = pc]

End(p) == req' = [req EXCEPT ![p] = Idle]

\* the transaction failed: nothing was written, the handler answers an error
Refuse(p) == End(p) /\ UNCHANGED tables

Kept == UNCHANGED <<snap, crossed, torn, calls>>

-----------------------------------------------------------------------------
(* Vehicles.                                                               *)

\* checkDCCAddress of Create is made before the row is inserted
CreateVehicle(p, v, a) ==
    /\ life[v] = "new"
    /\ AddressFree(v, a)
    /\ Begin(p, "createVehicle", {v}, {v}, a, {})

\* Insert: on a unique violation every retry fails as the first did
InsertVehicle(p, v) ==
    /\ Committing(p, "createVehicle") /\ v \in req[p].on
    /\ IF life[v] = "new" /\ AddressFree(v, req[p].x)
       THEN /\ life' = [life EXCEPT ![v] = "live"]
            /\ veh' = [veh EXCEPT ![v] = [addr |-> req[p].x, tmpl |-> None, det |-> FALSE]]
            /\ End(p)
            /\ UNCHANGED <<own, tfn, mem, lv, lt, att>>
       ELSE Refuse(p)
    /\ Kept

UpdateVehicle(p, v, a) ==
    /\ Live(v)
    /\ a = Keep \/ AddressFree(v, a)
    /\ Begin(p, "updateVehicle", {v}, {v}, a, {})

\* Rows of one request are written back whole, in one transaction
WriteRows(p, rows) ==
    IF \A v \in DOMAIN rows : Live(v) /\ AddressFree(v, rows[v].addr)
    THEN /\ veh' = [v \in Vehicle |-> IF v \in DOMAIN rows THEN rows[v] ELSE veh[v]]
         /\ To(p, "list")
         /\ UNCHANGED <<life, own, tfn, mem, lv, lt, att>>
    ELSE Refuse(p)

StoreVehicle(p) ==
    /\ Committing(p, "updateVehicle")
    /\ WriteRows(p, [v \in DOMAIN req[p].row |->
                       [req[p].row[v] EXCEPT !.addr = IF req[p].x = Keep THEN @ ELSE req[p].x]])
    /\ Kept

ClearDCCAddresses(p, vs) ==
    /\ vs # {}
    /\ \A v \in vs : Live(v)
    /\ Begin(p, "clearDCC", vs, vs, None, {})

\* rows that had no address when they were loaded are not written
ClearRows(p) ==
    /\ Committing(p, "clearDCC")
    /\ WriteRows(p, [v \in {w \in DOMAIN req[p].row : req[p].row[w].addr # None} |->
                       [req[p].row[v] EXCEPT !.addr = None]])
    /\ Kept

\* Mutant: a vehicle that runs in a train may be deleted.
DeleteUsed(p, v) ==
    /\ Live(v)
    /\ Begin(p, "deleteVehicle", {v}, {v}, None, {l \in Layout : v \in lv[l]})

\* the layouts to notify and the trains that use the vehicle are read first
DeleteVehicle(p, v) ==
    /\ Live(v)
    /\ \A t \in Train : v \notin mem[t]
    /\ Begin(p, "deleteVehicle", {v}, {v}, None, {l \in Layout : v \in lv[l]})

RemoveVehicleRows(p, v) ==
    /\ Committing(p, "deleteVehicle") /\ v \in req[p].on
    /\ IF Live(v)
       THEN /\ life' = [life EXCEPT ![v] = "gone"]
            /\ own' = [own EXCEPT ![v] = {}]
            /\ lv' = [l \in Layout |-> lv[l] \ {v}]
            /\ To(p, "sync")
            /\ UNCHANGED <<veh, tfn, mem, lt, att>>
       ELSE Refuse(p)
    /\ Kept

-----------------------------------------------------------------------------
(* Trains and rosters.                                                     *)

\* validateMembers is made before the transaction
ValidMembers(vs) == vs # {} /\ \A v \in vs : Live(v)

CreateTrain(p, t, vs) ==
    /\ life[t] = "new"
    /\ ValidMembers(vs)
    /\ Begin(p, "createTrain", {t} \cup vs, {}, <<t, vs>>, {})

UpdateTrain(p, t, vs) ==
    /\ Live(t)
    /\ ValidMembers(vs)
    /\ Begin(p, "updateTrain", {t} \cup vs, {}, <<t, vs>>, {})

\* replaceMembers and the train's row, in one transaction
ReplaceMembers(p, t) ==
    /\ \E op \in {"createTrain", "updateTrain"} :
         /\ Committing(p, op) /\ req[p].x[1] = t
         /\ IF life[t] = (IF op = "createTrain" THEN "new" ELSE "live")
            THEN /\ life' = [life EXCEPT ![t] = "live"]
                 /\ mem' = [mem EXCEPT ![t] = req[p].x[2]]
                 /\ To(p, "list")
                 /\ UNCHANGED <<veh, own, tfn, lv, lt, att>>
            ELSE Refuse(p)
    /\ Kept

DeleteTrain(p, t) ==
    /\ Live(t)
    /\ Begin(p, "deleteTrain", {t}, {}, t, {l \in Layout : t \in lt[l]})

RemoveTrainRows(p, t) ==
    /\ Committing(p, "deleteTrain") /\ req[p].x = t
    /\ IF Live(t)
       THEN /\ life' = [life EXCEPT ![t] = "gone"]
            /\ mem' = [mem EXCEPT ![t] = {}]
            /\ lt' = [l \in Layout |-> lt[l] \ {t}]
            /\ To(p, "sync")
            /\ UNCHANGED <<veh, own, tfn, lv, att>>
       ELSE Refuse(p)
    /\ Kept

\* The layout is the one the caller is logged in to: nothing asks whether
\* it still exists.
AddVehicle(p, l, v) ==
    /\ Live(v) /\ v \notin lv[l] /\ life[l] # "new"
    /\ Begin(p, "addVehicle", {l, v}, {}, <<l, v>>, {l})

RemoveVehicle(p, l, v) ==
    /\ Live(v) /\ v \in lv[l]
    /\ Begin(p, "removeVehicle", {l, v}, {}, <<l, v>>, {l})

AddTrain(p, l, t) ==
    /\ Live(t) /\ t \notin lt[l] /\ life[l] # "new"
    /\ Begin(p, "addTrain", {l, t}, {}, <<l, t>>, {l})

RemoveTrain(p, l, t) ==
    /\ Live(t) /\ t \in lt[l]
    /\ Begin(p, "removeTrain", {l, t}, {}, <<l, t>>, {l})

\* one insert or delete; the unique index on the pair, or the missing row,
\* refuses the second of two
JoinVehicle(p) ==
    /\ \E op \in {"addVehicle", "removeVehicle"} :
         /\ Committing(p, op)
         /\ LET l == req[p].x[1]  v == req[p].x[2]  add == op = "addVehicle"
            IN  IF (v \in lv[l]) # add
                THEN /\ lv' = [lv EXCEPT ![l] = IF add THEN @ \cup {v} ELSE @ \ {v}]
                     /\ To(p, "sync")
                     /\ UNCHANGED <<life, veh, own, tfn, mem, lt, att>>
                ELSE Refuse(p)
    /\ Kept

JoinTrain(p) ==
    /\ \E op \in {"addTrain", "removeTrain"} :
         /\ Committing(p, op)
         /\ LET l == req[p].x[1]  t == req[p].x[2]  add == op = "addTrain"
            IN  IF (t \in lt[l]) # add
                THEN /\ lt' = [lt EXCEPT ![l] = IF add THEN @ \cup {t} ELSE @ \ {t}]
                     /\ To(p, "sync")
                     /\ UNCHANGED <<life, veh, own, tfn, mem, lv, att>>
                ELSE Refuse(p)
    /\ Kept

-----------------------------------------------------------------------------
(* Function slots.                                                         *)

EditSlot(p, v, op, f) ==
    /\ Live(v)
    /\ Begin(p, op, {v}, {v}, f, {})

\* ensureDetached copies the template's slots to the vehicle and marks the
\* loaded row; then the slot is written or deleted, in the same transaction
CommitSlot(p, v) ==
    /\ \E op \in SlotOps :
         /\ Committing(p, op) /\ v \in req[p].on
         /\ LET row == req[p].row[v]
                detach == row.tmpl # None /\ ~row.det
                copied == IF detach THEN tfn[row.tmpl] ELSE {}
                had == own[v] \cup copied
            IN  IF /\ copied \cap own[v] = {}
                   /\ detach => Live(v) /\ AddressFree(v, row.addr)
                   /\ op = "deleteSlot" => req[p].x \in had
                THEN /\ own' = [own EXCEPT ![v] = IF op = "deleteSlot" THEN had \ {req[p].x}
                                                                     ELSE had \cup {req[p].x}]
                     /\ veh' = [veh EXCEPT ![v] = IF detach THEN [row EXCEPT !.det = TRUE] ELSE @]
                     /\ To(p, "list")
                     /\ UNCHANGED <<life, tfn, mem, lv, lt, att>>
                ELSE Refuse(p)
    /\ Kept

AttachVehicleToTemplate(p, v, m) ==
    /\ Live(v)
    /\ Begin(p, "attachTemplate", {v}, {v}, <<m, {}>>, {})

\* the source's resolved slots are read before the transaction
CopyVehicleFunctionsFromVehicle(p, v, w) ==
    /\ Live(v) /\ Live(w) /\ v # w
    /\ Begin(p, "copyFunctions", {v}, {v}, <<None, Functions(w)>>, {})

\* Mutant: the vehicle's own slots are not deleted first.
ReplaceBeside(p, v) ==
    /\ \E op \in {"attachTemplate", "copyFunctions"} : Committing(p, op) /\ v \in req[p].on
    /\ IF Live(v) /\ AddressFree(v, req[p].row[v].addr)
       THEN /\ own' = [own EXCEPT ![v] = @ \cup req[p].x[2]]
            /\ veh' = [veh EXCEPT ![v] = [req[p].row[v] EXCEPT !.tmpl = req[p].x[1], !.det = FALSE]]
            /\ To(p, "list")
            /\ UNCHANGED <<life, tfn, mem, lv, lt, att>>
       ELSE Refuse(p)
    /\ Kept

ReplaceFunctions(p, v) ==
    /\ \E op \in {"attachTemplate", "copyFunctions"} : Committing(p, op) /\ v \in req[p].on
    /\ IF Live(v) /\ AddressFree(v, req[p].row[v].addr)
       THEN /\ own' = [own EXCEPT ![v] = req[p].x[2]]
            /\ veh' = [veh EXCEPT ![v] = [req[p].row[v] EXCEPT !.tmpl = req[p].x[1], !.det = FALSE]]
            /\ To(p, "list")
            /\ UNCHANGED <<life, tfn, mem, lv, lt, att>>
       ELSE Refuse(p)
    /\ Kept

EditTemplate(p, m, op, f) ==
    /\ op = "deleteTemplate" => f \in tfn[m]
    /\ Begin(p, op, {}, {}, <<m, f>>, {})

CommitTemplate(p) ==
    /\ \E op \in TemplateOps :
         /\ Committing(p, op)
         /\ LET m == req[p].x[1]  f == req[p].x[2]
            IN  IF op = "deleteTemplate" /\ f \notin tfn[m]
                THEN Refuse(p)
                ELSE /\ tfn' = [tfn EXCEPT ![m] = IF op = "deleteTemplate" THEN @ \ {f}
                                                                        ELSE @ \cup {f}]
                     /\ To(p, "list")
                     /\ UNCHANGED <<life, veh, own, mem, lv, lt, att>>
    /\ Kept

-----------------------------------------------------------------------------
(* Layouts and command stations.                                           *)

CreateLayout(p, l, S) ==
    /\ life[l] = "new"
    /\ Begin(p, "createLayout", {l} \cup S, {}, <<l, S>>, {})

SetCommandStations(p, l, S) ==
    /\ Live(l)
    /\ Begin(p, "setStations", {l} \cup S, {}, <<l, S>>, {})

\* setCommandStations: the stations are looked up inside the transaction;
\* that the layout still exists was only asked before it
CommitStations(p) ==
    /\ \E op \in {"createLayout", "setStations"} :
         /\ Committing(p, op)
         /\ LET l == req[p].x[1]  S == req[p].x[2]
            IN  IF /\ S # {} /\ \A s \in S : Live(s)
                   /\ op = "createLayout" => life[l] = "new"
                THEN /\ att' = [att EXCEPT ![l] = S]
                     /\ life' = IF op = "createLayout" THEN [life EXCEPT ![l] = "live"] ELSE life
                     /\ End(p)
                     /\ UNCHANGED <<veh, own, tfn, mem, lv, lt>>
                ELSE Refuse(p)
    /\ Kept

DeleteLayout(p, l) ==
    /\ Live(l)
    /\ Begin(p, "deleteLayout", {l}, {}, l, {})

RemoveLayoutRows(p, l) ==
    /\ Committing(p, "deleteLayout") /\ req[p].x = l
    /\ IF Live(l)
       THEN /\ life' = [life EXCEPT ![l] = "gone"]
            /\ lv' = [lv EXCEPT ![l] = {}]
            /\ lt' = [lt EXCEPT ![l] = {}]
            /\ att' = [att EXCEPT ![l] = {}]
            /\ End(p)
            /\ UNCHANGED <<veh, own, tfn, mem>>
       ELSE Refuse(p)
    /\ Kept

\* CountLayoutsWithOnlyStation, made before the transaction; a row left for
\* a deleted layout is an error
DeleteStation(p, s) ==
    /\ Live(s)
    /\ \A l \in Layout : s \in att[l] => Live(l) /\ att[l] # {s}
    /\ Begin(p, "deleteStation", {s} \cup Layout, {}, s, {})

RemoveStationRows(p, s) ==
    /\ Committing(p, "deleteStation") /\ req[p].x = s
    /\ IF Live(s)
       THEN /\ life' = [life EXCEPT ![s] = "gone"]
            /\ att' = [l \in Layout |-> att[l] \ {s}]
            /\ End(p)
            /\ UNCHANGED <<veh, own, tfn, mem, lv, lt>>
       ELSE Refuse(p)
    /\ Kept

-----------------------------------------------------------------------------
(* Publication of the layouts a request concerns.                          *)

FunctionOps == SlotOps \cup TemplateOps \cup {"attachTemplate", "copyFunctions"}

\* the handler looks the layouts up after the transaction
Concerned(r) ==
    CASE r.op \in {"updateVehicle", "clearDCC"} -> UNION {Hosts(v) : v \in r.on}
      [] r.op \in {"createTrain", "updateTrain"} -> {l \in Layout : r.x[1] \in lt[l]}
      [] r.op \in TemplateOps ->
           {l \in Layout : \E v \in lv[l] : Live(v) /\ veh[v].tmpl = r.x[1] /\ ~veh[v].det}
      [] OTHER -> {l \in Layout : r.on \cap lv[l] # {}}

\* the request goes on with the layouts in ls, or ends
GoOnWith(p, ls) ==
    req' = [req EXCEPT ![p] = IF ls = {} THEN Idle
                              ELSE [@ EXCEPT !.pc = "sync", !.todo = ls,
                                             !.at = None, !.view = Empty]]

ListLayouts(p) ==
    /\ req[p].pc = "list"
    /\ GoOnWith(p, Concerned(req[p]))
    /\ UNCHANGED tables /\ Kept

\* nobody carries it: the handler answers
NothingToSync(p) ==
    /\ req[p].pc = "sync" /\ req[p].todo = {}
    /\ End(p)
    /\ UNCHANGED tables /\ Kept

ReadRoster(p, l) ==
    /\ req[p].pc = "sync" /\ l \in req[p].todo
    /\ req' = [req EXCEPT ![p].pc = "publish", ![p].at = l, ![p].view = View(l)]
    /\ UNCHANGED tables /\ Kept

\* A change of functions publishes that snapshot alone.
Publish(p) ==
    /\ req[p].pc = "publish"
    /\ LET l == req[p].at  view == req[p].view  full == req[p].op \notin FunctionOps
       IN  /\ snap' = [snap EXCEPT ![l] = IF full THEN view
                                          ELSE [@ EXCEPT !.functions = view.functions]]
           /\ torn' = IF ~req[p].solo THEN torn \cup {l}
                      ELSE IF full THEN torn \ {l} ELSE torn
    /\ GoOnWith(p, req[p].todo \ {req[p].at})
    /\ UNCHANGED <<tables, crossed, calls>>

\* What an error leaves unpublished of ls.  The loops over the layouts of a
\* train, a template or a vehicle's functions return at the first error; an
\* edited vehicle's own layouts go on, those of its trains do not, and
\* ClearDCCAddresses goes on with the next vehicle.
Unpublished(r, ls) ==
    IF r.op \in {"updateVehicle", "clearDCC"} THEN SUBSET ls ELSE {ls}

\* a roster row and a deletion notify layout by layout and drop the error
RosterOps == {"addVehicle", "removeVehicle", "addTrain", "removeTrain",
              "deleteVehicle", "deleteTrain"}

\* SQLite or Redis refuses while a layout is read or published; what was
\* published of it before stays
PublishFails(p) ==
    /\ req[p].pc = "publish"
    /\ calls < MaxCalls
    /\ calls' = calls + 1
    /\ LET r == req[p]
       IN  /\ \E parts \in {{}, {"vehicles"}, {"vehicles", "trains"}} :
                /\ parts # {} => r.op \notin FunctionOps
                /\ snap' = [snap EXCEPT ![r.at] =
                              [k \in DOMAIN Empty |-> IF k \in parts THEN r.view[k] ELSE @[k]]]
           /\ \E S \in IF r.op \in RosterOps THEN {{}} ELSE Unpublished(r, r.todo) :
                /\ torn' = torn \cup S \cup {r.at}
                /\ GoOnWith(p, r.todo \ (S \cup {r.at}))
    /\ UNCHANGED <<tables, crossed>>

\* the layouts cannot be looked up, although the transaction is committed
ListFails(p) ==
    /\ req[p].pc = "list"
    /\ calls < MaxCalls
    /\ calls' = calls + 1
    /\ LET ls == Concerned(req[p])
       IN  \E S \in Unpublished(req[p], ls) : torn' = torn \cup S /\ GoOnWith(p, ls \ S)
    /\ UNCHANGED <<tables, snap, crossed>>

-----------------------------------------------------------------------------
\* The handlers, area by area.  A catalogue kept on a phone names its
\* vehicles by an id of its own and always sends the address: it creates,
\* updates and deletes the way the other clients do.
UpsertByExternalID(p, v, a) == CreateVehicle(p, v, a) \/ UpdateVehicle(p, v, a)

DeleteByExternalID(p, v) == DeleteVehicle(p, v)

VehicleRequest(p) ==
    \/ \E v \in Vehicle :
         \/ \E a \in Addr \cup {None} : UpsertByExternalID(p, v, a)
         \/ UpdateVehicle(p, v, Keep)
         \/ DeleteByExternalID(p, v)
    \/ \E vs \in SUBSET Vehicle : ClearDCCAddresses(p, vs)

TrainRequest(p) ==
    \E t \in Train : \/ \E vs \in SUBSET Vehicle : CreateTrain(p, t, vs) \/ UpdateTrain(p, t, vs)
                     \/ DeleteTrain(p, t)

RosterRequest(p) ==
    \E l \in Layout : \/ \E t \in Train : AddTrain(p, l, t) \/ RemoveTrain(p, l, t)
                      \/ \E v \in Vehicle : AddVehicle(p, l, v) \/ RemoveVehicle(p, l, v)

FunctionRequest(p) ==
    \/ \E v \in Vehicle :
         \/ \E op \in SlotOps, f \in Num : EditSlot(p, v, op, f)
         \/ \E m \in Template : AttachVehicleToTemplate(p, v, m)
         \/ \E w \in Vehicle : CopyVehicleFunctionsFromVehicle(p, v, w)
    \/ \E m \in Template, op \in TemplateOps, f \in Num : EditTemplate(p, m, op, f)

LayoutRequest(p) ==
    \E l \in Layout :
      \/ \E S \in SUBSET Station : CreateLayout(p, l, S) \/ SetCommandStations(p, l, S)
      \/ DeleteLayout(p, l)

StationRequest(p) == \E s \in Station : DeleteStation(p, s)

Commit(p) ==
    \/ \E v \in Vehicle : \/ InsertVehicle(p, v) \/ RemoveVehicleRows(p, v)
                          \/ CommitSlot(p, v) \/ ReplaceFunctions(p, v)
    \/ \E t \in Train : ReplaceMembers(p, t) \/ RemoveTrainRows(p, t)
    \/ \E l \in Layout : RemoveLayoutRows(p, l)
    \/ \E s \in Station : RemoveStationRows(p, s)
    \/ StoreVehicle(p) \/ ClearRows(p) \/ JoinVehicle(p) \/ JoinTrain(p)
    \/ CommitTemplate(p) \/ CommitStations(p)

SyncStep(p) ==
    \/ ListLayouts(p)
    \/ NothingToSync(p)
    \/ \E l \in Layout : ReadRoster(p, l)
    \/ Publish(p)
    \/ PublishFails(p)
    \/ ListFails(p)

Next == \E p \in Proc : \/ VehicleRequest(p) \/ TrainRequest(p) \/ RosterRequest(p)
                        \/ FunctionRequest(p) \/ LayoutRequest(p) \/ StationRequest(p)
                        \/ Commit(p) \/ SyncStep(p)

Spec == Init /\ [][Next]_vars

-----------------------------------------------------------------------------
(* Properties.                                                             *)

\* The tables and the requests hold values of their types; in particular
\* a vehicle's address is an address or NULL, whatever a patch leaves out.
TypeOK ==
    /\ life \in [Entity -> {"new", "live", "gone"}]
    /\ veh \in [Vehicle -> Row]
    /\ own \in [Vehicle -> SUBSET Num] /\ tfn \in [Template -> SUBSET Num]
    /\ mem \in [Train -> SUBSET Vehicle]
    /\ lv \in [Layout -> SUBSET Vehicle] /\ lt \in [Layout -> SUBSET Train]
    /\ att \in [Layout -> SUBSET Station]
    /\ \A p \in Proc : req[p].pc \in {"idle", "commit", "list", "sync", "publish"}
    /\ crossed \subseteq Entity /\ torn \subseteq Layout

\* No two vehicles answer to one DCC address, although the check of it is
\* made before the row is written and two requests may both have passed it,
\* and although stale rows are written back whole (vehicle.go Create, Update).
AddressUnique ==
    \A v, w \in Vehicle : v # w /\ Live(v) /\ Live(w) /\ veh[v].addr # None
                          => veh[v].addr # veh[w].addr

\* A train's members and a roster's entries exist, unless a request that put
\* the vehicle or the train there overlapped the one that deleted it.  There
\* are no foreign keys: only the handlers see to it (vehicle.go DeleteAll,
\* train.go DeleteAll).
NoDangling ==
    /\ \A t \in Train : Live(t) => \A v \in mem[t] : Live(v) \/ v \in crossed
    /\ \A l \in Layout : /\ \A v \in lv[l] : Live(v) \/ v \in crossed
                         /\ \A t \in lt[l] : Live(t) \/ t \in crossed

\* Whatever overlaps, a station attached to a layout exists: both the
\* attachment and the deletion look inside their transaction.
AttachedExist == \A l \in Layout : \A s \in att[l] : Live(s)

\* A layout keeps a command station ("layout needs at least one"), unless
\* two requests changed the same layout's stations at once: the deletion
\* counts before its transaction.
KeepsStation == \A l \in Layout : Live(l) /\ l \notin crossed => att[l] # {}

\* A vehicle that follows its template has no slots of its own: they would
\* be hidden now, and copying the template's beside them would fail at every
\* later edit.  Only overlapping requests on the vehicle may leave some.
FollowsTemplate ==
    \A v \in Vehicle \ crossed :
        Live(v) /\ veh[v].tmpl # None /\ ~veh[v].det => own[v] = {}

\* When no request is being served, the snapshot a daemon reads of a layout
\* is what the tables say of it: every change of an address, a member, a
\* roster or a function reached every layout that carries it.  Excused are
\* the layouts that an error kept from being published, the ones after it
\* in the loop included, and those published while another request was
\* served, until a request that runs alone publishes them again in full.
SnapshotFollows ==
    Busy = {} => \A l \in Layout \ torn : Live(l) => snap[l] = View(l)

\* The rows are consistent although nothing but the handlers keeps them so:
\* unique addresses, no reference to a deleted row, no layout without station.
RowsSound == TypeOK /\ AddressUnique /\ NoDangling /\ AttachedExist /\ KeepsStation
=============================================================================
