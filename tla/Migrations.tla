----------------------------- MODULE Migrations -----------------------------
(***************************************************************************)
(* A database that lives through several releases of the server: each one  *)
(* starts by migrating it (repo/migrations, MigrateUp), and while it runs  *)
(* its users write vehicles, trains and what refers to them.  A process    *)
(* may die between any two migrations.  REL's migrator applies the         *)
(* registered versions that are not recorded, in ascending order, each in  *)
(* one transaction with its record, and panics on a record it does not     *)
(* know.  Dates are written without the year.                              *)
(***************************************************************************)
EXTENDS Schema, TLC

CONSTANTS Release,    \* the last version each of the installed releases has
          MaxWrites   \* bound on what the users write

VARIABLES db,         \* the database (Schema)
          recorded,   \* rel_schema_versions
          release,    \* the release installed, 0 before the first
          pc,         \* "off", "remap", "migrate", "running"
          writes,     \* number of writes so far
          stuck       \* a boot has panicked

mvars == <<db, recorded, release, pc, writes, stuck>>

-----------------------------------------------------------------------------
(* Versions. *)

migrationVersion(date, seq) == date * 1000 + seq

\* How the releases before 18 June stamped the same version.
LegacyStamp(v) == (v \div 1000) * 1000000 + (v % 1000)

remapLegacyMigrationVersions(vs) ==
  {IF v > 10000000 THEN (v \div 1000000) * 1000 + (v % 1000000) ELSE v : v \in vs}

\* How many versions each day has.
PerDay ==
  (523 :> 1 @@ 525 :> 12 @@ 526 :> 2 @@ 604 :> 2 @@ 607 :> 1 @@ 608 :> 16 @@
   615 :> 4 @@ 616 :> 1 @@ 617 :> 17 @@ 621 :> 1 @@ 622 :> 2 @@ 623 :> 2 @@
   625 :> 2 @@ 626 :> 1 @@ 627 :> 1 @@ 629 :> 2 @@ 707 :> 1 @@ 708 :> 1 @@
   709 :> 1 @@ 711 :> 1 @@ 712 :> 2 @@ 716 :> 1 @@ 720 :> 1 @@ 721 :> 1 @@
   808 :> 3 @@ 809 :> 1 @@ 905 :> 1)

Registered ==
  UNION {{migrationVersion(d, s) : s \in 1 .. PerDay[d]} : d \in DOMAIN PerDay}

\* register: what version v does to the database.
Up(v, d) ==
  CASE v = migrationVersion(523, 1) ->
         createUsersUp(d)
    [] v = migrationVersion(525, 1) ->
         createLayoutsUp(d)
    [] v = migrationVersion(525, 2) ->
         createInterlockingsUp(d)
    [] v = migrationVersion(525, 3) ->
         createLayoutSignalmenUp(d)
    [] v = migrationVersion(525, 4) ->
         createInterlockingSessionsUp(d)
    [] v = migrationVersion(525, 5) ->
         createDCCAddressRangesUp(d)
    [] v = migrationVersion(525, 6) ->
         createVehiclesUp(d)
    [] v = migrationVersion(525, 7) ->
         createTrainsUp(d)
    [] v = migrationVersion(525, 8) ->
         createLayoutVehiclesUp(d)
    [] v = migrationVersion(525, 9) ->
         addUsersActiveColumnUp(d)
    [] v = migrationVersion(525, 10) ->
         addLayoutsAdminPINUp(d)
    [] v = migrationVersion(525, 11) ->
         createSudoElevationsUp(d)
    [] v = migrationVersion(525, 12) ->
         dropSystemLayoutLockCheckUp(d)
    [] v = migrationVersion(526, 1) ->
         createCommandStationsUp(d)
    [] v = migrationVersion(526, 2) ->
         createLayoutCommandStationsUp(d)
    [] v = migrationVersion(604, 1) ->
         createVehicleTemplatesAndDccFunctionsUp(d)
    [] v = migrationVersion(604, 2) ->
         addVehicleDeadManSwitchColumnsUp(d)
    [] v = migrationVersion(607, 1) ->
         addDccFunctionMomentaryColumnsUp(d)
    [] v = migrationVersion(608, 1) ->
         seedTemplateFunctionsWithForce(d, "PikoSm31", PikoSm31)
    [] v = migrationVersion(608, 2) ->
         seedTemplateFunctionsWithForce(d, "PikoZimoSm31", PikoZimoSm31)
    [] v = migrationVersion(608, 3) ->
         seedTemplateFunctionsWithForce(d, "SchlesienModelleEsuLoksound", SchlesienModelleEsuLoksound)
    [] v = migrationVersion(608, 4) ->
         seedTemplateFunctionsWithForce(d, "PikoXpSu46", PikoXpSu46)
    [] v = migrationVersion(608, 5) ->
         seedTemplateFunctionsWithForce(d, "PikoXpSp45Su45", PikoXpSp45Su45)
    [] v = migrationVersion(608, 6) ->
         seedTemplateFunctionsWithForce(d, "PikoDcc24EsuSp45Su45", PikoDcc24EsuSp45Su45)
    [] v = migrationVersion(608, 7) ->
         seedTemplateFunctionsWithForce(d, "RocoZimo810", RocoZimo810)
    [] v = migrationVersion(608, 8) ->
         seedTemplateFunctionsWithForce(d, "PikoXpSt44", PikoXpSt44)
    [] v = migrationVersion(608, 9) ->
         seedTemplateFunctionsWithForce(d, "PikoDcc24EsuEp07Eu07", PikoDcc24EsuEp07Eu07)
    [] v = migrationVersion(608, 10) ->
         seedTemplateFunctionsWithForce(d, "SchlesienModelleEsuEp07Eu07", SchlesienModelleEsuEp07Eu07)
    [] v = migrationVersion(608, 11) ->
         seedTemplateFunctionsWithForce(d, "PikoXpEn57", PikoXpEn57)
    [] v = migrationVersion(608, 12) ->
         seedTemplateFunctionsWithForce(d, "RoboEsuEn57", RoboEsuEn57)
    [] v = migrationVersion(608, 13) ->
         seedTemplateFunctionsWithForce(d, "RoboDigisoundEn57", RoboDigisoundEn57)
    [] v = migrationVersion(608, 14) ->
         seedTemplateFunctionsWithForce(d, "RocoDcc24ZimoTy2", RocoDcc24ZimoTy2)
    [] v = migrationVersion(608, 15) ->
         seedTemplateFunctionsWithForce(d, "RocoDcc24EsuTy2", RocoDcc24EsuTy2)
    [] v = migrationVersion(608, 16) ->
         seedTemplateFunctionsWithForce(d, "PikoXpEt21", PikoXpEt21)
    [] v = migrationVersion(615, 1) ->
         createVehicleLeasesUp(d)
    [] v = migrationVersion(615, 2) ->
         createTrainLeasesUp(d)
    [] v = migrationVersion(615, 3) ->
         createTakeoverRequestsUp(d)
    [] v = migrationVersion(615, 4) ->
         seedTemplateFunctionsWithForce(d, "SchlesienModelleDcc24EsuEp07V3", SchlesienModelleDcc24EsuEp07V3)
    [] v = migrationVersion(616, 1) ->
         addTrainMemberSpeedMultiplierUp(d)
    [] v = migrationVersion(617, 1) ->
         addTrainMemberExcludeFromSpeedUp(d)
    [] v = migrationVersion(617, 2) ->
         addTrainMemberStartDelayMsUp(d)
    [] v = migrationVersion(617, 3) ->
         addTrainMemberAccelRampUp(d)
    [] v = migrationVersion(617, 4) ->
         addTrainMemberBrakeRampUp(d)
    [] v = migrationVersion(617, 5) ->
         seedTemplateFunctionsWithForce(d, "RailboxRb23xxEp07Eu07", RailboxRb23xxEp07Eu07)
    [] v = migrationVersion(617, 6) ->
         seedTemplateFunctionsWithForce(d, "RailboxRb23xxSt44", RailboxRb23xxSt44)
    [] v = migrationVersion(617, 7) ->
         seedTemplateFunctionsWithForce(d, "RailboxRb23xxSm42", RailboxRb23xxSm42)
    [] v = migrationVersion(617, 8) ->
         seedTemplateFunctionsWithForce(d, "RailboxRb23xxEs64", RailboxRb23xxEs64)
    [] v = migrationVersion(617, 9) ->
         seedTemplateFunctionsWithForce(d, "RailboxRb23xxVectron", RailboxRb23xxVectron)
    [] v = migrationVersion(617, 10) ->
         seedTemplateFunctionsWithForce(d, "RailboxRb23xxEp09", RailboxRb23xxEp09)
    [] v = migrationVersion(617, 11) ->
         seedTemplateFunctionsWithForce(d, "RailboxRb23xxSm31", RailboxRb23xxSm31)
    [] v = migrationVersion(617, 12) ->
         seedTemplateFunctionsWithForce(d, "RailboxRb23xxEp08", RailboxRb23xxEp08)
    [] v = migrationVersion(617, 13) ->
         seedTemplateFunctionsWithForce(d, "RailboxRb23xxEt22", RailboxRb23xxEt22)
    [] v = migrationVersion(617, 14) ->
         seedTemplateFunctionsWithForce(d, "RailboxRb23xxEn57", RailboxRb23xxEn57)
    [] v = migrationVersion(617, 15) ->
         seedTemplateFunctionsWithForce(d, "RailboxRb23xxSu45", RailboxRb23xxSu45)
    [] v = migrationVersion(617, 16) ->
         seedTemplateFunctionsWithForce(d, "RailboxRb23xxBr232Ludmila", RailboxRb23xxBr232Ludmila)
    [] v = migrationVersion(617, 17) ->
         seedTemplateFunctionsWithForce(d, "RailboxRb23xxTp1", RailboxRb23xxTp1)
    [] v = migrationVersion(621, 1) ->
         migrateVehicleTrainStringIDsUp(d)
    [] v = migrationVersion(622, 1) ->
         addUsersOrganizationColumnUp(d)
    [] v = migrationVersion(622, 2) ->
         addLeaseSpeedLimitColumnUp(d)
    [] v = migrationVersion(623, 1) ->
         addCommandStationTimingColumnsUp(d)
    [] v = migrationVersion(623, 2) ->
         addCommandStationPollIntervalColumnUp(d)
    [] v = migrationVersion(625, 1) ->
         addCommandStationZ21ServerEnabledColumnUp(d)
    [] v = migrationVersion(625, 2) ->
         addCommandStationZ21IPStickinessColumnUp(d)
    [] v = migrationVersion(626, 1) ->
         addCommandStationZ21InboundPortColumnUp(d)
    [] v = migrationVersion(627, 1) ->
         addCommandStationWithrottleColumnsUp(d)
    [] v = migrationVersion(629, 1) ->
         addLayoutMaxVehiclesPerUserColumnUp(d)
    [] v = migrationVersion(629, 2) ->
         addCommandStationSlotLeaseColumnsUp(d)
    [] v = migrationVersion(707, 1) ->
         addCommandStationBootStopEnabledColumnUp(d)
    [] v = migrationVersion(708, 1) ->
         addDccFunctionMomentaryColumnsUp(d)
    [] v = migrationVersion(709, 1) ->
         backfillMomentaryHornFunctionsUp(d)
    [] v = migrationVersion(711, 1) ->
         updateWithrottlePairingAddrDefaultUp(d)
    [] v = migrationVersion(712, 1) ->
         addLayoutRadioChatEnabledColumnUp(d)
    [] v = migrationVersion(712, 2) ->
         addCommandStationSingleVehicleControlColumnUp(d)
    [] v = migrationVersion(716, 1) ->
         addCommandStationAllocatePhysicalSlotsColumnUp(d)
    [] v = migrationVersion(720, 1) ->
         addVehicleCatalogMetaColumnsUp(d)
    [] v = migrationVersion(721, 1) ->
         replaceVehicleExternalIDUniqueIndexUp(d)
    [] v = migrationVersion(808, 1) ->
         addCommandStationProgrammingColumnUp(d)
    [] v = migrationVersion(808, 2) ->
         addCommandStationHideInThrottleColumnUp(d)
    [] v = migrationVersion(808, 3) ->
         addCommandStationDefaultProgrammingTrackOutputColumnUp(d)
    [] v = migrationVersion(809, 1) ->
         seedTemplateFunctionsWithForce(d, "Basic", Basic)
    [] v = migrationVersion(905, 1) ->
         allowCommandStationKindWithrottleUp(d)

-----------------------------------------------------------------------------
(* Starting a release (cli/root.go, MigrateUp). *)

LegacyRelease(r) == r < migrationVersion(618, 0)
Stamp(r, v) == IF LegacyRelease(r) THEN LegacyStamp(v) ELSE v
Known(r) == {v \in Registered : v <= r}

Least(vs) == CHOOSE x \in vs : \A y \in vs : x <= y

\* The database d after the versions vs.
RECURSIVE Applied(_, _)
Applied(d, vs) ==
  IF d.ok /\ vs # {} THEN Applied(Up(Least(vs), d), vs \ {Least(vs)}) ELSE d

\* Nothing yet, or a fresh installation of an older release.
Init ==
  /\ \E r \in Release \cup {0} :
       /\ \E s \in Release : r < s
       /\ release = r /\ db = Applied(Empty, Known(r))
       /\ recorded = {Stamp(r, v) : v \in Known(r)}
  /\ pc = "off" /\ writes = 0 /\ stuck = FALSE

Boot(r) ==
  /\ pc = "off" /\ ~stuck /\ r >= release
  /\ release' = r
  /\ pc' = IF LegacyRelease(r) THEN "migrate" ELSE "remap"
  /\ UNCHANGED <<db, recorded, writes, stuck>>

Remap ==
  /\ pc = "remap"
  /\ recorded' = remapLegacyMigrationVersions(recorded)
  /\ pc' = "migrate"
  /\ UNCHANGED <<db, release, writes, stuck>>

Pending == {v \in Known(release) : Stamp(release, v) \notin recorded}
Unknown == recorded \ {Stamp(release, v) : v \in Known(release)}

\* One step of migrator.Migrate: the least pending version in one transaction
\* with its record.  A record the release does not know is a panic, and so is a
\* statement that fails.
Migrate ==
  /\ pc = "migrate" /\ (Unknown # {} \/ Pending # {})
  /\ LET v == Least(Pending)
         new == IF Unknown = {} THEN Up(v, db) ELSE Fail(db)
     IN /\ db' = IF new.ok THEN new ELSE db
        /\ recorded' = IF new.ok THEN recorded \cup {Stamp(release, v)} ELSE recorded
        /\ stuck' = ~new.ok
        /\ pc' = IF new.ok THEN pc ELSE "off"
  /\ UNCHANGED <<release, writes>>

Ready ==
  /\ pc = "migrate" /\ Unknown = {} /\ Pending = {}
  /\ pc' = "running"
  /\ UNCHANGED <<db, recorded, release, writes, stuck>>

\* The process ends, or dies between two migrations.
Crash ==
  /\ pc # "off"
  /\ pc' = "off"
  /\ UNCHANGED <<db, recorded, release, writes, stuck>>

-----------------------------------------------------------------------------
(* What the users of a release write. *)

Tables == DOMAIN db.cols
TextIds == "external_id" \in Columns(db, "vehicles")

\* The database with key k in the tables ts, as far as they exist.
Refer(ks, ts) ==
  [db EXCEPT !.keys = [t \in Tables |-> IF t \in ts THEN @[t] \cup ks ELSE @[t]]]

Write(new) ==
  /\ pc = "running" /\ writes < MaxWrites
  /\ writes' = writes + 1
  /\ db' = new
  /\ UNCHANGED <<recorded, release, pc, stuck>>

\* A vehicle with functions of its own, put on a layout.
AddVehicle ==
  /\ pc = "running"
  /\ Write(Refer({Key("vehicle", writes, TextIds)},
                 {"vehicles", "layout_vehicles", "dcc_functions"}))

\* A train of all the vehicles, put on a layout.
AddTrain ==
  /\ pc = "running"
  /\ LET k == Key("train", writes, TextIds)
         d == Refer({k}, {"trains", "layout_trains", "train_members"})
     IN Write([d EXCEPT !.keys["train_members"] = @ \cup db.keys["vehicles"]])

\* A lease of a vehicle or a train, and a takeover request for it.
Lend ==
  /\ pc = "running" /\ "takeover_requests" \in Tables
  /\ \/ \E k \in db.keys["vehicles"] :
          Write(Refer({k}, {"vehicle_leases", "takeover_requests"}))
     \/ \E k \in db.keys["trains"] :
          Write(Refer({k}, {"train_leases", "takeover_requests"}))

Next ==
  \/ Remap \/ Migrate \/ Ready \/ Crash
  \/ AddVehicle \/ AddTrain \/ Lend
  \/ \E r \in Release : Boot(r)

Spec == Init /\ [][Next]_mvars

-----------------------------------------------------------------------------
(* Properties. *)

\* No release panics on a database an earlier one, or a crash, has left.
NeverStuck == ~stuck

\* Every key a table holds is the key of a vehicle or of a train.
RefsResolve ==
  "trains" \in Tables =>
    \A t \in Tables : db.keys[t] \subseteq db.keys["vehicles"] \cup db.keys["trains"]

\* Up to date, the tables have every column the repositories use.
FieldsThere ==
  pc = "running" /\ release >= migrationVersion(905, 1) =>
    \A t \in DOMAIN Rows : t \in Tables /\ Rows[t] \subseteq Columns(db, t)

\* Once the horns have been backfilled they stay momentary, and so do the
\* functions a seed forces.
HornsPulse ==
  /\ migrationVersion(709, 1) \in recorded =>
       \A n \in DOMAIN db.tmpl : db.tmpl[n].horns \subseteq db.tmpl[n].momentary
  /\ "Basic" \in DOMAIN db.tmpl =>
       db.tmpl["Basic"].momentary = momentaryValues(Basic)

\* Whatever release a database comes from, and wherever an upgrade stopped, the
\* next boot ends with a schema the repositories can use, whose rows still refer
\* to each other and whose horns are pulses (migrations.go MigrateUp).
MigrationsSound == NeverStuck /\ RefsResolve /\ FieldsThere /\ HornsPulse
=============================================================================
