------------------------------- MODULE Schema -------------------------------
(***************************************************************************)
(* The SQLite schema as the migrations build it (repo/migrations): one     *)
(* operator per Up function.  A database d has the columns of each table   *)
(* in their order, the keys of vehicles and trains each table holds, and   *)
(* the seeded templates with the function numbers that are momentary;      *)
(* d.ok is FALSE once a statement has failed.  Column types, defaults,     *)
(* indexes and checks are left out.  The Down functions are never called.  *)
(***************************************************************************)
EXTENDS Integers, Sequences, Seeds

\* A key of a vehicle or a train: a number at first, a text ("V-1") later.
Key(kind, n, text) == [kind |-> kind, n |-> n, text |-> text]

Empty == [cols |-> <<>>, keys |-> <<>>, tmpl |-> <<>>, ok |-> TRUE]

Fail(d) == [d EXCEPT !.ok = FALSE]

\* The function f with x mapped to v.
With(f, x, v) == [y \in DOMAIN f \cup {x} |-> IF y = x THEN v ELSE f[y]]

Columns(d, table) == {d.cols[table][i] : i \in 1 .. Len(d.cols[table])}

CreateTable(d, table, cols) ==
  IF table \in DOMAIN d.cols
  THEN Fail(d)
  ELSE [d EXCEPT !.cols = With(d.cols, table, cols),
                 !.keys = With(d.keys, table, {})]

\* ALTER TABLE ADD COLUMN fails on a missing table and on a duplicate.
AddColumns(d, table, cols) ==
  IF \/ table \notin DOMAIN d.cols
     \/ \E i \in 1 .. Len(cols) : cols[i] \in Columns(d, table)
  THEN Fail(d)
  ELSE [d EXCEPT !.cols[table] = @ \o cols]

\* A table rebuilt under new columns: INSERT INTO ... (kept) SELECT kept, the
\* keys passing through rekey; then DROP and RENAME.
Rebuild(d, table, cols, kept, rekey(_)) ==
  IF table \notin DOMAIN d.cols \/ ~(kept \subseteq Columns(d, table))
  THEN Fail(d)
  ELSE [d EXCEPT !.cols[table] = cols,
                 !.keys[table] = {rekey(k) : k \in @}]

SetOf(s) == {s[i] : i \in 1 .. Len(s)}
Same(k) == k

-----------------------------------------------------------------------------
(* The tables as they were created (migrations.go). *)

createUsersUp(d) ==
  CreateTable(d, "users",
      <<"id", "login", "pin_hash", "role", "created_at", "updated_at">>)

createLayoutsUp(d) ==
  CreateTable(d, "layouts",
      <<"id", "name", "is_system", "locked", "created_by", "created_at",
        "updated_at">>)

createInterlockingsUp(d) ==
  CreateTable(
    CreateTable(d, "interlockings",
      <<"id", "name", "location", "created_at">>),
    "layout_interlockings",
    <<"id", "layout_id", "interlocking_id", "added_by_user_id", "added_at">>)

createLayoutSignalmenUp(d) ==
  CreateTable(d, "layout_signalmen",
      <<"id", "layout_id", "user_id", "granted_by", "granted_at",
        "expires_at">>)

createInterlockingSessionsUp(d) ==
  CreateTable(d, "interlocking_sessions",
      <<"id", "interlocking_id", "signalman_user_id", "started_at",
        "ended_at">>)

createDCCAddressRangesUp(d) ==
  CreateTable(d, "dcc_address_ranges",
      <<"id", "user_id", "from_addr", "to_addr">>)

createVehiclesUp(d) ==
  CreateTable(d, "vehicles",
      <<"id", "dcc_address", "owner_user_id", "name", "kind", "number",
        "created_at", "updated_at">>)

createTrainsUp(d) ==
  CreateTable(
    CreateTable(d, "trains",
      <<"id", "owner_user_id", "name", "created_at", "updated_at">>),
    "train_members",
    <<"id", "train_id", "vehicle_id", "position", "reversed">>)

createLayoutVehiclesUp(d) ==
  CreateTable(
    CreateTable(d, "layout_vehicles",
      <<"id", "layout_id", "vehicle_id", "added_by_user_id", "added_at">>),
    "layout_trains",
    <<"id", "layout_id", "train_id", "added_by_user_id", "added_at">>)

addUsersActiveColumnUp(d) == AddColumns(d, "users", <<"active">>)

addLayoutsAdminPINUp(d) == AddColumns(d, "layouts", <<"admin_pin_hash">>)

createSudoElevationsUp(d) ==
  CreateTable(d, "sudo_elevations",
      <<"id", "user_id", "layout_id", "granted_at", "expires_at">>)

dropSystemLayoutLockCheckUp(d) ==
  LET cols ==
      <<"id", "name", "is_system", "locked", "created_by", "created_at",
        "updated_at", "admin_pin_hash">>
  IN Rebuild(d, "layouts", cols, SetOf(cols), Same)

createCommandStationsUp(d) ==
  CreateTable(d, "command_stations",
      <<"id", "name", "kind", "connection_uri", "speed_steps", "created_at",
        "updated_at">>)

createLayoutCommandStationsUp(d) ==
  CreateTable(d, "layout_command_stations",
      <<"id", "layout_id", "command_station_id", "added_by_user_id",
        "added_at">>)

createVehicleTemplatesAndDccFunctionsUp(d) ==
  CreateTable(
    AddColumns(
      CreateTable(d, "vehicle_templates",
        <<"id", "name", "description", "owner_user_id", "version",
          "created_at", "updated_at">>),
      "vehicles", <<"template_id", "functions_detached_at">>),
    "dcc_functions",
    <<"id", "vehicle_id", "template_id", "num", "name", "icon", "position",
      "created_at", "updated_at">>)

addVehicleDeadManSwitchColumnsUp(d) ==
  AddColumns(d, "vehicles",
      <<"rp1_function", "emergency_lights_function", "deadman_switch_option">>)

\* Unlike the others, this one ignores a duplicate column.
ensureDccFunctionMomentaryColumns(d) ==
  IF "dcc_functions" \in DOMAIN d.cols /\ "momentary" \in Columns(d, "dcc_functions")
  THEN d
  ELSE AddColumns(d, "dcc_functions", <<"momentary", "momentary_duration_ms">>)

addDccFunctionMomentaryColumnsUp(d) == ensureDccFunctionMomentaryColumns(d)

\* Inserts the template, and its functions, unless they are there.
seedTemplateFunctionsWithForce(d, name, t) ==
  IF \/ "dcc_functions" \notin DOMAIN d.cols
     \/ "momentary" \notin Columns(d, "dcc_functions")
  THEN Fail(d)
  ELSE IF name \in DOMAIN d.tmpl
       THEN d
       ELSE [d EXCEPT !.tmpl = With(d.tmpl, name,
                                    [slots |-> t.slots, horns |-> t.horns,
                                     momentary |-> momentaryValues(t)])]

createVehicleLeasesUp(d) ==
  CreateTable(d, "vehicle_leases",
      <<"id", "vehicle_id", "from_user_id", "to_user_id", "started_at",
        "expires_at", "revoked_at">>)

createTrainLeasesUp(d) ==
  CreateTable(d, "train_leases",
      <<"id", "train_id", "from_user_id", "to_user_id", "started_at",
        "expires_at", "revoked_at">>)

createTakeoverRequestsUp(d) ==
  CreateTable(d, "takeover_requests",
      <<"id", "layout_id", "interlocking_id", "signalman_user_id",
        "driver_user_id", "target", "target_id", "requested_at",
        "decision_at", "auto_grant_at", "granted_lease_id", "released_at",
        "state">>)

addTrainMemberSpeedMultiplierUp(d) ==
  AddColumns(d, "train_members",
      <<"speed_multiplier">>)

addTrainMemberExcludeFromSpeedUp(d) ==
  AddColumns(d, "train_members",
      <<"exclude_from_speed">>)

addTrainMemberStartDelayMsUp(d) ==
  AddColumns(d, "train_members",
      <<"start_delay_ms">>)

addTrainMemberAccelRampUp(d) ==
  AddColumns(d, "train_members",
      <<"accel_ramp_ms", "accel_ramp_max_steps">>)

addTrainMemberBrakeRampUp(d) ==
  AddColumns(d, "train_members",
      <<"brake_ramp_ms", "brake_ramp_max_steps">>)

-----------------------------------------------------------------------------
(* From numbers to texts (migrate_vehicle_train_string_ids.go). *)

\* 'V-' || id and 'T-' || id.
Prefixed(k) == [k EXCEPT !.text = TRUE]

RekeyVehicles(d) ==
  LET cols ==
      <<"id", "external_id", "source", "dcc_address", "owner_user_id",
        "name", "kind", "number", "template_id", "functions_detached_at",
        "rp1_function", "emergency_lights_function", "deadman_switch_option",
        "created_at", "updated_at">>
  IN Rebuild(d, "vehicles", cols, SetOf(cols) \ {"external_id", "source"}, Prefixed)

RekeyTrains(d) ==
  LET cols ==
      <<"id", "external_id", "source", "owner_user_id", "name", "created_at",
        "updated_at">>
  IN Rebuild(d, "trains", cols, SetOf(cols) \ {"external_id", "source"}, Prefixed)

RekeyMembers(d) ==
  LET cols ==
      <<"id", "train_id", "vehicle_id", "position", "reversed",
        "speed_multiplier", "exclude_from_speed", "start_delay_ms",
        "accel_ramp_ms", "accel_ramp_max_steps", "brake_ramp_ms",
        "brake_ramp_max_steps">>
  IN Rebuild(d, "train_members", cols, SetOf(cols), Prefixed)

RekeyLayoutVehicles(d) ==
  LET cols ==
      <<"id", "layout_id", "vehicle_id", "added_by_user_id", "added_at">>
  IN Rebuild(d, "layout_vehicles", cols, SetOf(cols), Prefixed)

RekeyLayoutTrains(d) ==
  LET cols ==
      <<"id", "layout_id", "train_id", "added_by_user_id", "added_at">>
  IN Rebuild(d, "layout_trains", cols, SetOf(cols), Prefixed)

RekeyVehicleLeases(d) ==
  LET cols ==
      <<"id", "vehicle_id", "from_user_id", "to_user_id", "started_at",
        "expires_at", "revoked_at">>
  IN Rebuild(d, "vehicle_leases", cols, SetOf(cols), Prefixed)

RekeyTrainLeases(d) ==
  LET cols ==
      <<"id", "train_id", "from_user_id", "to_user_id", "started_at",
        "expires_at", "revoked_at">>
  IN Rebuild(d, "train_leases", cols, SetOf(cols), Prefixed)

\* The new table has no momentary columns: what they held is lost.
RekeyFunctions(d) ==
  LET cols ==
      <<"id", "vehicle_id", "template_id", "num", "name", "icon", "position",
        "created_at", "updated_at">>
      new == Rebuild(d, "dcc_functions", cols, SetOf(cols), Prefixed)
  IN [new EXCEPT !.tmpl = [n \in DOMAIN @ |-> [@[n] EXCEPT !.momentary = {}]]]

RekeyRequests(d) ==
  LET cols ==
      <<"id", "layout_id", "interlocking_id", "signalman_user_id",
        "driver_user_id", "target", "target_id", "requested_at",
        "decision_at", "auto_grant_at", "granted_lease_id", "released_at",
        "state">>
  IN Rebuild(d, "takeover_requests", cols, SetOf(cols), Prefixed)

migrateVehicleTrainStringIDsUp(d) ==
  RekeyRequests(RekeyFunctions(RekeyTrainLeases(RekeyVehicleLeases(
    RekeyLayoutTrains(RekeyLayoutVehicles(RekeyMembers(RekeyTrains(
      RekeyVehicles(d)))))))))

-----------------------------------------------------------------------------
(* What came after (migrations.go). *)

addUsersOrganizationColumnUp(d) == AddColumns(d, "users", <<"organization">>)

addLeaseSpeedLimitColumnUp(d) ==
  AddColumns(AddColumns(d, "vehicle_leases", <<"speed_limit">>),
             "train_leases", <<"speed_limit">>)

addCommandStationTimingColumnsUp(d) ==
  AddColumns(d, "command_stations",
      <<"heartbeat_secs", "deadman_secs">>)

addCommandStationPollIntervalColumnUp(d) ==
  AddColumns(d, "command_stations",
      <<"poll_interval_ms">>)

addCommandStationZ21ServerEnabledColumnUp(d) ==
  AddColumns(d, "command_stations",
      <<"z21_server_enabled">>)

addCommandStationZ21IPStickinessColumnUp(d) ==
  AddColumns(d, "command_stations",
      <<"z21_ip_stickiness">>)

addCommandStationZ21InboundPortColumnUp(d) ==
  AddColumns(d, "command_stations",
      <<"z21_inbound_port">>)

addCommandStationWithrottleColumnsUp(d) ==
  AddColumns(d, "command_stations",
      <<"withrottle_server_enabled", "withrottle_inbound_port",
        "withrottle_pairing_addr", "withrottle_heartbeat_secs">>)

addLayoutMaxVehiclesPerUserColumnUp(d) ==
  AddColumns(d, "layouts",
      <<"max_vehicles_per_user">>)

addCommandStationSlotLeaseColumnsUp(d) ==
  AddColumns(d, "command_stations",
      <<"max_loconet_slots", "idle_timeout_secs">>)

addCommandStationBootStopEnabledColumnUp(d) ==
  AddColumns(d, "command_stations",
      <<"boot_stop_enabled">>)

\* Mutant: the horns are not made momentary again.
NoBackfill(d) == ensureDccFunctionMomentaryColumns(d)

backfillMomentaryHornFunctionsUp(d) ==
  LET new == ensureDccFunctionMomentaryColumns(d)
  IN [new EXCEPT
        !.tmpl = [n \in DOMAIN @ |-> [@[n] EXCEPT !.momentary = @ \cup new.tmpl[n].horns]]]

updateWithrottlePairingAddrDefaultUp(d) ==
  IF "withrottle_pairing_addr" \in Columns(d, "command_stations") THEN d ELSE Fail(d)

addLayoutRadioChatEnabledColumnUp(d) ==
  AddColumns(d, "layouts",
      <<"radio_chat_enabled">>)

addCommandStationSingleVehicleControlColumnUp(d) ==
  AddColumns(d, "command_stations",
      <<"single_vehicle_control">>)

addCommandStationAllocatePhysicalSlotsColumnUp(d) ==
  AddColumns(d, "command_stations",
      <<"allocate_physical_slots">>)

addVehicleCatalogMetaColumnsUp(d) ==
  AddColumns(d, "vehicles",
      <<"carrier", "assignment", "revision_date", "epoch">>)

replaceVehicleExternalIDUniqueIndexUp(d) ==
  IF "external_id" \in Columns(d, "vehicles") THEN d ELSE Fail(d)

addCommandStationProgrammingColumnUp(d) ==
  AddColumns(d, "command_stations",
      <<"programming">>)

addCommandStationHideInThrottleColumnUp(d) ==
  AddColumns(d, "command_stations",
      <<"hide_in_throttle">>)

addCommandStationDefaultProgrammingTrackOutputColumnUp(d) ==
  AddColumns(d, "command_stations",
      <<"default_programming_track_output">>)

\* INSERT ... SELECT * copies by position: another number of columns is an
\* error, and another order would put the values under the wrong names.
rebuildCommandStationsKindCheck(d) ==
  LET cols ==
      <<"id", "name", "kind", "connection_uri", "speed_steps", "created_at",
        "updated_at", "heartbeat_secs", "deadman_secs", "poll_interval_ms",
        "z21_server_enabled", "z21_ip_stickiness", "z21_inbound_port",
        "withrottle_server_enabled", "withrottle_inbound_port",
        "withrottle_pairing_addr", "withrottle_heartbeat_secs",
        "max_loconet_slots", "idle_timeout_secs", "boot_stop_enabled",
        "single_vehicle_control", "allocate_physical_slots", "programming",
        "hide_in_throttle", "default_programming_track_output">>
  IN IF d.cols["command_stations"] = cols THEN d ELSE Fail(d)

allowCommandStationKindWithrottleUp(d) == rebuildCommandStationsKindCheck(d)

-----------------------------------------------------------------------------
(* The columns the repositories read and write: the rows of server/domain. *)

UserRow ==
  {"id", "login", "pin_hash", "role", "organization", "active",
    "created_at", "updated_at"}

Layout ==
  {"id", "name", "is_system", "locked", "created_by", "admin_pin_hash",
    "max_vehicles_per_user", "radio_chat_enabled", "created_at",
    "updated_at"}

Interlocking ==
  {"id", "name", "location", "created_at"}

LayoutInterlocking ==
  {"id", "layout_id", "interlocking_id", "added_by_user_id", "added_at"}

LayoutSignalman ==
  {"id", "layout_id", "user_id", "granted_by", "granted_at", "expires_at"}

InterlockingSession ==
  {"id", "interlocking_id", "signalman_user_id", "started_at", "ended_at"}

DCCAddressRange ==
  {"id", "user_id", "from_addr", "to_addr"}

Vehicle ==
  {"id", "external_id", "source", "dcc_address", "owner_user_id", "name",
    "kind", "number", "template_id", "functions_detached_at", "rp1_function",
    "emergency_lights_function", "deadman_switch_option", "carrier",
    "assignment", "revision_date", "epoch", "created_at", "updated_at"}

Train ==
  {"id", "external_id", "source", "owner_user_id", "name", "created_at",
    "updated_at"}

TrainMember ==
  {"id", "train_id", "vehicle_id", "position", "reversed",
    "speed_multiplier", "exclude_from_speed", "start_delay_ms",
    "accel_ramp_ms", "accel_ramp_max_steps", "brake_ramp_ms",
    "brake_ramp_max_steps"}

LayoutVehicle ==
  {"id", "layout_id", "vehicle_id", "added_by_user_id", "added_at"}

LayoutTrain ==
  {"id", "layout_id", "train_id", "added_by_user_id", "added_at"}

SudoElevation ==
  {"id", "user_id", "layout_id", "granted_at", "expires_at"}

CommandStation ==
  {"id", "name", "kind", "connection_uri", "speed_steps", "heartbeat_secs",
    "deadman_secs", "poll_interval_ms", "z21_server_enabled",
    "z21_ip_stickiness", "z21_inbound_port", "withrottle_server_enabled",
    "withrottle_inbound_port", "withrottle_pairing_addr",
    "withrottle_heartbeat_secs", "max_loconet_slots", "idle_timeout_secs",
    "boot_stop_enabled", "single_vehicle_control", "allocate_physical_slots",
    "programming", "hide_in_throttle", "default_programming_track_output",
    "created_at", "updated_at"}

LayoutCommandStation ==
  {"id", "layout_id", "command_station_id", "added_by_user_id", "added_at"}

VehicleTemplate ==
  {"id", "name", "description", "owner_user_id", "version", "created_at",
    "updated_at"}

DccFunction ==
  {"id", "vehicle_id", "template_id", "num", "name", "icon", "position",
    "momentary", "momentary_duration_ms", "created_at", "updated_at"}

TakeoverRequest ==
  {"id", "layout_id", "interlocking_id", "signalman_user_id",
    "driver_user_id", "target", "target_id", "requested_at", "decision_at",
    "auto_grant_at", "granted_lease_id", "released_at", "state"}

Rows ==
  [users |-> UserRow,
   layouts |-> Layout,
   interlockings |-> Interlocking,
   layout_interlockings |-> LayoutInterlocking,
   layout_signalmen |-> LayoutSignalman,
   interlocking_sessions |-> InterlockingSession,
   dcc_address_ranges |-> DCCAddressRange,
   vehicles |-> Vehicle,
   trains |-> Train,
   train_members |-> TrainMember,
   layout_vehicles |-> LayoutVehicle,
   layout_trains |-> LayoutTrain,
   sudo_elevations |-> SudoElevation,
   command_stations |-> CommandStation,
   layout_command_stations |-> LayoutCommandStation,
   vehicle_templates |-> VehicleTemplate,
   dcc_functions |-> DccFunction,
   takeover_requests |-> TakeoverRequest]

=============================================================================
