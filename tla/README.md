# A TLA+ verification of BigFred's control plane

BigFred lets many people drive model locomotives over one command station. This
directory holds TLA+ models of the parts of it where concurrency, failures and
ordering decide whether a locomotive does what its driver asked for, the TLC
runs that check them on small instances and the TLAPS proofs that hold for every
instance. Paths below are relative to `pkgs/bigfred/` of the repository.

## The system

Two kinds of process talk over Redis only.

* **loco-server** (`server/`): HTTP and WebSocket API, SQLite catalogue
  (layouts, vehicles, trains, users), leases of vehicles between users,
  takeovers by signalmen, signal boxes, sudo, radio, and the supervision of the
  daemons.
* **dcc-bus** (`dcc-bus/`), one daemon per layout and command station:
  WebSocket throttle sessions, Z21 and WiThrottle handset servers, the use cases
  of `cmd/`, and the state they share.

| Component | State | Operations | Interacts with | What is hard |
|---|---|---|---|---|
| Slot leaser (`dcc-bus/slotlease`) | leases per loco with their holders, count and FIFO per user, releasing marks, pending retries, queue of the release worker | Reserve, Select, SelectTrain, Deselect(Deferred), Touch, ReleaseSession, ForceRelease, sweeps, ReconcileSlots, OnSlotInUse, OnSlotReleased | every driving use case, the station driver's slot events | station calls without the lock, evictions that unlock half way, retries, a full queue |
| Train speed scheduler (`dcc-bus/service`) | one cancel function per train, goroutines that sleep and ramp, background retries of stops | Apply, CancelTrain, CancelAll | HandleTrainSetSpeed, DCCWriter, state store | cancellation against sleeping goroutines, two sessions on one train |
| Loco state store (`dcc-bus/state`) | snapshot and command window per loco, dirty set, mirror in Redis | SetSpeed, SetFunction, ApplyObservation, flushes, LoadMissingFromRedis | all commands, the state feed, Redis | writes during a flush, stale echoes of the bus |
| WebSocket sessions (`dcc-bus/ws`, `dcc-bus/cmd`) | hub, subscriptions, close reason | read loop, commands, single vehicle control, dead-man watch, delayed close, roster updates, radio stop | store, station | close against reconnect, two tabs of one user, a command in flight when its session dies |
| Functions and CVs (`dcc-bus/cmd`, `dcc-bus/service`) | function cache, pulse map, programming lock | set, pulse, seed, observe, read and write CVs and addresses | station, store, state feed | deduplication against a cache that is wrong, pulses that must end |
| Handsets and pairing (`remotes/`, `remotepairing/`) | codes and pairings in Redis, registry of handsets with session, activity and brake latch | create, enter a code, complete, unpair, packets, sweep, eviction | server handlers, daemons, drive use cases | claims from two sides, eviction against activity |
| Z21 and WiThrottle servers (`dcc-bus/z21server`, `withrottle`) | subscriptions, throttle ids, last speeds | drive, functions, stops, acquire, release, fan-out | registry, use cases | remembered speeds sent again, overlapping fan-outs |
| Leases and takeover (`server/cmd`) | rows and indexes in Redis, timers, requests | Create, Revoke, Update, expiry, Request, Reject, Cancel, autoGrant, Release, RecoverPending | roster snapshots, brakes | timers against updates, decisions without compare-and-set, restarts |
| Daemon supervision, port pool (`server/service`) | map and Redis hash of ports, drop-ins, processes | EnsureRunning, ObserveLayout, reload, prune, boot, shutdown | throttles, supervisor | a port is known in six places |
| Catalogue, roster snapshots (`server/cmd`, `server/repo`) | SQLite rows, snapshot in Redis | create, update, delete, publish | daemons | checks outside the transaction, whole rows written back |
| Users, pools, sudo, server hub | rows, elevations with timers, cached admin flags | create, update, elevate, revoke, register, broadcast | clients | a flag cached in a session, a timer that fires late |
| Signal boxes, radio, server-side stops | box sessions, streams in Redis, debounce | Join, Leave, Send, replay, Radio Stop | clients, daemons | broadcasts after the transaction, a merge of history and live messages |
| Migrations (`server/repo/migrations`) | schema, seeded templates, version table | MigrateUp | every release | a restart between two migrations, data written by an older release |
| Web, Rust and command-line clients, load test | | | | not control logic |

What makes each component correct:

* *Slot leaser*: the count tested against the cap is the number of held locos;
  no slot is left without a lease or somebody in charge of releasing it; marks
  and graces end.
* *Train scheduler*: a newer command stops the goroutines of the older one;
  a ramp stays between its two speeds and ends at the target.
* *State store*: what is not marked dirty is in Redis; a command holds against
  stale echoes; the driver of a loco keeps it inside the command window.
* *Sessions*: nobody's loco runs on once the last session of the user is gone;
  single vehicle control; a loco off the roster stands.
* *Decoder*: the cache never swallows a command the decoder needs; a horn ends;
  an address is written as a whole.
* *Handsets*: a handset has one user and a user one handset; a code that may be
  typed is reserved; a silent handset's loco is stopped.
* *Lending*: no takeover before the driver had the whole window; a lease always
  has a timer; a target is braked when its lease ends; the daemons know.
* *Supervision*: one daemon per port and the right one; a daemon that ends
  leaves its locos standing; a wanted daemon comes up.
* *Catalogue*: rows that refer to each other agree; the snapshot follows.
* *Accounts, signal boxes, gateways, migrations*: pools are disjoint, flags
  follow elevations, a box has one signalman, a history has no holes, a
  remembered speed starts no loco, every upgrade path gives one schema.

## Modules

| Module | Models |
|---|---|
| `SlotLeaser` | `slotlease/leaser.go`, its callers, worker and loops, and the station's slots |
| `TrainSpeed` | `service/train_speed_scheduler.go`, `service/speed.go`, `cmd/train_set_speed.go`, the emergency stops and `Shutdown` |
| `LocoStore` | `state/loco_store.go`, `state/redis.go`, `cmd/roster_retire.go` |
| `Sessions` | `ws/session.go`, `ws/hub.go`, `cmd/session.go`, `cmd/set_speed.go`, `cmd/estop.go`, the radio stop, the roster updates |
| `Decoder` | `cmd/functions.go`, `cmd/set_function.go`, `service/function_cache.go`, `cmd/programming*.go` |
| `Handsets` | `remotepairing/store.go`, `remotes/coordinator.go`, `remotes/inbound`, the server's handlers |
| `Pilots` | what the pairing store promises; `Handsets` implements it (`P == INSTANCE Pilots WITH pilot <- ...`) |
| `Throttles` | `z21server`, `withrottle`, `remotes/inbound`, `remotes/notifier.go`, the speed limit of a lease (`contract/speed_limit.go`) |
| `Remotes` | the constants `Handsets` and `Throttles` have in common |
| `Lending` | `server/cmd/lease.go`, `takeover.go`, their Redis repositories, the roster's permissions |
| `Supervision` | `server/service/dcc_bus.go`, `dcc_bus_services.go`, `manager.go`, and a daemon's life |
| `Catalogue` | the handlers of vehicles, trains, templates, layouts and command stations, and what they publish |
| `Accounts` | `server/cmd/user.go`, `dcc_pool.go`, `oauth.go`, `sudo.go`, `server/ws/hub.go` |
| `Signalbox` | `interlocking_occupancy.go`, `radio.go`, `radio_store.go`, `radio_stop.go`, `estop_target.go` and the page's merge of radio messages |
| `Seeds`, `Schema`, `Migrations` | the seeded templates, one operator per migration, and the databases that live through several releases |
| `Layouts` | the constants `Catalogue` and `Supervision` have in common |
| `Services` | `Accounts` and `Signalbox` side by side (they share nothing; the initial state picks one), so that the run and the proofs speak of the same properties |
| `MC*` | instances for TLC; `MCServices` adds `Throttles` and `Migrations` to `Services` in the same way, `MCSlotLeaserShared` four settings of the leaser, `MCRadioStop` the run that must fail |
| `*Proofs` | theorems about the module of that name; `LendingProofs` also about `Signalbox`, `ServerProofs` about `Catalogue`, `Supervision` and `Accounts` |

The modules cut the system where it cuts itself: they share the station, the
store or a Redis row, and each states what it takes from the other side. Where
another module has the detail, the step is one step (a handset's drive in
`Handsets`; the slot of a loco everywhere but in `SlotLeaser`).

In all of them one action is one critical section, one Redis command, script or
transaction, or one call to the station; a goroutine between two of them has a
program counter and the values it has read. Time is kept where the code compares
it (`LocoStore`, `Lending`, `Signalbox`) and left out where anything may take any
time. `calls`, `MaxCalls`, `MaxWrites`, `MaxTime` and the like only bound what
the environment asks for; the theorems hold for every value of them.

### History variables and races

A property that the code keeps except in a race it leaves open is stated with a
history variable that records the race when it happens, and nothing else:
`excused` (Sessions, Supervision), `crept` (Sessions), `muddled` (Decoder), `raced` and `late`
(Handsets), `overlap` (Lending), `late`, `reused` and `wrong` (Supervision),
`crossed` (LocoStore), `crossed` and `torn` (Catalogue), `swapped` and `stale`
(Accounts), `unheard` and `alone` (Throttles), `cut` and `blurred` (Signalbox),
`clean` and `goal` (TrainSpeed).
The section on races says which code each stands for.

### SlotLeaser

`leases`, `perUser`, `turn` (userAddrOrder), `releasing` and `releasePending` are
the fields of `Leaser`; `queue` is its release channel; `slot` is what the
station has IN_USE. Selects and deselects run in goroutines of their own, so any
number of calls of one session may be in flight. The worker, the sweeper
(SweepIdle, then the drain and SweepDeferred) and the reconciler are threads too.
Times are reduced to what the code compares: a grace or an idle time has run out
or not, a lease was confirmed before or after the reconciler probed it.

### TrainSpeed

One train. `pending` is the registered cancel function, `cancelled` the contexts
that are done, `owner` the session a context comes from (its end cancels it
too), `jobs` the goroutines of runStartDelay and runSpeedRamp. Every command to
a member is two steps, station and store. Speeds keep their conversions: payload
1 drives at wire speed 2, wire speed 1 reads as 0, limits and multipliers round
as in the code.

### LocoStore

`snap` and `cmd` are a `locoEntry`; a write is the critical section of the entry
and then markDirty; a flush is the copy, the Redis SET and the clearing of the
mark. The copy shares its function slice with the entry, so the SET may carry the
newer function. `told` has the last motion command until the bus has confirmed
both its dimensions. Milliseconds are the clock's unit.

### Sessions

Three goroutines per session (read loop, watchdog, delayed close), the consumer
of roster snapshots and that of radio stops. A command is three steps: sent to
the station, written to the store, and in single vehicle mode a scan of the
roster that brakes the user's other locos. `HandleSessionClose` is the dead-man
plan, run by the watchdog or by the delayed close: stop what the user drives if
this is the user's last session, else only what the silent session subscribed
to. The scan starts only for a payload above 1 (`set_speed.go:32`), so a loco may be
started at the first notch beside another one: `crept` has the locos the store has
moving by such a command, and `OneVehicle` does not count them. A Select also
scans (`select.go`), which is left out: it only brakes more. `Under(u)` are the locos that move for `u`: the last command is the user's
and nobody's newer one is between station and store.

### Decoder

One loco with its function bits and CVs. `setLocoFunction` checks and stages the
cache, sends, rolls back on failure, and stores; a pulse has a goroutine and a
timer per function; CV requests run under `progMu` and write one CV per step.

### Handsets and Pilots

`pend`, `byReq`, `dedup`, `act` and `byUser` are the keys of the pairing store.
REST goroutines, the packets of each handset and the sweep of the coordinator
interleave at every Redis command. In `Pilots` a pairing replaces the user's old
one in one step. A read of a session and the deletion of the index entry that had
led to it are two commands (`Resolve`, `Unlist`). A reservation of a code may run
out at any time, also between its SADD and its EXPIRE, which is more than its TTL
allows. The idle brake and the release of a dropped handset's loco may be refused by
the station; the latch is set all the same, and `late` has the handset. A daemon
that restarts leaves the locos as they are: its boot stop is off by default.
The refinement maps the handset's pilot to the user of its active
pairing, users apart whose index entry was deleted under a new session (`raced`).

### Lending

Rows and indexes of `leases_redis.go` and `takeover_requests_redis.go`, the timer
maps of the server, which a crash empties, and `RecoverPending`. Vehicles and
trains are targets; a train lease shows its members on the roster. `overlap` is
set when a handler starts while another one is between its first and last step.

### Supervision

A port may be in the server's map, in Redis, in a drop-in, with the supervisor,
with a daemon, or in the hands of a request. The supervisor is external: it
starts the programs of its group after a reload, restarts those that die and
kills the ones that do not stop. The server and its map may be lost and hydrated
again, or not when Redis fails; writes and removals of a port in Redis may fail
unnoticed, and an error of the database or of the drop-in group ends a request. A
daemon starts with or without a boot stop, and its shutdown stops the loco or, when
the station refuses or the loco is off the roster, does not (`excused`).

### Catalogue, Accounts, Throttles, Signalbox, Migrations

A request of `Catalogue` loads and checks, commits, lists the layouts concerned and
publishes to one after the other. An error while it lists or publishes leaves out
the layouts the code leaves out: the rest of the loop, which returns at the first
error, or with the operations that drop the error (`RosterOps`, ClearDCCAddresses)
only that layout or vehicle; of a layout it may publish the vehicles or the trains
and then fail. The layouts left out are `torn`. In `Accounts` a read of a role may
fail (`RoleRead`), which writes FALSE into the session (`http/ws.go:48`,
`cli/root.go:435`); its user is in `stale`. The module has the register and unregister channels of the hub with the
order in which `select` may take them. `Throttles` encodes speeds as the Z21 and
WiThrottle protocols do for 14, 28 and 128 steps, decodes a drive packet by the
packet's own step format (`Formats`), whatever the station's, and sends no more than the lease
of the loco allows the user, whatever the client asked for; leases do not change in
it. `Signalbox` numbers messages as Redis
streams do, per stream. `Migrations` opens a database at every released version,
migrates it step by step with a crash between any two, and lets users write in
between; `Schema` is the list of columns each migration leaves.

## Runs

`CHECK_DEADLOCK FALSE` everywhere: the bounded environment may stop asking, and
then all is at rest. TLC finishes all of them, and together they take every
action and every disjunct of the next-state relations.

| Run | Checks | Bounds |
|---|---|---|
| `SlotLeaserDrive` | `SlotsKept`, `Progress` | one driver, two locos, cap 1, one slot, a queue of one, one release attempt, sweep of graces; fair |
| `SlotLeaserShared` | `FifoSound`, `LedgerBalanced`, `AcquiringOwned`, `CapRespected` | two locos, users, sessions and handlers, failing station; four settings: *cap* (three locos and a cap of two, drives and immediate deselects in any order), *switch* (drives, graces, closes), *train* (trains of two members, idle sweep, throttles, boot stop), *select* (selects, forced releases, lost slots, reconciliation) |
| `TrainSpeed` | `LateAtMostOnce`, `Settles`, `JobsEnd` | two members with delay and ramps, payloads 0, 1 and 9, two commands, e-stop, close, shutdown, failing station; fair |
| `LocoStore` | `Mirror`, `CommandHolds`, `OwnerKept`, `Flushed` | one loco, two writers of which one is the feed, the flush loop, speeds 0 and 5, a window of 2 ms, 4 ms, two writes, failing Redis; fair |
| `Lending` | `Watched`, `ViewsFollow`, `BrakedAtEnd`, `NoEarlyGrant` | a vehicle and a train with it, owner and two users, two goroutines, leases of 2, window 1, hold 1, one request, three calls, time to 4, restarts |
| `Sessions` | `NoRunaway`, `OneVehicle`, `RosterKept` | two sessions of one user, two locos, cap 1, single vehicle mode, drives at the first notch and above it, three commands, updates or failures |
| `Decoder` | `CacheSound`, `AddressWhole`, `PulseEnds` | a horn and a light, a handler, two programmers, two addresses, one retry, three calls or failures; fair |
| `Handsets` | `PresenceSound`, `OnePilot`, `SilentStops` | a Z21 and a TCP handset, one user, one code, one REST goroutine; fair |
| `Supervision` | `PortsSound`, `StandsAtExit`, `ProgramComesUp` | two layouts on one station, two ports, two requests, three crashes, edits, restarts or failures of Redis; fair |
| `Catalogue` | `RowsSound`, `FollowsTemplate`, `SnapshotFollows` | two vehicles, a train, two layouts, two stations, a template, two addresses, two requests at a time, three in all; the layouts are there or are not, and a train is there only with both vehicles |
| `Services` | `PoolsDisjoint`, `LoginsSound`, `FlagFollows`, `HubSound`, `ThrottlesSound`, `NoSurpriseStart`, `SignalboxSound`, `MigrationsSound` | two failed PINs lock, three calls; 28 speed steps, payloads 1 and 28, a speed limit of 10 for the WiThrottle client's user, a FIFO of one; messages in two milliseconds, one fault; five releases, two writes of the users between them |
| `RadioStop` | must fail: `StopsHonoured` | one user, one box, one fault |

One or two locos, users and handlers are enough for the races: each hazard in
`PROJECT.json` needs two threads at one row or address, or one more than the cap.
The bounds on calls leave room for a command, a failure and a repetition. Users
and locos are symmetric in `Lending`, `Sessions`, `Catalogue` and `Services`, which check
no liveness. The theorems below remove the bounds for most of the safety properties.

`RadioStop` shows where the code does not do what a comment says: the debounce of
`radio_stop.go:89` is set before the message is published. When the publication
fails, a second press within the two seconds of the debounce is answered ok and
publishes nothing, although `contract/layout_events.go:11` says that the message
is "published when a user triggers Radio Stop" and that every daemon of the layout
halts its roster.

### Fairness

Handlers, goroutines, timers and the release worker are weakly fair: the Go
scheduler runs what can run, and none of their steps waits for a condition.
Strong fairness is assumed for what is tried again and again: the sweeps that
every tick of their loop reaches (`SweepDeferred`, the coordinator's `Sweep`), a
mutex that others also take (`Lock` of `progMu`; Go's mutexes do not starve
anybody), and the SET of a flush that is repeated (`Flushed` says nothing of a
Redis that is gone for ever). In `Supervision` the supervisor reloads and restarts
what it was told to run. A client's next call, a physical throttle, the end of a
session, a crash or a shutdown is never assumed.

### Races the code leaves open

The models contain the following cases, and the properties are stated apart from
them (by a history variable, or by the bounds of the run).

*Slot leaser.*
* Reserve tests the cap, unlocks for the eviction and adds the holder without a
  second test (`leaser.go:211-223`), and an eviction removes only the caller's own
  holder: with two sessions or calls of one user `CapRespected` fails. A repeated
  Reserve of a held loco at the cap evicts another one.
* `releaseAbortedByReuse` runs before `ReleaseSlot` and not with it
  (`leaser.go:994-1012`): a Reserve in between keeps its lease and loses its slot.
* A Select that finds another holder returns before the first one's AcquireSlot
  has answered (`leaser.go:284`). When the last holder leaves during AcquireSlot,
  the release takes the empty lease for a reuse and gives up (`leaser.go:328`).
* A slot that becomes IN_USE again between the probe and the drop of a
  reconciliation loses its lease (`leaser.go:720-737`).
* A retry aborted by a new lease counts as a success and deletes the pending mark,
  also the one a failed release of that lease has just set
  (`leaser.go:1027-1043`): `NoSilentLeak` fails with idle sweep and failing station.

*Trains and stops.*
* A ramp sends its step without looking at its context again
  (`train_speed_scheduler.go:320-342`); `LateAtMostOnce` is the bound. After
  Shutdown the same step may move a loco again.
* The second `scheduleDelayed` of another session overwrites the cancel function
  of the first (`train_speed_scheduler.go:296`).
* Station and store are two writes: a stop between the two of a drive leaves a
  moving loco cached as standing, which the next stop skips (`estop.go:68`).

*State store.*
* FlushNow and flushAll may store the same address in the wrong order
  (`loco_store.go:308`, `crossed`). `flushOne` compares milliseconds
  (`loco_store.go:321`), so a write with the stamp of the copy loses its mark.
  Retirement writes Redis and not the store (`roster_retire.go:64`).

*Sessions.*
* Two sessions of a user fall to the dead-man together, and each finds the other
  one still there; a frame arrives during its own session's dead-man plan; a drive
  sent but not stored is not seen by it; two commands on one loco leave station
  and store in disagreement (`set_speed.go:94`); a drive between the retirement
  of a loco and the new snapshot; applyEStopAll writes the store although the
  station failed. A session's send queue of 64 drops its oldest frame.

*Decoder* (`muddled`).
* Two goroutines set one function; an observation is in flight, also when the loco
  is retired and subscribed again meanwhile; an off-command failed; a retirement
  leaves bits in the store which Seed copies into the cache; somebody switches
  while nobody watches.

*Handsets.*
* Self-healing deletes an index entry that was replaced meanwhile (`store.go:432`,
  `:522`, `raced`). The TTL of the set of reserved codes may end between SADD
  (`store.go:281`) and EXPIRE (`store.go:313-322`), so a code is stored that others
  may draw (`raced` holds such codes too). The idle brake is latched although the
  station refused it (`estop.go:39-45`, `coordinator.go:529-530`, `late`); the
  eviction stops the loco again, and a loco it cannot stop either runs on, like
  one that was moving when its daemon crashed without a boot stop
  (`router.go:216`). CompletePairing evicts the handset a stale index entry names,
  although it drives for another user by now (`store.go:64-69`). Unpair reads and
  then runs its script. A code deleted by clearUserPending while another user
  draws the same one would lose its reservation; with thousands of codes this is
  excluded in the model (`Free`).
* An error in syncPairedByKey counts as unpaired (`z21server/server.go:503`). A
  session-sync message may be lost, two syncs may run out of order, a drive may be
  in flight when its handset is evicted (`late`). In `withrottle`, SetPaired(nil)
  precedes the read of the previous pairing, so the roster update on unpairing is
  never sent.

*Gateways* (`unheard`, `alone`).
* On a station of 14 steps a packet of 28 or 128 steps stores a speed above 15,
  which encodeDriveDB3 masks (`packets.go:273`): the display of such a loco is wrong,
  and `DisplayFollows` leaves it out.
* WiThrottle's `lastSpeed` (`wire_state.go:17`) is not told of e-stops, so a
  direction key alone sends the old speed again (`adapter.go:248-276`); a failed
  idle is remembered as speed 0, a late setLastSpeed comes after Remove, a new
  pairing keeps the old value, and a direction key on a loco just acquired sends 0.
  findThrottleForAddr updates one of two throttle ids, and a release on one
  unsubscribes the loco another one holds. LastActiveLoco may name a loco that the
  FIFO dropped. The failure branch of `host.go`'s Subscribe cannot be reached.

*Lending* (`overlap`).
* cancelTimer of Revoke or expireLease may cancel the timer of a lease made
  meanwhile; UpdateSpeedLimit and UpdateDuration write back the row they read;
  two roster syncs publish out of order; Release revokes whatever lease the target
  has, without a brake; grant and Reject do not compare and set
  (`takeover.go:410`); a target may have two pending requests (`takeover.go:257`);
  a listing's SRem races Create. Requests of a signalman who left are still
  granted; the timer of an older lease brakes the owner after a takeover; the brake
  precedes the roster; a lease that ran out while the server was down is never
  braked (`lease.go:147`).

*Supervision* (`late`, `reused`, `excused`).
* Two EnsureRunning of one daemon overwrite each other's port; persistPort may
  follow the prune, or a restart may come between upsert and persistPort; a port
  is pruned while its daemon takes up to 35 s to end; prunePorts ignores a failing
  HDel (`dcc_bus_services.go:183`), persistPort only logs one of HSet, and a
  HydratePorts that fails is a warning (`root.go:498`), so a daemon that runs may
  have a port the server hands out again; a slow daemon is never
  persisted; EnsureRunning may return a port on which another daemon listens.
  ObserveLayout caches its fingerprint before the sync (`dcc_bus_services.go:258`),
  so a failed one is not repeated. applyEStopAll goes on past a station that refuses
  (`estop.go:128-140`) and stops the roster only. A throttle may drive between applyEStopAll and
  the exit; the last flush is not waited for (`loco_store.go:274`). The system
  layout's handleSetCS accepts any station, which checkAttached then refuses.

*Catalogue* (`crossed`, `torn`).
* A stale row is written back (`vehicle.go:338`); a vehicle is added to a layout
  that was deleted; a failed publication is dropped (`layout_roster.go:438`), or
  ends the loop over the other layouts too (`layout_roster_snapshot.go:86`, `:109`,
  `:162`, `:193`), or the list of layouts fails after the commit
  (`layout_roster.go:361`, `:418`), and nothing publishes them later;
  SetCommandStations does not check the vehicle limit again; Update with a nil
  address does not brake, ClearDCC does.

*Accounts* (`swapped`, `stale`).
* `select` may take unregister before register (`hub.go:102`): the client stays
  registered with a closed channel. Two refreshes of a flag may end out of order;
  a change of role reaches no open session; a role that cannot be read counts as
  none (`ws.go:48`, `root.go:435`); Revoke cancels its timer before a
  Delete that may fail (`sudo.go:173`); a restart loses the timers; a timer that
  fires drops the entry of a newer one (`sudo.go:329`); a whole-row write
  re-activates an account (`auth.go:319`); VerifyToken does not ask whether the
  user is active; SessionControl broadcasts to a client that is closed.

*Signal boxes* (`cut`, `blurred`).
* Replays drop duplicates by an id that each stream numbers by itself, so two
  messages of one millisecond clash (`radio_store.go:108`) and one message may be
  shown twice; history on its way replaces a live message (`radio.ts:359`); moving
  to another box never announces that the old one is free
  (`interlocking_occupancy.go:234`); overlapping joins and leaves are announced
  out of order; a full send channel drops frames; Send does not ask whether the
  box exists; a deleted box keeps its session.

*Migrations.*
* `migrations.go:27-29` and `:46-48` say that versions fit a 32-bit int;
  20260523 * 1000 + 1 does not, and wraps on a 32-bit build, though the order
  stays ascending. The change to string ids (20260621) rebuilds the slot tables
  without the momentary flag; it comes back later and only for horns, so flags
  that users had set on other slots are gone. The unique index on `external_id`
  alone (20260721) would refuse two sources that share one; indexes are not
  modelled.

## Theorems

Proved with TLAPS for every value of the constants that satisfies the ASSUME of
the module: natural bounds, a `None` that is no other value, disjoint names, and
where cardinalities are counted finite sets. Nothing about the sizes is assumed.
Every `Inv` below was model-checked on the run's instance before it was proved.

**SlotLeaserProofs.** `TypeCorrect`, `LedgerStaysBalanced` (`LedgerBalanced`),
`GraceStaysUnheld`. The number the cap is tested against is the number of (loco,
session) pairs the user holds: the proof follows these pairs as a finite set
through every action. `Monus` (a counter never goes below zero) never cuts
anything off, because what is removed was held; and a grace is deleted without
bookkeeping, which is right because it has no holder. `FifoStaysSound`
(`FifoSound`) is part of the same invariant.
On top of it, each action is shown to respect what other goroutines still have to
do: `FlagsStayOwned` (`AcquiringOwned`), `MarksHaveJobs` (`MarkHasJob`) and
`SlotsStayKept` (`SlotsKept`). The proof of the last needs `Covered`, which is
stronger than `NoSilentLeak`: a job in the queue does not count, because a job
that finds its mark gone releases nothing, and only a mark, a lease, a pending
retry or a goroutine past that test does. `SlotsStayKept` is stated for a `Tame`
layout, the largest one we found in which the code keeps the promise of
`leaser.go:1050`: no boot stop, no reconciler, and with a station that may refuse
calls no Select, train or idle sweep. TLC has a leak for each of these. During the
boot stop OnSlotInUse records nothing. The reconciler drops a lease whose slot was
taken again after the probe. A refused Select deletes a lease whose slot a
set-speed of the same session took meanwhile, and a drain that ends removes a
pending mark that was parked meanwhile. `LedgerBalanced`, `FifoSound`, `AcquiringOwned` and
`MarkHasJob` are proved for every layout.

**TrainSpeedProofs.** `TypeCorrect`, `LateBounded` (`LateAtMostOnce`): the
invariant adds that a goroutine which is asleep or about to send has sent nothing
late, because the context is looked at after every command and stays done.
`RampStaysBetween`: for all speeds and step counts a ramp stays between its ends,
never turns back, and ends at the target; `RampsKeepShape` (`RampShape`): every
ramp Apply plans is one of these, with as many steps as fit the minimum interval.
`TrainSettles` (`Settles`) is stated for one session at a time (`Single`), any
train and any number of commands, stops and failures: with two sessions the
second scheduleDelayed overwrites the cancel function of the first, and TLC has
goroutines that CancelTrain no longer reaches. `Contexts` says that a command takes
a context nobody used and that nothing is registered once CancelTrain ran; `Goals`
that every member the read loop has passed is at its speed, with the store told,
or has exactly one goroutine whose last command is its target.

**LocoStoreProofs.** `MirrorStaysFresh` (`Mirror`), `CommandsHold`
(`CommandHolds`), `OwnersKept` (`OwnerKept`, an action property). `Inv` says that
the entry's window is that of the last command until it expired or was confirmed,
and what each goroutine between copy, SET and clearing knows of the entry.

**SessionsProofs.** `NoRunawayHolds` (`NoRunaway`), `OneVehicleHolds`
(`OneVehicle`), `RosterStaysKept` (`RosterKept`). `Agree`: station and store
differ only between the two writes of one goroutine. `Minded`: a loco that moves
for a user is minded by one of the user's sessions, which is connected and has
not fired, or sleeps before its delayed close, or has the loco on its list of
stops. `Scanned`: of two locos that move for a user in single vehicle mode one is
still on the list of a scan, or creeps at the first notch (`crept`). `Retiring`: a loco about to leave the roster stands.
The proof attempt showed that `Under` must leave out a loco with another user's
command between station and store; the properties say so since then.

**DecoderProofs.** `CacheStaysSound` (`CacheSound`), `AddressStaysWhole`
(`AddressWhole`). `Inv` relates cache, store and decoder at every step of
setLocoFunction, and says that one programmer holds `progMu` and how far its list
of CVs has come.

**HandsetsProofs.** `PresenceStaysSound` (`PresenceSound`) and the refinement
`StoreImplementsPilots` (`OnePilot`, that is `P!Spec`). `Codes`: whoever is about
to store a code is alone with it, unless the reservation ran out under it. `Brakes`:
a command lifts the latch before it drives, and a loco that moves under the latch is
one whose brake was refused. `Index`: a user's entry names the handset that drives for the user, which
is what the script evicts by, so a pairing step is a step of `Pilots` and every
other one a stutter or an end.
The second half is about `Throttles`: `ThrottlesStaySound` (`ThrottlesSound`) and
`DirectionKeysAreSafe` (`NoSurpriseStart`, an action property), for any number of
clients, throttle ids and locos, every number of speed steps and all speed limits.
The properties speak of moments when nobody works on a loco; `ThrottlesInv` says
for every other moment who makes good what a client knows: it fits the store, or a
fan-out is still to come (`Telling`), or the client's own handler is about to note
the speed it sent (`Noting`, `ToldOf`). That a fan-out brings the latest state
needs that its goroutine is alone with the loco (`Alone`, `Knows`); one in company
has every port of the loco on record (`InCompany`). A direction key carries the
last known speed, which nobody else can have replaced while the handler is alone
(`Turns`). `Listed` is the index, from lemmas about what subscribeLocoLocked and
UnsubscribeLoco make of a FIFO; `RoundTrip` is the DB3 byte, there and back, for
every speed the info packet of the station can hold. The proof attempt found the model without the speed limit of a lease:
the last known speed of a WiThrottle client is what it asked for, and the loco's
speed is that or what the lease makes of it.

**LendingProofs.** `NoEarlyGrantHolds` (`NoEarlyGrant`, an action property, and
`Watched`'s part about requests, whatever overlaps), `LeasesStayWatched`
(`Watched`), `ViewsStayCurrent` (`ViewsFollow`), `BrakesStayKept`
(`BrakedAtEnd`). The properties speak of quiet moments; `Inv` says for every point
of a handler who still has to set the timer, brake the target or publish.
The second half is about `Signalbox`: `BoxesStaySound` (`SignalboxSound`).
Who staffs a box is inductive by itself, because the transaction of Join ends
the user's other sessions; what the clients were told (`ToldInv`) holds of a box
nobody is about to tell of. The sender's stream is first on the list, so whatever
any stream has of a message, his has (`Kept`). The hardest part is what the page
of a signalman shows: `Hears` says that a message to the box is on it, or in the
history on its way to it, for every message but the one whose occupant has not
been looked up yet. A history belongs to one session, so the numbers of sessions
must be distinct (`Numbers`), and a page waits for one history (`OneReader`).
The proof attempt found the model wrong here: it had numbered a session by the
calls made when the transaction ran, and with three goroutines two sessions of one
box could share a number, which the ids of the session rows never do. The number
is drawn with the request since then.

**ServerProofs.** Three modules, three invariants.
*Catalogue*: `RowsStaySound` (`RowsSound`), `TemplatesFollowed`
(`FollowsTemplate`), `SnapshotsFollow` (`SnapshotFollows`). The handlers check
before the transaction and write inside it. `AllChecked` says of every request
what its check still guarantees when it commits, or that another request works on
the same entity, which `Crossing` has on record. For the snapshots the invariant
is one of debts: `Told` says that a snapshot differs from the tables only while
somebody owes the layout a publication, or one went wrong (`torn`). A request
whose transaction takes away the rows by which its layouts are found must have
listed them before (`Owing`); one that edits function slots writes back an
address it read earlier, so an address changed meanwhile must be owed too.
*Supervision*: `PortsStaySound` (`PortsSound`), `DaemonsLeaveStanding`
(`StandsAtExit`). `OneUser`: no two daemons have one port in any of the six
places; it needs that Redis knows no port the map does not (`SavedKnown`), which
holds until Redis fails to remove or to load one (`late`).
*Accounts*: `PoolsStayDisjoint` (`PoolsDisjoint`), `LoginsStaySound`
(`LoginsSound`), `FlagsFollowRoles` (`FlagFollows`), `HubStaysSound`
(`HubSound`). A ticket owed is in Redis or with one goroutine (`Tickets`); PINs
tried under a lock were past it when it was set, so with those still to be
verified they are fewer than the goroutines (`Locks`); unless a client left before
it was registered, every client is where the hub will find it (`InStep`); a
session with the wrong flag has a request or a timer that will set it (`Follows`).

The theorems about Supervision are stated for `SupSpec`, those about Accounts and
Signalbox for `ServicesSpec`, whose properties say `part = ... =>` the property of
the part; `Spec` is always the module's own (Catalogue's in ServerProofs, Lending's
in LendingProofs).

The hypotheses are the ASSUMEs of the modules, which TLC evaluates for every
instance it checks: `CatalogueAssumption` (the ids of vehicles, trains, layouts
and stations are distinct, and there is a station), `SupervisionAssumption`, and
`ServicesAssumption`, which is `AccountsAssumption` (natural addresses, finitely
many addresses and goroutines, at least one PIN before the lock) and
`SignalboxAssumption` (`None` is neither a user nor a session); and
`ThrottlesAssumption` (the steps are 14, 28 or 128, payloads and bytes in their
range, a speed limit is at least 2 as in ClampSpeedForControllerLimit, clients of
the two gateways and the browser are distinct, one pairing may allow all locos).

Only model-checked:

* the liveness properties (`Progress`, `JobsEnd`, `Flushed`, `PulseEnds`,
  `SilentStops`, `ProgramComesUp`), which need fairness and ENABLED;
* `MigrationsSound`: the module uses recursion over the versions, and its content
  is a finite list of releases, which TLC goes through completely;
* `CapRespected`, which the code keeps only in the settings of its run (one call
  at a time of one session).

## Not modelled

Metrics, logging, diagnostics and most broadcasts to clients (they read state);
directions in `TrainSpeed` (passed through); more than one function output in
`LocoStore`; the TTL of Redis keys where it is longer than any behaviour of
interest; jumps of the wall clock; names, positions and other columns of the
catalogue; tokens and the OAuth client registry; SQL types, defaults and indexes;
the configuration and the wiring of the processes; the user interfaces, the Rust
client, the command line and the load test. The station, Redis, SQLite and the
supervisor are external: they answer or fail. `SetFromBus` and the migrations'
Down functions have no caller.

## Plan

Done: the modules, runs and theorems above. Left: the polling order of the state
feed; changing leases in `Throttles`.
