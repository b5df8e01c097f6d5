----------------------------- MODULE Supervision -----------------------------
(***************************************************************************)
(* The daemons of the layouts: the server hands out their ports            *)
(* (service/dcc_bus.go), keeps their programs in the drop-in group of the  *)
(* process supervisor (service/dcc_bus_services.go, manager.go), and tells *)
(* throttles where to dial (cmd/session_control.go, http/dcc_bus_proxy.go);*)
(* the supervisor, microinit, is external; a daemon boots, listens, drives *)
(* and shuts down (dcc-bus/daemon.go, cmd/shutdown.go, cmd/boot_stop.go).  *)
(*                                                                         *)
(* A daemon is named by its layout and command station.  It has one loco.  *)
(* A step is one critical section of the port map, one write of Redis or   *)
(* of the drop-ins, or one call of the supervisor.                         *)
(***************************************************************************)
EXTENDS Integers, Layouts

CONSTANTS Port    \* the pool, PortMin .. PortMax

ASSUME SupervisionAssumption ==
  /\ Port \subseteq Nat /\ MaxCalls \in Nat
  /\ None \notin Port

Key == Layout \X Station
Of(ls) == {k \in Key : k[1] \in ls}

VARIABLES
  attached,   \* command stations of the layouts (the database)
  online,     \* layouts with a control-plane session
  cache,      \* DccBusLayoutSync: the stations last seen
  ports,      \* DccBusService.ports
  saved,      \* the same in Redis
  dropin,     \* the drop-in group: the port of every program
  known,      \* the programs the supervisor has read
  want,       \* the ones it keeps running
  bus,        \* the daemons: [phase, port]
  moving,     \* daemons whose loco moves
  proc,       \* the requests
  asked,      \* requests, edits and faults so far
  reused,     \* history: ports handed out that a forgotten program still had
  late,       \* history: an assignment was overwritten, or persisted after it
              \* had gone, or Redis failed to remove one or to load them
  wrong,      \* history: daemons reported as running on another one's port
  excused     \* history: daemons killed, driven after their last stop, or whose
              \* loco the station did not stop at the end

server == <<cache, ports>>
micro == <<dropin, known, want>>
history == <<reused, late, wrong, excused>>
supVars == <<attached, online, server, saved, micro, bus, moving, proc, asked, history>>

PortMap == [Key -> Port \cup {None}]
Off == [pc |-> "off", k |-> None, port |-> None, todo |-> {}, progs |-> [k \in Key |-> None]]
Down == [phase |-> "off", port |-> None]
NoPorts == [k \in Key |-> None]

SupTypeOK ==
  /\ attached \subseteq Key /\ online \subseteq Layout
  /\ cache \in [Layout -> SUBSET Station]
  /\ {ports, saved, dropin, known} \subseteq PortMap
  /\ want \subseteq Key
  /\ \A k \in want : known[k] # None
  /\ \A k \in Key : /\ bus[k].phase \in {"off", "boot", "up", "term", "halted"}
                    /\ bus[k].port \in Port \cup {None}
                    /\ (bus[k].phase = "off") = (bus[k].port = None)
  /\ moving \subseteq Key
  /\ \A p \in Proc :
       /\ proc[p].pc \in {"off", "try", "alloc", "upsert", "known", "dial", "persist",
                          "ports", "replace"}
       /\ proc[p].k \in Key \cup {None} /\ proc[p].port \in Port \cup {None}
       /\ proc[p].todo \subseteq Key /\ proc[p].progs \in PortMap
  /\ asked \in 0 .. MaxCalls
  /\ reused \subseteq Port /\ late \in BOOLEAN /\ wrong \subseteq Key /\ excused \subseteq Key

SupInit ==
  /\ attached = Key /\ online = {}
  /\ cache = [l \in Layout |-> {}]
  /\ ports = NoPorts /\ saved = NoPorts /\ dropin = NoPorts /\ known = NoPorts /\ want = {}
  /\ bus = [k \in Key |-> Down] /\ moving = {}
  /\ proc = [p \in Proc |-> Off]
  /\ asked = 0 /\ reused = {} /\ late = FALSE /\ wrong = {} /\ excused = {}

Call == asked < MaxCalls /\ asked' = asked + 1
At(p, pc) == proc[p].pc = pc
Goto(p, pc) == proc' = [proc EXCEPT ![p].pc = pc]
Served(p) == proc' = [proc EXCEPT ![p] = Off]

\* The socket is open from ListenAndServe until srv.Shutdown, which is after
\* the shutdown of the router.
Listens(k, q) == bus[k].port = q /\ bus[k].phase \in {"up", "term", "halted"}
Dialable(q) == \E k \in Key : Listens(k, q)

-----------------------------------------------------------------------------
(***************************************************************************)
(* Ports.                                                                  *)
(***************************************************************************)

\* A program that is declared, known, still running or about to be declared
\* has the port.
HasPort(k, q) ==
  \/ q \in {dropin[k], known[k], bus[k].port}
  \/ \E p \in Proc : proc[p].progs[k] = q \/ (proc[p].k = k /\ proc[p].port = q)

\* ... and the server does not know.
Forgotten(k, q) == HasPort(k, q) /\ q \notin {ports[k], saved[k]}

\* Mutant: a port is chosen without looking at the ones in use.
AllocateFirst(k, q) ==
  /\ \A r \in Port : q <= r
  /\ ports' = [ports EXCEPT ![k] = q]
  /\ UNCHANGED <<reused, late>>

\* allocatePortLocked: the lowest port of the pool the map does not use.  An
\* assignment that was made meanwhile is overwritten.
AllocatePort(k, q) ==
  LET free == {r \in Port : \A j \in Key : ports[j] # r}
  IN /\ q \in free /\ \A r \in free : q <= r
     /\ ports' = [ports EXCEPT ![k] = q]
     /\ late' = (late \/ ports[k] # None)
     /\ reused' = IF \E j \in Key \ {k} : Forgotten(j, q) THEN reused \cup {q} ELSE reused

PoolExhausted == \A r \in Port : \E j \in Key : ports[j] = r

-----------------------------------------------------------------------------
(***************************************************************************)
(* EnsureRunning.                                                          *)
(***************************************************************************)
checkAttached(k) == k \in attached

EnsureRunning(p, k) ==
  /\ At(p, "off") /\ Call
  /\ checkAttached(k)
  /\ proc' = [proc EXCEPT ![p] = [Off EXCEPT !.k = k, !.port = ports[k],
                                  !.pc = IF ports[k] = None THEN "alloc" ELSE "try"]]
  /\ UNCHANGED <<attached, online, server, saved, micro, bus, moving, history>>

\* A throttle chooses a command station, or dials the proxy
\* (resolveDccBusPort): both need the daemon.
HandleSetCS(p, k) == k[1] \in online /\ EnsureRunning(p, k)
ServeProxy(p, k) == EnsureRunning(p, k)

\* The caller is told that the daemon runs, and dials the port.
Report(p) ==
  wrong' = IF Listens(proc[p].k, proc[p].port) \/ ~Dialable(proc[p].port) THEN wrong
           ELSE wrong \cup {proc[p].k}

\* A port is assigned: dial it; when nobody answers, upsert the program.
TryPort(p) ==
  /\ At(p, "try")
  /\ IF Dialable(proc[p].port) THEN Served(p) /\ Report(p)
     ELSE Goto(p, "upsert") /\ UNCHANGED wrong
  /\ UNCHANGED <<attached, online, server, saved, micro, bus, moving, asked, reused, late,
                 excused>>

Allocate(p) ==
  /\ At(p, "alloc")
  /\ \/ \E q \in Port : /\ AllocatePort(proc[p].k, q)
                        /\ proc' = [proc EXCEPT ![p].pc = "upsert", ![p].port = q]
     \/ PoolExhausted /\ Served(p) /\ UNCHANGED <<ports, reused, late>>
  /\ UNCHANGED <<attached, online, cache, saved, micro, bus, moving, asked, wrong, excused>>

\* UpsertService writes the drop-in.
Upsert(p) ==
  /\ At(p, "upsert")
  /\ dropin' = [dropin EXCEPT ![proc[p].k] = proc[p].port]
  /\ Goto(p, "known")
  /\ UNCHANGED <<attached, online, server, saved, known, want, bus, moving, asked, history>>

\* waitServiceKnown, then StartService; or the two seconds are over.
StartService(p) ==
  LET k == proc[p].k
  IN /\ At(p, "known")
     /\ \/ /\ known[k] # None
           /\ want' = want \cup {k}
           /\ Goto(p, "dial")
           /\ UNCHANGED asked
        \/ known[k] = None /\ Call /\ Served(p) /\ UNCHANGED want
     /\ UNCHANGED <<attached, online, server, saved, dropin, known, bus, moving, history>>

\* waitDialable: the first connection counts, or the budget is spent.
Dial(p) ==
  /\ At(p, "dial")
  /\ \/ Dialable(proc[p].port) /\ Goto(p, "persist") /\ Report(p) /\ UNCHANGED asked
     \/ ~Dialable(proc[p].port) /\ Call /\ Served(p) /\ UNCHANGED wrong
  /\ UNCHANGED <<attached, online, server, saved, micro, bus, moving, reused, late, excused>>

\* persistPort: a failing Redis is only logged.
Persisted(k, q) ==
  \/ saved' = [saved EXCEPT ![k] = q] /\ UNCHANGED asked
  \/ Call /\ UNCHANGED saved

PersistPort(p) ==
  LET k == proc[p].k
  IN /\ At(p, "persist")
     /\ Persisted(k, proc[p].port)
     /\ late' = (late \/ saved'[k] \notin {None, ports[k]})
     /\ Served(p)
     /\ UNCHANGED <<attached, online, server, micro, bus, moving, reused, wrong, excused>>

\* An error of the database or of the drop-in group ends a request where it is.
RequestFails(p) ==
  /\ proc[p].pc \in {"upsert", "ports", "replace"} /\ Call /\ Served(p)
  /\ UNCHANGED <<attached, online, server, saved, micro, bus, moving, history>>

-----------------------------------------------------------------------------
(***************************************************************************)
(* The drop-in group follows the layouts that are in use.                  *)
(***************************************************************************)
\* Without a layout the group is cleared and the ports are left alone.
SyncProgramsForLayouts(p, ls) ==
  proc' = [proc EXCEPT ![p] = [Off EXCEPT !.pc = IF ls = {} THEN "replace" ELSE "ports",
                                          !.todo = Of(ls) \cap attached]]

\* ObserveLayout, on the dashboard's poll: only when the stations changed.
ObserveLayout(p, l) ==
  LET now == {s \in Station : <<l, s>> \in attached}
  IN /\ At(p, "off") /\ Call
     /\ cache[l] # now
     /\ cache' = [cache EXCEPT ![l] = now]
     /\ SyncProgramsForLayouts(p, online \cup {l})
     /\ UNCHANGED <<attached, online, ports, saved, micro, bus, moving, history>>

\* ObserveCommandStationCatalog, after an edit of a command station.
ObserveCatalog(p, s) ==
  /\ At(p, "off") /\ Call
  /\ SyncProgramsForLayouts(p, online \cup {l \in Layout : ports[<<l, s>>] # None})
  /\ UNCHANGED <<attached, online, server, saved, micro, bus, moving, history>>

\* ensurePort for the next program: a port that is assigned, or a new one,
\* which is persisted at once.  Without one the whole sync ends.
EnsurePort(p) ==
  /\ At(p, "ports") /\ proc[p].todo # {}
  /\ LET k == CHOOSE x \in proc[p].todo : TRUE
         Take(q) == proc' = [proc EXCEPT ![p].todo = @ \ {k}, ![p].progs[k] = q]
     IN \/ ports[k] # None /\ Take(ports[k]) /\ UNCHANGED <<ports, saved, reused, late, asked>>
        \/ /\ ports[k] = None
           /\ \/ \E q \in Port : AllocatePort(k, q) /\ Take(q) /\ Persisted(k, q)
              \/ PoolExhausted /\ Served(p) /\ UNCHANGED <<ports, saved, reused, late, asked>>
  /\ UNCHANGED <<attached, online, cache, micro, bus, moving, wrong, excused>>

\* prunePorts: the ports of the programs that go, in memory and, where Redis
\* does not fail, in Redis.
PrunePorts(p) ==
  LET gone == {k \in Key : proc[p].progs[k] = None /\ ports[k] # None}
  IN /\ At(p, "ports") /\ proc[p].todo = {}
     /\ ports' = [k \in Key |-> IF k \in gone THEN None ELSE ports[k]]
     /\ \E stuck \in SUBSET {k \in gone : saved[k] # None} :
          /\ saved' = [k \in Key |-> IF k \in gone \ stuck THEN None ELSE saved[k]]
          /\ late' = (late \/ stuck # {})
          /\ IF stuck = {} THEN UNCHANGED asked ELSE Call
     /\ Goto(p, "replace")
     /\ UNCHANGED <<attached, online, cache, micro, bus, moving, reused, wrong, excused>>

ReplaceServices(p) ==
  /\ At(p, "replace")
  /\ dropin' = proc[p].progs
  /\ Served(p)
  /\ UNCHANGED <<attached, online, server, saved, known, want, bus, moving, asked, history>>

-----------------------------------------------------------------------------
(***************************************************************************)
(* The layouts in use, the administrator, the server's own life.           *)
(***************************************************************************)
HandleOpened(l) ==
  /\ l \notin online /\ Call /\ online' = online \cup {l}
  /\ UNCHANGED <<attached, server, saved, micro, bus, moving, proc, history>>

HandleClosed(l) ==
  /\ l \in online /\ online' = online \ {l}
  /\ UNCHANGED <<attached, server, saved, micro, bus, moving, proc, asked, history>>

\* SetCommandStations of a layout.
Attach(k) ==
  /\ Call /\ attached' \in {attached \cup {k}, attached \ {k}}
  /\ UNCHANGED <<online, server, saved, micro, bus, moving, proc, history>>

\* Start-, Stop- and RestartDccBus of a program the supervisor knows.
ControlDccBus(k) ==
  /\ known[k] # None /\ Call
  /\ want' \in {want \cup {k}, want \ {k}}
  /\ bus' \in {bus, [bus EXCEPT ![k].phase = IF @ = "up" THEN "term" ELSE @]}
  /\ UNCHANGED <<attached, online, server, saved, dropin, known, moving, proc, history>>

\* The server ends, stopping its programs (manager.Stop) or not, and starts:
\* HydratePorts, or, when Redis fails, no ports.
ServerRestart(graceful) ==
  /\ Call
  /\ ports' \in {saved, NoPorts}
  /\ late' = (late \/ ports' # saved)
  /\ cache' = [l \in Layout |-> {}] /\ online' = {}
  /\ want' = IF graceful THEN {} ELSE want
  /\ proc' = [p \in Proc |-> Off]
  /\ UNCHANGED <<attached, saved, dropin, known, bus, moving, reused, wrong, excused>>

-----------------------------------------------------------------------------
(***************************************************************************)
(* The supervisor: it reads the drop-ins a moment after a change, starts   *)
(* what is new, stops what has gone and restarts what has changed or died. *)
(***************************************************************************)
Reload ==
  /\ known # dropin
  /\ known' = dropin
  /\ want' = {k \in Key : dropin[k] # None /\ (k \in want \/ dropin[k] # known[k])}
  /\ UNCHANGED <<attached, online, server, saved, dropin, bus, moving, proc, asked, history>>

Spawn(k) ==
  /\ k \in want /\ bus[k].phase = "off"
  /\ bus' = [bus EXCEPT ![k] = [phase |-> "boot", port |-> known[k]]]
  /\ UNCHANGED <<attached, online, server, saved, micro, moving, proc, asked, history>>

Terminate(k) ==
  /\ bus[k].phase = "up" /\ (k \notin want \/ known[k] # bus[k].port)
  /\ bus' = [bus EXCEPT ![k].phase = "term"]
  /\ UNCHANGED <<attached, online, server, saved, micro, moving, proc, asked, history>>

-----------------------------------------------------------------------------
(***************************************************************************)
(* A daemon.                                                               *)
(***************************************************************************)

\* New: Redis, the snapshots, the station, the router and, where it is enabled
\* and the station takes it, its boot stop; Run: the consumers and
\* ListenAndServe, which fails when another daemon has the port (Close then
\* stops the locos, as Shutdown does).
Boot(k) ==
  LET taken == \E j \in Key \ {k} : Listens(j, bus[k].port)
  IN
  /\ bus[k].phase = "boot"
  /\ bus' = [bus EXCEPT ![k] = IF taken THEN Down ELSE [@ EXCEPT !.phase = "up"]]
  /\ moving' \in {moving, moving \ {k}}
  /\ excused' = IF taken /\ k \in moving' THEN excused \cup {k} ELSE excused \ {k}
  /\ UNCHANGED <<attached, online, server, saved, micro, proc, asked, reused, late, wrong>>

\* Redis or the station is out of reach.
BootFails(k) ==
  /\ bus[k].phase = "boot" /\ Call
  /\ bus' = [bus EXCEPT ![k] = Down]
  /\ UNCHANGED <<attached, online, server, saved, micro, moving, proc, history>>

\* A throttle drives.  Its WebSocket outlives the server's Shutdown.
Drive(k) ==
  /\ bus[k].phase \in {"up", "term", "halted"} /\ k \notin moving
  /\ moving' = moving \cup {k}
  /\ excused' = IF bus[k].phase = "halted" THEN excused \cup {k} ELSE excused
  /\ UNCHANGED <<attached, online, server, saved, micro, bus, proc, asked, reused, late, wrong>>

\* A radio stop, or a throttle that stops.
RadioStop(k) ==
  /\ bus[k].phase = "up" /\ k \in moving
  /\ moving' = moving \ {k}
  /\ UNCHANGED <<attached, online, server, saved, micro, bus, proc, asked, history>>

\* Mutant: the daemon ends without stopping its locos.
HaltQuietly(k) ==
  /\ bus[k].phase = "term"
  /\ bus' = [bus EXCEPT ![k].phase = "halted"]
  /\ UNCHANGED <<attached, online, server, saved, micro, moving, proc, asked, history>>

\* Shutdown of the router, once the gateways have ended: applyEStopAll, which
\* goes on past a station that refuses and past a loco that has left the roster, ...
ShutdownRouter(k) ==
  /\ bus[k].phase = "term"
  /\ bus' = [bus EXCEPT ![k].phase = "halted"]
  /\ \/ moving' = moving \ {k} /\ UNCHANGED excused
     \/ k \in moving /\ excused' = excused \cup {k} /\ UNCHANGED moving
  /\ UNCHANGED <<attached, online, server, saved, micro, proc, asked, reused, late, wrong>>

\* Mutant: a session that is still open keeps the daemon from ending.
ExitHangs(k) ==
  /\ bus[k].phase = "halted" /\ k \notin moving /\ known[k] = None
  /\ bus' = [bus EXCEPT ![k] = Down]
  /\ UNCHANGED <<attached, online, server, saved, micro, moving, proc, asked, history>>

\* ... CleanUp of the station, Close, exit.
Exit(k) ==
  /\ bus[k].phase = "halted"
  /\ bus' = [bus EXCEPT ![k] = Down]
  /\ UNCHANGED <<attached, online, server, saved, micro, moving, proc, asked, history>>

Killed(k) ==
  /\ bus[k].phase \in {"up", "term"} /\ Call
  /\ bus' = [bus EXCEPT ![k] = Down]
  /\ excused' = excused \cup {k}
  /\ UNCHANGED <<attached, online, server, saved, micro, moving, proc, reused, late, wrong>>

-----------------------------------------------------------------------------
Request(p) ==
  \/ TryPort(p) \/ Allocate(p) \/ Upsert(p) \/ StartService(p) \/ Dial(p) \/ PersistPort(p)
  \/ EnsurePort(p) \/ PrunePorts(p) \/ ReplaceServices(p)

Life(k) == Spawn(k) \/ Terminate(k) \/ Boot(k) \/ ShutdownRouter(k) \/ Exit(k)

SupNext ==
  \/ \E p \in Proc : \/ Request(p) \/ RequestFails(p)
                     \/ \E k \in Key : HandleSetCS(p, k) \/ ServeProxy(p, k)
                     \/ \E l \in Layout : ObserveLayout(p, l)
                     \/ \E s \in Station : ObserveCatalog(p, s)
  \/ \E l \in Layout : HandleOpened(l) \/ HandleClosed(l)
  \/ \E k \in Key : \/ Life(k) \/ Attach(k) \/ ControlDccBus(k) \/ BootFails(k)
                    \/ Drive(k) \/ RadioStop(k) \/ Killed(k)
  \/ \E g \in BOOLEAN : ServerRestart(g)
  \/ Reload

SupSpec == SupInit /\ [][SupNext]_supVars

\* Requests go on, the supervisor acts and the daemons run.
FairSpec == /\ SupSpec /\ WF_supVars(Reload)
            /\ \A p \in Proc : WF_supVars(Request(p))
            /\ \A k \in Key : WF_supVars(Life(k))

-----------------------------------------------------------------------------
(***************************************************************************)
(* Properties.                                                             *)
(***************************************************************************)

\* No two daemons are assigned one port, over any sequence of allocations,
\* prunings, detachments, restarts of the server and ports that were not
\* persisted: until a request overwrites the assignment another one has just
\* made (allocatePortLocked does not look) or persists one that is gone
\* (persistPort), or Redis does not remove one (prunePorts ignores the error)
\* or does not load them (HydratePorts: the server goes on without).
PortsDistinct ==
  late \/ \A j, k \in Key : j # k /\ ports[j] # None => ports[j] # ports[k]

\* A throttle that is told its daemon runs does not reach the daemon of
\* another layout, unless the port was still with a program the server had
\* neither in its map nor in Redis, or two requests overtook each other.
RightDaemon == late \/ reused # {} \/ wrong = {}

\* A daemon that was shut down in order leaves its loco standing, also one that
\* it found moving when it booted: the stop of Shutdown is the last word, unless
\* the station refuses it, the loco is no longer on the roster, or a throttle
\* drives after it.
StandsAtExit ==
  \A k \in Key : bus[k].phase = "off" /\ k \notin excused => k \notin moving

\* A program of the group comes up on its port, after crashes, failed binds
\* and reloads, unless it is changed, stopped, or another daemon holds on to
\* its port.
ProgramComesUp ==
  \A k \in Key :
    (dropin[k] # None)
      ~> (\/ bus[k] = [phase |-> "up", port |-> dropin[k]] \/ dropin[k] = None
          \/ k \notin want \/ \E j \in Key \ {k} : HasPort(j, dropin[k]))

\* A port leads to one daemon, the one the throttle asked for (allocatePort,
\* loadPortsFromRedis, EnsureRunning).
PortsSound == SupTypeOK /\ PortsDistinct /\ RightDaemon
=============================================================================
