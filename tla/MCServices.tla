----------------------------- MODULE MCServices -----------------------------
(***************************************************************************)
(* Services with two more that share nothing with them: the handsets'      *)
(* gateways of a daemon (Throttles) and the server's database through      *)
(* several releases (M).  The variables of those the initial state does    *)
(* not pick never change: they are Nil, and the gateways have no client.   *)
(* The connections' model values serve as throttle ids and boxes, and the  *)
(* goroutines' as locos, so that one symmetry set serves all.              *)
(***************************************************************************)
EXTENDS Services, Throttles, TLC

VARIABLES mDb, mRecorded, mRelease, mPc, mWrites, mStuck

schema == <<mDb, mRecorded, mRelease, mPc, mWrites, mStuck>>

\* Users of WiThrottle clients drive with a speed limit.
Limited == [p \in Worker |-> [a \in Addr |-> IF p \in W THEN 10 ELSE 128]]

\* The last versions of the releases a database may have been through.
Installed == {604002, 617017, 621001, 707001, 905001}

M == INSTANCE Migrations
  WITH Release <- Installed, MaxWrites <- 2,
       db <- mDb, recorded <- mRecorded, release <- mRelease, pc <- mPc,
       writes <- mWrites, stuck <- mStuck

Symmetry == Permutations(Agent) \cup Permutations(Conn)

NoGateways ==
  /\ inbound = [c \in Remote |-> None] /\ subs = [a \in Addr |-> {}] /\ flag = {}
  /\ wire = [c \in W |-> FreshWire] /\ shown = [c \in Z |-> [a \in Addr |-> None]]
  /\ state = [a \in Addr |-> [speed |-> 0, fwd |-> TRUE]]
  /\ job = [p \in Worker |-> Idle]
  /\ radio = FALSE /\ unheard = {} /\ inputs = 0

NoSchema ==
  /\ mDb = Nil /\ mRecorded = Nil /\ mRelease = Nil /\ mPc = Nil
  /\ mWrites = Nil /\ mStuck = Nil

MCInit ==
  \/ ServicesInit /\ NoGateways /\ NoSchema
  \/ part = "throttles" /\ ThrottlesInit /\ NoAccounts /\ NoBoxes /\ NoSchema
  \/ part = "schema" /\ M!Init /\ NoAccounts /\ NoBoxes /\ NoGateways

InServer == UNCHANGED <<throttleVars, schema>>
Driving == part = "throttles" /\ UNCHANGED <<part, accounts, boxes, schema>>
Upgrading == part = "schema" /\ UNCHANGED <<part, accounts, boxes, throttleVars>>

HubSteps == InServer /\ Accounting /\ (Acc!HubStep \/ Acc!Restart)
Connections ==
  InServer /\ Accounting /\ \E c \in Conn : Acc!ReadEnds(c) \/ \E u \in Person : Acc!ServeWS(c, u)
Requests ==
  InServer /\ Accounting /\ \E p \in Agent, u \in Person : Acc!Request(p, u) \/ Acc!Fire(p, u)
Handlers == InServer /\ Accounting /\ \E p \in Agent : Acc!ProcStep(p)
Clocks ==
  /\ InServer /\ Accounting
  /\ \E u \in Person :
       Acc!IssueTicket(u) \/ Acc!TicketExpires(u) \/ Acc!LockEnds(u) \/ Acc!ElevationEnds(u)

Commands == Driving /\ \E p \in Worker : Command(p)
FromWiThrottle == Driving /\ \E c \in W : WiThrottle(c)
FromZ21 == Driving /\ \E c \in Z : Z21(c)
Presence ==
  /\ Driving
  /\ \E c \in Remote : Leave(c) \/ \E s \in Scopes \cup {None} : syncPairedByKey(c, s)
Browser ==
  /\ Driving
  /\ \/ WebDone \/ RadioStop
     \/ \E a \in Addr : EmergencyStop(a) \/ WebSetSpeed(a, 28, FALSE)

Administration ==
  /\ InServer /\ Signalling
  /\ \/ B!UpdateRadioChatEnabled \/ B!Restart
     \/ \E b \in Conn : B!SetInterlockings(Conn \ {b})
     \/ \E u \in Person : B!SetSignalman(u)
Occupancy == InServer /\ Signalling /\ \E p \in Agent : B!Occupancy(p)
Calling ==
  /\ InServer /\ Signalling
  /\ \E p \in Agent, u \in Person :
       \/ \E v \in Person \ {u} : B!Send(p, u, v, Nil)
       \/ \E b \in Conn : B!Send(p, u, Nil, b)
Talking == InServer /\ Signalling /\ \E p \in Agent : B!Delivering(p)
Stopping == InServer /\ Signalling /\ (B!DebounceEnds \/ \E p \in Agent : B!Stopping(p))

Upgrades ==
  /\ Upgrading
  /\ \/ M!Remap \/ M!Migrate \/ M!Ready \/ M!Crash
     \/ \E r \in Installed : M!Boot(r)
Users == Upgrading /\ (M!AddVehicle \/ M!AddTrain \/ M!Lend)

MCNext ==
  \/ HubSteps \/ Connections \/ Requests \/ Handlers \/ Clocks
  \/ Commands \/ FromWiThrottle \/ FromZ21 \/ Presence \/ Browser
  \/ Administration \/ Occupancy \/ Calling \/ Talking \/ Stopping
  \/ Upgrades \/ Users

MCSpec == MCInit /\ [][MCNext]_<<part, accounts, boxes, throttleVars, schema>>

\* Whatever release a database comes from, and wherever an upgrade stopped, the
\* next boot ends with a schema the repositories can use (migrations.go).
MigrationsSound == part = "schema" => M!MigrationsSound
=============================================================================
