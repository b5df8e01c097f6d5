------------------------------ MODULE Accounts ------------------------------
(***************************************************************************)
(* Who may do what on the server: accounts and their DCC address pools     *)
(* (cmd/user.go, dcc_pool.go), one-time login tickets (cmd/oauth.go), sudo *)
(* elevation behind the admin PIN (cmd/sudo.go, auth.go,                   *)
(* repo/sudo_elevations_redis.go), and the control-plane hub, which caches *)
(* in every session whether its user is an admin (ws/hub.go, client.go,    *)
(* http/ws.go).                                                            *)
(*                                                                         *)
(* There is one layout.  A user owns no vehicle.  A step is one            *)
(* transaction, one Redis call, one critical section of a mutex, or one    *)
(* message the hub's goroutine takes.                                      *)
(***************************************************************************)
EXTENDS Integers, FiniteSets, FiniteSetsExt

CONSTANTS
  User,
  First,         \* the admins of the initial state; others may be drivers
  Addr,          \* DCC addresses
  Conn,          \* control-plane connections
  Proc,          \* goroutines of requests and timers
  MaxFailures,   \* wrong PINs before the lock
  MaxCalls,      \* bound on requests, connections and faults
  None

AccountsAssumption ==
  /\ First \subseteq User /\ Addr \subseteq Nat /\ IsFiniteSet(Addr)
  /\ MaxFailures \in Nat \ {0} /\ MaxCalls \in Nat
  /\ None \notin User \cup Proc
  /\ IsFiniteSet(Proc) /\ Proc # {}

VARIABLES
  row,        \* the users table: [state, active, admin]
  pool,       \* the address pools
  tickets,    \* users with a login ticket or an authorisation code in Redis
  owed,       \* history: tickets issued and not honoured yet
  elev,       \* users with a sudo elevation in Redis
  entry,      \* Sudo.expiryTimers: the state of the timer in the map
  orphans,    \* armed timers the map no longer has
  early,      \* users whose timer may be due before their elevation ends
  fails,      \* Sudo.failures in the window
  locked,     \* Sudo.locks
  inLock,     \* history: PINs tried since the lock was set
  conn,       \* the connections: [st, user, flag]
  reg, unreg, \* what waits in the hub's two channels
  clients,    \* Hub.clients
  closed,     \* clients whose send channel is closed
  online,     \* Hub.online
  hub,        \* the hub's goroutine: [pc, c]
  proc,       \* the goroutines
  calls,      \* requests, connections and faults so far
  stale,      \* history: users whose sessions may hold an old flag
  swapped,    \* history: a client was unregistered before it was registered
  panicked    \* history: something was sent on a closed channel

db == <<row, pool>>
ticket == <<tickets, owed>>
timers == <<entry, orphans, early>>
pins == <<fails, locked, inLock>>
sudo == <<elev, timers>>
wire == <<conn, reg, unreg>>
registry == <<clients, closed, online, hub>>
blame == <<swapped, panicked>>
vars == <<db, ticket, sudo, pins, wire, registry, proc, calls, stale, blame>>

Row == [state : {"new", "there", "gone"}, active : BOOLEAN, admin : BOOLEAN]
Created(a) == [state |-> "there", active |-> TRUE, admin |-> a]
There(u) == row[u].state = "there"
Idle == [pc |-> "off", u |-> None, row |-> None, pool |-> None, flag |-> FALSE,
         timer |-> FALSE]
Unused == [st |-> "off", user |-> None, flag |-> FALSE]
Listening == [pc |-> "wait", c |-> None]

TypeOK ==
  /\ row \in [User -> Row] /\ pool \in [User -> SUBSET Addr]
  /\ tickets \subseteq User /\ owed \in [User -> -MaxCalls .. MaxCalls]
  /\ elev \subseteq User
  /\ entry \in [User -> {"none", "armed", "fired"}]
  /\ orphans \in [User -> 0 .. MaxCalls] /\ early \subseteq User
  /\ fails \in [User -> 0 .. MaxFailures - 1] /\ locked \subseteq User
  /\ inLock \in [User -> 0 .. MaxCalls]
  /\ conn \in [Conn -> [st : {"off", "serve", "gone"}, user : User \cup {None},
                        flag : BOOLEAN]]
  /\ {reg, unreg, clients, closed} \subseteq SUBSET Conn
  /\ online \subseteq User
  /\ hub.pc \in {"wait", "close", "crashed"} /\ hub.c \in Conn \cup {None}
  /\ \A p \in Proc :
       /\ proc[p].pc \in {"off", "insert", "update", "delete", "pin", "upsert", "arm",
                          "del", "resolve", "set", "drop", "identity"}
       /\ proc[p].u \in User \cup {None} /\ proc[p].row \in Row \cup {None}
       /\ proc[p].pool \in (SUBSET Addr) \cup {None}
       /\ {proc[p].flag, proc[p].timer} \subseteq BOOLEAN
  /\ calls \in 0 .. MaxCalls
  /\ stale \subseteq User /\ {swapped, panicked} \subseteq BOOLEAN

Init ==
  /\ \E driver \in SUBSET (User \ First) :
       row = [u \in User |-> CASE u \in First -> Created(TRUE)
                               [] u \in driver -> Created(FALSE)
                               [] OTHER -> [state |-> "new", active |-> FALSE, admin |-> FALSE]]
  /\ \E at \in [User -> Addr] :
       /\ \A u, v \in User : u # v => at[u] # at[v]
       /\ pool = [u \in User |-> IF There(u) THEN {at[u]} ELSE {}]
  /\ tickets = {} /\ owed = [u \in User |-> 0]
  /\ elev = {} /\ entry = [u \in User |-> "none"] /\ orphans = [u \in User |-> 0]
  /\ early = {}
  /\ fails \in [User -> 0 .. MaxFailures - 1] /\ \A u \in First : fails[u] = 0
  /\ locked = {} /\ inLock = [u \in User |-> 0]
  /\ conn = [c \in Conn |-> Unused]
  /\ reg = {} /\ unreg = {} /\ clients = {} /\ closed = {} /\ online = {}
  /\ hub = Listening
  /\ proc = [p \in Proc |-> Idle]
  /\ calls = 0 /\ stale = {} /\ swapped = FALSE /\ panicked = FALSE

(***************************************************************************)
(* Roles.                                                                  *)
(***************************************************************************)
\* Auth.resolveEffective, as far as the admin role goes.
IsAdmin(u) == There(u) /\ (row[u].admin \/ u \in elev)

\* Auth.Effective and the hub's role resolver: SQLite or Redis may refuse, and
\* the error is read as "no admin".
RoleRead(u, ok) == ok /\ IsAdmin(u)

\* A refusal is counted as a fault, beside the n calls it happens in.
Charge(ok, n) == LET m == calls + n + (IF ok THEN 0 ELSE 1) IN m <= MaxCalls /\ calls' = m

SomeAdmin == \E a \in User : IsAdmin(a)
AnotherAdmin(u) == \E a \in User \ {u} : IsAdmin(a)

SessionsOf(u) == {c \in clients : conn[c].user = u}

\* A read of u's roles that will still be written into a session's flag.
InFlight(p, u) ==
  \/ \E q \in Proc \ {p} : proc[q].u = u /\ proc[q].pc = "set"
  \/ \E c \in Conn : conn[c].user = u /\ c \in reg

\* The sessions will hear of the end of u's elevation.
Watched(u) == u \in elev => u \notin early /\ (entry[u] = "armed" \/ orphans[u] > 0)

Start(p, u, pc) ==
  /\ proc[p].pc = "off" /\ calls < MaxCalls
  /\ calls' = calls + 1
  /\ proc' = [proc EXCEPT ![p].pc = pc, ![p].u = u]

At(p, pc) == proc[p].pc = pc /\ hub.pc # "crashed"
Go(p, pc) == proc' = [proc EXCEPT ![p].pc = pc]
End(p) == proc' = [proc EXCEPT ![p] = Idle]

(***************************************************************************)
(* Accounts and pools.                                                     *)
(***************************************************************************)

\* validatePoolRanges: a pool is not empty and overlaps nobody else's.
ValidPool(u, s) == s # {} /\ \A v \in User \ {u} : pool[v] \cap s = {}

\* allocateFreeDCCAddresses: the lowest free address.
Allocate == LET free == Addr \ UNION {pool[v] : v \in User}
            IN  IF free = {} THEN {} ELSE {Min(free)}

\* User.Create up to its transaction.
Create(p, u) ==
  /\ row[u].state = "new" /\ SomeAdmin
  /\ \E s \in (SUBSET Addr) \cup {Allocate} :
       /\ ValidPool(u, s)
       /\ proc[p].pc = "off" /\ calls < MaxCalls
       /\ calls' = calls + 1
       /\ proc' = [proc EXCEPT ![p].pc = "insert", ![p].u = u, ![p].pool = s]
  /\ UNCHANGED <<db, ticket, sudo, pins, wire, registry, stale, blame>>

\* Mutant: the pool is written as it was validated before the transaction.
ReplaceValidated(u, s) == pool' = [pool EXCEPT ![u] = s]

\* DCCPool.Replace, inside the caller's transaction.
Replace(u, s) == ValidPool(u, s) /\ pool' = [pool EXCEPT ![u] = s]

\* User.Create's transaction; the login is unique.
Insert(p) ==
  LET u == proc[p].u IN
  /\ At(p, "insert")
  /\ \/ /\ row[u].state = "new"
        /\ Replace(u, proc[p].pool)
        /\ row' = [row EXCEPT ![u] = Created(FALSE)]
     \/ (row[u].state # "new" \/ ~ValidPool(u, proc[p].pool)) /\ UNCHANGED db
  /\ End(p)
  /\ UNCHANGED <<ticket, sudo, pins, wire, registry, calls, stale, blame>>

\* User.Update, User.SetActive, Auth.ChangePIN and Auth.UpdateProfile read the
\* row they will write back whole.
ReadRow(p, u, r, s) ==
  /\ There(u) /\ proc[p].pc = "off" /\ calls < MaxCalls
  /\ calls' = calls + 1
  /\ proc' = [proc EXCEPT ![p].pc = "update", ![p].u = u, ![p].row = r, ![p].pool = s]
  /\ UNCHANGED <<db, ticket, sudo, pins, wire, registry, stale, blame>>

UpdateUser(p, u) ==
  /\ SomeAdmin
  /\ \/ \E s \in (SUBSET Addr) \ {{}} : ReadRow(p, u, row[u], s)
     \/ \E r \in BOOLEAN : ReadRow(p, u, [row[u] EXCEPT !.admin = r], None)

SetActive(p, u) ==
  \E b \in BOOLEAN : /\ IF b THEN SomeAdmin ELSE AnotherAdmin(u)
                     /\ row[u].active # b
                     /\ ReadRow(p, u, [row[u] EXCEPT !.active = b], None)

UpdateProfile(p, u) == ReadRow(p, u, row[u], None)

\* The write of a whole row, with the pool in one transaction.  A role changed
\* here reaches no open session.
UpdateRow(p) ==
  LET u == proc[p].u IN
  /\ At(p, "update")
  /\ \/ /\ There(u)
        /\ IF proc[p].pool = None THEN UNCHANGED pool ELSE Replace(u, proc[p].pool)
        /\ row' = [row EXCEPT ![u] = proc[p].row]
        /\ stale' = IF row[u].admin # proc[p].row.admin THEN stale \cup {u} ELSE stale
     \/ /\ ~There(u) \/ (proc[p].pool # None /\ ~ValidPool(u, proc[p].pool))
        /\ UNCHANGED <<db, stale>>
  /\ End(p)
  /\ UNCHANGED <<ticket, sudo, pins, wire, registry, calls, blame>>

DeleteUser(p, u) ==
  /\ There(u) /\ AnotherAdmin(u)
  /\ Start(p, u, "delete")
  /\ UNCHANGED <<db, ticket, sudo, pins, wire, registry, stale, blame>>

\* User.Delete's transaction.
RemoveRow(p) ==
  LET u == proc[p].u IN
  /\ At(p, "delete")
  /\ row' = [row EXCEPT ![u].state = "gone"]
  /\ pool' = [pool EXCEPT ![u] = {}]
  /\ stale' = stale \cup {u}
  /\ End(p)
  /\ UNCHANGED <<ticket, sudo, pins, wire, registry, calls, blame>>

(***************************************************************************)
(* Tickets and codes, good for one login.                                  *)
(***************************************************************************)

\* OAuth.IssueLoginTicket and IssueCode.
IssueTicket(u) ==
  /\ There(u) /\ u \notin tickets /\ calls < MaxCalls
  /\ tickets' = tickets \cup {u}
  /\ owed' = [owed EXCEPT ![u] = @ + 1]
  /\ calls' = calls + 1
  /\ UNCHANGED <<db, sudo, pins, wire, registry, proc, stale, blame>>

\* Mutant: the ticket is read, and deleted only when it has been honoured.
GetThenDel(u) == UNCHANGED tickets

\* GETDEL.
GetDel(u) == tickets' = tickets \ {u}

\* ConsumeLoginTicket and ExchangeCode up to identityFor.
ConsumeTicket(p, u) ==
  /\ u \in tickets /\ GetDel(u)
  /\ Start(p, u, "identity")
  /\ UNCHANGED <<db, owed, sudo, pins, wire, registry, stale, blame>>

\* identityFor: a deactivated user gets no token.
IdentityFor(p) ==
  LET u == proc[p].u IN
  /\ At(p, "identity")
  /\ owed' = IF There(u) /\ row[u].active THEN [owed EXCEPT ![u] = @ - 1] ELSE owed
  /\ End(p)
  /\ UNCHANGED <<db, tickets, sudo, pins, wire, registry, calls, stale, blame>>

TicketExpires(u) ==
  /\ u \in tickets
  /\ tickets' = tickets \ {u}
  /\ UNCHANGED <<db, owed, sudo, pins, wire, registry, proc, calls, stale, blame>>

(***************************************************************************)
(* Sudo.                                                                   *)
(***************************************************************************)

\* Sudo.checkPIN: a locked user is turned away.
lockedUntil(u) == u \notin locked

\* Sudo.Sudo: checkPIN reads the lock and then, unlocked, verifies the PIN.
Sudo(p, u) ==
  /\ There(u) /\ lockedUntil(u)
  /\ Start(p, u, "pin")
  /\ UNCHANGED <<db, ticket, sudo, pins, wire, registry, stale, blame>>

recordFailure(u) ==
  IF fails[u] + 1 >= MaxFailures
  THEN fails' = [fails EXCEPT ![u] = 0] /\ locked' = locked \cup {u}
  ELSE fails' = [fails EXCEPT ![u] = @ + 1] /\ UNCHANGED locked

WrongPIN(p) ==
  LET u == proc[p].u IN
  /\ At(p, "pin")
  /\ recordFailure(u)
  /\ inLock' = IF u \in locked THEN [inLock EXCEPT ![u] = @ + 1] ELSE inLock
  /\ End(p)
  /\ UNCHANGED <<db, ticket, sudo, wire, registry, calls, stale, blame>>

clearFailures(u) ==
  /\ fails' = [fails EXCEPT ![u] = 0]
  /\ locked' = locked \ {u}
  /\ inLock' = [inLock EXCEPT ![u] = 0]

RightPIN(p) ==
  /\ At(p, "pin")
  /\ clearFailures(proc[p].u)
  /\ Go(p, "upsert")
  /\ UNCHANGED <<db, ticket, sudo, wire, registry, calls, stale, blame>>

\* The lock runs out, or the failures leave the window.
LockEnds(u) ==
  /\ u \in locked \/ fails[u] > 0
  /\ IF u \in locked
     THEN /\ locked' = locked \ {u} /\ inLock' = [inLock EXCEPT ![u] = 0]
          /\ UNCHANGED fails
     ELSE fails' = [fails EXCEPT ![u] = @ - 1] /\ UNCHANGED <<locked, inLock>>
  /\ UNCHANGED <<db, ticket, sudo, wire, registry, proc, calls, stale, blame>>

\* RedisSudoElevations.Upsert.  Of two elevations that are stored before either
\* has its timer, the timer of the shorter one may be the one that stays.
Upsert(p) ==
  LET u == proc[p].u
      crossed == \E q \in Proc \ {p} : proc[q].u = u /\ proc[q].pc = "arm" IN
  /\ At(p, "upsert")
  /\ elev' = elev \cup {u}
  /\ early' = IF crossed THEN early \cup {u} ELSE early \ {u}
  /\ stale' = IF crossed \/ InFlight(p, u) THEN stale \cup {u} ELSE stale
  /\ Go(p, "arm")
  /\ UNCHANGED <<db, ticket, entry, orphans, pins, wire, registry, calls, blame>>

UpsertFails(p) ==
  /\ At(p, "upsert") /\ calls < MaxCalls
  /\ calls' = calls + 1
  /\ End(p)
  /\ UNCHANGED <<db, ticket, sudo, pins, wire, registry, stale, blame>>

\* scheduleExpiryBroadcast: the timer in the map is stopped, unless it has
\* fired, and replaced.
scheduleExpiryBroadcast(p) ==
  /\ At(p, "arm")
  /\ entry' = [entry EXCEPT ![proc[p].u] = "armed"]
  /\ Go(p, "resolve")
  /\ UNCHANGED <<db, ticket, elev, orphans, early, pins, wire, registry, calls, stale, blame>>

\* Sudo.Revoke: first the timer, ...
Revoke(p, u) ==
  /\ Start(p, u, "del")
  /\ entry' = [entry EXCEPT ![u] = "none"]
  /\ UNCHANGED <<db, ticket, elev, orphans, early, pins, wire, registry, stale, blame>>

\* ... then the elevation, then the sessions.
RevokeElevation(p) ==
  LET u == proc[p].u IN
  /\ At(p, "del")
  /\ elev' = elev \ {u}
  /\ stale' = IF InFlight(p, u) THEN stale \cup {u} ELSE stale
  /\ Go(p, "resolve")
  /\ UNCHANGED <<db, ticket, timers, pins, wire, registry, calls, blame>>

\* The elevation stays and nobody will tell the sessions when it ends.
RevokeFails(p) ==
  LET u == proc[p].u IN
  /\ At(p, "del") /\ calls < MaxCalls
  /\ calls' = calls + 1
  /\ stale' = stale \cup {u}
  /\ End(p)
  /\ UNCHANGED <<db, ticket, sudo, pins, wire, registry, blame>>

\* The elevation's time is over: FindActive finds it no more.
ElevationEnds(u) ==
  /\ u \in elev
  /\ elev' = elev \ {u}
  /\ stale' = IF InFlight(None, u) THEN stale \cup {u} ELSE stale
  /\ UNCHANGED <<db, ticket, timers, pins, wire, registry, proc, calls, blame>>

\* A timer fires when its elevation is over; one whose elevation was renewed may
\* fire earlier, when the new one is not armed yet or the map has lost it.
Fire(p, u) ==
  LET renewing == \E q \in Proc : proc[q].u = u /\ proc[q].pc = "arm" IN
  /\ proc[p].pc = "off" /\ hub.pc # "crashed"
  /\ \/ /\ entry[u] = "armed"
        /\ u \notin elev \/ renewing \/ u \in early
        /\ entry' = [entry EXCEPT ![u] = "fired"]
        /\ UNCHANGED orphans
     \/ /\ orphans[u] > 0
        /\ u \notin elev \/ renewing \/ u \in early \/ entry[u] = "armed" \/ orphans[u] > 1
        /\ orphans' = [orphans EXCEPT ![u] = @ - 1]
        /\ UNCHANGED entry
  /\ proc' = [proc EXCEPT ![p].pc = "resolve", ![p].u = u, ![p].timer = TRUE]
  /\ UNCHANGED <<db, ticket, elev, early, pins, wire, registry, calls, stale, blame>>

\* Hub.BroadcastElevationChanged: the event goes out to the user's sessions and
\* the role is looked up; one that cannot be read counts as no admin.  A send on a
\* closed channel panics: in a timer it ends the server, in a request only the
\* request.
BroadcastElevationChanged(p) ==
  LET u == proc[p].u
      dead == SessionsOf(u) \cap closed # {} IN
  /\ At(p, "resolve")
  /\ panicked' = (panicked \/ dead)
  /\ \E ok \in BOOLEAN :
       /\ Charge(ok, 0)
       /\ IF dead THEN End(p)
          ELSE proc' = [proc EXCEPT ![p].pc = "set", ![p].flag = RoleRead(u, ok)]
       /\ stale' = IF dead \/ RoleRead(u, ok) # IsAdmin(u) THEN stale \cup {u} ELSE stale
  /\ hub' = IF dead /\ proc[p].timer THEN [pc |-> "crashed", c |-> None] ELSE hub
  /\ UNCHANGED <<db, ticket, sudo, pins, wire, clients, closed, online, swapped>>

\* Mutant: the sessions keep the flag they started with.
RefreshNothing(p) ==
  /\ At(p, "set")
  /\ IF proc[p].timer THEN Go(p, "drop") ELSE End(p)
  /\ UNCHANGED <<db, ticket, sudo, pins, wire, registry, calls, stale, blame>>

\* Hub.refreshEffectiveAdmin.
refreshEffectiveAdmin(p) ==
  LET u == proc[p].u IN
  /\ At(p, "set")
  /\ conn' = [c \in Conn |-> IF c \in SessionsOf(u) THEN [conn[c] EXCEPT !.flag = proc[p].flag]
                                                    ELSE conn[c]]
  /\ stale' = IF ~InFlight(p, u) /\ proc[p].flag = IsAdmin(u) /\ Watched(u)
              THEN stale \ {u} ELSE stale
  /\ IF proc[p].timer THEN Go(p, "drop") ELSE End(p)
  /\ UNCHANGED <<db, ticket, sudo, pins, reg, unreg, registry, calls, blame>>

\* The end of a fired timer: it drops the map's entry, whichever timer that is.
DropEntry(p) ==
  LET u == proc[p].u IN
  /\ At(p, "drop")
  /\ orphans' = IF entry[u] = "armed" THEN [orphans EXCEPT ![u] = @ + 1] ELSE orphans
  /\ entry' = [entry EXCEPT ![u] = "none"]
  /\ End(p)
  /\ UNCHANGED <<db, ticket, elev, early, pins, wire, registry, calls, stale, blame>>

(***************************************************************************)
(* The hub.                                                                *)
(***************************************************************************)

\* ServeWS: the token is verified (whether the account is active is not asked),
\* the session starts with the role the user has now, and waits to be registered.
\* A role that cannot be read leaves the session without it.
ServeWS(c, u) ==
  /\ conn[c].st = "off" /\ There(u) /\ hub.pc # "crashed"
  /\ \E ok \in BOOLEAN :
       /\ Charge(ok, 1)
       /\ conn' = [conn EXCEPT ![c] = [st |-> "serve", user |-> u, flag |-> RoleRead(u, ok)]]
       /\ stale' = IF RoleRead(u, ok) # IsAdmin(u) THEN stale \cup {u}
                   ELSE IF SessionsOf(u) = {} /\ ~InFlight(None, u) /\ Watched(u)
                        THEN stale \ {u} ELSE stale
  /\ reg' = reg \cup {c}
  /\ UNCHANGED <<db, ticket, sudo, pins, unreg, registry, proc, blame>>

\* readLoop returns: the peer went away, or writeLoop gave up.
ReadEnds(c) ==
  /\ conn[c].st = "serve" /\ hub.pc # "crashed"
  /\ conn' = [conn EXCEPT ![c].st = "gone"]
  /\ unreg' = unreg \cup {c}
  /\ UNCHANGED <<db, ticket, sudo, pins, reg, registry, proc, calls, stale, blame>>

\* Presence.RefreshAndBroadcast, on the hub's goroutine, to every client.
RefreshAndBroadcast ==
  LET dead == clients' \cap closed' # {} IN
  /\ panicked' = (panicked \/ dead)
  /\ hub' = IF dead THEN [pc |-> "crashed", c |-> None] ELSE Listening

addClient(c) ==
  /\ hub.pc = "wait" /\ c \in reg
  /\ reg' = reg \ {c}
  /\ clients' = clients \cup {c}
  /\ online' = online \cup {conn[c].user}
  /\ UNCHANGED <<db, ticket, sudo, pins, conn, unreg, closed, proc, calls, stale, swapped>>
  /\ RefreshAndBroadcast

StillOnline(c) == \E d \in clients \ {c} : conn[d].user = conn[c].user

\* Mutant: the client stays registered.
removeKept(c) ==
  /\ hub.pc = "wait" /\ c \in unreg
  /\ unreg' = unreg \ {c}
  /\ online' = IF StillOnline(c) THEN online ELSE online \ {conn[c].user}
  /\ swapped' = (swapped \/ c \in reg)
  /\ hub' = [pc |-> "close", c |-> c]
  /\ UNCHANGED <<db, ticket, sudo, pins, conn, reg, clients, closed, proc, calls, stale,
                 panicked>>

\* removeClient under the lock.  Run's select takes from either channel: a
\* client may be unregistered while it still waits to be registered.
removeClient(c) ==
  /\ hub.pc = "wait" /\ c \in unreg
  /\ unreg' = unreg \ {c}
  /\ clients' = clients \ {c}
  /\ online' = IF StillOnline(c) THEN online ELSE online \ {conn[c].user}
  /\ swapped' = (swapped \/ c \in reg)
  /\ hub' = [pc |-> "close", c |-> c]
  /\ UNCHANGED <<db, ticket, sudo, pins, conn, reg, closed, proc, calls, stale, panicked>>

\* removeClient after it.  The name of a client nothing refers to is free.
CloseSend ==
  /\ hub.pc = "close"
  /\ IF hub.c \in reg \cup clients
     THEN closed' = closed \cup {hub.c} /\ UNCHANGED conn
     ELSE conn' = [conn EXCEPT ![hub.c] = Unused] /\ UNCHANGED closed
  /\ UNCHANGED <<db, ticket, sudo, pins, reg, unreg, clients, online, proc, calls, stale,
                 swapped>>
  /\ RefreshAndBroadcast

\* The server is started again: what it held in memory is gone.
Restart ==
  /\ hub.pc = "crashed" \/ calls < MaxCalls
  /\ calls' = IF hub.pc = "crashed" THEN calls ELSE calls + 1
  /\ entry' = [u \in User |-> "none"] /\ orphans' = [u \in User |-> 0]
  /\ early' = {}
  /\ fails' = [u \in User |-> 0] /\ locked' = {} /\ inLock' = [u \in User |-> 0]
  /\ conn' = [c \in Conn |-> Unused]
  /\ reg' = {} /\ unreg' = {} /\ clients' = {} /\ closed' = {} /\ online' = {}
  /\ hub' = Listening
  /\ proc' = [p \in Proc |-> Idle]
  /\ stale' = elev /\ swapped' = FALSE /\ panicked' = FALSE
  /\ UNCHANGED <<db, ticket, elev>>

HubStep == \/ \E c \in Conn : addClient(c) \/ removeClient(c)
           \/ CloseSend

\* The HTTP handlers, area by area.
UserRequest(p, u) == Create(p, u) \/ UpdateUser(p, u) \/ SetActive(p, u) \/ DeleteUser(p, u)
AuthRequest(p, u) == UpdateProfile(p, u)
OAuthRequest(p, u) == ConsumeTicket(p, u)
SudoRequest(p, u) == Sudo(p, u) \/ Revoke(p, u)

Request(p, u) ==
  UserRequest(p, u) \/ AuthRequest(p, u) \/ OAuthRequest(p, u) \/ SudoRequest(p, u)

ProcStep(p) ==
  \/ Insert(p) \/ UpdateRow(p) \/ RemoveRow(p) \/ IdentityFor(p)
  \/ WrongPIN(p) \/ RightPIN(p) \/ Upsert(p) \/ UpsertFails(p) \/ scheduleExpiryBroadcast(p)
  \/ RevokeElevation(p) \/ RevokeFails(p)
  \/ BroadcastElevationChanged(p) \/ refreshEffectiveAdmin(p) \/ DropEntry(p)

Next ==
  \/ HubStep \/ Restart
  \/ \E c \in Conn : ReadEnds(c) \/ \E u \in User : ServeWS(c, u)
  \/ \E p \in Proc : ProcStep(p) \/ \E u \in User : Request(p, u) \/ Fire(p, u)
  \/ \E u \in User : IssueTicket(u) \/ TicketExpires(u) \/ LockEnds(u) \/ ElevationEnds(u)

Spec == Init /\ [][Next]_vars

(***************************************************************************)
(* Properties.                                                             *)
(***************************************************************************)

\* No two users have an address in common (user.go:215, dcc_pool.go:49):
\* whatever pools are given or allocated at once, the transaction checks again.
PoolsDisjoint == \A u, v \in User : u # v => pool[u] \cap pool[v] = {}

\* A ticket or code logs in at most once, however many redeem it (oauth.go:182).
TicketOnce == \A u \in User : owed[u] >= 0

\* Once the lock is set, only the attempts that were past it are made
\* (sudo.go:268): one for every other goroutine.
LockHolds == \A u \in User : inLock[u] <= Cardinality(Proc) - 1

Quiet(u) == /\ \A p \in Proc : proc[p].u # u
            /\ ~(u \notin elev /\ (entry[u] = "armed" \/ orphans[u] > 0))

\* Admin-only broadcasts go to admins (hub.go:381, :420): when no change of a
\* user's elevation is under way, his sessions know his role, unless his account
\* was edited, a read of the role failed or overtook a change, Redis failed while
\* he was revoked, or the server restarted while he was elevated.
FlagFollows ==
  \A c \in clients : LET u == conn[c].user IN
    Quiet(u) /\ u \notin stale => conn[c].flag = IsAdmin(u)

\* The users shown on line are those with a connection (hub.go:136), once the
\* hub has caught up and unless a client left before it was registered.
PresenceFollows ==
  hub.pc = "wait" /\ reg = {} /\ unreg = {} /\ ~swapped =>
    online = {conn[c].user : c \in {d \in Conn : conn[d].st = "serve"}}

\* No broadcast meets a closed channel (hub.go:161), unless a client left before
\* it was registered.
NoClosedSend == panicked => swapped

\* A sign-in is used once and a locked account stays locked (oauth.go, sudo.go).
LoginsSound == TypeOK /\ TicketOnce /\ LockHolds

\* The hub shows who is there and sends to nobody who is not (hub.go Run).
HubSound == PresenceFollows /\ NoClosedSend
=============================================================================
