------------------------------ MODULE Handsets ------------------------------
(***************************************************************************)
(* Handsets: the pairing store in Redis (remotepairing/store.go) with the  *)
(* server's handlers, and in the daemon the inbound registry, the Z21 and  *)
(* WiThrottle servers and the coordinator (remotes/coordinator.go).        *)
(*                                                                         *)
(* A step is one command or script of Redis, or one call under the lock of *)
(* the registry.  The packets of one handset are handled one after the     *)
(* other.  A handset drives one loco; that its speed is sent and its slot  *)
(* leased are one step here (SlotLeaser has the details).                  *)
(***************************************************************************)
EXTENDS Remotes, Integers, FiniteSets

CONSTANTS
  Client,         \* handsets
  Tcp,            \* the WiThrottle ones; the others speak Z21
  User, Code,
  Rest            \* goroutines of the server

ASSUME HandsetsAssumption ==
  /\ Tcp \subseteq Client /\ MaxCalls \in Nat
  /\ None \notin Client \cup User \cup Code /\ User \cap Code = {}
  /\ None \notin [session : User \cup {None}, braked : BOOLEAN]
  /\ "sweep" \notin Client \cup Rest /\ Client \cap Rest = {}

Proc == Client \cup Rest \cup {"sweep"}

VARIABLES
  pend,       \* pending requests: the user of every code
  byReq,      \* the pending code of every user
  dedup,      \* codes taken
  act,        \* active sessions: the user of every handset, or None
  byUser,     \* the handset of every user
  chan,       \* session-sync messages on their way: [c, unpair]
  reg,        \* ClientRegistry: [session, braked] or None
  gone,       \* handsets switched off for good
  moving,     \* handsets whose loco moves
  proc,       \* the goroutines
  calls,      \* requests, expiries, failures of Redis and lost handsets so far
  raced,      \* history: users whose index entry was deleted under a session,
              \* and codes whose reservation ran out under their request
  late        \* history: handsets driven between brake and latch, or by a
              \* packet overtaken by their own eviction; handsets whose stop
              \* the station refused, or whose loco ran on through a restart

redis == <<pend, byReq, dedup, act, byUser>>
daemon == <<reg, gone, moving>>
vars == <<redis, chan, daemon, proc, calls, raced, late>>

Off == [pc |-> "off", op |-> None, u |-> None, c |-> None, k |-> None, got |-> None]
Fresh == [session |-> None, braked |-> FALSE]

TypeOK ==
  /\ pend \in [Code -> User \cup {None}] /\ byReq \in [User -> Code \cup {None}]
  /\ dedup \subseteq Code
  /\ act \in [Client -> User \cup {None}] /\ byUser \in [User -> Client \cup {None}]
  /\ chan \subseteq [c : Client, unpair : BOOLEAN]
  /\ reg \in [Client -> [session : User \cup {None}, braked : BOOLEAN] \cup {None}]
  /\ gone \subseteq Client /\ moving \subseteq Client
  /\ \A p \in Proc :
       /\ proc[p].pc \in {"off", "resolve", "unlist", "clear", "drop", "add", "store", "user",
                          "script", "publish", "scope", "set",
                          "complete", "pair", "drive", "brake", "latch", "remove"}
       /\ proc[p].u \in User \cup {None} /\ proc[p].c \in Client \cup {None}
       /\ proc[p].k \in Code \cup {None} /\ proc[p].got \in User \cup {None}
  /\ calls \in 0 .. MaxCalls
  /\ raced \subseteq User \cup Code /\ late \subseteq Client

\* The daemon starts; a pairing or a request may be left from before.
Init ==
  /\ \E c \in Client, k \in Code, u, v \in User \cup {None} :
       /\ None \in {u, v}
       /\ act = [d \in Client |-> IF d = c THEN u ELSE None]
       /\ byUser = [w \in User |-> IF w = u THEN c ELSE None]
       /\ pend = [l \in Code |-> IF l = k THEN v ELSE None]
       /\ byReq = [w \in User |-> IF w = v THEN k ELSE None]
       /\ dedup = IF v = None THEN {} ELSE {k}
  /\ chan = {} /\ reg = [c \in Client |-> None] /\ gone = {} /\ moving = {}
  /\ proc = [p \in Proc |-> Off]
  /\ calls = 0 /\ raced = {} /\ late = {}

Call == calls < MaxCalls /\ calls' = calls + 1
At(p, pc) == proc[p].pc = pc
Goto(p, pc) == proc' = [proc EXCEPT ![p].pc = pc]
End(p) == proc' = [proc EXCEPT ![p] = Off]

-----------------------------------------------------------------------------
(***************************************************************************)
(* The server: requests of a user.                                         *)
(***************************************************************************)

\* StartPairing, GetStatus, UpdateSession and Unpair first look for the
\* handset of the user (rejectIfUserPaired, ListActiveByUser); CancelPairing
\* does not.
Request(p, u, op) ==
  /\ At(p, "off") /\ Call
  /\ proc' = [proc EXCEPT ![p] =
       [Off EXCEPT !.op = op, !.u = u, !.c = byUser[u],
                   !.pc = IF op # "cancel" /\ byUser[u] # None THEN "resolve"
                          ELSE IF op \in {"cancel", "create"} THEN "clear" ELSE "off"]]
  /\ UNCHANGED <<redis, chan, daemon, raced, late>>

StartPairing(p, u) == Request(p, u, "create")
CancelPairing(p, u) == Request(p, u, "cancel")
GetStatus(p, u) == Request(p, u, "status")
UpdateSession(p, u) == Request(p, u, "scope")
Unpair(p, u) == Request(p, u, "unpair")

\* The session of that handset, ...
Resolve(p) ==
  LET g == proc[p]
      mine == act[g.c] = g.u
  IN /\ At(p, "resolve")
     /\ CASE act[g.c] = None -> Goto(p, "unlist")
          [] g.op = "scope" /\ mine -> Goto(p, "scope")
          [] g.op = "unpair" /\ mine -> Goto(p, "user")
          [] OTHER -> End(p)
     /\ UNCHANGED <<redis, chan, daemon, calls, raced, late>>

\* ... and an index entry without one is deleted, although by now it may name
\* a session that has come since.
Unlist(p) ==
  LET u == proc[p].u
  IN /\ At(p, "unlist")
     /\ byUser' = [byUser EXCEPT ![u] = None]
     /\ raced' = IF \E c \in Client : byUser[u] = c /\ act[c] = u THEN raced \cup {u} ELSE raced
     /\ IF proc[p].op = "create" THEN Goto(p, "clear") ELSE End(p)
     /\ UNCHANGED <<pend, byReq, dedup, act, chan, daemon, calls, late>>

\* clearUserPending: the pending request is read, then deleted.
GetPendingByUser(p) ==
  LET k == byReq[proc[p].u]
      found == k # None /\ pend[k] # None
  IN /\ At(p, "clear")
     /\ byReq' = IF k # None /\ ~found THEN [byReq EXCEPT ![proc[p].u] = None] ELSE byReq
     /\ CASE found -> proc' = [proc EXCEPT ![p].pc = "drop", ![p].k = k]
          [] ~found /\ proc[p].op = "create" -> Goto(p, "add")
          [] OTHER -> End(p)
     /\ UNCHANGED <<pend, dedup, act, byUser, chan, daemon, calls, raced, late>>

ClearUserPending(p) ==
  /\ At(p, "drop")
  /\ pend' = [pend EXCEPT ![proc[p].k] = None]
  /\ byReq' = [byReq EXCEPT ![proc[p].u] = None]
  /\ dedup' = dedup \ {proc[p].k}
  /\ IF proc[p].op = "create" THEN Goto(p, "add") ELSE End(p)
  /\ UNCHANGED <<act, byUser, chan, daemon, calls, raced, late>>

\* SADD of a random code, repeated until it is new.  A code that is being
\* stored, typed into a handset or deleted for its user at that very moment
\* is not drawn again: there are thousands of them.
Free(p) == {k \in Code \ dedup : \A q \in Proc \ {p} : proc[q].k # k}

Draw(p) ==
  /\ At(p, "add")
  /\ \E k \in Free(p) :
       /\ dedup' = dedup \cup {k}
       /\ proc' = [proc EXCEPT ![p].pc = "store", ![p].k = k]
  /\ UNCHANGED <<pend, byReq, act, byUser, chan, daemon, calls, raced, late>>

\* ErrDuplicatePair
NoCodeLeft(p) ==
  /\ At(p, "add") /\ Free(p) = {}
  /\ End(p)
  /\ UNCHANGED <<redis, chan, daemon, calls, raced, late>>

\* The transaction that stores the request; SREM when it fails.
StorePending(p) ==
  LET g == proc[p]
  IN /\ At(p, "store")
     /\ \/ /\ pend' = [pend EXCEPT ![g.k] = g.u] /\ byReq' = [byReq EXCEPT ![g.u] = g.k]
           /\ UNCHANGED <<dedup, calls>>
        \/ Call /\ dedup' = dedup \ {g.k} /\ UNCHANGED <<pend, byReq>>
     /\ End(p)
     /\ UNCHANGED <<act, byUser, chan, daemon, raced, late>>

\* updateSessionScopeScript rewrites the scope of the session, if there is
\* one; the scope is left out here.
UpdateSessionScope(p) ==
  LET c == proc[p].c
  IN /\ At(p, "scope")
     /\ IF act[c] # None THEN Goto(p, "publish") ELSE End(p)
     /\ UNCHANGED <<redis, chan, daemon, calls, raced, late>>

\* PublishSessionSync: nobody hears it when the daemon is not subscribed.
PublishSessionSync(p) ==
  /\ At(p, "publish")
  /\ \/ /\ chan' = chan \cup {[c |-> proc[p].c, unpair |-> proc[p].op = "unpair"]}
        /\ UNCHANGED calls
     \/ Call /\ UNCHANGED chan
  /\ End(p)
  /\ UNCHANGED <<redis, daemon, raced, late>>

-----------------------------------------------------------------------------
(***************************************************************************)
(* Unpair, of the server and of the daemon: the session is read, then the  *)
(* script deletes it and the index entry that points to it.                *)
(***************************************************************************)
UnpairGet(p) ==
  LET c == proc[p].c
      after == IF p \in Rest THEN "publish" ELSE "remove"
  IN /\ At(p, "user")
     /\ IF act[c] = None THEN Goto(p, after)
        ELSE proc' = [proc EXCEPT ![p].pc = "script", ![p].got = act[c]]
     /\ UNCHANGED <<redis, chan, daemon, calls, raced, late>>

UnpairScript(p) ==
  LET c == proc[p].c
      u == proc[p].got
  IN /\ At(p, "script")
     /\ act' = [act EXCEPT ![c] = None]
     /\ byUser' = IF act[c] # None /\ byUser[u] = c THEN [byUser EXCEPT ![u] = None] ELSE byUser
     /\ Goto(p, IF p \in Rest THEN "publish" ELSE "remove")
     /\ UNCHANGED <<pend, byReq, dedup, chan, daemon, calls, raced, late>>

\* A packet of c is between its authorisation and its command.
Driving(c) == proc[c].pc = "drive"

\* ReleaseSession of the leaser stops the loco of a handset that leaves; it
\* goes on when the station refuses.
Release(c) ==
  \/ moving' = moving \ {c} /\ late' = IF Driving(c) THEN late \cup {c} ELSE late
  \/ c \in moving /\ UNCHANGED moving /\ late' = late \cup {c}

\* Mutant: the loco of a handset that is evicted is not released.
RemoveOnly(p) ==
  LET g == proc[p]
  IN /\ At(p, "remove")
     /\ reg' = [reg EXCEPT ![g.c] = None]
     /\ late' = IF Driving(g.c) THEN late \cup {g.c} ELSE late
     /\ IF p \in Client /\ g.op = "evict"
        THEN proc' = [proc EXCEPT ![p].pc = "pair", ![p].c = p] ELSE End(p)
     /\ UNCHANGED <<moving, redis, chan, gone, calls, raced>>

\* dropPresence: the registry entry and, by the hooks, the slots.  What
\* follows: the handset whose pairing evicted this one is paired.
DropPresence(p) ==
  LET g == proc[p]
  IN /\ At(p, "remove")
     /\ reg' = [reg EXCEPT ![g.c] = None]
     /\ Release(g.c)
     /\ IF p \in Client /\ g.op = "evict"
        THEN proc' = [proc EXCEPT ![p].pc = "pair", ![p].c = p] ELSE End(p)
     /\ UNCHANGED <<redis, chan, gone, calls, raced>>

-----------------------------------------------------------------------------
(***************************************************************************)
(* The daemon: packets.                                                    *)
(***************************************************************************)

\* PairViaCV3CV4, PairViaWithrottleCode: CompletePairing reads the request, ...
EnterCode(c, k) ==
  /\ pend[k] # None
  /\ proc' = [proc EXCEPT ![c].pc = "complete", ![c].k = k, ![c].u = pend[k]]

Paired(c) == reg[c] # None /\ reg[c].session # None

\* A command for a loco the pairing covers (authorize) goes on to the router.
Authorize(c) == Paired(c) /\ Goto(c, "drive")

\* evictClient: the handset unpairs itself.
LogOff(c) == proc' = [proc EXCEPT ![c] = [Off EXCEPT !.pc = "user", !.op = "logoff", !.c = c]]

\* A Z21 packet: drive, write the code into CV 3 and CV 4, log off, or none
\* of these (LAN handshake, loco info, broadcast flags).
HandlePacket(c) ==
  /\ c \notin Tcp
  /\ \/ Authorize(c)
     \/ ~Paired(c) /\ \E k \in Code : EnterCode(c, k)
     \/ LogOff(c)
     \/ End(c)

\* A WiThrottle line: drive, type the code on the function keys, quit, or
\* none of these (acquire, heartbeat, name).
Action(c) ==
  /\ c \in Tcp
  /\ \/ Authorize(c)
     \/ ~Paired(c) /\ \E k \in Code : EnterCode(c, k)
     \/ LogOff(c)
     \/ End(c)

NoteActivity(c) == reg' = IF Paired(c) THEN [reg EXCEPT ![c].braked = FALSE] ELSE reg

\* OnActivity, OnConnect: the client is touched.  Its session is read from
\* Redis on first sight and when the last reading is 30 s old
\* (syncPairedByKey: an error counts as no session), ...
PacketReads(c) ==
  /\ At(c, "off") /\ c \notin gone
  /\ reg' = IF reg[c] = None THEN [reg EXCEPT ![c] = Fresh] ELSE reg
  /\ \/ proc' = [proc EXCEPT ![c].pc = "set", ![c].got = act[c]] /\ UNCHANGED calls
     \/ Call /\ proc' = [proc EXCEPT ![c].pc = "set", ![c].got = None]
  /\ UNCHANGED <<redis, chan, gone, moving, raced, late>>

\* ... otherwise the registry has it.
PacketKnown(c) ==
  /\ At(c, "off") /\ c \notin gone /\ reg[c] # None
  /\ NoteActivity(c) /\ (HandlePacket(c) \/ Action(c))
  /\ UNCHANGED <<redis, chan, gone, moving, calls, raced, late>>

\* SetPaired
Mirror(c, u) == reg' = IF reg[c] = None THEN reg ELSE [reg EXCEPT ![c].session = u]

\* The packet is done with once its session is known; its own work is in the
\* next one, which finds the session in the registry.
SyncSet(c) ==
  /\ At(c, "set")
  /\ Mirror(c, proc[c].got)
  /\ End(c)
  /\ UNCHANGED <<redis, chan, gone, moving, calls, raced, late>>

\* SetSpeed, or an emergency stop, of the router: the loco is now one the
\* daemon knows of, unless the handset's presence is gone or latched.
Drive(c) ==
  /\ At(c, "drive")
  /\ moving' \in {moving \cup {c}, moving \ {c}}
  /\ late' = IF At("sweep", "latch") /\ proc["sweep"].c = c THEN late \cup {c}
             ELSE IF reg[c] # None /\ ~reg[c].braked THEN late \ {c} ELSE late
  /\ End(c)
  /\ UNCHANGED <<redis, chan, reg, gone, calls, raced>>

\* Mutant: the handset the user had before keeps its session.
CompleteBeside(c) ==
  LET g == proc[c]
  IN /\ At(c, "complete")
     /\ IF pend[g.k] = None THEN End(c) /\ UNCHANGED <<redis, raced>>
        ELSE /\ act' = [act EXCEPT ![c] = g.u]
             /\ byUser' = [byUser EXCEPT ![g.u] = c]
             /\ pend' = [pend EXCEPT ![g.k] = None]
             /\ byReq' = [byReq EXCEPT ![g.u] = None]
             /\ dedup' = dedup \ {g.k}
             /\ proc' = [proc EXCEPT ![c].pc = "pair"]
             /\ UNCHANGED raced
     /\ UNCHANGED <<chan, daemon, calls, late>>

\* ... and the script turns it into a session, deleting the session of the
\* handset the user had before.  A handset whose session another user
\* overwrites leaves that user's index entry.
CompletePairing(c) ==
  LET g == proc[c]
      prior == byUser[g.u]
      evicts == prior \notin {None, c}
  IN /\ At(c, "complete")
     /\ IF pend[g.k] = None THEN End(c) /\ UNCHANGED <<redis, raced>>
        ELSE /\ act' = [d \in Client |-> IF d = c THEN g.u
                                         ELSE IF evicts /\ d = prior THEN None ELSE act[d]]
             /\ byUser' = [byUser EXCEPT ![g.u] = c]
             /\ pend' = [pend EXCEPT ![g.k] = None]
             /\ byReq' = [byReq EXCEPT ![g.u] = None]
             /\ dedup' = dedup \ {g.k}
             /\ proc' = [proc EXCEPT ![c] = [@ EXCEPT !.k = None,
                                             !.pc = IF evicts THEN "user" ELSE "pair",
                                             !.op = IF evicts THEN "evict" ELSE None,
                                             !.c = IF evicts THEN prior ELSE c]]
             /\ UNCHANGED raced
     /\ UNCHANGED <<chan, daemon, calls, late>>

\* SetPaired with the new session.
SetPaired(c) ==
  /\ At(c, "pair")
  /\ reg' = IF reg[c] = None THEN reg
            ELSE [reg EXCEPT ![c].session = proc[c].u]
  /\ End(c)
  /\ UNCHANGED <<redis, chan, gone, moving, calls, raced, late>>

\* OnDisconnect of WiThrottle: the pairing stays.
OnDisconnect(c) ==
  /\ c \in Tcp /\ At(c, "off") /\ reg[c] # None
  /\ Call
  /\ proc' = [proc EXCEPT ![c].pc = "remove", ![c].c = c]
  /\ UNCHANGED <<redis, chan, daemon, raced, late>>

-----------------------------------------------------------------------------
(***************************************************************************)
(* The daemon: session sync, sweep, time.                                  *)
(***************************************************************************)

\* handleSyncMessage: the session is read and mirrored, an unpaired handset
\* releases its slots.  Every message has its goroutine.
HandleSyncMessage(m) ==
  /\ m \in chan
  /\ chan' = chan \ {m}
  /\ Mirror(m.c, act[m.c])
  /\ IF m.unpair THEN Release(m.c) ELSE UNCHANGED <<moving, late>>
  /\ UNCHANGED <<redis, gone, proc, calls, raced>>

\* The sweep looks at a handset that has been silent: brake it once; a handset that is
\* not paired, or speaks Z21, is evicted in the end, a paired WiThrottle
\* one only removed.
Sweep(c) ==
  LET r == reg[c]
  IN /\ At("sweep", "off") /\ At(c, "off") /\ reg[c] # None
     /\ \/ /\ r.session # None /\ ~r.braked
           /\ proc' = [proc EXCEPT !["sweep"].pc = "brake", !["sweep"].c = c]
        \/ /\ r.session = None \/ r.braked
           /\ proc' = [proc EXCEPT !["sweep"].pc = IF r.session # None /\ c \in Tcp
                                                   THEN "remove" ELSE "user",
                                   !["sweep"].c = c]
     /\ UNCHANGED <<redis, chan, daemon, calls, raced, late>>

\* Mutant: the idle brake stops nothing.
BrakeNothing ==
  /\ At("sweep", "brake")
  /\ Goto("sweep", "latch")
  /\ UNCHANGED <<redis, chan, daemon, calls, raced, late>>

\* brakeHandsetLocos, which goes on when the station refuses, ...
Brake ==
  LET c == proc["sweep"].c
  IN /\ At("sweep", "brake")
     /\ \/ moving' = moving \ {c} /\ UNCHANGED late
        \/ c \in moving /\ UNCHANGED moving /\ late' = late \cup {c}
     /\ Goto("sweep", "latch")
     /\ UNCHANGED <<redis, chan, reg, gone, calls, raced>>

\* ... then SetIdleBraked.
Latch ==
  LET c == proc["sweep"].c
  IN /\ At("sweep", "latch")
     /\ reg' = IF reg[c] = None THEN reg ELSE [reg EXCEPT ![c].braked = TRUE]
     /\ late' = IF Driving(c) THEN late \cup {c} ELSE late
     /\ End("sweep")
     /\ UNCHANGED <<redis, chan, gone, moving, calls, raced>>

\* The handset loses its power, without a word.
FallsSilent(c) ==
  /\ reg[c] # None /\ At(c, "off") /\ c \notin gone /\ Call
  /\ gone' = gone \cup {c}
  /\ UNCHANGED <<redis, chan, reg, moving, proc, raced, late>>

\* A request runs out.  The reserved codes outlive every request.
PendingExpires(k) ==
  /\ pend[k] # None /\ Call
  /\ pend' = [pend EXCEPT ![k] = None]
  /\ byReq' = [u \in User |-> IF byReq[u] = k THEN None ELSE byReq[u]]
  /\ UNCHANGED <<dedup, act, byUser, chan, daemon, proc, raced, late>>

\* A code that has been added and whose request is not yet stored, so that
\* the set still has its old TTL, is lost with the others.
DedupExpires ==
  /\ dedup # {} /\ \A k \in Code : pend[k] = None
  /\ dedup' = {}
  /\ raced' = raced \cup {proc[p].k : p \in {q \in Rest : At(q, "store")}}
  /\ UNCHANGED <<pend, byReq, act, byUser, chan, daemon, proc, calls, late>>

\* The flusher writes when a handset was seen; the script also writes the
\* index entry of its user.
TouchSeen(c) ==
  /\ reg[c] # None /\ reg[c].session # None /\ act[c] # None
  /\ byUser' = [byUser EXCEPT ![act[c]] = c]
  /\ UNCHANGED <<pend, byReq, dedup, act, chan, daemon, proc, calls, raced, late>>

\* The session of a handset not seen for days, with its index entry: both
\* are written with one TTL.
SessionExpires(c) ==
  /\ act[c] # None /\ (reg[c] = None \/ c \in gone) /\ Call
  /\ act' = [act EXCEPT ![c] = None]
  /\ byUser' = [u \in User |-> IF byUser[u] = c THEN None ELSE byUser[u]]
  /\ UNCHANGED <<pend, byReq, dedup, chan, daemon, proc, raced, late>>

\* The daemon dies and starts again.  The boot stop, which is off by default
\* and skips what the station refuses, stops all, some or none of the locos;
\* the new daemon does not know whose the others are.
Restart ==
  /\ reg' = [c \in Client |-> None] /\ chan' = {}
  /\ moving' \in SUBSET moving /\ late' = moving'
  /\ proc' = [p \in Proc |-> IF p \in Rest THEN proc[p] ELSE Off]
  /\ UNCHANGED <<redis, gone, calls, raced>>

-----------------------------------------------------------------------------
Server ==
  \E p \in Rest :
    \/ \E u \in User : \/ StartPairing(p, u) \/ CancelPairing(p, u) \/ GetStatus(p, u)
                       \/ UpdateSession(p, u) \/ Unpair(p, u)
    \/ Resolve(p) \/ Unlist(p) \/ GetPendingByUser(p) \/ ClearUserPending(p) \/ Draw(p)
    \/ NoCodeLeft(p) \/ StorePending(p) \/ UpdateSessionScope(p) \/ PublishSessionSync(p)

Step(c) ==
  \/ SyncSet(c) \/ Drive(c) \/ CompletePairing(c)
  \/ SetPaired(c)

Unpairing(p) == UnpairGet(p) \/ UnpairScript(p) \/ DropPresence(p)

Next ==
  \/ Server
  \/ \E p \in Proc : Unpairing(p)
  \/ \E c \in Client : \/ PacketReads(c) \/ PacketKnown(c) \/ Step(c) \/ OnDisconnect(c)
                       \/ Sweep(c) \/ FallsSilent(c) \/ TouchSeen(c) \/ SessionExpires(c)
  \/ \E m \in chan : HandleSyncMessage(m)
  \/ Brake \/ Latch \/ DedupExpires \/ Restart
  \/ \E k \in Code : PendingExpires(k)

Spec == Init /\ [][Next]_vars

\* Goroutines run and timers fire: a packet is worked off, and the sweep gets to
\* every handset.
Fairness ==
  /\ \A c \in Client : /\ WF_vars(Step(c) \/ Unpairing(c))
                       /\ SF_vars(Sweep(c))
  /\ WF_vars(Brake \/ Latch \/ Unpairing("sweep"))

FairSpec == Spec /\ Fairness

-----------------------------------------------------------------------------
(***************************************************************************)
(* Properties.                                                             *)
(***************************************************************************)

\* The store implements the one-to-one map of Pilots: no interleaving of
\* pairing, re-pairing, unpairing, eviction and expiry gives a user two
\* handsets, apart from the users whose index entry ListActiveByUser or
\* rejectIfUserPaired deleted under a new session.
P == INSTANCE Pilots WITH
       pilot <- [c \in Client |-> IF act[c] = None \/ act[c] \in raced THEN None
                                  ELSE act[c]]

OnePilot == P!Spec

\* A pending code is reserved, so no other user is given it while a handset
\* may still type it (CreateZ21PairingRequest, clearUserPending, the TTLs),
\* unless the set ran out between SADD and EXPIRE.
CodeReserved == \A k \in Code : pend[k] # None => k \in dedup \cup raced

\* A handset that is latched as braked stands: the sweep, which brakes only
\* once, does not overlook a moving loco, unless the station refused the
\* brake (late).
BrakedStands ==
  \A c \in Client \ late : reg[c] # None /\ reg[c].braked /\ ~Driving(c) => c \notin moving

\* The loco of a handset that falls silent for good is stopped, whatever the state of
\* its pairing: braked, evicted or removed; when the station refuses the brake, by
\* the eviction.  What may run on is a loco the daemon has no handset for: driven by
\* a packet that its eviction overtook, left by a restart, or not stopped by the
\* station even when its handset was dropped.
SilentStops ==
  \A c \in Client : (c \in gone /\ c \in moving) ~>
                      (c \notin moving \/ (c \in late /\ reg[c] = None))

\* Codes and presence are sound: a code that may be typed is reserved, and a
\* handset the sweep has braked stands (CreateZ21PairingRequest, sweep).
PresenceSound == TypeOK /\ CodeReserved /\ BrakedStands
=============================================================================
