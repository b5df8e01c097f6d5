----------------------------- MODULE LocoStore ------------------------------
(***************************************************************************)
(* LocoStateStore (dcc-bus/state/loco_store.go): the in-memory state of    *)
(* the locomotives, the window that shields a command from stale echoes of *)
(* the bus, and the write-behind mirror in Redis.                          *)
(*                                                                         *)
(* A write is two steps, the entry under its mutex and then markDirty; a   *)
(* flush is three, reading the entry, the Redis SET and clearing the dirty *)
(* mark.  One function output stands for all of them.  The TTL of a Redis  *)
(* key (5 minutes) is longer than any behaviour of interest.  SetFromBus   *)
(* has no caller and is left out.                                          *)
(***************************************************************************)
EXTENDS Integers, FiniteSets

CONSTANTS
  Addr,            \* locomotives
  Writer,          \* handlers and the state feed
  Feed,            \* the writers that apply what the bus and Redis report
  Loop,            \* the goroutine of FlushLoop
  User,            \* users, none of them 0
  Speeds,          \* UI speeds that are commanded
  Window,          \* commandSuppressWindow
  MaxTime,         \* bound on the clock, in milliseconds
  MaxWrites,       \* bound on the writes and retirements
  RedisMayFail,    \* may a Redis SET fail?
  NoSnap,          \* no value under a key
  Ops              \* the operations the environment uses

Nobody == 0
Time == 0 .. MaxTime

ASSUME StoreAssumption ==
  /\ Loop \notin Writer /\ Feed \subseteq Writer
  /\ Nobody \notin User
  /\ Speeds \subseteq Nat \ {1}
  /\ Window \in Nat \ {0} /\ MaxTime \in Nat \ {0, 1}
  /\ MaxWrites \in Nat \ {0}
  /\ RedisMayFail \in BOOLEAN

VARIABLES
  snap,            \* locoEntry.snap of every address
  exists,          \* the addresses that have an entry
  cmd,             \* commandedSpeed, commandedFwd, commandedAt (0 = zero time)
  dirty,           \* LocoStateStore.dirty
  redis,           \* the value of every loco:state key
  thread,          \* what each goroutine is doing
  now,             \* the clock
  writes,          \* the writes so far
  crossed,         \* history: addresses two goroutines flushed at once
  told             \* history: the last motion command, while unconfirmed

vars == <<snap, exists, cmd, dirty, redis, thread, now, writes, crossed, told>>

Thread == Writer \cup {Loop}

\* At is 0 in an entry nobody has written.
Snap == [speed : Speeds \cup {0}, fwd : BOOLEAN, user : User \cup {Nobody},
         fn : BOOLEAN, at : Time]

ASSUME NoSnapAssumption == NoSnap \notin Snap

\* What entry() puts in a new entry, and Snapshot returns without one.
Unknown == [speed |-> 0, fwd |-> TRUE, user |-> Nobody, fn |-> FALSE, at |-> 0]

NoCmd == [speed |-> 0, fwd |-> TRUE, at |-> 0]

Idle == [pc |-> "idle", todo |-> {}, a |-> NoSnap, snap |-> Unknown,
         now |-> FALSE]

UISpeedFromWire(w) == IF w = 1 THEN 0 ELSE w

(***************************************************************************)
(* Commands.                                                               *)
(***************************************************************************)

\* A goroutine leaves the entry's mutex with s in it and goes to markDirty,
\* then, for an emergency stop, to FlushNow.
Wrote(t, a, s, priority) ==
  /\ thread[t].pc = "idle"
  /\ writes < MaxWrites /\ writes' = writes + 1
  /\ snap' = [snap EXCEPT ![a] = s]
  /\ exists' = exists \cup {a}
  /\ thread' = [thread EXCEPT ![t] = [Idle EXCEPT !.pc = "mark", !.a = a,
                                                  !.now = priority]]

Commanded(a, s, f) ==
  /\ cmd' = [cmd EXCEPT ![a] = [speed |-> s, fwd |-> f, at |-> now]]
  /\ told' = [told EXCEPT ![a] = [speed |-> s, fwd |-> f, at |-> now,
                                  open |-> TRUE]]

SetSpeed(t, a, s, f, u) ==
  \E priority \in {FALSE} \cup {s = 0 /\ "estop" \in Ops} :
    /\ Wrote(t, a, [snap[a] EXCEPT !.speed = s, !.fwd = f, !.user = u,
                                   !.at = now], priority)
    /\ Commanded(a, s, f)
    /\ UNCHANGED <<dirty, redis, now, crossed>>

SetSpeedPreservingUser(t, a, s, f) ==
  \E priority \in {FALSE} \cup {s = 0 /\ "estop" \in Ops} :
    /\ "server" \in Ops
    /\ Wrote(t, a, [snap[a] EXCEPT !.speed = s, !.fwd = f, !.at = now], priority)
    /\ Commanded(a, s, f)
    /\ UNCHANGED <<dirty, redis, now, crossed>>

\* u is Nobody for commands of the server: the user stays.
SetFunction(t, a, u, on) ==
  /\ Wrote(t, a, [snap[a] EXCEPT !.user = IF u = Nobody THEN @ ELSE u,
                                 !.fn = on, !.at = now], FALSE)
  /\ UNCHANGED <<cmd, dirty, redis, now, crossed, told>>

(***************************************************************************)
(* Observations of the bus.                                                *)
(***************************************************************************)

\* A frame carries some of speed, direction and functions: the sets are empty
\* or singletons.  Wire speed 1 is an emergency stop.
Observation ==
  LET Maybe(S) == {{}} \cup {{x} : x \in S}
  IN  [speed : Maybe(Speeds \cup {0, 1}), fwd : Maybe(BOOLEAN),
       fn : Maybe(BOOLEAN)]

Expired(a) == now - cmd[a].at >= Window

Mismatch(a, o) ==
  \/ \E w \in o.speed : UISpeedFromWire(w) # cmd[a].speed
  \/ \E f \in o.fwd : f # cmd[a].fwd

\* Both dimensions are present and as commanded.
Confirms(a, o) == o.speed # {} /\ o.fwd # {} /\ ~Mismatch(a, o)

\* Mutant: the first echo of one dimension releases the window.
WindowAfterEither(a, o) ==
  IF cmd[a].at # 0 /\ (o.speed # {} \/ o.fwd # {})
     /\ (Expired(a) \/ ~Mismatch(a, o))
  THEN [cmd[a] EXCEPT !.at = 0] ELSE cmd[a]

\* What the observation leaves of the command window.
WindowAfter(a, o) ==
  IF cmd[a].at # 0 /\ (o.speed # {} \/ o.fwd # {})
     /\ (Expired(a) \/ Confirms(a, o))
  THEN [cmd[a] EXCEPT !.at = 0] ELSE cmd[a]

SuppressMotion(a, o) == cmd[a].at # 0 /\ ~Expired(a) /\ Mismatch(a, o)

\* The entry with what the observation carries, ownership aside.
Merged(a, o) ==
  LET motion == ~SuppressMotion(a, o)
      s == snap[a]
  IN  [s EXCEPT
        !.speed = IF motion /\ o.speed # {}
                  THEN UISpeedFromWire(CHOOSE w \in o.speed : TRUE) ELSE s.speed,
        !.fwd = IF motion /\ o.fwd # {} THEN CHOOSE f \in o.fwd : TRUE ELSE s.fwd,
        !.fn = IF o.fn # {} THEN CHOOSE b \in o.fn : TRUE ELSE s.fn]

\* Mutant: the window is looked at after the echo has released it.
ObservedLate(a, o) ==
  IF Merged(a, o) = snap[a] THEN snap[a]
  ELSE [Merged(a, o) EXCEPT !.user = IF WindowAfter(a, o).at = 0 THEN Nobody
                                     ELSE snap[a].user,
                            !.at = now]

\* A change outside any window drops the ownership; the window counts as
\* active here even if it has expired, and even if this frame releases it.
Observed(a, o) ==
  IF Merged(a, o) = snap[a] THEN snap[a]
  ELSE [Merged(a, o) EXCEPT !.user = IF cmd[a].at = 0 THEN Nobody
                                     ELSE snap[a].user,
                            !.at = now]

ApplyObservation(t, a, o) ==
  /\ thread[t].pc = "idle"
  /\ cmd' = [cmd EXCEPT ![a] = WindowAfter(a, o)]
  /\ told' = [told EXCEPT ![a].open = told[a].open /\ ~Confirms(a, o)]
  /\ \/ /\ Observed(a, o) # snap[a]
        /\ Wrote(t, a, Observed(a, o), FALSE)
     \/ /\ Observed(a, o) = snap[a]
        /\ exists' = exists \cup {a}
        /\ UNCHANGED <<snap, thread, writes>>
  /\ UNCHANGED <<dirty, redis, now, crossed>>

(***************************************************************************)
(* The mirror.                                                             *)
(***************************************************************************)
MarkDirty(t) ==
  LET r == thread[t]
  IN  /\ r.pc = "mark"
      /\ dirty' = dirty \cup {r.a}
      /\ thread' = [thread EXCEPT ![t] =
           IF r.now THEN [Idle EXCEPT !.pc = "next", !.todo = {r.a}] ELSE Idle]
      /\ UNCHANGED <<snap, exists, cmd, redis, now, writes, crossed, told>>

\* A tick of FlushLoop: flushAll copies the dirty set.
FlushAll ==
  /\ "flush" \in Ops
  /\ thread[Loop].pc = "idle" /\ dirty # {}
  /\ thread' = [thread EXCEPT ![Loop] = [Idle EXCEPT !.pc = "next", !.todo = dirty]]
  /\ UNCHANGED <<snap, exists, cmd, dirty, redis, now, writes, crossed, told>>

\* flushOne copies the entry.
FlushRead(t, a) ==
  LET r == thread[t]
  IN  /\ r.pc = "next" /\ a \in r.todo
      /\ thread' = [thread EXCEPT ![t] =
           [r EXCEPT !.pc = "store", !.todo = @ \ {a}, !.a = a, !.snap = snap[a]]]
      /\ crossed' = IF \E u \in Thread \ {t} :
                         thread[u].pc \in {"store", "clear"} /\ thread[u].a = a
                    THEN crossed \cup {a} ELSE crossed
      /\ UNCHANGED <<snap, exists, cmd, dirty, redis, now, writes, told>>

\* The copy shares the function slice with the entry, which SetFunction and
\* ApplyObservation change in place while the copy is marshalled.
FlushStore(t) ==
  LET r == thread[t]
  IN  /\ r.pc = "store"
      /\ \E b \in {r.snap.fn, snap[r.a].fn} :
           redis' = [redis EXCEPT ![r.a] = [r.snap EXCEPT !.fn = b]]
      /\ thread' = [thread EXCEPT ![t].pc = "clear"]
      /\ UNCHANGED <<snap, exists, cmd, dirty, now, writes, crossed, told>>

\* To the next address, or back to the caller.
Onward(r) ==
  IF r.todo = {} THEN Idle
  ELSE [r EXCEPT !.pc = "next", !.a = NoSnap, !.snap = Unknown]

\* Redis is out of reach: the mark stays for the next tick.
FlushFails(t) ==
  /\ RedisMayFail /\ thread[t].pc = "store"
  /\ thread' = [thread EXCEPT ![t] = Onward(@)]
  /\ UNCHANGED <<snap, exists, cmd, dirty, redis, now, writes, crossed, told>>

\* Mutants: the mark is always removed, or never.
FlushClearAlways(t) ==
  LET r == thread[t]
  IN  /\ r.pc = "clear"
      /\ dirty' = dirty \ {r.a}
      /\ thread' = [thread EXCEPT ![t] = Onward(@)]
      /\ UNCHANGED <<snap, exists, cmd, redis, now, writes, crossed, told>>

FlushClearNever(t) ==
  /\ thread[t].pc = "clear"
  /\ thread' = [thread EXCEPT ![t] = Onward(@)]
  /\ UNCHANGED <<snap, exists, cmd, dirty, redis, now, writes, crossed, told>>

\* The mark goes when the entry still carries the time of the copy.
FlushClear(t) ==
  LET r == thread[t]
  IN  /\ r.pc = "clear"
      /\ dirty' = IF snap[r.a].at = r.snap.at THEN dirty \ {r.a} ELSE dirty
      /\ thread' = [thread EXCEPT ![t] = Onward(@)]
      /\ UNCHANGED <<snap, exists, cmd, redis, now, writes, crossed, told>>

\* LoadMissingFromRedis: an address without an entry, the GET, and the entry
\* unless somebody made one meanwhile.
SeedRead(t, a) ==
  /\ "seed" \in Ops
  /\ thread[t].pc = "idle" /\ a \notin exists /\ redis[a] # NoSnap
  /\ thread' = [thread EXCEPT ![t] = [Idle EXCEPT !.pc = "seed", !.a = a,
                                                  !.snap = redis[a]]]
  /\ UNCHANGED <<snap, exists, cmd, dirty, redis, now, writes, crossed, told>>

SeedStore(t) ==
  LET r == thread[t]
  IN  /\ r.pc = "seed"
      /\ exists' = exists \cup {r.a}
      /\ snap' = IF r.a \in exists THEN snap ELSE [snap EXCEPT ![r.a] = r.snap]
      /\ thread' = [thread EXCEPT ![t] = Idle]
      /\ UNCHANGED <<cmd, dirty, redis, now, writes, crossed, told>>

\* retireRemovedLoco: the roster dropped the loco; only Redis is written.
Retire(a) ==
  /\ "retire" \in Ops /\ writes < MaxWrites
  /\ writes' = writes + 1
  /\ redis' = [redis EXCEPT ![a] = [Unknown EXCEPT !.at = now]]
  /\ UNCHANGED <<snap, exists, cmd, dirty, thread, now, crossed, told>>

Tick ==
  /\ now < MaxTime
  /\ now' = now + 1
  /\ UNCHANGED <<snap, exists, cmd, dirty, redis, thread, writes, crossed, told>>

(***************************************************************************)
(* The specification.  The clock starts at 2.  Redis holds a state of an   *)
(* earlier run of the daemon, of a moving loco, stamped 1; a daemon without*)
(* one behaves like a daemon that never reads it.                          *)
(***************************************************************************)
Earlier == [speed : Speeds \ {0}, fwd : {FALSE}, user : User, fn : {TRUE}, at : {1}]

Init ==
  /\ snap = [a \in Addr |-> Unknown] /\ exists = {}
  /\ cmd = [a \in Addr |-> NoCmd]
  /\ dirty = {}
  /\ redis \in [Addr -> IF "seed" \in Ops THEN Earlier ELSE {NoSnap}]
  /\ thread = [t \in Thread |-> Idle]
  /\ now = 2 /\ writes = 0 /\ crossed = {}
  /\ told = [a \in Addr |-> [speed |-> 0, fwd |-> TRUE, at |-> 0, open |-> FALSE]]

Command(t, a) ==
  \/ \E s \in Speeds, f \in BOOLEAN :
       \/ \E u \in User : SetSpeed(t, a, s, f, u)
       \/ SetSpeedPreservingUser(t, a, s, f)
  \/ "fn" \in Ops /\ \E u \in User \cup {Nobody}, on \in BOOLEAN :
                       SetFunction(t, a, u, on)

Report(t, a) ==
  \/ "bus" \in Ops /\ \E o \in Observation : ApplyObservation(t, a, o)
  \/ SeedRead(t, a)

Flush(t) ==
  \/ \E a \in Addr : FlushRead(t, a)
  \/ FlushStore(t) \/ FlushFails(t) \/ FlushClear(t)

Next ==
  \/ \E t \in Writer \ Feed, a \in Addr : Command(t, a)
  \/ \E t \in Feed, a \in Addr : Report(t, a)
  \/ \E t \in Thread : MarkDirty(t) \/ SeedStore(t) \/ Flush(t)
  \/ FlushAll
  \/ \E a \in Addr : Retire(a)
  \/ Tick

Spec == Init /\ [][Next]_vars

\* The ticker keeps ticking, the loop's goroutine runs on, and the Redis SET of
\* an address that is tried again and again succeeds once.
Fairness ==
  /\ WF_vars(FlushAll)
  /\ WF_vars(Flush(Loop))
  /\ \A a \in Addr : SF_vars(thread[Loop].a = a /\ FlushStore(Loop))

FairSpec == Spec /\ Fairness

(***************************************************************************)
(* Properties.                                                             *)
(***************************************************************************)
\* Every variable has its type; only addresses with an entry are dirty.
TypeOK ==
  /\ snap \in [Addr -> Snap] /\ exists \subseteq Addr /\ dirty \subseteq exists
  /\ cmd \in [Addr -> [speed : Speeds \cup {0}, fwd : BOOLEAN, at : Time]]
  /\ redis \in [Addr -> Snap \cup {NoSnap}]
  /\ thread \in [Thread -> [pc : {"idle", "mark", "next", "store", "clear", "seed"},
                            todo : SUBSET exists, a : Addr \cup {NoSnap},
                            snap : Snap, now : BOOLEAN]]
  /\ now \in Time /\ writes \in 0 .. MaxWrites
  /\ crossed \subseteq exists
  /\ told \in [Addr -> [speed : Speeds \cup {0}, fwd : BOOLEAN, at : Time,
                        open : BOOLEAN]]

Marking(a) == \E t \in Thread : thread[t].pc = "mark" /\ thread[t].a = a

Settled(a) == snap[a].at # 0 /\ a \notin dirty /\ ~Marking(a)

\* The mirror: a settled state, or the stop of a later retirement, is in Redis,
\* up to writes of the same millisecond.  FlushNow and the loop flushing one
\* address at once may leave the older copy there, with the mark cleared.
MirrorFresh ==
  \A a \in Addr \ crossed :
    Settled(a) => redis[a] # NoSnap /\ redis[a].at >= snap[a].at

InWindow(a) == told[a].open /\ now - told[a].at < Window

\* A command holds against stale echoes for the whole window, also when the
\* bus reports speed and direction in frames of their own, and against the
\* state LoadMissingFromRedis brings.
CommandHolds ==
  \A a \in Addr : InWindow(a) => /\ snap[a].speed = told[a].speed
                                 /\ snap[a].fwd = told[a].fwd

\* Inside the window no echo drops the ownership of the loco.
OwnerKept ==
  [][\A a \in Addr : InWindow(a) /\ snap[a].user # Nobody
                       => snap'[a].user # Nobody]_vars

\* A dirty state is flushed, also after Redis was out of reach.
Flushed == \A a \in Addr : a \in dirty ~> a \notin dirty

\* The mirror in Redis is up to date, over a store that keeps its types.
Mirror == TypeOK /\ MirrorFresh
=============================================================================
