----------------------------- MODULE Throttles -----------------------------
(***************************************************************************)
(* The two gateways a handset drives through: the WiThrottle server        *)
(* (dcc-bus/withrottle) and the Z21 LAN server (dcc-bus/z21server), the    *)
(* inbound registry they share (remotes/inbound) and the fan-out of a      *)
(* loco's new state to whoever watches it (remotes/notifier.go).           *)
(*                                                                         *)
(* A WiThrottle client holds locos on several throttle ids; the server     *)
(* remembers per throttle id a direction and, per loco, the last known     *)
(* speed, which a direction key sends again.  A Z21 client has a FIFO of   *)
(* subscribed locos and a broadcast flag, and is told the state as an      *)
(* encoded byte.  One goroutine works for each client, so its commands are *)
(* in order; commands of different clients interleave between the change   *)
(* of the loco, its fan-out, and what the handler does after it returned.  *)
(*                                                                         *)
(* Pairing is in module Handsets, the slots in SlotLeaser: a command that  *)
(* either refuses is one that fails here.  A command for all locos of a    *)
(* throttle id ("*") is the same command once per loco.                    *)
(***************************************************************************)
EXTENDS Remotes, Integers, Sequences, FiniteSets, SequencesExt

CONSTANTS W, Z,       \* the keys of WiThrottle and of Z21 clients
          Web,        \* the goroutine of a browser's session
          Tid, Addr,  \* throttle ids; loco addresses
          Steps,      \* the command station's speed steps
          Payloads,   \* speeds a browser or a WiThrottle client asks for
          Bytes,      \* DB3 of LAN_X_SET_LOCO_DRIVE, the direction bit apart
          Scopes,     \* the sets of locos a pairing may allow
          Cap,        \* the highest speed a loco's lease allows a client's user
          FifoMax     \* 16 in the code

\* A browser's speed is checked against the steps (validation/ws.go:135), a
\* WiThrottle client's is scaled to them, a Z21 client's is what seven bits hold.
ASSUME ThrottlesAssumption ==
  /\ Steps \in {14, 28, 128} /\ Payloads \subseteq 0 .. Steps /\ Bytes \subseteq 0 .. 127
  /\ Cap \in [W \cup Z \cup {Web} -> [Addr -> 2 .. 128]]
  /\ FifoMax \in Nat \ {0} /\ MaxCalls \in Nat
  /\ Addr \in Scopes
  /\ W \cap Z = {} /\ Web \notin W \cup Z
  /\ Z \cap ((W \cup Z \cup {Web}) \X (Tid \cup {None})) = {}
  /\ None \notin Addr \cup Tid \cup W \cup Z \cup {Web} \cup (0 .. 128)
  /\ None \notin [session : Scopes \cup {None}, fifo : Seq(Addr), last : Addr \cup {None}]
  /\ None \notin [db3 : 0 .. 127, fwd : BOOLEAN]

Remote == W \cup Z
Worker == Remote \cup {Web}
\* Where the server keeps what a client knows of a loco.
Port == Z \cup (W \X Tid)
Owner(p) == IF p \in Z THEN p ELSE p[1]

VARIABLES
  inbound,  \* registered clients: session, FIFO of locos, the last active one
  subs,     \* the index from a loco to its subscribers
  flag,     \* Z21 clients with the driving broadcast flag
  wire,     \* throttleWire of a WiThrottle client's throttle id
  state,    \* the loco store
  shown,    \* the last LAN_X_LOCO_INFO a Z21 client got of a loco
  job,      \* what each goroutine is doing
  radio,    \* a radio stop is on its way through Redis
  unheard,  \* history: ports that had no chance to hear of a loco's last change
  inputs

registered == <<inbound, subs, flag, wire>>
throttleVars == <<inbound, subs, flag, wire, state, shown, job, radio, unheard, inputs>>

Job(pc, op, a, t, v, f) ==
  [pc |-> pc, op |-> op, a |-> a, t |-> t, v |-> v, fwd |-> f, snap |-> None, alone |-> TRUE]
Idle == Job("idle", None, None, None, 0, TRUE)
FreshWire == [t \in Tid |-> [locos |-> {}, forward |-> TRUE,
                             lastSpeed |-> [a \in Addr |-> None]]]
NewClient(s) == [session |-> s, fifo |-> <<>>, last |-> None]

\* The handsets have paired and all locos stand: a WiThrottle client has
\* acquired one, a Z21 client has asked for one and for broadcasts.
ThrottlesInit ==
  \E at \in [Remote -> Addr], id \in [W -> Tid] :
    /\ inbound = [c \in Remote |->
                    [session |-> Addr, fifo |-> <<at[c]>>,
                     last |-> IF c \in Z THEN at[c] ELSE None]]
    /\ subs = [a \in Addr |-> {c \in Remote : at[c] = a}]
    /\ flag = Z
    /\ wire = [c \in W |-> [FreshWire EXCEPT ![id[c]].locos = {at[c]}]]
    /\ state = [a \in Addr |-> [speed |-> 0, fwd |-> TRUE]]
    /\ shown = [c \in Z |-> [a \in Addr |->
                  IF a = at[c] THEN [db3 |-> 0, fwd |-> TRUE] ELSE None]]
    /\ job = [p \in Worker |-> Idle]
    /\ radio = FALSE
    /\ unheard = {}
    /\ inputs = 0

(***************************************************************************)
(* Encodings.                                                              *)
(***************************************************************************)

\* The speed a client's payload stands for once it is on the wire and back:
\* 1 would be an emergency stop and is sent as the first step.
UISpeed(v) == IF v = 1 THEN 2 ELSE v

\* A drive packet says which speed steps its byte is in, whatever the station's are.
Formats == {14, 28, 128}

isDriveDB3EStop(n, b) == IF n \in {14, 28} THEN b % 16 = 1 ELSE b = 1

Decoded28(raw) == IF raw <= 1 THEN 0 ELSE IF raw <= 3 THEN 1 ELSE raw - 3

decodeDriveDB3(n, b) ==
  CASE n = 14 -> b % 16
    [] n = 28 -> Decoded28(((b % 16) * 2) + ((b \div 16) % 2))
    [] OTHER -> b

Lesser(m, n) == IF m < n THEN m ELSE n

\* The station's steps: a speed beyond the 15 that 14 steps have room for, which a
\* packet of another format may have set, is masked.
encodeDriveDB3(s) ==
  CASE s <= 1 -> s
    [] s > 1 /\ Steps = 14 -> s % 16
    [] s > 1 /\ Steps = 28 -> LET x == Lesser(s, 28) + 3
                              IN ((x % 2) * 16) + ((x \div 2) % 16)
    [] OTHER -> Lesser(s, 127)

\* LAN_X_LOCO_INFO: speed as a byte, and the direction.
buildLocoInfoReply(s) == [db3 |-> encodeDriveDB3(s.speed), fwd |-> s.fwd]

(***************************************************************************)
(* The inbound registry.                                                   *)
(***************************************************************************)

Known(c) == inbound[c] # None
IsPaired(c) == Known(c) /\ inbound[c].session # None
Authorized(c, a) == IsPaired(c) /\ a \in inbound[c].session

\* subscribeLocoLocked: a known loco keeps its place, a new one may push the
\* oldest out.
Subscribed(fifo, a) ==
  IF a \in ToSet(fifo) THEN fifo
  ELSE LET f == Append(fifo, a)
       IN IF Len(f) > FifoMax THEN Tail(f) ELSE f

\* Mutant: what the FIFO lost stays in the index.
NothingTrimmed(c, a) == [subs EXCEPT ![a] = @ \cup {c}]

\* The index follows the client's FIFO: a enters, what was trimmed leaves.
Indexed(c, a) ==
  [b \in Addr |->
     IF b = a THEN subs[b] \cup {c}
     ELSE IF b \in ToSet(inbound[c].fifo) \ ToSet(Subscribed(inbound[c].fifo, a))
          THEN subs[b] \ {c} ELSE subs[b]]

SubscribeLoco(c, a) ==
  /\ inbound' = [inbound EXCEPT ![c].fifo = Subscribed(@, a)]
  /\ subs' = Indexed(c, a)

SetLastActiveLoco(c, a) ==
  /\ inbound' = [inbound EXCEPT ![c].fifo = Subscribed(@, a), ![c].last = a]
  /\ subs' = Indexed(c, a)

\* What UnsubscribeLoco keeps of a FIFO, loco by loco.
Remaining(fifo, S) ==
  LET kept[i \in 0 .. Len(fifo)] ==
        IF i = 0 THEN <<>>
        ELSE IF fifo[i] \in S THEN kept[i - 1] ELSE Append(kept[i - 1], fifo[i])
  IN kept[Len(fifo)]

UnsubscribeLocos(c, S) ==
  /\ inbound' = [inbound EXCEPT ![c].fifo = Remaining(@, S),
                                ![c].last = IF @ \in S THEN None ELSE @]
  /\ subs' = [a \in Addr |-> IF a \in S THEN subs[a] \ {c} ELSE subs[a]]

CurrentLoco(c) ==
  IF inbound[c].last # None THEN inbound[c].last
  ELSE IF inbound[c].fifo # <<>> THEN Last(inbound[c].fifo) ELSE None

\* Remove, of the registry and of the gateway's wire state.
RemoveClient(c) ==
  /\ inbound' = [inbound EXCEPT ![c] = None]
  /\ subs' = [a \in Addr |-> subs[a] \ {c}]
  /\ flag' = flag \ {c}
  /\ wire' = IF c \in W THEN [wire EXCEPT ![c] = FreshWire] ELSE wire
  /\ shown' = IF c \in Z THEN [shown EXCEPT ![c] = [a \in Addr |-> None]]
              ELSE shown

(***************************************************************************)
(* Presence.                                                               *)
(***************************************************************************)

Work == inputs < MaxCalls /\ inputs' = inputs + 1
AtRest(c) == job[c].pc = "idle"
Working(a) == {p \in Worker : job[p].a = a}
Others(p, a) == Working(a) \ {p}
PortsOf(c) == {p \in Port : Owner(p) = c}
Forgotten(c) == {x \in unheard : Owner(x[1]) = c}

\* The first line of a WiThrottle client (OnConnect), on a new connection
\* possibly: then the throttles start afresh, the subscriptions stay.
OnConnect(c, s) ==
  /\ Work /\ c \in W
  /\ IF Known(c)
     THEN /\ wire' = [wire EXCEPT ![c] = FreshWire]
          /\ UNCHANGED inbound
     ELSE /\ inbound' = [inbound EXCEPT ![c] = NewClient(s)]
          /\ UNCHANGED wire
  /\ unheard' = IF AtRest(c) THEN unheard ELSE unheard \cup (PortsOf(c) \X Addr)
  /\ UNCHANGED <<subs, flag, state, shown, job, radio>>

\* The first packet of a Z21 client.
Touch(c, s) ==
  /\ Work /\ c \in Z /\ ~Known(c)
  /\ inbound' = [inbound EXCEPT ![c] = NewClient(s)]
  /\ UNCHANGED <<subs, flag, wire, state, shown, job, radio, unheard>>

\* The session changed in Redis, and the client's copy follows.
syncPairedByKey(c, s) ==
  /\ Work /\ Known(c) /\ inbound[c].session # s
  /\ inbound' = [inbound EXCEPT ![c].session = s]
  /\ UNCHANGED <<subs, flag, wire, state, shown, job, radio, unheard>>

\* The client logs off, quits, loses its connection or is evicted, in the
\* middle of a command possibly: what the command still writes is then the
\* only thing the server knows of the client.
Leave(c) ==
  /\ Work /\ Known(c)
  /\ RemoveClient(c)
  /\ unheard' = IF AtRest(c) THEN unheard \ Forgotten(c)
                ELSE unheard \cup (PortsOf(c) \X Addr)
  /\ UNCHANGED <<state, job, radio>>

(***************************************************************************)
(* What reaches the clients.                                               *)
(***************************************************************************)

\* Two goroutines at work on one loco: whose fan-out comes last is open.
Begin(p, r) ==
  /\ job' = [q \in Worker |->
                IF q = p THEN [r EXCEPT !.alone = Others(p, r.a) = {}]
                ELSE IF job[q].a = r.a THEN [job[q] EXCEPT !.alone = FALSE]
                ELSE job[q]]
  /\ unheard' = IF Others(p, r.a) = {} THEN unheard ELSE unheard \cup (Port \X {r.a})

\* Throttle ids of a client that hold the loco, of which
\* findThrottleForAddr returns any.
Holding(c, a) == {t \in Tid : a \in wire[c][t].locos}

\* OnLocoStateChanged of the WiThrottle server.
WiThrottleTold(a, origin) ==
  {c \in W \ {origin} : IsPaired(c) /\ Holding(c, a) # {}}

\* OnLocoStateChanged of the Z21 server.
Z21Told(a, origin) ==
  {c \in (subs[a] \cap Z) \ {origin} : IsPaired(c) /\ c \in flag}

\* The clients that are to hear of it: those that hold the loco, and those
\* that have it in their FIFO and asked for broadcasts.
Watching(a, origin) ==
  {c \in Remote \ {origin} :
     /\ IsPaired(c)
     /\ c \in W => Holding(c, a) # {}
     /\ c \in Z => c \in flag /\ a \in ToSet(inbound[c].fifo)}

\* locoObservers.Notify with the snapshot of the command; pick[c] is the
\* throttle id found for holder c.
Notify(p) ==
  LET a == job[p].a
      s == job[p].snap
      watching == Watching(a, p)
  IN
  /\ job[p].pc = "notify"
  /\ \E pick \in [watching \cap W -> Tid] :
       /\ \A c \in watching \cap W : pick[c] \in Holding(c, a)
       /\ wire' = [c \in W |-> [t \in Tid |->
                     IF c \in WiThrottleTold(a, p) /\ pick[c] = t
                     THEN [wire[c][t] EXCEPT !.lastSpeed[a] = s.speed]
                     ELSE wire[c][t]]]
       /\ LET heard == {IF c \in W THEN <<c, pick[c]>> ELSE c : c \in watching}
              missed == Port \ (heard \cup {<<p, job[p].t>>})
          IN unheard' = IF job[p].alone
                        THEN (unheard \ (heard \X {a})) \cup (missed \X {a})
                        ELSE unheard \cup (Port \X {a})
  /\ shown' = [c \in Z |-> IF c \in Z21Told(a, p)
                           THEN [shown[c] EXCEPT ![a] = buildLocoInfoReply(s)]
                           ELSE shown[c]]
  /\ job' = [job EXCEPT ![p].pc = "done"]
  /\ UNCHANGED <<inbound, subs, flag, state, radio, inputs>>

(***************************************************************************)
(* The loco.                                                               *)
(***************************************************************************)

\* HandleSetSpeed asks the station for no more than the lease allows.
ClampSpeedForControllerLimit(p, a, v) == Lesser(v, Cap[p][a])

Commanded(p, a) ==
  IF job[p].op = "F" THEN state[a]
  ELSE [speed |-> UISpeed(ClampSpeedForControllerLimit(p, a, job[p].v)),
        fwd |-> job[p].fwd]

\* applyMemberSetSpeed: the station and then the store take the command, ...
Stored(p) ==
  LET a == job[p].a IN
  /\ job[p].pc = "store"
  /\ state' = [state EXCEPT ![a] = Commanded(p, a)]
  /\ job' = [job EXCEPT ![p].pc = "notify", ![p].snap = Commanded(p, a)]
  /\ unheard' = IF job[p].alone /\ p \in W /\ job[p].op # "F"
                THEN unheard \ {<<<<p, job[p].t>>, a>>} ELSE unheard
  /\ UNCHANGED <<registered, shown, radio, inputs>>

\* ... a later command to the station overtakes it and it is taken for sent, ...
Superseded(p) ==
  /\ job[p].pc = "store" /\ job[p].op # "F"
  /\ Others(p, job[p].a) # {}
  /\ job' = [job EXCEPT ![p].pc = "done"]
  /\ UNCHANGED <<registered, state, shown, radio, unheard, inputs>>

\* ... or no slot is to be had or the station fails.
Failed(p) ==
  /\ job[p].pc = "store"
  /\ job' = [job EXCEPT ![p].pc = "failed"]
  /\ UNCHANGED <<registered, state, shown, radio, unheard, inputs>>

\* Emergency stops tell the browsers only: neither gateway observes them.
Stopped(p, S) ==
  /\ state' = [a \in Addr |-> IF a \in S THEN [state[a] EXCEPT !.speed = 0]
                              ELSE state[a]]
  /\ unheard' = unheard \cup (Port \X {a \in S : state[a].speed # 0 \/ Working(a) # {}})
  /\ job' = [q \in Worker |->
                IF q = p THEN [job[q] EXCEPT !.pc = "done"]
                ELSE IF job[q].a \in S THEN [job[q] EXCEPT !.alone = FALSE]
                ELSE job[q]]

\* A loco that stands is left alone, and one the station refuses to stop runs on.
EStopStep(p) ==
  /\ job[p].pc = "estop"
  /\ \E S \in SUBSET {job[p].a} : Stopped(p, S)
  /\ UNCHANGED <<registered, shown, radio, inputs>>

\* An emergency stop from elsewhere: a browser, the dead-man switch, the
\* coordinator's idle brake.
EmergencyStop(a) ==
  /\ Work
  /\ Stopped(None, {a})
  /\ UNCHANGED <<registered, shown, radio>>

RadioStop ==
  /\ radio /\ radio' = FALSE
  /\ Stopped(None, Addr)
  /\ UNCHANGED <<registered, shown, inputs>>

(***************************************************************************)
(* WiThrottle clients.                                                     *)
(***************************************************************************)

\* Acquire puts the loco on the throttle id, then Subscribe answers with its
\* state.
Acquire(c, t, a) ==
  /\ Work /\ AtRest(c) /\ Authorized(c, a)
  /\ wire' = [wire EXCEPT ![c][t].locos = @ \cup {a}]
  /\ Begin(c, Job("subscribe", "acquire", a, t, 0, TRUE))
  /\ UNCHANGED <<inbound, subs, flag, state, shown, radio>>

Subscribe(c) ==
  /\ job[c].pc = "subscribe"
  /\ IF Known(c) THEN SubscribeLoco(c, job[c].a) ELSE UNCHANGED <<inbound, subs>>
  /\ job' = [job EXCEPT ![c] = Idle]
  /\ UNCHANGED <<flag, wire, state, shown, radio, unheard, inputs>>

\* HandleRelease of one loco or of all of a throttle id's.
Released(tw, S) ==
  [tw EXCEPT !.locos = @ \ S,
             !.lastSpeed = [a \in Addr |-> IF a \in S THEN None ELSE @[a]]]

GateRelease(c, t, S) ==
  /\ Work /\ AtRest(c) /\ IsPaired(c)
  /\ wire' = [wire EXCEPT ![c][t] = Released(@, S)]
  /\ UnsubscribeLocos(c, S)
  /\ UNCHANGED <<flag, state, shown, job, radio, unheard>>

\* A speed, with the direction the throttle id last had.  (The two wire values
\* that stand for an emergency stop are handleEStop's.)
handleSpeed(c, t, a, v) ==
  /\ Work /\ AtRest(c) /\ Authorized(c, a) /\ a \in wire[c][t].locos
  /\ Begin(c, Job("store", "V", a, t, v, wire[c][t].forward))
  /\ UNCHANGED <<registered, state, shown, radio>>

\* Mutant: one last speed per throttle id, whichever loco it was for.
DirectionOfThrottle(c, t, a, f) ==
  /\ Work /\ AtRest(c) /\ Authorized(c, a) /\ a \in wire[c][t].locos
  /\ wire' = [wire EXCEPT ![c][t].forward = f]
  /\ \E b \in wire[c][t].locos :
       /\ wire[c][t].lastSpeed[b] # None
       /\ Begin(c, Job("store", "R", a, t, wire[c][t].lastSpeed[b], f))
  /\ UNCHANGED <<inbound, subs, flag, state, shown, radio>>

\* A direction, with the last known speed; the throttle id keeps it even when
\* the loco is not the client's to drive any more.
handleDirection(c, t, a, f) ==
  /\ Work /\ AtRest(c) /\ IsPaired(c) /\ a \in wire[c][t].locos
  /\ wire' = [wire EXCEPT ![c][t].forward = f]
  /\ LET last == wire[c][t].lastSpeed[a] IN
     IF Authorized(c, a)
     THEN Begin(c, Job("store", "R", a, t, IF last = None THEN 0 ELSE last, f))
     ELSE UNCHANGED <<job, unheard>>
  /\ UNCHANGED <<inbound, subs, flag, state, shown, radio>>

handleIdle(c, t, a) ==
  /\ Work /\ AtRest(c) /\ Authorized(c, a) /\ a \in wire[c][t].locos
  /\ Begin(c, Job("store", "I", a, t, 0, wire[c][t].forward))
  /\ UNCHANGED <<registered, state, shown, radio>>

handleEStop(c, t, a) ==
  /\ Work /\ AtRest(c) /\ Authorized(c, a) /\ a \in wire[c][t].locos
  /\ Begin(c, Job("estop", "X", a, t, 0, TRUE))
  /\ UNCHANGED <<registered, state, shown, radio>>

\* What the handler does with the answer: a speed that was sent or overtaken
\* is the last known one, an idle is even if it failed.
WiThrottleDone(c) ==
  LET r == job[c]
      known == r.op = "I" \/ (r.op = "V" /\ r.pc = "done")
  IN
  /\ r.pc \in {"done", "failed"}
  /\ wire' = IF known THEN [wire EXCEPT ![c][r.t].lastSpeed[r.a] = r.v] ELSE wire
  /\ unheard' = IF known /\ r.pc = "failed" THEN unheard \cup {<<<<c, r.t>>, r.a>>}
                ELSE unheard
  /\ job' = [job EXCEPT ![c] = Idle]
  /\ UNCHANGED <<inbound, subs, flag, state, shown, radio, inputs>>

\* A function key: the loco's state is fanned out again.
handleFunction(c, t, a) ==
  /\ Work /\ AtRest(c) /\ Authorized(c, a) /\ a \in wire[c][t].locos
  /\ Begin(c, Job("store", "F", a, t, 0, TRUE))
  /\ UNCHANGED <<registered, state, shown, radio>>

(***************************************************************************)
(* Z21 clients.                                                            *)
(***************************************************************************)

HandleSetLocoDrive(c, a, n, b, f) ==
  /\ Work /\ AtRest(c) /\ Authorized(c, a)
  /\ SetLastActiveLoco(c, a)
  /\ Begin(c, Job(IF isDriveDB3EStop(n, b) THEN "estop" ELSE "store",
                  "drive", a, None, decodeDriveDB3(n, b), f))
  /\ UNCHANGED <<flag, wire, state, shown, radio>>

\* One function, or a group of them one after the other.
HandleSetLocoFunction(c, a) ==
  /\ Work /\ AtRest(c) /\ Authorized(c, a)
  /\ SetLastActiveLoco(c, a)
  /\ Begin(c, Job("store", "F", a, None, 0, TRUE))
  /\ UNCHANGED <<flag, wire, state, shown, radio>>

HandleSetLocoEStop(c, a) ==
  /\ Work /\ AtRest(c) /\ Authorized(c, a)
  /\ SetLastActiveLoco(c, a)
  /\ Begin(c, Job("estop", "X", a, None, 0, TRUE))
  /\ UNCHANGED <<flag, wire, state, shown, radio>>

\* The stop key names no loco: it is for the one driven last.  The answer is
\* "stopped", not the loco's state.
handleSetStop(c) ==
  /\ Work /\ AtRest(c) /\ IsPaired(c)
  /\ LET a == CurrentLoco(c) IN
       /\ a # None /\ Authorized(c, a)
       /\ Begin(c, Job("estop", "stop", a, None, 0, TRUE))
  /\ UNCHANGED <<registered, state, shown, radio>>

HandleGetLocoInfo(c, a) ==
  /\ Work /\ AtRest(c) /\ Authorized(c, a)
  /\ SetLastActiveLoco(c, a)
  /\ shown' = [shown EXCEPT ![c][a] = buildLocoInfoReply(state[a])]
  /\ unheard' = IF Working(a) = {} THEN unheard \ {<<c, a>>} ELSE unheard
  /\ UNCHANGED <<flag, wire, state, job, radio>>

HandlePurgeLoco(c, a) ==
  /\ Work /\ AtRest(c) /\ Authorized(c, a)
  /\ UnsubscribeLocos(c, {a})
  /\ UNCHANGED <<flag, wire, state, shown, job, radio, unheard>>

applyBroadcastFlags(c, on) ==
  /\ Work /\ AtRest(c) /\ Known(c) /\ on # (c \in flag)
  /\ flag' = IF on THEN flag \cup {c} ELSE flag \ {c}
  /\ UNCHANGED <<inbound, subs, wire, state, shown, job, radio, unheard>>

\* Track power off is the layout's radio stop.
handleTrackPowerOff(c) ==
  /\ Work /\ AtRest(c) /\ IsPaired(c)
  /\ radio' = TRUE
  /\ UNCHANGED <<registered, state, shown, job, unheard>>

\* echoLocoState: the commander is told what the store now has.
Z21Done(c) ==
  LET r == job[c]
      echo == r.pc = "done" /\ r.op # "stop" /\ Known(c)
  IN
  /\ r.pc \in {"done", "failed"}
  /\ shown' = IF echo THEN [shown EXCEPT ![c][r.a] = buildLocoInfoReply(state[r.a])]
              ELSE shown
  /\ unheard' = IF echo /\ r.alone THEN unheard \ {<<c, r.a>>} ELSE unheard
  /\ job' = [job EXCEPT ![c] = Idle]
  /\ UNCHANGED <<registered, state, radio, inputs>>

(***************************************************************************)
(* A browser.                                                              *)
(***************************************************************************)

WebSetSpeed(a, v, f) ==
  /\ Work /\ AtRest(Web)
  /\ Begin(Web, Job("store", "web", a, None, v, f))
  /\ UNCHANGED <<registered, state, shown, radio>>

WebDone ==
  /\ job[Web].pc \in {"done", "failed"}
  /\ job' = [job EXCEPT ![Web] = Idle]
  /\ UNCHANGED <<registered, state, shown, radio, unheard, inputs>>

(***************************************************************************)
(* The specification.                                                      *)
(***************************************************************************)

Command(p) ==
  \/ Stored(p) \/ Superseded(p) \/ Failed(p) \/ EStopStep(p) \/ Notify(p)

WiThrottle(c) ==
  \/ \E s \in Scopes : OnConnect(c, s)
  \/ Subscribe(c) \/ WiThrottleDone(c)
  \/ \E t \in Tid :
       \/ \E a \in wire[c][t].locos : GateRelease(c, t, {a})
       \/ wire[c][t].locos # {} /\ GateRelease(c, t, wire[c][t].locos)
       \/ \E a \in Addr :
            \/ Acquire(c, t, a)
            \/ \E v \in Payloads : handleSpeed(c, t, a, v)
            \/ \E f \in BOOLEAN : handleDirection(c, t, a, f)
            \/ handleIdle(c, t, a) \/ handleEStop(c, t, a)
            \/ handleFunction(c, t, a)

Z21(c) ==
  \/ \E s \in Scopes : Touch(c, s)
  \/ Z21Done(c) \/ handleSetStop(c) \/ handleTrackPowerOff(c)
  \/ \E on \in BOOLEAN : applyBroadcastFlags(c, on)
  \/ \E a \in Addr :
       \/ \E n \in Formats, b \in Bytes, f \in BOOLEAN : HandleSetLocoDrive(c, a, n, b, f)
       \/ HandleSetLocoEStop(c, a) \/ HandleGetLocoInfo(c, a)
       \/ HandlePurgeLoco(c, a) \/ HandleSetLocoFunction(c, a)

ThrottlesNext ==
  \/ \E p \in Worker : Command(p)
  \/ \E c \in W : WiThrottle(c)
  \/ \E c \in Z : Z21(c)
  \/ \E c \in Remote : Leave(c) \/ \E s \in Scopes \cup {None} : syncPairedByKey(c, s)
  \/ \E a \in Addr :
       \/ EmergencyStop(a)
       \/ \E v \in Payloads, f \in BOOLEAN : WebSetSpeed(a, v, f)
  \/ WebDone \/ RadioStop

ThrottlesSpec == ThrottlesInit /\ [][ThrottlesNext]_throttleVars

(***************************************************************************)
(* Properties.                                                             *)
(***************************************************************************)

ThrottlesTypeOK ==
  /\ \A c \in Remote : Known(c) =>
       /\ inbound[c].session \in Scopes \cup {None}
       /\ inbound[c].fifo \in Seq(Addr) /\ inbound[c].last \in Addr \cup {None}
  /\ subs \in [Addr -> SUBSET Remote]
  /\ flag \subseteq Z /\ radio \in BOOLEAN /\ inputs \in 0..MaxCalls
  /\ \A c \in W, t \in Tid : wire[c][t].locos \subseteq Addr
  /\ \A a \in Addr : state[a].speed \in Nat /\ state[a].fwd \in BOOLEAN
  /\ unheard \subseteq Port \X Addr

\* The index the fan-out walks and the clients' FIFOs tell the same story, and
\* a FIFO has no loco twice nor more than its bound (subscribeLocoLocked).
IndexFollows ==
  /\ \A a \in Addr : subs[a] = {c \in Remote : Known(c) /\ a \in ToSet(inbound[c].fifo)}
  /\ \A c \in Remote : Known(c) =>
       Len(inbound[c].fifo) = Cardinality(ToSet(inbound[c].fifo)) /\ Len(inbound[c].fifo) <= FifoMax

\* The highest speed the byte of LAN_X_LOCO_INFO has room for.
MaxShown == CASE Steps = 14 -> 15 [] Steps = 28 -> 28 [] OTHER -> 127

\* A Z21 handset that is paired, subscribed and has the broadcast flag shows
\* the loco as it runs, never as emergency stopped, once nobody works on it.  A
\* station of 14 steps is not promised this for a speed beyond 15, which its
\* LAN_X_LOCO_INFO masks (encodeDriveDB3).
DisplayFollows ==
  \A c \in Z, a \in Addr :
    ( /\ IsPaired(c) /\ c \in flag /\ a \in ToSet(inbound[c].fifo)
      /\ shown[c][a] # None /\ Working(a) = {} /\ <<c, a>> \notin unheard
      /\ Steps = 14 => state[a].speed <= 15 )
    => /\ decodeDriveDB3(Steps, shown[c][a].db3) = Lesser(state[a].speed, MaxShown)
       /\ shown[c][a].fwd = state[a].fwd
       /\ ~isDriveDB3EStop(Steps, shown[c][a].db3)

\* The "last known DCC speed" of a loco on a throttle id is its speed, or was cut
\* down to it for the lease of the client's user.
LastSpeedFollows ==
  \A c \in W, t \in Tid, a \in Addr :
    ( /\ IsPaired(c) /\ a \in wire[c][t].locos
      /\ wire[c][t].lastSpeed[a] # None
      /\ Working(a) = {} /\ <<<<c, t>>, a>> \notin unheard )
    => LET last == wire[c][t].lastSpeed[a]
       IN state[a].speed \in {UISpeed(last), UISpeed(ClampSpeedForControllerLimit(c, a, last))}

\* What the gateways know of a loco is what the store has, for every client
\* that could hear of the last change: it was paired, it watched the loco, and
\* nobody else drove the loco at the same moment.
ThrottlesSound == ThrottlesTypeOK /\ IndexFollows /\ DisplayFollows /\ LastSpeedFollows

\* A direction key alone does not set a standing loco in motion, unless the loco
\* was stopped or driven behind the client's back (withrottle handleDirection).
NoSurpriseStep ==
  \A c \in W, a \in Addr :
    ( /\ job[c].pc = "store" /\ job'[c].pc = "notify"
      /\ job[c].op = "R" /\ job[c].a = a
      /\ state[a].speed = 0 )
    => state'[a].speed = 0 \/ <<<<c, job[c].t>>, a>> \in unheard

NoSurpriseStart == [][NoSurpriseStep]_throttleVars
=============================================================================
