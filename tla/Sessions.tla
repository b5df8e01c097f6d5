------------------------------ MODULE Sessions ------------------------------
(***************************************************************************)
(* The WebSocket sessions of a dcc-bus daemon and what happens to a        *)
(* user's locos when they end: the hub, the read loop, the dead-man        *)
(* watchdog and the delayed close (dcc-bus/ws), the commands that start    *)
(* and stop locos (dcc-bus/cmd), the roster updates and the radio stop.    *)
(*                                                                         *)
(* Every goroutine makes one step between two accesses to shared state.    *)
(* Time is left out: a session may have been silent for too long at any    *)
(* moment, a sleep may take any time.  A speed is moving or not.  The slot *)
(* leaser and who may drive what have modules of their own, SlotLeaser and *)
(* Lending: here every user may drive what is on the roster.               *)
(***************************************************************************)
EXTENDS Integers, Sequences, SequencesExt, FiniteSets

CONSTANTS
  Session, User, Addr,
  UserOf,             \* UserOf[s]: who logged in
  Cap,                \* subscriptions per session
  Single,             \* is singleVehicleControl on?
  MaxCalls,           \* bound on commands, roster updates and failures
  None

ASSUME SessionsAssumption ==
  /\ UserOf \in [Session -> User]
  /\ Cap \in Nat \ {0} /\ Single \in BOOLEAN
  /\ MaxCalls \in Nat
  /\ None \notin Session \cup User \cup Addr

\* The goroutines: three kinds per session, the consumer of roster
\* snapshots and the consumer of radio stops.
Proc == (Session \X {"read", "dog", "late"})
        \cup {<<None, "roster">>, <<None, "radio">>}

VARIABLES
  hub,        \* Hub.sessions
  closed,     \* Session.closed
  reason,     \* Session.closeReason: was it the dead-man?
  sub,        \* Session.subscribeOrder
  roster,     \* RosterCache.allowed
  track,      \* is the loco moving?
  store,      \* LocoStateStore: is it moving, as far as the daemon knows?
  ctrl,       \* LocoStateStore: ControlledByUserID
  proc,       \* the goroutines
  calls,      \* the commands, roster updates and failures so far
  excused,    \* history: the locos that met one of the races listed below
  crept       \* history: the locos the store has moving by a command that
              \* brought no scan, since it was for the first notch

session == <<hub, closed, reason, sub>>
loco == <<track, store, ctrl>>
vars == <<session, roster, loco, proc, calls, excused, crept>>

\* a is the loco a goroutine works on, todo the ones it still has to look
\* at, go what it commands.
Off == [pc |-> "off", a |-> None, go |-> FALSE, todo |-> {}]

TypeOK ==
  /\ hub \subseteq Session
  /\ closed \in [Session -> BOOLEAN]
  /\ reason \in [Session -> {"none", "deadman", "other"}]
  /\ sub \in [Session -> Seq(Addr)]
  /\ \A s \in Session : Len(sub[s]) <= Cap /\ IsInjective(sub[s])
  /\ roster \subseteq Addr
  /\ track \in [Addr -> BOOLEAN] /\ store \in [Addr -> BOOLEAN]
  /\ ctrl \in [Addr -> User \cup {None}]
  /\ proc \in [Proc -> [pc : {"off", "read", "subscribe", "send", "store",
                              "scan", "brake", "stop", "mark", "end",
                              "watch", "shut", "sleep",
                              "retire", "unsubscribe", "apply", "halt",
                              "zero"},
                        a : Addr \cup {None}, go : BOOLEAN, todo : SUBSET Addr]]
  /\ calls \in 0 .. MaxCalls
  /\ excused \subseteq Addr /\ crept \subseteq Addr

Init ==
  /\ hub = {} /\ closed = [s \in Session |-> FALSE]
  /\ reason = [s \in Session |-> "none"]
  /\ sub = [s \in Session |-> <<>>]
  /\ roster = Addr
  /\ track = [a \in Addr |-> FALSE] /\ store = [a \in Addr |-> FALSE]
  /\ ctrl = [a \in Addr |-> None]
  /\ proc = [p \in Proc |-> Off]
  /\ calls = 0
  /\ excused = {} /\ crept = {}

-----------------------------------------------------------------------------
(***************************************************************************)
(* Goroutines.                                                             *)
(***************************************************************************)

Of(p) == UserOf[p[1]]
At(p, pc) == proc[p].pc = pc
To(p, pc) == proc' = [proc EXCEPT ![p] = [@ EXCEPT !.pc = pc]]
Goto(p, pc, a, go, todo) ==
  proc' = [proc EXCEPT ![p] = [pc |-> pc, a |-> a, go |-> go, todo |-> todo]]

\* On with a loop over todo, or with what follows it: the read loop reads
\* the next frame, the watchdog closes its session.
Loop(p, pc, todo) ==
  LET exit == IF p[2] = "read" THEN "read" ELSE IF p[2] = "dog" THEN "shut" ELSE "off"
  IN Goto(p, IF todo = {} THEN exit ELSE pc, None, FALSE, todo)

\* Has the watchdog of s found it silent?
Fired(s) == proc[<<s, "dog">>].pc \in {"stop", "mark", "shut", "end"}

SessionsForUser(u) == {s \in hub : UserOf[s] = u}

\* Some other goroutine has written a to the station and not yet to the
\* store: the two will disagree if this one writes too.
Overlaps(p, a) ==
  \E q \in Proc \ {p} : proc[q].a = a /\ proc[q].pc \in {"store", "brake", "mark", "zero"}

\* A command that starts a loco comes too late for the dead-man plan of its
\* own session, or for the retirement of the loco.
TooLate(p, a, go) ==
  /\ go
  /\ \/ p[2] = "read" /\ Fired(p[1])
     \/ a \notin roster
     \/ proc[<<None, "roster">>].a = a

Excuse(p, a, go) ==
  excused' = IF Overlaps(p, a) \/ TooLate(p, a, go) THEN excused \cup {a} ELSE excused

-----------------------------------------------------------------------------
(***************************************************************************)
(* A session opens, fails, ends.                                           *)
(***************************************************************************)

\* handleWS: Register, the opened frame, the read loop and the watchdog.
handleWS(s) ==
  /\ At(<<s, "read">>, "off")
  /\ hub' = hub \cup {s}
  /\ proc' = [proc EXCEPT ![<<s, "read">>].pc = "read",
                          ![<<s, "dog">>].pc = "watch"]
  /\ UNCHANGED <<closed, reason, sub, roster, crept, loco,
                 calls, excused>>

\* Close: only the first call does anything.
Close(s, why) ==
  /\ closed' = [closed EXCEPT ![s] = TRUE]
  /\ reason' = [reason EXCEPT ![s] = IF closed[s] THEN @ ELSE why]

\* writeLoop: a frame cannot be written.
WriteFails(s) ==
  /\ s \in hub /\ ~closed[s] /\ calls < MaxCalls
  /\ calls' = calls + 1
  /\ Close(s, "other")
  /\ UNCHANGED <<hub, sub, roster, crept, loco, proc,
                 excused>>

\* readLoop: Read fails, because the peer went away or the session was
\* closed.  The deferred function: Unregister, Close and, unless the
\* dead-man closed the session, the goroutine of the delayed close.
ReadEnds(s) ==
  LET p == <<s, "read">>
  IN /\ At(p, "read")
     /\ hub' = hub \ {s}
     /\ Close(s, "other")
     /\ proc' = [proc EXCEPT ![p].pc = "end",
                             ![<<s, "late">>].pc = IF reason[s] = "deadman" THEN "off"
                                                   ELSE "sleep"]
     /\ UNCHANGED <<sub, roster, crept, loco, calls, excused>>

-----------------------------------------------------------------------------
(***************************************************************************)
(* HandleSessionClose, the dead-man plan.                                  *)
(***************************************************************************)

\* Mutant: only the subscriptions are collected.
CollectSubscribed(u, more) ==
  more \cup UNION {ToSet(sub[s]) : s \in SessionsForUser(u)}

\* collectDriveTargetsForUser
collectDriveTargetsForUser(u, more) ==
  more \cup (UNION {ToSet(sub[s]) : s \in SessionsForUser(u)})
        \cup {a \in roster : ctrl[a] = u}

\* isLastSessionForUser and the choice of what to stop.  Two races: the
\* answer "not the last one" is wrong when all the others have fired, since
\* they skip as well; and a command of the session that has reached the
\* station and not the store is not seen.
HandleSessionClose(p) ==
  LET s == p[1]
      others == SessionsForUser(Of(p)) \ {s}
      last == others = {}
      own == IF p[2] = "dog" /\ s \in hub THEN ToSet(sub[s]) ELSE {}
      crossed == IF ~last /\ \A x \in others : Fired(x)
                 THEN {a \in Addr : ctrl[a] = Of(p)} ELSE {}
      unseen == {a \in Addr : \E x \in others \cup {s} :
                   proc[<<x, "read">>].a = a /\ proc[<<x, "read">>].pc = "store"}
  IN /\ Loop(p, "stop", IF last THEN collectDriveTargetsForUser(Of(p), ToSet(sub[s]))
                        ELSE own)
     /\ excused' = excused \cup crossed \cup unseen
     /\ UNCHANGED <<session, roster, crept, loco, calls>>

\* watchDeadman: the session, not closed, was silent for too long, which it
\* may be at any moment: Touch has no effect where there is no time.
watchDeadman(s) ==
  /\ At(<<s, "dog">>, "watch") /\ ~closed[s]
  /\ HandleSessionClose(<<s, "dog">>)

\* The delayed close wakes up.
delayedSessionClose(s) ==
  /\ At(<<s, "late">>, "sleep")
  /\ HandleSessionClose(<<s, "late">>)

\* applyEmergencyStop, one loco: shouldEmergencyStopLoco reads the store
\* (a loco the store does not know moves counts as moving only in an
\* explicit e-stop, where stopping it changes nothing here), then the
\* station is told to stop it.
StopOne(p) ==
  /\ At(p, "stop")
  /\ \E a \in proc[p].todo :
       LET rest == proc[p].todo \ {a}
       IN \/ /\ ~store[a]
             /\ Loop(p, "stop", rest)
             /\ UNCHANGED <<track, calls, excused>>
          \/ /\ store[a]
             /\ track' = [track EXCEPT ![a] = FALSE]
             /\ Goto(p, "mark", a, FALSE, rest)
             /\ Excuse(p, a, FALSE)
             /\ UNCHANGED calls
          \/ /\ store[a] /\ calls < MaxCalls   \* the station refuses
             /\ calls' = calls + 1
             /\ Loop(p, "stop", rest)
             /\ excused' = excused \cup {a}
             /\ UNCHANGED track
  /\ UNCHANGED <<session, roster, crept, store, ctrl>>

\* ... and the store records it, with the user of the session, or, in a radio
\* stop, the user whose locos are being stopped.
StopMark(p) ==
  LET a == proc[p].a
  IN /\ At(p, "mark")
     /\ store' = [store EXCEPT ![a] = FALSE] /\ crept' = crept \ {a}
     /\ \E s \in Session : /\ p[1] # None => s = p[1]
                           /\ ctrl' = [ctrl EXCEPT ![a] = UserOf[s]]
     /\ Loop(p, "stop", proc[p].todo)
     /\ UNCHANGED <<session, roster, track, calls, excused>>

CloseDeadman(s) ==
  LET p == <<s, "dog">>
  IN /\ At(p, "shut")
     /\ Close(s, "deadman")
     /\ To(p, "end")
     /\ UNCHANGED <<hub, sub, roster, crept, loco, calls,
                    excused>>

-----------------------------------------------------------------------------
(***************************************************************************)
(* Frames.                                                                 *)
(***************************************************************************)

Command(s) ==
  /\ At(<<s, "read">>, "read") /\ ~closed[s]
  /\ calls < MaxCalls /\ calls' = calls + 1
  /\ UNCHANGED <<hub, closed, reason, roster, crept, loco, excused>>

\* HandleSubscribe checks the roster, then enforceSubscriptionCap drops the
\* oldest subscription when there is no room.
HandleSubscribe(s, a) ==
  /\ a \in roster
  /\ Command(s)
  /\ Goto(<<s, "read">>, "subscribe", a, FALSE, {})
  /\ UNCHANGED sub

enforceSubscriptionCap(s) ==
  LET p == <<s, "read">>
      a == proc[p].a
      room == IF Len(sub[s]) >= Cap THEN Tail(sub[s]) ELSE sub[s]
  IN /\ At(p, "subscribe")
     /\ sub' = IF Contains(sub[s], a) THEN sub
               ELSE [sub EXCEPT ![s] = Append(room, a)]
     /\ Goto(p, "read", None, FALSE, {})
     /\ UNCHANGED <<hub, closed, reason, roster, crept, loco,
                    calls, excused>>

\* The payload v is 0 (or an emergency), 1, the first notch, or more.  The
\* first notch moves a loco too (WireSpeedFromPayload), but only a speed above
\* it has the other locos scanned.
HandleSetSpeed(s, a, v) ==
  /\ a \in roster
  /\ Command(s)
  /\ Goto(<<s, "read">>, "send", a, v > 0, IF Single /\ v > 1 THEN Addr \ {a} ELSE {})
  /\ UNCHANGED sub

HandleEStop(s) ==
  /\ Command(s)
  /\ Loop(<<s, "read">>, "stop", ToSet(sub[s]))
  /\ UNCHANGED sub

-----------------------------------------------------------------------------
(***************************************************************************)
(* applyMemberSetSpeed and enforceSingleVehicleControl.                    *)
(***************************************************************************)

\* The station first; when it fails (or a newer speed superseded this one)
\* the store is not written.
SendSpeed(s) ==
  LET p == <<s, "read">>
      a == proc[p].a
  IN /\ At(p, "send")
     /\ \/ track' = [track EXCEPT ![a] = proc[p].go]
           /\ To(p, "store")
           /\ Excuse(p, a, proc[p].go)
        \/ UNCHANGED <<track, excused>> /\ Goto(p, "read", None, FALSE, {})
     /\ UNCHANGED <<session, roster, crept, store, ctrl, calls>>

\* Mutant: only the locos the session subscribes to are braked.
ScanSubscribed(s) ==
  LET p == <<s, "read">>
      a == proc[p].a
  IN /\ At(p, "store")
     /\ store' = [store EXCEPT ![a] = proc[p].go]
     /\ ctrl' = [ctrl EXCEPT ![a] = UserOf[s]]
     /\ Loop(p, "scan", {b \in proc[p].todo \cap roster : Contains(sub[s], b)})
     /\ crept' = IF proc[p].go /\ proc[p].todo = {} THEN crept \cup {a} ELSE crept \ {a}
     /\ UNCHANGED <<session, roster, track, calls, excused>>

StoreSpeed(s) ==
  LET p == <<s, "read">>
      a == proc[p].a
  IN /\ At(p, "store")
     /\ store' = [store EXCEPT ![a] = proc[p].go]
     /\ ctrl' = [ctrl EXCEPT ![a] = UserOf[s]]
     /\ Loop(p, "scan", proc[p].todo \cap roster)
     /\ crept' = IF proc[p].go /\ proc[p].todo = {} THEN crept \cup {a} ELSE crept \ {a}
     /\ UNCHANGED <<session, roster, track, calls, excused>>

\* One loco of the scan: stop it when the user drives it.
ScanOne(p) ==
  /\ At(p, "scan")
  /\ \E a \in proc[p].todo :
       LET rest == proc[p].todo \ {a}
           moves == store[a] /\ ctrl[a] = Of(p)
       IN \/ /\ ~moves
             /\ Loop(p, "scan", rest)
             /\ UNCHANGED <<track, calls, excused>>
          \/ /\ moves
             /\ track' = [track EXCEPT ![a] = FALSE]
             /\ Goto(p, "brake", a, FALSE, rest)
             /\ Excuse(p, a, FALSE)
             /\ UNCHANGED calls
          \/ /\ moves /\ calls < MaxCalls
             /\ calls' = calls + 1
             /\ Loop(p, "scan", rest)
             /\ excused' = excused \cup {a}
             /\ UNCHANGED track
  /\ UNCHANGED <<session, roster, crept, store, ctrl>>

ScanStore(p) ==
  LET a == proc[p].a
  IN /\ At(p, "brake")
     /\ store' = [store EXCEPT ![a] = FALSE] /\ crept' = crept \ {a}
     /\ ctrl' = [ctrl EXCEPT ![a] = Of(p)]
     /\ Loop(p, "scan", proc[p].todo)
     /\ UNCHANGED <<session, roster, track, calls, excused>>

-----------------------------------------------------------------------------
(***************************************************************************)
(* ApplyAllowedVehicles and the radio stop.                                *)
(***************************************************************************)

Ros == <<None, "roster">>
Radio == <<None, "radio">>

\* A snapshot without a, or with a again.
SnapshotWithout(a) ==
  /\ At(Ros, "off") /\ a \in roster /\ calls < MaxCalls
  /\ calls' = calls + 1
  /\ Goto(Ros, "retire", a, FALSE, {})
  /\ UNCHANGED <<session, roster, crept, loco, excused>>

SnapshotWith(a) ==
  /\ At(Ros, "off") /\ a \notin roster /\ calls < MaxCalls
  /\ calls' = calls + 1
  /\ Goto(Ros, "apply", a, TRUE, {})
  /\ UNCHANGED <<session, roster, crept, loco, excused>>

\* Mutant: the removed loco is left as it is.
RetireMoving ==
  /\ At(Ros, "retire")
  /\ To(Ros, "unsubscribe")
  /\ UNCHANGED <<session, roster, crept, loco, calls, excused>>

\* retireRemovedLoco stops it at the station, and leaves the store alone.
retireRemovedLoco ==
  LET a == proc[Ros].a
  IN /\ At(Ros, "retire")
     /\ \/ track' = [track EXCEPT ![a] = FALSE]
           /\ Excuse(Ros, a, FALSE)
           /\ UNCHANGED calls
        \/ /\ calls < MaxCalls
           /\ calls' = calls + 1
           /\ excused' = excused \cup {a}
           /\ UNCHANGED track
     /\ To(Ros, "unsubscribe")
     /\ UNCHANGED <<session, roster, crept, store, ctrl>>

\* A session has an address once.
Unsubscribe(order, a) ==
  LET at == {i \in DOMAIN order : order[i] = a}
  IN IF at = {} THEN order ELSE RemoveAt(order, CHOOSE i \in at : TRUE)

UnsubscribeAll ==
  /\ At(Ros, "unsubscribe")
  /\ sub' = [s \in Session |->
               IF s \in hub THEN Unsubscribe(sub[s], proc[Ros].a) ELSE sub[s]]
  /\ To(Ros, "apply")
  /\ UNCHANGED <<hub, closed, reason, roster, crept, loco,
                 calls, excused>>

ApplySnapshot ==
  LET a == proc[Ros].a
  IN /\ At(Ros, "apply")
     /\ roster' = IF proc[Ros].go THEN roster \cup {a} ELSE roster \ {a}
     /\ Goto(Ros, "off", None, FALSE, {})
     /\ UNCHANGED <<session, crept, loco, calls, excused>>

HandleRadioStop ==
  /\ At(Radio, "off") /\ calls < MaxCalls
  /\ calls' = calls + 1
  /\ Goto(Radio, "halt", None, FALSE, roster)
  /\ UNCHANGED <<session, roster, crept, loco, excused>>

\* applyEStopAll: every loco of the roster, moving or not; the store is
\* written although the station may have failed, and not when a newer speed
\* superseded the stop.
HaltOne ==
  /\ At(Radio, "halt")
  /\ \E a \in proc[Radio].todo :
       LET rest == proc[Radio].todo \ {a}
       IN \/ /\ track' = [track EXCEPT ![a] = FALSE] /\ Excuse(Radio, a, FALSE)
             /\ Goto(Radio, "zero", a, FALSE, rest)
             /\ UNCHANGED calls
          \/ /\ calls < MaxCalls /\ calls' = calls + 1
             /\ UNCHANGED track
             /\ \/ excused' = excused \cup {a} /\ Goto(Radio, "zero", a, FALSE, rest)
                \/ UNCHANGED excused /\ Goto(Radio, "halt", None, FALSE, rest)
  /\ UNCHANGED <<session, roster, crept, store, ctrl>>

HaltStore ==
  LET a == proc[Radio].a
  IN /\ At(Radio, "zero")
     /\ store' = [store EXCEPT ![a] = FALSE] /\ crept' = crept \ {a}
     /\ Goto(Radio, "halt", None, FALSE, proc[Radio].todo)
     /\ UNCHANGED <<session, roster, track, ctrl, calls, excused>>

\* After the layout, HandleRadioStop stops what users with a session drive.
HaltDone ==
  /\ At(Radio, "halt") /\ proc[Radio].todo = {}
  /\ Loop(Radio, "stop",
          UNION {collectDriveTargetsForUser(UserOf[s], {}) : s \in hub})
  /\ UNCHANGED <<session, roster, crept, loco, calls, excused>>

-----------------------------------------------------------------------------
Work(p) == StopOne(p) \/ StopMark(p) \/ ScanOne(p) \/ ScanStore(p)

\* The steps that a session's goroutines take by themselves.
Run(s) ==
  \/ watchDeadman(s) \/ CloseDeadman(s) \/ delayedSessionClose(s)
  \/ enforceSubscriptionCap(s) \/ SendSpeed(s) \/ StoreSpeed(s)

Client(s) ==
  \/ handleWS(s) \/ WriteFails(s) \/ ReadEnds(s)
  \/ HandleEStop(s)
  \/ \E a \in Addr :
       \/ HandleSubscribe(s, a)
       \/ \E v \in 0 .. 2 : HandleSetSpeed(s, a, v)

Server ==
  \/ \E a \in Addr : SnapshotWithout(a) \/ SnapshotWith(a)
  \/ retireRemovedLoco \/ UnsubscribeAll \/ ApplySnapshot
  \/ HandleRadioStop \/ HaltOne \/ HaltStore \/ HaltDone

Next ==
  \/ \E s \in Session : Client(s) \/ Run(s)
  \/ \E p \in Proc : Work(p)
  \/ Server

Spec == Init /\ [][Next]_vars

-----------------------------------------------------------------------------
(***************************************************************************)
(* Properties.                                                             *)
(***************************************************************************)

\* The locos that move for u: the last command is u's, and nobody's newer one
\* is on its way from the station to the store.  Those that met a race apart.
Under(u) ==
  {a \in Addr \ excused :
     /\ track[a] /\ ctrl[a] = u
     /\ \A s \in Session : ~(At(<<s, "read">>, "store") /\ proc[<<s, "read">>].a = a)}

\* Nobody is left to look after the locos of u: all sessions are gone and
\* every close has been handled.
Left(u) ==
  \A s \in Session : UserOf[s] = u =>
    /\ s \notin hub
    /\ \A k \in {"read", "dog", "late"} : proc[<<s, k>>].pc \in {"off", "end", "watch"}

\* No runaway: once the last session of a user is gone and its close has
\* been handled, by the watchdog or by the delayed close, no loco the user
\* drove is moving, whichever of several sessions went first, and although
\* a session that came back in between made a close skip the stop.
NoRunaway == \A u \in User : Left(u) => Under(u) = {}

\* Single vehicle control: a user whose sessions are all at rest moves at
\* most one loco, however the commands of two tabs interleave.  Locos that
\* creep at the first notch are not counted (set_speed.go tests p.Speed > 1).
Resting(u) ==
  \A s \in Session : UserOf[s] = u =>
    proc[<<s, "read">>].pc \notin {"send", "store", "scan", "brake"}

OneVehicle == Single => \A u \in User : Resting(u) => Cardinality(Under(u) \ crept) <= 1

\* A loco off the roster, which no user can reach any more, stands still
\* (retireRemovedLoco before ApplySnapshot).
RetiredStands ==
  \A a \in Addr \ roster : track[a] => a \in excused

\* A session keeps within its cap, and what it could reach before the roster
\* changed stands still (enforceSubscriptionCap, retireRemovedLoco).
RosterKept == TypeOK /\ RetiredStands
=============================================================================
