----------------------------- MODULE Signalbox -----------------------------
(***************************************************************************)
(* The signal boxes of a layout: who staffs which (cmd/                    *)
(* interlocking_occupancy.go, interlocking.go), the walkie-talkie between  *)
(* drivers and boxes (cmd/radio.go, radio_control.go,                      *)
(* service/radio_store.go), and the two stops anybody may ask the server   *)
(* for: Radio Stop for the whole layout (cmd/radio_stop.go) and the stop   *)
(* of one target (cmd/estop_target.go).                                    *)
(*                                                                         *)
(* A message is appended to one Redis stream after the other, each of      *)
(* which numbers its entries by itself: the millisecond and a counter.     *)
(* A page (web/src/api/radio.ts) loads the history of the boxes once its   *)
(* user staffs one, and merges what arrives live, by the entry's number.   *)
(*                                                                         *)
(* There is one layout, and fewer messages than a replay may return.  The  *)
(* reads of one request before it writes are one step, so is one Redis     *)
(* call or one transaction.  A client's send queue has room.  No user is   *)
(* an administrator.                                                       *)
(***************************************************************************)
EXTENDS Integers, Sequences, FiniteSets

CONSTANTS User, Box, Station, Proc,
          Driver,      \* users with a vehicle on the layout's roster
          MaxMs,       \* bound on the clock that numbers entries
          MaxCalls,    \* bound on users' requests
          MaxFaults,   \* bound on faults and the administrator's changes
          None

SignalboxAssumption ==
  /\ MaxMs \in Nat /\ MaxCalls \in Nat /\ MaxFaults \in Nat
  /\ None \notin User /\ None \notin [u : User, n : Nat]

VARIABLES
  signalman,  \* users with a signalman's grant
  listed,     \* boxes on the layout's whitelist
  chat,       \* Layout.RadioChatEnabled
  seat,       \* the active session of a box, [u, n], or None
  told,       \* the occupant of a box the clients were last told
  blurred,    \* history: boxes of which they may have been told wrong
  now,        \* the millisecond of the last entry
  stream,     \* the Redis streams
  accepted,   \* history: messages whose sender got an ok
  page,       \* entries on a signalman's page
  loaded,     \* users whose page has its history
  cut,        \* history: messages that arrived while the history was read
  dropped,    \* history: boxes taken off the layout
  window,     \* RadioStop.lastTrigger is less than the debounce ago
  stop,       \* history of the window: what became of its radio stops
  proc,       \* the goroutines of requests
  calls, faults

boxes == <<signalman, listed, chat, dropped>>
seats == <<seat, told, blurred>>
radio == <<now, stream, accepted>>
pages == <<page, loaded, cut>>
stops == <<window, stop>>
bounds == <<calls, faults>>
vars == <<boxes, seats, radio, pages, stops, proc, bounds>>

Off == [pc |-> "off", u |-> None, b |-> None, cur |-> None, m |-> None,
        keys |-> <<>>, id |-> None, rows |-> {}, left |-> {}]
Quiet == [published |-> FALSE, failed |-> FALSE, confirmed |-> FALSE]

UserKey(u) == <<"user", u>>
BoxKey(b) == <<"box", b>>
Key == {UserKey(u) : u \in User} \cup {BoxKey(b) : b \in Box}

Staffs(u, b) == seat[b] # None /\ seat[b].u = u
\* activeInterlockingForUser.
BoxOf(u) == IF \E b \in Box : Staffs(u, b) THEN CHOOSE b \in Box : Staffs(u, b)
            ELSE None

\* One box is staffed by a user whose page has its history.
Init ==
  /\ signalman = User /\ listed = Box /\ chat = TRUE
  /\ \E b \in Box, u \in User :
       /\ seat = [c \in Box |-> IF c = b THEN [u |-> u, n |-> 0] ELSE None]
       /\ told = [c \in Box |-> IF c = b THEN u ELSE None]
       /\ loaded = {u}
  /\ blurred = {} /\ dropped = {} /\ cut = {} /\ accepted = {}
  /\ now = 0 /\ stream = [k \in Key |-> <<>>]
  /\ page = [u \in User |-> {}]
  /\ window = FALSE /\ stop = Quiet
  /\ proc = [p \in Proc |-> Off]
  /\ calls = 0 /\ faults = 0

Request(p) ==
  proc[p] = Off /\ calls < MaxCalls /\ calls' = calls + 1 /\ UNCHANGED faults
Fault == faults < MaxFaults /\ faults' = faults + 1 /\ UNCHANGED calls
Goto(p, r) == proc' = [proc EXCEPT ![p] = r]
Done(p) == Goto(p, Off)

(***************************************************************************)
(* The catalogue and the grants.                                           *)
(***************************************************************************)

\* The layout's whitelist is replaced; a box that is deleted leaves it too.
\* An active session stays.
SetInterlockings(S) ==
  /\ Fault /\ S # listed
  /\ listed' = S
  /\ dropped' = dropped \cup (listed \ S)
  /\ UNCHANGED <<signalman, chat, seats, radio, pages, stops, proc>>

UpdateRadioChatEnabled ==
  /\ Fault
  /\ chat' = ~chat
  /\ UNCHANGED <<signalman, listed, dropped, seats, radio, pages, stops, proc>>

\* GrantSignalman, GrantSignalmanToUser and RevokeSignalman.
SetSignalman(u) ==
  /\ Fault
  /\ signalman' = IF u \in signalman THEN signalman \ {u} ELSE signalman \cup {u}
  /\ UNCHANGED <<listed, chat, dropped, seats, radio, pages, stops, proc>>

(***************************************************************************)
(* Occupancy.                                                              *)
(***************************************************************************)

AtBox(b) == {p \in Proc : proc[p].pc \in {"join", "joined", "leave", "left"}
                          /\ proc[p].b = b}

CanOccupy(u, b) == b \in listed /\ u \in signalman /\ seat[b] = None
CanDisplace(u) == u \in signalman

\* Join reads the whitelist, the roles and the box's session; a staffed box
\* takes force.  The session it will insert has a number of its own.
Join(p, u, b, force) ==
  /\ Request(p) /\ ~Staffs(u, b)
  /\ CanOccupy(u, b) \/ (b \in listed /\ force /\ CanDisplace(u))
  /\ Goto(p, [Off EXCEPT !.pc = "join", !.u = u, !.b = b, !.cur = seat[b],
                         !.id = calls + 1])
  /\ UNCHANGED <<boxes, seats, radio, pages, stops>>

\* Mutant: the user's other sessions stay.
JoinBeside(p) ==
  LET b == proc[p].b IN
  /\ proc[p].pc = "join" /\ seat[b] \in {None, proc[p].cur}
  /\ seat' = [seat EXCEPT ![b] = [u |-> proc[p].u, n |-> proc[p].id]]
  /\ Goto(p, [proc[p] EXCEPT !.pc = "joined"])
  /\ UNCHANGED <<boxes, told, blurred, radio, pages, stops, bounds>>

\* The transaction ends the session that was read and the user's own, and
\* inserts his; another active session of the box violates the unique index
\* and undoes it all.
JoinCommit(p) ==
  LET u == proc[p].u
      b == proc[p].b
      ended == {c \in Box : Staffs(u, c) \/ (c = b /\ seat[c] # None /\ seat[c] = proc[p].cur)}
  IN
  /\ proc[p].pc = "join"
  /\ IF seat[b] # None /\ b \notin ended
     THEN Done(p) /\ UNCHANGED <<seat, blurred, loaded>>
     ELSE /\ seat' = [c \in Box |-> IF c = b THEN [u |-> u, n |-> proc[p].id]
                                    ELSE IF c \in ended THEN None ELSE seat[c]]
          /\ blurred' = blurred \cup (ended \ {b}) \cup (IF AtBox(b) = {p} THEN {} ELSE {b})
          /\ loaded' = loaded \ ({u} \cup {seat[c].u : c \in ended})
          /\ Goto(p, [proc[p] EXCEPT !.pc = "joined"])
  /\ UNCHANGED <<boxes, told, radio, page, cut, stops, bounds>>

\* Those who watch hear "displaced" and "joined".
JoinTell(p) ==
  LET b == proc[p].b IN
  /\ proc[p].pc = "joined"
  /\ told' = [told EXCEPT ![b] = proc[p].u]
  /\ blurred' = IF AtBox(b) = {p} /\ Staffs(proc[p].u, b) THEN blurred \ {b}
                ELSE blurred \cup {b}
  /\ Done(p)
  /\ UNCHANGED <<boxes, seat, radio, pages, stops, bounds>>

Leave(p, u, b) ==
  /\ Request(p) /\ Staffs(u, b)
  /\ Goto(p, [Off EXCEPT !.pc = "leave", !.u = u, !.b = b, !.cur = seat[b]])
  /\ UNCHANGED <<boxes, seats, radio, pages, stops>>

LeaveEnd(p) ==
  LET b == proc[p].b IN
  /\ proc[p].pc = "leave"
  /\ IF seat[b] = proc[p].cur
     THEN seat' = [seat EXCEPT ![b] = None] /\ loaded' = loaded \ {proc[p].u}
     ELSE UNCHANGED <<seat, loaded>>
  /\ blurred' = IF AtBox(b) = {p} /\ seat[b] = proc[p].cur THEN blurred
                ELSE blurred \cup {b}
  /\ Goto(p, [proc[p] EXCEPT !.pc = "left"])
  /\ UNCHANGED <<boxes, told, radio, page, cut, stops, bounds>>

LeaveTell(p) ==
  LET b == proc[p].b IN
  /\ proc[p].pc = "left"
  /\ told' = [told EXCEPT ![b] = None]
  /\ blurred' = IF AtBox(b) = {p} /\ seat[b] = None THEN blurred \ {b}
                ELSE blurred \cup {b}
  /\ Done(p)
  /\ UNCHANGED <<boxes, seat, radio, pages, stops, bounds>>

(***************************************************************************)
(* The walkie-talkie.                                                      *)
(***************************************************************************)

\* Mutant: the addressee's stream first.
KeysReversed(m, ilk) ==
  IF m.to = None THEN <<BoxKey(m.box), UserKey(m.from)>>
  ELSE <<UserKey(m.to), UserKey(m.from)>>

\* The sender's stream, the addressee's, and the box a signalman speaks from.
StreamKeysForSend(m, ilk) ==
  IF m.to = None THEN <<UserKey(m.from), BoxKey(m.box)>>
  ELSE (IF m.to = m.from THEN <<UserKey(m.to)>> ELSE <<UserKey(m.from), UserKey(m.to)>>)
       \o (IF ilk = None THEN <<>> ELSE <<BoxKey(ilk)>>)

ensureRadioChatEnabled == chat
\* Exactly one of addressee and box.
ValidateTarget(to, box) == (to = None) # (box = None)
CanSend(u, to) == to # None => u \in signalman

\* Whether the box is on the layout is not asked.
Send(p, u, to, box) ==
  /\ Request(p) /\ ensureRadioChatEnabled
  /\ ValidateTarget(to, box) /\ CanSend(u, to)
  /\ LET m == [n |-> calls, from |-> u, to |-> to, box |-> box]
     IN Goto(p, [Off EXCEPT !.pc = "append", !.u = u, !.m = m,
                            !.keys = StreamKeysForSend(m, BoxOf(u))])
  /\ UNCHANGED <<boxes, seats, radio, pages, stops>>

\* XADD numbers the entry: the millisecond, and a counter within it.
NextId(k, t) == <<t, Len(SelectSeq(stream[k], LAMBDA e : e.id[1] = t))>>

Append1(p) ==
  LET r == proc[p]
      k == Head(r.keys)
  IN
  /\ r.pc = "append"
  /\ \E t \in now .. MaxMs :
       /\ now' = t
       /\ stream' = [stream EXCEPT ![k] = Append(@, [id |-> NextId(k, t), m |-> r.m])]
       /\ Goto(p, [r EXCEPT !.keys = Tail(@),
                            !.id = IF @ = None THEN NextId(k, t) ELSE @,
                            !.pc = IF Len(r.keys) = 1 THEN "fanout" ELSE "append"])
  /\ UNCHANGED <<boxes, seats, accepted, pages, stops, bounds>>

\* Redis fails: what was appended stays, and the sender is told it failed.
AppendFails(p) ==
  /\ proc[p].pc = "append" /\ Fault
  /\ Done(p)
  /\ UNCHANGED <<boxes, seats, radio, pages, stops>>

Reading(u) == \E p \in Proc : proc[p].pc = "replay" /\ proc[p].u = u

\* mergeMessage on the page of each of S: a number that is there is not added.
Merge(S, e) ==
  /\ page' = [u \in User |->
                IF u \in S \cap loaded /\ \A f \in page[u] : f.id # e.id
                THEN page[u] \cup {e} ELSE page[u]]
  /\ cut' = IF \E u \in S : Reading(u) THEN cut \cup {e.m} ELSE cut

occupantUserID(b) == IF seat[b] = None THEN None ELSE seat[b].u

\* The sender and the addressee, and who staffs the box now, ...
FanOut(p) ==
  LET r == proc[p] IN
  /\ r.pc = "fanout"
  /\ Merge({r.m.from, r.m.to}, [id |-> r.id, m |-> r.m])
  /\ Goto(p, [r EXCEPT !.pc = "occupant",
                       !.cur = IF r.m.box = None THEN None ELSE occupantUserID(r.m.box)])
  /\ UNCHANGED <<boxes, seats, radio, loaded, stops, bounds>>

\* ... who is told next.
FanOutOccupant(p) ==
  LET r == proc[p] IN
  /\ r.pc = "occupant"
  /\ IF r.cur = None THEN UNCHANGED <<page, cut>>
     ELSE Merge({r.cur}, [id |-> r.id, m |-> r.m])
  /\ accepted' = accepted \cup {r.m}
  /\ Done(p)
  /\ UNCHANGED <<boxes, seats, now, stream, loaded, stops, bounds>>

History(k) == {stream[k][i] : i \in DOMAIN stream[k]}

interlockingStreamKeys == {BoxKey(b) : b \in listed}
CanReplayInterlocking(u) == u \in signalman /\ BoxOf(u) # None

\* What RadioStore.Replay may return: of entries with one number the first
\* stream's is taken, in whatever order the streams are read.
Replay(keys) ==
  LET all == UNION {History(k) : k \in keys} IN
  {rows \in SUBSET all : /\ {e.id : e \in rows} = {e.id : e \in all}
                         /\ \A e, f \in rows : e.id = f.id => e = f}

\* A page whose user staffs a box asks for the history of the layout's boxes.
ReplayInterlocking(p, u) ==
  /\ proc[p] = Off /\ ensureRadioChatEnabled
  /\ CanReplayInterlocking(u) /\ u \notin loaded /\ ~Reading(u)
  /\ \E rows \in Replay(interlockingStreamKeys) :
       Goto(p, [Off EXCEPT !.pc = "replay", !.u = u, !.rows = rows,
                         !.cur = seat[BoxOf(u)]])
  /\ UNCHANGED <<boxes, seats, radio, pages, stops, bounds>>

\* The history replaces what the page had.
ReplayAnswer(p) ==
  LET r == proc[p] IN
  /\ r.pc = "replay"
  /\ page' = [page EXCEPT ![r.u] = r.rows]
  /\ loaded' = IF \E b \in Box : seat[b] = r.cur THEN loaded \cup {r.u} ELSE loaded
  /\ Done(p)
  /\ UNCHANGED <<boxes, seats, radio, cut, stops, bounds>>

(***************************************************************************)
(* Stops.                                                                  *)
(***************************************************************************)

CanTrigger(u) == u \in signalman \cup Driver
debounced == window

\* RadioStop.Trigger: within the debounce of the last one it is done already.
Trigger(p, u) ==
  /\ Request(p) /\ CanTrigger(u)
  /\ IF debounced
     THEN stop' = [stop EXCEPT !.confirmed = TRUE] /\ UNCHANGED <<window, proc>>
     ELSE window' = TRUE /\ stop' = Quiet /\ Goto(p, [Off EXCEPT !.pc = "publish", !.u = u])
  /\ UNCHANGED <<boxes, seats, radio, pages>>

PublishLayoutRadioStop(p) ==
  /\ proc[p].pc = "publish"
  /\ stop' = [stop EXCEPT !.published = TRUE, !.confirmed = TRUE]
  /\ Done(p)
  /\ UNCHANGED <<boxes, seats, radio, pages, window, bounds>>

PublishFails(p) ==
  /\ proc[p].pc = "publish" /\ Fault
  /\ stop' = [stop EXCEPT !.failed = TRUE]
  /\ Done(p)
  /\ UNCHANGED <<boxes, seats, radio, pages, window>>

DebounceEnds ==
  /\ window
  /\ window' = FALSE /\ stop' = Quiet
  /\ UNCHANGED <<boxes, seats, radio, pages, proc, bounds>>

isInterlockingOccupantOnLayout(u) == BoxOf(u) \in listed
\* The owner and the lessees of the target, of a train those of any member.
Controllers == Driver
\* A controller of the target, or a signalman in a box of the layout.
CanStop(u) == u \in Controllers \/ (u \in signalman /\ isInterlockingOccupantOnLayout(u))

\* EStopTarget.Trigger: the command goes to one station after the other.
EStopTarget(p, u) ==
  /\ Request(p) /\ CanStop(u)
  /\ Goto(p, [Off EXCEPT !.pc = "estop", !.u = u, !.left = Station])
  /\ UNCHANGED <<boxes, seats, radio, pages, stops>>

PublishCommand(p) ==
  /\ proc[p].pc = "estop"
  /\ \E s \in proc[p].left :
       Goto(p, IF proc[p].left = {s} THEN Off ELSE [proc[p] EXCEPT !.left = @ \ {s}])
  /\ UNCHANGED <<boxes, seats, radio, pages, stops, bounds>>

PublishCommandFails(p) ==
  /\ proc[p].pc = "estop" /\ Fault
  /\ Done(p)
  /\ UNCHANGED <<boxes, seats, radio, pages, stops>>

\* A restart ends every session; the clients come back and ask again.
Restart ==
  /\ Fault
  /\ seat' = [b \in Box |-> None] /\ told' = [b \in Box |-> None]
  /\ blurred' = {} /\ loaded' = {}
  /\ window' = FALSE /\ stop' = Quiet
  /\ proc' = [p \in Proc |-> Off]
  /\ UNCHANGED <<boxes, radio, page, cut>>

(***************************************************************************)
(* The specification.                                                      *)
(***************************************************************************)

Administration ==
  \/ \E S \in SUBSET Box : SetInterlockings(S)
  \/ UpdateRadioChatEnabled \/ \E u \in User : SetSignalman(u)

Occupancy(p) ==
  \/ \E u \in User, b \in Box : Leave(p, u, b) \/ \E f \in BOOLEAN : Join(p, u, b, f)
  \/ JoinCommit(p) \/ JoinTell(p) \/ LeaveEnd(p) \/ LeaveTell(p)

Calling(p) ==
  \E u \in User : \/ \E v \in User : Send(p, u, v, None)
                  \/ \E b \in Box : Send(p, u, None, b)

Delivering(p) ==
  \/ \E u \in User : ReplayInterlocking(p, u)
  \/ Append1(p) \/ AppendFails(p) \/ FanOut(p) \/ FanOutOccupant(p) \/ ReplayAnswer(p)

Stopping(p) ==
  \/ \E u \in User : Trigger(p, u) \/ EStopTarget(p, u)
  \/ PublishLayoutRadioStop(p) \/ PublishFails(p)
  \/ PublishCommand(p) \/ PublishCommandFails(p)

Next ==
  \/ Administration \/ Restart \/ DebounceEnds
  \/ \E p \in Proc : Occupancy(p) \/ Calling(p) \/ Delivering(p) \/ Stopping(p)

Spec == Init /\ [][Next]_vars

(***************************************************************************)
(* Properties.                                                             *)
(***************************************************************************)

TypeOK ==
  /\ signalman \subseteq User /\ listed \subseteq Box
  /\ \A b \in Box : seat[b] # None => seat[b].u \in User /\ seat[b].n \in 0 .. MaxCalls
  /\ told \in [Box -> User \cup {None}] /\ blurred \cup dropped \subseteq Box
  /\ loaded \subseteq User /\ now \in 0 .. MaxMs /\ calls \in 0 .. MaxCalls 
  /\ faults \in 0 .. MaxFaults
  /\ {chat, window} \subseteq BOOLEAN

\* "A signalman occupies at most one box at a time" (interlocking_sessions.go:48).
OneBox == \A u \in User : Cardinality({b \in Box : Staffs(u, b)}) <= 1

\* The occupant the clients were told is the one in the database, when nobody
\* joins or leaves, unless two requests for the box overlapped or the occupant
\* moved on to another box.
ToldFollows ==
  \A b \in Box : AtBox(b) = {} /\ b \notin blurred =>
    told[b] = IF seat[b] = None THEN None ELSE seat[b].u

\* The boxes are staffed by one user each, a user staffs one, and the clients
\* know (interlocking_occupancy.go Join, Leave).
BoxesSound == TypeOK /\ OneBox /\ ToldFollows

Ids(m) == {e.id : e \in {f \in UNION {History(k) : k \in Key} : f.m = m}}
Messages == {e.m : e \in UNION {History(k) : k \in Key}}
\* Redis numbers two messages of one millisecond in two streams alike.
Clashes(m) == \E o \in Messages \ {m} : Ids(o) \cap Ids(m) # {}

\* Whatever the addressee can read back, so can the sender, even when Redis
\* fails half way (radio_store.go:132, "both sides replay a consistent view").
SenderKeeps ==
  \A k \in Key : \A e \in History(k) :
    \E f \in History(UserKey(e.m.from)) : f.m = e.m

\* A message to a staffed box is on the page of whoever staffs it, if he came
\* before or after it was sent, unless it arrived while his history was on its
\* way or its number clashes.
HeardAtBox ==
  \A m \in accepted, u \in loaded :
    ( /\ m.box # None /\ Staffs(u, m.box) /\ m.box \notin dropped
      /\ m \notin cut /\ ~Clashes(m) )
    => \E e \in page[u] : e.m = m

\* Nobody is told that a radio stop was done when none was sent or is being
\* sent, unless sending failed less than a debounce ago.
StopsSent ==
  stop.confirmed =>
    stop.published \/ stop.failed \/ \E p \in Proc : proc[p].pc = "publish"

\* The walkie-talkie loses no message and Radio Stop is sent when it says so
\* (radio.go Send, radio_stop.go Trigger).
RadioSound == SenderKeeps /\ HeardAtBox /\ StopsSent

\* The signal boxes and their radio (interlocking_occupancy.go, radio.go,
\* radio_stop.go).
SignalboxSound == BoxesSound /\ RadioSound

\* "Radio Stop is independent and always available" (domain/layout.go:58): who
\* is told that it was done, can rely on it.
StopsHonoured ==
  stop.confirmed => stop.published \/ \E p \in Proc : proc[p].pc = "publish"
=============================================================================
