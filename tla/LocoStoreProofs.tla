--------------------------- MODULE LocoStoreProofs ---------------------------
(***************************************************************************)
(* Proofs about LocoStateStore, for every set of locos, handlers and       *)
(* users, every length of the command window and any number of writes.     *)
(*                                                                         *)
(* CommandHolds is not inductive: it needs that the entry's own command    *)
(* window is the last command's until it has expired or was confirmed.     *)
(* Nor is the mirror: it needs what each goroutine between the copy, the   *)
(* Redis SET and the clearing of the mark knows, and that only one of them *)
(* is there per address unless the history says otherwise.                 *)
(***************************************************************************)
EXTENDS LocoStore, TLAPS

-----------------------------------------------------------------------------
(***************************************************************************)
(* The inductive invariant.                                                *)
(***************************************************************************)
ThreadState(E) ==
  [pc : {"idle", "mark", "next", "store", "clear", "seed"}, todo : SUBSET E,
   a : Addr \cup {NoSnap}, snap : Snap, now : BOOLEAN]

Flushing == {"store", "clear"}

\* No stamp lies in the future; a command has one.
Stamps ==
  /\ now >= 2
  /\ \A a \in Addr : /\ snap[a].at <= now /\ told[a].at <= now
                     /\ redis[a] # NoSnap => redis[a].at <= now
  /\ \A t \in Thread : thread[t].snap.at <= now

\* While the last command is unconfirmed and its window lasts, the entry's
\* window is that command's.
WindowInv(a) ==
  told[a].open =>
    /\ a \in exists
    /\ cmd[a].at = 0 => now - told[a].at >= Window
    /\ cmd[a].at # 0 => /\ cmd[a].at = told[a].at
                        /\ cmd[a].speed = told[a].speed /\ cmd[a].fwd = told[a].fwd

\* A goroutine that flushes a copy of the entry: a later write has left, or
\* will leave, its mark; and after the SET the copy is in Redis.
FlushInv(t) ==
  LET r == thread[t]
  IN  r.pc \in Flushing /\ r.a \notin crossed =>
        /\ r.snap.at = snap[r.a].at \/ r.a \in dirty \/ Marking(r.a)
        /\ r.pc = "clear" => redis[r.a] # NoSnap /\ redis[r.a].at >= r.snap.at

\* A goroutine that seeds an entry: until there is one, Redis has the state.
SeedInv(t) ==
  LET r == thread[t]
  IN  r.pc = "seed" =>
        /\ r.a \in Addr /\ redis[r.a] # NoSnap
        /\ r.a \notin exists => redis[r.a].at >= r.snap.at

Lone ==
  \A t, u \in Thread :
    /\ t # u /\ thread[t].pc \in Flushing /\ thread[u].pc \in Flushing
    /\ thread[t].a = thread[u].a
    => thread[t].a \in crossed

Inv ==
  /\ TypeOK /\ Stamps
  /\ \A t \in Thread : thread[t].pc \in {"mark", "store", "clear"} => thread[t].a \in exists
  /\ \A a \in Addr : WindowInv(a)
  /\ CommandHolds
  /\ \A t \in Thread : FlushInv(t) /\ SeedInv(t)
  /\ Lone /\ MirrorFresh

-----------------------------------------------------------------------------
(***************************************************************************)
(* One goroutine moves.                                                    *)
(***************************************************************************)
LEMMA UnknownOK == Unknown \in Snap /\ Unknown.at = 0 /\ 0 \in Time
  BY StoreAssumption DEF Unknown, Snap, Time

LEMMA IdleOK ==
  ASSUME NEW E
  PROVE  Idle \in ThreadState(E) /\ Idle.pc = "idle" /\ Idle.snap.at = 0
  BY UnknownOK DEF Idle, ThreadState

LEMMA ThreadStep ==
  ASSUME TypeOK, NEW t \in Thread, exists \subseteq exists', NEW r \in ThreadState(exists'),
         thread' = [thread EXCEPT ![t] = r]
  PROVE  /\ thread' \in [Thread -> ThreadState(exists')]
         /\ \A u \in Thread : thread'[u] = IF u = t THEN r ELSE thread[u]
<1>1. thread \in [Thread -> ThreadState(exists)]
  BY DEF TypeOK, ThreadState
<1>2. ThreadState(exists) \subseteq ThreadState(exists')
  BY DEF ThreadState
<1> QED BY <1>1, <1>2

\* A step that neither starts nor ends a write leaves the marking goroutines.
LEMMA MarkingFrame ==
  ASSUME NEW t \in Thread, NEW r,
         \A u \in Thread : thread'[u] = IF u = t THEN r ELSE thread[u],
         thread[t].pc # "mark", r.pc # "mark", NEW a
  PROVE  Marking(a)' <=> Marking(a)
  BY DEF Marking

\* Goroutine t moves to r, without a write: what has to be shown.
LEMMA QuietStep ==
  ASSUME Inv, NEW t \in Thread, NEW r \in ThreadState(exists),
         thread' = [thread EXCEPT ![t] = r],
         UNCHANGED <<snap, exists, cmd, dirty, redis, now, writes, told>>,
         thread[t].pc # "mark", r.pc # "mark", r.snap.at <= now,
         r.pc \in Flushing => r.a \in exists,
         crossed \subseteq crossed', crossed' \subseteq exists,
         FlushInv(t)', SeedInv(t)',
         \A u \in Thread \ {t} :
           r.pc \in Flushing /\ thread[u].pc \in Flushing /\ r.a = thread[u].a
             => r.a \in crossed'
  PROVE  Inv'
<1>0. TypeOK /\ Stamps
  BY DEF Inv
<1>1. /\ thread' \in [Thread -> ThreadState(exists)]
      /\ \A u \in Thread : thread'[u] = IF u = t THEN r ELSE thread[u]
  BY <1>0, ThreadStep
<1>2. \A a : Marking(a)' <=> Marking(a)
  BY <1>1, MarkingFrame
<1>3. TypeOK'
  BY <1>0, <1>1 DEF TypeOK, ThreadState
<1>4. Stamps'
  BY <1>0, <1>1 DEF Stamps
<1>5. \A u \in Thread : thread'[u].pc \in {"mark", "store", "clear"} => thread'[u].a \in exists'
  BY <1>1 DEF Inv, Flushing
<1>6. (\A a \in Addr : WindowInv(a)') /\ CommandHolds'
  BY DEF Inv, WindowInv, CommandHolds, InWindow
<1>7. ASSUME NEW u \in Thread PROVE FlushInv(u)' /\ SeedInv(u)'
  <2>1. CASE u = t
    BY <2>1
  <2>2. CASE u # t
    <3>1. thread'[u] = thread[u] /\ FlushInv(u) /\ SeedInv(u)
      BY <1>1, <2>2 DEF Inv
    <3> QED BY <1>2, <3>1 DEF FlushInv, SeedInv
  <2> QED BY <2>1, <2>2
<1>8. Lone'
  BY <1>1 DEF Inv, Lone
<1>9. MirrorFresh'
  BY <1>2 DEF Inv, MirrorFresh, Settled
<1> QED BY <1>3, <1>4, <1>5, <1>6, <1>7, <1>8, <1>9 DEF Inv

-----------------------------------------------------------------------------
(***************************************************************************)
(* Writes.                                                                 *)
(***************************************************************************)

\* What a write of s to loco a has to show about the window.
LEMMA WroteInv ==
  ASSUME Inv, NEW t \in Thread, NEW a \in Addr, NEW s \in Snap, s.at = now,
         NEW priority \in BOOLEAN, Wrote(t, a, s, priority),
         UNCHANGED <<dirty, redis, now, crossed>>,
         cmd' \in [Addr -> [speed : Speeds \cup {0}, fwd : BOOLEAN, at : Time]],
         told' \in [Addr -> [speed : Speeds \cup {0}, fwd : BOOLEAN, at : Time, open : BOOLEAN]],
         \A b \in Addr : told'[b].at <= now,
         \A b \in Addr \ {a} : cmd'[b] = cmd[b] /\ told'[b] = told[b],
         WindowInv(a)',
         InWindow(a)' => s.speed = told'[a].speed /\ s.fwd = told'[a].fwd
  PROVE  Inv'
<1> DEFINE r == [Idle EXCEPT !.pc = "mark", !.a = a, !.now = priority]
<1>0. TypeOK /\ Stamps /\ thread[t].pc = "idle"
  BY DEF Inv, Wrote
<1>1. /\ thread' = [thread EXCEPT ![t] = r] /\ exists' = exists \cup {a}
      /\ snap' = [snap EXCEPT ![a] = s] /\ writes' = writes + 1 /\ writes < MaxWrites
  BY DEF Wrote
<1>2. r \in ThreadState(exists') /\ r.pc = "mark" /\ r.a = a /\ r.snap.at = 0
  BY IdleOK DEF ThreadState, Idle
<1> HIDE DEF r
<1>3. /\ thread' \in [Thread -> ThreadState(exists')]
      /\ \A u \in Thread : thread'[u] = IF u = t THEN r ELSE thread[u]
  BY <1>0, <1>1, <1>2, ThreadStep
<1>4. /\ snap' \in [Addr -> Snap] /\ snap'[a] = s /\ \A b \in Addr \ {a} : snap'[b] = snap[b]
  BY <1>0, <1>1 DEF TypeOK
<1>5. Marking(a)' /\ \A b : b # a => (Marking(b)' <=> Marking(b))
  BY <1>0, <1>2, <1>3 DEF Marking
<1>6. TypeOK'
  <2>1. writes' \in 0 .. MaxWrites /\ now' \in Time
    BY <1>0, <1>1, StoreAssumption DEF TypeOK
  <2> QED BY <1>0, <1>1, <1>3, <1>4, <2>1 DEF TypeOK, ThreadState
<1>7. Stamps'
  <2>1. now \in Nat
    BY <1>0, StoreAssumption DEF TypeOK, Time
  <2> QED BY <1>0, <1>2, <1>3, <1>4, <2>1, SMTT(30) DEF Stamps
<1>8. \A u \in Thread : thread'[u].pc \in {"mark", "store", "clear"} => thread'[u].a \in exists'
  BY <1>1, <1>2, <1>3 DEF Inv
<1>9. ASSUME NEW b \in Addr
      PROVE  WindowInv(b)' /\ (InWindow(b)' => snap'[b].speed = told'[b].speed /\ snap'[b].fwd = told'[b].fwd)
  <2>1. CASE b = a
    BY <1>4, <2>1
  <2>2. CASE b # a
    BY <1>1, <1>4, <2>2 DEF Inv, WindowInv, CommandHolds, InWindow
  <2> QED BY <2>1, <2>2
<1>10. CommandHolds'
  BY <1>9 DEF CommandHolds
<1>11. ASSUME NEW u \in Thread PROVE FlushInv(u)' /\ SeedInv(u)'
  <2>1. CASE u = t
    BY <1>2, <1>3, <2>1 DEF FlushInv, SeedInv, Flushing
  <2>2. CASE u # t
    <3>1. thread'[u] = thread[u] /\ FlushInv(u) /\ SeedInv(u)
      BY <1>3, <2>2 DEF Inv
    <3>2. SeedInv(u)'
      BY <1>1, <3>1 DEF SeedInv
    <3>3. thread[u].pc \in Flushing => thread[u].a \in Addr
      BY <1>0 DEF Inv, TypeOK, Flushing
    <3>4. FlushInv(u)'
      BY <1>4, <1>5, <3>1, <3>3 DEF FlushInv
    <3> QED BY <3>2, <3>4
  <2> QED BY <2>1, <2>2
<1>12. Lone'
  BY <1>2, <1>3 DEF Inv, Lone, Flushing
<1>13. MirrorFresh'
  BY <1>4, <1>5 DEF Inv, MirrorFresh, Settled
<1> QED BY <1>6, <1>7, <1>8, <1>9, <1>10, <1>11, <1>12, <1>13 DEF Inv

LEMMA Clock ==
  ASSUME TypeOK, Stamps
  PROVE  now \in Nat /\ now \in Time /\ now >= 2 /\ now - now < Window
  BY StoreAssumption DEF TypeOK, Stamps, Time

LEMMA CommandedInv ==
  ASSUME Inv, NEW t \in Thread, NEW a \in Addr, NEW v \in Speeds, NEW f \in BOOLEAN,
         NEW s \in Snap, s.at = now, s.speed = v, s.fwd = f, NEW priority \in BOOLEAN,
         Wrote(t, a, s, priority), Commanded(a, v, f),
         UNCHANGED <<dirty, redis, now, crossed>>
  PROVE  Inv'
<1>0. TypeOK /\ Stamps
  BY DEF Inv
<1>1. /\ cmd' \in [Addr -> [speed : Speeds \cup {0}, fwd : BOOLEAN, at : Time]]
      /\ cmd'[a] = [speed |-> v, fwd |-> f, at |-> now]
      /\ \A b \in Addr \ {a} : cmd'[b] = cmd[b]
  BY <1>0, Clock DEF Commanded, TypeOK
<1>2. /\ told' \in [Addr -> [speed : Speeds \cup {0}, fwd : BOOLEAN, at : Time, open : BOOLEAN]]
      /\ told'[a] = [speed |-> v, fwd |-> f, at |-> now, open |-> TRUE]
      /\ \A b \in Addr \ {a} : told'[b] = told[b]
  BY <1>0, Clock DEF Commanded, TypeOK
<1>3. \A b \in Addr : told'[b].at <= now
  BY <1>0, <1>2, Clock DEF Stamps
<1>4. WindowInv(a)'
  BY <1>0, <1>1, <1>2, Clock DEF WindowInv, Wrote
<1> QED BY <1>1, <1>2, <1>3, <1>4, WroteInv

LEMMA CommandInv ==
  ASSUME Inv, NEW t \in Writer, NEW a \in Addr, Command(t, a)
  PROVE  Inv'
<1>0. TypeOK /\ Stamps /\ t \in Thread /\ snap[a] \in Snap /\ now \in Time
  BY DEF Inv, Thread, TypeOK
<1>1. ASSUME NEW v \in Speeds, NEW f \in BOOLEAN, NEW u \in User, SetSpeed(t, a, v, f, u)
      PROVE  Inv'
  <2> DEFINE s == [snap[a] EXCEPT !.speed = v, !.fwd = f, !.user = u, !.at = now]
  <2>1. PICK priority \in {FALSE} \cup {v = 0 /\ "estop" \in Ops} :
          /\ Wrote(t, a, s, priority) /\ Commanded(a, v, f)
          /\ UNCHANGED <<dirty, redis, now, crossed>>
    BY <1>1 DEF SetSpeed
  <2>2. s \in Snap /\ s.at = now /\ s.speed = v /\ s.fwd = f
    BY <1>0 DEF Snap
  <2> HIDE DEF s
  <2>3. priority \in BOOLEAN
    OBVIOUS
  <2> QED BY <1>0, <2>1, <2>2, <2>3, CommandedInv
<1>2. ASSUME NEW v \in Speeds, NEW f \in BOOLEAN, SetSpeedPreservingUser(t, a, v, f)
      PROVE  Inv'
  <2> DEFINE s == [snap[a] EXCEPT !.speed = v, !.fwd = f, !.at = now]
  <2>1. PICK priority \in {FALSE} \cup {v = 0 /\ "estop" \in Ops} :
          /\ Wrote(t, a, s, priority) /\ Commanded(a, v, f)
          /\ UNCHANGED <<dirty, redis, now, crossed>>
    BY <1>2 DEF SetSpeedPreservingUser
  <2>2. s \in Snap /\ s.at = now /\ s.speed = v /\ s.fwd = f
    BY <1>0 DEF Snap
  <2> HIDE DEF s
  <2>3. priority \in BOOLEAN
    OBVIOUS
  <2> QED BY <1>0, <2>1, <2>2, <2>3, CommandedInv
<1>3. ASSUME NEW u \in User \cup {Nobody}, NEW on \in BOOLEAN, SetFunction(t, a, u, on)
      PROVE  Inv'
  <2> DEFINE s == [snap[a] EXCEPT !.user = IF u = Nobody THEN @ ELSE u, !.fn = on, !.at = now]
  <2>1. /\ Wrote(t, a, s, FALSE)
        /\ UNCHANGED <<cmd, dirty, redis, now, crossed, told>>
    BY <1>3 DEF SetFunction
  <2>2. s \in Snap /\ s.at = now /\ s.speed = snap[a].speed /\ s.fwd = snap[a].fwd
    BY <1>0 DEF Snap
  <2> HIDE DEF s
  <2>3. /\ cmd' \in [Addr -> [speed : Speeds \cup {0}, fwd : BOOLEAN, at : Time]]
        /\ told' \in [Addr -> [speed : Speeds \cup {0}, fwd : BOOLEAN, at : Time, open : BOOLEAN]]
        /\ \A b \in Addr : told'[b].at <= now
    BY <1>0, <2>1 DEF TypeOK, Stamps
  <2>4. WindowInv(a)'
    BY <2>1 DEF Inv, WindowInv, Wrote
  <2>5. InWindow(a)' => s.speed = told'[a].speed /\ s.fwd = told'[a].fwd
    BY <2>1, <2>2 DEF Inv, CommandHolds, InWindow
  <2> QED BY <1>0, <2>1, <2>2, <2>3, <2>4, <2>5, WroteInv
<1> QED BY <1>1, <1>2, <1>3 DEF Command

-----------------------------------------------------------------------------
(***************************************************************************)
(* Observations.                                                           *)
(***************************************************************************)
LEMMA UISpeed ==
  ASSUME NEW w \in Speeds \cup {0, 1}
  PROVE  UISpeedFromWire(w) \in Speeds \cup {0}
  BY StoreAssumption DEF UISpeedFromWire

LEMMA MergedType ==
  ASSUME TypeOK, NEW a \in Addr, NEW o \in Observation
  PROVE  /\ Merged(a, o) \in Snap
         /\ Merged(a, o).user = snap[a].user /\ Merged(a, o).at = snap[a].at
<1>1. snap[a] \in Snap
  BY DEF TypeOK
<1>2. o.speed # {} => UISpeedFromWire(CHOOSE w \in o.speed : TRUE) \in Speeds \cup {0}
  <2>1. o.speed # {} => (CHOOSE w \in o.speed : TRUE) \in Speeds \cup {0, 1}
    BY DEF Observation
  <2> QED BY <2>1, UISpeed
<1>3. /\ o.fwd # {} => (CHOOSE f \in o.fwd : TRUE) \in BOOLEAN
      /\ o.fn # {} => (CHOOSE b \in o.fn : TRUE) \in BOOLEAN
  BY DEF Observation
<1>5. snap[a].speed \in Speeds \cup {0} /\ snap[a].fwd \in BOOLEAN /\ snap[a].fn \in BOOLEAN
  BY <1>1 DEF Snap
<1> DEFINE motion == ~SuppressMotion(a, o)
           v == IF motion /\ o.speed # {}
                THEN UISpeedFromWire(CHOOSE w \in o.speed : TRUE) ELSE snap[a].speed
           f == IF motion /\ o.fwd # {} THEN CHOOSE d \in o.fwd : TRUE ELSE snap[a].fwd
           b == IF o.fn # {} THEN CHOOSE x \in o.fn : TRUE ELSE snap[a].fn
<1>6. v \in Speeds \cup {0} /\ f \in BOOLEAN /\ b \in BOOLEAN
  BY <1>2, <1>3, <1>5
<1>7. Merged(a, o) = [snap[a] EXCEPT !.speed = v, !.fwd = f, !.fn = b]
  BY DEF Merged
<1> HIDE DEF v, f, b
<1> QED BY <1>1, <1>6, <1>7 DEF Snap

\* While the last command is in its window, what an observation carries of
\* the motion is either suppressed or as commanded.
LEMMA MergedInWindow ==
  ASSUME Inv, NEW a \in Addr, NEW o \in Observation, InWindow(a)
  PROVE  /\ cmd[a].at # 0 /\ cmd[a].at = told[a].at
         /\ Merged(a, o).speed = told[a].speed /\ Merged(a, o).fwd = told[a].fwd
<1>0. TypeOK /\ Stamps /\ snap[a] \in Snap
  BY DEF Inv, TypeOK
<1>1. now \in Nat /\ told[a].at \in Nat /\ Window \in Nat
  BY <1>0, Clock, StoreAssumption DEF TypeOK, Time
<1>2. /\ cmd[a].at # 0 /\ cmd[a].at = told[a].at
      /\ cmd[a].speed = told[a].speed /\ cmd[a].fwd = told[a].fwd
  BY <1>1 DEF Inv, WindowInv, InWindow
<1>3. ~Expired(a)
  BY <1>1, <1>2 DEF Expired, InWindow
<1>4. snap[a].speed = told[a].speed /\ snap[a].fwd = told[a].fwd
  BY DEF Inv, CommandHolds
<1>5. CASE Mismatch(a, o)
  <2>1. SuppressMotion(a, o)
    BY <1>2, <1>3, <1>5 DEF SuppressMotion
  <2> QED BY <1>0, <1>2, <1>4, <2>1 DEF Merged, Snap
<1>6. CASE ~Mismatch(a, o)
  <2>1. o.speed # {} => UISpeedFromWire(CHOOSE w \in o.speed : TRUE) = cmd[a].speed
    BY <1>6 DEF Mismatch
  <2>2. o.fwd # {} => (CHOOSE f \in o.fwd : TRUE) = cmd[a].fwd
    BY <1>6 DEF Mismatch
  <2> QED BY <1>0, <1>2, <1>4, <2>1, <2>2 DEF Merged, Snap
<1> QED BY <1>2, <1>5, <1>6

LEMMA ObservedType ==
  ASSUME Inv, NEW a \in Addr, NEW o \in Observation
  PROVE  /\ Observed(a, o) \in Snap
         /\ Observed(a, o) # snap[a] => Observed(a, o).at = now
         /\ InWindow(a) => /\ Observed(a, o).speed = told[a].speed
                           /\ Observed(a, o).fwd = told[a].fwd
                           /\ Observed(a, o).user = snap[a].user
<1>0. TypeOK /\ Stamps /\ snap[a] \in Snap /\ now \in Time
  BY DEF Inv, TypeOK
<1> DEFINE m == Merged(a, o)
           n == [m EXCEPT !.user = IF cmd[a].at = 0 THEN Nobody ELSE snap[a].user, !.at = now]
<1>1. m \in Snap /\ m.user = snap[a].user
  BY <1>0, MergedType
<1>2. InWindow(a) => cmd[a].at # 0 /\ m.speed = told[a].speed /\ m.fwd = told[a].fwd
  BY MergedInWindow
<1>3. Observed(a, o) = IF m = snap[a] THEN snap[a] ELSE n
  BY DEF Observed
<1> HIDE DEF m
<1>4. /\ n \in Snap /\ n.at = now /\ n.speed = m.speed /\ n.fwd = m.fwd
      /\ cmd[a].at # 0 => n.user = snap[a].user
  BY <1>0, <1>1 DEF Snap
<1> HIDE DEF n
<1> QED BY <1>0, <1>1, <1>2, <1>3, <1>4

LEMMA ObserveInv ==
  ASSUME Inv, NEW t \in Writer, NEW a \in Addr, NEW o \in Observation,
         ApplyObservation(t, a, o)
  PROVE  Inv'
<1>0. TypeOK /\ Stamps /\ t \in Thread /\ WindowInv(a)
  BY DEF Inv, Thread
<1>1. /\ cmd' = [cmd EXCEPT ![a] = WindowAfter(a, o)]
      /\ told' = [told EXCEPT ![a].open = told[a].open /\ ~Confirms(a, o)]
      /\ UNCHANGED <<dirty, redis, now, crossed>>
      /\ exists' = exists \cup {a}
  BY DEF ApplyObservation, Wrote
<1>2. now \in Nat /\ told[a].at \in Nat /\ Window \in Nat /\ now \in Time /\ 0 \in Time
  BY <1>0, Clock, StoreAssumption, UnknownOK DEF TypeOK, Time
<1>3. /\ WindowAfter(a, o) \in [speed : Speeds \cup {0}, fwd : BOOLEAN, at : Time]
      /\ WindowAfter(a, o).speed = cmd[a].speed /\ WindowAfter(a, o).fwd = cmd[a].fwd
      /\ \/ WindowAfter(a, o) = cmd[a]
         \/ /\ WindowAfter(a, o).at = 0 /\ cmd[a].at # 0
            /\ Expired(a) \/ Confirms(a, o)
  BY <1>0, <1>2, SMTT(30) DEF WindowAfter, TypeOK
<1>4. /\ cmd' \in [Addr -> [speed : Speeds \cup {0}, fwd : BOOLEAN, at : Time]]
      /\ cmd'[a] = WindowAfter(a, o)
      /\ \A b \in Addr \ {a} : cmd'[b] = cmd[b]
  BY <1>0, <1>1, <1>3 DEF TypeOK
<1>5. /\ told' \in [Addr -> [speed : Speeds \cup {0}, fwd : BOOLEAN, at : Time, open : BOOLEAN]]
      /\ told'[a].speed = told[a].speed /\ told'[a].fwd = told[a].fwd /\ told'[a].at = told[a].at
      /\ told'[a].open <=> told[a].open /\ ~Confirms(a, o)
      /\ \A b \in Addr \ {a} : told'[b] = told[b]
  <2>1. (told[a].open /\ ~Confirms(a, o)) \in BOOLEAN
    OBVIOUS
  <2> QED BY <1>0, <1>1, <2>1, ZenonT(60) DEF TypeOK
<1>6. \A b \in Addr : told'[b].at <= now
  BY <1>0, <1>5 DEF Stamps
<1>7. WindowInv(a)'
  <2> SUFFICES ASSUME told'[a].open PROVE WindowInv(a)'
    BY DEF WindowInv
  <2>1. told[a].open /\ ~Confirms(a, o)
    BY <1>5
  <2>2. CASE WindowAfter(a, o) = cmd[a]
    BY <1>0, <1>1, <1>4, <1>5, <2>1, <2>2 DEF WindowInv
  <2>3. CASE WindowAfter(a, o).at = 0 /\ cmd[a].at # 0 /\ Expired(a)
    <3>1. now - told[a].at >= Window
      BY <1>0, <2>1, <2>3 DEF WindowInv, Expired
    <3> QED BY <1>1, <1>4, <1>5, <2>3, <3>1 DEF WindowInv
  <2> QED BY <1>3, <2>1, <2>2, <2>3
<1>8. InWindow(a)' => InWindow(a)
  BY <1>1, <1>5 DEF InWindow
<1>9. CASE Observed(a, o) # snap[a] /\ Wrote(t, a, Observed(a, o), FALSE)
  <2>1. Observed(a, o) \in Snap /\ Observed(a, o).at = now
    BY <1>9, ObservedType
  <2>2. InWindow(a)' => Observed(a, o).speed = told'[a].speed /\ Observed(a, o).fwd = told'[a].fwd
    BY <1>5, <1>8, ObservedType
  <2> HIDE DEF Observed
  <2> QED BY <1>0, <1>1, <1>4, <1>5, <1>6, <1>7, <1>9, <2>1, <2>2, WroteInv
<1>10. CASE UNCHANGED <<snap, thread, writes>>
  <2>1. TypeOK'
    <3>1. thread' \in [Thread -> ThreadState(exists')]
      BY <1>0, <1>1, <1>10 DEF TypeOK, ThreadState
    <3> QED BY <1>0, <1>1, <1>4, <1>5, <1>10, <3>1 DEF TypeOK, ThreadState
  <2>2. Stamps'
    BY <1>0, <1>1, <1>6, <1>10 DEF Stamps
  <2>3. ASSUME NEW b \in Addr
        PROVE  WindowInv(b)' /\ (InWindow(b)' => snap'[b].speed = told'[b].speed /\ snap'[b].fwd = told'[b].fwd)
    <3>1. CASE b = a
      BY <1>5, <1>7, <1>8, <1>10, <3>1 DEF Inv, CommandHolds
    <3>2. CASE b # a
      BY <1>1, <1>4, <1>5, <1>10, <3>2 DEF Inv, WindowInv, CommandHolds, InWindow
    <3> QED BY <3>1, <3>2
  <2>4. CommandHolds'
    BY <2>3 DEF CommandHolds
  <2>5. \A b : Marking(b)' <=> Marking(b)
    BY <1>10 DEF Marking
  <2>6. \A u \in Thread : FlushInv(u)' /\ SeedInv(u)'
    BY <1>1, <1>10, <2>5 DEF Inv, FlushInv, SeedInv
  <2>7. Lone' /\ MirrorFresh'
    BY <1>1, <1>10, <2>5 DEF Inv, Lone, MirrorFresh, Settled
  <2>8. \A u \in Thread : thread'[u].pc \in {"mark", "store", "clear"} => thread'[u].a \in exists'
    BY <1>1, <1>10 DEF Inv
  <2> QED BY <2>1, <2>2, <2>3, <2>4, <2>6, <2>7, <2>8 DEF Inv
<1> QED BY <1>9, <1>10 DEF ApplyObservation

-----------------------------------------------------------------------------
(***************************************************************************)
(* The mirror.                                                             *)
(***************************************************************************)
LEMMA MarkInv ==
  ASSUME Inv, NEW t \in Thread, MarkDirty(t)
  PROVE  Inv'
<1> DEFINE r == IF thread[t].now THEN [Idle EXCEPT !.pc = "next", !.todo = {thread[t].a}] ELSE Idle
<1>0. /\ TypeOK /\ Stamps /\ thread[t].pc = "mark" /\ thread[t].a \in exists
      /\ exists \subseteq Addr
  BY DEF Inv, MarkDirty, TypeOK
<1>1. PICK a \in exists : a = thread[t].a
  BY <1>0
<1>2. /\ thread' = [thread EXCEPT ![t] = r] /\ dirty' = dirty \cup {a}
      /\ UNCHANGED <<snap, exists, cmd, redis, now, writes, crossed, told>>
  BY <1>1 DEF MarkDirty
<1>3. r \in ThreadState(exists) /\ r.pc \in {"idle", "next"} /\ r.snap.at = 0
  BY <1>0, IdleOK DEF ThreadState, Idle
<1> HIDE DEF r
<1>4. /\ thread' \in [Thread -> ThreadState(exists)]
      /\ \A u \in Thread : thread'[u] = IF u = t THEN r ELSE thread[u]
  BY <1>0, <1>2, <1>3, ThreadStep
<1>5. \A b : b # a => (Marking(b)' <=> Marking(b))
  BY <1>0, <1>1, <1>3, <1>4 DEF Marking
<1>6. TypeOK'
  BY <1>0, <1>1, <1>2, <1>4 DEF TypeOK, ThreadState
<1>7. Stamps'
  BY <1>0, <1>2, <1>3, <1>4, Clock DEF Stamps
<1>8. \A u \in Thread : thread'[u].pc \in {"mark", "store", "clear"} => thread'[u].a \in exists'
  BY <1>2, <1>3, <1>4 DEF Inv
<1>9. (\A b \in Addr : WindowInv(b)') /\ CommandHolds'
  BY <1>2 DEF Inv, WindowInv, CommandHolds, InWindow
<1>10. ASSUME NEW u \in Thread PROVE FlushInv(u)' /\ SeedInv(u)'
  <2>1. CASE u = t
    BY <1>3, <1>4, <2>1 DEF FlushInv, SeedInv, Flushing
  <2>2. CASE u # t
    <3>1. thread'[u] = thread[u] /\ FlushInv(u) /\ SeedInv(u)
      BY <1>4, <2>2 DEF Inv
    <3> QED BY <1>2, <1>5, <3>1 DEF FlushInv, SeedInv
  <2> QED BY <2>1, <2>2
<1>11. Lone'
  BY <1>2, <1>3, <1>4 DEF Inv, Lone, Flushing
<1>12. MirrorFresh'
  BY <1>2, <1>5 DEF Inv, MirrorFresh, Settled
<1> QED BY <1>6, <1>7, <1>8, <1>9, <1>10, <1>11, <1>12 DEF Inv

LEMMA FlushAllInv ==
  ASSUME Inv, FlushAll
  PROVE  Inv'
<1> DEFINE r == [Idle EXCEPT !.pc = "next", !.todo = dirty]
<1>0. TypeOK /\ Stamps /\ thread[Loop].pc = "idle" /\ Loop \in Thread /\ dirty \subseteq exists
  BY DEF Inv, FlushAll, Thread, TypeOK
<1>1. /\ thread' = [thread EXCEPT ![Loop] = r]
      /\ UNCHANGED <<snap, exists, cmd, dirty, redis, now, writes, crossed, told>>
  BY DEF FlushAll
<1>2. r \in ThreadState(exists) /\ r.pc = "next" /\ r.snap.at = 0
  BY <1>0, IdleOK DEF ThreadState, Idle
<1> HIDE DEF r
<1>3. thread'[Loop] = r
  BY <1>0, <1>1 DEF TypeOK
<1>4. FlushInv(Loop)' /\ SeedInv(Loop)'
  BY <1>2, <1>3 DEF FlushInv, SeedInv, Flushing
<1>5. 0 <= now
  BY <1>0, Clock
<1>6. crossed \subseteq crossed' /\ crossed' \subseteq exists
  BY <1>0, <1>1 DEF TypeOK
<1> QED BY <1>0, <1>1, <1>2, <1>4, <1>5, <1>6, QuietStep DEF Flushing

LEMMA FlushReadInv ==
  ASSUME Inv, NEW t \in Thread, NEW a \in Addr, FlushRead(t, a)
  PROVE  Inv'
<1> DEFINE r == [thread[t] EXCEPT !.pc = "store", !.todo = @ \ {a}, !.a = a, !.snap = snap[a]]
<1>0. /\ TypeOK /\ Stamps /\ thread[t].pc = "next" /\ thread[t] \in ThreadState(exists)
      /\ a \in thread[t].todo /\ snap[a] \in Snap /\ snap[a].at <= now
  BY DEF Inv, FlushRead, TypeOK, ThreadState, Stamps
<1>1. /\ thread' = [thread EXCEPT ![t] = r]
      /\ UNCHANGED <<snap, exists, cmd, dirty, redis, now, writes, told>>
  BY DEF FlushRead
<1>2. r \in ThreadState(exists) /\ r.pc = "store" /\ r.a = a /\ r.snap = snap[a] /\ a \in exists
  BY <1>0 DEF ThreadState
<1> HIDE DEF r
<1>3. thread'[t] = r
  BY <1>0, <1>1 DEF TypeOK
<1>4. /\ crossed \subseteq crossed' /\ crossed' \subseteq exists
      /\ \A u \in Thread \ {t} : thread[u].pc \in Flushing /\ a = thread[u].a => a \in crossed'
  BY <1>0, <1>2 DEF FlushRead, TypeOK, Flushing
<1>5. FlushInv(t)' /\ SeedInv(t)'
  BY <1>1, <1>2, <1>3 DEF FlushInv, SeedInv
<1>6. r.snap.at <= now /\ (r.pc \in Flushing => r.a \in exists) /\ r.pc # "mark" /\ thread[t].pc # "mark"
  BY <1>0, <1>2
<1>7. \A u \in Thread \ {t} :
        r.pc \in Flushing /\ thread[u].pc \in Flushing /\ r.a = thread[u].a
          => r.a \in crossed'
  BY <1>2, <1>4
<1> QED BY <1>1, <1>2, <1>4, <1>5, <1>6, <1>7, QuietStep

LEMMA OnwardOK ==
  ASSUME TypeOK, NEW t \in Thread, thread[t].pc \in Flushing
  PROVE  /\ Onward(thread[t]) \in ThreadState(exists)
         /\ Onward(thread[t]).pc \in {"idle", "next"} /\ Onward(thread[t]).snap.at = 0
<1>1. thread[t] \in ThreadState(exists)
  BY DEF TypeOK, ThreadState
<1>2. CASE thread[t].todo = {}
  BY <1>2, IdleOK DEF Onward
<1>3. CASE thread[t].todo # {}
  BY <1>1, <1>3, UnknownOK DEF Onward, ThreadState
<1> QED BY <1>2, <1>3

LEMMA FlushFailsInv ==
  ASSUME Inv, NEW t \in Thread, FlushFails(t)
  PROVE  Inv'
<1> DEFINE r == Onward(thread[t])
<1>0. TypeOK /\ Stamps /\ thread[t].pc = "store"
  BY DEF Inv, FlushFails
<1>1. /\ thread' = [thread EXCEPT ![t] = r]
      /\ UNCHANGED <<snap, exists, cmd, dirty, redis, now, writes, crossed, told>>
  BY DEF FlushFails
<1>2. r \in ThreadState(exists) /\ r.pc \in {"idle", "next"} /\ r.snap.at = 0
  BY <1>0, OnwardOK DEF Flushing
<1> HIDE DEF r
<1>3. thread'[t] = r
  BY <1>0, <1>1 DEF TypeOK
<1>4. FlushInv(t)' /\ SeedInv(t)'
  BY <1>2, <1>3 DEF FlushInv, SeedInv, Flushing
<1>5. r.snap.at <= now /\ r.pc # "mark" /\ r.pc \notin Flushing /\ thread[t].pc # "mark"
  BY <1>0, <1>2, Clock DEF Flushing
<1>6. crossed \subseteq crossed' /\ crossed' \subseteq exists
  BY <1>0, <1>1 DEF TypeOK
<1> QED BY <1>1, <1>2, <1>4, <1>5, <1>6, QuietStep

LEMMA FlushStoreInv ==
  ASSUME Inv, NEW t \in Thread, FlushStore(t)
  PROVE  Inv'
<1>0. /\ TypeOK /\ Stamps /\ thread[t].pc = "store" /\ thread[t].a \in exists
      /\ exists \subseteq Addr /\ thread[t] \in ThreadState(exists) /\ FlushInv(t)
  BY DEF Inv, FlushStore, TypeOK, ThreadState
<1>1. PICK a \in Addr : a = thread[t].a /\ a \in exists
  BY <1>0
<1> DEFINE r == [thread[t] EXCEPT !.pc = "clear"]
<1>2. PICK b \in {thread[t].snap.fn, snap[a].fn} :
        redis' = [redis EXCEPT ![a] = [thread[t].snap EXCEPT !.fn = b]]
  BY <1>1 DEF FlushStore
<1>3. /\ thread' = [thread EXCEPT ![t] = r]
      /\ UNCHANGED <<snap, exists, cmd, dirty, now, writes, crossed, told>>
  BY <1>0 DEF FlushStore, TypeOK
<1>4. r \in ThreadState(exists) /\ r.pc = "clear" /\ r.a = a /\ r.snap = thread[t].snap
  BY <1>0, <1>1 DEF ThreadState
<1> HIDE DEF r
<1>5. /\ thread' \in [Thread -> ThreadState(exists)]
      /\ \A u \in Thread : thread'[u] = IF u = t THEN r ELSE thread[u]
  BY <1>0, <1>3, <1>4, ThreadStep
<1>6. /\ redis' \in [Addr -> Snap \cup {NoSnap}]
      /\ redis'[a] # NoSnap /\ redis'[a].at = r.snap.at
      /\ \A c \in Addr \ {a} : redis'[c] = redis[c]
  <2>1. b \in BOOLEAN /\ r.snap \in Snap
    BY <1>0, <1>4 DEF TypeOK, ThreadState, Snap
  <2>2. [thread[t].snap EXCEPT !.fn = b] \in Snap /\ [thread[t].snap EXCEPT !.fn = b].at = r.snap.at
    BY <1>4, <2>1 DEF Snap
  <2> QED BY <1>0, <1>2, <2>2, NoSnapAssumption DEF TypeOK
<1>7. \A c : Marking(c)' <=> Marking(c)
  BY <1>0, <1>4, <1>5, MarkingFrame
<1>8. TypeOK'
  BY <1>0, <1>3, <1>5, <1>6 DEF TypeOK, ThreadState
<1>9. Stamps'
  BY <1>0, <1>3, <1>4, <1>5, <1>6 DEF Stamps
<1>10. \A u \in Thread : thread'[u].pc \in {"mark", "store", "clear"} => thread'[u].a \in exists'
  BY <1>1, <1>3, <1>4, <1>5 DEF Inv
<1>11. (\A c \in Addr : WindowInv(c)') /\ CommandHolds'
  BY <1>3 DEF Inv, WindowInv, CommandHolds, InWindow
<1>12. Lone'
  BY <1>0, <1>1, <1>3, <1>4, <1>5 DEF Inv, Lone, Flushing
<1>13. ASSUME NEW u \in Thread PROVE FlushInv(u)' /\ SeedInv(u)'
  <2>1. CASE u = t
    <3>1. a \notin crossed => r.snap.at = snap[a].at \/ a \in dirty \/ Marking(a)
      BY <1>0, <1>1, <1>4 DEF FlushInv, Flushing
    <3>2. r.snap.at \in Nat
      BY <1>4, StoreAssumption DEF ThreadState, Snap, Time
    <3> QED BY <1>3, <1>4, <1>5, <1>6, <1>7, <2>1, <3>1, <3>2 DEF FlushInv, SeedInv
  <2>2. CASE u # t
    <3>1. thread'[u] = thread[u] /\ FlushInv(u) /\ SeedInv(u) /\ (thread[u].pc = "seed" => thread[u].a \in Addr)
      BY <1>5, <2>2 DEF Inv, SeedInv
    <3>2. CASE thread[u].pc \in Flushing
      <4>1. thread[u].a \in Addr
        BY <1>0, <3>2 DEF Inv, Flushing
      <4>2. CASE thread[u].a = a
        <5>1. a \in crossed
          BY <1>0, <1>1, <2>2, <3>2, <4>2 DEF Inv, Lone, Flushing
        <5> QED BY <1>3, <3>1, <3>2, <4>2, <5>1 DEF FlushInv, SeedInv, Flushing
      <4>3. CASE thread[u].a # a
        BY <1>3, <1>6, <1>7, <3>1, <3>2, <4>1, <4>3 DEF FlushInv, SeedInv, Flushing
      <4> QED BY <4>2, <4>3
    <3>3. CASE thread[u].pc \notin Flushing
      BY <1>1, <1>3, <1>6, <3>1, <3>3 DEF FlushInv, SeedInv
    <3> QED BY <3>2, <3>3
  <2> QED BY <2>1, <2>2
<1>14. MirrorFresh'
  <2> SUFFICES ASSUME NEW c \in Addr \ crossed, Settled(c)'
               PROVE  redis'[c] # NoSnap /\ redis'[c].at >= snap[c].at
    BY <1>3 DEF MirrorFresh
  <2>1. Settled(c)
    BY <1>3, <1>7 DEF Settled
  <2>2. CASE c = a
    <3>1. r.snap.at = snap[a].at
      BY <1>0, <1>1, <1>4, <2>1, <2>2 DEF FlushInv, Flushing, Settled
    <3>2. snap[a].at \in Nat
      BY <1>0, StoreAssumption DEF TypeOK, Snap, Time
    <3> QED BY <1>6, <2>2, <3>1, <3>2
  <2>3. CASE c # a
    BY <1>6, <2>1, <2>3 DEF Inv, MirrorFresh
  <2> QED BY <2>2, <2>3
<1> QED BY <1>8, <1>9, <1>10, <1>11, <1>12, <1>13, <1>14 DEF Inv

LEMMA FlushClearInv ==
  ASSUME Inv, NEW t \in Thread, FlushClear(t)
  PROVE  Inv'
<1> DEFINE r == Onward(thread[t])
<1>0. /\ TypeOK /\ Stamps /\ thread[t].pc = "clear" /\ thread[t].a \in exists
      /\ exists \subseteq Addr /\ FlushInv(t)
  BY DEF Inv, FlushClear, TypeOK
<1>1. PICK a \in Addr : a = thread[t].a
  BY <1>0
<1>2. /\ thread' = [thread EXCEPT ![t] = r]
      /\ dirty' = IF snap[a].at = thread[t].snap.at THEN dirty \ {a} ELSE dirty
      /\ UNCHANGED <<snap, exists, cmd, redis, now, writes, crossed, told>>
  BY <1>1 DEF FlushClear
<1>3. r \in ThreadState(exists) /\ r.pc \in {"idle", "next"} /\ r.snap.at = 0
  BY <1>0, OnwardOK DEF Flushing
<1> HIDE DEF r
<1>4. /\ thread' \in [Thread -> ThreadState(exists)]
      /\ \A u \in Thread : thread'[u] = IF u = t THEN r ELSE thread[u]
  BY <1>0, <1>2, <1>3, ThreadStep
<1>5. \A c : Marking(c)' <=> Marking(c)
  BY <1>0, <1>3, <1>4, MarkingFrame
<1>6. TypeOK'
  BY <1>0, <1>2, <1>4 DEF TypeOK, ThreadState
<1>7. Stamps'
  BY <1>0, <1>2, <1>3, <1>4, Clock DEF Stamps
<1>8. \A u \in Thread : thread'[u].pc \in {"mark", "store", "clear"} => thread'[u].a \in exists'
  BY <1>2, <1>3, <1>4 DEF Inv
<1>9. (\A c \in Addr : WindowInv(c)') /\ CommandHolds'
  BY <1>2 DEF Inv, WindowInv, CommandHolds, InWindow
<1>10. Lone'
  BY <1>2, <1>3, <1>4 DEF Inv, Lone, Flushing
<1>11. ASSUME NEW u \in Thread PROVE FlushInv(u)' /\ SeedInv(u)'
  <2>1. CASE u = t
    BY <1>3, <1>4, <2>1 DEF FlushInv, SeedInv, Flushing
  <2>2. CASE u # t
    <3>1. thread'[u] = thread[u] /\ FlushInv(u) /\ SeedInv(u)
      BY <1>4, <2>2 DEF Inv
    <3>2. SeedInv(u)'
      BY <1>2, <3>1 DEF SeedInv
    <3>3. CASE thread[u].pc \in Flushing /\ thread[u].a = a
      <4>1. a \in crossed
        BY <1>0, <1>1, <2>2, <3>3 DEF Inv, Lone, Flushing
      <4> QED BY <1>2, <3>1, <3>2, <3>3, <4>1 DEF FlushInv
    <3>4. CASE ~(thread[u].pc \in Flushing /\ thread[u].a = a)
      BY <1>2, <1>5, <3>1, <3>2, <3>4 DEF FlushInv
    <3> QED BY <3>3, <3>4
  <2> QED BY <2>1, <2>2
<1>12. MirrorFresh'
  <2> SUFFICES ASSUME NEW c \in Addr \ crossed, Settled(c)'
               PROVE  redis[c] # NoSnap /\ redis[c].at >= snap[c].at
    BY <1>2 DEF MirrorFresh
  <2>1. CASE c \in dirty
    <3>1. c = a /\ snap[a].at = thread[t].snap.at
      BY <1>2, <2>1 DEF Settled
    <3> QED BY <1>0, <1>1, <3>1 DEF FlushInv, Flushing
  <2>2. CASE c \notin dirty
    <3>1. Settled(c)
      BY <1>2, <1>5, <2>2 DEF Settled
    <3> QED BY <3>1 DEF Inv, MirrorFresh
  <2> QED BY <2>1, <2>2
<1> QED BY <1>6, <1>7, <1>8, <1>9, <1>10, <1>11, <1>12 DEF Inv

LEMMA SeedReadInv ==
  ASSUME Inv, NEW t \in Writer, NEW a \in Addr, SeedRead(t, a)
  PROVE  Inv'
<1> DEFINE r == [Idle EXCEPT !.pc = "seed", !.a = a, !.snap = redis[a]]
<1>0. /\ TypeOK /\ Stamps /\ thread[t].pc = "idle" /\ t \in Thread /\ redis[a] # NoSnap
      /\ redis[a] \in Snap /\ redis[a].at <= now
  BY DEF Inv, SeedRead, Thread, TypeOK, Stamps
<1>1. /\ thread' = [thread EXCEPT ![t] = r]
      /\ UNCHANGED <<snap, exists, cmd, dirty, redis, now, writes, crossed, told>>
  BY DEF SeedRead
<1>2. r \in ThreadState(exists) /\ r.pc = "seed" /\ r.snap = redis[a] /\ r.a = a
  BY <1>0, IdleOK DEF ThreadState, Idle
<1> HIDE DEF r
<1>3. thread'[t] = r
  BY <1>0, <1>1 DEF TypeOK
<1>4. FlushInv(t)' /\ SeedInv(t)'
  <2>1. redis[a].at \in Nat
    BY <1>0, StoreAssumption DEF Snap, Time
  <2> QED BY <1>0, <1>1, <1>2, <1>3, <2>1 DEF FlushInv, SeedInv, Flushing
<1>5. r.snap.at <= now /\ r.pc # "mark" /\ r.pc \notin Flushing /\ thread[t].pc # "mark"
  BY <1>0, <1>2 DEF Flushing
<1>6. crossed \subseteq crossed' /\ crossed' \subseteq exists
  BY <1>0, <1>1 DEF TypeOK
<1> QED BY <1>0, <1>1, <1>2, <1>4, <1>5, <1>6, QuietStep

LEMMA SeedStoreInv ==
  ASSUME Inv, NEW t \in Thread, SeedStore(t)
  PROVE  Inv'
<1>0. /\ TypeOK /\ Stamps /\ thread[t].pc = "seed" /\ thread[t] \in ThreadState(exists)
      /\ SeedInv(t) /\ thread[t].snap.at <= now /\ thread[t].snap \in Snap
  BY DEF Inv, SeedStore, TypeOK, ThreadState, Stamps
<1>1. PICK a \in Addr : a = thread[t].a
  BY <1>0 DEF SeedInv
<1>2. /\ thread' = [thread EXCEPT ![t] = Idle] /\ exists' = exists \cup {a}
      /\ snap' = IF a \in exists THEN snap ELSE [snap EXCEPT ![a] = thread[t].snap]
      /\ UNCHANGED <<cmd, dirty, redis, now, writes, crossed, told>>
  BY <1>1 DEF SeedStore
<1>3. Idle \in ThreadState(exists') /\ Idle.pc = "idle" /\ Idle.snap.at = 0
  BY IdleOK
<1>4. /\ thread' \in [Thread -> ThreadState(exists')]
      /\ \A u \in Thread : thread'[u] = IF u = t THEN Idle ELSE thread[u]
  BY <1>0, <1>2, <1>3, ThreadStep
<1>5. /\ snap' \in [Addr -> Snap] /\ \A c \in Addr \ {a} : snap'[c] = snap[c]
      /\ a \in exists => snap'[a] = snap[a]
      /\ a \notin exists => snap'[a] = thread[t].snap
  BY <1>0, <1>2 DEF TypeOK
<1>6. \A c : Marking(c)' <=> Marking(c)
  BY <1>0, <1>3, <1>4, MarkingFrame
<1>7. TypeOK'
  BY <1>0, <1>2, <1>4, <1>5 DEF TypeOK, ThreadState
<1>8. Stamps'
  <2>1. \A c \in Addr : snap'[c].at <= now
    BY <1>0, <1>5 DEF Stamps
  <2> QED BY <1>0, <1>2, <1>3, <1>4, <2>1, Clock DEF Stamps
<1>9. \A u \in Thread : thread'[u].pc \in {"mark", "store", "clear"} => thread'[u].a \in exists'
  BY <1>2, <1>3, <1>4 DEF Inv
<1>10. ASSUME NEW c \in Addr
       PROVE  WindowInv(c)' /\ (InWindow(c)' => snap'[c].speed = told'[c].speed /\ snap'[c].fwd = told'[c].fwd)
  <2>1. told[c].open => c \in exists
    BY DEF Inv, WindowInv
  <2>2. told[c].open => snap'[c] = snap[c]
    BY <1>5, <2>1
  <2> QED BY <1>2, <2>2 DEF Inv, WindowInv, CommandHolds, InWindow
<1>11. CommandHolds'
  BY <1>10 DEF CommandHolds
<1>12. Lone'
  BY <1>2, <1>3, <1>4 DEF Inv, Lone, Flushing
<1>13. ASSUME NEW u \in Thread PROVE FlushInv(u)' /\ SeedInv(u)'
  <2>1. CASE u = t
    BY <1>3, <1>4, <2>1 DEF FlushInv, SeedInv, Flushing
  <2>2. CASE u # t
    <3>1. thread'[u] = thread[u] /\ FlushInv(u) /\ SeedInv(u)
      BY <1>4, <2>2 DEF Inv
    <3>2. SeedInv(u)'
      BY <1>2, <3>1 DEF SeedInv
    <3>3. thread[u].pc \in Flushing => thread[u].a \in exists /\ snap'[thread[u].a] = snap[thread[u].a]
      BY <1>0, <1>5 DEF Inv, Flushing, TypeOK
    <3> QED BY <1>2, <1>6, <3>1, <3>2, <3>3 DEF FlushInv
  <2> QED BY <2>1, <2>2
<1>14. MirrorFresh'
  <2> SUFFICES ASSUME NEW c \in Addr \ crossed, Settled(c)'
               PROVE  redis[c] # NoSnap /\ redis[c].at >= snap'[c].at
    BY <1>2 DEF MirrorFresh
  <2>1. CASE snap'[c] = snap[c]
    <3>1. Settled(c)
      BY <1>2, <1>6, <2>1 DEF Settled
    <3> QED BY <2>1, <3>1 DEF Inv, MirrorFresh
  <2>2. CASE c = a /\ a \notin exists
    BY <1>0, <1>1, <1>5, <2>2 DEF SeedInv
  <2> QED BY <1>5, <2>1, <2>2
<1> QED BY <1>7, <1>8, <1>9, <1>10, <1>11, <1>12, <1>13, <1>14 DEF Inv

LEMMA RetireInv ==
  ASSUME Inv, NEW a \in Addr, Retire(a)
  PROVE  Inv'
<1> DEFINE s == [Unknown EXCEPT !.at = now]
<1>0. TypeOK /\ Stamps
  BY DEF Inv
<1>1. /\ redis' = [redis EXCEPT ![a] = s] /\ writes' = writes + 1 /\ writes < MaxWrites
      /\ UNCHANGED <<snap, exists, cmd, dirty, thread, now, crossed, told>>
  BY DEF Retire
<1>2. s \in Snap /\ s.at = now /\ s # NoSnap
  <2>1. s \in Snap /\ s.at = now
    BY <1>0, Clock, UnknownOK DEF Snap
  <2> QED BY <2>1, NoSnapAssumption
<1> HIDE DEF s
<1>3. /\ redis' \in [Addr -> Snap \cup {NoSnap}] /\ redis'[a] = s
      /\ \A c \in Addr \ {a} : redis'[c] = redis[c]
  BY <1>0, <1>1, <1>2 DEF TypeOK
<1>4. TypeOK'
  <2>1. writes' \in 0 .. MaxWrites
    BY <1>0, <1>1, StoreAssumption DEF TypeOK
  <2> QED BY <1>0, <1>1, <1>3, <2>1 DEF TypeOK
<1>5. Stamps'
  BY <1>0, <1>1, <1>2, <1>3, Clock DEF Stamps
<1>6. (\A c \in Addr : WindowInv(c)') /\ CommandHolds'
  BY <1>1 DEF Inv, WindowInv, CommandHolds, InWindow
<1>7. \A c : Marking(c)' <=> Marking(c)
  BY <1>1 DEF Marking
<1>8. ASSUME NEW u \in Thread PROVE FlushInv(u)' /\ SeedInv(u)'
  <2>1. FlushInv(u) /\ SeedInv(u) /\ thread[u].snap.at <= now
    BY <1>0 DEF Inv, Stamps
  <2>2. thread[u].pc \in Flushing => thread[u].a \in Addr
    BY <1>0 DEF Inv, Flushing, TypeOK
  <2>3. thread[u].snap.at \in Nat /\ now \in Nat
    BY <1>0, Clock, StoreAssumption DEF TypeOK, Snap, Time
  <2>4. FlushInv(u)'
    BY <1>1, <1>2, <1>3, <1>7, <2>1, <2>2, <2>3 DEF FlushInv
  <2>5. SeedInv(u)'
    BY <1>1, <1>2, <1>3, <2>1, <2>3 DEF SeedInv
  <2> QED BY <2>4, <2>5
<1>9. Lone'
  BY <1>1 DEF Inv, Lone
<1>10. MirrorFresh'
  <2> SUFFICES ASSUME NEW c \in Addr \ crossed, Settled(c)'
               PROVE  redis'[c] # NoSnap /\ redis'[c].at >= snap[c].at
    BY <1>1 DEF MirrorFresh
  <2>1. Settled(c)
    BY <1>1, <1>7 DEF Settled
  <2>2. snap[c].at <= now /\ snap[c].at \in Nat /\ now \in Nat
    BY <1>0, Clock, StoreAssumption DEF TypeOK, Snap, Time, Stamps
  <2> QED BY <1>2, <1>3, <2>1, <2>2 DEF Inv, MirrorFresh
<1>11. \A u \in Thread : thread'[u].pc \in {"mark", "store", "clear"} => thread'[u].a \in exists'
  BY <1>1 DEF Inv
<1> QED BY <1>4, <1>5, <1>6, <1>8, <1>9, <1>10, <1>11 DEF Inv

LEMMA TickInv ==
  ASSUME Inv, Tick
  PROVE  Inv'
<1>0. TypeOK /\ Stamps /\ now \in Nat /\ now' = now + 1 /\ now < MaxTime
  BY Clock DEF Inv, Tick
<1>1. UNCHANGED <<snap, exists, cmd, dirty, redis, thread, writes, crossed, told>>
  BY DEF Tick
<1>2. TypeOK'
  <2>1. now' \in Time
    BY <1>0, StoreAssumption DEF Time
  <2> QED BY <1>0, <1>1, <2>1 DEF TypeOK
<1>3. /\ \A a \in Addr : snap[a].at \in Nat /\ told[a].at \in Nat
      /\ \A a \in Addr : redis[a] # NoSnap => redis[a].at \in Nat
      /\ \A u \in Thread : thread[u].snap.at \in Nat
  BY <1>0, StoreAssumption DEF TypeOK, Snap, Time
<1>4. Stamps'
  BY <1>0, <1>1, <1>3 DEF Stamps
<1>5. ASSUME NEW a \in Addr PROVE WindowInv(a)' /\ (InWindow(a)' => InWindow(a))
  <2>1. Window \in Nat
    BY StoreAssumption
  <2> QED BY <1>0, <1>1, <1>3, <2>1 DEF Inv, WindowInv, InWindow
<1>6. CommandHolds'
  BY <1>1, <1>5 DEF Inv, CommandHolds
<1>7. \A c : Marking(c)' <=> Marking(c)
  BY <1>1 DEF Marking
<1>8. \A u \in Thread : FlushInv(u)' /\ SeedInv(u)'
  BY <1>1, <1>7 DEF Inv, FlushInv, SeedInv
<1>9. Lone' /\ MirrorFresh'
  BY <1>1, <1>7 DEF Inv, Lone, MirrorFresh, Settled
<1>10. \A u \in Thread : thread'[u].pc \in {"mark", "store", "clear"} => thread'[u].a \in exists'
  BY <1>1 DEF Inv
<1> QED BY <1>2, <1>4, <1>5, <1>6, <1>8, <1>9, <1>10 DEF Inv

-----------------------------------------------------------------------------
LEMMA InitInv == Init => Inv
<1> SUFFICES ASSUME Init PROVE Inv
  OBVIOUS
<1>1. redis \in [Addr -> Earlier \cup {NoSnap}]
  BY DEF Init
<1>2. Earlier \subseteq Snap /\ \A e \in Earlier : e.at = 1
  <2>1. 1 \in Time
    BY StoreAssumption DEF Time
  <2>2. \A e \in Earlier : e.at = 1
    BY DEF Earlier
  <2>3. ASSUME NEW e \in Earlier PROVE e \in Snap
    BY <2>1 DEF Earlier, Snap
  <2> QED BY <2>2, <2>3
<1>3. TypeOK
  <2>1. thread \in [Thread -> ThreadState(exists)]
    BY IdleOK DEF Init
  <2>2. now \in Time /\ writes \in 0 .. MaxWrites
    BY StoreAssumption DEF Init, Time
  <2>3. redis \in [Addr -> Snap \cup {NoSnap}]
    BY <1>1, <1>2
  <2>4. /\ snap \in [Addr -> Snap]
        /\ cmd \in [Addr -> [speed : Speeds \cup {0}, fwd : BOOLEAN, at : Time]]
        /\ told \in [Addr -> [speed : Speeds \cup {0}, fwd : BOOLEAN, at : Time, open : BOOLEAN]]
    BY UnknownOK DEF Init, NoCmd
  <2> QED BY <2>1, <2>2, <2>3, <2>4 DEF Init, TypeOK, ThreadState
<1>4. \A t \in Thread : thread[t].pc = "idle" /\ thread[t].snap.at = 0
  BY IdleOK DEF Init
<1>5. Stamps
  <2>1. \A a \in Addr : redis[a] # NoSnap => redis[a].at = 1
    BY <1>1, <1>2
  <2> QED BY <1>4, <2>1, UnknownOK DEF Init, Stamps
<1>6. \A a \in Addr : ~told[a].open /\ snap[a].at = 0
  BY UnknownOK DEF Init
<1> QED BY <1>3, <1>4, <1>5, <1>6
        DEF Inv, WindowInv, CommandHolds, InWindow, FlushInv, SeedInv, Lone, MirrorFresh,
            Settled, Flushing

LEMMA NextInv == Inv /\ [Next]_vars => Inv'
<1> SUFFICES ASSUME Inv, [Next]_vars PROVE Inv'
  OBVIOUS
<1>0. Feed \subseteq Writer
  BY StoreAssumption
<1>1. CASE \E t \in Writer \ Feed, a \in Addr : Command(t, a)
  BY <1>1, CommandInv
<1>2. CASE \E t \in Feed, a \in Addr : Report(t, a)
  BY <1>0, <1>2, ObserveInv, SeedReadInv DEF Report
<1>3. CASE \E t \in Thread : MarkDirty(t) \/ SeedStore(t) \/ Flush(t)
  BY <1>3, MarkInv, SeedStoreInv, FlushReadInv, FlushStoreInv, FlushFailsInv, FlushClearInv
     DEF Flush
<1>4. CASE FlushAll
  BY <1>4, FlushAllInv
<1>5. CASE \E a \in Addr : Retire(a)
  BY <1>5, RetireInv
<1>6. CASE Tick
  BY <1>6, TickInv
<1>7. CASE UNCHANGED vars
  <2>1. UNCHANGED <<snap, exists, cmd, dirty, redis, thread, now, writes, crossed, told>>
    BY <1>7 DEF vars
  <2>2. TypeOK' /\ Stamps'
    BY <2>1 DEF Inv, TypeOK, Stamps
  <2>3. (\A a \in Addr : WindowInv(a)') /\ CommandHolds'
    BY <2>1 DEF Inv, WindowInv, CommandHolds, InWindow
  <2>4. \A c : Marking(c)' <=> Marking(c)
    BY <2>1 DEF Marking
  <2>5. \A u \in Thread : FlushInv(u)' /\ SeedInv(u)'
    BY <2>1, <2>4 DEF Inv, FlushInv, SeedInv
  <2>6. Lone' /\ MirrorFresh'
    BY <2>1, <2>4 DEF Inv, Lone, MirrorFresh, Settled
  <2> QED BY <2>1, <2>2, <2>3, <2>5, <2>6 DEF Inv
<1> QED BY <1>1, <1>2, <1>3, <1>4, <1>5, <1>6, <1>7 DEF Next

\* The inductive invariant holds in every reachable state.
THEOREM InvHolds == Spec => []Inv
  BY InitInv, NextInv, PTL DEF Spec

\* The mirror in Redis is up to date: once an entry is neither dirty nor
\* about to be marked, Redis has it or something newer, for any interleaving
\* of writes with flushAll, FlushNow, LoadMissingFromRedis and retirements in
\* which no two goroutines flush one address at once (loco_store.go).
THEOREM MirrorStaysFresh == Spec => []Mirror
<1>1. Inv => Mirror
  BY DEF Inv, Mirror
<1> QED BY <1>1, InvHolds, PTL

\* A motion command holds against every stale echo for its whole window
\* (commandSuppressWindow, ApplyObservation).
THEOREM CommandsHold == Spec => []CommandHolds
<1>1. Inv => CommandHolds
  BY DEF Inv
<1> QED BY <1>1, InvHolds, PTL

\* No step inside the window drops the ownership of a loco
\* (ApplyObservation's clearing of the controlling user).
THEOREM OwnersKept == Spec => OwnerKept
<1>1. ASSUME Inv, Next, NEW a \in Addr, InWindow(a), snap[a].user # Nobody
      PROVE  snap'[a].user # Nobody
  <2>0. TypeOK /\ a \in exists /\ Feed \subseteq Writer /\ Nobody \notin User
    BY <1>1, StoreAssumption DEF Inv, WindowInv, InWindow
  <2>1. ASSUME NEW t, NEW b, NEW s \in Snap, NEW pr, Wrote(t, b, s, pr), b = a => s.user # Nobody
        PROVE  snap'[a].user # Nobody
    BY <1>1, <2>0, <2>1 DEF Wrote, TypeOK
  <2>2. CASE snap' = snap
    BY <1>1, <2>2
  <2>3. ASSUME NEW t \in Writer, NEW b \in Addr, Command(t, b) PROVE snap'[a].user # Nobody
    <3>1. snap[b] \in Snap /\ now \in Time
      BY <2>0 DEF TypeOK
    <3>2. ASSUME NEW v \in Speeds, NEW f \in BOOLEAN, NEW u \in User, SetSpeed(t, b, v, f, u)
          PROVE  snap'[a].user # Nobody
      <4> DEFINE s == [snap[b] EXCEPT !.speed = v, !.fwd = f, !.user = u, !.at = now]
      <4>1. s \in Snap /\ s.user # Nobody
        BY <2>0, <3>1 DEF Snap
      <4>2. \E pr : Wrote(t, b, s, pr)
        BY <3>2 DEF SetSpeed
      <4> HIDE DEF s
      <4> QED BY <2>1, <4>1, <4>2
    <3>3. ASSUME NEW v \in Speeds, NEW f \in BOOLEAN, SetSpeedPreservingUser(t, b, v, f)
          PROVE  snap'[a].user # Nobody
      <4> DEFINE s == [snap[b] EXCEPT !.speed = v, !.fwd = f, !.at = now]
      <4>1. s \in Snap /\ (b = a => s.user # Nobody)
        BY <1>1, <3>1 DEF Snap
      <4>2. \E pr : Wrote(t, b, s, pr)
        BY <3>3 DEF SetSpeedPreservingUser
      <4> HIDE DEF s
      <4> QED BY <2>1, <4>1, <4>2
    <3>4. ASSUME NEW u \in User \cup {Nobody}, NEW on \in BOOLEAN, SetFunction(t, b, u, on)
          PROVE  snap'[a].user # Nobody
      <4> DEFINE s == [snap[b] EXCEPT !.user = IF u = Nobody THEN @ ELSE u, !.fn = on, !.at = now]
      <4>1. s \in Snap /\ (b = a => s.user # Nobody)
        BY <1>1, <3>1 DEF Snap
      <4>2. Wrote(t, b, s, FALSE)
        BY <3>4 DEF SetFunction
      <4> HIDE DEF s
      <4> QED BY <2>1, <4>1, <4>2
    <3> QED BY <2>3, <3>2, <3>3, <3>4 DEF Command
  <2>4. ASSUME NEW t \in Writer, NEW b \in Addr, NEW o \in Observation, ApplyObservation(t, b, o)
        PROVE  snap'[a].user # Nobody
    <3>1. CASE Wrote(t, b, Observed(b, o), FALSE)
      <4>1. Observed(b, o) \in Snap /\ (b = a => Observed(b, o).user = snap[a].user)
        BY <1>1, ObservedType
      <4> QED BY <1>1, <2>1, <3>1, <4>1
    <3> QED BY <2>2, <2>4, <3>1 DEF ApplyObservation
  <2>5. ASSUME NEW t \in Thread, SeedStore(t) PROVE snap'[a].user # Nobody
    <3>1. thread[t].a \in exists => snap' = snap
      BY <2>5 DEF SeedStore
    <3>2. thread[t].a \notin exists => snap'[a] = snap[a]
      BY <2>0, <2>5 DEF SeedStore, TypeOK
    <3> QED BY <1>1, <3>1, <3>2
  <2>6. ASSUME NEW t \in Thread, MarkDirty(t) \/ Flush(t) PROVE snap' = snap
    BY <2>6 DEF MarkDirty, Flush, FlushRead, FlushStore, FlushFails, FlushClear
  <2>7. FlushAll \/ (\E b \in Addr : Retire(b)) \/ Tick \/ (\E t \in Feed, b \in Addr : SeedRead(t, b))
          => snap' = snap
    BY DEF FlushAll, Retire, Tick, SeedRead
  <2> QED BY <1>1, <2>0, <2>2, <2>3, <2>4, <2>5, <2>6, <2>7 DEF Next, Report
<1>2. Inv /\ [Next]_vars =>
        [\A a \in Addr : InWindow(a) /\ snap[a].user # Nobody => snap'[a].user # Nobody]_vars
  BY <1>1
<1> QED BY <1>2, InvHolds, PTL DEF Spec, OwnerKept
=============================================================================
