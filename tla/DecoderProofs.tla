---------------------------- MODULE DecoderProofs ----------------------------
(***************************************************************************)
(* Proofs about the function cache and the programming of CVs, for every   *)
(* number of functions, goroutines, addresses and requests.                *)
(*                                                                         *)
(* Neither property is inductive.  That nothing is swallowed needs what    *)
(* the cache, the store and the decoder have to do with each other at      *)
(* every step of setLocoFunction, and that the last report on the bus is   *)
(* the decoder's state.  That an address is whole needs mutual exclusion   *)
(* under progMu and how far the list of CVs has been written.              *)
(***************************************************************************)
EXTENDS Decoder, SequenceTheorems, TLAPS

-----------------------------------------------------------------------------
(***************************************************************************)
(* The inductive invariant of setLocoFunction.                             *)
(***************************************************************************)
SetterState ==
  [pc : {"off", "check", "send", "store", "rollback", "wait"}, f : Fn \cup {None},
   on : BOOLEAN, prev : BOOLEAN \cup {None}, tries : 0 .. Retry]

Working == {"check", "send", "store", "rollback"}

\* A goroutine at work has a function; only a pulse waits, and it pulses its
\* own function; the map holds the pulses that are under way; a handler never
\* switches a momentary function on.
SetterInv ==
  /\ \A p \in Setter : set[p].pc \in Working => set[p].f \in Fn
  /\ \A p \in Handler : set[p].pc # "wait"
  /\ \A p \in Handler : set[p].pc \in Working /\ set[p].f \in Momentary => ~set[p].on
  /\ \A f \in Fn : /\ active[f] <=> set[Pulse(f)].pc # "off"
                   /\ active[f] => set[Pulse(f)].f = f

\* The last report of a function that is on its way is the decoder's state.
LastReport(f) ==
  \A i \in DOMAIN bus :
    bus[i][1] = f /\ (\A j \in DOMAIN bus : j > i => bus[j][1] # f) => bus[i][2] = deco[f]

\* How far goroutine p, alone with its function f, has come.
Stage(p, f) ==
  LET g == set[p]
  IN  /\ g.pc = "check" => cache[f] \in {None, store[f]} /\ store[f] = deco[f]
      /\ g.pc \in {"send", "rollback"} => g.prev \in {None, deco[f]} /\ store[f] = deco[f]
      /\ g.pc \in {"send", "store"} => cache[f] = g.on
      /\ g.pc = "store" => deco[f] = g.on
      /\ g.pc = "rollback" => g.on
      /\ f \in Momentary /\ p = Pulse(f) /\ g.on /\ g.pc # "store" => ~deco[f]

FnInv(f) ==
  f \notin muddled =>
    /\ \A p, q \in Busy(f) : p = q
    /\ Busy(f) # {} => ~Reported(f)
    /\ Busy(f) = {} => cache[f] \in {None, store[f]} /\ (Reported(f) \/ store[f] = deco[f])
    /\ LastReport(f)
    /\ \A p \in Busy(f) : Stage(p, f)
    /\ f \in Momentary /\ ~active[f] => ~deco[f]

(***************************************************************************)
(* The inductive invariant of programming.                                 *)
(***************************************************************************)

\* What is left of the writes of an address, and what has been written.
SetLeft(r) ==
  LET w == AddressCVWrites(r.to)
      n == Len(w) - Len(r.todo)
  IN  /\ r.to \in Address
      /\ r.got = <<>> => n = -1 /\ r.todo[1] = <<29, 0>>
      /\ r.got # <<>> => n >= 0
      /\ \A i \in 1 .. Len(w) : i > n => r.todo[i - n] = w[i]

SetDone(r) ==
  LET w == AddressCVWrites(r.to)
  IN  \A i \in 1 .. Len(w) : i <= Len(w) - Len(r.todo) => cv[w[i][1]] = w[i][2]

ReadDone(r) == \A i \in DOMAIN r.got : r.got[i][2] = cv[r.got[i][1]]

ProgInv(p) ==
  LET r == prog[p]
  IN  /\ r.pc = "work" <=> progMu = p
      /\ r.pc = "lock" => r.got = <<>>
      /\ r.op = "set" /\ r.pc # "off" => SetLeft(r)
      /\ r.op = "set" /\ r.pc = "work" => SetDone(r)
      /\ r.op = "get" /\ r.pc # "off" => Len(r.got) + Len(r.todo) = 4
      /\ r.op \in {"get", "read"} /\ r.pc = "work" => ReadDone(r)

Inv ==
  /\ TypeOK /\ SetterInv
  /\ \A f \in Fn : FnInv(f)
  /\ \A p \in Programmer : ProgInv(p)
  /\ NothingSwallowed

-----------------------------------------------------------------------------
(***************************************************************************)
(* Steps of setLocoFunction.                                               *)
(***************************************************************************)
LEMMA Setters ==
  ASSUME NEW f \in Fn
  PROVE  Pulse(f) \in Setter /\ Pulse(f) \notin Handler
  BY DecoderAssumption DEF Setter, Pulse

LEMMA PulseInjective ==
  ASSUME NEW f \in Fn, NEW g \in Fn, Pulse(f) = Pulse(g)
  PROVE  f = g
  BY DEF Pulse

LEMMA FreeOK == Free \in SetterState /\ Free.pc = "off"
  BY DecoderAssumption DEF Free, SetterState

\* Setting a function leaves programming alone, and the other way round.
LEMMA ProgFrame ==
  ASSUME \A q \in Programmer : ProgInv(q), UNCHANGED cvs
  PROVE  \A q \in Programmer : ProgInv(q)'
  BY DEF ProgInv, SetLeft, SetDone, ReadDone, cvs

LEMMA FunctionsFrame ==
  ASSUME Inv, UNCHANGED fns
  PROVE  SetterInv' /\ NothingSwallowed' /\ \A f \in Fn : FnInv(f)'
<1>1. SetterInv' /\ NothingSwallowed'
  BY DEF Inv, SetterInv, NothingSwallowed, fns
<1>2. \A f \in Fn : FnInv(f)'
  BY DEF Inv, FnInv, Busy, Reported, LastReport, Stage, fns
<1> QED BY <1>1, <1>2

LEMMA FnsFrame ==
  ASSUME Inv, UNCHANGED <<fns, cvs>>, calls' \in 0 .. MaxCalls
  PROVE  Inv'
<1>1. TypeOK'
  BY DEF Inv, TypeOK, fns, cvs
<1>2. \A q \in Programmer : ProgInv(q)'
  BY ProgFrame DEF Inv
<1> QED BY <1>1, <1>2, FunctionsFrame DEF Inv

\* One goroutine moves.
LEMMA SetterStep ==
  ASSUME TypeOK, NEW p \in Setter, NEW r \in SetterState,
         set' = [set EXCEPT ![p] = r]
  PROVE  /\ set' \in [Setter -> SetterState]
         /\ \A q \in Setter : set'[q] = IF q = p THEN r ELSE set[q]
         /\ \A g : Busy(g)' = IF r.f = g /\ r.pc \in Working
                              THEN Busy(g) \cup {p} ELSE Busy(g) \ {p}
<1>1. set \in [Setter -> SetterState]
  BY DEF TypeOK, SetterState
<1>2. set' \in [Setter -> SetterState]
  BY <1>1
<1>3. \A q \in Setter : set'[q] = IF q = p THEN r ELSE set[q]
  BY <1>1
<1>4. ASSUME NEW g
      PROVE  Busy(g)' = IF r.f = g /\ r.pc \in Working THEN Busy(g) \cup {p} ELSE Busy(g) \ {p}
  BY <1>3 DEF Busy, Working
<1> QED BY <1>2, <1>3, <1>4

\* A function whose bits and whose goroutines a step leaves alone.
LEMMA FnFrame ==
  ASSUME NEW g \in Fn, FnInv(g), bus' = bus,
         cache'[g] = cache[g], store'[g] = store[g], deco'[g] = deco[g],
         active'[g] = active[g], Busy(g)' = Busy(g),
         \A q \in Busy(g) : set'[q] = set[q],
         g \in muddled => g \in muddled'
  PROVE  FnInv(g)'
<1> SUFFICES ASSUME g \notin muddled' PROVE FnInv(g)'
  BY DEF FnInv
<1>1. Reported(g)' <=> Reported(g)
  BY DEF Reported
<1>2. LastReport(g)' <=> LastReport(g)
  BY DEF LastReport
<1>3. \A q \in Busy(g)' : Stage(q, g)'
  BY DEF FnInv, Stage
<1> QED BY <1>1, <1>2, <1>3 DEF FnInv

\* Goroutine p sets f and nobody else does.
LEMMA Alone ==
  ASSUME NEW f \in Fn, FnInv(f), f \notin muddled, NEW p \in Busy(f)
  PROVE  Busy(f) = {p} /\ ~Reported(f) /\ Stage(p, f)
  BY DEF FnInv

\* Nobody sets f once the goroutine that was alone with it has returned.
LEMMA Leaves ==
  ASSUME TypeOK, NEW p \in Setter, NEW r \in SetterState, NEW f,
         set' = [set EXCEPT ![p] = r], Busy(f) = {p}, r.pc \notin Working
  PROVE  Busy(f)' = {}
<1>1. Busy(f)' = Busy(f) \ {p}
  BY SetterStep
<1> QED BY <1>1

LEMMA BusyAfter ==
  ASSUME NEW f \in Fn, NEW p, Busy(f)' = {p}, ~Reported(f), bus' = bus, Stage(p, f)',
         f \in Momentary /\ ~active'[f] => ~deco'[f]
  PROVE  FnInv(f)'
  BY DEF FnInv, Reported, LastReport

LEMMA IdleAfter ==
  ASSUME NEW f \in Fn, Busy(f)' = {}, ~Reported(f), bus' = bus,
         cache'[f] \in {None, store'[f]}, store'[f] = deco'[f],
         f \in Momentary /\ ~active'[f] => ~deco'[f]
  PROVE  FnInv(f)'
  BY DEF FnInv, Reported, LastReport

\* The step is about f: the other functions keep their invariant.
LEMMA OtherFunctions ==
  ASSUME TypeOK, \A g \in Fn : FnInv(g), NEW p \in Setter, NEW r \in SetterState,
         NEW f \in Fn, set' = [set EXCEPT ![p] = r],
         set[p].pc \in Working => set[p].f = f,
         r.pc \in Working => r.f = f,
         bus' = bus, muddled \subseteq muddled',
         \A g \in Fn \ {f} : /\ cache'[g] = cache[g] /\ store'[g] = store[g]
                             /\ deco'[g] = deco[g] /\ active'[g] = active[g],
         FnInv(f)'
  PROVE  \A g \in Fn : FnInv(g)'
<1> SUFFICES ASSUME NEW g \in Fn \ {f} PROVE FnInv(g)'
  OBVIOUS
<1>1. p \notin Busy(g)
  BY DEF Busy, Working
<1>2. Busy(g)' = Busy(g)
  <2>1. Busy(g)' = Busy(g) \ {p}
    BY SetterStep
  <2> QED BY <1>1, <2>1
<1>3. \A q \in Busy(g) : set'[q] = set[q]
  BY <1>1, SetterStep DEF Busy
<1> QED BY <1>2, <1>3, FnFrame

LEMMA SetterInvStep ==
  ASSUME TypeOK, SetterInv, NEW p \in Setter, NEW r \in SetterState,
         set' = [set EXCEPT ![p] = r],
         r.pc \in Working => r.f \in Fn,
         p \in Handler => /\ r.pc # "wait" /\ active' = active
                          /\ r.pc \in Working /\ r.f \in Momentary => ~r.on,
         \A f \in Fn : p = Pulse(f) => /\ (active'[f] <=> r.pc # "off")
                                       /\ r.pc # "off" => r.f = f
                                       /\ \A h \in Fn \ {f} : active'[h] = active[h]
  PROVE  SetterInv'
<1>1. \A q \in Setter : set'[q] = IF q = p THEN r ELSE set[q]
  BY SetterStep
<1>2. Handler \subseteq Setter
  BY DEF Setter
<1>3. ASSUME NEW h \in Fn
      PROVE  (active'[h] <=> set'[Pulse(h)].pc # "off") /\ (active'[h] => set'[Pulse(h)].f = h)
  <2>1. Pulse(h) \in Setter /\ Pulse(h) \notin Handler
    BY Setters
  <2>2. CASE p = Pulse(h)
    BY <1>1, <2>1, <2>2
  <2>3. CASE p # Pulse(h)
    <3>1. active'[h] = active[h]
      <4>1. CASE p \in Handler
        BY <4>1
      <4>2. CASE p \notin Handler
        <5>1. PICK f \in Fn : p = Pulse(f)
          BY <4>2 DEF Setter
        <5>2. h \in Fn \ {f}
          BY <2>3, <5>1
        <5> QED BY <5>1, <5>2
      <4> QED BY <4>1, <4>2
    <3>2. set'[Pulse(h)] = set[Pulse(h)]
      BY <1>1, <2>1, <2>3
    <3> QED BY <3>1, <3>2 DEF SetterInv
  <2> QED BY <2>2, <2>3
<1>4. \A q \in Setter : set'[q].pc \in Working => set'[q].f \in Fn
  BY <1>1 DEF SetterInv
<1>5. \A q \in Handler : /\ set'[q].pc # "wait"
                         /\ set'[q].pc \in Working /\ set'[q].f \in Momentary => ~set'[q].on
  BY <1>1, <1>2 DEF SetterInv
<1> QED BY <1>3, <1>4, <1>5 DEF SetterInv

\* A pulse at work pulses its own function.
LEMMA OwnPulse ==
  ASSUME SetterInv, NEW p \in Setter \ Handler, set[p].pc # "off"
  PROVE  set[p].f \in Fn /\ p = Pulse(set[p].f) /\ active[set[p].f]
<1>1. PICK f \in Fn : p = Pulse(f)
  BY DEF Setter
<1> QED BY <1>1 DEF SetterInv

\* What a step of a goroutine about function f has to show.
LEMMA OneStep ==
  ASSUME Inv, NEW p \in Setter, NEW r \in SetterState, NEW f \in Fn,
         set' = [set EXCEPT ![p] = r],
         set[p].pc \in Working => set[p].f = f,
         r.pc \in Working => r.f = f,
         bus' = bus, UNCHANGED cvs, seen' \in BOOLEAN, calls' \in 0 .. MaxCalls,
         muddled \subseteq muddled', muddled' \subseteq Fn,
         cache' \in [Fn -> BOOLEAN \cup {None}], store' \in [Fn -> BOOLEAN],
         deco' \in [Fn -> BOOLEAN], active' \in [Fn -> BOOLEAN],
         \A h \in Fn \ {f} : /\ cache'[h] = cache[h] /\ store'[h] = store[h]
                             /\ deco'[h] = deco[h] /\ active'[h] = active[h],
         p \in Handler => /\ r.pc # "wait" /\ active' = active
                          /\ r.pc \in Working /\ f \in Momentary => ~r.on,
         p \notin Handler => /\ p = Pulse(f) /\ (active'[f] <=> r.pc # "off")
                             /\ r.pc # "off" => r.f = f,
         FnInv(f)', NothingSwallowed'
  PROVE  Inv'
<1>0. TypeOK /\ SetterInv /\ \A h \in Fn : FnInv(h)
  BY DEF Inv
<1>1. \A h \in Fn : FnInv(h)'
  BY <1>0, OtherFunctions
<1>2. SetterInv'
  <2>1. ASSUME NEW k \in Fn, p = Pulse(k)
        PROVE  /\ (active'[k] <=> r.pc # "off") /\ (r.pc # "off" => r.f = k)
               /\ \A h \in Fn \ {k} : active'[h] = active[h]
    <3>1. p \notin Handler /\ k = f
      BY <2>1, Setters, PulseInjective
    <3> QED BY <3>1
  <2>2. r.pc \in Working => r.f \in Fn
    OBVIOUS
  <2>3. p \in Handler => /\ r.pc # "wait" /\ active' = active
                         /\ r.pc \in Working /\ r.f \in Momentary => ~r.on
    OBVIOUS
  <2>4. \A k \in Fn : p = Pulse(k) => /\ (active'[k] <=> r.pc # "off")
                                      /\ r.pc # "off" => r.f = k
                                      /\ \A h \in Fn \ {k} : active'[h] = active[h]
    BY <2>1
  <2> QED BY <1>0, <2>2, <2>3, <2>4, SetterInvStep
<1>3. TypeOK'
  <2>1. set' \in [Setter -> SetterState]
    BY <1>0, SetterStep
  <2>2. swallowed' \subseteq Fn
    BY DEF NothingSwallowed
  <2> QED BY <1>0, <2>1, <2>2 DEF TypeOK, SetterState, cvs
<1>4. \A q \in Programmer : ProgInv(q)'
  BY ProgFrame DEF Inv
<1> QED BY <1>1, <1>2, <1>3, <1>4 DEF Inv

LEMMA CheckInv ==
  ASSUME Inv, NEW p \in Setter, CheckAndStage(p)
  PROVE  Inv'
<1> DEFINE g == set[p]
<1>a. PICK f \in Fn : g.f = f
  BY DEF Inv, SetterInv, CheckAndStage, Working
<1> DEFINE stay == p \notin Handler /\ g.on
           r == IF checkFnStateMatches(f, g.on)
                THEN IF stay THEN [g EXCEPT !.pc = "wait"] ELSE Free
                ELSE [g EXCEPT !.pc = "send", !.prev = cache[f]]
<1>0. /\ TypeOK /\ SetterInv /\ \A h \in Fn : FnInv(h)
      /\ g \in SetterState /\ g.pc = "check"
  BY DEF Inv, TypeOK, SetterState, CheckAndStage
<1>1. set' = [set EXCEPT ![p] = r]
  BY <1>0, <1>a DEF CheckAndStage, Return, TypeOK
<1>2. /\ r \in SetterState
      /\ r.pc \in Working => r.pc = "send" /\ r.f = f /\ r.on = g.on /\ r.prev = cache[f]
      /\ r.pc = "wait" => stay /\ r.f = f
      /\ r.pc \in Working <=> ~checkFnStateMatches(f, g.on)
      /\ checkFnStateMatches(f, g.on) => r.pc \in {"wait", "off"} /\ (r.pc = "wait" <=> stay)
  <2>1. cache[f] \in BOOLEAN \cup {None}
    BY <1>0 DEF TypeOK
  <2> QED BY <1>0, <1>a, <2>1, FreeOK DEF SetterState, Working
<1>3. active' = IF r.pc = "off" /\ p \notin Handler THEN [active EXCEPT ![f] = FALSE] ELSE active
  BY <1>0, <1>2, <1>a DEF CheckAndStage, Return
<1>4. p \in Busy(f)
  BY <1>0, <1>a DEF Busy
<1>5. /\ store' = store /\ deco' = deco /\ bus' = bus /\ muddled' = muddled
      /\ cache' = IF r.pc \in Working THEN [cache EXCEPT ![f] = g.on] ELSE cache
  BY <1>2, <1>a DEF CheckAndStage
<1>6. p \notin Handler => p = Pulse(f) /\ active[f]
  BY <1>0, <1>a, OwnPulse
<1> HIDE DEF r
<1>7. FnInv(f)'
  <2>1. CASE f \in muddled
    BY <1>5, <2>1 DEF FnInv
  <2>2. CASE f \notin muddled
    <3>1. /\ Busy(f) = {p} /\ ~Reported(f) /\ Stage(p, f)
          /\ f \in Momentary /\ ~active[f] => ~deco[f]
      BY <1>0, <1>4, <2>2, Alone DEF FnInv
    <3>2. cache[f] \in {None, store[f]} /\ store[f] = deco[f]
      BY <1>0, <3>1 DEF Stage
    <3>3. active \in [Fn -> BOOLEAN] /\ cache \in [Fn -> BOOLEAN \cup {None}]
      BY <1>0 DEF TypeOK
    <3>4. CASE r.pc \in Working
      <4>1. Busy(f)' = {p} /\ set'[p] = r
        BY <1>0, <1>1, <1>2, <3>1, <3>4, SetterStep, ZenonT(60)
      <4>2. cache'[f] = g.on /\ active' = active
        BY <1>2, <1>3, <1>5, <3>3, <3>4 DEF Working
      <4>3. f \in Momentary /\ p = Pulse(f) /\ g.on => ~deco[f]
        BY <1>0, <3>1 DEF Stage
      <4>4. Stage(p, f)'
        BY <1>2, <1>5, <3>2, <3>4, <4>1, <4>2, <4>3 DEF Stage
      <4> QED BY <1>5, <3>1, <4>1, <4>2, <4>4, BusyAfter
    <3>5. CASE r.pc \notin Working
      <4>1. Busy(f)' = {}
        BY <1>0, <1>1, <1>2, <3>1, <3>5, Leaves
      <4>2. f \in Momentary /\ ~active'[f] => ~deco'[f]
        BY <1>2, <1>3, <1>5, <3>1, <3>2, <3>3, <3>5 DEF checkFnStateMatches
      <4> QED BY <1>5, <3>1, <3>2, <3>5, <4>1, <4>2, IdleAfter
    <3> QED BY <3>4, <3>5
  <2> QED BY <2>1, <2>2
<1>8. NothingSwallowed'
  <2>1. swallowed' \subseteq swallowed \cup {f}
    BY <1>a DEF CheckAndStage
  <2>2. f \notin muddled => swallowed' = swallowed
    <3> SUFFICES ASSUME f \notin muddled PROVE swallowed' = swallowed
      OBVIOUS
    <3>1. Stage(p, f) /\ ~Reported(f)
      BY <1>0, <1>4, Alone
    <3>2. store[f] = deco[f]
      BY <1>0, <3>1 DEF Stage
    <3> QED BY <1>a, <3>2 DEF CheckAndStage, checkFnStateMatches
  <2> QED BY <1>5, <2>1, <2>2 DEF Inv, NothingSwallowed
<1>9. /\ cache' \in [Fn -> BOOLEAN \cup {None}] /\ active' \in [Fn -> BOOLEAN]
      /\ \A h \in Fn \ {f} : cache'[h] = cache[h] /\ active'[h] = active[h]
  BY <1>0, <1>3, <1>5 DEF TypeOK, SetterState
<1>10. p \in Handler => /\ r.pc # "wait" /\ active' = active
                        /\ r.pc \in Working /\ f \in Momentary => ~r.on
  BY <1>0, <1>a, <1>2, <1>3 DEF SetterInv, Working
<1>11. p \notin Handler => /\ p = Pulse(f) /\ (active'[f] <=> r.pc # "off")
                           /\ r.pc # "off" => r.f = f
  BY <1>0, <1>2, <1>3, <1>6 DEF TypeOK, SetterState, Working
<1>12. UNCHANGED <<cvs, seen, calls>>
  BY DEF CheckAndStage
<1>13. store' \in [Fn -> BOOLEAN] /\ deco' \in [Fn -> BOOLEAN]
  BY <1>0, <1>5 DEF TypeOK
<1>14. (g.pc \in Working => g.f = f) /\ (r.pc \in Working => r.f = f)
  BY <1>a, <1>2
<1>15. seen' \in BOOLEAN /\ calls' \in 0 .. MaxCalls /\ muddled \subseteq muddled' /\ muddled' \subseteq Fn
  BY <1>0, <1>5, <1>12 DEF TypeOK
<1> QED BY <1>1, <1>2, <1>5, <1>7, <1>8, <1>9, <1>10, <1>11, <1>12, <1>13, <1>14, <1>15, OneStep

LEMMA SendInv ==
  ASSUME Inv, NEW p \in Setter, SendFn(p)
  PROVE  Inv'
<1> DEFINE g == set[p]
<1>a. PICK f \in Fn : g.f = f
  BY DEF Inv, SetterInv, SendFn, Working
<1>0. /\ TypeOK /\ SetterInv /\ \A h \in Fn : FnInv(h)
      /\ g \in SetterState /\ g.pc = "send" /\ p \in Busy(f)
  BY <1>a DEF Inv, TypeOK, SetterState, SendFn, Busy
<1>1. PICK ok \in BOOLEAN :
        /\ set' = [set EXCEPT ![p] = [g EXCEPT !.pc = IF ok THEN "store" ELSE "rollback"]]
        /\ deco' = IF ok THEN [deco EXCEPT ![f] = g.on] ELSE deco
        /\ muddled' = IF ok \/ g.on THEN muddled ELSE muddled \cup {f}
        /\ ok => calls' = calls
        /\ ~ok => calls' \in 0 .. MaxCalls
  <2>1. ASSUME Call PROVE calls' \in 0 .. MaxCalls
    BY <1>0, <2>1, DecoderAssumption DEF Call, TypeOK
  <2> QED BY <1>a, <2>1 DEF SendFn
<1> DEFINE r == [g EXCEPT !.pc = IF ok THEN "store" ELSE "rollback"]
<1>2. /\ r \in SetterState /\ r.f = f /\ r.on = g.on /\ r.prev = g.prev
      /\ r.pc = (IF ok THEN "store" ELSE "rollback") /\ r.pc \in Working
  BY <1>0, <1>a DEF SetterState, Working
<1>3. UNCHANGED <<cache, store, seen, bus, active, swallowed, cvs>>
  BY DEF SendFn
<1> HIDE DEF r
<1>4. FnInv(f)'
  <2> SUFFICES ASSUME f \notin muddled' PROVE FnInv(f)'
    BY DEF FnInv
  <2>1. f \notin muddled /\ (ok \/ g.on)
    BY <1>1
  <2>2. /\ Busy(f) = {p} /\ ~Reported(f) /\ Stage(p, f)
        /\ f \in Momentary /\ ~active[f] => ~deco[f]
    BY <1>0, <2>1, Alone DEF FnInv
  <2>3. Busy(f)' = {p} /\ set'[p] = r
    <3>1. set' = [set EXCEPT ![p] = r]
      BY <1>1 DEF r
    <3>2. Busy(f)' = Busy(f) \cup {p} /\ set'[p] = r
      BY <1>0, <1>2, <3>1, SetterStep
    <3> QED BY <2>2, <3>2
  <2>4. deco'[f] = IF ok THEN g.on ELSE deco[f]
    BY <1>0, <1>1 DEF TypeOK
  <2>5. Stage(p, f)'
    BY <1>0, <1>2, <1>3, <2>1, <2>2, <2>3, <2>4 DEF Stage
  <2>6. ASSUME f \in Momentary, ~active'[f] PROVE ~deco'[f]
    <3>1. p \in Handler
      BY <1>0, <1>3, <1>a, <2>6, OwnPulse
    <3>2. ~g.on
      BY <1>0, <1>a, <2>6, <3>1 DEF SetterInv, Working
    <3> QED BY <1>3, <2>2, <2>4, <2>6, <3>2
  <2> QED BY <1>3, <2>2, <2>3, <2>5, <2>6, BusyAfter
<1>5. p \in Handler => /\ r.pc # "wait" /\ active' = active
                       /\ r.pc \in Working /\ f \in Momentary => ~r.on
  BY <1>0, <1>a, <1>2, <1>3 DEF SetterInv, Working
<1>6. p \notin Handler => /\ p = Pulse(f) /\ (active'[f] <=> r.pc # "off")
                          /\ r.pc # "off" => r.f = f
  <2>1. p \notin Handler => p = Pulse(f) /\ active[f] = TRUE
    BY <1>0, <1>a, OwnPulse DEF TypeOK
  <2> QED BY <1>2, <1>3, <2>1
<1>7. /\ deco' \in [Fn -> BOOLEAN] /\ \A h \in Fn \ {f} : deco'[h] = deco[h]
      /\ calls' \in 0 .. MaxCalls /\ muddled \subseteq muddled' /\ muddled' \subseteq Fn
  BY <1>0, <1>1 DEF TypeOK, SetterState
<1>8. NothingSwallowed'
  BY <1>3, <1>7 DEF Inv, NothingSwallowed
<1>9. /\ cache' \in [Fn -> BOOLEAN \cup {None}] /\ store' \in [Fn -> BOOLEAN]
      /\ active' \in [Fn -> BOOLEAN] /\ seen' \in BOOLEAN
  BY <1>0, <1>3 DEF TypeOK
<1>10. set' = [set EXCEPT ![p] = r]
  BY <1>1 DEF r
<1> QED BY <1>a, <1>2, <1>3, <1>4, <1>5, <1>6, <1>7, <1>8, <1>9, <1>10, OneStep

LEMMA RollBackInv ==
  ASSUME Inv, NEW p \in Setter, RollBack(p)
  PROVE  Inv'
<1> DEFINE g == set[p]
           again == p \notin Handler /\ g.tries > 0
           r == IF again THEN [g EXCEPT !.pc = "check", !.tries = @ - 1] ELSE Free
<1>a. PICK f \in Fn : g.f = f
  BY DEF Inv, SetterInv, RollBack, Working
<1>0. /\ TypeOK /\ SetterInv /\ \A h \in Fn : FnInv(h)
      /\ g \in SetterState /\ g.pc = "rollback" /\ p \in Busy(f)
  BY <1>a DEF Inv, TypeOK, SetterState, RollBack, Busy
<1>1. set' = [set EXCEPT ![p] = r]
  BY <1>0 DEF RollBack, Return, TypeOK
<1>2. /\ r \in SetterState
      /\ again => r.pc = "check" /\ r.f = f /\ r.on = g.on
      /\ ~again => r.pc = "off"
      /\ r.pc \in Working => again
  <2>1. CASE again
    <3>1. g.tries - 1 \in 0 .. Retry
      BY <1>0, <2>1, DecoderAssumption DEF SetterState
    <3> QED BY <1>0, <1>a, <2>1, <3>1 DEF SetterState, Working
  <2>2. CASE ~again
    BY <2>2, FreeOK DEF Working
  <2> QED BY <2>1, <2>2
<1>3. active' = IF again \/ p \in Handler THEN active ELSE [active EXCEPT ![f] = FALSE]
  BY <1>0, <1>a DEF RollBack, Return
<1>4. /\ cache' = [cache EXCEPT ![f] = g.prev]
      /\ UNCHANGED <<store, deco, seen, bus, muddled, swallowed, cvs, calls>>
  BY <1>a DEF RollBack
<1> HIDE DEF r
<1>5. p \notin Handler => p = Pulse(f) /\ active[f]
  BY <1>0, <1>a, OwnPulse
<1>6. FnInv(f)'
  <2> SUFFICES ASSUME f \notin muddled PROVE FnInv(f)'
    BY <1>4 DEF FnInv
  <2>1. /\ Busy(f) = {p} /\ ~Reported(f) /\ Stage(p, f)
        /\ f \in Momentary /\ ~active[f] => ~deco[f]
    BY <1>0, Alone DEF FnInv
  <2>2. /\ g.prev \in {None, deco[f]} /\ store[f] = deco[f] /\ g.on
        /\ f \in Momentary /\ p = Pulse(f) => ~deco[f]
    BY <1>0, <2>1 DEF Stage
  <2>3. cache'[f] = g.prev
    BY <1>0, <1>4 DEF TypeOK
  <2>4. f \in Momentary /\ ~active'[f] => ~deco'[f]
    BY <1>3, <1>4, <1>5, <2>1, <2>2
  <2>5. CASE again
    <3>1. Busy(f)' = {p} /\ set'[p] = r
      BY <1>0, <1>1, <1>2, <2>1, <2>5, SetterStep DEF Working
    <3>2. Stage(p, f)'
      BY <1>2, <1>4, <2>2, <2>3, <2>5, <3>1 DEF Stage
    <3> QED BY <1>4, <2>1, <2>4, <3>1, <3>2, BusyAfter
  <2>6. CASE ~again
    <3>1. Busy(f)' = {}
      BY <1>0, <1>1, <1>2, <2>1, <2>6, Leaves
    <3> QED BY <1>4, <2>1, <2>2, <2>3, <2>4, <3>1, IdleAfter
  <2> QED BY <2>5, <2>6
<1>7. p \in Handler => /\ r.pc # "wait" /\ active' = active
                       /\ r.pc \in Working /\ f \in Momentary => ~r.on
  BY <1>2, <1>3
<1>8. p \notin Handler => /\ p = Pulse(f) /\ (active'[f] <=> r.pc # "off")
                          /\ r.pc # "off" => r.f = f
  BY <1>0, <1>2, <1>3, <1>5 DEF TypeOK
<1>9. /\ cache' \in [Fn -> BOOLEAN \cup {None}] /\ active' \in [Fn -> BOOLEAN]
      /\ \A h \in Fn \ {f} : cache'[h] = cache[h] /\ active'[h] = active[h]
  BY <1>0, <1>3, <1>4 DEF TypeOK, SetterState
<1>10. /\ store' \in [Fn -> BOOLEAN] /\ deco' \in [Fn -> BOOLEAN] /\ seen' \in BOOLEAN
       /\ calls' \in 0 .. MaxCalls /\ muddled \subseteq muddled' /\ muddled' \subseteq Fn
  BY <1>0, <1>4 DEF TypeOK
<1>11. NothingSwallowed'
  BY <1>4 DEF Inv, NothingSwallowed
<1> QED BY <1>a, <1>1, <1>2, <1>4, <1>6, <1>7, <1>8, <1>9, <1>10, <1>11, OneStep

LEMMA StoreInv ==
  ASSUME Inv, NEW p \in Setter, StoreFunction(p)
  PROVE  Inv'
<1> DEFINE g == set[p]
           stay == p \notin Handler /\ g.on
           r == IF stay THEN [g EXCEPT !.pc = "wait"] ELSE Free
<1>a. PICK f \in Fn : g.f = f
  BY DEF Inv, SetterInv, StoreFunction, Working
<1>0. /\ TypeOK /\ SetterInv /\ \A h \in Fn : FnInv(h)
      /\ g \in SetterState /\ g.pc = "store" /\ p \in Busy(f)
  BY <1>a DEF Inv, TypeOK, SetterState, StoreFunction, Busy
<1>1. set' = [set EXCEPT ![p] = r]
  BY <1>0 DEF StoreFunction, Return, TypeOK
<1>2. /\ r \in SetterState /\ r.pc \notin Working
      /\ stay => r.pc = "wait" /\ r.f = f
      /\ ~stay => r.pc = "off"
  BY <1>0, <1>a, FreeOK DEF SetterState, Working
<1>3. active' = IF stay \/ p \in Handler THEN active ELSE [active EXCEPT ![f] = FALSE]
  BY <1>0, <1>a DEF StoreFunction, Return
<1>4. /\ store' = [store EXCEPT ![f] = g.on]
      /\ UNCHANGED <<cache, deco, seen, bus, muddled, swallowed, cvs, calls>>
  BY <1>a DEF StoreFunction
<1> HIDE DEF r
<1>5. p \notin Handler => p = Pulse(f) /\ active[f]
  BY <1>0, <1>a, OwnPulse
<1>6. FnInv(f)'
  <2> SUFFICES ASSUME f \notin muddled PROVE FnInv(f)'
    BY <1>4 DEF FnInv
  <2>1. /\ Busy(f) = {p} /\ ~Reported(f) /\ Stage(p, f)
        /\ f \in Momentary /\ ~active[f] => ~deco[f]
    BY <1>0, Alone DEF FnInv
  <2>2. cache[f] = g.on /\ deco[f] = g.on
    BY <1>0, <2>1 DEF Stage
  <2>3. store'[f] = g.on
    BY <1>0, <1>4 DEF TypeOK
  <2>4. f \in Momentary /\ ~active'[f] => ~deco'[f]
    BY <1>0, <1>3, <1>4, <1>5, <2>1, <2>2 DEF TypeOK
  <2>5. Busy(f)' = {}
    BY <1>0, <1>1, <1>2, <2>1, Leaves
  <2> QED BY <1>4, <2>1, <2>2, <2>3, <2>4, <2>5, IdleAfter
<1>7. p \in Handler => r.pc # "wait" /\ active' = active
  BY <1>2, <1>3
<1>8. p \notin Handler => /\ p = Pulse(f) /\ (active'[f] <=> r.pc # "off")
                          /\ r.pc # "off" => r.f = f
  BY <1>0, <1>2, <1>3, <1>5 DEF TypeOK
<1>9. /\ store' \in [Fn -> BOOLEAN] /\ active' \in [Fn -> BOOLEAN]
      /\ \A h \in Fn \ {f} : store'[h] = store[h] /\ active'[h] = active[h]
  BY <1>0, <1>3, <1>4 DEF TypeOK, SetterState
<1>10. /\ cache' \in [Fn -> BOOLEAN \cup {None}] /\ deco' \in [Fn -> BOOLEAN]
       /\ seen' \in BOOLEAN
       /\ calls' \in 0 .. MaxCalls /\ muddled \subseteq muddled' /\ muddled' \subseteq Fn
  BY <1>0, <1>4 DEF TypeOK
<1>11. NothingSwallowed'
  BY <1>4 DEF Inv, NothingSwallowed
<1> QED BY <1>a, <1>1, <1>2, <1>4, <1>6, <1>7, <1>8, <1>9, <1>10, <1>11, OneStep

-----------------------------------------------------------------------------
(***************************************************************************)
(* Requests and the other events of a function.                            *)
(***************************************************************************)
LEMMA CallType ==
  ASSUME TypeOK, Call
  PROVE  calls' \in 0 .. MaxCalls
  BY DecoderAssumption DEF Call, TypeOK

LEMMA StartInv ==
  ASSUME Inv, NEW p \in Setter, NEW f \in Fn, NEW on \in BOOLEAN, NEW tries \in 0 .. Retry,
         Start(p, f, on, tries), set[p].pc \in {"off", "wait"},
         UNCHANGED <<cache, store, deco, seen, bus, swallowed, cvs>>, calls' \in 0 .. MaxCalls,
         p \in Handler => active' = active /\ (f \in Momentary => ~on),
         p \notin Handler => /\ p = Pulse(f) /\ active' = [active EXCEPT ![f] = TRUE]
                             /\ on => ~active[f]
  PROVE  Inv'
<1> DEFINE r == [pc |-> "check", f |-> f, on |-> on, prev |-> None, tries |-> tries]
<1>0. TypeOK /\ SetterInv /\ \A h \in Fn : FnInv(h)
  BY DEF Inv
<1>1. r \in SetterState /\ r.pc = "check" /\ r.f = f /\ r.on = on
  BY DEF SetterState
<1>2. set' = [set EXCEPT ![p] = r]
  BY DEF Start
<1>3. /\ muddled \subseteq muddled' /\ muddled' \subseteq Fn
      /\ f \notin muddled' => f \notin muddled /\ Busy(f) \ {p} = {} /\ ~Reported(f)
  BY <1>0 DEF Start, TypeOK
<1> HIDE DEF r
<1>4. FnInv(f)'
  <2> SUFFICES ASSUME f \notin muddled' PROVE FnInv(f)'
    BY DEF FnInv
  <2>1. p \notin Busy(f)
    BY DEF Busy
  <2>2. Busy(f) = {}
    BY <1>3, <2>1
  <2>3. /\ cache[f] \in {None, store[f]} /\ store[f] = deco[f]
        /\ f \in Momentary /\ ~active[f] => ~deco[f]
    BY <1>0, <1>3, <2>2 DEF FnInv
  <2>4. Busy(f)' = {p} /\ set'[p] = r
    BY <1>0, <1>1, <1>2, <2>2, SetterStep DEF Working
  <2>5. p \in Handler => p # Pulse(f)
    BY Setters
  <2>6. Stage(p, f)'
    BY <1>1, <2>3, <2>4, <2>5 DEF Stage
  <2>7. f \in Momentary /\ ~active'[f] => ~deco'[f]
    BY <1>0, <2>3 DEF TypeOK
  <2> QED BY <1>3, <2>4, <2>6, <2>7, BusyAfter
<1>5. /\ active' \in [Fn -> BOOLEAN]
      /\ \A h \in Fn \ {f} : active'[h] = active[h]
      /\ p \notin Handler => active'[f] = TRUE
  BY <1>0 DEF TypeOK
<1>6. p \in Handler => /\ r.pc # "wait" /\ active' = active
                       /\ r.pc \in Working /\ f \in Momentary => ~r.on
  BY <1>1
<1>7. p \notin Handler => /\ p = Pulse(f) /\ (active'[f] <=> r.pc # "off")
                          /\ r.pc # "off" => r.f = f
  BY <1>1, <1>5
<1>8. /\ cache' \in [Fn -> BOOLEAN \cup {None}] /\ store' \in [Fn -> BOOLEAN]
      /\ deco' \in [Fn -> BOOLEAN] /\ seen' \in BOOLEAN
  BY <1>0 DEF TypeOK
<1>9. NothingSwallowed'
  BY <1>3 DEF Inv, NothingSwallowed
<1>10. (set[p].pc \in Working => set[p].f = f) /\ (r.pc \in Working => r.f = f)
  BY <1>1 DEF Working
<1> QED BY <1>1, <1>2, <1>3, <1>4, <1>5, <1>6, <1>7, <1>8, <1>9, <1>10, OneStep

LEMMA StartPulseInv ==
  ASSUME Inv, NEW f \in Fn, NEW tries \in 0 .. Retry, StartPulse(f, tries), Call,
         UNCHANGED <<cache, store, deco, seen, bus, swallowed, cvs>>
  PROVE  Inv'
<1>0. TypeOK /\ SetterInv
  BY DEF Inv
<1>1. calls' \in 0 .. MaxCalls
  BY <1>0, CallType
<1>2. CASE active[f]
  <2>1. UNCHANGED fns
    BY <1>2 DEF StartPulse, fns
  <2> QED BY <1>1, <2>1, FnsFrame
<1>3. CASE ~active[f]
  <2>1. Pulse(f) \in Setter /\ Pulse(f) \notin Handler
    BY Setters
  <2>2. set[Pulse(f)].pc = "off"
    BY <1>0, <1>3 DEF SetterInv
  <2>3. Start(Pulse(f), f, TRUE, tries) /\ active' = [active EXCEPT ![f] = TRUE]
    BY <1>3 DEF StartPulse
  <2> QED BY <1>1, <1>3, <2>1, <2>2, <2>3, StartInv
<1> QED BY <1>2, <1>3

LEMMA HandleInv ==
  ASSUME Inv, NEW p \in Handler, NEW f \in Fn, NEW on \in BOOLEAN,
         HandleSetFunction(p, f, on)
  PROVE  Inv'
<1>1. Call /\ UNCHANGED <<cache, store, deco, seen, bus, swallowed, cvs>> /\ 0 \in 0 .. Retry
  BY DecoderAssumption DEF HandleSetFunction
<1>2. CASE on /\ f \in Momentary
  BY <1>1, <1>2, StartPulseInv DEF HandleSetFunction
<1>3. CASE ~(on /\ f \in Momentary)
  <2>1. Start(p, f, on, 0) /\ active' = active /\ set[p].pc = "off"
    BY <1>3 DEF HandleSetFunction
  <2>2. p \in Setter /\ calls' \in 0 .. MaxCalls
    BY <1>1, CallType DEF Inv, Setter
  <2> QED BY <1>1, <1>3, <2>1, <2>2, StartInv
<1> QED BY <1>2, <1>3

LEMMA DeadManInv ==
  ASSUME Inv, NEW f \in Fn, DeadManHorn(f)
  PROVE  Inv'
<1>1. Retry \in 0 .. Retry
  BY DecoderAssumption
<1> QED BY <1>1, StartPulseInv DEF DeadManHorn

LEMMA PulseOverInv ==
  ASSUME Inv, NEW f \in Fn, PulseOver(f)
  PROVE  Inv'
<1>1. Pulse(f) \in Setter /\ Pulse(f) \notin Handler
  BY Setters
<1>2. /\ Start(Pulse(f), f, FALSE, set[Pulse(f)].tries) /\ set[Pulse(f)].pc = "wait"
      /\ UNCHANGED <<cache, store, deco, seen, bus, active, swallowed, cvs, calls>>
  BY DEF PulseOver
<1>3. set[Pulse(f)].tries \in 0 .. Retry /\ calls' \in 0 .. MaxCalls
  BY <1>1, <1>2 DEF Inv, TypeOK
<1>4. active' = [active EXCEPT ![f] = TRUE]
  <2>1. active[f] = TRUE /\ active \in [Fn -> BOOLEAN]
    BY <1>2 DEF Inv, SetterInv, TypeOK
  <2> QED BY <1>2, <2>1
<1> QED BY <1>1, <1>2, <1>3, <1>4, StartInv

LEMMA SeedInv ==
  ASSUME Inv, Seed
  PROVE  Inv'
<1>0. TypeOK /\ SetterInv /\ \A h \in Fn : FnInv(h)
  BY DEF Inv
<1>1. ASSUME NEW f \in Fn PROVE FnInv(f)'
  <2> SUFFICES ASSUME f \notin muddled' PROVE FnInv(f)'
    BY DEF FnInv
  <2>1. f \notin muddled /\ Busy(f) = {}
    BY DEF Seed
  <2>2. Busy(f)' = {}
    BY <2>1 DEF Seed, Busy
  <2>3. (Reported(f)' <=> Reported(f)) /\ (LastReport(f)' <=> LastReport(f))
    BY DEF Seed, Reported, LastReport
  <2> QED BY <1>0, <2>1, <2>2, <2>3 DEF FnInv, Seed
<1>2. TypeOK'
  BY <1>0, CallType DEF Seed, TypeOK, cvs
<1>3. SetterInv'
  BY <1>0 DEF Seed, SetterInv
<1>4. NothingSwallowed'
  BY DEF Inv, Seed, NothingSwallowed
<1>5. \A q \in Programmer : ProgInv(q)'
  BY ProgFrame DEF Inv, Seed
<1> QED BY <1>1, <1>2, <1>3, <1>4, <1>5 DEF Inv

LEMMA RetireInv ==
  ASSUME Inv, retireRemovedLoco
  PROVE  Inv'
<1>0. TypeOK /\ SetterInv /\ \A h \in Fn : FnInv(h)
  BY DEF Inv
<1>1. ASSUME NEW f \in Fn PROVE FnInv(f)'
  <2> SUFFICES ASSUME f \notin muddled' PROVE FnInv(f)'
    BY DEF FnInv
  <2>1. f \notin muddled /\ Busy(f) = {} /\ ~Reported(f) /\ store[f] = FALSE
    BY <1>0 DEF retireRemovedLoco, TypeOK
  <2>2. Busy(f)' = {}
    BY <2>1 DEF retireRemovedLoco, Busy
  <2>3. cache'[f] = None /\ store'[f] = FALSE /\ deco'[f] = FALSE /\ bus' = bus
    BY <2>1 DEF retireRemovedLoco
  <2> QED BY <2>1, <2>2, <2>3, IdleAfter
<1>2. TypeOK'
  BY <1>0, CallType DEF retireRemovedLoco, TypeOK, cvs
<1>3. SetterInv'
  BY <1>0 DEF retireRemovedLoco, SetterInv
<1>4. NothingSwallowed'
  BY DEF Inv, retireRemovedLoco, NothingSwallowed
<1>5. \A q \in Programmer : ProgInv(q)'
  BY ProgFrame DEF Inv, retireRemovedLoco
<1> QED BY <1>1, <1>2, <1>3, <1>4, <1>5 DEF Inv

LEMMA AppendReports ==
  ASSUME bus \in Seq(Fn \X BOOLEAN), NEW f \in Fn, NEW on \in BOOLEAN,
         bus' = Append(bus, <<f, on>>), NEW g \in Fn, deco'[f] = on
  PROVE  /\ bus' \in Seq(Fn \X BOOLEAN)
         /\ Reported(g)' <=> Reported(g) \/ g = f
         /\ LastReport(f)'
         /\ g # f /\ deco'[g] = deco[g] /\ LastReport(g) => LastReport(g)'
<1> DEFINE n == Len(bus)
<1>0. <<f, on>> \in Fn \X BOOLEAN
  OBVIOUS
<1>1. n \in Nat /\ DOMAIN bus = 1 .. n
  BY LenProperties
<1>2. /\ bus' \in Seq(Fn \X BOOLEAN) /\ Len(bus') = n + 1
      /\ \A i \in 1 .. n : bus'[i] = bus[i]
      /\ bus'[n + 1] = <<f, on>>
  BY <1>0, AppendProperties
<1>3. DOMAIN bus' = 1 .. n + 1
  BY <1>2, LenProperties
<1> HIDE DEF n
<1>4. Reported(g)' <=> Reported(g) \/ g = f
  <2>1. ASSUME Reported(g)' PROVE Reported(g) \/ g = f
    <3>1. PICK i \in 1 .. n + 1 : bus'[i][1] = g
      BY <1>3, <2>1 DEF Reported
    <3>2. CASE i = n + 1
      BY <1>2, <3>1, <3>2
    <3>3. CASE i # n + 1
      <4>1. i \in 1 .. n
        BY <1>1, <3>3
      <4> QED BY <1>1, <1>2, <3>1, <4>1 DEF Reported
    <3> QED BY <3>2, <3>3
  <2>2. ASSUME Reported(g) PROVE Reported(g)'
    <3>1. PICK i \in 1 .. n : bus[i][1] = g
      BY <1>1, <2>2 DEF Reported
    <3>2. i \in 1 .. n + 1
      BY <1>1
    <3> QED BY <1>2, <1>3, <3>1, <3>2 DEF Reported
  <2>3. ASSUME g = f PROVE Reported(g)'
    <3>1. n + 1 \in 1 .. n + 1
      BY <1>1
    <3> QED BY <1>2, <1>3, <2>3, <3>1 DEF Reported
  <2> QED BY <2>1, <2>2, <2>3
<1>5. LastReport(f)'
  <2> SUFFICES ASSUME NEW i \in 1 .. n + 1, bus'[i][1] = f,
                      \A j \in 1 .. n + 1 : j > i => bus'[j][1] # f
               PROVE  bus'[i][2] = deco'[f]
    BY <1>3 DEF LastReport
  <2>1. i = n + 1
    <3>1. n + 1 \in 1 .. n + 1 /\ bus'[n + 1][1] = f
      BY <1>1, <1>2
    <3>2. ~(n + 1 > i)
      BY <3>1
    <3> QED BY <1>1, <3>2
  <2> QED BY <1>2, <2>1
<1>6. ASSUME g # f, deco'[g] = deco[g], LastReport(g) PROVE LastReport(g)'
  <2> SUFFICES ASSUME NEW i \in 1 .. n + 1, bus'[i][1] = g,
                      \A j \in 1 .. n + 1 : j > i => bus'[j][1] # g
               PROVE  bus'[i][2] = deco'[g]
    BY <1>3 DEF LastReport
  <2>1. i \in 1 .. n
    BY <1>1, <1>2, <1>6
  <2>2. \A j \in 1 .. n : j > i => bus[j][1] # g
    BY <1>1, <1>2
  <2> QED BY <1>1, <1>2, <1>6, <2>1, <2>2 DEF LastReport
<1> QED BY <1>2, <1>4, <1>5, <1>6

LEMMA TailReports ==
  ASSUME bus \in Seq(Fn \X BOOLEAN), bus # <<>>, bus' = Tail(bus), NEW g \in Fn, deco' = deco
  PROVE  /\ bus' \in Seq(Fn \X BOOLEAN)
         /\ Reported(g)' => Reported(g)
         /\ Reported(g) => Reported(g)' \/ bus[1][1] = g
         /\ LastReport(g) => LastReport(g)'
         /\ LastReport(g) /\ bus[1][1] = g /\ ~Reported(g)' => bus[1][2] = deco[g]
<1> DEFINE n == Len(bus)
<1>1. n \in Nat \ {0} /\ DOMAIN bus = 1 .. n
  BY LenProperties, EmptySeq
<1>2. /\ bus' \in Seq(Fn \X BOOLEAN) /\ Len(bus') = n - 1
      /\ \A i \in 1 .. n - 1 : bus'[i] = bus[i + 1]
  BY HeadTailProperties
<1>3. DOMAIN bus' = 1 .. n - 1
  BY <1>2, LenProperties
<1> HIDE DEF n
<1>4. ASSUME Reported(g)' PROVE Reported(g)
  <2>1. PICK i \in 1 .. n - 1 : bus'[i][1] = g
    BY <1>3, <1>4 DEF Reported
  <2>2. i + 1 \in 1 .. n
    BY <1>1
  <2> QED BY <1>1, <1>2, <2>1, <2>2 DEF Reported
<1>5. ASSUME NEW i \in 1 .. n, i # 1
      PROVE  i - 1 \in 1 .. n - 1 /\ bus'[i - 1] = bus[i]
  <2>1. i - 1 \in 1 .. n - 1 /\ (i - 1) + 1 = i
    BY <1>1, <1>5
  <2> QED BY <1>2, <2>1
<1>6. ASSUME Reported(g), bus[1][1] # g PROVE Reported(g)'
  <2>1. PICK i \in 1 .. n : bus[i][1] = g
    BY <1>1, <1>6 DEF Reported
  <2> QED BY <1>3, <1>5, <1>6, <2>1 DEF Reported
<1>7. ASSUME LastReport(g) PROVE LastReport(g)'
  <2> SUFFICES ASSUME NEW i \in 1 .. n - 1, bus'[i][1] = g,
                      \A j \in 1 .. n - 1 : j > i => bus'[j][1] # g
               PROVE  bus'[i][2] = deco[g]
    BY <1>3 DEF LastReport
  <2>1. i + 1 \in 1 .. n /\ bus[i + 1] = bus'[i]
    BY <1>1, <1>2
  <2>2. ASSUME NEW j \in 1 .. n, j > i + 1 PROVE bus[j][1] # g
    <3>1. j # 1 /\ j - 1 > i
      BY <2>2
    <3> QED BY <1>5, <3>1
  <2> QED BY <1>1, <1>7, <2>1, <2>2 DEF LastReport
<1>8. ASSUME LastReport(g), bus[1][1] = g, ~Reported(g)' PROVE bus[1][2] = deco[g]
  <2>1. 1 \in 1 .. n
    BY <1>1
  <2>2. ASSUME NEW j \in 1 .. n, j > 1 PROVE bus[j][1] # g
    <3>1. j - 1 \in DOMAIN bus' /\ bus'[j - 1] = bus[j]
      <4>1. j # 1
        BY <2>2
      <4>2. j - 1 \in 1 .. n - 1 /\ bus'[j - 1] = bus[j]
        BY <1>5, <4>1
      <4> QED BY <1>3, <4>2
    <3> QED BY <1>8, <3>1 DEF Reported
  <2> QED BY <1>1, <1>8, <2>1, <2>2 DEF LastReport
<1> QED BY <1>2, <1>4, <1>6, <1>7, <1>8

LEMMA OtherThrottleInv ==
  ASSUME Inv, NEW f \in Fn, NEW on \in BOOLEAN, OtherThrottle(f, on)
  PROVE  Inv'
<1>0. TypeOK /\ SetterInv /\ \A h \in Fn : FnInv(h)
  BY DEF Inv
<1>1. /\ bus' = Append(bus, <<f, on>>) /\ deco' = [deco EXCEPT ![f] = on]
      /\ UNCHANGED <<cache, store, seen, active, set, swallowed, cvs>>
  BY DEF OtherThrottle
<1>2. /\ deco' \in [Fn -> BOOLEAN] /\ deco'[f] = on
      /\ \A h \in Fn \ {f} : deco'[h] = deco[h]
  BY <1>0, <1>1 DEF TypeOK
<1>3. /\ muddled \subseteq muddled' /\ muddled' \subseteq Fn
      /\ f \notin muddled' => Busy(f) = {} /\ f \notin Momentary
  BY <1>0 DEF OtherThrottle, TypeOK
<1>4. bus \in Seq(Fn \X BOOLEAN)
  BY <1>0 DEF TypeOK
<1>5. ASSUME NEW g \in Fn PROVE FnInv(g)'
  <2> SUFFICES ASSUME g \notin muddled' PROVE FnInv(g)'
    BY DEF FnInv
  <2>1. g \notin muddled /\ FnInv(g)
    BY <1>0, <1>3
  <2>2. Busy(g)' = Busy(g)
    BY <1>1 DEF Busy
  <2>3. (Reported(g)' <=> Reported(g) \/ g = f) /\ LastReport(g)'
    <3>1. CASE g = f
      BY <1>1, <1>2, <1>4, <3>1, AppendReports
    <3>2. CASE g # f
      <4>1. LastReport(g) /\ deco'[g] = deco[g]
        BY <1>2, <2>1, <3>2 DEF FnInv
      <4> QED BY <1>1, <1>2, <1>4, <3>2, <4>1, AppendReports
    <3> QED BY <3>1, <3>2
  <2>4. CASE g = f
    BY <1>1, <1>3, <2>1, <2>2, <2>3, <2>4 DEF FnInv
  <2>5. CASE g # f
    <3>1. \A p \in Busy(g) : Stage(p, g)'
      BY <1>1, <1>2, <2>1, <2>5 DEF FnInv, Stage
    <3> QED BY <1>1, <1>2, <2>1, <2>2, <2>3, <2>5, <3>1 DEF FnInv
  <2> QED BY <2>4, <2>5
<1>6. bus' \in Seq(Fn \X BOOLEAN)
  BY <1>1, <1>2, <1>4, AppendReports
<1>7. TypeOK'
  <2>1. calls' \in 0 .. MaxCalls
    BY <1>0, CallType DEF OtherThrottle
  <2> QED BY <1>0, <1>1, <1>2, <1>3, <1>6, <2>1 DEF TypeOK, cvs
<1>8. SetterInv'
  BY <1>0, <1>1 DEF SetterInv
<1>9. NothingSwallowed'
  BY <1>1, <1>3 DEF Inv, NothingSwallowed
<1>10. \A q \in Programmer : ProgInv(q)'
  BY <1>1, ProgFrame DEF Inv
<1> QED BY <1>5, <1>7, <1>8, <1>9, <1>10 DEF Inv

LEMMA ObserveInv ==
  ASSUME Inv, applyObservation
  PROVE  Inv'
<1>0. TypeOK /\ SetterInv /\ \A h \in Fn : FnInv(h)
  BY DEF Inv
<1>1. bus \in Seq(Fn \X BOOLEAN) /\ bus # <<>> /\ Head(bus) = bus[1] /\ bus[1] \in Fn \X BOOLEAN
  <2>1. bus \in Seq(Fn \X BOOLEAN) /\ bus # <<>>
    BY <1>0 DEF TypeOK, applyObservation
  <2> QED BY <2>1, HeadTailProperties, EmptySeq, ElementOfSeq
<1>2. PICK f \in Fn, on \in BOOLEAN : bus[1] = <<f, on>>
  BY <1>1
<1> DEFINE changed == seen /\ store[f] # on
<1>3. /\ store' = IF changed THEN [store EXCEPT ![f] = on] ELSE store
      /\ cache' = IF changed \/ ~seen THEN [cache EXCEPT ![f] = on] ELSE cache
      /\ muddled' = IF Busy(f) # {} \/ (~seen /\ store[f] # on) THEN muddled \cup {f} ELSE muddled
      /\ bus' = Tail(bus)
      /\ UNCHANGED <<deco, seen, active, set, swallowed, cvs, calls>>
  <2>1. Head(bus)[1] = f /\ Head(bus)[2] = on
    BY <1>1, <1>2
  <2> QED BY <2>1 DEF applyObservation
<1>4. /\ store' \in [Fn -> BOOLEAN] /\ cache' \in [Fn -> BOOLEAN \cup {None}]
      /\ muddled \subseteq muddled' /\ muddled' \subseteq Fn
      /\ \A h \in Fn \ {f} : store'[h] = store[h] /\ cache'[h] = cache[h]
      /\ store'[f] = (IF changed THEN on ELSE store[f])
      /\ cache'[f] = (IF changed \/ ~seen THEN on ELSE cache[f])
      /\ f \notin muddled' => Busy(f) = {} /\ (seen \/ store[f] = on)
  BY <1>0, <1>3 DEF TypeOK
<1> HIDE DEF changed
<1>5. ASSUME NEW g \in Fn PROVE FnInv(g)'
  <2> SUFFICES ASSUME g \notin muddled' PROVE FnInv(g)'
    BY DEF FnInv
  <2>1. g \notin muddled /\ FnInv(g)
    BY <1>0, <1>4
  <2>2. Busy(g)' = Busy(g)
    BY <1>3 DEF Busy
  <2>3. /\ Reported(g)' => Reported(g)
        /\ Reported(g) => Reported(g)' \/ g = f
        /\ LastReport(g)'
        /\ g = f /\ ~Reported(g)' => on = deco[g]
    <3>1. LastReport(g)
      BY <2>1 DEF FnInv
    <3>2. bus[1][1] = f /\ bus[1][2] = on /\ deco' = deco
      BY <1>2, <1>3
    <3> QED BY <1>1, <1>3, <3>1, <3>2, TailReports
  <2>4. CASE g = f
    <3>1. Busy(f) = {} /\ (seen \/ store[f] = on) /\ cache[f] \in {None, store[f]}
      BY <1>4, <2>1, <2>4 DEF FnInv
    <3>2. store'[f] = on
      BY <1>4, <3>1 DEF changed
    <3>3. cache'[f] \in {None, store'[f]}
      BY <1>4, <3>1, <3>2
    <3>4. f \in Momentary /\ ~active[f] => ~deco[f]
      BY <2>1, <2>4 DEF FnInv
    <3> QED BY <1>3, <2>2, <2>3, <2>4, <3>1, <3>2, <3>3, <3>4 DEF FnInv
  <2>5. CASE g # f
    <3>1. \A p \in Busy(g) : Stage(p, g)'
      BY <1>3, <1>4, <2>1, <2>5 DEF FnInv, Stage
    <3> QED BY <1>3, <1>4, <2>1, <2>2, <2>3, <2>5, <3>1 DEF FnInv
  <2> QED BY <2>4, <2>5
<1>6. bus' \in Seq(Fn \X BOOLEAN)
  BY <1>1, <1>3, TailReports
<1>7. TypeOK'
  BY <1>0, <1>3, <1>4, <1>6 DEF TypeOK, cvs
<1>8. SetterInv'
  BY <1>0, <1>3 DEF SetterInv
<1>9. NothingSwallowed'
  BY <1>3, <1>4 DEF Inv, NothingSwallowed
<1>10. \A q \in Programmer : ProgInv(q)'
  BY <1>3, ProgFrame DEF Inv
<1> QED BY <1>5, <1>7, <1>8, <1>9, <1>10 DEF Inv

-----------------------------------------------------------------------------
(***************************************************************************)
(* Programming.                                                            *)
(***************************************************************************)
ProgState ==
  [pc : {"off", "lock", "work"}, op : {None, "set", "get", "read", "write"},
   to : Address \cup {None}, todo : Seq(CV \X CVValue), got : Seq(CV \X CVValue)]

LEMMA SmallValues == 0 \in CVValue /\ 1 \in CVValue
  BY DEF CVValue

\* The CVs of an address: they differ from each other, they are CVs, and
\* when they are all written the decoder has that address.
LEMMA Writes ==
  ASSUME NEW a \in Address
  PROVE  LET w == AddressCVWrites(a)
         IN  /\ w \in Seq(CV \X CVValue) /\ Len(w) \in {2, 3}
             /\ \A i, j \in 1 .. Len(w) : w[i][1] = w[j][1] => i = j
             /\ \A c : (\A i \in 1 .. Len(w) : c[w[i][1]] = w[i][2]) => addressFromCVs(c) = a
<1> DEFINE w == AddressCVWrites(a)
<1>1. /\ a = <<a[1], a[2], a[3]>> /\ a[1] \in BOOLEAN /\ (~a[1] => a[2] = 0)
      /\ a[2] \in CVValue /\ a[3] \in CVValue /\ 0 \in CVValue /\ 1 \in CVValue
  BY DecoderAssumption DEF CVValue
<1>2. CASE a[1]
  <2>1. w = <<<<17, a[2]>>, <<18, a[3]>>, <<29, 1>>>>
    BY <1>2 DEF AddressCVWrites
  <2>2. w \in Seq(CV \X CVValue) /\ Len(w) = 3
    BY <1>1, <2>1 DEF CV
  <2>3. /\ w[1][1] = 17 /\ w[2][1] = 18 /\ w[3][1] = 29
        /\ w[1][2] = a[2] /\ w[2][2] = a[3] /\ w[3][2] = 1
    BY <2>1
  <2>4. 1 .. Len(w) = {1, 2, 3}
    BY <2>2
  <2> HIDE DEF w
  <2>5. \A i, j \in 1 .. Len(w) : w[i][1] = w[j][1] => i = j
    BY <2>3, <2>4
  <2>6. ASSUME NEW c, \A i \in 1 .. Len(w) : c[w[i][1]] = w[i][2]
        PROVE  addressFromCVs(c) = a
    <3>1. c[17] = a[2] /\ c[18] = a[3] /\ c[29] = 1
      BY <2>3, <2>4, <2>6
    <3> QED BY <1>1, <1>2, <3>1 DEF addressFromCVs
  <2> QED BY <2>2, <2>5, <2>6 DEF w
<1>3. CASE ~a[1]
  <2>1. w = <<<<1, a[3]>>, <<29, 0>>>>
    BY <1>3 DEF AddressCVWrites
  <2>2. w \in Seq(CV \X CVValue) /\ Len(w) = 2
    BY <1>1, <2>1 DEF CV
  <2>3. w[1][1] = 1 /\ w[2][1] = 29 /\ w[1][2] = a[3] /\ w[2][2] = 0
    BY <2>1
  <2>4. 1 .. Len(w) = {1, 2}
    BY <2>2
  <2> HIDE DEF w
  <2>5. \A i, j \in 1 .. Len(w) : w[i][1] = w[j][1] => i = j
    BY <2>3, <2>4
  <2>6. ASSUME NEW c, \A i \in 1 .. Len(w) : c[w[i][1]] = w[i][2]
        PROVE  addressFromCVs(c) = a
    <3>1. c[1] = a[3] /\ c[29] = 0
      BY <2>3, <2>4, <2>6
    <3>2. addressFromCVs(c) = <<FALSE, 0, a[3]>>
      BY <3>1 DEF addressFromCVs
    <3>3. a = <<FALSE, 0, a[3]>>
      BY <1>1, <1>3
    <3> QED BY <3>2, <3>3
  <2> QED BY <2>2, <2>5, <2>6 DEF w
<1> QED BY <1>1, <1>2, <1>3

LEMMA UnusedOK == Unused \in ProgState /\ Unused.pc = "off"
  BY DEF Unused, ProgState

\* What a step of programmer p has to show.
LEMMA ProgStep ==
  ASSUME Inv, NEW p \in Programmer, NEW r \in ProgState, prog' = [prog EXCEPT ![p] = r],
         UNCHANGED fns, calls' \in 0 .. MaxCalls, cv' \in [CV -> CVValue],
         cv' = cv \/ progMu = p,
         \/ progMu' = progMu /\ (r.pc = "work" <=> progMu = p)
         \/ progMu = None /\ progMu' = p /\ r.pc = "work"
         \/ progMu = p /\ progMu' = None /\ r.pc # "work",
         (r.pc = "work" <=> progMu' = p) => ProgInv(p)'
  PROVE  Inv'
<1>0. TypeOK /\ prog \in [Programmer -> ProgState] /\ \A q \in Programmer : ProgInv(q)
  BY DEF Inv, TypeOK, ProgState
<1>1. \A q \in Programmer : prog'[q] = IF q = p THEN r ELSE prog[q]
  BY <1>0
<1>2. None \notin Programmer
  BY DecoderAssumption
<1>3. \A q \in Programmer : prog'[q].pc = "work" <=> progMu' = q
  <2>1. \A q \in Programmer : prog[q].pc = "work" <=> progMu = q
    BY <1>0 DEF ProgInv
  <2>2. CASE progMu' = progMu /\ (r.pc = "work" <=> progMu = p)
    BY <1>1, <2>1, <2>2
  <2>3. CASE progMu = None /\ progMu' = p /\ r.pc = "work"
    BY <1>1, <1>2, <2>1, <2>3
  <2>4. CASE progMu = p /\ progMu' = None /\ r.pc # "work"
    BY <1>1, <1>2, <2>1, <2>4
  <2> QED BY <2>2, <2>3, <2>4
<1>4. ProgInv(p)'
  BY <1>1, <1>3
<1>5. ASSUME NEW q \in Programmer, q # p PROVE ProgInv(q)'
  <2>1. prog'[q] = prog[q] /\ ProgInv(q)
    BY <1>0, <1>1, <1>5
  <2>2. cv' = cv \/ prog[q].pc # "work"
    BY <1>5, <2>1 DEF ProgInv
  <2>3. prog'[q].pc = "work" <=> progMu' = q
    BY <1>3
  <2>4. SetLeft(prog[q])' <=> SetLeft(prog[q])
    BY <2>1 DEF SetLeft
  <2>5. prog[q].pc = "work" => /\ SetDone(prog[q])' <=> SetDone(prog[q])
                               /\ ReadDone(prog[q])' <=> ReadDone(prog[q])
    BY <2>1, <2>2 DEF SetDone, ReadDone
  <2> QED BY <2>1, <2>3, <2>4, <2>5 DEF ProgInv
<1>6. TypeOK'
  <2>1. prog' \in [Programmer -> ProgState]
    BY <1>0
  <2>2. progMu' \in Programmer \cup {None}
    BY <1>0 DEF TypeOK
  <2> QED BY <1>0, <2>1, <2>2 DEF TypeOK, ProgState, fns
<1> QED BY <1>4, <1>5, <1>6, FunctionsFrame DEF Inv

LEMMA RequestInv ==
  ASSUME Inv, NEW p \in Programmer, NEW op \in {"set", "get", "read", "write"},
         NEW to \in Address \cup {None}, NEW todo \in Seq(CV \X CVValue),
         Request(p, op, to, todo),
         op = "get" => Len(todo) = 4,
         op = "set" => SetLeft([pc |-> "lock", op |-> op, to |-> to, todo |-> todo, got |-> <<>>])
  PROVE  Inv'
<1> DEFINE r == [pc |-> "lock", op |-> op, to |-> to, todo |-> todo, got |-> <<>>]
<1>1. /\ r \in ProgState /\ r.pc = "lock" /\ r.got = <<>> /\ r.op = op /\ r.todo = todo
      /\ prog' = [prog EXCEPT ![p] = r] /\ UNCHANGED <<fns, cv, progMu>>
  BY DEF ProgState, Request
<1>2. calls' \in 0 .. MaxCalls /\ cv' \in [CV -> CVValue]
  BY <1>1, CallType DEF Inv, TypeOK, Request
<1>3. progMu # p
  BY DEF Inv, ProgInv, Request
<1>4. prog'[p] = r
  BY <1>1 DEF Inv, TypeOK
<1>6. op = "set" => SetLeft(r)
  OBVIOUS
<1> HIDE DEF r
<1>7. ProgInv(p)'
  <2>1. Len(<<>>) = 0
    OBVIOUS
  <2>2. r.op = "get" => Len(r.got) + Len(r.todo) = 4
    BY <1>1, <2>1
  <2>3. op = "set" => SetLeft(prog[p])'
    BY <1>4, <1>6 DEF SetLeft
  <2> QED BY <1>1, <1>3, <1>4, <2>2, <2>3 DEF ProgInv
<1> QED BY <1>1, <1>2, <1>3, <1>7, ProgStep

LEMMA AddrSetInv ==
  ASSUME Inv, NEW p \in Programmer, NEW a \in Address, HandleLocoAddrSet(p, a)
  PROVE  Inv'
<1> DEFINE w == AddressCVWrites(a)
           t == <<<<29, 0>>>> \o w
           r == [pc |-> "lock", op |-> "set", to |-> a, todo |-> t, got |-> <<>>]
<1>1. w \in Seq(CV \X CVValue) /\ Len(w) \in {2, 3}
  BY Writes
<1>2. <<<<29, 0>>>> \in Seq(CV \X CVValue) /\ Len(<<<<29, 0>>>>) = 1
  BY SmallValues DEF CV
<1>3. Request(p, "set", a, t)
  BY DEF HandleLocoAddrSet
<1> HIDE DEF w
<1>4. /\ t \in Seq(CV \X CVValue) /\ Len(t) = Len(w) + 1 /\ t[1] = <<29, 0>>
      /\ \A i \in 1 .. Len(w) : t[i + 1] = w[i]
  BY <1>1, <1>2, ConcatProperties
<1> HIDE DEF t
<1>5. SetLeft(r)
  <2>1. r.to = a /\ r.todo = t /\ r.got = <<>> /\ Len(w) - Len(t) = -1
    BY <1>1, <1>4
  <2>2. \A i \in 1 .. Len(w) : t[i - (Len(w) - Len(t))] = w[i]
    BY <1>1, <1>4, <2>1
  <2> QED BY <1>4, <2>1, <2>2 DEF SetLeft, w
<1> QED BY <1>3, <1>4, <1>5, RequestInv

LEMMA OtherRequestsInv ==
  ASSUME Inv, NEW p \in Programmer,
         \/ HandleLocoAddrGet(p)
         \/ \E n \in {1, 18} : HandleLocoCVRead(p, n)
         \/ \E n \in {18, 29}, v \in {0, 1} : HandleLocoCVWrite(p, n, v)
  PROVE  Inv'
<1>1. CASE HandleLocoAddrGet(p)
  <2> DEFINE t == <<<<1, 0>>, <<17, 0>>, <<18, 0>>, <<29, 0>>>>
  <2>1. t \in Seq(CV \X CVValue) /\ Len(t) = 4
    BY SmallValues DEF CV
  <2>2. Request(p, "get", None, t)
    BY <1>1 DEF HandleLocoAddrGet
  <2> QED BY <2>1, <2>2, RequestInv
<1>2. ASSUME NEW n \in {1, 18}, HandleLocoCVRead(p, n) PROVE Inv'
  <2> DEFINE t == <<<<n, 0>>, <<29, 0>>>>
  <2>1. t \in Seq(CV \X CVValue)
    BY SmallValues DEF CV
  <2>2. Request(p, "read", None, t)
    BY <1>2 DEF HandleLocoCVRead
  <2> QED BY <2>1, <2>2, RequestInv
<1>3. ASSUME NEW n \in {18, 29}, NEW v \in {0, 1}, HandleLocoCVWrite(p, n, v) PROVE Inv'
  <2> DEFINE t == <<<<n, v>>>>
  <2>1. t \in Seq(CV \X CVValue)
    BY SmallValues DEF CV
  <2>2. Request(p, "write", None, t)
    BY <1>3 DEF HandleLocoCVWrite
  <2> QED BY <2>1, <2>2, RequestInv
<1> QED BY <1>1, <1>2, <1>3

LEMMA LockInv ==
  ASSUME Inv, NEW p \in Programmer, Lock(p)
  PROVE  Inv'
<1> DEFINE r == [prog[p] EXCEPT !.pc = "work"]
<1>1. prog[p] \in ProgState /\ ProgInv(p) /\ prog[p].pc = "lock" /\ prog[p].got = <<>>
  BY DEF Inv, TypeOK, ProgState, Lock, ProgInv
<1>2. /\ r \in ProgState /\ r.pc = "work" /\ r.got = <<>> /\ r.op = prog[p].op
      /\ r.todo = prog[p].todo /\ r.to = prog[p].to
  BY <1>1 DEF ProgState
<1>3. /\ prog' = [prog EXCEPT ![p] = r] /\ progMu = None /\ progMu' = p
      /\ UNCHANGED <<fns, cv, calls>>
  BY DEF Lock, Inv, TypeOK
<1>4. prog'[p] = r
  BY <1>3 DEF Inv, TypeOK
<1> HIDE DEF r
<1>5. Len(r.todo) \in Nat /\ Len(<<>>) = 0 /\ DOMAIN r.got = {}
  BY <1>2, LenProperties DEF ProgState
<1>6. ProgInv(p)'
  <2>1. r.op = "set" => SetLeft(prog[p])'
    BY <1>1, <1>2, <1>4 DEF ProgInv, SetLeft
  <2>2. r.op = "set" => SetDone(prog[p])'
    <3> SUFFICES ASSUME r.op = "set" PROVE SetDone(prog[p])'
      OBVIOUS
    <3>1. SetLeft(prog[p])
      BY <1>1, <1>2 DEF ProgInv
    <3>2. Len(AddressCVWrites(prog[p].to)) - Len(prog[p].todo) = -1
      BY <1>1, <3>1 DEF SetLeft
    <3>3. prog'[p].to = prog[p].to /\ prog'[p].todo = prog[p].todo
      BY <1>2, <1>4
    <3>4. Len(AddressCVWrites(prog[p].to)) \in Nat
      BY <3>1, Writes DEF SetLeft
    <3>5. PICK z \in Int : z = -1 /\ z = Len(AddressCVWrites(prog[p].to)) - Len(prog[p].todo)
      BY <3>2
    <3>6. \A i \in 1 .. Len(AddressCVWrites(prog[p].to)) : ~(i <= z)
      BY <3>4, <3>5
    <3> QED BY <3>3, <3>5, <3>6 DEF SetDone
  <2>3. ReadDone(prog[p])'
    BY <1>4, <1>5 DEF ReadDone
  <2>4. r.op = "get" => Len(r.got) + Len(r.todo) = 4
    BY <1>1, <1>2 DEF ProgInv
  <2> QED BY <1>2, <1>3, <1>4, <2>1, <2>2, <2>3, <2>4 DEF ProgInv
<1>7. calls' \in 0 .. MaxCalls /\ cv' \in [CV -> CVValue]
  BY <1>3 DEF Inv, TypeOK
<1> QED BY <1>2, <1>3, <1>6, <1>7, ProgStep

\* The next CV of a list, and the rest.
LEMMA NextCV ==
  ASSUME NEW t \in Seq(CV \X CVValue), t # <<>>
  PROVE  /\ Len(t) \in Nat \ {0} /\ Head(t) = t[1] /\ t[1] \in CV \X CVValue
         /\ Tail(t) \in Seq(CV \X CVValue) /\ Len(Tail(t)) = Len(t) - 1
         /\ \A i \in 1 .. Len(t) - 1 : Tail(t)[i] = t[i + 1]
<1>1. Len(t) \in Nat \ {0}
  BY EmptySeq
<1>2. t[1] \in CV \X CVValue
  BY <1>1, ElementOfSeq
<1> QED BY <1>1, <1>2, HeadTailProperties

LEMMA ReadInv ==
  ASSUME Inv, NEW p \in Programmer, ReadCV(p)
  PROVE  Inv'
<1> DEFINE g == prog[p]
           n == Head(g.todo)[1]
           r == [g EXCEPT !.todo = Tail(@), !.got = Append(@, <<n, cv[n]>>)]
<1>1. /\ g \in ProgState /\ ProgInv(p) /\ g.pc = "work" /\ g.todo # <<>> /\ progMu = p
      /\ g.todo \in Seq(CV \X CVValue) /\ g.got \in Seq(CV \X CVValue)
      /\ cv \in [CV -> CVValue]
  BY DEF Inv, TypeOK, ProgState, ReadCV, ProgInv
<1>2. /\ Len(g.todo) \in Nat \ {0} /\ n \in CV /\ cv[n] \in CVValue
      /\ Tail(g.todo) \in Seq(CV \X CVValue) /\ Len(Tail(g.todo)) = Len(g.todo) - 1
      /\ \A i \in 1 .. Len(g.todo) - 1 : Tail(g.todo)[i] = g.todo[i + 1]
  BY <1>1, NextCV
<1>3. /\ prog' = [prog EXCEPT ![p] = r] /\ UNCHANGED <<fns, cv, progMu, calls>>
  BY DEF ReadCV, Inv, TypeOK
<1> HIDE DEF n
<1>4. /\ Append(g.got, <<n, cv[n]>>) \in Seq(CV \X CVValue)
      /\ Len(Append(g.got, <<n, cv[n]>>)) = Len(g.got) + 1
      /\ \A i \in 1 .. Len(g.got) : Append(g.got, <<n, cv[n]>>)[i] = g.got[i]
      /\ Append(g.got, <<n, cv[n]>>)[Len(g.got) + 1] = <<n, cv[n]>>
  <2>1. <<n, cv[n]>> \in CV \X CVValue
    BY <1>2
  <2> QED BY <1>1, <2>1, AppendProperties
<1>5. /\ r \in ProgState /\ r.pc = "work" /\ r.op = g.op /\ r.to = g.to
      /\ r.todo = Tail(g.todo) /\ r.got = Append(g.got, <<n, cv[n]>>)
  BY <1>1, <1>2, <1>4 DEF ProgState
<1>6. prog'[p] = r
  BY <1>3 DEF Inv, TypeOK
<1> HIDE DEF r
<1>7. Len(g.got) \in Nat /\ DOMAIN g.got = 1 .. Len(g.got) /\ DOMAIN r.got = 1 .. Len(g.got) + 1
      /\ r.got # <<>>
  <2>1. r.got \in Seq(CV \X CVValue) /\ Len(r.got) = Len(g.got) + 1
    BY <1>4, <1>5
  <2>2. Len(g.got) \in Nat /\ DOMAIN g.got = 1 .. Len(g.got)
    BY <1>1, LenProperties
  <2>3. DOMAIN r.got = 1 .. Len(r.got)
    BY <2>1, LenProperties
  <2>4. Len(<<>>) = 0
    OBVIOUS
  <2> QED BY <2>1, <2>2, <2>3, <2>4
<1>8. ASSUME g.op = "set" PROVE SetLeft(prog[p])' /\ SetDone(prog[p])'
  <2> DEFINE w == AddressCVWrites(g.to)
  <2>1. g.got = <<>>
    BY <1>8 DEF ReadCV, Reading
  <2>2. g.to \in Address /\ Len(w) - Len(g.todo) = -1 /\ \A i \in 1 .. Len(w) : i > -1 => g.todo[i - -1] = w[i]
    BY <1>1, <1>8, <2>1 DEF ProgInv, SetLeft
  <2>3. Len(w) \in Nat
    BY <2>2, Writes
  <2> HIDE DEF w
  <2>4. Len(r.todo) = Len(w) /\ \A i \in 1 .. Len(w) : r.todo[i] = w[i]
    BY <1>2, <1>5, <2>2, <2>3
  <2>5. PICK z \in Nat : z = 0 /\ Len(w) - Len(r.todo) = z
    BY <2>3, <2>4
  <2>6. prog'[p].to = g.to /\ prog'[p].todo = r.todo /\ prog'[p].got # <<>>
    BY <1>5, <1>6, <1>7
  <2>7. \A i \in 1 .. Len(w) : r.todo[i - z] = w[i]
    BY <2>3, <2>4, <2>5
  <2>8. SetLeft(prog[p])'
    <3>1. prog'[p].to \in Address
      BY <2>2, <2>6
    <3>2. AddressCVWrites(prog'[p].to) = w
      BY <2>6 DEF w
    <3>3. Len(w) - Len(prog'[p].todo) = z /\ z >= 0
      BY <2>5, <2>6
    <3>4. \A i \in 1 .. Len(w) : i > z => prog'[p].todo[i - z] = w[i]
      BY <2>6, <2>7
    <3> QED BY <2>6, <3>1, <3>2, <3>3, <3>4 DEF SetLeft
  <2>9. SetDone(prog[p])'
    <3>1. AddressCVWrites(prog'[p].to) = w
      BY <2>6 DEF w
    <3>2. Len(w) - Len(prog'[p].todo) = z
      BY <2>5, <2>6
    <3>3. \A i \in 1 .. Len(w) : ~(i <= z)
      BY <2>3, <2>5
    <3> QED BY <3>1, <3>2, <3>3 DEF SetDone
  <2> QED BY <2>8, <2>9
<1>9. ASSUME g.op \in {"get", "read"} PROVE ReadDone(prog[p])'
  <2>1. \A i \in 1 .. Len(g.got) : g.got[i][2] = cv[g.got[i][1]]
    BY <1>1, <1>7, <1>9 DEF ProgInv, ReadDone
  <2>2. ASSUME NEW i \in 1 .. Len(g.got) + 1 PROVE r.got[i][2] = cv[r.got[i][1]]
    <3>1. CASE i = Len(g.got) + 1
      BY <1>4, <1>5, <3>1
    <3>2. CASE i # Len(g.got) + 1
      <4>1. i \in 1 .. Len(g.got)
        BY <1>7, <3>2
      <4> QED BY <1>4, <1>5, <2>1, <4>1
    <3> QED BY <3>1, <3>2
  <2> QED BY <1>3, <1>6, <1>7, <2>2 DEF ReadDone
<1>10. g.op = "get" => Len(r.got) + Len(r.todo) = 4
  <2>1. g.op = "get" => Len(g.got) + Len(g.todo) = 4
    BY <1>1 DEF ProgInv
  <2>2. Len(r.got) = Len(g.got) + 1 /\ Len(r.todo) = Len(g.todo) - 1
    BY <1>2, <1>4, <1>5
  <2>3. PICK x \in Nat, y \in Nat : x = Len(g.got) /\ y = Len(g.todo)
    BY <1>2, <1>7
  <2>4. x + y = 4 => (x + 1) + (y - 1) = 4
    OBVIOUS
  <2> QED BY <2>1, <2>2, <2>3, <2>4
<1>11. ProgInv(p)'
  BY <1>1, <1>3, <1>5, <1>6, <1>8, <1>9, <1>10 DEF ProgInv
<1>12. calls' \in 0 .. MaxCalls /\ cv' \in [CV -> CVValue]
  BY <1>3 DEF Inv, TypeOK
<1> QED BY <1>1, <1>3, <1>5, <1>11, <1>12, ProgStep

LEMMA WriteInv ==
  ASSUME Inv, NEW p \in Programmer, WriteCV(p)
  PROVE  Inv'
<1> DEFINE g == prog[p]
           h == Head(g.todo)
           r == [g EXCEPT !.todo = Tail(@)]
<1>1. /\ g \in ProgState /\ ProgInv(p) /\ g.pc = "work" /\ g.todo # <<>> /\ progMu = p
      /\ g.todo \in Seq(CV \X CVValue) /\ cv \in [CV -> CVValue]
  BY DEF Inv, TypeOK, ProgState, WriteCV, ProgInv
<1>2. /\ Len(g.todo) \in Nat \ {0} /\ h \in CV \X CVValue /\ h = g.todo[1]
      /\ Tail(g.todo) \in Seq(CV \X CVValue) /\ Len(Tail(g.todo)) = Len(g.todo) - 1
      /\ \A i \in 1 .. Len(g.todo) - 1 : Tail(g.todo)[i] = g.todo[i + 1]
  BY <1>1, NextCV
<1>3. /\ prog' = [prog EXCEPT ![p] = r] /\ cv' = [cv EXCEPT ![h[1]] = h[2]]
      /\ UNCHANGED <<fns, progMu, calls>>
  BY DEF WriteCV, Inv, TypeOK
<1>4. /\ r \in ProgState /\ r.pc = "work" /\ r.op = g.op /\ r.to = g.to
      /\ r.todo = Tail(g.todo) /\ r.got = g.got
  BY <1>1, <1>2 DEF ProgState
<1>5. prog'[p] = r
  BY <1>3 DEF Inv, TypeOK
<1> HIDE DEF r, h
<1>6. /\ cv' \in [CV -> CVValue] /\ cv'[h[1]] = h[2]
      /\ \A c \in CV : c # h[1] => cv'[c] = cv[c]
  BY <1>1, <1>2, <1>3
<1>7. g.op \notin {"get", "read"} /\ (g.op = "set" => g.got # <<>>)
  BY DEF WriteCV, Reading
<1>8. ASSUME g.op = "set" PROVE SetLeft(prog[p])' /\ SetDone(prog[p])'
  <2> DEFINE w == AddressCVWrites(g.to)
  <2>1. /\ g.to \in Address /\ Len(w) - Len(g.todo) >= 0
        /\ \A i \in 1 .. Len(w) : i > Len(w) - Len(g.todo) => g.todo[i - (Len(w) - Len(g.todo))] = w[i]
    BY <1>1, <1>7, <1>8 DEF ProgInv, SetLeft
  <2>2. /\ Len(w) \in Nat /\ w \in Seq(CV \X CVValue)
        /\ \A i, j \in 1 .. Len(w) : w[i][1] = w[j][1] => i = j
    BY <2>1, Writes
  <2>3. \A i \in 1 .. Len(w) : i <= Len(w) - Len(g.todo) => cv[w[i][1]] = w[i][2]
    BY <1>1, <1>8 DEF ProgInv, SetDone
  <2>4. \A i \in 1 .. Len(w) : w[i][1] \in CV
    BY <2>2, ElementOfSeq
  <2> HIDE DEF w
  <2>5. PICK k \in Nat, l \in Nat \ {0} :
          k = Len(w) /\ l = Len(g.todo) /\ Len(r.todo) = l - 1 /\ k - l >= 0
    BY <1>2, <1>4, <2>1, <2>2
  <2>a. k - l \in Nat
    BY <2>5
  <2>6. PICK m \in Nat : m = k - l
    BY <2>a
  <2>7. m + 1 \in 1 .. k /\ k - (l - 1) = m + 1 /\ l = k - m
    BY <2>6
  <2>8. \A i \in 1 .. k : i > m => g.todo[i - m] = w[i]
    BY <2>1, <2>5, <2>6
  <2>9. h = w[m + 1]
    <3>1. m + 1 > m /\ (m + 1) - m = 1
      OBVIOUS
    <3>2. g.todo[(m + 1) - m] = w[m + 1]
      BY <2>7, <2>8, <3>1
    <3> QED BY <1>2, <3>1, <3>2
  <2>10. ASSUME NEW i \in 1 .. k, i > m + 1 PROVE r.todo[i - (m + 1)] = w[i]
    <3>1. i - (m + 1) \in 1 .. l - 1 /\ (i - (m + 1)) + 1 = i - m /\ i > m
      BY <2>7, <2>10
    <3>2. g.todo[i - m] = w[i]
      BY <2>8, <3>1
    <3> QED BY <1>2, <1>4, <2>5, <3>1, <3>2
  <2>11. ASSUME NEW i \in 1 .. k, i <= m + 1 PROVE cv'[w[i][1]] = w[i][2]
    <3>1. CASE i = m + 1
      BY <1>6, <2>9, <3>1
    <3>2. CASE i # m + 1
      <4>1. i <= m
        BY <2>11, <3>2
      <4>2. w[i][1] # h[1]
        BY <2>2, <2>5, <2>7, <2>9, <3>2
      <4>3. cv[w[i][1]] = w[i][2] /\ w[i][1] \in CV
        BY <2>3, <2>4, <2>5, <2>6, <4>1
      <4> QED BY <1>6, <4>2, <4>3
    <3> QED BY <3>1, <3>2
  <2>12. prog'[p].to = g.to /\ prog'[p].todo = r.todo /\ prog'[p].got = g.got
    BY <1>4, <1>5
  <2>13. Len(w) - Len(r.todo) = m + 1 /\ m + 1 >= 0
    BY <2>5, <2>7
  <2>14. SetLeft(prog[p])'
    BY <1>7, <1>8, <2>1, <2>5, <2>10, <2>12, <2>13 DEF SetLeft, w
  <2>15. SetDone(prog[p])'
    BY <2>5, <2>11, <2>12, <2>13 DEF SetDone, w
  <2> QED BY <2>14, <2>15
<1>9. ProgInv(p)'
  BY <1>1, <1>3, <1>4, <1>5, <1>7, <1>8 DEF ProgInv
<1>10. calls' \in 0 .. MaxCalls
  BY <1>3 DEF Inv, TypeOK
<1> QED BY <1>1, <1>3, <1>4, <1>6, <1>9, <1>10, ProgStep

LEMMA GiveUp ==
  ASSUME Inv, NEW p \in Programmer, prog[p].pc = "work", prog' = [prog EXCEPT ![p] = Unused],
         progMu' = None, UNCHANGED <<fns, cv>>, calls' \in 0 .. MaxCalls
  PROVE  Inv'
<1>1. progMu = p /\ prog'[p] = Unused
  BY DEF Inv, ProgInv, TypeOK
<1>2. None # p
  BY DecoderAssumption
<1>3. ProgInv(p)'
  BY <1>1, <1>2, UnusedOK DEF ProgInv
<1>4. cv' \in [CV -> CVValue]
  BY DEF Inv, TypeOK
<1> QED BY <1>1, <1>3, <1>4, UnusedOK, ProgStep

LEMMA FailInv ==
  ASSUME Inv, NEW p \in Programmer, FailCV(p)
  PROVE  Inv'
<1> DEFINE g == prog[p]
           r == [g EXCEPT !.todo = Tail(@)]
<1>1. calls' \in 0 .. MaxCalls /\ UNCHANGED <<fns, cv>> /\ g.pc = "work"
  BY CallType DEF FailCV, Inv
<1>2. CASE g.op \in {"read", "write"}
  <2>1. /\ g \in ProgState /\ ProgInv(p) /\ progMu = p
        /\ g.todo \in Seq(CV \X CVValue) /\ g.todo # <<>> /\ cv \in [CV -> CVValue]
    BY DEF Inv, TypeOK, ProgState, FailCV, ProgInv
  <2>2. Tail(g.todo) \in Seq(CV \X CVValue)
    BY <2>1, NextCV
  <2>3. /\ prog' = [prog EXCEPT ![p] = r] /\ progMu' = progMu
    BY <1>2 DEF FailCV, Inv, TypeOK
  <2>4. r \in ProgState /\ r.pc = "work" /\ r.op = g.op /\ r.got = g.got
    BY <1>1, <2>1, <2>2 DEF ProgState
  <2>5. prog'[p] = r
    BY <2>3 DEF Inv, TypeOK
  <2> HIDE DEF r
  <2>6. g.op = "read" => ReadDone(prog[p])'
    BY <1>1, <2>1, <2>4, <2>5 DEF ProgInv, ReadDone
  <2>7. ProgInv(p)'
    BY <1>2, <2>1, <2>3, <2>4, <2>5, <2>6 DEF ProgInv
  <2> QED BY <1>1, <2>1, <2>3, <2>4, <2>7, ProgStep
<1>3. CASE g.op \notin {"read", "write"}
  BY <1>1, <1>3, GiveUp DEF FailCV
<1> QED BY <1>2, <1>3

LEMMA UnlockInv ==
  ASSUME Inv, NEW p \in Programmer, Unlock(p)
  PROVE  Inv'
<1>1. calls' \in 0 .. MaxCalls
  BY DEF Unlock, Inv, TypeOK
<1> QED BY <1>1, GiveUp DEF Unlock

-----------------------------------------------------------------------------
LEMMA InitInv == Init => Inv
<1> SUFFICES ASSUME Init PROVE Inv
  OBVIOUS
<1>1. cv \in [CV -> CVValue]
  <2>1. PICK a \in Address : cv = [n \in CV |-> CASE n = 1 -> IF a[1] THEN 0 ELSE a[3]
                                                  [] n = 17 -> IF a[1] THEN a[2] ELSE 0
                                                  [] n = 18 -> IF a[1] THEN a[3] ELSE 0
                                                  [] n = 29 -> IF a[1] THEN 1 ELSE 0]
    BY DEF Init
  <2>2. a[2] \in CVValue /\ a[3] \in CVValue
    BY DEF CVValue
  <2> QED BY <2>1, <2>2, SmallValues DEF CV
<1>2. TypeOK
  <2>1. set \in [Setter -> SetterState]
    BY FreeOK DEF Init
  <2>2. prog \in [Programmer -> ProgState]
    BY UnusedOK DEF Init
  <2>3. bus \in Seq(Fn \X BOOLEAN) /\ calls \in 0 .. MaxCalls
    BY DecoderAssumption DEF Init
  <2> QED BY <1>1, <2>1, <2>2, <2>3 DEF Init, TypeOK, SetterState, ProgState
<1>3. SetterInv
  <2>1. \A p \in Setter : set[p].pc = "off"
    BY FreeOK DEF Init
  <2>2. Handler \subseteq Setter
    BY DEF Setter
  <2> QED BY <2>1, <2>2, Setters DEF Init, SetterInv, Working
<1>4. \A f \in Fn : FnInv(f)
  <2>1. \A f \in Fn : Busy(f) = {}
    BY FreeOK DEF Init, Busy
  <2>2. DOMAIN bus = {}
    BY DEF Init
  <2>3. \A f \in Fn : ~Reported(f) /\ LastReport(f)
    BY <2>2 DEF Reported, LastReport
  <2> QED BY <2>1, <2>3 DEF Init, FnInv
<1>5. \A p \in Programmer : ProgInv(p)
  BY UnusedOK, DecoderAssumption DEF Init, ProgInv
<1> QED BY <1>2, <1>3, <1>4, <1>5 DEF Inv, Init, NothingSwallowed

LEMMA NextInv == Inv /\ [Next]_vars => Inv'
<1> SUFFICES ASSUME Inv, [Next]_vars PROVE Inv'
  OBVIOUS
<1>1. CASE SetFunction
  <2>1. CASE \E p \in Setter : CheckAndStage(p) \/ SendFn(p) \/ RollBack(p) \/ StoreFunction(p)
    BY <2>1, CheckInv, SendInv, RollBackInv, StoreInv
  <2>2. CASE \E p \in Handler, f \in Fn, on \in BOOLEAN : HandleSetFunction(p, f, on)
    BY <2>2, HandleInv
  <2>3. CASE \E f \in Fn : DeadManHorn(f) \/ PulseOver(f)
    BY <2>3, DeadManInv, PulseOverInv
  <2>4. CASE \E f \in Fn, on \in BOOLEAN : OtherThrottle(f, on)
    BY <2>4, OtherThrottleInv
  <2>5. CASE Seed \/ applyObservation \/ retireRemovedLoco
    BY <2>5, SeedInv, ObserveInv, RetireInv
  <2> QED BY <1>1, <2>1, <2>2, <2>3, <2>4, <2>5 DEF SetFunction
<1>2. CASE Program
  <2>1. PICK p \in Programmer :
          \/ HandleLocoAddrGet(p)
          \/ \E a \in Address : HandleLocoAddrSet(p, a)
          \/ \E n \in {1, 18} : HandleLocoCVRead(p, n)
          \/ \E n \in {18, 29}, v \in {0, 1} : HandleLocoCVWrite(p, n, v)
          \/ Lock(p) \/ ReadCV(p) \/ WriteCV(p) \/ FailCV(p) \/ Unlock(p)
    BY <1>2 DEF Program
  <2> QED BY <2>1, AddrSetInv, OtherRequestsInv, LockInv, ReadInv, WriteInv, FailInv, UnlockInv
<1>3. CASE UNCHANGED vars
  <2>1. calls' \in 0 .. MaxCalls /\ UNCHANGED <<fns, cvs>>
    BY <1>3 DEF vars, Inv, TypeOK
  <2> QED BY <2>1, FnsFrame
<1> QED BY <1>1, <1>2, <1>3 DEF Next

\* The inductive invariant holds in every reachable state.
THEOREM InvHolds == Spec => []Inv
  BY InitInv, NextInv, PTL DEF Spec

\* The function cache answers for the decoder, whatever fails, is pulsed,
\* subscribed or observed: no command the decoder needs is swallowed by
\* checkFnStateMatches, and no horn is left on once its pulse is over
\* (setTimedLocoFunctionWithRetry).
THEOREM CacheStaysSound == Spec => []CacheSound
<1>1. Inv => CacheSound
  <2> SUFFICES ASSUME Inv PROVE HornReleased
    BY DEF Inv, CacheSound
  <2> QED BY DecoderAssumption DEF Inv, FnInv, HornReleased
<1> QED BY <1>1, InvHolds, PTL

\* An address request about to be answered wrote, or read, exactly that
\* address, however requests and failures interleave (progMu,
\* HandleLocoAddrSet, HandleLocoAddrGet).
THEOREM AddressStaysWhole == Spec => []AddressWhole
<1>1. Inv => AddressWhole
  <2> SUFFICES ASSUME Inv, NEW p \in Programmer, prog[p].pc = "work", prog[p].todo = <<>>
               PROVE  CASE prog[p].op = "set" -> addressFromCVs(cv) = prog[p].to
                        [] prog[p].op = "get" -> \A i \in 1 .. 4 : prog[p].got[i][2] = cv[prog[p].got[i][1]]
                        [] prog[p].op = "read" -> \A i \in DOMAIN prog[p].got :
                                                    prog[p].got[i][2] = cv[prog[p].got[i][1]]
                        [] OTHER -> TRUE
    BY DEF AddressWhole
  <2>1. ProgInv(p) /\ prog[p] \in ProgState /\ Len(prog[p].todo) = 0
    BY DEF Inv, TypeOK, ProgState
  <2>2. ASSUME prog[p].op = "set" PROVE addressFromCVs(cv) = prog[p].to
    <3> DEFINE w == AddressCVWrites(prog[p].to)
    <3>1. prog[p].to \in Address /\ \A i \in 1 .. Len(w) : i <= Len(w) - Len(prog[p].todo) => cv[w[i][1]] = w[i][2]
      BY <2>1, <2>2 DEF ProgInv, SetLeft, SetDone
    <3>2. Len(w) \in Nat
      BY <3>1, Writes
    <3>3. \A i \in 1 .. Len(w) : cv[w[i][1]] = w[i][2]
      BY <2>1, <3>1, <3>2
    <3> QED BY <3>1, <3>3, Writes
  <2>3. prog[p].op \in {"get", "read"} => \A i \in DOMAIN prog[p].got : prog[p].got[i][2] = cv[prog[p].got[i][1]]
    BY <2>1 DEF ProgInv, ReadDone
  <2>4. ASSUME prog[p].op = "get" PROVE DOMAIN prog[p].got = 1 .. 4
    <3>1. prog[p].got \in Seq(CV \X CVValue)
      BY <2>1 DEF ProgState
    <3>2. Len(prog[p].got) = 4
      BY <2>1, <2>4, <3>1, LenProperties DEF ProgInv
    <3> QED BY <3>1, <3>2, LenProperties
  <2> QED BY <2>2, <2>3, <2>4
<1> QED BY <1>1, InvHolds, PTL
=============================================================================
