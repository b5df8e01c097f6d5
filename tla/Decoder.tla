------------------------------- MODULE Decoder ------------------------------
(***************************************************************************)
(* What a dcc-bus daemon writes to one decoder besides its speed: function *)
(* bits, switched, pulsed and deduplicated by FunctionsCache               *)
(* (dcc-bus/cmd/functions.go, set_function.go, service/function_cache.go), *)
(* and configuration variables (dcc-bus/cmd/programming.go).               *)
(*                                                                         *)
(* A step of a goroutine is one access to the cache, the store, the        *)
(* station or the pulse map.  A command that fails did not reach the       *)
(* decoder.  One loco; the subscription that seeds the cache, the bus      *)
(* observations and the retirement of the loco are included.               *)
(***************************************************************************)
EXTENDS Integers, Sequences

CONSTANTS
  Fn, Momentary,      \* function numbers; the ones the catalogue calls momentary
  Handler,            \* goroutines that set a function
  Programmer,         \* goroutines that program
  Address,            \* addresses: <<long, high, low>>
  Retry,              \* further attempts of a pulse
  MaxCalls,           \* bound on requests, bus events and failures
  None

ASSUME DecoderAssumption ==
  /\ Momentary \subseteq Fn
  /\ Address \subseteq BOOLEAN \X Nat \X Nat
  /\ \A a \in Address : ~a[1] => a[2] = 0     \* a short address is one byte
  /\ Retry \in Nat /\ MaxCalls \in Nat
  /\ None \notin BOOLEAN \cup Programmer
  /\ \A f \in Fn : <<"pulse", f>> \notin Handler

\* The goroutine, and later the timer, of a pulse: one per function.
Pulse(f) == <<"pulse", f>>
Setter == Handler \cup {Pulse(f) : f \in Fn}

VARIABLES
  cache,      \* FunctionsCache.entries
  store,      \* LocoStateStore: the function bits
  deco,       \* the function bits of the decoder
  seen,       \* do sessions or handsets watch the loco?
  bus,        \* observations on their way to the state feed
  active,     \* Router.pulseActive
  set,        \* the goroutines that set a function
  cv,         \* the configuration variables of the decoder
  progMu,     \* who holds it
  prog,       \* the goroutines that program
  calls,      \* requests, bus events and failures so far
  muddled,    \* history: functions set by two goroutines at once, or set or
              \* retired while an observation was on its way; left on by a command that
              \* failed; or of which the store is stale (retired while on,
              \* switched while nobody watched)
  swallowed   \* history: functions of which a command was taken for done
              \* although the decoder was in the other state and no
              \* observation was on its way

fns == <<cache, store, deco, seen, bus, active, set, muddled, swallowed>>
cvs == <<cv, progMu, prog>>
vars == <<fns, cvs, calls>>

Free == [pc |-> "off", f |-> None, on |-> FALSE, prev |-> None, tries |-> 0]
Unused == [pc |-> "off", op |-> None, to |-> None, todo |-> <<>>, got |-> <<>>]

CV == {1, 17, 18, 29}

-----------------------------------------------------------------------------
(***************************************************************************)
(* Addresses in CVs (programming_addr.go; the writes are what the driver   *)
(* library's AddressCVWrites returns).                                     *)
(***************************************************************************)

\* addressFromCVs: bit 5 of CV29 chooses CV17 and CV18, or CV1.
addressFromCVs(c) == IF c[29] = 1 THEN <<TRUE, c[17], c[18]>> ELSE <<FALSE, 0, c[1]>>

AddressCVWrites(a) ==
  IF a[1] THEN <<<<17, a[2]>>, <<18, a[3]>>, <<29, 1>>>>
  ELSE <<<<1, a[3]>>, <<29, 0>>>>

CVValue == {a[2] : a \in Address} \cup {a[3] : a \in Address} \cup {0, 1}

-----------------------------------------------------------------------------
TypeOK ==
  /\ cache \in [Fn -> BOOLEAN \cup {None}]
  /\ store \in [Fn -> BOOLEAN] /\ deco \in [Fn -> BOOLEAN]
  /\ seen \in BOOLEAN /\ bus \in Seq(Fn \X BOOLEAN)
  /\ active \in [Fn -> BOOLEAN]
  /\ set \in [Setter -> [pc : {"off", "check", "send", "store", "rollback", "wait"},
                         f : Fn \cup {None}, on : BOOLEAN,
                         prev : BOOLEAN \cup {None}, tries : 0 .. Retry]]
  /\ cv \in [CV -> CVValue]
  /\ progMu \in Programmer \cup {None}
  /\ prog \in [Programmer ->
                 [pc : {"off", "lock", "work"}, op : {None, "set", "get", "read", "write"},
                  to : Address \cup {None}, todo : Seq(CV \X CVValue),
                  got : Seq(CV \X CVValue)]]
  /\ calls \in 0 .. MaxCalls
  /\ muddled \subseteq Fn /\ swallowed \subseteq Fn

Init ==
  /\ cache = [f \in Fn |-> None]
  /\ store = [f \in Fn |-> FALSE] /\ deco = [f \in Fn |-> FALSE]
  /\ seen \in BOOLEAN /\ bus = <<>>
  /\ active = [f \in Fn |-> FALSE]
  /\ set = [p \in Setter |-> Free]
  /\ \E a \in Address : cv = [n \in CV |-> CASE n = 1 -> IF a[1] THEN 0 ELSE a[3]
                                             [] n = 17 -> IF a[1] THEN a[2] ELSE 0
                                             [] n = 18 -> IF a[1] THEN a[3] ELSE 0
                                             [] n = 29 -> IF a[1] THEN 1 ELSE 0]
  /\ progMu = None /\ prog = [p \in Programmer |-> Unused]
  /\ calls = 0 /\ muddled = {} /\ swallowed = {}

Call == calls < MaxCalls /\ calls' = calls + 1

-----------------------------------------------------------------------------
(***************************************************************************)
(* setLocoFunction.                                                        *)
(***************************************************************************)

Busy(f) == {p \in Setter : set[p].f = f /\ set[p].pc \in {"check", "send", "store", "rollback"}}

\* An observation of the function is on its way.
Reported(f) == \E i \in DOMAIN bus : bus[i][1] = f

Start(p, f, on, tries) ==
  /\ set' = [set EXCEPT ![p] = [pc |-> "check", f |-> f, on |-> on,
                                prev |-> None, tries |-> tries]]
  /\ muddled' = IF Busy(f) \ {p} # {} \/ Reported(f) THEN muddled \cup {f} ELSE muddled

\* What follows a call: a handler returns; a pulse that switched the
\* function on waits for its timer, one that failed or is over leaves the
\* map (markTimedFunctionStopped).
Return(p, ok) ==
  LET g == set[p]
      wait == p \notin Handler /\ ok /\ g.on
  IN /\ set' = [set EXCEPT ![p] = IF wait THEN [@ EXCEPT !.pc = "wait"] ELSE Free]
     /\ active' = IF p \in Handler \/ wait THEN active
                  ELSE [active EXCEPT ![g.f] = FALSE]

\* checkFnStateMatches: the cache and the store.
checkFnStateMatches(f, on) == cache[f] = on /\ store[f] = on

\* A match is taken for done; otherwise Stage.
CheckAndStage(p) ==
  LET g == set[p]
  IN /\ g.pc = "check"
     /\ IF checkFnStateMatches(g.f, g.on)
        THEN /\ Return(p, TRUE)
             /\ swallowed' = IF deco[g.f] # g.on /\ ~Reported(g.f)
                             THEN swallowed \cup {g.f} ELSE swallowed
             /\ UNCHANGED cache
        ELSE /\ set' = [set EXCEPT ![p].pc = "send", ![p].prev = cache[g.f]]
             /\ cache' = [cache EXCEPT ![g.f] = g.on]
             /\ UNCHANGED <<active, swallowed>>
     /\ UNCHANGED <<store, deco, seen, bus, muddled, cvs, calls>>

\* SendFn, with its second attempt after a slot error.
SendFn(p) ==
  LET g == set[p]
  IN /\ g.pc = "send"
     /\ \/ /\ deco' = [deco EXCEPT ![g.f] = g.on]
           /\ set' = [set EXCEPT ![p].pc = "store"]
           /\ UNCHANGED <<calls, muddled>>
        \/ /\ Call
           /\ set' = [set EXCEPT ![p].pc = "rollback"]
           /\ muddled' = IF g.on THEN muddled ELSE muddled \cup {g.f}
           /\ UNCHANGED deco
     /\ UNCHANGED <<cache, store, seen, bus, active, swallowed, cvs>>

\* Mutant: a failed command stays in the cache.
KeepStaged(p) ==
  LET g == set[p]
      again == p \notin Handler /\ g.tries > 0
  IN /\ g.pc = "rollback"
     /\ store' = [store EXCEPT ![g.f] = g.on]
     /\ IF again THEN /\ set' = [set EXCEPT ![p].pc = "check", ![p].tries = @ - 1]
                      /\ UNCHANGED active
        ELSE Return(p, FALSE)
     /\ UNCHANGED <<cache, deco, seen, bus, muddled, swallowed, cvs, calls>>

\* Rollback, and the next attempt of a pulse (setLocoFunctionWithRetry).
RollBack(p) ==
  LET g == set[p]
      again == p \notin Handler /\ g.tries > 0
  IN /\ g.pc = "rollback"
     /\ cache' = [cache EXCEPT ![g.f] = g.prev]
     /\ IF again THEN /\ set' = [set EXCEPT ![p].pc = "check", ![p].tries = @ - 1]
                      /\ UNCHANGED active
        ELSE Return(p, FALSE)
     /\ UNCHANGED <<store, deco, seen, bus, muddled, swallowed, cvs, calls>>

\* store.SetFunction
StoreFunction(p) ==
  LET g == set[p]
  IN /\ g.pc = "store"
     /\ store' = [store EXCEPT ![g.f] = g.on]
     /\ Return(p, TRUE)
     /\ UNCHANGED <<cache, deco, seen, bus, muddled, swallowed, cvs, calls>>

-----------------------------------------------------------------------------
(***************************************************************************)
(* Requests.                                                               *)
(***************************************************************************)

\* setTimedLocoFunctionWithRetry, unless the function is pulsed already.
StartPulse(f, tries) ==
  IF active[f] THEN UNCHANGED <<active, set, muddled>>
  ELSE /\ active' = [active EXCEPT ![f] = TRUE]
       /\ Start(Pulse(f), f, TRUE, tries)

\* HandleSetFunction: a momentary function is pulsed when switched on.  A
\* toggle asks the store what on is now.
HandleSetFunction(p, f, on) ==
  /\ set[p].pc = "off"
  /\ Call
  /\ IF on /\ f \in Momentary THEN StartPulse(f, 0)
     ELSE Start(p, f, on, 0) /\ UNCHANGED active
  /\ UNCHANGED <<cache, store, deco, seen, bus, swallowed, cvs>>

\* applyDeadManSwitchForLoco: the horn.
DeadManHorn(f) ==
  /\ f \in Momentary
  /\ Call
  /\ StartPulse(f, Retry)
  /\ UNCHANGED <<cache, store, deco, seen, bus, swallowed, cvs>>

\* Mutant: the pulse forgets that it is over.
PulseLeft(f) ==
  LET p == Pulse(f)
  IN /\ set[p].pc = "wait"
     /\ set' = [set EXCEPT ![p] = Free]
     /\ UNCHANGED <<cache, store, deco, seen, bus, active, muddled, swallowed, cvs, calls>>

\* The timer of the pulse switches the function off.
PulseOver(f) ==
  LET p == Pulse(f)
  IN /\ set[p].pc = "wait"
     /\ Start(p, f, FALSE, set[p].tries)
     /\ UNCHANGED <<cache, store, deco, seen, bus, active, swallowed, cvs, calls>>

\* HandleSubscribe seeds the cache from the store.
Seed ==
  /\ Call
  /\ cache' = store
  /\ seen' = TRUE
  /\ muddled' = muddled \cup {f \in Fn : Busy(f) # {}}
  /\ UNCHANGED <<store, deco, bus, active, set, swallowed, cvs>>

\* Another throttle of the layout switches a function.
OtherThrottle(f, on) ==
  /\ on # deco[f] /\ Call
  /\ deco' = [deco EXCEPT ![f] = on]
  /\ bus' = Append(bus, <<f, on>>)
  /\ muddled' = IF Busy(f) # {} \/ f \in Momentary THEN muddled \cup {f} ELSE muddled
  /\ UNCHANGED <<cache, store, seen, active, set, swallowed, cvs>>

\* applyObservation: the store, then the cache; only the cache when nobody
\* watches the loco.
applyObservation ==
  /\ bus # <<>>
  /\ LET f == Head(bus)[1]
         on == Head(bus)[2]
         changed == seen /\ store[f] # on
     IN /\ store' = IF changed THEN [store EXCEPT ![f] = on] ELSE store
        /\ cache' = IF changed \/ ~seen THEN [cache EXCEPT ![f] = on] ELSE cache
        /\ muddled' = IF Busy(f) # {} \/ (~seen /\ store[f] # on) THEN muddled \cup {f} ELSE muddled
  /\ bus' = Tail(bus)
  /\ UNCHANGED <<deco, seen, active, set, swallowed, cvs, calls>>

\* retireRemovedLoco: every function off, the cache empty, the sessions
\* unsubscribed.  The store keeps the old bits.
retireRemovedLoco ==
  /\ Call
  /\ deco' = [f \in Fn |-> FALSE]
  /\ cache' = [f \in Fn |-> None]
  /\ seen' = FALSE
  /\ muddled' = muddled \cup {f \in Fn : Busy(f) # {} \/ Reported(f) \/ store[f]}
  /\ UNCHANGED <<store, bus, active, set, swallowed, cvs>>

-----------------------------------------------------------------------------
(***************************************************************************)
(* Programming.  The lists of CVs are written and read under progMu.       *)
(***************************************************************************)

Request(p, op, to, todo) ==
  /\ prog[p].pc = "off"
  /\ Call
  /\ prog' = [prog EXCEPT ![p] = [pc |-> "lock", op |-> op, to |-> to,
                                  todo |-> todo, got |-> <<>>]]
  /\ UNCHANGED <<fns, cv, progMu>>

HandleLocoAddrSet(p, a) == Request(p, "set", a, <<<<29, 0>>>> \o AddressCVWrites(a))
HandleLocoAddrGet(p) == Request(p, "get", None, <<<<1, 0>>, <<17, 0>>, <<18, 0>>, <<29, 0>>>>)
HandleLocoCVRead(p, n) == Request(p, "read", None, <<<<n, 0>>, <<29, 0>>>>)
HandleLocoCVWrite(p, n, v) == Request(p, "write", None, <<<<n, v>>>>)

\* Mutant: nobody waits for the lock.
NoLock(p) ==
  /\ prog[p].pc = "lock"
  /\ prog' = [prog EXCEPT ![p].pc = "work"]
  /\ UNCHANGED <<fns, cv, progMu, calls>>

Lock(p) ==
  /\ prog[p].pc = "lock" /\ progMu = None
  /\ progMu' = p
  /\ prog' = [prog EXCEPT ![p].pc = "work"]
  /\ UNCHANGED <<fns, cv, calls>>

Reading(p) ==
  \/ prog[p].op \in {"get", "read"}
  \/ prog[p].op = "set" /\ prog[p].got = <<>>

\* readCV: the address set begins with CV29.
ReadCV(p) ==
  /\ prog[p].pc = "work" /\ prog[p].todo # <<>> /\ Reading(p)
  /\ prog' = [prog EXCEPT ![p].todo = Tail(@),
                          ![p].got = Append(@, <<Head(prog[p].todo)[1],
                                                 cv[Head(prog[p].todo)[1]]>>)]
  /\ UNCHANGED <<fns, cv, progMu, calls>>

WriteCV(p) ==
  /\ prog[p].pc = "work" /\ prog[p].todo # <<>> /\ ~Reading(p)
  /\ cv' = [cv EXCEPT ![Head(prog[p].todo)[1]] = Head(prog[p].todo)[2]]
  /\ prog' = [prog EXCEPT ![p].todo = Tail(@)]
  /\ UNCHANGED <<fns, progMu, calls>>

\* A CV fails: the address requests give up, a list of reads or writes
\* goes on.
FailCV(p) ==
  /\ prog[p].pc = "work" /\ prog[p].todo # <<>>
  /\ Call
  /\ IF prog[p].op \in {"read", "write"}
     THEN prog' = [prog EXCEPT ![p].todo = Tail(@)] /\ UNCHANGED progMu
     ELSE prog' = [prog EXCEPT ![p] = Unused] /\ progMu' = None
  /\ UNCHANGED <<fns, cv>>

\* The request is answered and the lock released.
Unlock(p) ==
  /\ prog[p].pc = "work" /\ prog[p].todo = <<>>
  /\ prog' = [prog EXCEPT ![p] = Unused]
  /\ progMu' = None
  /\ UNCHANGED <<fns, cv, calls>>

-----------------------------------------------------------------------------
SetFunction ==
  \/ \E p \in Setter : CheckAndStage(p) \/ SendFn(p) \/ RollBack(p) \/ StoreFunction(p)
  \/ \E p \in Handler, f \in Fn, on \in BOOLEAN : HandleSetFunction(p, f, on)
  \/ \E f \in Fn : DeadManHorn(f) \/ PulseOver(f)
  \/ \E f \in Fn, on \in BOOLEAN : OtherThrottle(f, on)
  \/ Seed \/ applyObservation \/ retireRemovedLoco

Program ==
  \E p \in Programmer :
    \/ HandleLocoAddrGet(p)
    \/ \E a \in Address : HandleLocoAddrSet(p, a)
    \/ \E n \in {1, 18} : HandleLocoCVRead(p, n)
    \/ \E n \in {18, 29}, v \in {0, 1} : HandleLocoCVWrite(p, n, v)
    \/ Lock(p) \/ ReadCV(p) \/ WriteCV(p) \/ FailCV(p) \/ Unlock(p)

Next == SetFunction \/ Program

Spec == Init /\ [][Next]_vars

\* Go's scheduler runs every goroutine and every timer fires.
Fairness ==
  /\ \A p \in Setter :
       WF_vars(CheckAndStage(p) \/ SendFn(p) \/ RollBack(p) \/ StoreFunction(p))
  /\ \A f \in Fn : WF_vars(PulseOver(f))
  /\ \A p \in Programmer :
       WF_vars(ReadCV(p) \/ WriteCV(p) \/ Unlock(p)) /\ SF_vars(Lock(p))

FairSpec == Spec /\ Fairness

-----------------------------------------------------------------------------
(***************************************************************************)
(* Properties.                                                             *)
(***************************************************************************)

\* The deduplication never swallows a command the decoder needs: a command
\* taken for done (checkFnStateMatches) finds the decoder in that state,
\* through failures with their rollback, pulses, subscriptions and bus
\* observations, as long as one goroutine at a time sets the function.
NothingSwallowed == swallowed \subseteq muddled

\* A momentary function is off when its pulse is over and nobody is setting
\* it (setTimedLocoFunctionWithRetry): the horn is not left on.
HornReleased ==
  \A f \in Momentary \ muddled :
    ~active[f] /\ Busy(f) = {} => ~deco[f]

\* An address request that is about to be answered left, or read, exactly
\* that address: no other request's CVs are mixed in (progMu).
AddressWhole ==
  \A p \in Programmer :
    prog[p].pc = "work" /\ prog[p].todo = <<>> =>
      CASE prog[p].op = "set" -> addressFromCVs(cv) = prog[p].to
        [] prog[p].op = "get" -> \A i \in 1 .. 4 : prog[p].got[i][2] = cv[prog[p].got[i][1]]
        [] prog[p].op = "read" -> \A i \in DOMAIN prog[p].got :
                                    prog[p].got[i][2] = cv[prog[p].got[i][1]]
        [] OTHER -> TRUE

\* Every pulse ends: the function can be pulsed again, although commands
\* fail and handlers interfere.
PulseEnds == \A f \in Momentary : active[f] ~> ~active[f]

\* The function cache may answer for the decoder: no command is swallowed and
\* no horn left on (checkFnStateMatches, pulseLocoFunction).
CacheSound == TypeOK /\ NothingSwallowed /\ HornReleased
=============================================================================
