--------------------------- MODULE HandsetsProofs ---------------------------
(***************************************************************************)
(* Proofs about Handsets: PresenceSound, and that the pairing store        *)
(* implements Pilots, for any number of handsets, users, codes, goroutines *)
(* and requests.  Proofs about Throttles, in the second half: what the     *)
(* gateways know of a loco is what the store has (ThrottlesSound), and a   *)
(* direction key starts no loco (NoSurpriseStart), for any number of       *)
(* clients, throttle ids and locos, all speed steps and speed limits.      *)
(*                                                                         *)
(* None of the properties is inductive.  A code stays reserved because a   *)
(* goroutine about to store it is the only one that names it, or the       *)
(* reservation ran out under it (Codes); a braked handset stands because   *)
(* its next command first lifts the latch, and because nobody drives       *)
(* between the brake and the latch unnoticed (Brakes); a user has one      *)
(* handset because the index names it (Index),                             *)
(* which is what the script of CompletePairing evicts by.  And a client    *)
(* that has not yet heard of a change will hear of it: the fan-out is      *)
(* still to come, or the client's own handler is to note the speed it has  *)
(* sent (ToldOf).                                                          *)
(***************************************************************************)
EXTENDS Handsets, Throttles, SequenceTheorems, FiniteSetTheorems,
        WellFoundedInduction, TLAPS

Pcs == {"off", "resolve", "unlist", "clear", "drop", "add", "store", "user", "script", "publish",
        "scope", "set", "complete", "pair", "drive", "brake", "latch", "remove"}
Ops == {None, "create", "cancel", "status", "scope", "unpair", "evict", "logoff"}
State == [pc : Pcs, op : Ops, u : User \cup {None}, c : Client \cup {None},
          k : Code \cup {None}, got : User \cup {None}]

\* What a goroutine has in its hands at the point where it is.
Holds(p, s) ==
  /\ s.pc \in {"resolve", "unlist", "clear", "drop", "add", "store"} => p \in Rest /\ s.u \in User
  /\ s.pc = "complete" => p \in Client /\ s.u \in User
  /\ s.pc \in {"drop", "store", "complete"} => s.k \in Code
  /\ s.pc \in {"resolve", "scope", "publish", "user", "script", "remove", "brake", "latch"}
       => s.c \in Client
  /\ s.pc = "script" => s.got \in User

Types == TypeOK /\ proc \in [Proc -> State]
Local == \A p \in Proc : Holds(p, proc[p])

\* The code a goroutine is about to store is reserved for it alone, unless its
\* reservation has run out.
Codes ==
  /\ CodeReserved
  /\ \A p \in Proc : At(p, "store") /\ proc[p].k \notin raced =>
       /\ proc[p].k \in dedup /\ pend[proc[p].k] = None
       /\ \A q \in Proc \ {p} : proc[q].k # proc[p].k

\* A handset with a command on its way is not latched; one about to be
\* latched stands.
Brakes ==
  /\ BrakedStands
  /\ \A c \in Client \ late : Driving(c) /\ reg[c] # None => ~reg[c].braked
  /\ At("sweep", "latch") /\ proc["sweep"].c \notin late => proc["sweep"].c \notin moving

\* The index names the handset of every user.
Index == \A c \in Client : act[c] # None /\ act[c] \notin raced => byUser[act[c]] = c

Inv == Types /\ Local /\ Codes /\ Brakes /\ Index

-----------------------------------------------------------------------------
\* Only p has moved.
Moved(p) == proc' \in [Proc -> State] /\ \A q \in Proc \ {p} : proc'[q] = proc[q]

LEMMA ProcFacts ==
  /\ "sweep" \in Proc /\ "sweep" \notin Client \cup Rest
  /\ Client \subseteq Proc /\ Rest \subseteq Proc /\ Client \cap Rest = {}
BY HandsetsAssumption DEF Proc

LEMMA OffOK == Off \in State /\ \A p : Holds(p, Off)
BY DEF Off, State, Pcs, Ops, Holds

LEMMA LocalStep ==
  ASSUME Local, NEW p \in Proc, Moved(p), Holds(p, proc'[p])
  PROVE  Local'
BY DEF Local, Moved, Holds

LEMMA CodesKept ==
  ASSUME Codes, NEW p \in Proc, Moved(p), UNCHANGED <<pend, dedup>>, raced \subseteq raced',
         proc'[p].pc # "store",
         proc'[p].k \in {None, proc[p].k} \/ pend[proc'[p].k] # None,
         Types, Local
  PROVE  Codes'
<1>1. CodeReserved'
  BY DEF Codes, CodeReserved
<1>2. ASSUME NEW q \in Proc, At(q, "store")', proc'[q].k \notin raced'
      PROVE  /\ proc'[q].k \in dedup /\ pend[proc'[q].k] = None
             /\ \A r \in Proc \ {q} : proc'[r].k # proc'[q].k
  <2>1. q # p /\ proc'[q] = proc[q] /\ At(q, "store") /\ proc[q].k \notin raced
    BY <1>2 DEF At, Moved
  <2>2. proc[q].k \in Code /\ proc[q].k # None
    BY <2>1, HandsetsAssumption DEF Local, Holds, At
  <2> QED BY <2>1, <2>2 DEF Codes, Moved
<1> QED BY <1>1, <1>2 DEF Codes

LEMMA BrakesKept ==
  ASSUME Brakes, UNCHANGED <<reg, moving, late>>,
         \A c \in Client : Driving(c)' <=> Driving(c),
         proc'["sweep"] = proc["sweep"] \/ proc'["sweep"].pc # "latch"
  PROVE  Brakes'
BY DEF Brakes, BrakedStands, At

LEMMA IndexKept ==
  ASSUME Index, UNCHANGED <<act, byUser, raced>>
  PROVE  Index'
BY DEF Index

\* The user every handset counts for.
Pilot == [c \in Client |-> IF act[c] = None \/ act[c] \in raced THEN None ELSE act[c]]

\* What a goroutine does that leaves the store and the registry alone.
LEMMA OwnStep ==
  ASSUME Inv, NEW p \in Proc, Moved(p), Holds(p, proc'[p]),
         UNCHANGED <<redis, chan, daemon, raced, late>>, calls' \in 0 .. MaxCalls,
         proc'[p].pc # "store", proc[p].pc # "drive", proc'[p].pc \notin {"drive", "latch"},
         proc'[p].k \in {None, proc[p].k} \/ pend[proc'[p].k] # None
  PROVE  Inv'
<1>1. Types'
  BY DEF Inv, Types, TypeOK, Moved, redis, daemon, State, Pcs
<1>2. Local'
  BY LocalStep DEF Inv
<1>3. Codes'
  BY CodesKept DEF Inv, redis
<1>4. Brakes'
  <2>1. \A c \in Client : Driving(c)' <=> Driving(c)
    BY ProcFacts DEF Driving, Moved
  <2>2. proc'["sweep"] = proc["sweep"] \/ proc'["sweep"].pc # "latch"
    BY ProcFacts DEF Moved
  <2> QED BY <2>1, <2>2, BrakesKept DEF Inv, daemon
<1>5. Index'
  BY IndexKept DEF Inv, redis
<1> QED BY <1>1, <1>2, <1>3, <1>4, <1>5 DEF Inv

-----------------------------------------------------------------------------
(***************************************************************************)
(* The server.                                                             *)
(***************************************************************************)
LEMMA CallOK == Inv /\ (Call \/ UNCHANGED calls) => calls' \in 0 .. MaxCalls
BY HandsetsAssumption DEF Inv, Types, TypeOK, Call

LEMMA GotoFacts ==
  ASSUME Inv, NEW p \in Proc, NEW pc \in Pcs, Goto(p, pc)
  PROVE  /\ Moved(p) /\ proc'[p].pc = pc
         /\ proc'[p].op = proc[p].op /\ proc'[p].u = proc[p].u /\ proc'[p].c = proc[p].c
         /\ proc'[p].k = proc[p].k /\ proc'[p].got = proc[p].got
BY DEF Goto, Moved, Inv, Types, State

LEMMA EndFacts ==
  ASSUME Inv, NEW p \in Proc, End(p)
  PROVE  /\ Moved(p) /\ proc'[p].pc = "off" /\ proc'[p].k = None
         /\ Holds(p, proc'[p])
BY OffOK DEF End, Moved, Inv, Types, Off

\* A step on the store: what it makes of codes and index is left to show.
LEMMA RedisStep ==
  ASSUME Inv, NEW p \in Proc, Moved(p), Holds(p, proc'[p]),
         UNCHANGED <<chan, daemon, late>>, calls' \in 0 .. MaxCalls,
         proc[p].pc # "drive", proc'[p].pc \notin {"drive", "latch"},
         pend' \in [Code -> User \cup {None}], byReq' \in [User -> Code \cup {None}],
         dedup' \subseteq Code, act' \in [Client -> User \cup {None}],
         byUser' \in [User -> Client \cup {None}], raced' \subseteq User \cup Code,
         Codes', Index'
  PROVE  Inv'
<1>1. Types'
  BY DEF Inv, Types, TypeOK, Moved, daemon, State, Pcs
<1>2. Local'
  BY LocalStep DEF Inv
<1>3. Brakes'
  <2>1. \A c \in Client : Driving(c)' <=> Driving(c)
    BY ProcFacts DEF Driving, Moved
  <2>2. proc'["sweep"] = proc["sweep"] \/ proc'["sweep"].pc # "latch"
    BY ProcFacts DEF Moved
  <2> QED BY <2>1, <2>2, BrakesKept DEF Inv, daemon
<1> QED BY <1>1, <1>2, <1>3 DEF Inv

LEMMA RequestInv ==
  ASSUME Inv, NEW p \in Rest, NEW u \in User,
         NEW op \in {"create", "cancel", "status", "scope", "unpair"}, Request(p, u, op)
  PROVE  Inv'
<1>1. p \in Proc /\ byUser[u] \in Client \cup {None}
  BY ProcFacts DEF Inv, Types, TypeOK
<1>2. PICK s \in State : /\ proc' = [proc EXCEPT ![p] = s]
                         /\ s.k = None /\ s.u = u /\ s.c = byUser[u]
                         /\ s.pc \in {"clear", "resolve", "off"}
                         /\ s.pc = "resolve" => byUser[u] # None
  <2>1. PICK pc \in {"clear", "resolve", "off"} :
          /\ pc = "resolve" => byUser[u] # None
          /\ proc' = [proc EXCEPT ![p] =
                        [Off EXCEPT !.op = op, !.u = u, !.c = byUser[u], !.pc = pc]]
    BY DEF Request
  <2>2. [Off EXCEPT !.op = op, !.u = u, !.c = byUser[u], !.pc = pc] \in State
    BY <1>1 DEF Off, State, Pcs, Ops
  <2> QED BY <2>1, <2>2 DEF Off
<1>3. Moved(p) /\ proc'[p] = s
  BY <1>1, <1>2 DEF Moved, Inv, Types
<1>4. Holds(p, s)
  BY <1>1, <1>2 DEF Holds
<1>5. proc[p].pc # "drive"
  BY DEF Request, At
<1>6. UNCHANGED <<redis, chan, daemon, raced, late>> /\ calls' \in 0 .. MaxCalls
  BY CallOK DEF Request
<1> QED BY <1>1, <1>2, <1>3, <1>4, <1>5, <1>6, OwnStep

LEMMA ResolveInv ==
  ASSUME Inv, NEW p \in Rest, Resolve(p)
  PROVE  Inv'
<1> DEFINE g == proc[p]
<1>1. p \in Proc /\ g.c \in Client /\ g.u \in User /\ g.pc = "resolve"
  BY ProcFacts DEF Resolve, At, Inv, Local, Holds
<1>2. /\ Moved(p) /\ proc'[p].k \in {None, g.k}
      /\ proc'[p].pc \in {"off", "unlist", "scope", "user"}
      /\ proc'[p].pc # "off" => proc'[p].c = g.c /\ proc'[p].u = g.u
  <2>1. CASE Goto(p, "unlist")
    BY <1>1, <2>1, GotoFacts DEF Pcs
  <2>2. CASE Goto(p, "scope")
    BY <1>1, <2>2, GotoFacts DEF Pcs
  <2>3. CASE Goto(p, "user")
    BY <1>1, <2>3, GotoFacts DEF Pcs
  <2>4. CASE End(p)
    BY <1>1, <2>4, EndFacts
  <2> QED BY <2>1, <2>2, <2>3, <2>4 DEF Resolve
<1>3. Holds(p, proc'[p])
  BY <1>1, <1>2 DEF Holds
<1>4. UNCHANGED <<redis, chan, daemon, raced, late>> /\ calls' \in 0 .. MaxCalls
  BY CallOK DEF Resolve
<1> QED BY <1>1, <1>2, <1>3, <1>4, OwnStep

\* The entry that is deleted has no session, or its user is noted.
LEMMA UnlistInv ==
  ASSUME Inv, NEW p \in Rest, Unlist(p)
  PROVE  Inv'
<1> DEFINE g == proc[p]
<1>1. p \in Proc /\ g.u \in User /\ g.pc = "unlist"
  BY ProcFacts DEF Unlist, At, Inv, Local, Holds
<1>2. /\ Moved(p) /\ proc'[p].k \in {None, g.k} /\ proc'[p].pc \in {"off", "clear"}
      /\ proc'[p].pc # "off" => proc'[p].u = g.u
  <2>1. CASE Goto(p, "clear")
    BY <1>1, <2>1, GotoFacts DEF Pcs
  <2>2. CASE End(p)
    BY <1>1, <2>2, EndFacts
  <2> QED BY <2>1, <2>2 DEF Unlist
<1>3. Holds(p, proc'[p])
  BY <1>1, <1>2 DEF Holds
<1>4. PICK u \in User : u = g.u
  BY <1>1
<1>5. /\ byUser' = [byUser EXCEPT ![u] = None] /\ raced \subseteq raced'
      /\ raced' \subseteq raced \cup {u}
      /\ \A c \in Client : byUser[u] = c /\ act[c] = u => u \in raced'
  BY <1>4 DEF Unlist
<1>6. /\ UNCHANGED <<pend, byReq, dedup, act, chan, daemon, calls, late>>
      /\ calls' \in 0 .. MaxCalls
  BY CallOK DEF Unlist
<1>7. Codes'
  BY <1>1, <1>2, <1>5, <1>6, CodesKept DEF Inv
<1>8. byUser' \in [User -> Client \cup {None}] /\ raced' \subseteq User \cup Code
  BY <1>5 DEF Inv, Types, TypeOK
<1>9. Index'
  <2> SUFFICES ASSUME NEW c \in Client, act[c] # None, act[c] \notin raced'
               PROVE  byUser'[act[c]] = c
    BY <1>6 DEF Index
  <2>1. act[c] \in User /\ byUser[act[c]] = c
    BY <1>5 DEF Inv, Index, Types, TypeOK
  <2> QED BY <1>5, <2>1 DEF Inv, Types, TypeOK
<1>10. /\ pend' \in [Code -> User \cup {None}] /\ byReq' \in [User -> Code \cup {None}]
       /\ dedup' \subseteq Code /\ act' \in [Client -> User \cup {None}]
  BY <1>6 DEF Inv, Types, TypeOK
<1> QED BY <1>1, <1>2, <1>3, <1>6, <1>7, <1>8, <1>9, <1>10, RedisStep

LEMMA GetPendingInv ==
  ASSUME Inv, NEW p \in Rest, GetPendingByUser(p)
  PROVE  Inv'
<1> DEFINE g == proc[p]
<1>1. p \in Proc /\ g.u \in User /\ g.pc = "clear" /\ byReq[g.u] \in Code \cup {None}
  BY ProcFacts DEF GetPendingByUser, At, Inv, Local, Holds, Types, TypeOK
<1>2. /\ Moved(p)
      /\ proc'[p].k \in {None, g.k} \/ pend[proc'[p].k] # None
      /\ proc'[p].pc \in {"off", "drop", "add"}
      /\ proc'[p].pc # "off" => proc'[p].u = g.u
      /\ proc'[p].pc = "drop" => proc'[p].k \in Code
  <2>1. CASE /\ byReq[g.u] # None /\ pend[byReq[g.u]] # None
             /\ proc' = [proc EXCEPT ![p].pc = "drop", ![p].k = byReq[g.u]]
    BY <1>1, <2>1, ZenonT(60) DEF Moved, Inv, Types, State, Pcs
  <2>2. CASE Goto(p, "add")
    BY <1>1, <2>2, GotoFacts DEF Pcs
  <2>3. CASE End(p)
    BY <1>1, <2>3, EndFacts
  <2> QED BY <2>1, <2>2, <2>3 DEF GetPendingByUser
<1>3. Holds(p, proc'[p])
  BY <1>1, <1>2 DEF Holds
<1>4. UNCHANGED <<pend, dedup, act, byUser, chan, daemon, calls, raced, late>>
  BY DEF GetPendingByUser
<1>5. Codes'
  BY <1>1, <1>2, <1>4, CodesKept DEF Inv
<1>6. byReq' \in [User -> Code \cup {None}]
  BY <1>1 DEF GetPendingByUser, Inv, Types, TypeOK
<1>7. Index' /\ calls' \in 0 .. MaxCalls
  BY <1>4, IndexKept, CallOK DEF Inv
<1>8. /\ pend' \in [Code -> User \cup {None}] /\ dedup' \subseteq Code
      /\ act' \in [Client -> User \cup {None}] /\ byUser' \in [User -> Client \cup {None}]
      /\ raced' \subseteq User \cup Code
  BY <1>4 DEF Inv, Types, TypeOK
<1> QED BY <1>1, <1>2, <1>3, <1>4, <1>5, <1>6, <1>7, <1>8, RedisStep

\* A code that is deleted is nobody else's to store.
LEMMA CodeDropped ==
  ASSUME Inv, NEW p \in Proc, NEW k \in Code, proc[p].k = k, Moved(p),
         proc'[p].pc # "store", proc'[p].k \in {None, k}, proc[p].pc # "store",
         pend' = [pend EXCEPT ![k] = None], dedup' = dedup \ {k}, raced' = raced
  PROVE  Codes' /\ pend' \in [Code -> User \cup {None}] /\ dedup' \subseteq Code
<1>1. pend' \in [Code -> User \cup {None}] /\ dedup' \subseteq Code
  BY DEF Inv, Types, TypeOK
<1>2. CodeReserved'
  BY DEF Inv, Codes, CodeReserved, Types, TypeOK
<1>3. ASSUME NEW q \in Proc, At(q, "store")', proc'[q].k \notin raced
      PROVE  /\ proc'[q].k \in dedup' /\ pend'[proc'[q].k] = None
             /\ \A r \in Proc \ {q} : proc'[r].k # proc'[q].k
  <2>1. q # p /\ proc'[q] = proc[q] /\ At(q, "store") /\ proc[q].k \notin raced
    BY <1>3 DEF At, Moved
  <2>2. proc[q].k \in Code /\ proc[q].k # None
    BY <2>1, HandsetsAssumption DEF Inv, Local, Holds, At
  <2>3. proc[q].k # k /\ proc[q].k \in dedup /\ pend[proc[q].k] = None
    BY <2>1 DEF Inv, Codes
  <2>4. \A r \in Proc \ {q} : proc'[r].k # proc[q].k
    BY <2>1, <2>2, <2>3 DEF Inv, Codes, Moved
  <2> QED BY <2>1, <2>2, <2>3, <2>4 DEF Inv, Types, TypeOK
<1> QED BY <1>1, <1>2, <1>3 DEF Codes

LEMMA ClearUserPendingInv ==
  ASSUME Inv, NEW p \in Rest, ClearUserPending(p)
  PROVE  Inv'
<1> DEFINE g == proc[p]
<1>1. p \in Proc /\ g.u \in User /\ g.k \in Code /\ g.pc = "drop"
  BY ProcFacts DEF ClearUserPending, At, Inv, Local, Holds
<1>2. /\ Moved(p) /\ proc'[p].k \in {None, g.k} /\ proc'[p].pc \in {"off", "add"}
      /\ proc'[p].pc # "off" => proc'[p].u = g.u
  <2>1. CASE Goto(p, "add")
    BY <1>1, <2>1, GotoFacts DEF Pcs
  <2>2. CASE End(p)
    BY <1>1, <2>2, EndFacts
  <2> QED BY <2>1, <2>2 DEF ClearUserPending
<1>3. Holds(p, proc'[p])
  BY <1>1, <1>2 DEF Holds
<1>4. UNCHANGED <<act, byUser, chan, daemon, calls, raced, late>>
  BY DEF ClearUserPending
<1>5. Codes' /\ pend' \in [Code -> User \cup {None}] /\ dedup' \subseteq Code
  BY <1>1, <1>2, CodeDropped DEF ClearUserPending
<1>6. byReq' \in [User -> Code \cup {None}]
  BY <1>1 DEF ClearUserPending, Inv, Types, TypeOK
<1>7. Index' /\ calls' \in 0 .. MaxCalls
  BY <1>4, IndexKept, CallOK DEF Inv
<1>8. /\ act' \in [Client -> User \cup {None}] /\ byUser' \in [User -> Client \cup {None}]
      /\ raced' \subseteq User \cup Code
  BY <1>4 DEF Inv, Types, TypeOK
<1> QED BY <1>1, <1>2, <1>3, <1>4, <1>5, <1>6, <1>7, <1>8, RedisStep

LEMMA DrawInv ==
  ASSUME Inv, NEW p \in Rest, Draw(p)
  PROVE  Inv'
<1>1. p \in Proc /\ proc[p].u \in User /\ proc[p].pc = "add"
  BY ProcFacts DEF Draw, At, Inv, Local, Holds
<1>2. PICK k \in Free(p) : /\ dedup' = dedup \cup {k}
                           /\ proc' = [proc EXCEPT ![p].pc = "store", ![p].k = k]
  BY DEF Draw
<1>3. k \in Code /\ k \notin dedup /\ \A q \in Proc \ {p} : proc[q].k # k
  BY <1>2 DEF Free
<1>4. /\ Moved(p) /\ proc'[p].k = k /\ proc'[p].pc = "store" /\ proc'[p].u = proc[p].u
  BY <1>1, <1>2, <1>3, ZenonT(60) DEF Moved, Inv, Types, State, Pcs
<1>5. Holds(p, proc'[p])
  BY <1>1, <1>3, <1>4 DEF Holds
<1>6. UNCHANGED <<pend, byReq, act, byUser, chan, daemon, calls, raced, late>>
  BY DEF Draw
<1>7. Codes'
  <2>1. CodeReserved' /\ (k \in raced \/ pend[k] = None)
    BY <1>2, <1>3, <1>6 DEF Inv, Codes, CodeReserved
  <2>2. ASSUME NEW q \in Proc, At(q, "store")', proc'[q].k \notin raced'
        PROVE  /\ proc'[q].k \in dedup' /\ pend'[proc'[q].k] = None
               /\ \A r \in Proc \ {q} : proc'[r].k # proc'[q].k
    <3>1. CASE q = p
      BY <3>1, <1>2, <1>3, <1>4, <1>6, <2>1, <2>2 DEF Moved
    <3>2. CASE q # p
      BY <3>2, <2>2, <1>2, <1>3, <1>4, <1>6 DEF Moved, Inv, Codes, At
    <3> QED BY <3>1, <3>2
  <2> QED BY <2>1, <2>2 DEF Codes
<1>8. Index' /\ calls' \in 0 .. MaxCalls
  BY <1>6, IndexKept, CallOK DEF Inv
<1>9. /\ pend' \in [Code -> User \cup {None}] /\ byReq' \in [User -> Code \cup {None}]
      /\ dedup' \subseteq Code /\ act' \in [Client -> User \cup {None}]
      /\ byUser' \in [User -> Client \cup {None}] /\ raced' \subseteq User \cup Code
  BY <1>2, <1>3, <1>6 DEF Inv, Types, TypeOK
<1> QED BY <1>1, <1>4, <1>5, <1>6, <1>7, <1>8, <1>9, RedisStep

LEMMA StorePendingInv ==
  ASSUME Inv, NEW p \in Rest, StorePending(p)
  PROVE  Inv'
<1> DEFINE g == proc[p]
<1>1. p \in Proc /\ g.u \in User /\ g.k \in Code /\ g.pc = "store"
  BY ProcFacts DEF StorePending, At, Inv, Local, Holds
<1>2. /\ Moved(p) /\ proc'[p].pc = "off" /\ proc'[p].k = None /\ Holds(p, proc'[p])
  BY <1>1, EndFacts DEF StorePending
<1>3. UNCHANGED <<act, byUser, chan, daemon, raced, late>>
  BY DEF StorePending
<1>4. g.k \notin raced =>
        g.k \in dedup /\ pend[g.k] = None /\ \A q \in Proc \ {p} : proc[q].k # g.k
  BY <1>1 DEF Inv, Codes, At
<1>5. PICK k \in Code, u \in User : k = g.k /\ u = g.u
  BY <1>1
<1>6. \/ pend' = [pend EXCEPT ![k] = u] /\ dedup' = dedup
      \/ pend' = pend /\ dedup' = dedup \ {k}
  BY <1>5 DEF StorePending
<1>7. pend' \in [Code -> User \cup {None}] /\ dedup' \subseteq Code
  BY <1>6 DEF Inv, Types, TypeOK
<1>8. Codes'
  <2>1. CodeReserved'
    BY <1>3, <1>4, <1>5, <1>6 DEF Inv, Codes, CodeReserved, Types, TypeOK
  <2>2. ASSUME NEW q \in Proc, At(q, "store")', proc'[q].k \notin raced'
        PROVE  /\ proc'[q].k \in dedup' /\ pend'[proc'[q].k] = None
               /\ \A r \in Proc \ {q} : proc'[r].k # proc'[q].k
    <3>1. q # p /\ proc'[q] = proc[q] /\ At(q, "store") /\ proc[q].k \notin raced
      BY <2>2, <1>2, <1>3 DEF At, Moved
    <3>2. proc[q].k \in Code /\ proc[q].k # None /\ proc[q].k # k
      <4>1. proc[q].k \in Code /\ proc[q].k # None
        BY <3>1, HandsetsAssumption DEF Inv, Local, Holds, At
      <4>2. proc[q].k # proc[p].k
        BY <3>1, <1>1 DEF Inv, Codes, At
      <4> QED BY <4>1, <4>2, <1>5
    <3>3. proc[q].k \in dedup' /\ pend'[proc[q].k] = None
      BY <3>1, <3>2, <1>6 DEF Inv, Codes, Types, TypeOK
    <3>4. \A r \in Proc \ {q} : proc'[r].k # proc[q].k
      BY <3>1, <3>2, <1>2 DEF Inv, Codes, Moved
    <3> QED BY <3>1, <3>3, <3>4
  <2> QED BY <2>1, <2>2 DEF Codes
<1>9. byReq' \in [User -> Code \cup {None}]
  BY <1>1 DEF StorePending, Inv, Types, TypeOK
<1>10. Index' /\ calls' \in 0 .. MaxCalls
  BY <1>3, IndexKept, CallOK DEF Inv, StorePending
<1>11. /\ act' \in [Client -> User \cup {None}] /\ byUser' \in [User -> Client \cup {None}]
       /\ raced' \subseteq User \cup Code
  BY <1>3 DEF Inv, Types, TypeOK
<1> QED BY <1>1, <1>2, <1>3, <1>7, <1>8, <1>9, <1>10, <1>11, RedisStep

LEMMA ServerRestInv ==
  ASSUME Inv, NEW p \in Rest,
         NoCodeLeft(p) \/ UpdateSessionScope(p) \/ PublishSessionSync(p)
  PROVE  Inv'
<1>1. p \in Proc
  BY ProcFacts
<1>2. CASE NoCodeLeft(p)
  BY <1>1, <1>2, EndFacts, OwnStep, CallOK DEF NoCodeLeft, At
<1>3. CASE UpdateSessionScope(p)
  <2>1. proc[p].c \in Client /\ proc[p].pc = "scope"
    BY <1>1, <1>3 DEF UpdateSessionScope, At, Inv, Local, Holds
  <2>2. CASE Goto(p, "publish")
    <3>1. /\ Moved(p) /\ proc'[p].pc = "publish" /\ proc'[p].c = proc[p].c
          /\ proc'[p].k = proc[p].k
      BY <1>1, <2>2, GotoFacts DEF Pcs
    <3>2. Holds(p, proc'[p])
      BY <2>1, <3>1 DEF Holds
    <3> QED BY <1>1, <1>3, <2>1, <3>1, <3>2, OwnStep, CallOK DEF UpdateSessionScope
  <2>3. CASE End(p)
    BY <1>1, <1>3, <2>1, <2>3, EndFacts, OwnStep, CallOK DEF UpdateSessionScope
  <2> QED BY <1>3, <2>2, <2>3 DEF UpdateSessionScope
<1>4. CASE PublishSessionSync(p)
  <2>1. proc[p].c \in Client /\ proc[p].pc = "publish"
    BY <1>1, <1>4 DEF PublishSessionSync, At, Inv, Local, Holds
  <2>2. /\ Moved(p) /\ proc'[p].pc = "off" /\ proc'[p].k = None /\ Holds(p, proc'[p])
    BY <1>1, <1>4, EndFacts DEF PublishSessionSync
  <2>3. UNCHANGED <<redis, daemon, raced, late>> /\ calls' \in 0 .. MaxCalls
    BY <1>4, CallOK DEF PublishSessionSync
  <2>4. chan' \subseteq [c : Client, unpair : BOOLEAN]
    <3>1. [c |-> proc[p].c, unpair |-> proc[p].op = "unpair"] \in [c : Client, unpair : BOOLEAN]
      BY <2>1, Zenon
    <3> QED BY <1>4, <3>1 DEF PublishSessionSync, Inv, Types, TypeOK
  <2>5. Types'
    BY <2>2, <2>3, <2>4 DEF Inv, Types, TypeOK, Moved, redis, daemon, State, Pcs
  <2>6. Local' /\ Codes'
    BY <1>1, <2>2, <2>3, LocalStep, CodesKept DEF Inv, redis
  <2>7. \A c \in Client : Driving(c)' <=> Driving(c)
    BY <2>1, <2>2, ProcFacts DEF Driving, Moved
  <2>8. proc'["sweep"] = proc["sweep"] \/ proc'["sweep"].pc # "latch"
    BY <2>2, ProcFacts DEF Moved
  <2>9. Brakes' /\ Index'
    BY <2>3, <2>7, <2>8, BrakesKept, IndexKept DEF Inv, redis, daemon
  <2> QED BY <2>5, <2>6, <2>9 DEF Inv
<1> QED BY <1>2, <1>3, <1>4

-----------------------------------------------------------------------------
(***************************************************************************)
(* Unpairing.                                                              *)
(***************************************************************************)
LEMMA UnpairGetInv ==
  ASSUME Inv, NEW p \in Proc, UnpairGet(p)
  PROVE  Inv'
<1>1. proc[p].c \in Client /\ proc[p].pc = "user" /\ act[proc[p].c] \in User \cup {None}
  BY DEF UnpairGet, At, Inv, Local, Holds, Types, TypeOK
<1>2. UNCHANGED <<redis, chan, daemon, raced, late>> /\ calls' \in 0 .. MaxCalls
  BY CallOK DEF UnpairGet
<1>3. /\ Moved(p) /\ proc'[p].pc \in {"publish", "remove", "script"}
      /\ proc'[p].c = proc[p].c /\ proc'[p].k = proc[p].k
      /\ proc'[p].pc = "script" => proc'[p].got \in User
  <2>1. CASE Goto(p, "publish")
    BY <2>1, GotoFacts DEF Pcs
  <2>2. CASE Goto(p, "remove")
    BY <2>2, GotoFacts DEF Pcs
  <2>3. CASE /\ act[proc[p].c] # None
             /\ proc' = [proc EXCEPT ![p].pc = "script", ![p].got = act[proc[p].c]]
    BY <1>1, <2>3, ZenonT(60) DEF Moved, Inv, Types, State, Pcs
  <2> QED BY <2>1, <2>2, <2>3 DEF UnpairGet
<1>4. Holds(p, proc'[p])
  BY <1>1, <1>3 DEF Holds
<1> QED BY <1>1, <1>2, <1>3, <1>4, OwnStep

LEMMA UnpairScriptInv ==
  ASSUME Inv, NEW p \in Proc, UnpairScript(p)
  PROVE  Inv'
<1>1. PICK c \in Client, u \in User : c = proc[p].c /\ u = proc[p].got /\ proc[p].pc = "script"
  BY DEF UnpairScript, At, Inv, Local, Holds
<1>2. UNCHANGED <<pend, byReq, dedup, chan, daemon, raced, late>> /\ calls' \in 0 .. MaxCalls
  BY CallOK DEF UnpairScript
<1>3. /\ Moved(p) /\ proc'[p].pc \in {"publish", "remove"}
      /\ proc'[p].c = c /\ proc'[p].k = proc[p].k
  <2>1. CASE Goto(p, "publish")
    BY <1>1, <2>1, GotoFacts DEF Pcs
  <2>2. CASE Goto(p, "remove")
    BY <1>1, <2>2, GotoFacts DEF Pcs
  <2> QED BY <2>1, <2>2 DEF UnpairScript
<1>4. Holds(p, proc'[p])
  BY <1>1, <1>3 DEF Holds
<1>5. /\ act' = [act EXCEPT ![c] = None]
      /\ byUser' = byUser \/ (byUser[u] = c /\ byUser' = [byUser EXCEPT ![u] = None])
  BY <1>1 DEF UnpairScript
<1>6. /\ act' \in [Client -> User \cup {None}] /\ byUser' \in [User -> Client \cup {None}]
      /\ pend' \in [Code -> User \cup {None}] /\ byReq' \in [User -> Code \cup {None}]
      /\ dedup' \subseteq Code /\ raced' \subseteq User \cup Code
  BY <1>2, <1>5 DEF Inv, Types, TypeOK
<1>7. Index'
  BY <1>2, <1>5 DEF Inv, Index, Types, TypeOK
<1>8. Codes'
  BY <1>1, <1>2, <1>3, CodesKept DEF Inv
<1> QED BY <1>1, <1>2, <1>3, <1>4, <1>6, <1>7, <1>8, RedisStep

\* A step of the daemon: what it makes of the brakes is left to show.
LEMMA DaemonStep ==
  ASSUME Inv, NEW p \in Proc, Moved(p), Holds(p, proc'[p]),
         UNCHANGED <<redis, raced>>, calls' \in 0 .. MaxCalls,
         proc'[p].pc # "store",
         proc'[p].k \in {None, proc[p].k} \/ pend[proc'[p].k] # None,
         chan' \subseteq [c : Client, unpair : BOOLEAN],
         reg' \in [Client -> [session : User \cup {None}, braked : BOOLEAN] \cup {None}],
         gone' \subseteq Client, moving' \subseteq Client, late' \subseteq Client,
         Brakes'
  PROVE  Inv'
<1>1. Types'
  BY DEF Inv, Types, TypeOK, Moved, redis, State, Pcs
<1>2. Local'
  BY LocalStep DEF Inv
<1>3. Codes' /\ Index'
  BY CodesKept, IndexKept DEF Inv, redis
<1> QED BY <1>1, <1>2, <1>3 DEF Inv

\* A handset out of the registry, with its loco stopped, is no concern of the
\* brakes.
LEMMA DropPresenceInv ==
  ASSUME Inv, NEW p \in Proc, DropPresence(p)
  PROVE  Inv'
<1>1. PICK c \in Client : c = proc[p].c /\ proc[p].pc = "remove"
  BY DEF DropPresence, At, Inv, Local, Holds
<1>2. /\ reg' = [reg EXCEPT ![c] = None] /\ moving' \subseteq moving
      /\ late \subseteq late' /\ late' \subseteq late \cup {c}
      /\ UNCHANGED <<redis, chan, gone, raced>> /\ calls' \in 0 .. MaxCalls
  BY <1>1, CallOK DEF DropPresence, Release
<1>3. /\ Moved(p) /\ proc'[p].pc \in {"off", "pair"} /\ proc'[p].k \in {None, proc[p].k}
  <2>1. CASE p \in Client /\ proc' = [proc EXCEPT ![p].pc = "pair", ![p].c = p]
    BY <1>1, <2>1, ZenonT(60) DEF Moved, Inv, Types, State, Pcs
  <2>2. CASE End(p)
    BY <2>2, EndFacts
  <2> QED BY <2>1, <2>2 DEF DropPresence
<1>4. Holds(p, proc'[p])
  BY <1>3 DEF Holds
<1>5. /\ chan' \subseteq [c : Client, unpair : BOOLEAN]
      /\ reg' \in [Client -> [session : User \cup {None}, braked : BOOLEAN] \cup {None}]
      /\ gone' \subseteq Client /\ moving' \subseteq Client /\ late' \subseteq Client
  BY <1>2 DEF Inv, Types, TypeOK
<1>6. \A d \in Client : Driving(d)' <=> Driving(d)
  BY <1>1, <1>3, ProcFacts DEF Driving, Moved
<1>7. proc'["sweep"] = proc["sweep"] \/ proc'["sweep"].pc # "latch"
  BY <1>3, ProcFacts DEF Moved
<1>8. Brakes'
  BY <1>2, <1>6, <1>7 DEF Inv, Brakes, BrakedStands, At, Types, TypeOK
<1> QED BY <1>2, <1>3, <1>4, <1>5, <1>8, DaemonStep

-----------------------------------------------------------------------------
(***************************************************************************)
(* The daemon.                                                             *)
(***************************************************************************)
Registry == [Client -> [session : User \cup {None}, braked : BOOLEAN] \cup {None}]

LEMMA FreshOK == Fresh \in [session : User \cup {None}, braked : BOOLEAN] /\ ~Fresh.braked
BY DEF Fresh

LEMMA PacketReadsInv ==
  ASSUME Inv, NEW c \in Client, PacketReads(c)
  PROVE  Inv'
<1>1. c \in Proc /\ c # "sweep" /\ proc[c].pc = "off" /\ act[c] \in User \cup {None}
  BY ProcFacts DEF PacketReads, At, Inv, Types, TypeOK
<1>2. /\ Moved(c) /\ proc'[c].pc = "set" /\ proc'[c].k = proc[c].k /\ calls' \in 0 .. MaxCalls
  <2>0. c \in Proc
    BY <1>1
  <2>1. PICK u \in User \cup {None} : proc' = [proc EXCEPT ![c].pc = "set", ![c].got = u]
    BY <1>1 DEF PacketReads
  <2>2. calls' \in 0 .. MaxCalls
    BY CallOK DEF PacketReads
  <2>3. Moved(c) /\ proc'[c].pc = "set" /\ proc'[c].k = proc[c].k
    BY <2>0, <2>1, ZenonT(60) DEF Moved, Inv, Types, State, Pcs
  <2> QED BY <2>2, <2>3
<1>3. Holds(c, proc'[c])
  BY <1>2 DEF Holds
<1>4. UNCHANGED <<redis, chan, gone, moving, raced, late>>
  BY DEF PacketReads
<1>5. reg' \in Registry /\ (reg' = reg \/ (reg[c] = None /\ reg' = [reg EXCEPT ![c] = Fresh]))
  BY FreshOK DEF PacketReads, Inv, Types, TypeOK, Registry
<1>6. \A d \in Client : Driving(d)' <=> Driving(d)
  BY <1>1, <1>2, ProcFacts DEF Driving, Moved
<1>7. proc'["sweep"] = proc["sweep"]
  BY <1>1, <1>2, ProcFacts DEF Moved
<1>8. Brakes'
  BY <1>4, <1>5, <1>6, <1>7, FreshOK DEF Inv, Brakes, BrakedStands, At, Types, TypeOK
<1>9. /\ chan' \subseteq [c : Client, unpair : BOOLEAN]
      /\ gone' \subseteq Client /\ moving' \subseteq Client /\ late' \subseteq Client
  BY <1>4 DEF Inv, Types, TypeOK
<1> QED BY <1>1, <1>2, <1>3, <1>4, <1>5, <1>8, <1>9, DaemonStep DEF Registry

LEMMA PacketKnownInv ==
  ASSUME Inv, NEW c \in Client, PacketKnown(c)
  PROVE  Inv'
<1>1. c \in Proc /\ c # "sweep" /\ proc[c].pc = "off" /\ reg[c] # None
  BY ProcFacts DEF PacketKnown, At
<1>2. /\ Moved(c)
      /\ proc'[c].pc \in {"drive", "complete", "user", "off"}
      /\ proc'[c].pc = "drive" => Paired(c)
      /\ proc'[c].k \in {None, proc[c].k} \/ pend[proc'[c].k] # None
      /\ Holds(c, proc'[c])
  <2>1. CASE Authorize(c)
    <3>1. Moved(c) /\ proc'[c].pc = "drive" /\ proc'[c].k = proc[c].k /\ Paired(c)
      BY <1>1, <2>1, GotoFacts DEF Authorize, Pcs
    <3> QED BY <3>1 DEF Holds
  <2>2. ASSUME NEW k \in Code, EnterCode(c, k)
        PROVE  <1>2!1 /\ <1>2!2 /\ <1>2!3 /\ <1>2!4 /\ <1>2!5
    <3>1. pend[k] \in User
      BY <2>2 DEF EnterCode, Inv, Types, TypeOK
    <3>2. PICK u \in User : proc' = [proc EXCEPT ![c].pc = "complete", ![c].k = k, ![c].u = u]
      BY <2>2, <3>1 DEF EnterCode
    <3>3. /\ Moved(c) /\ proc'[c].pc = "complete" /\ proc'[c].k = k /\ proc'[c].u = u
      <4>1. c \in Proc /\ proc[c] \in State /\ proc \in [Proc -> State]
        BY <1>1 DEF Inv, Types
      <4>2. PICK s \in State : s = [proc[c] EXCEPT !.pc = "complete", !.k = k, !.u = u]
        BY <4>1 DEF State, Pcs
      <4>3. proc' = [proc EXCEPT ![c] = s]
        BY <3>2, <4>1, <4>2
      <4>4. s.pc = "complete" /\ s.k = k /\ s.u = u
        BY <4>1, <4>2 DEF State
      <4> QED BY <4>1, <4>3, <4>4 DEF Moved
    <3> QED BY <2>2, <3>3 DEF Holds, EnterCode
  <2>3. CASE LogOff(c)
    <3>1. [Off EXCEPT !.pc = "user", !.op = "logoff", !.c = c] \in State
      BY DEF Off, State, Pcs, Ops
    <3>2. Moved(c) /\ proc'[c].pc = "user" /\ proc'[c].k = None /\ proc'[c].c = c
      BY <1>1, <2>3, <3>1 DEF LogOff, Moved, Inv, Types, Off
    <3> QED BY <3>2 DEF Holds
  <2>4. CASE End(c)
    BY <1>1, <2>4, EndFacts
  <2> QED BY <2>1, <2>2, <2>3, <2>4 DEF PacketKnown, HandlePacket, Action
<1>3. UNCHANGED <<redis, chan, gone, moving, raced, late>> /\ calls' \in 0 .. MaxCalls
  BY CallOK DEF PacketKnown
<1>4. /\ reg' \in Registry
      /\ \A d \in Client \ {c} : reg'[d] = reg[d]
      /\ reg'[c] # None
      /\ reg'[c] = reg[c] \/ ~reg'[c].braked
      /\ Paired(c) => ~reg'[c].braked
  <2>1. reg \in Registry /\ None \notin [session : User \cup {None}, braked : BOOLEAN]
    BY HandsetsAssumption DEF Inv, Types, TypeOK, Registry
  <2> QED BY <1>1, <2>1 DEF PacketKnown, NoteActivity, Paired, Registry
<1>5. \A d \in Client \ {c} : Driving(d)' <=> Driving(d)
  BY <1>1, <1>2, ProcFacts DEF Driving, Moved
<1>6. proc'["sweep"] = proc["sweep"] /\ ~Driving(c) /\ (Driving(c)' => Paired(c))
  BY <1>1, <1>2, ProcFacts DEF Moved, Driving
<1>7. Brakes'
  <2>1. BrakedStands'
    BY <1>3, <1>4, <1>5, <1>6 DEF Inv, Brakes, BrakedStands
  <2>2. \A d \in Client \ late' : Driving(d)' /\ reg'[d] # None => ~reg'[d].braked
    BY <1>3, <1>4, <1>5, <1>6 DEF Inv, Brakes
  <2> QED BY <1>3, <1>6, <2>1, <2>2 DEF Inv, Brakes, At
<1>8. /\ chan' \subseteq [c : Client, unpair : BOOLEAN]
      /\ gone' \subseteq Client /\ moving' \subseteq Client /\ late' \subseteq Client
  BY <1>3 DEF Inv, Types, TypeOK
<1> QED BY <1>1, <1>2, <1>3, <1>4, <1>7, <1>8, DaemonStep DEF Registry

\* A session mirrored into the registry leaves the latch alone.
LEMMA MirrorFacts ==
  ASSUME Inv, NEW c \in Client, NEW u \in User \cup {None}, Mirror(c, u)
  PROVE  /\ reg' \in Registry
         /\ \A d \in Client : /\ reg'[d] = None <=> reg[d] = None
                              /\ reg[d] # None => reg'[d].braked = reg[d].braked
<1>1. reg \in Registry /\ None \notin [session : User \cup {None}, braked : BOOLEAN]
  BY HandsetsAssumption DEF Inv, Types, TypeOK, Registry
<1> QED BY <1>1 DEF Mirror, Registry

LEMMA SessionSetInv ==
  ASSUME Inv, NEW c \in Client, SyncSet(c) \/ SetPaired(c)
  PROVE  Inv'
<1>1. c \in Proc /\ c # "sweep" /\ proc[c].pc \in {"set", "pair"}
  BY ProcFacts DEF SyncSet, SetPaired, At
<1>2. PICK u \in User \cup {None} : Mirror(c, u)
  BY <1>1 DEF SyncSet, SetPaired, Mirror, Inv, Types, State
<1>3. Moved(c) /\ proc'[c].pc = "off" /\ proc'[c].k = None /\ Holds(c, proc'[c])
  BY <1>1, EndFacts DEF SyncSet, SetPaired
<1>4. UNCHANGED <<redis, chan, gone, moving, raced, late>> /\ calls' \in 0 .. MaxCalls
  BY CallOK DEF SyncSet, SetPaired
<1>5. /\ reg' \in Registry
      /\ \A d \in Client : /\ reg'[d] = None <=> reg[d] = None
                           /\ reg[d] # None => reg'[d].braked = reg[d].braked
  BY <1>2, MirrorFacts
<1>6. \A d \in Client : Driving(d)' <=> Driving(d)
  BY <1>1, <1>3, ProcFacts DEF Driving, Moved
<1>7. proc'["sweep"] = proc["sweep"]
  BY <1>1, <1>3, ProcFacts DEF Moved
<1>8. Brakes'
  BY <1>4, <1>5, <1>6, <1>7 DEF Inv, Brakes, BrakedStands, At
<1>9. /\ chan' \subseteq [c : Client, unpair : BOOLEAN]
      /\ gone' \subseteq Client /\ moving' \subseteq Client /\ late' \subseteq Client
  BY <1>4 DEF Inv, Types, TypeOK
<1> QED BY <1>1, <1>3, <1>4, <1>5, <1>8, <1>9, DaemonStep DEF Registry

LEMMA HandleSyncInv ==
  ASSUME Inv, NEW m \in chan, HandleSyncMessage(m)
  PROVE  Inv'
<1>1. m.c \in Client /\ act[m.c] \in User \cup {None}
  BY DEF Inv, Types, TypeOK
<1>2. PICK c \in Client, u \in User \cup {None} : c = m.c /\ Mirror(c, u)
  BY <1>1 DEF HandleSyncMessage
<1>3. /\ reg' \in Registry
      /\ \A d \in Client : /\ reg'[d] = None <=> reg[d] = None
                           /\ reg[d] # None => reg'[d].braked = reg[d].braked
  BY <1>2, MirrorFacts
<1>4. /\ UNCHANGED <<redis, gone, proc, calls, raced>> /\ chan' \subseteq chan
      /\ moving' \subseteq moving /\ late \subseteq late' /\ late' \subseteq late \cup {c}
  BY <1>2 DEF HandleSyncMessage, Release
<1>5. Types'
  BY <1>3, <1>4 DEF Inv, Types, TypeOK, redis, Registry
<1>6. Local' /\ Codes' /\ Index'
  BY <1>4 DEF Inv, Local, Holds, Codes, CodeReserved, Index, At, redis
<1>7. Brakes'
  BY <1>3, <1>4 DEF Inv, Brakes, BrakedStands, Driving, At
<1> QED BY <1>5, <1>6, <1>7 DEF Inv

LEMMA DriveInv ==
  ASSUME Inv, NEW c \in Client, Drive(c)
  PROVE  Inv'
<1>1. c \in Proc /\ c # "sweep" /\ proc[c].pc = "drive" /\ Driving(c)
  BY ProcFacts DEF Drive, At, Driving
<1>2. Moved(c) /\ proc'[c].pc = "off" /\ proc'[c].k = None /\ Holds(c, proc'[c])
  BY <1>1, EndFacts DEF Drive
<1>3. /\ UNCHANGED <<redis, chan, reg, gone, raced>> /\ calls' \in 0 .. MaxCalls
      /\ moving' \subseteq moving \cup {c}
      /\ late \ {c} \subseteq late' /\ late' \subseteq late \cup {c}
      /\ proc["sweep"].c = c /\ proc["sweep"].pc = "latch" => c \in late'
      /\ c \in late /\ reg[c] # None /\ reg[c].braked => c \in late'
  <2>1. /\ UNCHANGED <<redis, chan, reg, gone, calls, raced>> /\ moving' \subseteq moving \cup {c}
        /\ late' = IF At("sweep", "latch") /\ proc["sweep"].c = c THEN late \cup {c}
                   ELSE IF reg[c] # None /\ ~reg[c].braked THEN late \ {c} ELSE late
    BY DEF Drive
  <2> QED BY <2>1, CallOK DEF At
<1>4. \A d \in Client \ {c} : Driving(d)' <=> Driving(d)
  BY <1>1, <1>2, ProcFacts DEF Driving, Moved
<1>5. proc'["sweep"] = proc["sweep"]
  BY <1>1, <1>2, ProcFacts DEF Moved
<1>6. Brakes'
  <2>1. c \notin late' => reg[c] = None \/ ~reg[c].braked
    BY <1>1, <1>3 DEF Inv, Brakes
  <2>2. BrakedStands'
    BY <1>3, <1>4, <2>1 DEF Inv, Brakes, BrakedStands
  <2>3. \A d \in Client \ late' : Driving(d)' /\ reg'[d] # None => ~reg'[d].braked
    BY <1>3, <1>4, <2>1 DEF Inv, Brakes
  <2>4. At("sweep", "latch")' /\ proc'["sweep"].c \notin late' => proc'["sweep"].c \notin moving'
    BY <1>3, <1>5 DEF Inv, Brakes, At
  <2> QED BY <2>2, <2>3, <2>4 DEF Brakes
<1>7. /\ chan' \subseteq [c : Client, unpair : BOOLEAN] /\ reg' \in Registry
      /\ gone' \subseteq Client /\ moving' \subseteq Client /\ late' \subseteq Client
  BY <1>3 DEF Inv, Types, TypeOK, Registry
<1> QED BY <1>1, <1>2, <1>3, <1>6, <1>7, DaemonStep DEF Registry

\* The script of CompletePairing: the index decides which session goes.
LEMMA CompleteFacts ==
  ASSUME Inv, NEW c \in Client, CompletePairing(c), pend[proc[c].k] # None
  PROVE  \E u \in User, e \in Client \cup {None} :
           /\ u = proc[c].u
           /\ \A d \in Client : act'[d] = IF d = c THEN u ELSE IF d = e THEN None ELSE act[d]
           /\ act' \in [Client -> User \cup {None}]
           /\ e = byUser[u]
           /\ byUser' = [byUser EXCEPT ![u] = c]
<1>1. proc[c].u \in User
  BY ProcFacts DEF CompletePairing, At, Inv, Local, Holds
<1>2. PICK u \in User : u = proc[c].u
  BY <1>1
<1>3. byUser[u] \in Client \cup {None}
  BY DEF Inv, Types, TypeOK
<1>4. PICK e \in Client \cup {None} : e = byUser[u]
  BY <1>3
<1>5. /\ act' = [d \in Client |-> IF d = c THEN u
                                  ELSE IF e \notin {None, c} /\ d = e THEN None ELSE act[d]]
      /\ byUser' = [byUser EXCEPT ![u] = c]
  BY <1>2, <1>4 DEF CompletePairing
<1>6. act' \in [Client -> User \cup {None}]
  BY <1>5 DEF Inv, Types, TypeOK
<1> QED BY <1>2, <1>4, <1>5, <1>6, HandsetsAssumption, ZenonT(60)

LEMMA CompletePairingInv ==
  ASSUME Inv, NEW c \in Client, CompletePairing(c)
  PROVE  Inv'
<1>1. /\ c \in Proc /\ proc[c].pc = "complete" /\ proc[c].k \in Code /\ proc[c].u \in User
  BY ProcFacts DEF CompletePairing, At, Inv, Local, Holds
<1>2. UNCHANGED <<chan, daemon, raced, late>> /\ calls' \in 0 .. MaxCalls
  BY CallOK DEF CompletePairing, redis
<1>3. CASE pend[proc[c].k] = None
  BY <1>1, <1>2, <1>3, EndFacts, OwnStep DEF CompletePairing
<1>4. CASE pend[proc[c].k] # None
  <2>1. PICK k \in Code : k = proc[c].k
    BY <1>1
  <2>2. PICK u \in User, e \in Client \cup {None} :
           /\ u = proc[c].u
           /\ \A d \in Client : act'[d] = IF d = c THEN u ELSE IF d = e THEN None ELSE act[d]
           /\ act' \in [Client -> User \cup {None}]
           /\ e = byUser[u]
           /\ byUser' = [byUser EXCEPT ![u] = c]
    BY <1>4, CompleteFacts
  <2>3. /\ pend' = [pend EXCEPT ![k] = None] /\ dedup' = dedup \ {k}
        /\ byReq' = [byReq EXCEPT ![u] = None]
    BY <1>4, <2>1, <2>2 DEF CompletePairing
  <2>4. PICK s \in State : /\ proc' = [proc EXCEPT ![c] = s]
                           /\ s.k = None /\ s.pc \in {"user", "pair"} /\ s.c \in Client
    <3>1. proc[c] \in State
      BY <1>1 DEF Inv, Types
    <3>2. CASE e \notin {None, c}
      <4>1. proc' = [proc EXCEPT ![c] =
                       [proc[c] EXCEPT !.k = None, !.pc = "user", !.op = "evict", !.c = e]]
        BY <1>1, <1>4, <2>2, <3>2 DEF CompletePairing, Inv, Types
      <4>2. PICK s \in State :
              s = [proc[c] EXCEPT !.k = None, !.pc = "user", !.op = "evict", !.c = e]
        BY <3>1 DEF State, Pcs, Ops
      <4>3. s.k = None /\ s.pc = "user" /\ s.c = e
        BY <3>1, <4>2 DEF State
      <4> QED BY <3>2, <4>1, <4>2, <4>3
    <3>3. CASE e \in {None, c}
      <4>1. proc' = [proc EXCEPT ![c] =
                       [proc[c] EXCEPT !.k = None, !.pc = "pair", !.op = None, !.c = c]]
        BY <1>1, <1>4, <2>2, <3>3 DEF CompletePairing, Inv, Types
      <4>2. PICK s \in State :
              s = [proc[c] EXCEPT !.k = None, !.pc = "pair", !.op = None, !.c = c]
        BY <3>1 DEF State, Pcs, Ops
      <4>3. s.k = None /\ s.pc = "pair" /\ s.c = c
        BY <3>1, <4>2 DEF State
      <4> QED BY <4>1, <4>2, <4>3
    <3> QED BY <3>2, <3>3
  <2>5. Moved(c) /\ proc'[c] = s
    BY <1>1, <2>4 DEF Moved, Inv, Types
  <2>6. Holds(c, proc'[c])
    BY <2>4, <2>5 DEF Holds
  <2>7. Codes' /\ pend' \in [Code -> User \cup {None}] /\ dedup' \subseteq Code
    BY <1>1, <1>2, <2>1, <2>3, <2>4, <2>5, CodeDropped
  <2>8. byReq' \in [User -> Code \cup {None}] /\ byUser' \in [User -> Client \cup {None}]
    BY <2>2, <2>3 DEF Inv, Types, TypeOK
  <2>9. Index'
    <3> SUFFICES ASSUME NEW d \in Client, act'[d] # None, act'[d] \notin raced
                 PROVE  byUser'[act'[d]] = d
      BY <1>2 DEF Index
    <3>1. CASE d = c
      BY <3>1, <2>2 DEF Inv, Types, TypeOK
    <3>2. CASE d # c
      <4>1. act'[d] = act[d] /\ d # e /\ act[d] \in User
        BY <3>2, <2>2 DEF Inv, Types, TypeOK
      <4>2. byUser[act[d]] = d
        BY <4>1 DEF Inv, Index
      <4> QED BY <4>1, <4>2, <2>2 DEF Inv, Types, TypeOK
    <3> QED BY <3>1, <3>2
  <2>10. raced' \subseteq User \cup Code
    BY <1>2 DEF Inv, Types, TypeOK
  <2> QED BY <1>1, <1>2, <2>2, <2>4, <2>5, <2>6, <2>7, <2>8, <2>9, <2>10, RedisStep
<1> QED BY <1>3, <1>4

LEMMA OnDisconnectInv ==
  ASSUME Inv, NEW c \in Client, OnDisconnect(c)
  PROVE  Inv'
<1>1. c \in Proc /\ proc[c].pc = "off"
  BY ProcFacts DEF OnDisconnect, At
<1>2. Moved(c) /\ proc'[c].pc = "remove" /\ proc'[c].c = c /\ proc'[c].k = proc[c].k
  BY <1>1, ZenonT(60) DEF OnDisconnect, Moved, Inv, Types, State, Pcs
<1>3. Holds(c, proc'[c])
  BY <1>2 DEF Holds
<1>4. UNCHANGED <<redis, chan, daemon, raced, late>> /\ calls' \in 0 .. MaxCalls
  BY CallOK DEF OnDisconnect
<1> QED BY <1>1, <1>2, <1>3, <1>4, OwnStep

LEMMA SweepInv ==
  ASSUME Inv, NEW c \in Client, Sweep(c)
  PROVE  Inv'
<1>1. "sweep" \in Proc /\ proc["sweep"].pc = "off"
  BY ProcFacts DEF Sweep, At
<1>2. PICK pc \in {"brake", "remove", "user"} :
        proc' = [proc EXCEPT !["sweep"].pc = pc, !["sweep"].c = c]
  BY DEF Sweep
<1>3. /\ Moved("sweep") /\ proc'["sweep"].pc = pc /\ proc'["sweep"].c = c
      /\ proc'["sweep"].k = proc["sweep"].k
  <2>1. proc["sweep"] \in State /\ proc \in [Proc -> State]
    BY <1>1 DEF Inv, Types
  <2>2. PICK s \in State : s = [proc["sweep"] EXCEPT !.pc = pc, !.c = c]
    BY <2>1 DEF State, Pcs
  <2>3. proc' = [proc EXCEPT !["sweep"] = s]
    BY <1>1, <1>2, <2>1, <2>2
  <2>4. s.pc = pc /\ s.c = c /\ s.k = proc["sweep"].k
    BY <2>1, <2>2 DEF State
  <2> QED BY <1>1, <2>1, <2>3, <2>4 DEF Moved
<1>4. Holds("sweep", proc'["sweep"])
  BY <1>3 DEF Holds
<1>5. UNCHANGED <<redis, chan, daemon, raced, late>> /\ calls' \in 0 .. MaxCalls
  BY CallOK DEF Sweep
<1> QED BY <1>1, <1>3, <1>4, <1>5, OwnStep

LEMMA BrakeInv ==
  ASSUME Inv, Brake
  PROVE  Inv'
<1>1. "sweep" \in Proc /\ proc["sweep"].pc = "brake" /\ proc["sweep"].c \in Client
  BY ProcFacts DEF Brake, At, Inv, Local, Holds
<1>2. /\ Moved("sweep") /\ proc'["sweep"].pc = "latch"
      /\ proc'["sweep"].c = proc["sweep"].c /\ proc'["sweep"].k = proc["sweep"].k
  BY <1>1, GotoFacts DEF Brake, Pcs
<1>3. Holds("sweep", proc'["sweep"])
  BY <1>1, <1>2 DEF Holds
<1>4. /\ UNCHANGED <<redis, chan, reg, gone, raced>> /\ calls' \in 0 .. MaxCalls
      /\ moving' \subseteq moving /\ late \subseteq late'
      /\ late' \subseteq late \cup {proc["sweep"].c}
      /\ proc["sweep"].c \notin moving' \/ proc["sweep"].c \in late'
  BY CallOK DEF Brake
<1>5. \A d \in Client : Driving(d)' <=> Driving(d)
  BY <1>2, ProcFacts DEF Driving, Moved
<1>6. Brakes'
  BY <1>2, <1>4, <1>5 DEF Inv, Brakes, BrakedStands, At
<1>7. /\ chan' \subseteq [c : Client, unpair : BOOLEAN] /\ reg' \in Registry
      /\ gone' \subseteq Client /\ moving' \subseteq Client /\ late' \subseteq Client
  BY <1>1, <1>4 DEF Inv, Types, TypeOK, Registry
<1> QED BY <1>1, <1>2, <1>3, <1>4, <1>6, <1>7, DaemonStep DEF Registry

LEMMA LatchInv ==
  ASSUME Inv, Latch
  PROVE  Inv'
<1>1. "sweep" \in Proc /\ proc["sweep"].pc = "latch"
  BY ProcFacts DEF Latch, At
<1>2. PICK c \in Client : c = proc["sweep"].c
  BY <1>1 DEF Inv, Local, Holds
<1>3. /\ Moved("sweep") /\ proc'["sweep"].pc = "off" /\ proc'["sweep"].k = None
      /\ Holds("sweep", proc'["sweep"])
  BY <1>1, EndFacts DEF Latch
<1>4. /\ UNCHANGED <<redis, chan, gone, moving, raced>> /\ calls' \in 0 .. MaxCalls
      /\ late \subseteq late' /\ late' \subseteq late \cup {c}
      /\ Driving(c) => c \in late'
  BY <1>2, CallOK DEF Latch
<1>5. reg' \in Registry /\ \A d \in Client \ {c} : reg'[d] = reg[d]
  <2>1. reg \in Registry
    BY DEF Inv, Types, TypeOK, Registry
  <2>2. reg' = IF reg[c] = None THEN reg ELSE [reg EXCEPT ![c].braked = TRUE]
    BY <1>2 DEF Latch
  <2>3. CASE reg[c] = None
    BY <2>1, <2>2, <2>3
  <2>4. CASE reg[c] # None
    <3>1. reg[c] \in [session : User \cup {None}, braked : BOOLEAN]
      BY <2>1, <2>4 DEF Registry
    <3>2. [reg[c] EXCEPT !.braked = TRUE] \in [session : User \cup {None}, braked : BOOLEAN]
      BY <3>1
    <3>3. reg' = [reg EXCEPT ![c] = [reg[c] EXCEPT !.braked = TRUE]]
      BY <2>2, <2>4
    <3> QED BY <2>1, <3>2, <3>3 DEF Registry
  <2> QED BY <2>3, <2>4
<1>6. \A d \in Client : Driving(d)' <=> Driving(d)
  BY <1>3, ProcFacts DEF Driving, Moved
<1>7. c \notin late => c \notin moving
  BY <1>1, <1>2 DEF Inv, Brakes, At
<1>8. BrakedStands'
  BY <1>4, <1>5, <1>6, <1>7 DEF Inv, Brakes, BrakedStands
<1>9. \A d \in Client \ late' : Driving(d)' /\ reg'[d] # None => ~reg'[d].braked
  BY <1>4, <1>5, <1>6 DEF Inv, Brakes
<1>10. Brakes'
  BY <1>3, <1>8, <1>9 DEF Brakes, At
<1>11. /\ chan' \subseteq [c : Client, unpair : BOOLEAN]
       /\ gone' \subseteq Client /\ moving' \subseteq Client /\ late' \subseteq Client
  BY <1>4 DEF Inv, Types, TypeOK, Registry
<1> QED BY <1>1, <1>3, <1>4, <1>5, <1>10, <1>11, DaemonStep DEF Registry

-----------------------------------------------------------------------------
(***************************************************************************)
(* Time, power and restarts.                                               *)
(***************************************************************************)
LEMMA FallsSilentInv ==
  ASSUME Inv, NEW c \in Client, FallsSilent(c)
  PROVE  Inv'
<1>1. /\ UNCHANGED <<redis, chan, reg, moving, proc, raced, late>> /\ calls' \in 0 .. MaxCalls
      /\ gone' = gone \cup {c}
  BY CallOK DEF FallsSilent
<1> QED BY <1>1 DEF Inv, Types, TypeOK, Local, Holds, Codes, CodeReserved, Brakes, BrakedStands,
                    Driving, Index, At, redis

LEMMA CodeTimeInv ==
  ASSUME Inv, DedupExpires \/ \E k \in Code : PendingExpires(k)
  PROVE  Inv'
<1>1. /\ UNCHANGED <<act, byUser, chan, daemon, proc, late>> /\ calls' \in 0 .. MaxCalls
  BY CallOK DEF DedupExpires, PendingExpires
<1>2. /\ pend' \in [Code -> User \cup {None}] /\ byReq' \in [User -> Code \cup {None}]
      /\ dedup' \subseteq Code
      /\ \A k \in Code : pend'[k] \in {None, pend[k]}
      /\ dedup' # dedup => \A k \in Code : pend'[k] = None
  BY DEF DedupExpires, PendingExpires, Inv, Types, TypeOK
<1>3. /\ raced \subseteq raced' /\ raced' \subseteq raced \cup Code
      /\ dedup' # dedup => \A p \in Rest : At(p, "store") => proc[p].k \in raced'
  <2>1. \A p \in Rest : At(p, "store") => proc[p].k \in Code
    BY ProcFacts DEF At, Inv, Local, Holds
  <2> QED BY <2>1 DEF DedupExpires, PendingExpires
<1>4. Types'
  BY <1>1, <1>2, <1>3 DEF Inv, Types, TypeOK, daemon
<1>5. Local' /\ Brakes'
  BY <1>1 DEF Inv, Local, Holds, Brakes, BrakedStands, Driving, At, daemon
<1>6. Index'
  BY <1>1, <1>3 DEF Inv, Index
<1>7. CodeReserved'
  BY <1>2, <1>3 DEF Inv, Codes, CodeReserved
<1>8. ASSUME NEW p \in Proc, At(p, "store")', proc'[p].k \notin raced'
      PROVE  /\ proc'[p].k \in dedup' /\ pend'[proc'[p].k] = None
             /\ \A q \in Proc \ {p} : proc'[q].k # proc'[p].k
  <2>1. At(p, "store") /\ p \in Rest /\ proc[p].k \in Code /\ proc[p].k \notin raced
    BY <1>1, <1>3, <1>8 DEF At, Inv, Local, Holds
  <2>2. dedup' = dedup
    BY <1>1, <1>3, <1>8, <2>1
  <2> QED BY <1>1, <1>2, <2>1, <2>2 DEF Inv, Codes
<1> QED BY <1>4, <1>5, <1>6, <1>7, <1>8 DEF Inv, Codes

LEMMA IndexTimeInv ==
  ASSUME Inv, NEW c \in Client, TouchSeen(c) \/ SessionExpires(c)
  PROVE  Inv'
<1>1. /\ UNCHANGED <<pend, byReq, dedup, chan, daemon, proc, raced, late>>
      /\ calls' \in 0 .. MaxCalls
  BY CallOK DEF TouchSeen, SessionExpires
<1>2. /\ act' \in [Client -> User \cup {None}] /\ byUser' \in [User -> Client \cup {None}]
      /\ Index'
  <2>1. CASE TouchSeen(c)
    <3>1. PICK u \in User : act[c] = u /\ act' = act /\ byUser' = [byUser EXCEPT ![u] = c]
      BY <2>1 DEF TouchSeen, Inv, Types, TypeOK
    <3>2. \A d \in Client : act[d] = u /\ u \notin raced => d = c
      BY <3>1, HandsetsAssumption DEF Inv, Index
    <3> QED BY <1>1, <3>1, <3>2 DEF Inv, Types, TypeOK, Index
  <2>2. CASE SessionExpires(c)
    <3>1. /\ act' = [act EXCEPT ![c] = None]
          /\ byUser' = [u \in User |-> IF byUser[u] = c THEN None ELSE byUser[u]]
      BY <2>2 DEF SessionExpires
    <3> QED BY <1>1, <3>1 DEF Inv, Types, TypeOK, Index
  <2> QED BY <2>1, <2>2
<1>3. Types'
  BY <1>1, <1>2 DEF Inv, Types, TypeOK, daemon
<1>4. Local' /\ Codes' /\ Brakes'
  BY <1>1 DEF Inv, Local, Holds, Codes, CodeReserved, Brakes, BrakedStands, Driving, At, daemon
<1> QED BY <1>2, <1>3, <1>4 DEF Inv

LEMMA RestartInv ==
  ASSUME Inv, Restart
  PROVE  Inv'
<1>1. /\ UNCHANGED <<redis, gone, raced>> /\ calls' \in 0 .. MaxCalls
      /\ reg' = [c \in Client |-> None] /\ moving' \subseteq moving /\ chan' = {}
      /\ late' = moving'
  BY CallOK DEF Restart
<1>2. /\ proc' \in [Proc -> State]
      /\ \A p \in Proc : proc'[p] = proc[p] \/ proc'[p] = Off
  BY OffOK DEF Restart, Inv, Types
<1>3. Types'
  BY <1>1, <1>2 DEF Inv, Types, TypeOK, redis, State, Pcs
<1>4. Local' /\ Index'
  BY <1>1, <1>2, OffOK DEF Inv, Local, Holds, Index, redis
<1>5. Codes'
  <2>1. CodeReserved'
    BY <1>1 DEF Inv, Codes, CodeReserved, redis
  <2>2. ASSUME NEW p \in Proc, At(p, "store")', proc'[p].k \notin raced'
        PROVE  /\ proc'[p].k \in dedup' /\ pend'[proc'[p].k] = None
               /\ \A q \in Proc \ {p} : proc'[q].k # proc'[p].k
    <3>1. proc'[p] = proc[p] /\ At(p, "store") /\ proc[p].k \notin raced
      BY <1>1, <1>2, <2>2 DEF At, Off
    <3>2. proc[p].k \in Code /\ proc[p].k # None
      BY <3>1, HandsetsAssumption DEF Inv, Local, Holds, At
    <3> QED BY <1>1, <1>2, <3>1, <3>2 DEF Inv, Codes, Off, redis
  <2> QED BY <2>1, <2>2 DEF Codes
<1>6. Brakes'
  <2>1. ~At("sweep", "latch")'
    BY ProcFacts DEF Restart, At, Off
  <2> QED BY <1>1, <2>1 DEF Brakes, BrakedStands
<1> QED BY <1>3, <1>4, <1>5, <1>6 DEF Inv

-----------------------------------------------------------------------------
(***************************************************************************)
(* The theorems.                                                           *)
(***************************************************************************)
LEMMA InitInv == Init => Inv
<1> SUFFICES ASSUME Init PROVE Inv
  OBVIOUS
<1>1. PICK c \in Client, k \in Code, u, v \in User \cup {None} :
        /\ None \in {u, v}
        /\ act = [d \in Client |-> IF d = c THEN u ELSE None]
        /\ byUser = [w \in User |-> IF w = u THEN c ELSE None]
        /\ pend = [l \in Code |-> IF l = k THEN v ELSE None]
        /\ byReq = [w \in User |-> IF w = v THEN k ELSE None]
        /\ dedup = IF v = None THEN {} ELSE {k}
  BY Zenon DEF Init
<1>2. proc = [p \in Proc |-> Off] /\ proc \in [Proc -> State]
  BY OffOK DEF Init
<1>3. \A p \in Proc : proc[p].pc = "off" /\ Holds(p, proc[p]) /\ proc[p] \in State
  BY <1>2, OffOK DEF Off
<1>4. Types
  <2>1. /\ act \in [Client -> User \cup {None}] /\ byUser \in [User -> Client \cup {None}]
        /\ pend \in [Code -> User \cup {None}] /\ byReq \in [User -> Code \cup {None}]
        /\ dedup \subseteq Code
    BY <1>1
  <2>2. calls \in 0 .. MaxCalls
    BY HandsetsAssumption DEF Init
  <2> QED BY <1>2, <1>3, <2>1, <2>2 DEF Init, Types, TypeOK, State, Pcs
<1>5. Codes
  BY <1>1, <1>3 DEF Codes, CodeReserved, At
<1>6. Index
  BY <1>1 DEF Index
<1>7. Brakes
  BY <1>3, ProcFacts DEF Init, Brakes, BrakedStands, At
<1> QED BY <1>3, <1>4, <1>5, <1>6, <1>7 DEF Inv, Local

LEMMA NextInv == Inv /\ [Next]_vars => Inv'
<1> SUFFICES ASSUME Inv, [Next]_vars PROVE Inv'
  OBVIOUS
<1>1. CASE Server
  <2>1. PICK p \in Rest :
          \/ \E u \in User : \/ StartPairing(p, u) \/ CancelPairing(p, u) \/ GetStatus(p, u)
                             \/ UpdateSession(p, u) \/ Unpair(p, u)
          \/ Resolve(p) \/ Unlist(p) \/ GetPendingByUser(p) \/ ClearUserPending(p) \/ Draw(p)
          \/ NoCodeLeft(p) \/ StorePending(p) \/ UpdateSessionScope(p) \/ PublishSessionSync(p)
    BY <1>1 DEF Server
  <2>2. ASSUME NEW u \in User,
               \/ StartPairing(p, u) \/ CancelPairing(p, u) \/ GetStatus(p, u)
               \/ UpdateSession(p, u) \/ Unpair(p, u)
        PROVE  Inv'
    <3>1. PICK op \in {"create", "cancel", "status", "scope", "unpair"} : Request(p, u, op)
      BY <2>2 DEF StartPairing, CancelPairing, GetStatus, UpdateSession, Unpair
    <3> QED BY <3>1, RequestInv
  <2> QED BY <2>1, <2>2, ResolveInv, UnlistInv, GetPendingInv, ClearUserPendingInv, DrawInv,
             StorePendingInv, ServerRestInv
<1>2. ASSUME NEW p \in Proc, Unpairing(p) PROVE Inv'
  BY <1>2, UnpairGetInv, UnpairScriptInv, DropPresenceInv DEF Unpairing
<1>3. ASSUME NEW c \in Client,
             \/ PacketReads(c) \/ PacketKnown(c) \/ Step(c) \/ OnDisconnect(c)
             \/ Sweep(c) \/ FallsSilent(c) \/ TouchSeen(c) \/ SessionExpires(c)
      PROVE  Inv'
  BY <1>3, PacketReadsInv, PacketKnownInv, SessionSetInv, DriveInv, CompletePairingInv,
     OnDisconnectInv, SweepInv, FallsSilentInv, IndexTimeInv DEF Step
<1>4. ASSUME NEW m \in chan, HandleSyncMessage(m) PROVE Inv'
  BY <1>4, HandleSyncInv
<1>5. CASE Brake \/ Latch \/ DedupExpires \/ Restart \/ \E k \in Code : PendingExpires(k)
  BY <1>5, BrakeInv, LatchInv, CodeTimeInv, RestartInv
<1>6. CASE UNCHANGED vars
  BY <1>6 DEF vars, redis, daemon, Inv, Types, TypeOK, Local, Holds, Codes, CodeReserved, Brakes,
              BrakedStands, Driving, Index, At
<1> QED BY <1>1, <1>2, <1>3, <1>4, <1>5, <1>6 DEF Next

\* The inductive invariant holds in every reachable state.
THEOREM InvHolds == Spec => []Inv
BY InitInv, NextInv, PTL DEF Spec

\* Codes and presence are sound for any number of handsets, users and
\* goroutines: a code that may be typed is reserved, and a handset the sweep
\* has braked stands (CreateZ21PairingRequest, clearUserPending, sweep).
THEOREM PresenceStaysSound == Spec => []PresenceSound
<1>1. Inv => PresenceSound
  BY DEF Inv, Types, Codes, Brakes, PresenceSound
<1> QED BY <1>1, InvHolds, PTL

-----------------------------------------------------------------------------
(***************************************************************************)
(* The refinement: every step of the store is a step of Pilots or none.    *)
(***************************************************************************)

\* No step but a pairing gives a handset a user; a raced user's never counts
\* again.
LEMMA EndsOnly ==
  ASSUME \A c \in Client : Pilot'[c] \in {None, Pilot[c]}
  PROVE  P!Next
<1> DEFINE cs == {c \in Client : Pilot'[c] = None}
<1>1. Pilot' = [d \in Client |-> IF d \in cs THEN None ELSE Pilot[d]]
  BY DEF Pilot
<1> QED BY <1>1 DEF P!Next, P!End, Pilot

LEMMA PilotKept ==
  ASSUME \A c \in Client : act'[c] \in {None, act[c]}, raced \subseteq raced'
  PROVE  P!Next
<1>1. \A c \in Client : Pilot'[c] \in {None, Pilot[c]}
  BY DEF Pilot
<1> QED BY <1>1, EndsOnly

LEMMA PilotPairs ==
  ASSUME Inv, NEW c \in Client, CompletePairing(c), pend[proc[c].k] # None
  PROVE  P!Next
<1>1. PICK u \in User, e \in Client \cup {None} :
        /\ u = proc[c].u
        /\ \A d \in Client : act'[d] = IF d = c THEN u ELSE IF d = e THEN None ELSE act[d]
        /\ act' \in [Client -> User \cup {None}]
        /\ e = byUser[u]
        /\ byUser' = [byUser EXCEPT ![u] = c]
  BY CompleteFacts
<1>2. raced' = raced
  BY DEF CompletePairing
<1>3. CASE u \in raced
  <2>1. \A d \in Client : Pilot'[d] \in {None, Pilot[d]}
    BY <1>1, <1>2, <1>3 DEF Pilot
  <2> QED BY <2>1, EndsOnly
<1>4. CASE u \notin raced
  <2>1. \A d \in Client : d # c /\ act[d] = u => d = e
    BY <1>1, <1>4, HandsetsAssumption DEF Inv, Index
  <2>2. u # None
    BY HandsetsAssumption
  <2>3. PICK cs \in SUBSET Client : cs = {e} \cap Client
    OBVIOUS
  <2>4. Pilot' = [d \in Client |-> IF d = c THEN u
                                   ELSE IF d \in cs \/ Pilot[d] = u THEN None ELSE Pilot[d]]
    BY <1>1, <1>2, <1>4, <2>1, <2>2, <2>3 DEF Pilot
  <2> QED BY <2>4, ZenonT(60) DEF P!Next, P!Pair, Pilot
<1> QED BY <1>3, <1>4

LEMMA PilotInit == Init => P!Init
<1> SUFFICES ASSUME Init PROVE P!Init
  OBVIOUS
<1>1. Inv
  BY InitInv
<1>2. Pilot \in [Client -> User \cup {None}]
  BY <1>1 DEF Pilot, Inv, Types, TypeOK
<1>3. \A c, d \in Client : c # d /\ Pilot[c] # None => Pilot[c] # Pilot[d]
  BY <1>1 DEF Pilot, Inv, Index
<1> QED BY <1>2, <1>3 DEF P!Init, P!OneEach, Pilot

LEMMA PilotNext == Inv /\ [Next]_vars => [P!Next]_Pilot
<1> SUFFICES ASSUME Inv, [Next]_vars PROVE P!Next \/ UNCHANGED Pilot
  OBVIOUS
<1>1. ASSUME \A c \in Client : act'[c] \in {None, act[c]}, raced \subseteq raced' PROVE P!Next
  BY <1>1, PilotKept
<1>2. ASSUME UNCHANGED <<act, raced>> PROVE UNCHANGED Pilot
  BY <1>2 DEF Pilot
<1>3. CASE Server
  <2>1. PICK p \in Rest :
          \/ \E u \in User : \/ StartPairing(p, u) \/ CancelPairing(p, u) \/ GetStatus(p, u)
                             \/ UpdateSession(p, u) \/ Unpair(p, u)
          \/ Resolve(p) \/ Unlist(p) \/ GetPendingByUser(p) \/ ClearUserPending(p) \/ Draw(p)
          \/ NoCodeLeft(p) \/ StorePending(p) \/ UpdateSessionScope(p) \/ PublishSessionSync(p)
    BY <1>3 DEF Server
  <2>2. act' = act /\ raced \subseteq raced'
    BY <2>1 DEF StartPairing, CancelPairing, GetStatus, UpdateSession, Unpair, Request, Resolve,
                Unlist, GetPendingByUser, ClearUserPending, Draw, NoCodeLeft, StorePending,
                UpdateSessionScope, PublishSessionSync, redis
  <2> QED BY <1>1, <2>2
<1>4. ASSUME NEW p \in Proc, Unpairing(p) PROVE P!Next
  <2>1. raced' = raced
    BY <1>4 DEF Unpairing, UnpairGet, UnpairScript, DropPresence, redis
  <2>2. \A c \in Client : act'[c] \in {None, act[c]}
    BY <1>4 DEF Unpairing, UnpairGet, UnpairScript, DropPresence, redis, Inv, Types, TypeOK
  <2> QED BY <1>1, <2>1, <2>2
<1>5. ASSUME NEW c \in Client, CompletePairing(c) PROVE P!Next
  <2>1. CASE pend[proc[c].k] = None
    BY <1>1, <1>5, <2>1 DEF CompletePairing, redis
  <2>2. CASE pend[proc[c].k] # None
    BY <1>5, <2>2, PilotPairs
  <2> QED BY <2>1, <2>2
<1>6. ASSUME NEW c \in Client,
             \/ PacketReads(c) \/ PacketKnown(c) \/ SyncSet(c) \/ Drive(c) \/ SetPaired(c)
             \/ OnDisconnect(c) \/ Sweep(c) \/ FallsSilent(c) \/ TouchSeen(c)
      PROVE  UNCHANGED Pilot
  BY <1>2, <1>6 DEF PacketReads, PacketKnown, SyncSet, Drive, SetPaired, OnDisconnect, Sweep,
                    FallsSilent, TouchSeen, redis
<1>7. ASSUME NEW c \in Client, SessionExpires(c) PROVE P!Next
  <2>1. raced' = raced /\ \A d \in Client : act'[d] \in {None, act[d]}
    BY <1>7 DEF SessionExpires, Inv, Types, TypeOK
  <2> QED BY <1>1, <2>1
<1>8. ASSUME NEW m \in chan, HandleSyncMessage(m) PROVE UNCHANGED Pilot
  BY <1>2, <1>8 DEF HandleSyncMessage, redis
<1>9. CASE Brake \/ Latch \/ Restart \/ \E k \in Code : PendingExpires(k)
  BY <1>2, <1>9 DEF Brake, Latch, Restart, PendingExpires, redis
<1>11. CASE DedupExpires
  BY <1>1, <1>11 DEF DedupExpires
<1>10. CASE UNCHANGED vars
  BY <1>2, <1>10 DEF vars, redis
<1> QED BY <1>3, <1>4, <1>5, <1>6, <1>7, <1>8, <1>9, <1>10, <1>11 DEF Next, Step

\* The pairing store implements Pilots for any number of handsets, users and
\* goroutines: apart from the users whose index entry was deleted under a new
\* session, nobody ever has two handsets, a pairing replaces the one before in
\* the same step, and nothing else gives a handset a user.
THEOREM StoreImplementsPilots == Spec => OnePilot
<1> QED BY PilotInit, PilotNext, InvHolds, PTL DEF Spec, OnePilot, P!Spec, Pilot

-----------------------------------------------------------------------------
(* The gateways. *)

\* What the clients know: the last known speed, the last state shown.
Lastly(c, t, a) == wire[c][t].lastSpeed[a]
DeafW(c, t, a) == <<<<c, t>>, a>> \in unheard
DeafZ(c, a) == <<c, a>> \in unheard

\* All speeds there are.
Speeds == 0 .. 128

Sent(p) == UISpeed(ClampSpeedForControllerLimit(p, job[p].a, job[p].v))

Fits(c, t, a) ==
  Lastly(c, t, a) # None =>
    state[a].speed \in {UISpeed(Lastly(c, t, a)),
                        UISpeed(ClampSpeedForControllerLimit(c, a, Lastly(c, t, a)))}
FitsZ(c, a) == shown[c][a] # None => shown[c][a] = buildLocoInfoReply(state[a])

Records == [session : Scopes \cup {None}, fifo : Seq(Addr), last : Addr \cup {None}]
Infos == [db3 : 0 .. 127, fwd : BOOLEAN]
Wires == [locos : SUBSET Addr, forward : BOOLEAN, lastSpeed : [Addr -> Speeds \cup {None}]]
States == [speed : Speeds \ {1}, fwd : BOOLEAN]

GatewayTypes ==
  /\ inbound \in [Remote -> Records \cup {None}]
  /\ subs \in [Addr -> SUBSET Remote] /\ flag \subseteq Z
  /\ wire \in [W -> [Tid -> Wires]]
  /\ state \in [Addr -> States]
  /\ shown \in [Z -> [Addr -> Infos \cup {None}]]
  /\ radio \in BOOLEAN /\ inputs \in 0 .. MaxCalls
  /\ unheard \subseteq Port \X Addr

\* The jobs of each kind of goroutine.
WOps == {"acquire", "V", "R", "I", "F", "X"}
ZOps == {"drive", "F", "X", "stop"}
Jobs == [pc : {"idle", "store", "notify", "done", "failed", "estop", "subscribe"},
         op : WOps \cup ZOps \cup {"web", None}, a : Addr \cup {None}, t : Tid \cup {None},
         v : Speeds, fwd : BOOLEAN, snap : States \cup {None}, alone : BOOLEAN]

\* A goroutine's own business: what its job looks like; a WiThrottle client with
\* company on its loco hears of nothing; one that is alone knows the loco's state;
\* a direction key sends the last known speed.
Shaped(p) ==
  /\ job[p].a = None <=> job[p].pc = "idle"
  /\ job[p].pc = "idle" => job[p] = Idle
  /\ job[p].pc # "idle" /\ p \in W => job[p].op \in WOps /\ job[p].t \in Tid
  /\ job[p].pc # "idle" /\ p \in Z => job[p].op \in ZOps
  /\ job[p].pc = "notify" => job[p].snap \in States
  /\ job[p].pc \in {"store", "notify"} => job[p].op \notin {"X", "stop", "acquire"}
  /\ job[p].pc = "estop" => job[p].op \in {"X", "stop", "drive"}

InCompany(p) ==
  p \in W /\ job[p].a # None /\ ~job[p].alone => DeafW(p, job[p].t, job[p].a)

Knows(p) ==
  job[p].alone =>
    /\ job[p].pc = "notify" => job[p].snap = state[job[p].a]
    /\ job[p].pc \in {"notify", "done"} /\ job[p].op \in {"V", "I", "R"} =>
         state[job[p].a].speed = Sent(p)

Turns(p) ==
  p \in W /\ job[p].op = "R" /\ job[p].alone /\ job[p].pc \in {"store", "notify"} =>
    /\ Lastly(p, job[p].t, job[p].a) \in {None, job[p].v}
    /\ job[p].pc = "store" /\ Lastly(p, job[p].t, job[p].a) # job[p].v =>
         job[p].v = 0 \/ DeafW(p, job[p].t, job[p].a)

Own(p) == Shaped(p) /\ InCompany(p) /\ Knows(p) /\ Turns(p)

\* Whoever is alone is.
Alone == \A p, q \in Worker : job[p].alone /\ job[p].a # None /\ p # q => job[q].a # job[p].a

\* The fan-out of a change of the loco is still to come.
Telling(a) == \E p \in Worker : job[p].a = a /\ job[p].pc = "notify" /\ job[p].op # "F"
\* The handler will note the speed it has sent.
Noting(c, t, a) ==
  /\ job[c].a = a /\ job[c].t = t /\ job[c].alone
  /\ job[c].pc \in {"notify", "done"} /\ job[c].op \in {"V", "I"}

ToldOf(a) ==
  /\ \A c \in W, t \in Tid :
       ~DeafW(c, t, a) => Fits(c, t, a) \/ Telling(a) \/ Noting(c, t, a)
  /\ \A c \in Z : ~DeafZ(c, a) => FitsZ(c, a) \/ Telling(a)

Core ==
  /\ job \in [Worker -> Jobs] /\ Alone
  /\ \A p \in Worker : Own(p)
  /\ \A a \in Addr : ToldOf(a)

\* The index and the FIFOs.
Listed ==
  /\ \A a \in Addr, c \in Remote : c \in subs[a] <=> Known(c) /\ a \in ToSet(inbound[c].fifo)
  /\ \A c \in Remote : Known(c) =>
       /\ Len(inbound[c].fifo) <= FifoMax
       /\ \A i, j \in 1 .. Len(inbound[c].fifo) : inbound[c].fifo[i] = inbound[c].fifo[j] => i = j

ThrottlesInv == GatewayTypes /\ Core /\ Listed
-----------------------------------------------------------------------------
(* Encodings. *)

\* A speed stays one when it is cut down or shown, and only 0 stands for 0.
LEMMA ClampRange ==
  ASSUME NEW p \in Worker, NEW a \in Addr, NEW v \in Speeds
  PROVE  /\ ClampSpeedForControllerLimit(p, a, v) \in Speeds
         /\ UISpeed(v) \in Speeds \ {1}
         /\ UISpeed(ClampSpeedForControllerLimit(p, a, v)) \in Speeds \ {1}
         /\ v = 0 => UISpeed(ClampSpeedForControllerLimit(p, a, v)) = 0
         /\ UISpeed(v) = 0 => v = 0
<1>0. Cap \in [W \cup Z \cup {Web} -> [Addr -> 2 .. 128]]
  BY ThrottlesAssumption
<1>1. Cap[p][a] \in 2 .. 128
  BY <1>0 DEF Worker, Remote
<1> QED BY <1>1 DEF ClampSpeedForControllerLimit, Lesser, Speeds, UISpeed

LEMMA UISpeedKeeps ==
  ASSUME NEW v \in Speeds \ {1}
  PROVE  UISpeed(v) = v
BY DEF UISpeed

LEMMA DecodeRange ==
  ASSUME NEW n \in Formats, NEW b \in Bytes
  PROVE  decodeDriveDB3(n, b) \in Speeds
<1>1. b \in 0 .. 127
  BY ThrottlesAssumption
<1>2. CASE n = 14
  <2>1. b % 16 \in 0 .. 15
    BY <1>1
  <2> QED BY <1>2, <2>1 DEF decodeDriveDB3, Speeds
<1>3. CASE n = 28
  <2>1. ((b % 16) * 2) + ((b \div 16) % 2) \in 0 .. 31
    <3>1. b % 16 \in 0 .. 15 /\ b \div 16 \in 0 .. 7
      BY <1>1
    <3>2. (b \div 16) % 2 \in 0 .. 1
      BY <3>1
    <3> QED BY <3>1, <3>2
  <2> QED BY <1>3, <2>1 DEF decodeDriveDB3, Decoded28, Speeds
<1>4. CASE n = 128
  BY <1>1, <1>4 DEF decodeDriveDB3, Speeds
<1> QED BY <1>2, <1>3, <1>4 DEF Formats

\* What a Z21 client shows is the loco's speed, never an emergency stop, if the
\* station's steps have room for it.
LEMMA RoundTrip ==
  ASSUME NEW s \in Speeds \ {1}
  PROVE  /\ encodeDriveDB3(s) \in 0 .. 127
         /\ (Steps = 14 => s <= 15) =>
              /\ decodeDriveDB3(Steps, encodeDriveDB3(s)) = Lesser(s, MaxShown)
              /\ ~isDriveDB3EStop(Steps, encodeDriveDB3(s))
<1>1. CASE s = 0
  <2>1. encodeDriveDB3(s) = 0
    BY <1>1 DEF encodeDriveDB3
  <2>2. 0 % 16 = 0 /\ 0 \div 16 = 0 /\ 0 % 2 = 0
    OBVIOUS
  <2>3. decodeDriveDB3(Steps, 0) = 0
    BY <2>2, ThrottlesAssumption DEF decodeDriveDB3, Decoded28
  <2>4. Lesser(s, MaxShown) = 0
    BY <1>1, ThrottlesAssumption DEF Lesser, MaxShown
  <2>5. ~isDriveDB3EStop(Steps, 0)
    BY <2>2 DEF isDriveDB3EStop
  <2> QED BY <2>1, <2>3, <2>4, <2>5
<1>2. CASE s > 1 /\ Steps = 14
  <2>1. encodeDriveDB3(s) = s % 16 /\ s % 16 \in 0 .. 15
    BY <1>2 DEF encodeDriveDB3, Speeds
  <2>2. s <= 15 => s \in 2 .. 15 /\ s % 16 = s
    BY <1>2 DEF Speeds
  <2>3. s <= 15 => encodeDriveDB3(s) = s /\ decodeDriveDB3(Steps, s) = s /\ ~isDriveDB3EStop(Steps, s)
    BY <1>2, <2>1, <2>2 DEF decodeDriveDB3, isDriveDB3EStop
  <2>4. s <= 15 => Lesser(s, MaxShown) = s
    BY <1>2, <2>2 DEF Lesser, MaxShown
  <2> QED BY <1>2, <2>1, <2>3, <2>4
<1>3. CASE s > 1 /\ Steps = 28
  <2> DEFINE x == Lesser(s, 28) + 3
             b == ((x % 2) * 16) + ((x \div 2) % 16)
  <2>1. x \in 5 .. 31
    BY <1>3 DEF Lesser, Speeds
  <2>2. encodeDriveDB3(s) = b
    BY <1>3 DEF encodeDriveDB3
  <2>3. x - 3 = Lesser(s, 28)
    BY DEF Lesser, Speeds
  <2> HIDE DEF x
  <2>4. x % 2 \in 0 .. 1 /\ x \div 2 \in 2 .. 15 /\ x = 2 * (x \div 2) + (x % 2)
    BY <2>1
  <2>5. (x \div 2) % 16 = x \div 2
    BY <2>4
  <2>6. b \in 0 .. 127 /\ b % 16 = x \div 2 /\ b \div 16 = x % 2
    BY <2>4, <2>5
  <2>7. (x % 2) % 2 = x % 2
    BY <2>4
  <2> HIDE DEF b
  <2>8. decodeDriveDB3(Steps, b) = x - 3
    BY <1>3, <2>1, <2>4, <2>6, <2>7 DEF decodeDriveDB3, Decoded28
  <2>9. ~isDriveDB3EStop(Steps, b)
    <3>1. b % 16 # 1
      BY <2>1, <2>4, <2>6
    <3> QED BY <1>3, <3>1 DEF isDriveDB3EStop
  <2> QED BY <1>3, <2>2, <2>3, <2>6, <2>8, <2>9 DEF MaxShown
<1>4. CASE s > 1 /\ Steps = 128
  <2>1. encodeDriveDB3(s) = Lesser(s, 127)
    BY <1>4 DEF encodeDriveDB3, Speeds
  <2> QED BY <1>4, <2>1 DEF decodeDriveDB3, isDriveDB3EStop, Lesser, MaxShown, Speeds
<1>5. s = 0 \/ s > 1
  BY DEF Speeds
<1>6. Steps = 14 \/ Steps = 28 \/ Steps = 128
  BY ThrottlesAssumption
<1> QED BY <1>1, <1>2, <1>3, <1>4, <1>5, <1>6, Zenon

LEMMA InfoType ==
  ASSUME NEW s \in States
  PROVE  buildLocoInfoReply(s) \in Infos
BY RoundTrip DEF States, Infos, buildLocoInfoReply
-----------------------------------------------------------------------------
(* The FIFOs. *)

Once(f) == \A i, j \in 1 .. Len(f) : f[i] = f[j] => i = j

\* subscribeLocoLocked keeps a FIFO in bounds and free of doubles.
LEMMA SubscribedSound ==
  ASSUME NEW f \in Seq(Addr), Once(f), Len(f) <= FifoMax, NEW a \in Addr
  PROVE  LET g == Subscribed(f, a) IN
         /\ g \in Seq(Addr) /\ Once(g) /\ Len(g) <= FifoMax
         /\ a \in ToSet(g) /\ ToSet(g) \subseteq ToSet(f) \cup {a}
<1>f. FifoMax \in Nat \ {0}
  BY ThrottlesAssumption
<1>1. CASE a \in ToSet(f)
  BY <1>1 DEF Subscribed
<1>2. CASE a \notin ToSet(f)
  <2> DEFINE h == Append(f, a)
  <2>1. h \in Seq(Addr) /\ Len(h) = Len(f) + 1 /\ h[Len(h)] = a /\ \A i \in 1 .. Len(f) : h[i] = f[i]
    OBVIOUS
  <2>2. \A i \in 1 .. Len(f) : f[i] # a
    BY <1>2 DEF ToSet
  <2>3. Once(h)
    BY <2>1, <2>2 DEF Once
  <2>4. ToSet(h) \subseteq ToSet(f) \cup {a}
    BY <2>1 DEF ToSet
  <2> HIDE DEF h
  <2>5. CASE Len(h) <= FifoMax
    <3>1. Subscribed(f, a) = h
      BY <1>2, <1>f, <2>1, <2>5 DEF Subscribed, h
    <3>2. a \in ToSet(h)
      BY <2>1 DEF ToSet
    <3> QED BY <2>1, <2>3, <2>4, <2>5, <3>1, <3>2
  <2>6. CASE Len(h) > FifoMax
    <3> DEFINE g == Tail(h)
    <3>1. Subscribed(f, a) = g
      BY <1>2, <2>6 DEF Subscribed, h
    <3>2. Len(h) > 1 /\ h # <<>>
      BY <1>f, <2>1, <2>6
    <3>3. g \in Seq(Addr) /\ Len(g) = Len(h) - 1 /\ \A i \in 1 .. Len(g) : g[i] = h[i + 1]
      BY <2>1, <3>2
    <3> HIDE DEF g
    <3>4. Once(g)
      <4>1. SUFFICES ASSUME NEW i \in 1 .. Len(g), NEW j \in 1 .. Len(g), g[i] = g[j]
                     PROVE  i = j
        BY DEF Once
      <4>2. Len(h) \in Nat /\ i + 1 \in 1 .. Len(h) /\ j + 1 \in 1 .. Len(h)
        BY <2>1, <3>3
      <4>3. h[i + 1] = h[j + 1]
        BY <3>3, <4>1
      <4>4. i + 1 = j + 1
        BY <2>3, <4>2, <4>3 DEF Once
      <4> QED BY <4>4
    <3>5. a \in ToSet(g)
      <4>1. g[Len(g)] = a /\ Len(g) \in DOMAIN g
        BY <2>1, <3>2, <3>3
      <4> QED BY <4>1 DEF ToSet
    <3>6. ToSet(g) \subseteq ToSet(h)
      <4>1. ASSUME NEW i \in 1 .. Len(g) PROVE g[i] \in ToSet(h)
        <5>1. i + 1 \in 1 .. Len(h) /\ g[i] = h[i + 1]
          BY <2>1, <3>3
        <5> QED BY <2>1, <5>1 DEF ToSet
      <4> QED BY <3>3, <4>1 DEF ToSet
    <3>7. Len(g) <= FifoMax
      BY <1>f, <2>1, <3>3
    <3> QED BY <2>4, <3>1, <3>3, <3>4, <3>5, <3>6, <3>7
  <2> QED BY <1>f, <2>1, <2>5, <2>6
<1> QED BY <1>1, <1>2

\* A set of naturals has a least element.
LEMMA Least ==
  ASSUME NEW S, S \subseteq Nat, S # {}
  PROVE  \E x \in S : \A y \in S : x <= y
<1> DEFINE R == OpToRel(<, Nat)
<1>1. \E x \in S : \A y \in S : ~(<<y, x>> \in R)
  BY NatLessThanWellFounded, WFMin
<1>2. \A x, y \in Nat : y < x => <<y, x>> \in R
  BY Zenon DEF OpToRel
<1> HIDE DEF R
<1>3. PICK x \in S : \A y \in S : ~(<<y, x>> \in R)
  BY <1>1
<1>4. ASSUME NEW y \in S PROVE x <= y
  <2>1. x \in Nat /\ y \in Nat
    OBVIOUS
  <2>2. ~(y < x)
    BY <1>2, <1>3, <2>1
  <2> QED BY <2>1, <2>2
<1> QED BY <1>4

\* What Remaining keeps of the first i locos.
KeptNext(f, S, k, i) ==
  IF i = 0 THEN <<>> ELSE IF f[i] \in S THEN k[i - 1] ELSE Append(k[i - 1], f[i])

LEMMA KeptDefined ==
  ASSUME NEW f \in Seq(Addr), NEW S
  PROVE  \E k : k = [i \in 0 .. Len(f) |-> KeptNext(f, S, k, i)]
<1> DEFINE Kept(k, i) == KeptNext(f, S, k, i)
           Upto(k, m) == k = [i \in 0 .. m |-> Kept(k, i)]
           Bad == {m \in 0 .. Len(f) : ~\E k : Upto(k, m)}
<1>1. SUFFICES ASSUME Bad # {} PROVE FALSE
  <2>1. Len(f) \notin Bad
    BY <1>1
  <2> QED BY <2>1
<1>2. PICK m \in Bad : \A y \in Bad : m <= y
  <2>1. Bad \subseteq Nat
    OBVIOUS
  <2> HIDE DEF Bad
  <2> QED BY <1>1, <2>1, Least
<1>3. m # 0
  <2>1. Upto([i \in 0 .. 0 |-> <<>>], 0)
    BY DEF KeptNext
  <2> QED BY <1>2, <2>1
<1>4. m - 1 \in 0 .. Len(f) /\ m - 1 \notin Bad
  <2>1. m \in 0 .. Len(f)
    BY <1>2
  <2> HIDE DEF Bad
  <2> QED BY <1>2, <1>3, <2>1
<1>5. PICK k : Upto(k, m - 1)
  BY <1>4
<1> DEFINE h == [i \in 0 .. m |-> IF i = m THEN Kept(k, m) ELSE k[i]]
<1>6. ASSUME NEW i \in 0 .. m PROVE h[i] = Kept(h, i)
  <2>1. i # 0 => h[i - 1] = k[i - 1]
    BY <1>4
  <2>2. Kept(h, i) = Kept(k, i)
    BY <2>1 DEF KeptNext
  <2>3. i # m => k[i] = Kept(k, i)
    <3> HIDE DEF Kept
    <3>1. \A j \in 0 .. (m - 1) : k[j] = Kept(k, j)
      BY <1>5
    <3>2. i # m => i \in 0 .. (m - 1)
      BY <1>4
    <3> QED BY <3>1, <3>2
  <2> QED BY <2>2, <2>3
<1>7. h = [i \in 0 .. m |-> Kept(h, i)]
  <2> HIDE DEF Kept
  <2> QED BY <1>6
<1> QED BY <1>2, <1>7

\* UnsubscribeLoco takes out the locos it is given, and nothing else.
LEMMA RemainingSound ==
  ASSUME NEW f \in Seq(Addr), Once(f), NEW S
  PROVE  LET g == Remaining(f, S) IN
         /\ g \in Seq(Addr) /\ Once(g) /\ Len(g) <= Len(f)
         /\ ToSet(g) = ToSet(f) \ S
<1> DEFINE Kept(k, i) == KeptNext(f, S, k, i)
           K == CHOOSE k : k = [i \in 0 .. Len(f) |-> Kept(k, i)]
           Good(m) == /\ K[m] \in Seq(Addr) /\ Once(K[m]) /\ Len(K[m]) <= m
                      /\ ToSet(K[m]) = {f[i] : i \in 1 .. m} \ S
           Bad == {m \in 0 .. Len(f) : ~Good(m)}
<1>1. Remaining(f, S) = K[Len(f)]
  BY DEF Remaining, KeptNext
<1>2. K = [i \in 0 .. Len(f) |-> Kept(K, i)]
  <2>1. \E k : k = [i \in 0 .. Len(f) |-> Kept(k, i)]
    BY KeptDefined
  <2> HIDE DEF Kept
  <2> QED BY <2>1, Zenon
<1>3. \A i \in 0 .. Len(f) : K[i] = Kept(K, i)
  BY <1>2
<1> HIDE DEF K
<1>4. Good(0)
  <2>1. K[0] = <<>>
    BY <1>3 DEF KeptNext
  <2> QED BY <2>1 DEF ToSet, Once
<1>5. ASSUME NEW m \in 1 .. Len(f), Good(m - 1) PROVE Good(m)
  <2> DEFINE k == K[m - 1]
  <2>1. K[m] = IF f[m] \in S THEN k ELSE Append(k, f[m])
    BY <1>3 DEF KeptNext
  <2>2. {f[i] : i \in 1 .. m} = {f[i] : i \in 1 .. (m - 1)} \cup {f[m]}
    OBVIOUS
  <2>3. k \in Seq(Addr) /\ Once(k) /\ Len(k) <= m - 1 /\ ToSet(k) = {f[i] : i \in 1 .. (m - 1)} \ S
    BY <1>5
  <2>4. CASE f[m] \in S
    BY <2>1, <2>2, <2>3, <2>4
  <2>5. CASE f[m] \notin S
    <3> DEFINE h == Append(k, f[m])
    <3> HIDE DEF k
    <3>1. /\ h \in Seq(Addr) /\ Len(h) = Len(k) + 1 /\ h[Len(h)] = f[m]
          /\ \A i \in 1 .. Len(k) : h[i] = k[i]
      BY <2>3
    <3>2. f[m] \notin ToSet(k)
      <4>1. \A i \in 1 .. (m - 1) : f[i] # f[m]
        BY DEF Once
      <4> QED BY <2>3, <4>1
    <3>3. \A i \in 1 .. Len(k) : k[i] # f[m]
      BY <2>3, <3>2 DEF ToSet
    <3>4. Once(h)
      BY <2>3, <3>1, <3>3 DEF Once
    <3>5. ToSet(h) = ToSet(k) \cup {f[m]}
      <4>1. Len(k) \in Nat /\ DOMAIN k = 1 .. Len(k) /\ DOMAIN h = 1 .. Len(h)
        BY <2>3, <3>1
      <4> HIDE DEF h
      <4>2. ToSet(h) \subseteq ToSet(k) \cup {f[m]}
        <5>1. ASSUME NEW i \in 1 .. Len(h) PROVE h[i] \in ToSet(k) \cup {f[m]}
          <6>1. i = Len(h) \/ i \in 1 .. Len(k)
            BY <3>1, <4>1
          <6> QED BY <3>1, <4>1, <6>1 DEF ToSet
        <5> QED BY <4>1, <5>1 DEF ToSet
      <4>3. f[m] \in ToSet(h)
        <5>1. Len(h) \in 1 .. Len(h)
          BY <3>1, <4>1
        <5> QED BY <3>1, <4>1, <5>1 DEF ToSet
      <4>4. ToSet(k) \subseteq ToSet(h)
        <5>1. \A i \in 1 .. Len(k) : i \in 1 .. Len(h)
          BY <3>1, <4>1
        <5> QED BY <3>1, <4>1, <5>1 DEF ToSet
      <4> QED BY <4>2, <4>3, <4>4
    <3>6. K[m] = h
      BY <2>1, <2>5
    <3> HIDE DEF h
    <3> QED BY <2>2, <2>3, <2>5, <3>1, <3>4, <3>5, <3>6
  <2> QED BY <2>4, <2>5
<1>6. Bad = {}
  <2>1. SUFFICES ASSUME Bad # {} PROVE FALSE
    OBVIOUS
  <2>2. Bad \subseteq Nat
    OBVIOUS
  <2> HIDE DEF Bad, Good
  <2>3. PICK m \in Bad : \A y \in Bad : m <= y
    BY <2>1, <2>2, Least
  <2>4. m \in 0 .. Len(f) /\ ~Good(m)
    BY DEF Bad
  <2>5. m # 0
    BY <1>4, <2>4
  <2>6. m - 1 \in 0 .. Len(f) /\ m - 1 \notin Bad
    BY <2>2, <2>3, <2>4, <2>5
  <2>7. Good(m - 1)
    BY <2>6 DEF Bad
  <2> QED BY <1>5, <2>4, <2>5, <2>7
<1>7. Good(Len(f))
  <2>0. Len(f) \in 0 .. Len(f)
    OBVIOUS
  <2>1. Len(f) \in 0 .. Len(f) /\ Len(f) \notin Bad
    <3> HIDE DEF Bad
    <3> QED BY <1>6, <2>0
  <2> HIDE DEF Good
  <2> QED BY <2>1
<1>8. {f[i] : i \in 1 .. Len(f)} = ToSet(f)
  BY DEF ToSet
<1> QED BY <1>1, <1>7, <1>8
-----------------------------------------------------------------------------
(* The registry. *)

Reg ==
  /\ inbound \in [Remote -> Records \cup {None}] /\ subs \in [Addr -> SUBSET Remote]
  /\ Listed

LEMMA RecordKnown == None \notin Records
BY ThrottlesAssumption DEF Records

LEMMA RegSame ==
  ASSUME Reg, UNCHANGED <<inbound, subs>>
  PROVE  Reg'
BY DEF Reg, Listed, Known

\* One client's entry changes, and the index with it.
LEMMA RegEntry ==
  ASSUME Reg, NEW c \in Remote, NEW e \in Records \cup {None},
         inbound' = [inbound EXCEPT ![c] = e], subs' \in [Addr -> SUBSET Remote],
         e # None => Once(e.fifo) /\ Len(e.fifo) <= FifoMax,
         \A a \in Addr, d \in Remote \ {c} : d \in subs'[a] <=> d \in subs[a],
         \A a \in Addr : c \in subs'[a] <=> e # None /\ a \in ToSet(e.fifo)
  PROVE  Reg'
<1>1. inbound' \in [Remote -> Records \cup {None}] /\ inbound'[c] = e
  BY DEF Reg
<1>2. \A d \in Remote \ {c} : inbound'[d] = inbound[d]
  BY DEF Reg
<1>3. ASSUME NEW a \in Addr, NEW d \in Remote
      PROVE  d \in subs'[a] <=> inbound'[d] # None /\ a \in ToSet(inbound'[d].fifo)
  <2>1. CASE d = c
    BY <1>1, <2>1
  <2>2. CASE d # c
    BY <1>2, <2>2 DEF Reg, Listed, Known
  <2> QED BY <2>1, <2>2
<1>4. ASSUME NEW d \in Remote, inbound'[d] # None
      PROVE  /\ Len(inbound'[d].fifo) <= FifoMax
             /\ \A i, j \in 1 .. Len(inbound'[d].fifo) : inbound'[d].fifo[i] = inbound'[d].fifo[j] => i = j
  <2>1. CASE d = c
    BY <1>1, <1>4, <2>1 DEF Once
  <2>2. CASE d # c
    BY <1>2, <1>4, <2>2 DEF Reg, Listed, Known
  <2> QED BY <2>1, <2>2
<1> QED BY <1>1, <1>3, <1>4 DEF Reg, Listed, Known

LEMMA EntryFifo ==
  ASSUME Reg, NEW c \in Remote, Known(c)
  PROVE  /\ inbound[c] \in Records /\ inbound[c].fifo \in Seq(Addr)
         /\ Once(inbound[c].fifo) /\ Len(inbound[c].fifo) <= FifoMax
         /\ \A a \in Addr : c \in subs[a] <=> a \in ToSet(inbound[c].fifo)
<1>1. inbound[c] \in Records
  BY DEF Reg, Known
<1> QED BY <1>1 DEF Reg, Listed, Known, Once, Records

LEMMA RegSubscribe ==
  ASSUME Reg, NEW c \in Remote, Known(c), NEW a \in Addr,
         SubscribeLoco(c, a) \/ SetLastActiveLoco(c, a)
  PROVE  Reg'
<1> DEFINE g == Subscribed(inbound[c].fifo, a)
<1>1. /\ g \in Seq(Addr) /\ Once(g) /\ Len(g) <= FifoMax
      /\ a \in ToSet(g) /\ ToSet(g) \subseteq ToSet(inbound[c].fifo) \cup {a}
  BY EntryFifo, SubscribedSound
<1>2. subs' = [b \in Addr |-> IF b = a THEN subs[b] \cup {c}
                              ELSE IF b \in ToSet(inbound[c].fifo) \ ToSet(g)
                                   THEN subs[b] \ {c} ELSE subs[b]]
  BY DEF SubscribeLoco, SetLastActiveLoco, Indexed
<1>3. PICK e \in Records : e.fifo = g /\ inbound' = [inbound EXCEPT ![c] = e]
  <2>1. CASE SubscribeLoco(c, a)
    <3> DEFINE e == [inbound[c] EXCEPT !.fifo = g]
    <3>1. inbound' = [inbound EXCEPT ![c] = e]
      BY <2>1 DEF SubscribeLoco
    <3>2. e \in Records /\ e.fifo = g
      BY <1>1, EntryFifo DEF Records
    <3> QED BY <3>1, <3>2
  <2>2. CASE SetLastActiveLoco(c, a)
    <3> DEFINE d == [inbound[c] EXCEPT !.fifo = g]
               e == [d EXCEPT !.last = a]
    <3>1. inbound' = [inbound EXCEPT ![c] = e]
      BY <2>2 DEF SetLastActiveLoco
    <3>2. d \in Records /\ d.fifo = g
      BY <1>1, EntryFifo DEF Records
    <3> HIDE DEF d
    <3>3. e \in Records /\ e.fifo = g
      BY <3>2 DEF Records
    <3> QED BY <3>1, <3>3
  <2> QED BY <2>1, <2>2
<1> HIDE DEF g
<1>4. subs' \in [Addr -> SUBSET Remote]
  BY <1>2 DEF Reg
<1>5. \A b \in Addr, d \in Remote \ {c} : d \in subs'[b] <=> d \in subs[b]
  BY <1>2 DEF Reg
<1>6. \A b \in Addr : c \in subs[b] <=> b \in ToSet(inbound[c].fifo)
  BY EntryFifo
<1>7. \A b \in Addr : c \in subs'[b] <=> b \in ToSet(g)
  BY <1>1, <1>2, <1>6 DEF Reg
<1> QED BY <1>1, <1>3, <1>4, <1>5, <1>7, RecordKnown, RegEntry

LEMMA RegUnsubscribe ==
  ASSUME Reg, NEW c \in Remote, Known(c), NEW S, UnsubscribeLocos(c, S)
  PROVE  Reg'
<1> DEFINE g == Remaining(inbound[c].fifo, S)
           l == IF inbound[c].last \in S THEN None ELSE inbound[c].last
           d == [inbound[c] EXCEPT !.fifo = g]
           e == [d EXCEPT !.last = l]
<1>1. /\ g \in Seq(Addr) /\ Once(g) /\ Len(g) <= Len(inbound[c].fifo)
      /\ ToSet(g) = ToSet(inbound[c].fifo) \ S
  BY EntryFifo, RemainingSound
<1>l. Len(g) <= FifoMax
  <2>1. Len(inbound[c].fifo) <= FifoMax /\ Len(inbound[c].fifo) \in Nat
    BY EntryFifo
  <2> HIDE DEF g
  <2>2. Len(g) \in Nat /\ FifoMax \in Nat
    BY <1>1, ThrottlesAssumption
  <2> QED BY <1>1, <2>1, <2>2
<1>2. inbound' = [inbound EXCEPT ![c] = e]
  BY DEF UnsubscribeLocos
<1> HIDE DEF g
<1>3. d \in Records /\ d.fifo = g
  BY <1>1, EntryFifo DEF Records
<1>4. l \in Addr \cup {None}
  BY EntryFifo DEF Records
<1> HIDE DEF d, l
<1>5. e \in Records /\ e.fifo = g
  BY <1>3, <1>4 DEF Records
<1> HIDE DEF e
<1>6. subs' = [a \in Addr |-> IF a \in S THEN subs[a] \ {c} ELSE subs[a]]
  BY DEF UnsubscribeLocos
<1>7. subs' \in [Addr -> SUBSET Remote]
  BY <1>6 DEF Reg
<1>8. \A b \in Addr, x \in Remote \ {c} : x \in subs'[b] <=> x \in subs[b]
  BY <1>6 DEF Reg
<1>9. \A b \in Addr : c \in subs'[b] <=> b \in ToSet(g)
  BY <1>1, <1>6, EntryFifo DEF Reg
<1> QED BY <1>1, <1>l, <1>2, <1>5, <1>7, <1>8, <1>9, RecordKnown, RegEntry

LEMMA RegRemove ==
  ASSUME Reg, NEW c \in Remote, RemoveClient(c)
  PROVE  Reg'
<1>1. inbound' = [inbound EXCEPT ![c] = None] /\ subs' = [a \in Addr |-> subs[a] \ {c}]
  BY DEF RemoveClient
<1>2. subs' \in [Addr -> SUBSET Remote]
  BY <1>1 DEF Reg
<1>3. \A a \in Addr, d \in Remote \ {c} : d \in subs'[a] <=> d \in subs[a]
  BY <1>1 DEF Reg
<1>4. \A a \in Addr : c \notin subs'[a]
  BY <1>1
<1> QED BY <1>1, <1>2, <1>3, <1>4, RegEntry

LEMMA RegNew ==
  ASSUME Reg, NEW c \in Remote, ~Known(c), NEW s \in Scopes,
         inbound' = [inbound EXCEPT ![c] = NewClient(s)], subs' = subs
  PROVE  Reg'
<1>1. NewClient(s) \in Records /\ NewClient(s).fifo = <<>>
  BY DEF NewClient, Records
<1>2. Once(<<>>) /\ Len(<<>>) <= FifoMax /\ \A a \in Addr : a \notin ToSet(<<>>)
  BY ThrottlesAssumption DEF Once, ToSet
<1>3. \A a \in Addr : c \notin subs[a]
  BY DEF Reg, Listed
<1> QED BY <1>1, <1>2, <1>3, RegEntry DEF Reg

LEMMA RegSession ==
  ASSUME Reg, NEW c \in Remote, Known(c), NEW s \in Scopes \cup {None},
         inbound' = [inbound EXCEPT ![c].session = s], subs' = subs
  PROVE  Reg'
<1> DEFINE e == [inbound[c] EXCEPT !.session = s]
<1>1. inbound' = [inbound EXCEPT ![c] = e]
  OBVIOUS
<1>2. e \in Records /\ e.fifo = inbound[c].fifo
  BY EntryFifo DEF Records
<1> HIDE DEF e
<1> QED BY <1>1, <1>2, EntryFifo, RecordKnown, RegEntry DEF Reg
-----------------------------------------------------------------------------
(* The goroutines. *)

\* One who watches a step: only company may come.
Bystander(q) ==
  /\ job'[q].pc = job[q].pc /\ job'[q].op = job[q].op /\ job'[q].a = job[q].a
  /\ job'[q].t = job[q].t /\ job'[q].v = job[q].v /\ job'[q].snap = job[q].snap
  /\ job[q].pc = "idle" => job'[q] = job[q]
  /\ job'[q].alone => job[q].alone
  /\ job'[q].alone /\ job[q].a # None => state'[job[q].a] = state[job[q].a]
  /\ q \in W /\ job[q].a # None =>
       /\ DeafW(q, job[q].t, job[q].a) => DeafW(q, job[q].t, job[q].a)'
       /\ ~job'[q].alone /\ job[q].alone => DeafW(q, job[q].t, job[q].a)'
       /\ \/ Lastly(q, job[q].t, job[q].a)' = Lastly(q, job[q].t, job[q].a)
          \/ Lastly(q, job[q].t, job[q].a)' = None /\ DeafW(q, job[q].t, job[q].a)'
          \/ ~job'[q].alone

LEMMA BystanderKept ==
  ASSUME NEW q \in Worker, Own(q), Bystander(q)
  PROVE  Own(q)'
<1>1. Shaped(q)'
  BY DEF Own, Shaped, Bystander
<1>2. InCompany(q)'
  BY DEF Own, InCompany, Bystander, DeafW
<1>3. Knows(q)'
  BY DEF Own, Shaped, Knows, Bystander, Sent
<1>4. Turns(q)'
  BY DEF Own, Shaped, Turns, Bystander, DeafW, Lastly, Idle, Job
<1> QED BY <1>1, <1>2, <1>3, <1>4 DEF Own

\* A loco the step has nothing to do with.
Apart(b) ==
  /\ state'[b] = state[b]
  /\ \A c \in W, t \in Tid : Lastly(c, t, b)' = Lastly(c, t, b) /\ (DeafW(c, t, b)' <=> DeafW(c, t, b))
  /\ \A c \in Z : shown'[c][b] = shown[c][b] /\ (DeafZ(c, b)' <=> DeafZ(c, b))
  /\ \A q \in Worker : job[q].a = b =>
       /\ job'[q].pc = job[q].pc /\ job'[q].op = job[q].op /\ job'[q].a = job[q].a
       /\ job'[q].t = job[q].t /\ job'[q].alone = job[q].alone

LEMMA ApartKept ==
  ASSUME NEW b \in Addr, ToldOf(b), Apart(b)
  PROVE  ToldOf(b)'
<1>1. Telling(b) => Telling(b)'
  BY DEF Telling, Apart
<1>2. ASSUME NEW c \in W, NEW t \in Tid, ~DeafW(c, t, b)'
      PROVE  (Fits(c, t, b) \/ Telling(b) \/ Noting(c, t, b))'
  <2>1. Fits(c, t, b) \/ Telling(b) \/ Noting(c, t, b)
    BY <1>2 DEF ToldOf, Apart
  <2>2. Fits(c, t, b) => Fits(c, t, b)'
    BY DEF Fits, Apart
  <2>3. Noting(c, t, b) => Noting(c, t, b)'
    BY DEF Noting, Apart, Worker, Remote
  <2> QED BY <1>1, <2>1, <2>2, <2>3
<1>3. ASSUME NEW c \in Z, ~DeafZ(c, b)' PROVE FitsZ(c, b)' \/ Telling(b)'
  BY <1>1, <1>3 DEF ToldOf, Apart, FitsZ
<1> QED BY <1>2, <1>3 DEF ToldOf

\* Nothing happens to the locos or to the jobs.
Quiet ==
  /\ job' = job /\ state' = state
  /\ \A c \in W, t \in Tid, a \in Addr :
       /\ \/ DeafW(c, t, a)' \/ Lastly(c, t, a)' = None
          \/ ~DeafW(c, t, a) /\ Lastly(c, t, a)' = Lastly(c, t, a)
       /\ job[c].pc # "idle" =>
            /\ DeafW(c, t, a) => DeafW(c, t, a)'
            /\ \/ Lastly(c, t, a)' = Lastly(c, t, a)
               \/ Lastly(c, t, a)' = None /\ DeafW(c, t, a)'
  /\ \A c \in Z, a \in Addr :
       \/ DeafZ(c, a)' \/ FitsZ(c, a)'
       \/ ~DeafZ(c, a) /\ shown'[c][a] = shown[c][a]

LEMMA QuietKeeps ==
  ASSUME Core, Quiet
  PROVE  Core'
<1>1. ASSUME NEW q \in Worker PROVE Own(q)'
  <2>1. Own(q) /\ job[q] \in Jobs
    BY DEF Core
  <2>2. q \in W /\ job[q].a # None => job[q].t \in Tid /\ job[q].a \in Addr /\ job[q].pc # "idle"
    BY <2>1 DEF Own, Shaped, Jobs
  <2>3. Bystander(q)
    BY <2>2 DEF Quiet, Bystander
  <2> QED BY <2>1, <2>3, BystanderKept
<1>2. ASSUME NEW a \in Addr PROVE ToldOf(a)'
  <2>1. ToldOf(a)
    BY DEF Core
  <2>2. Telling(a)' <=> Telling(a)
    BY DEF Telling, Quiet
  <2>3. ASSUME NEW c \in W, NEW t \in Tid, ~DeafW(c, t, a)'
        PROVE  (Fits(c, t, a) \/ Telling(a) \/ Noting(c, t, a))'
    <3>1. Noting(c, t, a)' <=> Noting(c, t, a)
      BY DEF Noting, Quiet
    <3>2. CASE Lastly(c, t, a)' = None
      BY <3>2 DEF Fits
    <3>3. CASE ~DeafW(c, t, a) /\ Lastly(c, t, a)' = Lastly(c, t, a)
      <4>1. Fits(c, t, a)' <=> Fits(c, t, a)
        BY <3>3 DEF Fits, Quiet
      <4> QED BY <2>1, <2>2, <3>1, <3>3, <4>1 DEF ToldOf
    <3> QED BY <2>3, <3>2, <3>3 DEF Quiet
  <2>4. ASSUME NEW c \in Z, ~DeafZ(c, a)' PROVE FitsZ(c, a)' \/ Telling(a)'
    <3>1. CASE ~DeafZ(c, a) /\ shown'[c][a] = shown[c][a]
      BY <2>1, <2>2, <3>1 DEF ToldOf, FitsZ, Quiet
    <3> QED BY <2>4, <3>1 DEF Quiet
  <2> QED BY <2>3, <2>4 DEF ToldOf
<1>3. Alone' /\ job' \in [Worker -> Jobs]
  BY DEF Core, Alone, Quiet
<1> QED BY <1>1, <1>2, <1>3 DEF Core
-----------------------------------------------------------------------------
(* A command begins. *)

Starts(p, r) ==
  /\ p \in Worker /\ job[p].pc = "idle" /\ Begin(p, r)
  /\ state' = state /\ shown' = shown
  /\ \A c \in W, t \in Tid, a \in Addr : Lastly(c, t, a)' = Lastly(c, t, a)
  /\ r \in Jobs /\ r.a \in Addr /\ r.pc \in {"store", "estop", "subscribe"}
  /\ p \in W => r.op \in WOps /\ r.t \in Tid
  /\ p \in Z => r.op \in ZOps
  /\ r.pc = "store" => r.op \notin {"X", "stop", "acquire"}
  /\ r.pc = "estop" => r.op \in {"X", "stop", "drive"}
  /\ p \in W /\ r.op = "R" =>
       r.v = IF Lastly(p, r.t, r.a) = None THEN 0 ELSE Lastly(p, r.t, r.a)

\* A job that has got company is otherwise what it was.
GotCompany(s, r) ==
  /\ s \in Jobs /\ s.pc = r.pc /\ s.op = r.op /\ s.a = r.a /\ s.t = r.t
  /\ s.v = r.v /\ s.snap = r.snap /\ s.alone = FALSE

LEMMA Accompanied ==
  ASSUME NEW r \in Jobs
  PROVE  GotCompany([r EXCEPT !.alone = FALSE], r)
BY DEF Jobs, GotCompany

\* What Begin does to the jobs and to the ports.
BeginEffect(p, r) ==
  /\ job' \in [Worker -> Jobs]
  /\ job'[p].pc = r.pc /\ job'[p].op = r.op /\ job'[p].a = r.a /\ job'[p].t = r.t
  /\ job'[p].v = r.v /\ job'[p].snap = r.snap
  /\ job'[p].alone <=> \A q \in Worker \ {p} : job[q].a # r.a
  /\ \A q \in Worker \ {p} :
       /\ job'[q].pc = job[q].pc /\ job'[q].op = job[q].op /\ job'[q].a = job[q].a
       /\ job'[q].t = job[q].t /\ job'[q].v = job[q].v /\ job'[q].snap = job[q].snap
       /\ job[q].a # r.a => job'[q] = job[q]
       /\ job[q].a = r.a => job'[q].alone = FALSE
  /\ unheard \subseteq unheard' /\ \A x, b : b # r.a => (<<x, b>> \in unheard' <=> <<x, b>> \in unheard)
  /\ (\A q \in Worker \ {p} : job[q].a # r.a) => unheard' = unheard
  /\ (\E q \in Worker \ {p} : job[q].a = r.a) => \A x \in Port : <<x, r.a>> \in unheard'

LEMMA BeginFacts ==
  ASSUME Core, NEW p \in Worker, NEW r \in Jobs, Begin(p, r)
  PROVE  BeginEffect(p, r)
<1>1. Others(p, r.a) = {} <=> \A q \in Worker \ {p} : job[q].a # r.a
  BY DEF Others, Working
<1>2. job' = [q \in Worker |->
                IF q = p THEN [r EXCEPT !.alone = Others(p, r.a) = {}]
                ELSE IF job[q].a = r.a THEN [job[q] EXCEPT !.alone = FALSE]
                ELSE job[q]]
  BY DEF Begin
<1>3. job \in [Worker -> Jobs]
  BY DEF Core
<1> DEFINE o == Others(p, r.a) = {}
<1>4. o \in BOOLEAN
  OBVIOUS
<1>5. job'[p] = [r EXCEPT !.alone = o]
  BY <1>2
<1> HIDE DEF o
<1>6. /\ job'[p] \in Jobs /\ job'[p].pc = r.pc /\ job'[p].op = r.op /\ job'[p].a = r.a
      /\ job'[p].t = r.t /\ job'[p].v = r.v /\ job'[p].snap = r.snap
      /\ job'[p].alone = o
  BY <1>4, <1>5 DEF Jobs
<1>7. ASSUME NEW q \in Worker \ {p}
      PROVE  /\ job'[q] \in Jobs
             /\ job'[q].pc = job[q].pc /\ job'[q].op = job[q].op /\ job'[q].a = job[q].a
             /\ job'[q].t = job[q].t /\ job'[q].v = job[q].v /\ job'[q].snap = job[q].snap
             /\ job[q].a # r.a => job'[q] = job[q]
             /\ job[q].a = r.a => job'[q].alone = FALSE
  <2>1. CASE job[q].a = r.a
    <3>1. job'[q] = [job[q] EXCEPT !.alone = FALSE]
      BY <1>2, <2>1
    <3>2. job[q] \in Jobs
      BY <1>3
    <3>3. GotCompany([job[q] EXCEPT !.alone = FALSE], job[q])
      BY <3>2, Accompanied
    <3>4. GotCompany(job'[q], job[q])
      BY <3>1, <3>3
    <3> QED BY <2>1, <3>4 DEF GotCompany
  <2>2. CASE job[q].a # r.a
    BY <1>2, <1>3, <2>2
  <2> QED BY <2>1, <2>2
<1>8. job' \in [Worker -> Jobs]
  BY <1>2, <1>6, <1>7
<1>9. unheard' = IF Others(p, r.a) = {} THEN unheard ELSE unheard \cup (Port \X {r.a})
  BY DEF Begin
<1>10. /\ unheard \subseteq unheard' /\ \A x, b : b # r.a => (<<x, b>> \in unheard' <=> <<x, b>> \in unheard)
       /\ (\A q \in Worker \ {p} : job[q].a # r.a) => unheard' = unheard
       /\ (\E q \in Worker \ {p} : job[q].a = r.a) => \A x \in Port : <<x, r.a>> \in unheard'
  BY <1>1, <1>9
<1>11. job'[p].alone <=> \A q \in Worker \ {p} : job[q].a # r.a
  BY <1>1, <1>6 DEF o
<1> QED BY <1>6, <1>7, <1>8, <1>10, <1>11 DEF BeginEffect

LEMMA StartsKeeps ==
  ASSUME Core, NEW p, NEW r, Starts(p, r)
  PROVE  Core'
<1>0. p \in Worker /\ r \in Jobs /\ r.a \in Addr /\ job[p].pc = "idle" /\ Begin(p, r)
  BY DEF Starts
<1>b. BeginEffect(p, r)
  BY <1>0, BeginFacts
<1>1. /\ job' \in [Worker -> Jobs]
      /\ job'[p].pc = r.pc /\ job'[p].op = r.op /\ job'[p].a = r.a /\ job'[p].t = r.t
      /\ job'[p].v = r.v /\ job'[p].snap = r.snap
      /\ job'[p].alone <=> \A q \in Worker \ {p} : job[q].a # r.a
  BY <1>b DEF BeginEffect
<1>2. \A q \in Worker \ {p} :
              /\ job'[q].pc = job[q].pc /\ job'[q].op = job[q].op /\ job'[q].a = job[q].a
              /\ job'[q].t = job[q].t /\ job'[q].v = job[q].v /\ job'[q].snap = job[q].snap
              /\ job[q].a # r.a => job'[q] = job[q]
              /\ job[q].a = r.a => job'[q].alone = FALSE
  BY <1>b DEF BeginEffect
<1>3. /\ unheard \subseteq unheard' /\ \A x, b : b # r.a => (<<x, b>> \in unheard' <=> <<x, b>> \in unheard)
      /\ (\A q \in Worker \ {p} : job[q].a # r.a) => unheard' = unheard
      /\ (\E q \in Worker \ {p} : job[q].a = r.a) => \A x \in Port : <<x, r.a>> \in unheard'
  BY <1>b DEF BeginEffect
<1>4. /\ state' = state /\ shown' = shown
      /\ \A c \in W, t \in Tid, a \in Addr : Lastly(c, t, a)' = Lastly(c, t, a)
  BY DEF Starts
<1>n. None \notin Addr
  BY ThrottlesAssumption
<1>p. \A c \in W, t \in Tid : <<c, t>> \in Port
  BY DEF Port
<1>z. Z \subseteq Port
  BY DEF Port
<1>5. ASSUME NEW q \in Worker \ {p} PROVE Own(q)'
  <2>1. Own(q) /\ job[q] \in Jobs
    BY DEF Core
  <2>2. q \in W /\ job[q].a # None => job[q].t \in Tid /\ job[q].a \in Addr
    BY <2>1 DEF Own, Shaped, Jobs
  <2>3. job[q].pc = "idle" => job'[q] = job[q]
    BY <1>0, <1>2, <1>n, <2>1 DEF Own, Shaped
  <2>4. q \in W /\ job[q].a # None =>
          /\ DeafW(q, job[q].t, job[q].a) => DeafW(q, job[q].t, job[q].a)'
          /\ ~job'[q].alone /\ job[q].alone => DeafW(q, job[q].t, job[q].a)'
    <3>1. CASE job[q].a = r.a
      BY <1>2, <1>3, <1>p, <2>2, <3>1 DEF DeafW
    <3>2. CASE job[q].a # r.a
      BY <1>2, <1>3, <2>2, <3>2 DEF DeafW
    <3> QED BY <3>1, <3>2
  <2>5. q \in W /\ job[q].a # None => Lastly(q, job[q].t, job[q].a)' = Lastly(q, job[q].t, job[q].a)
    <3> SUFFICES ASSUME q \in W, job[q].a # None
                 PROVE  Lastly(q, job[q].t, job[q].a)' = Lastly(q, job[q].t, job[q].a)
      OBVIOUS
    <3>1. PICK t \in Tid, a \in Addr : t = job[q].t /\ a = job[q].a
      BY <2>2
    <3>2. job'[q].t = t /\ job'[q].a = a /\ wire'[q][t].lastSpeed[a] = wire[q][t].lastSpeed[a]
      BY <1>2, <1>4, <3>1 DEF Lastly
    <3> QED BY <3>1, <3>2 DEF Lastly
  <2>6. job'[q].alone => job[q].alone
    BY <1>2
  <2>7. Bystander(q)
    BY <1>2, <1>4, <2>3, <2>4, <2>5, <2>6 DEF Bystander
  <2> QED BY <2>1, <2>7, BystanderKept
<1>6. Own(p)'
  <2>1. Shaped(p)'
    BY <1>0, <1>1, <1>n DEF Starts, Shaped
  <2>2. InCompany(p)'
    BY <1>0, <1>1, <1>3, <1>p DEF Starts, InCompany, DeafW
  <2>3. Knows(p)'
    BY <1>1 DEF Starts, Knows
  <2>4. Turns(p)'
    <3> SUFFICES ASSUME p \in W, r.op = "R" PROVE Turns(p)'
      BY <1>1 DEF Turns
    <3>1. PICK t \in Tid, a \in Addr : t = r.t /\ a = r.a
      BY <1>0 DEF Starts
    <3>2. job'[p].t = t /\ job'[p].a = a /\ wire'[p][t].lastSpeed[a] = wire[p][t].lastSpeed[a]
      BY <1>1, <1>4, <3>1 DEF Lastly
    <3>3. job'[p].v = IF wire[p][t].lastSpeed[a] = None THEN 0 ELSE wire[p][t].lastSpeed[a]
      BY <1>1, <3>1 DEF Starts, Lastly
    <3> QED BY <3>2, <3>3 DEF Turns, Lastly
  <2> QED BY <2>1, <2>2, <2>3, <2>4 DEF Own
<1>7. Alone'
  <2>1. ASSUME NEW x \in Worker, NEW y \in Worker, job'[x].alone, job'[x].a # None, x # y
        PROVE  job'[y].a # job'[x].a
    <3>1. CASE x = p
      BY <1>1, <1>2, <2>1, <3>1
    <3>2. CASE y = p
      BY <1>1, <1>2, <2>1, <3>2
    <3>3. CASE x # p /\ y # p
      <4>1. job[x].alone /\ job[x].a # None
        BY <1>2, <2>1, <3>3
      <4> QED BY <1>2, <2>1, <3>3, <4>1 DEF Core, Alone
    <3> QED BY <3>1, <3>2, <3>3
  <2> QED BY <2>1 DEF Alone
<1>8. ASSUME NEW b \in Addr PROVE ToldOf(b)'
  <2>1. ToldOf(b)
    BY DEF Core
  <2>p. job[p].a = None
    BY <1>0 DEF Core, Own, Shaped
  <2>2. CASE b # r.a
    <3>1. Apart(b)
      BY <1>1, <1>2, <1>3, <1>4, <1>n, <2>2, <2>p DEF Apart, DeafW, DeafZ
    <3> QED BY <2>1, <3>1, ApartKept
  <2>3. CASE b = r.a /\ \A q \in Worker \ {p} : job[q].a # r.a
    <3>1. Apart(b)
      BY <1>1, <1>2, <1>3, <1>4, <1>n, <2>3, <2>p DEF Apart, DeafW, DeafZ
    <3> QED BY <2>1, <3>1, ApartKept
  <2>4. CASE b = r.a /\ \E q \in Worker \ {p} : job[q].a = r.a
    BY <1>3, <1>p, <1>z, <2>4 DEF ToldOf, DeafW, DeafZ
  <2> QED BY <2>2, <2>3, <2>4
<1> QED BY <1>1, <1>5, <1>6, <1>7, <1>8 DEF Core
-----------------------------------------------------------------------------
(* A command goes on. *)

\* Only the actor's job changes.
OnlyJob(p, r) == job' = [job EXCEPT ![p] = r]

LEMMA OnlyJobFacts ==
  ASSUME Core, NEW p \in Worker, NEW r \in Jobs, OnlyJob(p, r)
  PROVE  /\ job' \in [Worker -> Jobs] /\ job'[p] = r
         /\ \A q \in Worker \ {p} : job'[q] = job[q]
BY DEF Core, OnlyJob

LEMMA AloneKept ==
  ASSUME Core, NEW p \in Worker, NEW r \in Jobs, OnlyJob(p, r),
         r.a \in {job[p].a, None}, r.alone /\ r.a # None => job[p].alone
  PROVE  Alone'
<1>1. /\ job'[p] = r /\ \A q \in Worker \ {p} : job'[q] = job[q]
  BY OnlyJobFacts
<1>2. ASSUME NEW x \in Worker, NEW y \in Worker, job'[x].alone, job'[x].a # None, x # y
      PROVE  job'[y].a # job'[x].a
  <2>1. job[x].alone /\ job[x].a # None /\ job'[x].a = job[x].a
    BY <1>1, <1>2
  <2>2. job[y].a # job[x].a
    BY <1>2, <2>1 DEF Core, Alone
  <2>3. job'[y].a = job[y].a \/ job'[y].a = None
    BY <1>1
  <2> QED BY <1>2, <2>1, <2>2, <2>3
<1> QED BY <1>2 DEF Alone

\* Superseded, Failed.
LEMMA GivenUpKeeps ==
  ASSUME Core, NEW p \in Worker, Superseded(p) \/ Failed(p)
  PROVE  Core'
<1>1. PICK s \in {"done", "failed"} :
        /\ job[p].pc = "store" /\ job' = [job EXCEPT ![p].pc = s]
        /\ s = "done" => Others(p, job[p].a) # {}
        /\ UNCHANGED <<registered, state, shown, radio, unheard, inputs>>
  BY DEF Superseded, Failed
<1>2. job[p] \in Jobs /\ Own(p) /\ job \in [Worker -> Jobs]
  BY DEF Core
<1> DEFINE r == [job[p] EXCEPT !.pc = s]
<1>3. /\ r \in Jobs /\ r.pc = s /\ r.op = job[p].op /\ r.a = job[p].a /\ r.t = job[p].t
      /\ r.v = job[p].v /\ r.snap = job[p].snap /\ r.alone = job[p].alone
  BY <1>2 DEF Jobs
<1>4. OnlyJob(p, r)
  BY <1>1, <1>2 DEF OnlyJob
<1> HIDE DEF r
<1>5. job' \in [Worker -> Jobs] /\ job'[p] = r /\ \A q \in Worker \ {p} : job'[q] = job[q]
  BY <1>3, <1>4, OnlyJobFacts
<1>6. state' = state /\ shown' = shown /\ unheard' = unheard /\ wire' = wire
  BY <1>1 DEF registered
<1>7. s = "done" => ~job[p].alone
  <2>1. ASSUME job[p].alone PROVE Others(p, job[p].a) = {}
    BY <1>1, <1>2, <2>1 DEF Core, Alone, Others, Working, Own, Shaped
  <2> QED BY <1>1, <2>1
<1>8. ASSUME NEW q \in Worker \ {p} PROVE Own(q)'
  <2>1. Own(q)
    BY DEF Core
  <2>2. Bystander(q)
    BY <1>5, <1>6 DEF Bystander, DeafW, Lastly
  <2> QED BY <2>1, <2>2, BystanderKept
<1>9. Own(p)'
  <2>1. Shaped(p)'
    BY <1>1, <1>2, <1>3, <1>5 DEF Own, Shaped
  <2>2. InCompany(p)'
    BY <1>2, <1>3, <1>5, <1>6 DEF Own, InCompany, DeafW
  <2>3. Knows(p)' /\ Turns(p)'
    BY <1>3, <1>5, <1>7 DEF Knows, Turns
  <2> QED BY <2>1, <2>2, <2>3 DEF Own
<1>10. ASSUME NEW b \in Addr PROVE ToldOf(b)'
  <2>1. ToldOf(b)
    BY DEF Core
  <2>2. Telling(b) => Telling(b)'
    BY <1>1, <1>5 DEF Telling
  <2>3. \A c \in W, t \in Tid : Noting(c, t, b) => Noting(c, t, b)'
    BY <1>1, <1>5 DEF Noting, Worker, Remote
  <2>4. \A c \in W, t \in Tid : Fits(c, t, b)' <=> Fits(c, t, b)
    BY <1>6 DEF Fits, Lastly
  <2>5. \A c \in Z : FitsZ(c, b)' <=> FitsZ(c, b)
    BY <1>6 DEF FitsZ
  <2> QED BY <1>6, <2>1, <2>2, <2>3, <2>4, <2>5 DEF ToldOf, DeafW, DeafZ
<1>11. Alone'
  BY <1>3, <1>4, AloneKept
<1> QED BY <1>5, <1>8, <1>9, <1>10, <1>11 DEF Core

\* Stored.
LEMMA StoredKeeps ==
  ASSUME Core, GatewayTypes, NEW p \in Worker, Stored(p)
  PROVE  Core' /\ state' \in [Addr -> States] /\ Commanded(p, job[p].a) \in States
<1> DEFINE a == job[p].a
           s == Commanded(p, a)
           m == [job[p] EXCEPT !.pc = "notify"]
           r == [m EXCEPT !.snap = s]
<1>1. /\ job[p].pc = "store" /\ state' = [state EXCEPT ![a] = s]
      /\ job' = [job EXCEPT ![p] = r]
      /\ unheard' = IF job[p].alone /\ p \in W /\ job[p].op # "F"
                    THEN unheard \ {<<<<p, job[p].t>>, a>>} ELSE unheard
      /\ wire' = wire /\ shown' = shown
  BY DEF Stored, registered
<1>2. job[p] \in Jobs /\ Own(p) /\ job \in [Worker -> Jobs]
  BY DEF Core
<1>a. a \in Addr
  BY <1>1, <1>2 DEF Own, Shaped, Jobs
<1>s. s \in States /\ (job[p].op # "F" => s.speed = Sent(p)) /\ (job[p].op = "F" => s = state[a])
  <2>1. Sent(p) \in Speeds \ {1}
    BY <1>2, <1>a, ClampRange DEF Jobs, Sent
  <2> QED BY <1>2, <1>a, <2>1 DEF Commanded, Sent, GatewayTypes, States, Jobs
<1> HIDE DEF s
<1>m. /\ m \in Jobs /\ m.pc = "notify" /\ m.op = job[p].op /\ m.a = job[p].a /\ m.t = job[p].t
      /\ m.v = job[p].v /\ m.alone = job[p].alone
  BY <1>2 DEF Jobs
<1> HIDE DEF m
<1>3. /\ r \in Jobs /\ r.pc = "notify" /\ r.op = job[p].op /\ r.a = job[p].a /\ r.t = job[p].t
      /\ r.v = job[p].v /\ r.snap = s /\ r.alone = job[p].alone
  BY <1>m, <1>s DEF Jobs
<1>4. OnlyJob(p, r)
  BY <1>1 DEF OnlyJob
<1> HIDE DEF r
<1>5. job' \in [Worker -> Jobs] /\ job'[p] = r /\ \A q \in Worker \ {p} : job'[q] = job[q]
  BY <1>3, <1>4, OnlyJobFacts
<1>6. state' \in [Addr -> States] /\ state'[a] = s /\ \A b \in Addr \ {a} : state'[b] = state[b]
  BY <1>1, <1>a, <1>s DEF GatewayTypes
<1>7. \A x, b : <<x, b>> # <<<<p, job[p].t>>, a>> => (<<x, b>> \in unheard' <=> <<x, b>> \in unheard)
  BY <1>1
<1>8. ASSUME NEW q \in Worker \ {p} PROVE Own(q)'
  <2>1. Own(q) /\ job[q] \in Jobs
    BY DEF Core
  <2>2. job[q].alone /\ job[q].a # None => job[q].a # a
    BY DEF Core, Alone
  <2>3. job[q].alone /\ job[q].a # None => state'[job[q].a] = state[job[q].a]
    BY <1>6, <2>1, <2>2 DEF Jobs
  <2>4. \A t : <<<<q, t>>, job[q].a>> \in unheard <=> <<<<q, t>>, job[q].a>> \in unheard'
    BY <1>7
  <2>5. Bystander(q)
    BY <1>1, <1>5, <2>3, <2>4 DEF Bystander, DeafW, Lastly
  <2> QED BY <2>1, <2>5, BystanderKept
<1>9. Own(p)'
  <2>1. Shaped(p)'
    BY <1>1, <1>2, <1>3, <1>5, <1>s DEF Own, Shaped
  <2>2. InCompany(p)'
    BY <1>1, <1>2, <1>3, <1>5 DEF Own, InCompany, DeafW
  <2>3. Knows(p)'
    <3>1. Sent(p)' = Sent(p)
      BY <1>3, <1>5 DEF Sent
    <3> QED BY <1>3, <1>5, <1>6, <1>s, <3>1 DEF Knows
  <2>4. Turns(p)'
    BY <1>1, <1>2, <1>3, <1>5 DEF Own, Turns, Lastly
  <2> QED BY <2>1, <2>2, <2>3, <2>4 DEF Own
<1>10. ASSUME NEW b \in Addr PROVE ToldOf(b)'
  <2>1. ToldOf(b)
    BY DEF Core
  <2>2. CASE b # a
    <3>1. Apart(b)
      BY <1>1, <1>3, <1>5, <1>6, <1>7, <2>2 DEF Apart, DeafW, DeafZ, Lastly
    <3> QED BY <2>1, <3>1, ApartKept
  <2>3. CASE b = a /\ job[p].op # "F"
    <3>1. Telling(b)'
      BY <1>3, <1>5, <2>3 DEF Telling
    <3> QED BY <3>1 DEF ToldOf
  <2>4. CASE b = a /\ job[p].op = "F"
    <3>1. state'[b] = state[b] /\ unheard' = unheard
      BY <1>1, <1>6, <1>s, <2>4
    <3>2. Telling(b) => Telling(b)'
      BY <1>1, <1>5 DEF Telling
    <3>3. \A c \in W, t \in Tid : Noting(c, t, b) => Noting(c, t, b)'
      BY <1>1, <1>5 DEF Noting, Worker, Remote
    <3>4. \A c \in W, t \in Tid : Fits(c, t, b)' <=> Fits(c, t, b)
      BY <1>1, <3>1 DEF Fits, Lastly
    <3>5. \A c \in Z : FitsZ(c, b)' <=> FitsZ(c, b)
      BY <1>1, <3>1 DEF FitsZ
    <3> QED BY <2>1, <3>1, <3>2, <3>3, <3>4, <3>5 DEF ToldOf, DeafW, DeafZ
  <2> QED BY <2>2, <2>3, <2>4
<1>11. Alone'
  BY <1>3, <1>4, AloneKept
<1>12. Commanded(p, job[p].a) \in States
  BY <1>s DEF s
<1> QED BY <1>5, <1>6, <1>8, <1>9, <1>10, <1>11, <1>12 DEF Core

\* Emergency stops: everybody on a stopped loco gets company, and nobody hears.
LEMMA StoppedKeeps ==
  ASSUME Core, GatewayTypes, NEW p \in Worker \cup {None}, NEW S \in SUBSET Addr, Stopped(p, S),
         p \in Worker => job[p].pc = "estop" /\ S \subseteq {job[p].a},
         wire' = wire, shown' = shown
  PROVE  Core' /\ state' \in [Addr -> States]
<1>1. /\ state' = [a \in Addr |-> IF a \in S THEN [state[a] EXCEPT !.speed = 0] ELSE state[a]]
      /\ unheard' = unheard \cup (Port \X {a \in S : state[a].speed # 0 \/ Working(a) # {}})
      /\ job' = [q \in Worker |-> IF q = p THEN [job[q] EXCEPT !.pc = "done"]
                                  ELSE IF job[q].a \in S THEN [job[q] EXCEPT !.alone = FALSE]
                                  ELSE job[q]]
  BY DEF Stopped
<1>n. None \notin Addr /\ None \notin Worker
  BY ThrottlesAssumption DEF Worker, Remote
<1>p. \A c \in W, t \in Tid : <<c, t>> \in Port
  BY DEF Port
<1>z. Z \subseteq Port
  BY DEF Port
<1>2. job \in [Worker -> Jobs] /\ \A q \in Worker : Own(q)
  BY DEF Core
<1>3. ASSUME NEW a \in Addr
      PROVE  /\ state'[a] \in States
             /\ a \notin S \/ state[a].speed = 0 => state'[a] = state[a]
  <2>1. state[a] \in States
    BY DEF GatewayTypes
  <2>2. CASE a \in S
    <3>1. state'[a] = [state[a] EXCEPT !.speed = 0]
      BY <1>1, <2>2
    <3>2. 0 \in Speeds \ {1}
      BY DEF Speeds
    <3> QED BY <2>1, <2>2, <3>1, <3>2 DEF States
  <2>3. CASE a \notin S
    BY <1>1, <2>1, <2>3
  <2> QED BY <2>2, <2>3
<1>4. state' \in [Addr -> States]
  BY <1>1, <1>3
<1>5. ASSUME NEW q \in Worker, q # p
      PROVE  /\ job'[q] \in Jobs
             /\ job'[q].pc = job[q].pc /\ job'[q].op = job[q].op /\ job'[q].a = job[q].a
             /\ job'[q].t = job[q].t /\ job'[q].v = job[q].v /\ job'[q].snap = job[q].snap
             /\ job[q].a \notin S => job'[q] = job[q]
             /\ job[q].a \in S => job'[q].alone = FALSE
  <2>1. CASE job[q].a \in S
    <3>1. job'[q] = [job[q] EXCEPT !.alone = FALSE]
      BY <1>1, <1>5, <2>1
    <3>2. job[q] \in Jobs
      BY <1>2
    <3>3. GotCompany([job[q] EXCEPT !.alone = FALSE], job[q])
      BY <3>2, Accompanied
    <3>4. GotCompany(job'[q], job[q])
      BY <3>1, <3>3
    <3> QED BY <2>1, <3>4 DEF GotCompany
  <2>2. CASE job[q].a \notin S
    BY <1>1, <1>2, <1>5, <2>2
  <2> QED BY <2>1, <2>2
<1>6. ASSUME p \in Worker
      PROVE  /\ job'[p] \in Jobs /\ job'[p].pc = "done" /\ job'[p].op = job[p].op
             /\ job'[p].a = job[p].a /\ job'[p].t = job[p].t /\ job'[p].alone = job[p].alone
  <2>1. job'[p] = [job[p] EXCEPT !.pc = "done"]
    BY <1>1, <1>6
  <2> QED BY <1>2, <1>6, <2>1 DEF Jobs
<1>7. job' \in [Worker -> Jobs]
  BY <1>1, <1>5, <1>6
<1>8. \A x, b : <<x, b>> \in unheard => <<x, b>> \in unheard'
  BY <1>1
<1>9. ASSUME NEW b \in S, state[b].speed # 0 \/ \E q \in Worker : job[q].a = b
      PROVE  \A x \in Port : <<x, b>> \in unheard'
  BY <1>1, <1>9 DEF Working
<1>10. ASSUME NEW q \in Worker, q # p PROVE Own(q)'
  <2>1. Own(q) /\ job[q] \in Jobs
    BY <1>2
  <2>2. job[q].pc = "idle" => job'[q] = job[q]
    BY <1>5, <1>10, <1>n, <2>1 DEF Own, Shaped
  <2>3. /\ job'[q].alone => job[q].alone
        /\ job'[q].alone /\ job[q].a # None => state'[job[q].a] = state[job[q].a]
    <3> SUFFICES ASSUME job'[q].alone
                 PROVE  job[q].alone /\ (job[q].a # None => state'[job[q].a] = state[job[q].a])
      OBVIOUS
    <3>1. job[q].a \notin S /\ job[q].alone
      BY <1>5, <1>10
    <3> QED BY <1>3, <2>1, <3>1 DEF Jobs
  <2>4. q \in W /\ job[q].a # None =>
          /\ DeafW(q, job[q].t, job[q].a) => DeafW(q, job[q].t, job[q].a)'
          /\ ~job'[q].alone /\ job[q].alone => DeafW(q, job[q].t, job[q].a)'
    <3>1. q \in W /\ job[q].a # None => job[q].t \in Tid /\ job[q].a \in Addr
      BY <2>1 DEF Own, Shaped, Jobs
    <3>2. CASE job[q].a \in S
      <4>1. \A x \in Port : <<x, job[q].a>> \in unheard'
        BY <1>9, <3>2
      <4> QED BY <1>5, <1>10, <1>p, <3>1, <4>1 DEF DeafW
    <3>3. CASE job[q].a \notin S
      BY <1>5, <1>8, <1>10, <3>3 DEF DeafW
    <3> QED BY <3>2, <3>3
  <2>5. Bystander(q)
    BY <1>5, <1>10, <2>2, <2>3, <2>4 DEF Bystander, Lastly
  <2> QED BY <2>1, <2>5, BystanderKept
<1>11. ASSUME p \in Worker PROVE Own(p)'
  <2>1. Own(p) /\ job[p] \in Jobs /\ job[p].pc = "estop"
    BY <1>2, <1>11
  <2>2. Shaped(p)'
    BY <1>6, <1>11, <2>1 DEF Own, Shaped
  <2>3. InCompany(p)'
    BY <1>6, <1>8, <1>11, <2>1 DEF Own, InCompany, DeafW
  <2>4. Turns(p)'
    BY <1>6, <1>11 DEF Turns
  <2>5. Knows(p)'
    BY <1>6, <1>11, <2>1 DEF Knows, Own, Shaped
  <2> QED BY <2>2, <2>3, <2>4, <2>5 DEF Own
<1>12. Alone'
  <2>1. ASSUME NEW x \in Worker PROVE job'[x].a = job[x].a /\ (job'[x].alone => job[x].alone)
    BY <1>5, <1>6, <2>1
  <2> QED BY <2>1 DEF Core, Alone
<1>13. ASSUME NEW b \in Addr PROVE ToldOf(b)'
  <2>1. ToldOf(b)
    BY DEF Core
  <2>2. CASE b \in S /\ (state[b].speed # 0 \/ \E q \in Worker : job[q].a = b)
    <3>1. \A x \in Port : <<x, b>> \in unheard'
      BY <1>9, <2>2
    <3> QED BY <1>p, <1>z, <3>1 DEF ToldOf, DeafW, DeafZ
  <2>3. CASE \/ b \notin S /\ ~(p \in Worker /\ job[p].a = b)
             \/ b \in S /\ state[b].speed = 0 /\ \A q \in Worker : job[q].a # b
    <3>1. \A x : <<x, b>> \in unheard' <=> <<x, b>> \in unheard
      BY <1>1, <2>3 DEF Working
    <3>2. \A q \in Worker : job[q].a = b => q # p /\ b \notin S
      BY <2>3
    <3>3. state'[b] = state[b]
      BY <1>3, <2>3
    <3>4. Apart(b)
      BY <1>5, <3>1, <3>2, <3>3 DEF Apart, DeafW, DeafZ, Lastly
    <3> QED BY <2>1, <3>4, ApartKept
  <2>4. CASE b \notin S /\ p \in Worker /\ job[p].a = b
    <3>1. \A x : <<x, b>> \in unheard' <=> <<x, b>> \in unheard
      BY <1>1, <2>4
    <3>2. state'[b] = state[b]
      BY <1>3, <2>4
    <3>3. job[p].pc = "estop" /\ job[p].op \in {"X", "stop", "drive"}
      BY <1>2, <2>4 DEF Own, Shaped
    <3>4. \A q \in Worker : job[q].a = b => q = p \/ job'[q] = job[q]
      BY <1>5, <2>4
    <3>5. Telling(b) => Telling(b)'
      BY <3>3, <3>4 DEF Telling
    <3>6. \A c \in W, t \in Tid : Noting(c, t, b) => Noting(c, t, b)'
      BY <3>3, <3>4 DEF Noting, Worker, Remote
    <3>7. \A c \in W, t \in Tid : Fits(c, t, b)' <=> Fits(c, t, b)
      BY <3>2 DEF Fits, Lastly
    <3>8. \A c \in Z : FitsZ(c, b)' <=> FitsZ(c, b)
      BY <3>2 DEF FitsZ
    <3> QED BY <2>1, <3>1, <3>5, <3>6, <3>7, <3>8 DEF ToldOf, DeafW, DeafZ
  <2> QED BY <2>2, <2>3, <2>4
<1>14. \A q \in Worker : Own(q)'
  BY <1>10, <1>11
<1> QED BY <1>4, <1>7, <1>12, <1>13, <1>14 DEF Core

\* Notify.
LEMMA NotifyKeeps ==
  ASSUME Core, GatewayTypes, Listed, NEW p \in Worker, Notify(p)
  PROVE  Core' /\ wire' \in [W -> [Tid -> Wires]] /\ shown' \in [Z -> [Addr -> Infos \cup {None}]]
<1>3. job \in [Worker -> Jobs] /\ job[p] \in Jobs /\ Own(p) /\ job[p].pc = "notify"
  BY DEF Core, Notify
<1>a. PICK a \in Addr, s \in States : a = job[p].a /\ s = job[p].snap
  BY <1>3 DEF Own, Shaped, Jobs
<1> DEFINE watching == Watching(a, p)
<1> DEFINE Fanned(b, x) ==
             \E pick \in [Watching(b, p) \cap W -> Tid] :
               /\ \A c \in Watching(b, p) \cap W : pick[c] \in Holding(c, b)
               /\ wire' = [c \in W |-> [t \in Tid |->
                             IF c \in WiThrottleTold(b, p) /\ pick[c] = t
                             THEN [wire[c][t] EXCEPT !.lastSpeed[b] = x.speed]
                             ELSE wire[c][t]]]
               /\ LET heard == {IF c \in W THEN <<c, pick[c]>> ELSE c : c \in Watching(b, p)}
                      missed == Port \ (heard \cup {<<p, job[p].t>>})
                  IN unheard' = IF job[p].alone
                                THEN (unheard \ (heard \X {b})) \cup (missed \X {b})
                                ELSE unheard \cup (Port \X {b})
<1>0. Fanned(a, s)
  <2>1. Fanned(job[p].a, job[p].snap)
    BY Zenon DEF Notify
  <2> HIDE DEF Fanned
  <2> QED BY <1>a, <2>1
<1>1. PICK pick \in [watching \cap W -> Tid] :
        /\ \A c \in watching \cap W : pick[c] \in Holding(c, a)
        /\ wire' = [c \in W |-> [t \in Tid |->
                      IF c \in WiThrottleTold(a, p) /\ pick[c] = t
                      THEN [wire[c][t] EXCEPT !.lastSpeed[a] = s.speed]
                      ELSE wire[c][t]]]
        /\ LET heard == {IF c \in W THEN <<c, pick[c]>> ELSE c : c \in watching}
               missed == Port \ (heard \cup {<<p, job[p].t>>})
           IN unheard' = IF job[p].alone
                         THEN (unheard \ (heard \X {a})) \cup (missed \X {a})
                         ELSE unheard \cup (Port \X {a})
  BY <1>0
<1> HIDE DEF Fanned
<1>2. /\ job[p].pc = "notify" /\ job' = [job EXCEPT ![p].pc = "done"] /\ state' = state
      /\ shown' = [c \in Z |-> IF c \in Z21Told(a, p)
                               THEN [shown[c] EXCEPT ![a] = buildLocoInfoReply(s)]
                               ELSE shown[c]]
  BY <1>a DEF Notify
<1>w. ASSUME NEW c \in W PROVE c \in WiThrottleTold(a, p) <=> c \in watching
  <2>1. c \in Remote /\ c \notin Z
    BY ThrottlesAssumption DEF Remote
  <2> QED BY <2>1 DEF WiThrottleTold, Watching
<1>z. ASSUME NEW c \in Z PROVE c \in Z21Told(a, p) <=> c \in watching
  <2>1. c \in subs[a] <=> Known(c) /\ a \in ToSet(inbound[c].fifo)
    BY <1>a DEF Listed, Remote
  <2>2. c \notin W
    BY ThrottlesAssumption
  <2> QED BY <2>1, <2>2 DEF Z21Told, Watching, Remote, IsPaired
<1>x. watching \subseteq Remote /\ p \notin watching /\ Z \cap W = {}
  BY ThrottlesAssumption DEF Watching
<1> HIDE DEF watching
<1> DEFINE r == [job[p] EXCEPT !.pc = "done"]
<1>4. /\ r \in Jobs /\ r.pc = "done" /\ r.op = job[p].op /\ r.a = a /\ r.t = job[p].t
      /\ r.v = job[p].v /\ r.snap = job[p].snap /\ r.alone = job[p].alone
  BY <1>3, <1>a DEF Jobs
<1>5. OnlyJob(p, r)
  BY <1>2, <1>3 DEF OnlyJob
<1> HIDE DEF r
<1>6. job' \in [Worker -> Jobs] /\ job'[p] = r /\ \A q \in Worker \ {p} : job'[q] = job[q]
  BY <1>4, <1>5, OnlyJobFacts
\* What the WiThrottle clients know.
<1>7. ASSUME NEW c \in W, NEW t \in Tid
      PROVE  /\ wire'[c][t] \in Wires
             /\ \A b \in Addr \ {a} : Lastly(c, t, b)' = Lastly(c, t, b)
             /\ c \in watching /\ pick[c] = t => Lastly(c, t, a)' = s.speed
             /\ ~(c \in watching /\ pick[c] = t) => Lastly(c, t, a)' = Lastly(c, t, a)
  <2>1. wire[c][t] \in Wires
    BY DEF GatewayTypes
  <2>2. CASE c \in watching /\ pick[c] = t
    <3>1. wire'[c][t] = [wire[c][t] EXCEPT !.lastSpeed[a] = s.speed]
      BY <1>1, <1>w, <2>2
    <3>2. s.speed \in Speeds
      BY <1>a DEF States
    <3> DEFINE l == [wire[c][t].lastSpeed EXCEPT ![a] = s.speed]
    <3>3. wire[c][t].lastSpeed \in [Addr -> Speeds \cup {None}]
      BY <2>1 DEF Wires
    <3>4. l \in [Addr -> Speeds \cup {None}] /\ l[a] = s.speed
          /\ \A b \in Addr \ {a} : l[b] = wire[c][t].lastSpeed[b]
      BY <1>a, <3>2, <3>3
    <3>5. wire'[c][t] = [wire[c][t] EXCEPT !.lastSpeed = l]
      BY <3>1
    <3> HIDE DEF l
    <3>6. wire'[c][t] \in Wires /\ wire'[c][t].lastSpeed = l
      BY <2>1, <3>4, <3>5 DEF Wires
    <3> QED BY <2>2, <3>4, <3>6 DEF Lastly
  <2>3. CASE ~(c \in watching /\ pick[c] = t)
    <3>1. wire'[c][t] = wire[c][t]
      BY <1>1, <1>w, <2>3
    <3> QED BY <2>1, <2>3, <3>1 DEF Lastly
  <2> QED BY <2>2, <2>3
<1>8. wire' \in [W -> [Tid -> Wires]]
  BY <1>1, <1>7
\* What the Z21 clients are shown.
<1>9. ASSUME NEW c \in Z
      PROVE  /\ shown'[c] \in [Addr -> Infos \cup {None}]
             /\ \A b \in Addr \ {a} : shown'[c][b] = shown[c][b]
             /\ c \in watching => shown'[c][a] = buildLocoInfoReply(s)
             /\ c \notin watching => shown'[c][a] = shown[c][a]
  <2>1. shown[c] \in [Addr -> Infos \cup {None}]
    BY DEF GatewayTypes
  <2>2. CASE c \in watching
    <3>1. shown'[c] = [shown[c] EXCEPT ![a] = buildLocoInfoReply(s)]
      BY <1>2, <1>z, <2>2
    <3> QED BY <1>a, <2>1, <2>2, <3>1, InfoType
  <2>3. CASE c \notin watching
    BY <1>2, <1>z, <2>1, <2>3
  <2> QED BY <2>2, <2>3
<1>10. shown' \in [Z -> [Addr -> Infos \cup {None}]]
  BY <1>2, <1>9
\* Who has heard.
<1>11. \A x, b : b # a => (<<x, b>> \in unheard' <=> <<x, b>> \in unheard)
  BY <1>1
<1>12. ~job[p].alone => \A x \in Port : <<x, a>> \in unheard'
  BY <1>1
<1>13. ASSUME NEW c \in W, NEW t \in Tid, job[p].alone
       PROVE  /\ <<c, t>> # <<p, job[p].t>> /\ ~(c \in watching /\ pick[c] = t) => DeafW(c, t, a)'
              /\ <<c, t>> = <<p, job[p].t>> => (DeafW(c, t, a)' <=> DeafW(c, t, a))
  <2> DEFINE heard == {IF d \in W THEN <<d, pick[d]>> ELSE d : d \in watching}
  <2>1. <<c, t>> \in Port
    BY DEF Port
  <2>2. <<c, t>> \in heard <=> c \in watching /\ pick[c] = t
    <3>1. ASSUME NEW d \in watching, <<c, t>> = IF d \in W THEN <<d, pick[d]>> ELSE d
          PROVE  c = d /\ pick[c] = t
      <4>1. d \in W
        <5> SUFFICES ASSUME d \notin W PROVE FALSE
          OBVIOUS
        <5>1. d \in Z /\ d = <<c, t>>
          BY <1>x, <3>1 DEF Remote
        <5>2. Z \cap ((W \cup Z \cup {Web}) \X (Tid \cup {None})) = {}
          BY ThrottlesAssumption
        <5> QED BY <5>1, <5>2
      <4> QED BY <3>1, <4>1
    <3> QED BY <3>1
  <2>3. unheard' = (unheard \ (heard \X {a})) \cup ((Port \ (heard \cup {<<p, job[p].t>>})) \X {a})
    BY <1>1, <1>13
  <2> HIDE DEF heard
  <2>4. CASE <<c, t>> = <<p, job[p].t>>
    <3>1. <<c, t>> \notin heard /\ c = p
      BY <1>x, <2>2, <2>4
    <3>2. <<<<c, t>>, a>> \notin heard \X {a} /\ <<<<c, t>>, a>> \notin (Port \ (heard \cup {<<p, job[p].t>>})) \X {a}
      BY <2>4, <3>1
    <3>3. DeafW(c, t, a)' <=> DeafW(c, t, a)
      <4>1. <<<<c, t>>, a>> \in unheard' <=> <<<<c, t>>, a>> \in unheard
        BY <2>3, <3>2
      <4> QED BY <4>1, <1>6, <1>4 DEF DeafW
    <3> QED BY <2>4, <3>3
  <2>5. CASE <<c, t>> # <<p, job[p].t>> /\ ~(c \in watching /\ pick[c] = t)
    <3>1. <<<<c, t>>, a>> \in (Port \ (heard \cup {<<p, job[p].t>>})) \X {a}
      BY <2>1, <2>2, <2>5
    <3>2. <<<<c, t>>, a>> \in unheard'
      BY <2>3, <3>1
    <3>3. DeafW(c, t, a)'
      BY <3>2, <1>4, <1>6 DEF DeafW
    <3> QED BY <2>5, <3>3
  <2> QED BY <2>4, <2>5
<1>14. ASSUME NEW c \in Z, job[p].alone, c \notin watching PROVE DeafZ(c, a)'
  <2> DEFINE heard == {IF d \in W THEN <<d, pick[d]>> ELSE d : d \in watching}
  <2>0. Z \cap ((W \cup Z \cup {Web}) \X (Tid \cup {None})) = {}
    BY ThrottlesAssumption
  <2>1. c \in Port
    BY DEF Port
  <2>2. c \notin heard
    <3>1. ASSUME NEW d \in watching, c = IF d \in W THEN <<d, pick[d]>> ELSE d PROVE FALSE
      <4>1. CASE d \in W
        BY <2>0, <3>1, <4>1
      <4>2. CASE d \notin W
        BY <1>14, <3>1, <4>2
      <4> QED BY <4>1, <4>2
    <3> QED BY <3>1
  <2>3. c # <<p, job[p].t>>
    <3>1. <<p, job[p].t>> \in (W \cup Z \cup {Web}) \X (Tid \cup {None})
      BY <1>3 DEF Jobs, Worker, Remote
    <3> QED BY <2>0, <3>1
  <2>4. unheard' = (unheard \ (heard \X {a})) \cup ((Port \ (heard \cup {<<p, job[p].t>>})) \X {a})
    BY <1>1, <1>14
  <2> HIDE DEF heard
  <2>5. <<c, a>> \in unheard'
    BY <2>1, <2>2, <2>3, <2>4
  <2> QED BY <1>4, <1>6, <2>5 DEF DeafZ
<1>n. a # None
  <2>1. None \notin Addr
    BY ThrottlesAssumption
  <2> QED BY <2>1
<1>15. job[p].alone => \A q \in Worker \ {p} : job[q].a # a
  BY <1>a, <1>n DEF Core, Alone
<1>16. \A c \in W, t \in Tid : <<c, t>> \in Port
  BY DEF Port
<1>17. ASSUME NEW q \in Worker \ {p} PROVE Own(q)'
  <2>1. Own(q) /\ job[q] \in Jobs
    BY DEF Core
  <2>2. CASE q \in W /\ job[q].a # None
    <3>1. PICK t \in Tid, b \in Addr : t = job[q].t /\ b = job[q].a
      BY <2>1, <2>2 DEF Own, Shaped, Jobs
    <3>2. CASE b # a
      <4>1. Lastly(q, t, b)' = Lastly(q, t, b) /\ (DeafW(q, t, b)' <=> DeafW(q, t, b))
        BY <1>7, <1>11, <2>2, <3>2 DEF DeafW
      <4>2. Bystander(q)
        BY <1>2, <1>6, <2>2, <3>1, <4>1 DEF Bystander, DeafW, Lastly
      <4> QED BY <2>1, <4>2, BystanderKept
    <3>3. CASE b = a
      <4>1. ~job[p].alone /\ ~job[q].alone
        BY <1>15, <1>a, <1>n, <3>1, <3>3 DEF Core, Alone
      <4>2. DeafW(q, t, b)'
        BY <1>12, <1>16, <2>2, <3>3, <4>1 DEF DeafW
      <4>3. Bystander(q)
        BY <1>2, <1>6, <2>2, <3>1, <4>1, <4>2 DEF Bystander, DeafW
      <4> QED BY <2>1, <4>3, BystanderKept
    <3> QED BY <3>2, <3>3
  <2>3. CASE ~(q \in W /\ job[q].a # None)
    <3>1. Bystander(q)
      BY <1>2, <1>6, <2>3 DEF Bystander
    <3> QED BY <2>1, <3>1, BystanderKept
  <2> QED BY <2>2, <2>3
<1>18. Own(p)'
  <2>1. Shaped(p)'
    BY <1>2, <1>3, <1>4, <1>6 DEF Own, Shaped
  <2>2. InCompany(p)'
    <3>1. p \in W => job[p].t \in Tid
      BY <1>2, <1>3 DEF Own, Shaped
    <3> QED BY <1>4, <1>6, <1>12, <1>16, <3>1 DEF InCompany, DeafW
  <2>3. Knows(p)'
    <3>1. Sent(p)' = Sent(p)
      BY <1>4, <1>6, <1>a DEF Sent
    <3> QED BY <1>2, <1>3, <1>4, <1>6, <3>1 DEF Own, Knows
  <2>4. Turns(p)'
    BY <1>4, <1>6 DEF Turns
  <2> QED BY <2>1, <2>2, <2>3, <2>4 DEF Own
<1>19. ASSUME NEW b \in Addr PROVE ToldOf(b)'
  <2>1. ToldOf(b)
    BY DEF Core
  <2>2. CASE b # a
    <3>1. Apart(b)
      BY <1>2, <1>4, <1>6, <1>7, <1>9, <1>11, <1>a, <2>2 DEF Apart, DeafW, DeafZ
    <3> QED BY <2>1, <3>1, ApartKept
  <2>3. CASE b = a /\ ~job[p].alone
    BY <1>12, <1>16, <2>3 DEF ToldOf, DeafW, DeafZ, Port
  <2>4. CASE b = a /\ job[p].alone
    <3>s. s = state[a]
      BY <1>2, <1>3, <1>a, <2>4 DEF Own, Knows
    <3>1. ASSUME NEW c \in W, NEW t \in Tid, ~DeafW(c, t, a)'
          PROVE  Fits(c, t, a)' \/ Noting(c, t, a)'
      <4>1. CASE c \in watching /\ pick[c] = t
        <5>1. Lastly(c, t, a)' = state'[a].speed
          BY <1>2, <1>7, <3>s, <4>1
        <5>2. UISpeed(s.speed) = s.speed
          BY <1>a, UISpeedKeeps DEF States
        <5> QED BY <1>2, <3>s, <5>1, <5>2 DEF Fits
      <4>2. CASE <<c, t>> = <<p, job[p].t>>
        <5>1. Lastly(c, t, a)' = Lastly(c, t, a) /\ ~DeafW(c, t, a)
          BY <1>7, <1>13, <1>x, <2>4, <3>1, <4>2
        <5>2. CASE job[p].op \in {"V", "I"}
          BY <1>4, <1>6, <2>4, <4>2, <5>2 DEF Noting
        <5>3. CASE job[p].op = "R"
          <6>1. Lastly(c, t, a) \in {None, job[p].v} /\ state[a].speed = Sent(p)
            BY <1>2, <1>3, <1>a, <2>4, <4>2, <5>3 DEF Own, Knows, Turns
          <6> QED BY <1>2, <1>a, <4>2, <5>1, <6>1 DEF Fits, Sent
        <5>4. CASE job[p].op = "F"
          <6>1. ~Telling(a)
            BY <1>15, <2>4, <5>4 DEF Telling
          <6>2. ~Noting(c, t, a)
            BY <4>2, <5>4 DEF Noting
          <6>3. Fits(c, t, a)
            BY <2>1, <2>4, <5>1, <6>1, <6>2 DEF ToldOf
          <6> QED BY <1>2, <5>1, <6>3 DEF Fits
        <5>5. job[p].op \in {"V", "I", "R", "F"}
          BY <1>2, <1>3, <4>2 DEF Own, Shaped, WOps
        <5> QED BY <5>2, <5>3, <5>4, <5>5
      <4> QED BY <1>13, <2>4, <3>1, <4>1, <4>2
    <3>2. ASSUME NEW c \in Z, ~DeafZ(c, a)' PROVE FitsZ(c, a)'
      BY <1>2, <1>9, <1>14, <2>4, <3>s, <3>2 DEF FitsZ
    <3> QED BY <2>4, <3>1, <3>2 DEF ToldOf
  <2> QED BY <2>2, <2>3, <2>4
<1>20. Alone'
  BY <1>4, <1>5, <1>a, AloneKept
<1> QED BY <1>6, <1>8, <1>10, <1>17, <1>18, <1>19, <1>20 DEF Core
-----------------------------------------------------------------------------
(* A command ends. *)

\* Only the actor's own ports, and what it is shown, may change.
Ends(p) ==
  /\ OnlyJob(p, Idle) /\ job[p].pc # "notify" /\ state' = state
  /\ \A c \in W, t \in Tid, b \in Addr :
       \/ DeafW(c, t, b)' \/ Fits(c, t, b)'
       \/ ~DeafW(c, t, b) /\ Lastly(c, t, b)' = Lastly(c, t, b) /\ (c = p => ~Noting(c, t, b))
  /\ \A c \in W \ {p}, t \in Tid, b \in Addr :
       (DeafW(c, t, b)' <=> DeafW(c, t, b)) /\ Lastly(c, t, b)' = Lastly(c, t, b)
  /\ \A c \in Z, b \in Addr :
       DeafZ(c, b)' \/ FitsZ(c, b)' \/ (~DeafZ(c, b) /\ shown'[c][b] = shown[c][b])

LEMMA IdleJob ==
  /\ Idle \in Jobs /\ Idle.pc = "idle" /\ Idle.a = None /\ Idle.t = None /\ Idle.op = None /\ Idle.alone
  /\ Idle.v = 0 /\ Idle.fwd = TRUE
BY DEF Idle, Job, Jobs, Speeds

LEMMA EndsKeeps ==
  ASSUME Core, NEW p \in Worker, Ends(p)
  PROVE  Core'
<1>1. job' \in [Worker -> Jobs] /\ job'[p] = Idle /\ \A q \in Worker \ {p} : job'[q] = job[q]
  BY IdleJob, OnlyJobFacts DEF Ends
<1>2. ASSUME NEW q \in Worker \ {p} PROVE Own(q)'
  <2>1. Own(q) /\ job[q] \in Jobs
    BY DEF Core
  <2>2. q \in W /\ job[q].a # None => job[q].t \in Tid /\ job[q].a \in Addr
    BY <2>1 DEF Own, Shaped, Jobs
  <2>3. job'[q] = job[q] /\ state' = state
    BY <1>1 DEF Ends
  <2>4. ASSUME q \in W, job[q].a # None
        PROVE  /\ DeafW(q, job[q].t, job[q].a) <=> DeafW(q, job[q].t, job[q].a)'
               /\ Lastly(q, job[q].t, job[q].a)' = Lastly(q, job[q].t, job[q].a)
    <3>1. PICK t \in Tid, b \in Addr : t = job[q].t /\ b = job[q].a
      BY <2>2, <2>4
    <3>2. (DeafW(q, t, b)' <=> DeafW(q, t, b)) /\ Lastly(q, t, b)' = Lastly(q, t, b)
      BY <2>4 DEF Ends
    <3> QED BY <2>3, <3>1, <3>2 DEF DeafW, Lastly
  <2>5. Bystander(q)
    BY <2>3, <2>4 DEF Bystander
  <2> QED BY <2>1, <2>5, BystanderKept
<1>3. Own(p)'
  BY <1>1, IdleJob DEF Own, Shaped, InCompany, Knows, Turns
<1>4. Alone'
  BY IdleJob, AloneKept DEF Ends
<1>5. ASSUME NEW b \in Addr PROVE ToldOf(b)'
  <2>1. ToldOf(b)
    BY DEF Core
  <2>2. Telling(b) => Telling(b)'
    BY <1>1 DEF Telling, Ends
  <2>3. ASSUME NEW c \in W, NEW t \in Tid, ~DeafW(c, t, b)'
        PROVE  (Fits(c, t, b) \/ Telling(b) \/ Noting(c, t, b))'
    <3>1. SUFFICES ASSUME ~DeafW(c, t, b), Lastly(c, t, b)' = Lastly(c, t, b), c = p => ~Noting(c, t, b)
                   PROVE  (Fits(c, t, b) \/ Telling(b) \/ Noting(c, t, b))'
      BY <2>3 DEF Ends
    <3>2. Fits(c, t, b) => Fits(c, t, b)'
      BY <3>1 DEF Fits, Ends
    <3>3. Noting(c, t, b) => Noting(c, t, b)'
      BY <1>1, <3>1 DEF Noting, Worker, Remote
    <3> QED BY <2>1, <2>2, <3>1, <3>2, <3>3 DEF ToldOf
  <2>4. ASSUME NEW c \in Z, ~DeafZ(c, b)' PROVE FitsZ(c, b)' \/ Telling(b)'
    <3>1. CASE ~DeafZ(c, b) /\ shown'[c][b] = shown[c][b]
      BY <2>1, <2>2, <3>1 DEF ToldOf, FitsZ, Ends
    <3> QED BY <2>4, <3>1 DEF Ends
  <2> QED BY <2>3, <2>4 DEF ToldOf
<1> QED BY <1>1, <1>2, <1>3, <1>4, <1>5 DEF Core

\* Subscribe, WebDone: nothing is noted.
LEMMA PlainEnd ==
  ASSUME Core, NEW p \in Worker, job[p].pc \in {"subscribe", "done", "failed"},
         p \in W => job[p].pc = "subscribe",
         job' = [job EXCEPT ![p] = Idle], UNCHANGED <<wire, state, shown, unheard>>
  PROVE  Core'
<1>1. \A c \in W, t \in Tid, b \in Addr : c = p => ~Noting(c, t, b)
  BY DEF Noting
<1>2. Ends(p)
  BY <1>1 DEF Ends, OnlyJob, DeafW, DeafZ, Lastly
<1> QED BY <1>2, EndsKeeps

LEMMA WiThrottleDoneKeeps ==
  ASSUME Core, GatewayTypes, NEW c \in W, WiThrottleDone(c)
  PROVE  Core' /\ wire' \in [W -> [Tid -> Wires]]
<1>w. c \in Worker
  BY DEF Worker, Remote
<1>0. job[c] \in Jobs /\ Own(c) /\ job[c].pc \in {"done", "failed"}
  BY <1>w DEF Core, WiThrottleDone
<1>1. PICK t \in Tid, a \in Addr, v \in Speeds : t = job[c].t /\ a = job[c].a /\ v = job[c].v
  BY <1>0 DEF Own, Shaped, Jobs
<1> DEFINE known == job[c].op = "I" \/ (job[c].op = "V" /\ job[c].pc = "done")
<1>2. /\ wire' = IF known THEN [wire EXCEPT ![c][t].lastSpeed[a] = v] ELSE wire
      /\ unheard' = IF known /\ job[c].pc = "failed" THEN unheard \cup {<<<<c, t>>, a>>} ELSE unheard
      /\ job' = [job EXCEPT ![c] = Idle] /\ state' = state /\ shown' = shown
  BY <1>1 DEF WiThrottleDone
<1>3. /\ wire' \in [W -> [Tid -> Wires]]
      /\ known => Lastly(c, t, a)' = v
      /\ \A d \in W, u \in Tid, b \in Addr :
           <<d, u, b>> # <<c, t, a>> \/ ~known => Lastly(d, u, b)' = Lastly(d, u, b)
  <2>1. CASE known
    <3> DEFINE l == [wire[c][t].lastSpeed EXCEPT ![a] = v]
               k == [wire[c][t] EXCEPT !.lastSpeed = l]
               m == [wire[c] EXCEPT ![t] = k]
    <3>1. wire \in [W -> [Tid -> Wires]] /\ wire[c] \in [Tid -> Wires] /\ wire[c][t] \in Wires
      BY DEF GatewayTypes
    <3>2. wire[c][t].lastSpeed \in [Addr -> Speeds \cup {None}]
      BY <3>1 DEF Wires
    <3>3. l \in [Addr -> Speeds \cup {None}] /\ l[a] = v /\ \A b \in Addr \ {a} : l[b] = wire[c][t].lastSpeed[b]
      BY <3>2
    <3>4. wire' = [wire EXCEPT ![c] = m]
      BY <1>2, <2>1
    <3> HIDE DEF l
    <3>5. k \in Wires /\ k.lastSpeed = l
      BY <3>1, <3>3 DEF Wires
    <3> HIDE DEF k
    <3>6. m \in [Tid -> Wires] /\ m[t] = k /\ \A u \in Tid \ {t} : m[u] = wire[c][u]
      BY <3>1, <3>5
    <3> HIDE DEF m
    <3>7. wire' \in [W -> [Tid -> Wires]] /\ wire'[c] = m /\ \A d \in W \ {c} : wire'[d] = wire[d]
      BY <3>1, <3>4, <3>6
    <3>8. Lastly(c, t, a)' = v
      BY <3>3, <3>5, <3>6, <3>7 DEF Lastly
    <3>9. ASSUME NEW d \in W, NEW u \in Tid, NEW b \in Addr, <<d, u, b>> # <<c, t, a>>
          PROVE  Lastly(d, u, b)' = Lastly(d, u, b)
      <4>1. CASE d # c
        BY <3>7, <4>1 DEF Lastly
      <4>2. CASE d = c /\ u # t
        BY <3>6, <3>7, <4>2 DEF Lastly
      <4>3. CASE d = c /\ u = t /\ b # a
        BY <3>3, <3>5, <3>6, <3>7, <4>3 DEF Lastly
      <4> QED BY <3>9, <4>1, <4>2, <4>3
    <3> QED BY <2>1, <3>7, <3>8, <3>9
  <2>2. CASE ~known
    BY <1>2, <2>2 DEF GatewayTypes, Lastly
  <2> QED BY <2>1, <2>2
<1>4. \A d \in W, u \in Tid, b \in Addr : <<d, u, b>> # <<c, t, a>> => (DeafW(d, u, b)' <=> DeafW(d, u, b))
  BY <1>2 DEF DeafW
<1>5. DeafW(c, t, a) => DeafW(c, t, a)'
  BY <1>2 DEF DeafW
<1>6. \A u \in Tid, b \in Addr : <<u, b>> # <<t, a>> => ~Noting(c, u, b)
  BY <1>1 DEF Noting
<1>7. DeafW(c, t, a)' \/ Fits(c, t, a)' \/ (~DeafW(c, t, a) /\ Lastly(c, t, a)' = Lastly(c, t, a) /\ ~Noting(c, t, a))
  <2>1. CASE known /\ job[c].pc = "failed"
    BY <1>2, <2>1 DEF DeafW
  <2>2. CASE known /\ job[c].pc = "done" /\ job[c].alone
    <3>1. state[a].speed = UISpeed(ClampSpeedForControllerLimit(c, a, v))
      BY <1>0, <1>1, <2>2 DEF Own, Knows, Sent
    <3> QED BY <1>2, <1>3, <2>2, <3>1 DEF Fits
  <2>3. CASE known /\ ~job[c].alone
    <3>1. a # None
      <4>1. None \notin Addr
        BY ThrottlesAssumption
      <4> QED BY <4>1
    <3>2. DeafW(c, t, a)
      BY <1>0, <1>1, <2>3, <3>1 DEF Own, InCompany
    <3> QED BY <1>5, <3>2
  <2>4. CASE ~known
    <3>1. ~Noting(c, t, a)
      BY <1>0, <2>4 DEF Noting
    <3>2. DeafW(c, t, a)' <=> DeafW(c, t, a)
      BY <1>2, <2>4 DEF DeafW
    <3> QED BY <1>3, <2>4, <3>1, <3>2
  <2> QED BY <1>0, <2>1, <2>2, <2>3, <2>4
<1>8. Ends(c)
  <2>1. OnlyJob(c, Idle) /\ job[c].pc # "notify" /\ state' = state
    BY <1>0, <1>2 DEF OnlyJob
  <2>2. ASSUME NEW d \in W, NEW u \in Tid, NEW b \in Addr
        PROVE  \/ DeafW(d, u, b)' \/ Fits(d, u, b)'
               \/ ~DeafW(d, u, b) /\ Lastly(d, u, b)' = Lastly(d, u, b) /\ (d = c => ~Noting(d, u, b))
    <3>1. CASE <<d, u, b>> = <<c, t, a>>
      <4>1. d = c /\ u = t /\ b = a
        BY <3>1
      <4> QED BY <1>7, <4>1
    <3>2. CASE <<d, u, b>> # <<c, t, a>>
      BY <1>3, <1>4, <1>6, <3>2
    <3> QED BY <3>1, <3>2
  <2>3. \A d \in W \ {c}, u \in Tid, b \in Addr :
          (DeafW(d, u, b)' <=> DeafW(d, u, b)) /\ Lastly(d, u, b)' = Lastly(d, u, b)
    BY <1>3, <1>4
  <2>4. \A d \in Z, b \in Addr : (DeafZ(d, b)' <=> DeafZ(d, b)) /\ shown'[d][b] = shown[d][b]
    <3>1. \A d \in Z : d # <<c, t>>
      <4>1. Z \cap ((W \cup Z \cup {Web}) \X (Tid \cup {None})) = {}
        BY ThrottlesAssumption
      <4> QED BY <4>1
    <3> QED BY <1>2, <3>1 DEF DeafZ
  <2> QED BY <2>1, <2>2, <2>3, <2>4 DEF Ends
<1> QED BY <1>3, <1>8, <1>w, EndsKeeps

LEMMA Z21DoneKeeps ==
  ASSUME Core, GatewayTypes, NEW c \in Z, Z21Done(c)
  PROVE  Core' /\ shown' \in [Z -> [Addr -> Infos \cup {None}]]
<1>w. c \in Worker /\ c \notin W
  BY ThrottlesAssumption DEF Worker, Remote
<1>0. job[c] \in Jobs /\ Own(c) /\ job[c].pc \in {"done", "failed"}
  BY <1>w DEF Core, Z21Done
<1>1. PICK a \in Addr : a = job[c].a
  BY <1>0 DEF Own, Shaped, Jobs
<1> DEFINE echo == job[c].pc = "done" /\ job[c].op # "stop" /\ Known(c)
<1>2. /\ shown' = IF echo THEN [shown EXCEPT ![c][a] = buildLocoInfoReply(state[a])] ELSE shown
      /\ unheard' = IF echo /\ job[c].alone THEN unheard \ {<<c, a>>} ELSE unheard
      /\ job' = [job EXCEPT ![c] = Idle] /\ state' = state /\ wire' = wire
  BY <1>1 DEF Z21Done, registered
<1>3. buildLocoInfoReply(state[a]) \in Infos
  BY InfoType DEF GatewayTypes
<1>4. /\ shown' \in [Z -> [Addr -> Infos \cup {None}]]
      /\ echo => shown'[c][a] = buildLocoInfoReply(state[a])
      /\ \A d \in Z, b \in Addr : <<d, b>> # <<c, a>> \/ ~echo => shown'[d][b] = shown[d][b]
  BY <1>2, <1>3 DEF GatewayTypes
<1>5. \A d \in Z, b \in Addr : <<d, b>> # <<c, a>> \/ ~echo => (DeafZ(d, b)' <=> DeafZ(d, b))
  BY <1>2 DEF DeafZ
<1>6. \A d \in W, t \in Tid, b \in Addr : DeafW(d, t, b)' <=> DeafW(d, t, b)
  <2>1. \A d \in W, t \in Tid : c # <<d, t>>
    <3>1. Z \cap ((W \cup Z \cup {Web}) \X (Tid \cup {None})) = {}
      BY ThrottlesAssumption
    <3> QED BY <3>1
  <2> QED BY <1>2, <2>1 DEF DeafW
<1> HIDE DEF echo
<1>7. ASSUME NEW d \in Z, NEW b \in Addr
      PROVE  DeafZ(d, b)' \/ FitsZ(d, b)' \/ (~DeafZ(d, b) /\ shown'[d][b] = shown[d][b])
  <2>1. CASE <<d, b>> = <<c, a>> /\ echo
    <3>1. d = c /\ b = a
      BY <2>1
    <3> QED BY <1>2, <1>4, <2>1, <3>1 DEF FitsZ
  <2>2. CASE <<d, b>> # <<c, a>> \/ ~echo
    BY <1>4, <1>5, <2>2
  <2> QED BY <2>1, <2>2
<1>8. Ends(c)
  <2>1. OnlyJob(c, Idle) /\ job[c].pc # "notify" /\ state' = state
    BY <1>0, <1>2 DEF OnlyJob
  <2>2. \A d \in W, t \in Tid, b \in Addr : d # c /\ Lastly(d, t, b)' = Lastly(d, t, b)
    BY <1>2, <1>w DEF Lastly
  <2> QED BY <1>6, <1>7, <2>1, <2>2 DEF Ends
<1> QED BY <1>4, <1>8, <1>w, EndsKeeps
-----------------------------------------------------------------------------
(* What the handlers leave in the gateways. *)

Feed ==
  /\ flag \subseteq Z /\ wire \in [W -> [Tid -> Wires]] /\ state \in [Addr -> States]
  /\ shown \in [Z -> [Addr -> Infos \cup {None}]]
  /\ radio \in BOOLEAN /\ inputs \in 0 .. MaxCalls /\ unheard \subseteq Port \X Addr

LEMMA Parts == ThrottlesInv <=> Reg /\ Feed /\ Core
BY DEF ThrottlesInv, GatewayTypes, Reg, Feed, Listed

LEMMA WorkType ==
  ASSUME inputs \in 0 .. MaxCalls, Work
  PROVE  inputs' \in 0 .. MaxCalls
BY ThrottlesAssumption DEF Work

LEMMA PortKinds ==
  /\ \A c \in W, t \in Tid : <<c, t>> \in Port /\ <<c, t>> \notin Z /\ Owner(<<c, t>>) = c
  /\ \A c \in Z : c \in Port /\ Owner(c) = c /\ c \notin W
<1>1. Z \cap ((W \cup Z \cup {Web}) \X (Tid \cup {None})) = {}
  BY ThrottlesAssumption
<1>2. W \cap Z = {}
  BY ThrottlesAssumption
<1> QED BY <1>1, <1>2 DEF Port, Owner

LEMMA JobType ==
  ASSUME NEW pc \in {"store", "estop", "subscribe"}, NEW op \in WOps \cup ZOps \cup {"web"},
         NEW a \in Addr, NEW t \in Tid \cup {None}, NEW v \in Speeds, NEW f \in BOOLEAN
  PROVE  LET r == Job(pc, op, a, t, v, f) IN
         r \in Jobs /\ r.pc = pc /\ r.op = op /\ r.a = a /\ r.t = t /\ r.v = v
BY DEF Job, Jobs

LEMMA PayloadType ==
  ASSUME NEW v \in Payloads
  PROVE  v \in Speeds
<1>1. Payloads \subseteq 0 .. Steps /\ Steps \in {14, 28, 128}
  BY ThrottlesAssumption
<1> QED BY <1>1 DEF Speeds

LEMMA BeginType ==
  ASSUME unheard \subseteq Port \X Addr, NEW p, NEW r, r.a \in Addr, Begin(p, r)
  PROVE  unheard' \subseteq Port \X Addr
<1>1. Port \X {r.a} \subseteq Port \X Addr
  OBVIOUS
<1>2. unheard' = unheard \/ unheard' = unheard \cup (Port \X {r.a})
  BY DEF Begin
<1> QED BY <1>1, <1>2

\* A throttle id changes.
Rewired(c, t, w) == wire' = [wire EXCEPT ![c][t] = w]
WireEffect(c, t, w) ==
  /\ wire' \in [W -> [Tid -> Wires]] /\ wire'[c][t] = w
  /\ \A d \in W, u \in Tid : <<d, u>> # <<c, t>> => wire'[d][u] = wire[d][u]

LEMMA WireChange ==
  ASSUME Feed, NEW c \in W, NEW t \in Tid, NEW w \in Wires, Rewired(c, t, w)
  PROVE  WireEffect(c, t, w)
<1> DEFINE m == [wire[c] EXCEPT ![t] = w]
<1>1. wire \in [W -> [Tid -> Wires]] /\ wire[c] \in [Tid -> Wires]
  BY DEF Feed
<1>2. wire' = [wire EXCEPT ![c] = m]
  BY DEF Rewired
<1>3. m \in [Tid -> Wires] /\ m[t] = w /\ \A u \in Tid \ {t} : m[u] = wire[c][u]
  BY <1>1
<1> HIDE DEF m
<1>4. wire' \in [W -> [Tid -> Wires]] /\ wire'[c] = m /\ \A d \in W \ {c} : wire'[d] = wire[d]
  BY <1>1, <1>2, <1>3
<1>5. ASSUME NEW d \in W, NEW u \in Tid, <<d, u>> # <<c, t>> PROVE wire'[d][u] = wire[d][u]
  <2>1. CASE d = c
    BY <1>3, <1>4, <1>5, <2>1
  <2>2. CASE d # c
    BY <1>4, <2>2
  <2> QED BY <2>1, <2>2
<1> QED BY <1>3, <1>4, <1>5 DEF WireEffect

LEMMA FreshType ==
  /\ FreshWire \in [Tid -> Wires]
  /\ \A t \in Tid, a \in Addr : FreshWire[t].lastSpeed[a] = None
BY DEF FreshWire, Wires

\* A client's throttles start afresh.
LEMMA WireFresh ==
  ASSUME Feed, NEW c \in W, wire' = [wire EXCEPT ![c] = FreshWire]
  PROVE  /\ wire' \in [W -> [Tid -> Wires]]
         /\ \A t \in Tid, a \in Addr : Lastly(c, t, a)' = None
         /\ \A d \in W \ {c}, t \in Tid, a \in Addr : Lastly(d, t, a)' = Lastly(d, t, a)
<1>1. wire' \in [W -> [Tid -> Wires]] /\ wire'[c] = FreshWire /\ \A d \in W \ {c} : wire'[d] = wire[d]
  BY FreshType DEF Feed
<1>2. \A t \in Tid, a \in Addr : Lastly(c, t, a)' = None
  BY <1>1, FreshType DEF Lastly
<1> QED BY <1>1, <1>2 DEF Lastly
-----------------------------------------------------------------------------
(* Presence. *)

\* Nothing the goroutines look at has changed.
LEMMA NothingToSee ==
  ASSUME Core, UNCHANGED <<job, state, wire, shown, unheard>>
  PROVE  Core'
<1>1. Quiet
  BY DEF Quiet, DeafW, DeafZ, Lastly, FitsZ
<1> QED BY <1>1, QuietKeeps

LEMMA TouchKeeps ==
  ASSUME ThrottlesInv, NEW c \in Z, NEW s \in Scopes, Touch(c, s)
  PROVE  ThrottlesInv'
<1>1. Reg'
  BY RegNew, Parts DEF Touch, Remote
<1>2. Core'
  BY NothingToSee, Parts DEF Touch
<1>3. Feed'
  BY WorkType, Parts DEF Touch, Feed
<1> QED BY <1>1, <1>2, <1>3, Parts DEF ThrottlesInv, GatewayTypes, Reg, Feed, Listed

LEMMA SyncKeeps ==
  ASSUME ThrottlesInv, NEW c \in Remote, NEW s \in Scopes \cup {None}, syncPairedByKey(c, s)
  PROVE  ThrottlesInv'
<1>1. Reg'
  BY RegSession, Parts DEF syncPairedByKey
<1>2. Core'
  BY NothingToSee, Parts DEF syncPairedByKey
<1>3. Feed'
  BY WorkType, Parts DEF syncPairedByKey, Feed
<1> QED BY <1>1, <1>2, <1>3 DEF ThrottlesInv, GatewayTypes, Reg, Feed, Listed

LEMMA Whole ==
  ASSUME Reg', Feed', Core'
  PROVE  ThrottlesInv'
BY DEF ThrottlesInv, GatewayTypes, Reg, Feed, Listed

\* Ports of one client, all locos.
LEMMA PortsOfFacts ==
  ASSUME NEW c \in Remote
  PROVE  /\ PortsOf(c) \X Addr \subseteq Port \X Addr
         /\ c \in W => \A t \in Tid, a \in Addr : <<<<c, t>>, a>> \in PortsOf(c) \X Addr
         /\ \A d \in W \ {c}, t \in Tid, a \in Addr : <<<<d, t>>, a>> \notin PortsOf(c) \X Addr
         /\ \A d \in Z \ {c}, a \in Addr : <<d, a>> \notin PortsOf(c) \X Addr
BY PortKinds DEF PortsOf

\* The client's throttles and displays are gone, and with them what it has not
\* heard, unless a command of its own is still to write.
Cleared(c) ==
  /\ job' = job /\ state' = state
  /\ c \in W => wire' = [wire EXCEPT ![c] = FreshWire] /\ shown' = shown
  /\ c \in Z => shown' = [shown EXCEPT ![c] = [a \in Addr |-> None]] /\ wire' = wire
  /\ \/ job[c].pc # "idle" /\ unheard' = unheard \cup (PortsOf(c) \X Addr)
     \/ job[c].pc = "idle" /\ unheard' \in {unheard, unheard \ Forgotten(c)}

LEMMA ClearedKeeps ==
  ASSUME Core, Feed, NEW c \in Remote, Cleared(c)
  PROVE  Core' /\ wire' \in [W -> [Tid -> Wires]] /\ shown' \in [Z -> [Addr -> Infos \cup {None}]]
         /\ unheard' \subseteq Port \X Addr
<1>1. /\ wire' \in [W -> [Tid -> Wires]]
      /\ c \in W => \A t \in Tid, a \in Addr : Lastly(c, t, a)' = None
      /\ \A d \in W \ {c}, t \in Tid, a \in Addr : Lastly(d, t, a)' = Lastly(d, t, a)
  <2>1. CASE c \in W
    BY <2>1, WireFresh DEF Cleared
  <2>2. CASE c \in Z
    BY <2>2, PortKinds DEF Cleared, Feed, Lastly
  <2> QED BY <2>1, <2>2 DEF Remote
<1>2. /\ shown' \in [Z -> [Addr -> Infos \cup {None}]]
      /\ c \in Z => \A a \in Addr : shown'[c][a] = None
      /\ \A d \in Z \ {c} : shown'[d] = shown[d]
  <2>1. CASE c \in W
    BY <2>1, PortKinds DEF Cleared, Feed
  <2>2. CASE c \in Z
    <3> DEFINE dark == [a \in Addr |-> None]
    <3>1. shown' = [shown EXCEPT ![c] = dark]
      BY <2>2 DEF Cleared
    <3>2. dark \in [Addr -> Infos \cup {None}] /\ \A a \in Addr : dark[a] = None
      OBVIOUS
    <3> HIDE DEF dark
    <3> QED BY <2>2, <3>1, <3>2 DEF Feed
  <2> QED BY <2>1, <2>2 DEF Remote
<1>3. \A d \in W \ {c}, t \in Tid, a \in Addr : DeafW(d, t, a)' <=> DeafW(d, t, a)
  <2>1. ASSUME NEW d \in W \ {c}, NEW t \in Tid, NEW a \in Addr
        PROVE  <<<<d, t>>, a>> \notin Forgotten(c) /\ <<<<d, t>>, a>> \notin PortsOf(c) \X Addr
    <3>1. Owner(<<d, t>>) # c
      BY PortKinds
    <3> QED BY <3>1, PortsOfFacts DEF Forgotten
  <2> QED BY <2>1 DEF Cleared, DeafW
<1>4. \A d \in Z \ {c}, a \in Addr : DeafZ(d, a)' <=> DeafZ(d, a)
  <2>1. ASSUME NEW d \in Z \ {c}, NEW a \in Addr
        PROVE  <<d, a>> \notin Forgotten(c) /\ <<d, a>> \notin PortsOf(c) \X Addr
    <3>1. Owner(d) # c
      BY PortKinds
    <3> QED BY <3>1, PortsOfFacts DEF Forgotten
  <2> QED BY <2>1 DEF Cleared, DeafZ
<1>5. c \in W /\ job[c].pc # "idle" => \A t \in Tid, a \in Addr : DeafW(c, t, a)'
  BY PortsOfFacts DEF Cleared, DeafW
<1>6. Quiet
  <2>1. ASSUME NEW d \in W, NEW t \in Tid, NEW a \in Addr
        PROVE  /\ \/ DeafW(d, t, a)' \/ Lastly(d, t, a)' = None
                  \/ ~DeafW(d, t, a) /\ Lastly(d, t, a)' = Lastly(d, t, a)
               /\ job[d].pc # "idle" =>
                    /\ DeafW(d, t, a) => DeafW(d, t, a)'
                    /\ \/ Lastly(d, t, a)' = Lastly(d, t, a)
                       \/ Lastly(d, t, a)' = None /\ DeafW(d, t, a)'
    <3>1. CASE d = c
      BY <1>1, <1>5, <3>1
    <3>2. CASE d # c
      BY <1>1, <1>3, <3>2
    <3> QED BY <3>1, <3>2
  <2>2. ASSUME NEW d \in Z, NEW a \in Addr
        PROVE  DeafZ(d, a)' \/ FitsZ(d, a)' \/ (~DeafZ(d, a) /\ shown'[d][a] = shown[d][a])
    <3>1. CASE d = c
      BY <1>2, <3>1 DEF FitsZ
    <3>2. CASE d # c
      BY <1>2, <1>4, <3>2
    <3> QED BY <3>1, <3>2
  <2> QED BY <2>1, <2>2 DEF Quiet, Cleared
<1>7. unheard' \subseteq Port \X Addr
  BY PortsOfFacts DEF Cleared, Feed
<1> QED BY <1>1, <1>2, <1>6, <1>7, QuietKeeps

LEMMA LeaveKeeps ==
  ASSUME ThrottlesInv, NEW c \in Remote, Leave(c)
  PROVE  ThrottlesInv'
<1>0. Reg /\ Feed /\ Core
  BY Parts
<1>1. Reg'
  BY <1>0, RegRemove DEF Leave
<1>2. Cleared(c)
  BY PortKinds DEF Leave, RemoveClient, Cleared, AtRest, Remote
<1>3. Core' /\ wire' \in [W -> [Tid -> Wires]] /\ shown' \in [Z -> [Addr -> Infos \cup {None}]]
      /\ unheard' \subseteq Port \X Addr
  BY <1>0, <1>2, ClearedKeeps
<1>4. Feed'
  BY <1>0, <1>3, WorkType DEF Leave, RemoveClient, Feed
<1> QED BY <1>1, <1>3, <1>4, Whole

LEMMA OnConnectKeeps ==
  ASSUME ThrottlesInv, NEW c \in W, NEW s \in Scopes, OnConnect(c, s)
  PROVE  ThrottlesInv'
<1>0. Reg /\ Feed /\ Core /\ c \in Remote
  BY Parts DEF Remote
<1>1. CASE Known(c)
  <2>1. Reg'
    BY <1>0, <1>1, RegSame DEF OnConnect
  <2>2. Cleared(c)
    BY <1>1, PortKinds DEF OnConnect, Cleared, AtRest
  <2>3. Core' /\ wire' \in [W -> [Tid -> Wires]] /\ unheard' \subseteq Port \X Addr
    BY <1>0, <2>2, ClearedKeeps
  <2>4. Feed'
    BY <1>0, <2>3, WorkType DEF OnConnect, Feed
  <2> QED BY <2>1, <2>3, <2>4, Whole
<1>2. CASE ~Known(c)
  <2>1. Reg'
    BY <1>0, <1>2, RegNew DEF OnConnect
  <2>2. wire' = wire /\ shown' = shown /\ state' = state /\ job' = job
        /\ (unheard' = unheard \/ unheard' = unheard \cup (PortsOf(c) \X Addr))
    BY <1>2 DEF OnConnect
  <2>3. Core'
    <3>1. \A d \in Z, a \in Addr : DeafZ(d, a)' <=> DeafZ(d, a)
      <4>1. c \notin Z
        BY PortKinds
      <4> QED BY <1>0, <2>2, <4>1, PortsOfFacts DEF DeafZ
    <3>2. \A d \in W, t \in Tid, a \in Addr : DeafW(d, t, a) => DeafW(d, t, a)'
      BY <2>2 DEF DeafW
    <3>3. Quiet
      BY <2>2, <3>1, <3>2 DEF Quiet, Lastly
    <3> QED BY <1>0, <3>3, QuietKeeps
  <2>4. Feed'
    BY <1>0, <2>2, WorkType, PortsOfFacts DEF OnConnect, Feed
  <2> QED BY <2>1, <2>3, <2>4, Whole
<1> QED BY <1>1, <1>2
-----------------------------------------------------------------------------
(* Commands on their way. *)

LEMMA StoppedType ==
  ASSUME unheard \subseteq Port \X Addr, NEW p, NEW S \in SUBSET Addr, Stopped(p, S)
  PROVE  unheard' \subseteq Port \X Addr
BY DEF Stopped

LEMMA StopsKeep ==
  ASSUME ThrottlesInv,
         \/ \E p \in Worker : EStopStep(p)
         \/ \E a \in Addr : EmergencyStop(a)
         \/ RadioStop
  PROVE  ThrottlesInv'
<1>0. Reg /\ Feed /\ Core /\ GatewayTypes
  BY Parts DEF ThrottlesInv
<1>1. PICK p \in Worker \cup {None}, S \in SUBSET Addr :
        /\ Stopped(p, S) /\ (p \in Worker => job[p].pc = "estop" /\ S \subseteq {job[p].a})
        /\ UNCHANGED <<registered, shown>> /\ radio' \in {radio, FALSE}
        /\ Work \/ inputs' = inputs
  <2>1. ASSUME NEW p \in Worker, EStopStep(p)
        PROVE  /\ \E S \in SUBSET {job[p].a} : Stopped(p, S) /\ S \in SUBSET Addr
               /\ job[p].pc = "estop" /\ UNCHANGED <<registered, shown, radio, inputs>>
    <3>1. job[p].a \in Addr
      BY <1>0, <2>1 DEF EStopStep, Core, Own, Shaped, Jobs
    <3> QED BY <2>1, <3>1 DEF EStopStep
  <2>n. None \notin Worker
    BY ThrottlesAssumption DEF Worker, Remote
  <2>2. CASE \E p \in Worker : EStopStep(p)
    BY <2>1, <2>2
  <2>3. ASSUME NEW a \in Addr, EmergencyStop(a)
        PROVE  Stopped(None, {a}) /\ {a} \in SUBSET Addr /\ UNCHANGED <<registered, shown, radio>> /\ Work
    BY <2>3 DEF EmergencyStop
  <2>4. CASE \E a \in Addr : EmergencyStop(a)
    BY <2>n, <2>3, <2>4
  <2>5. CASE RadioStop
    BY <2>n, <2>5 DEF RadioStop
  <2> QED BY <2>2, <2>4, <2>5
<1>2. inbound' = inbound /\ subs' = subs /\ flag' = flag /\ wire' = wire /\ shown' = shown
  BY <1>1 DEF registered
<1>3. Core' /\ state' \in [Addr -> States]
  BY <1>0, <1>1, <1>2, StoppedKeeps
<1>4. Reg'
  BY <1>0, <1>2, RegSame
<1>5. unheard' \subseteq Port \X Addr
  BY <1>0, <1>1, StoppedType DEF Feed
<1>6. Feed'
  BY <1>0, <1>1, <1>2, <1>3, <1>5, WorkType DEF Feed
<1> QED BY <1>3, <1>4, <1>6, Whole

LEMMA NotifyType ==
  ASSUME Core, Feed, NEW p \in Worker, Notify(p)
  PROVE  unheard' \subseteq Port \X Addr
<1>1. job[p].a \in Addr
  BY DEF Notify, Core, Own, Shaped, Jobs
<1>2. unheard' \subseteq unheard \cup (Port \X {job[p].a})
  BY DEF Notify
<1> QED BY <1>1, <1>2 DEF Feed

LEMMA CommandKeeps ==
  ASSUME ThrottlesInv, NEW p \in Worker, Command(p)
  PROVE  ThrottlesInv'
<1>0. Reg /\ Feed /\ Core /\ GatewayTypes /\ Listed
  BY Parts DEF ThrottlesInv
<1>1. CASE Stored(p)
  <2>1. Core' /\ state' \in [Addr -> States]
    BY <1>0, <1>1, StoredKeeps
  <2>2. Reg'
    BY <1>0, <1>1, RegSame DEF Stored, registered
  <2>3. Feed'
    BY <1>0, <1>1, <2>1 DEF Stored, registered, Feed
  <2> QED BY <2>1, <2>2, <2>3, Whole
<1>2. CASE Superseded(p) \/ Failed(p)
  <2>1. Core'
    BY <1>0, <1>2, GivenUpKeeps
  <2>2. Reg'
    BY <1>0, <1>2, RegSame DEF Superseded, Failed, registered
  <2>3. Feed'
    BY <1>0, <1>2 DEF Superseded, Failed, registered, Feed
  <2> QED BY <2>1, <2>2, <2>3, Whole
<1>3. CASE EStopStep(p)
  BY <1>3, StopsKeep
<1>4. CASE Notify(p)
  <2>1. Core' /\ wire' \in [W -> [Tid -> Wires]] /\ shown' \in [Z -> [Addr -> Infos \cup {None}]]
    BY <1>0, <1>4, NotifyKeeps
  <2>2. Reg'
    BY <1>0, <1>4, RegSame DEF Notify
  <2>3. Feed'
    BY <1>0, <1>4, <2>1, NotifyType DEF Notify, Feed
  <2> QED BY <2>1, <2>2, <2>3, Whole
<1> QED BY <1>1, <1>2, <1>3, <1>4 DEF Command
-----------------------------------------------------------------------------
(* Commands begin and end. *)

\* The WiThrottle handlers.
LEMMA WireStarts ==
  ASSUME ThrottlesInv, NEW c \in W, NEW t \in Tid, NEW a \in Addr, NEW r \in Jobs, AtRest(c), Begin(c, r),
         r.a = a, r.t = t, r.op \in WOps, r.pc \in {"store", "estop", "subscribe"},
         r.pc = "store" => r.op \notin {"X", "acquire"}, r.pc = "estop" => r.op = "X",
         r.op = "R" => r.v = IF Lastly(c, t, a) = None THEN 0 ELSE Lastly(c, t, a),
         wire' \in [W -> [Tid -> Wires]],
         \A d \in W, u \in Tid : wire'[d][u].lastSpeed = wire[d][u].lastSpeed,
         Work, UNCHANGED <<inbound, subs, flag, state, shown, radio>>
  PROVE  ThrottlesInv'
<1>0. Reg /\ Feed /\ Core /\ c \in Worker /\ c \notin Z
  BY Parts, PortKinds DEF Worker, Remote
<1>1. Starts(c, r)
  BY <1>0 DEF Starts, AtRest, Lastly, WOps
<1>2. Core'
  BY <1>0, <1>1, StartsKeeps
<1>3. Reg'
  BY <1>0, RegSame
<1>4. unheard' \subseteq Port \X Addr
  BY <1>0, BeginType DEF Feed
<1>5. Feed'
  BY <1>0, <1>4, WorkType DEF Feed
<1> QED BY <1>2, <1>3, <1>5, Whole

LEMMA AcquireKeeps ==
  ASSUME ThrottlesInv, NEW c \in W, NEW t \in Tid, NEW a \in Addr, Acquire(c, t, a)
  PROVE  ThrottlesInv'
<1>0. Feed
  BY Parts
<1> DEFINE r == Job("subscribe", "acquire", a, t, 0, TRUE)
           w == [wire[c][t] EXCEPT !.locos = @ \cup {a}]
<1>1. r \in Jobs /\ r.pc = "subscribe" /\ r.op = "acquire" /\ r.a = a /\ r.t = t
  <2>1. 0 \in Speeds
    BY DEF Speeds
  <2> QED BY <2>1 DEF Job, Jobs, WOps
<1>2. w \in Wires /\ w.lastSpeed = wire[c][t].lastSpeed
  <2>1. wire[c][t] \in Wires
    BY <1>0 DEF Feed
  <2> QED BY <2>1 DEF Wires
<1>3. wire' = [wire EXCEPT ![c][t] = w]
  BY DEF Acquire
<1>4. Begin(c, r) /\ Work /\ AtRest(c) /\ UNCHANGED <<inbound, subs, flag, state, shown, radio>>
  BY DEF Acquire
<1> HIDE DEF r, w
<1>5. /\ wire' \in [W -> [Tid -> Wires]] /\ wire'[c][t] = w
      /\ \A d \in W, u \in Tid : <<d, u>> # <<c, t>> => wire'[d][u] = wire[d][u]
  <2>1. Rewired(c, t, w)
    BY <1>3 DEF Rewired
  <2>2. WireEffect(c, t, w)
    BY <1>0, <1>2, <2>1, WireChange
  <2> QED BY <2>2 DEF WireEffect
<1>6. \A d \in W, u \in Tid : wire'[d][u].lastSpeed = wire[d][u].lastSpeed
  BY <1>2, <1>5
<1> QED BY <1>1, <1>4, <1>5, <1>6, WireStarts DEF WOps

LEMMA KeysKeep ==
  ASSUME ThrottlesInv, NEW c \in W, NEW t \in Tid, NEW a \in Addr,
         \/ \E v \in Payloads : handleSpeed(c, t, a, v)
         \/ handleIdle(c, t, a) \/ handleEStop(c, t, a) \/ handleFunction(c, t, a)
  PROVE  ThrottlesInv'
<1>0. Feed
  BY Parts
<1>1. 0 \in Speeds /\ wire[c][t].forward \in BOOLEAN
  BY <1>0 DEF Speeds, Feed, Wires
<1>2. PICK pc \in {"store", "estop"}, op \in {"V", "I", "F", "X"}, v \in Speeds, f \in BOOLEAN :
        /\ Begin(c, Job(pc, op, a, t, v, f)) /\ (pc = "store" <=> op # "X")
        /\ Work /\ AtRest(c) /\ UNCHANGED <<registered, state, shown, radio>>
  <2>1. ASSUME NEW v \in Payloads, handleSpeed(c, t, a, v)
        PROVE  /\ Begin(c, Job("store", "V", a, t, v, wire[c][t].forward)) /\ v \in Speeds
               /\ Work /\ AtRest(c) /\ UNCHANGED <<registered, state, shown, radio>>
    BY <2>1, PayloadType DEF handleSpeed
  <2>2. CASE \E v \in Payloads : handleSpeed(c, t, a, v)
    BY <1>1, <2>1, <2>2
  <2>3. CASE handleIdle(c, t, a)
    BY <1>1, <2>3 DEF handleIdle
  <2>4. CASE handleEStop(c, t, a)
    BY <1>1, <2>4 DEF handleEStop
  <2>5. CASE handleFunction(c, t, a)
    BY <1>1, <2>5 DEF handleFunction
  <2> QED BY <2>2, <2>3, <2>4, <2>5
<1> DEFINE r == Job(pc, op, a, t, v, f)
<1>3. r \in Jobs /\ r.pc = pc /\ r.op = op /\ r.a = a /\ r.t = t
  BY JobType DEF WOps
<1>4. Begin(c, r)
  BY <1>2
<1> HIDE DEF r
<1>5. wire' = wire /\ inbound' = inbound /\ subs' = subs /\ flag' = flag
  BY <1>2 DEF registered
<1>6. wire' \in [W -> [Tid -> Wires]] /\ \A d \in W, u \in Tid : wire'[d][u].lastSpeed = wire[d][u].lastSpeed
  BY <1>0, <1>5 DEF Feed
<1> QED BY <1>2, <1>3, <1>4, <1>5, <1>6, WireStarts DEF WOps

LEMMA DirectionKeeps ==
  ASSUME ThrottlesInv, NEW c \in W, NEW t \in Tid, NEW a \in Addr, NEW f \in BOOLEAN, handleDirection(c, t, a, f)
  PROVE  ThrottlesInv'
<1>0. Feed /\ Reg /\ Core
  BY Parts
<1> DEFINE w == [wire[c][t] EXCEPT !.forward = f]
           v == IF Lastly(c, t, a) = None THEN 0 ELSE Lastly(c, t, a)
           r == Job("store", "R", a, t, v, f)
<1>1. w \in Wires /\ w.lastSpeed = wire[c][t].lastSpeed
  <2>1. wire[c][t] \in Wires
    BY <1>0 DEF Feed
  <2> QED BY <2>1 DEF Wires
<1>2. wire' = [wire EXCEPT ![c][t] = w]
  BY DEF handleDirection
<1> HIDE DEF w
<1>3. /\ wire' \in [W -> [Tid -> Wires]] /\ wire'[c][t] = w
      /\ \A d \in W, u \in Tid : <<d, u>> # <<c, t>> => wire'[d][u] = wire[d][u]
  <2>1. Rewired(c, t, w)
    BY <1>2 DEF Rewired
  <2>2. WireEffect(c, t, w)
    BY <1>0, <1>1, <2>1, WireChange
  <2> QED BY <2>2 DEF WireEffect
<1>4. \A d \in W, u \in Tid : wire'[d][u].lastSpeed = wire[d][u].lastSpeed
  BY <1>1, <1>3
<1>5. CASE Authorized(c, a)
  <2>1. v \in Speeds
    <3>1. wire[c][t] \in Wires
      BY <1>0 DEF Feed
    <3>2. Lastly(c, t, a) \in Speeds \cup {None}
      BY <3>1 DEF Wires, Lastly
    <3> QED BY <3>2 DEF Speeds
  <2>2. r \in Jobs /\ r.pc = "store" /\ r.op = "R" /\ r.a = a /\ r.t = t /\ r.v = v
    BY <2>1, JobType DEF WOps
  <2>3. Begin(c, r) /\ Work /\ AtRest(c) /\ UNCHANGED <<inbound, subs, flag, state, shown, radio>>
    BY <1>5 DEF handleDirection, Lastly
  <2> HIDE DEF r
  <2> QED BY <1>3, <1>4, <2>2, <2>3, WireStarts DEF WOps
<1>6. CASE ~Authorized(c, a)
  <2>1. UNCHANGED <<job, unheard>> /\ Work /\ UNCHANGED <<inbound, subs, flag, state, shown, radio>>
    BY <1>6 DEF handleDirection
  <2>2. Quiet
    BY <1>4, <2>1 DEF Quiet, DeafW, DeafZ, Lastly, FitsZ
  <2>3. Core'
    BY <1>0, <2>2, QuietKeeps
  <2>4. Reg'
    BY <1>0, <2>1, RegSame
  <2>5. Feed'
    BY <1>0, <1>3, <2>1, WorkType DEF Feed
  <2> QED BY <2>3, <2>4, <2>5, Whole
<1> QED BY <1>5, <1>6

LEMMA GateReleaseKeeps ==
  ASSUME ThrottlesInv, NEW c \in W, NEW t \in Tid, NEW S, GateRelease(c, t, S)
  PROVE  ThrottlesInv'
<1>0. Feed /\ Reg /\ Core /\ c \in Remote
  BY Parts DEF Remote
<1>1. /\ wire' = [wire EXCEPT ![c][t] = Released(wire[c][t], S)] /\ UnsubscribeLocos(c, S)
      /\ Work /\ job[c].pc = "idle" /\ Known(c)
      /\ UNCHANGED <<flag, state, shown, job, radio, unheard>>
  BY DEF GateRelease, AtRest, IsPaired
<1> DEFINE o == wire[c][t]
           l == [a \in Addr |-> IF a \in S THEN None ELSE o.lastSpeed[a]]
           n == o.locos \ S
           m == [o EXCEPT !.locos = n]
           w == [m EXCEPT !.lastSpeed = l]
<1>2. o \in Wires
  BY <1>0 DEF Feed
<1>3. Released(o, S) = w
  BY DEF Released
<1>o. o = wire[c][t]
  OBVIOUS
<1> HIDE DEF o
<1>4. /\ l \in [Addr -> Speeds \cup {None}]
      /\ \A a \in Addr : l[a] = None \/ l[a] = o.lastSpeed[a]
  BY <1>2 DEF Wires
<1>5. n \in SUBSET Addr
  BY <1>2 DEF Wires
<1> HIDE DEF l, n
<1>6. m \in Wires
  BY <1>2, <1>5 DEF Wires
<1> HIDE DEF m
<1>7. w \in Wires /\ w.lastSpeed = l
  BY <1>4, <1>6 DEF Wires
<1> HIDE DEF w
<1>8. /\ wire' \in [W -> [Tid -> Wires]] /\ wire'[c][t] = w
      /\ \A d \in W, u \in Tid : <<d, u>> # <<c, t>> => wire'[d][u] = wire[d][u]
  <2>1. Released(wire[c][t], S) = w
    BY <1>3, <1>o
  <2>2. Rewired(c, t, w)
    BY <1>1, <2>1 DEF Rewired
  <2>3. WireEffect(c, t, w)
    BY <1>0, <1>7, <2>2, WireChange
  <2> QED BY <2>3 DEF WireEffect
<1>9. ASSUME NEW d \in W, NEW u \in Tid, NEW a \in Addr
      PROVE  Lastly(d, u, a)' = Lastly(d, u, a) \/ (Lastly(d, u, a)' = None /\ d = c)
  <2>1. CASE <<d, u>> = <<c, t>>
    <3>1. d = c /\ u = t
      BY <2>1
    <3> QED BY <1>4, <1>7, <1>8, <1>o, <3>1 DEF Lastly
  <2>2. CASE <<d, u>> # <<c, t>>
    BY <1>8, <2>2 DEF Lastly
  <2> QED BY <2>1, <2>2
<1>10. Quiet
  BY <1>1, <1>9 DEF Quiet, DeafW, DeafZ, FitsZ
<1>11. Core'
  BY <1>0, <1>10, QuietKeeps
<1>12. Reg'
  BY <1>0, <1>1, RegUnsubscribe
<1>13. Feed'
  BY <1>0, <1>1, <1>8, WorkType DEF Feed
<1> QED BY <1>11, <1>12, <1>13, Whole

LEMMA SubscribeKeeps ==
  ASSUME ThrottlesInv, NEW c \in W, Subscribe(c)
  PROVE  ThrottlesInv'
<1>0. Reg /\ Feed /\ Core /\ c \in Worker /\ c \in Remote
  BY Parts DEF Worker, Remote
<1>1. job[c].a \in Addr
  BY <1>0 DEF Subscribe, Core, Own, Shaped, Jobs
<1>2. Reg'
  BY <1>0, <1>1, RegSame, RegSubscribe DEF Subscribe
<1>3. Core'
  BY <1>0, PlainEnd DEF Subscribe
<1>4. Feed'
  BY <1>0 DEF Subscribe, Feed
<1> QED BY <1>2, <1>3, <1>4, Whole

LEMMA WiThrottleKeeps ==
  ASSUME ThrottlesInv, NEW c \in W, WiThrottle(c)
  PROVE  ThrottlesInv'
<1>1. CASE WiThrottleDone(c)
  <2>0. Reg /\ Feed /\ Core /\ GatewayTypes
    BY Parts DEF ThrottlesInv
  <2>1. Core' /\ wire' \in [W -> [Tid -> Wires]]
    BY <1>1, <2>0, WiThrottleDoneKeeps
  <2>2. Reg'
    BY <1>1, <2>0, RegSame DEF WiThrottleDone
  <2>3. unheard' \subseteq Port \X Addr
    <3>1. job[c].t \in Tid /\ job[c].a \in Addr
      BY <1>1, <2>0 DEF WiThrottleDone, Core, Own, Shaped, Jobs, Worker, Remote
    <3>2. <<<<c, job[c].t>>, job[c].a>> \in Port \X Addr
      BY <3>1, PortKinds
    <3> QED BY <1>1, <2>0, <3>2 DEF WiThrottleDone, Feed
  <2>4. Feed'
    BY <1>1, <2>0, <2>1, <2>3 DEF WiThrottleDone, Feed
  <2> QED BY <2>1, <2>2, <2>4, Whole
<1>2. CASE \E s \in Scopes : OnConnect(c, s)
  BY <1>2, OnConnectKeeps
<1>3. CASE Subscribe(c)
  BY <1>3, SubscribeKeeps
<1>4. ASSUME NEW t \in Tid, \E S : GateRelease(c, t, S)
      PROVE  ThrottlesInv'
  BY <1>4, GateReleaseKeeps
<1>5. ASSUME NEW t \in Tid, NEW a \in Addr,
             \/ Acquire(c, t, a)
             \/ \E v \in Payloads : handleSpeed(c, t, a, v)
             \/ \E f \in BOOLEAN : handleDirection(c, t, a, f)
             \/ handleIdle(c, t, a) \/ handleEStop(c, t, a)
             \/ handleFunction(c, t, a)
      PROVE  ThrottlesInv'
  BY <1>5, AcquireKeeps, KeysKeep, DirectionKeeps
<1> QED BY <1>1, <1>2, <1>3, <1>4, <1>5 DEF WiThrottle

\* The Z21 handlers.
LEMMA DriveStarts ==
  ASSUME ThrottlesInv, NEW c \in Z, NEW r \in Jobs, AtRest(c), Begin(c, r), r.a \in Addr,
         r.op \in ZOps, r.pc \in {"store", "estop"},
         r.pc = "store" => r.op \notin {"X", "stop"}, r.pc = "estop" => r.op \in {"X", "stop", "drive"},
         Work, Reg', UNCHANGED <<flag, wire, state, shown, radio>>
  PROVE  ThrottlesInv'
<1>0. Feed /\ Core /\ c \in Worker /\ c \notin W
  BY Parts, PortKinds DEF Worker, Remote
<1>1. Starts(c, r)
  BY <1>0 DEF Starts, AtRest, Lastly, ZOps
<1>2. Core'
  BY <1>0, <1>1, StartsKeeps
<1>3. unheard' \subseteq Port \X Addr
  BY <1>0, BeginType DEF Feed
<1>4. Feed'
  BY <1>0, <1>3, WorkType DEF Feed
<1> QED BY <1>2, <1>4, Whole

LEMMA DrivesKeep ==
  ASSUME ThrottlesInv, NEW c \in Z, NEW a \in Addr,
         \/ \E n \in Formats, b \in Bytes, f \in BOOLEAN : HandleSetLocoDrive(c, a, n, b, f)
         \/ HandleSetLocoEStop(c, a) \/ HandleSetLocoFunction(c, a)
  PROVE  ThrottlesInv'
<1>1. 0 \in Speeds
  BY DEF Speeds
<1>2. PICK pc \in {"store", "estop"}, op \in {"drive", "X", "F"}, v \in Speeds, f \in BOOLEAN :
        /\ Begin(c, Job(pc, op, a, None, v, f)) /\ (op = "X" => pc = "estop") /\ (op = "F" => pc = "store")
        /\ Work /\ AtRest(c) /\ Known(c) /\ SetLastActiveLoco(c, a)
        /\ UNCHANGED <<flag, wire, state, shown, radio>>
  <2>1. ASSUME NEW n \in Formats, NEW b \in Bytes, NEW f \in BOOLEAN, HandleSetLocoDrive(c, a, n, b, f)
        PROVE  \E pc \in {"store", "estop"}, v \in Speeds :
               /\ Begin(c, Job(pc, "drive", a, None, v, f))
               /\ Work /\ AtRest(c) /\ Known(c) /\ SetLastActiveLoco(c, a)
               /\ UNCHANGED <<flag, wire, state, shown, radio>>
    BY <2>1, DecodeRange DEF HandleSetLocoDrive, Authorized, IsPaired
  <2>2. CASE \E n \in Formats, b \in Bytes, f \in BOOLEAN : HandleSetLocoDrive(c, a, n, b, f)
    BY <2>1, <2>2
  <2>3. CASE HandleSetLocoEStop(c, a)
    BY <1>1, <2>3 DEF HandleSetLocoEStop, Authorized, IsPaired
  <2>4. CASE HandleSetLocoFunction(c, a)
    BY <1>1, <2>4 DEF HandleSetLocoFunction, Authorized, IsPaired
  <2> QED BY <2>2, <2>3, <2>4
<1> DEFINE r == Job(pc, op, a, None, v, f)
<1>3. r \in Jobs /\ r.pc = pc /\ r.op = op /\ r.a = a
  BY DEF Job, Jobs, ZOps
<1>4. Begin(c, r)
  BY <1>2
<1> HIDE DEF r
<1>5. Reg'
  BY <1>2, Parts, RegSubscribe DEF Remote
<1> QED BY <1>2, <1>3, <1>4, <1>5, DriveStarts DEF ZOps

LEMMA SetStopKeeps ==
  ASSUME ThrottlesInv, NEW c \in Z, handleSetStop(c)
  PROVE  ThrottlesInv'
<1>0. Reg /\ c \in Remote /\ Known(c)
  BY Parts DEF Remote, handleSetStop, IsPaired
<1>1. CurrentLoco(c) \in Addr
  <2>1. inbound[c].last \in Addr \cup {None} /\ inbound[c].fifo \in Seq(Addr)
    BY <1>0, EntryFifo DEF Records
  <2>2. inbound[c].fifo # <<>> => Last(inbound[c].fifo) \in Addr
    BY <2>1 DEF Last
  <2>3. CurrentLoco(c) # None
    BY DEF handleSetStop
  <2> QED BY <2>1, <2>2, <2>3 DEF CurrentLoco
<1>2. PICK a \in Addr : a = CurrentLoco(c)
  BY <1>1
<1> DEFINE r == Job("estop", "stop", a, None, 0, TRUE)
<1>3. r \in Jobs /\ r.pc = "estop" /\ r.op = "stop" /\ r.a = a
  <2>1. 0 \in Speeds
    BY DEF Speeds
  <2> QED BY <2>1 DEF Job, Jobs, ZOps
<1>4. Begin(c, r) /\ Work /\ AtRest(c) /\ UNCHANGED <<registered, state, shown, radio>>
  BY <1>2 DEF handleSetStop
<1> HIDE DEF r
<1>5. Reg' /\ UNCHANGED <<flag, wire>>
  BY <1>0, <1>4, RegSame DEF registered
<1> QED BY <1>3, <1>4, <1>5, DriveStarts DEF ZOps

LEMMA GetLocoInfoKeeps ==
  ASSUME ThrottlesInv, NEW c \in Z, NEW a \in Addr, HandleGetLocoInfo(c, a)
  PROVE  ThrottlesInv'
<1>0. Reg /\ Feed /\ Core /\ c \in Remote /\ Known(c)
  BY Parts DEF Remote, HandleGetLocoInfo, Authorized, IsPaired
<1>1. /\ shown' = [shown EXCEPT ![c][a] = buildLocoInfoReply(state[a])]
      /\ unheard' \in {unheard, unheard \ {<<c, a>>}} /\ Work /\ SetLastActiveLoco(c, a)
      /\ UNCHANGED <<flag, wire, state, job, radio>>
  BY DEF HandleGetLocoInfo
<1>2. buildLocoInfoReply(state[a]) \in Infos
  BY <1>0, InfoType DEF Feed
<1>3. /\ shown' \in [Z -> [Addr -> Infos \cup {None}]]
      /\ shown'[c][a] = buildLocoInfoReply(state[a])
      /\ \A d \in Z, b \in Addr : <<d, b>> # <<c, a>> => shown'[d][b] = shown[d][b]
  BY <1>0, <1>1, <1>2 DEF Feed
<1>4. \A d \in Z, b \in Addr : <<d, b>> # <<c, a>> => (DeafZ(d, b)' <=> DeafZ(d, b))
  BY <1>1 DEF DeafZ
<1>5. \A d \in W, t \in Tid, b \in Addr : DeafW(d, t, b)' <=> DeafW(d, t, b)
  <2>1. \A d \in W, t \in Tid : c # <<d, t>>
    BY PortKinds
  <2> QED BY <1>1, <2>1 DEF DeafW
<1>6. ASSUME NEW d \in Z, NEW b \in Addr
      PROVE  DeafZ(d, b)' \/ FitsZ(d, b)' \/ (~DeafZ(d, b) /\ shown'[d][b] = shown[d][b])
  <2>1. CASE <<d, b>> = <<c, a>>
    <3>1. d = c /\ b = a
      BY <2>1
    <3> QED BY <1>1, <1>3, <3>1 DEF FitsZ
  <2>2. CASE <<d, b>> # <<c, a>>
    BY <1>3, <1>4, <2>2
  <2> QED BY <2>1, <2>2
<1>7. Quiet
  BY <1>1, <1>5, <1>6 DEF Quiet, Lastly
<1>8. Core'
  BY <1>0, <1>7, QuietKeeps
<1>9. Reg'
  BY <1>0, <1>1, RegSubscribe
<1>10. Feed'
  BY <1>0, <1>1, <1>3, WorkType DEF Feed
<1> QED BY <1>8, <1>9, <1>10, Whole

LEMMA Z21Keeps ==
  ASSUME ThrottlesInv, NEW c \in Z, Z21(c)
  PROVE  ThrottlesInv'
<1>0. Reg /\ Feed /\ Core /\ GatewayTypes /\ c \in Remote
  BY Parts DEF ThrottlesInv, Remote
<1>1. CASE Z21Done(c)
  <2>1. Core' /\ shown' \in [Z -> [Addr -> Infos \cup {None}]]
    BY <1>0, <1>1, Z21DoneKeeps
  <2>2. Reg'
    BY <1>0, <1>1, RegSame DEF Z21Done, registered
  <2>3. Feed'
    BY <1>0, <1>1, <2>1 DEF Z21Done, registered, Feed
  <2> QED BY <2>1, <2>2, <2>3, Whole
<1>2. CASE \E s \in Scopes : Touch(c, s)
  BY <1>2, TouchKeeps
<1>3. CASE handleSetStop(c)
  BY <1>3, SetStopKeeps
<1>4. CASE handleTrackPowerOff(c)
  <2>1. Core'
    BY <1>0, <1>4, NothingToSee DEF handleTrackPowerOff, registered
  <2>2. Reg'
    BY <1>0, <1>4, RegSame DEF handleTrackPowerOff, registered
  <2>3. Feed'
    BY <1>0, <1>4, WorkType DEF handleTrackPowerOff, registered, Feed
  <2> QED BY <2>1, <2>2, <2>3, Whole
<1>5. ASSUME NEW on \in BOOLEAN, applyBroadcastFlags(c, on) PROVE ThrottlesInv'
  <2>1. Core'
    BY <1>0, <1>5, NothingToSee DEF applyBroadcastFlags
  <2>2. Reg'
    BY <1>0, <1>5, RegSame DEF applyBroadcastFlags
  <2>3. Feed'
    BY <1>0, <1>5, WorkType DEF applyBroadcastFlags, Feed
  <2> QED BY <2>1, <2>2, <2>3, Whole
<1>6. ASSUME NEW a \in Addr, HandlePurgeLoco(c, a) PROVE ThrottlesInv'
  <2>1. Core'
    BY <1>0, <1>6, NothingToSee DEF HandlePurgeLoco
  <2>2. Reg'
    BY <1>0, <1>6, RegUnsubscribe DEF HandlePurgeLoco, Authorized, IsPaired
  <2>3. Feed'
    BY <1>0, <1>6, WorkType DEF HandlePurgeLoco, Feed
  <2> QED BY <2>1, <2>2, <2>3, Whole
<1>7. ASSUME NEW a \in Addr,
             \/ \E n \in Formats, b \in Bytes, f \in BOOLEAN : HandleSetLocoDrive(c, a, n, b, f)
             \/ HandleSetLocoEStop(c, a) \/ HandleGetLocoInfo(c, a)
             \/ HandlePurgeLoco(c, a) \/ HandleSetLocoFunction(c, a)
      PROVE  ThrottlesInv'
  BY <1>6, <1>7, DrivesKeep, GetLocoInfoKeeps
<1> QED BY <1>1, <1>2, <1>3, <1>4, <1>5, <1>7 DEF Z21

\* A browser.
LEMMA WebKeeps ==
  ASSUME ThrottlesInv,
         \/ WebDone
         \/ \E a \in Addr, v \in Payloads, f \in BOOLEAN : WebSetSpeed(a, v, f)
  PROVE  ThrottlesInv'
<1>0. Reg /\ Feed /\ Core /\ Web \in Worker /\ Web \notin W /\ Web \notin Z
  BY Parts, ThrottlesAssumption DEF Worker
<1>1. CASE WebDone
  <2>1. Core'
    BY <1>0, <1>1, PlainEnd DEF WebDone, registered
  <2>2. Reg'
    BY <1>0, <1>1, RegSame DEF WebDone, registered
  <2>3. Feed'
    BY <1>0, <1>1 DEF WebDone, registered, Feed
  <2> QED BY <2>1, <2>2, <2>3, Whole
<1>2. ASSUME NEW a \in Addr, NEW v \in Payloads, NEW f \in BOOLEAN, WebSetSpeed(a, v, f)
      PROVE  ThrottlesInv'
  <2> DEFINE r == Job("store", "web", a, None, v, f)
  <2>1. r \in Jobs /\ r.pc = "store" /\ r.op = "web" /\ r.a = a
    BY PayloadType DEF Job, Jobs
  <2>2. Begin(Web, r) /\ Work /\ AtRest(Web) /\ UNCHANGED <<registered, state, shown, radio>>
    BY <1>2 DEF WebSetSpeed
  <2> HIDE DEF r
  <2>3. Starts(Web, r)
    BY <1>0, <2>1, <2>2 DEF Starts, AtRest, Lastly, registered
  <2>4. Core'
    BY <1>0, <2>3, StartsKeeps
  <2>5. Reg'
    BY <1>0, <2>2, RegSame DEF registered
  <2>6. unheard' \subseteq Port \X Addr
    BY <1>0, <2>1, <2>2, BeginType DEF Feed
  <2>7. Feed'
    BY <1>0, <2>2, <2>6, WorkType DEF Feed, registered
  <2> QED BY <2>4, <2>5, <2>7, Whole
<1> QED BY <1>1, <1>2

LEMMA InvStep ==
  ASSUME ThrottlesInv, ThrottlesNext
  PROVE  ThrottlesInv'
<1>1. CASE \E p \in Worker : Command(p)
  BY <1>1, CommandKeeps
<1>2. CASE \E c \in W : WiThrottle(c)
  BY <1>2, WiThrottleKeeps
<1>3. CASE \E c \in Z : Z21(c)
  BY <1>3, Z21Keeps
<1>4. CASE \E c \in Remote : Leave(c) \/ \E s \in Scopes \cup {None} : syncPairedByKey(c, s)
  BY <1>4, LeaveKeeps, SyncKeeps
<1>5. CASE \E a \in Addr : EmergencyStop(a) \/ \E v \in Payloads, f \in BOOLEAN : WebSetSpeed(a, v, f)
  BY <1>5, StopsKeep, WebKeeps
<1>6. CASE WebDone \/ RadioStop
  BY <1>6, StopsKeep, WebKeeps
<1> QED BY <1>1, <1>2, <1>3, <1>4, <1>5, <1>6 DEF ThrottlesNext

LEMMA InvStutters ==
  ASSUME ThrottlesInv, UNCHANGED throttleVars
  PROVE  ThrottlesInv'
<1>0. Reg /\ Feed /\ Core
  BY Parts
<1>1. Core'
  BY <1>0, NothingToSee DEF throttleVars
<1>2. Reg' /\ Feed'
  BY <1>0, RegSame DEF throttleVars, Feed
<1> QED BY <1>1, <1>2, Whole

LEMMA InvInit ==
  ASSUME ThrottlesInit
  PROVE  ThrottlesInv
<1>1. PICK at \in [Remote -> Addr], id \in [W -> Tid] :
        /\ inbound = [c \in Remote |->
                        [session |-> Addr, fifo |-> <<at[c]>>,
                         last |-> IF c \in Z THEN at[c] ELSE None]]
        /\ subs = [a \in Addr |-> {c \in Remote : at[c] = a}]
        /\ flag = Z
        /\ wire = [c \in W |-> [FreshWire EXCEPT ![id[c]].locos = {at[c]}]]
        /\ state = [a \in Addr |-> [speed |-> 0, fwd |-> TRUE]]
        /\ shown = [c \in Z |-> [a \in Addr |->
                      IF a = at[c] THEN [db3 |-> 0, fwd |-> TRUE] ELSE None]]
        /\ job = [p \in Worker |-> Idle]
        /\ radio = FALSE /\ unheard = {} /\ inputs = 0
  BY DEF ThrottlesInit
<1>2. ASSUME NEW c \in Remote
      PROVE  /\ inbound[c] \in Records /\ inbound[c].fifo = <<at[c]>>
             /\ Known(c) /\ ToSet(inbound[c].fifo) = {at[c]} /\ Len(inbound[c].fifo) = 1
  <2>1. inbound[c] = [session |-> Addr, fifo |-> <<at[c]>>, last |-> IF c \in Z THEN at[c] ELSE None]
    BY <1>1
  <2>2. Addr \in Scopes
    BY ThrottlesAssumption
  <2>3. inbound[c] \in Records /\ inbound[c].fifo = <<at[c]>>
    BY <2>1, <2>2 DEF Records
  <2>4. inbound[c] # None
    BY <2>3, RecordKnown
  <2>5. ToSet(<<at[c]>>) = {at[c]}
    BY DEF ToSet
  <2> QED BY <2>3, <2>4, <2>5 DEF Known
<1>3. Reg
  <2>1. FifoMax \in Nat \ {0}
    BY ThrottlesAssumption
  <2>2. inbound \in [Remote -> Records \cup {None}]
    BY <1>1, <1>2
  <2>3. subs \in [Addr -> SUBSET Remote]
    BY <1>1
  <2>4. \A a \in Addr, c \in Remote : c \in subs[a] <=> Known(c) /\ a \in ToSet(inbound[c].fifo)
    BY <1>1, <1>2
  <2>5. ASSUME NEW c \in Remote
        PROVE  /\ Len(inbound[c].fifo) <= FifoMax
               /\ \A i, j \in 1 .. Len(inbound[c].fifo) : inbound[c].fifo[i] = inbound[c].fifo[j] => i = j
    <3>1. Len(inbound[c].fifo) = 1
      BY <1>2
    <3>2. \A i, j \in 1 .. 1 : i = j
      OBVIOUS
    <3> QED BY <2>1, <3>1, <3>2
  <2> QED BY <2>2, <2>3, <2>4, <2>5 DEF Reg, Listed
<1>4. ASSUME NEW c \in W
      PROVE  wire[c] \in [Tid -> Wires] /\ \A t \in Tid, a \in Addr : Lastly(c, t, a) = None
  <2> DEFINE k == [FreshWire[id[c]] EXCEPT !.locos = {at[c]}]
  <2>1. wire[c] = [FreshWire EXCEPT ![id[c]] = k]
    BY <1>1
  <2>2. at[c] \in Addr /\ id[c] \in Tid
    BY DEF Remote
  <2>3. FreshWire \in [Tid -> Wires] /\ FreshWire[id[c]] \in Wires
    BY <2>2, FreshType
  <2>4. k \in Wires /\ k.lastSpeed = FreshWire[id[c]].lastSpeed
    BY <2>2, <2>3 DEF Wires
  <2> HIDE DEF k
  <2>5. wire[c] \in [Tid -> Wires] /\ \A t \in Tid : wire[c][t].lastSpeed = FreshWire[t].lastSpeed
    BY <2>1, <2>2, <2>3, <2>4
  <2> QED BY <2>5, FreshType DEF Lastly
<1>5. ASSUME NEW a \in Addr PROVE state[a] \in States /\ state[a].speed = 0 /\ state[a].fwd = TRUE
  <2>1. 0 \in Speeds \ {1}
    BY DEF Speeds
  <2> QED BY <1>1, <2>1 DEF States
<1>6. ASSUME NEW c \in Z, NEW a \in Addr
      PROVE  shown[c][a] \in Infos \cup {None} /\ FitsZ(c, a)
  <2>1. shown[c][a] = IF a = at[c] THEN [db3 |-> 0, fwd |-> TRUE] ELSE None
    BY <1>1
  <2>2. [db3 |-> 0, fwd |-> TRUE] \in Infos
    BY DEF Infos
  <2>3. buildLocoInfoReply(state[a]) = [db3 |-> 0, fwd |-> TRUE]
    <3>1. encodeDriveDB3(0) = 0
      BY DEF encodeDriveDB3
    <3> QED BY <1>5, <3>1 DEF buildLocoInfoReply
  <2> QED BY <2>1, <2>2, <2>3 DEF FitsZ
<1>7. Feed
  <2>1. wire \in [W -> [Tid -> Wires]]
    BY <1>1, <1>4
  <2>2. state \in [Addr -> States]
    BY <1>1, <1>5
  <2>3. shown \in [Z -> [Addr -> Infos \cup {None}]]
    BY <1>1, <1>6
  <2>4. inputs \in 0 .. MaxCalls
    BY <1>1, ThrottlesAssumption
  <2> QED BY <1>1, <2>1, <2>2, <2>3, <2>4 DEF Feed
<1>8. Core
  <2>1. job \in [Worker -> Jobs] /\ \A p \in Worker : job[p] = Idle
    BY <1>1, IdleJob
  <2>2. \A p \in Worker : Own(p)
    BY <2>1, IdleJob DEF Own, Shaped, InCompany, Knows, Turns
  <2>3. Alone
    BY <2>1, IdleJob DEF Alone
  <2>4. \A a \in Addr : ToldOf(a)
    BY <1>4, <1>6 DEF ToldOf, Fits
  <2> QED BY <2>1, <2>2, <2>3, <2>4 DEF Core
<1> QED BY <1>3, <1>7, <1>8, Parts
-----------------------------------------------------------------------------
(* What follows from the invariant. *)

LEMMA InvSound ==
  ASSUME ThrottlesInv
  PROVE  ThrottlesSound
<1>0. Reg /\ Feed /\ Core
  BY Parts
<1>1. ThrottlesTypeOK
  <2>1. ASSUME NEW c \in Remote, Known(c)
        PROVE  /\ inbound[c].session \in Scopes \cup {None}
               /\ inbound[c].fifo \in Seq(Addr) /\ inbound[c].last \in Addr \cup {None}
    BY <1>0, <2>1, EntryFifo DEF Records
  <2>2. ASSUME NEW c \in W, NEW t \in Tid PROVE wire[c][t].locos \subseteq Addr
    <3>1. wire[c][t] \in Wires
      BY <1>0 DEF Feed
    <3> QED BY <3>1 DEF Wires
  <2>3. ASSUME NEW a \in Addr PROVE state[a].speed \in Nat /\ state[a].fwd \in BOOLEAN
    <3>1. state[a] \in States
      BY <1>0 DEF Feed
    <3> QED BY <3>1 DEF States, Speeds
  <2> QED BY <1>0, <2>1, <2>2, <2>3 DEF ThrottlesTypeOK, Reg, Feed
<1>2. IndexFollows
  <2>1. ASSUME NEW a \in Addr
        PROVE  subs[a] = {c \in Remote : Known(c) /\ a \in ToSet(inbound[c].fifo)}
    BY <1>0 DEF Reg, Listed
  <2>2. ASSUME NEW c \in Remote, Known(c)
        PROVE  Len(inbound[c].fifo) = Cardinality(ToSet(inbound[c].fifo)) /\ Len(inbound[c].fifo) <= FifoMax
    <3> DEFINE f == inbound[c].fifo
               n == Len(f)
    <3>1. f \in Seq(Addr) /\ Once(f) /\ n <= FifoMax /\ n \in Nat
      BY <1>0, <2>2, EntryFifo
    <3> HIDE DEF f
    <3>2. f \in Bijection(1 .. n, ToSet(f))
      <4>1. DOMAIN f = 1 .. n /\ f = [i \in 1 .. n |-> f[i]]
        BY <3>1
      <4>2. f \in [1 .. n -> ToSet(f)]
        BY <4>1 DEF ToSet
      <4>3. \A x \in ToSet(f) : \E i \in 1 .. n : f[i] = x
        BY <4>1 DEF ToSet
      <4>4. f \in Injection(1 .. n, ToSet(f))
        BY <3>1, <4>2 DEF Once, Injection, IsInjective
      <4>5. f \in Surjection(1 .. n, ToSet(f))
        BY <4>2, <4>3 DEF Surjection
      <4> QED BY <4>4, <4>5 DEF Bijection
    <3>3. Cardinality(ToSet(f)) = n
      BY <3>1, <3>2, FS_CountingElements DEF ExistsBijection
    <3> QED BY <3>1, <3>3 DEF f
  <2> QED BY <2>1, <2>2 DEF IndexFollows
<1>3. ASSUME NEW a \in Addr, Working(a) = {}
      PROVE  /\ \A c \in W, t \in Tid : ~DeafW(c, t, a) => Fits(c, t, a)
             /\ \A c \in Z : ~DeafZ(c, a) => FitsZ(c, a)
  <2>1. \A p \in Worker : job[p].a # a
    BY <1>3 DEF Working
  <2>2. ~Telling(a) /\ \A c \in W, t \in Tid : ~Noting(c, t, a)
    BY <2>1 DEF Telling, Noting, Worker, Remote
  <2> QED BY <1>0, <2>2 DEF Core, ToldOf
<1>4. DisplayFollows
  <2>1. ASSUME NEW c \in Z, NEW a \in Addr, shown[c][a] # None, Working(a) = {}, <<c, a>> \notin unheard,
               Steps = 14 => state[a].speed <= 15
        PROVE  /\ decodeDriveDB3(Steps, shown[c][a].db3) = Lesser(state[a].speed, MaxShown)
               /\ shown[c][a].fwd = state[a].fwd
               /\ ~isDriveDB3EStop(Steps, shown[c][a].db3)
    <3>1. shown[c][a] = buildLocoInfoReply(state[a])
      BY <1>3, <2>1 DEF DeafZ, FitsZ
    <3>2. state[a].speed \in Speeds \ {1}
      <4>1. state[a] \in States
        BY <1>0 DEF Feed
      <4> QED BY <4>1 DEF States
    <3>3. shown[c][a].db3 = encodeDriveDB3(state[a].speed) /\ shown[c][a].fwd = state[a].fwd
      BY <3>1 DEF buildLocoInfoReply
    <3> QED BY <2>1, <3>2, <3>3, RoundTrip
  <2> QED BY <2>1 DEF DisplayFollows
<1>5. LastSpeedFollows
  BY <1>3 DEF LastSpeedFollows, DeafW, Fits, Lastly
<1> QED BY <1>1, <1>2, <1>4, <1>5 DEF ThrottlesSound

\* Nobody but Stored goes from "store" to "notify".
LEMMA BeginsElsewhere ==
  ASSUME Core, NEW p \in Worker, NEW r, Begin(p, r), AtRest(p), NEW c \in Worker, job[c].pc = "store"
  PROVE  job'[c].pc = "store"
<1>1. c # p /\ job[c] \in Jobs
  BY DEF AtRest, Core
<1>2. job'[c] = IF job[c].a = r.a THEN [job[c] EXCEPT !.alone = FALSE] ELSE job[c]
  BY <1>1 DEF Begin
<1> QED BY <1>1, <1>2 DEF Jobs

LEMMA StopsElsewhere ==
  ASSUME Core, NEW p, NEW S, Stopped(p, S), NEW c \in Worker, job[c].pc = "store"
  PROVE  job'[c].pc # "notify"
<1>1. job[c] \in Jobs
  BY DEF Core
<1>2. job'[c] = IF c = p THEN [job[c] EXCEPT !.pc = "done"]
                ELSE IF job[c].a \in S THEN [job[c] EXCEPT !.alone = FALSE] ELSE job[c]
  BY DEF Stopped
<1> QED BY <1>1, <1>2 DEF Jobs

LEMMA OthersElsewhere ==
  ASSUME Core, NEW p \in Worker, NEW r, job' = [job EXCEPT ![p] = r], r.pc # "notify",
         NEW c \in Worker, job[c].pc = "store"
  PROVE  job'[c].pc # "notify"
BY DEF Core

LEMMA OnlyStored ==
  ASSUME ThrottlesInv, ThrottlesNext, NEW c \in W, job[c].pc = "store", job'[c].pc = "notify"
  PROVE  Stored(c)
<1>0. Core /\ c \in Worker /\ job \in [Worker -> Jobs] /\ Idle.pc # "notify"
  BY Parts, IdleJob DEF Worker, Remote, Core
<1>a. W \subseteq Worker /\ Z \subseteq Worker /\ Web \in Worker
  BY DEF Worker, Remote
<1>b. ASSUME NEW p \in Worker, NEW r, Begin(p, r), AtRest(p) PROVE FALSE
  BY <1>0, <1>b, BeginsElsewhere
<1>s. ASSUME NEW p, NEW S, Stopped(p, S) PROVE FALSE
  BY <1>0, <1>s, StopsElsewhere
<1>i. ASSUME NEW p \in Worker, job' = [job EXCEPT ![p] = Idle] PROVE FALSE
  BY <1>0, <1>i, OthersElsewhere
<1>j. ASSUME job' = job PROVE FALSE
  BY <1>j
<1>1. ASSUME NEW p \in Worker, Command(p) PROVE Stored(c)
  <2>1. CASE Stored(p)
    <3>1. job[c] \in Jobs
      BY <1>0
    <3>2. c # p => job'[c] = job[c]
      BY <1>0, <2>1 DEF Stored
    <3> QED BY <2>1, <3>2
  <2>2. CASE Superseded(p) \/ Failed(p) \/ Notify(p)
    <3>1. PICK s \in {"done", "failed"} : job' = [job EXCEPT ![p].pc = s]
      BY <2>2 DEF Superseded, Failed, Notify
    <3> DEFINE r == [job[p] EXCEPT !.pc = s]
    <3>2. r.pc = s
      BY <1>0 DEF Jobs
    <3>3. job' = [job EXCEPT ![p] = r]
      BY <3>1
    <3> HIDE DEF r
    <3> QED BY <1>0, <3>2, <3>3, OthersElsewhere
  <2>3. CASE EStopStep(p)
    BY <1>s, <2>3 DEF EStopStep
  <2> QED BY <1>1, <2>1, <2>2, <2>3 DEF Command
<1>2. ASSUME NEW d \in W, WiThrottle(d) PROVE FALSE
  <2>1. CASE (\E s \in Scopes : OnConnect(d, s)) \/ Subscribe(d) \/ WiThrottleDone(d)
    BY <1>a, <1>i, <1>j, <2>1 DEF OnConnect, Subscribe, WiThrottleDone
  <2>2. ASSUME NEW t \in Tid, NEW S, GateRelease(d, t, S) PROVE FALSE
    BY <1>j, <2>2 DEF GateRelease
  <2>3. ASSUME NEW t \in Tid, NEW a \in Addr,
               \/ Acquire(d, t, a)
               \/ \E v \in Payloads : handleSpeed(d, t, a, v)
               \/ \E f \in BOOLEAN : handleDirection(d, t, a, f)
               \/ handleIdle(d, t, a) \/ handleEStop(d, t, a)
               \/ handleFunction(d, t, a)
        PROVE FALSE
    BY <1>a, <1>b, <1>j, <2>3
       DEF Acquire, handleSpeed, handleDirection, handleIdle, handleEStop, handleFunction
  <2> QED BY <1>2, <2>1, <2>2, <2>3 DEF WiThrottle
<1>3. ASSUME NEW d \in Z, Z21(d) PROVE FALSE
  <2>1. CASE \/ \E s \in Scopes : Touch(d, s)
             \/ Z21Done(d) \/ handleSetStop(d) \/ handleTrackPowerOff(d)
             \/ \E on \in BOOLEAN : applyBroadcastFlags(d, on)
    BY <1>a, <1>b, <1>i, <1>j, <2>1
       DEF Touch, Z21Done, handleSetStop, handleTrackPowerOff, applyBroadcastFlags
  <2>2. ASSUME NEW a \in Addr,
               \/ \E n \in Formats, b \in Bytes, f \in BOOLEAN : HandleSetLocoDrive(d, a, n, b, f)
               \/ HandleSetLocoEStop(d, a) \/ HandleGetLocoInfo(d, a)
               \/ HandlePurgeLoco(d, a) \/ HandleSetLocoFunction(d, a)
        PROVE FALSE
    BY <1>a, <1>b, <1>j, <2>2
       DEF HandleSetLocoDrive, HandleSetLocoEStop, HandleGetLocoInfo, HandlePurgeLoco, HandleSetLocoFunction
  <2> QED BY <1>3, <2>1, <2>2 DEF Z21
<1>4. CASE \E d \in Remote : Leave(d) \/ \E s \in Scopes \cup {None} : syncPairedByKey(d, s)
  BY <1>j, <1>4 DEF Leave, syncPairedByKey
<1>5. CASE \E a \in Addr : EmergencyStop(a) \/ \E v \in Payloads, f \in BOOLEAN : WebSetSpeed(a, v, f)
  BY <1>a, <1>b, <1>s, <1>5 DEF EmergencyStop, WebSetSpeed
<1>6. CASE WebDone \/ RadioStop
  BY <1>a, <1>i, <1>s, <1>6 DEF WebDone, RadioStop
<1> QED BY <1>1, <1>2, <1>3, <1>4, <1>5, <1>6 DEF ThrottlesNext

LEMMA InvNoSurprise ==
  ASSUME ThrottlesInv, ThrottlesNext
  PROVE  NoSurpriseStep
<1>1. SUFFICES ASSUME NEW c \in W, NEW a \in Addr, job[c].pc = "store", job'[c].pc = "notify",
                      job[c].op = "R", job[c].a = a, state[a].speed = 0
               PROVE  state'[a].speed = 0 \/ <<<<c, job[c].t>>, a>> \in unheard
  BY DEF NoSurpriseStep
<1>0. Core /\ Feed /\ c \in Worker /\ job[c] \in Jobs /\ Own(c)
  BY Parts DEF Core, Worker, Remote
<1>2. Stored(c)
  BY <1>1, OnlyStored
<1>3. PICK t \in Tid, v \in Speeds : t = job[c].t /\ v = job[c].v
  BY <1>0, <1>1 DEF Own, Shaped, Jobs
<1>4. state'[a].speed = UISpeed(ClampSpeedForControllerLimit(c, a, v))
  BY <1>0, <1>1, <1>2, <1>3 DEF Stored, Commanded, Feed
<1>5. SUFFICES ASSUME ~DeafW(c, t, a) PROVE state'[a].speed = 0
  BY <1>3 DEF DeafW
<1>6. job[c].alone
  <2>1. a # None
    <3>1. None \notin Addr
      BY ThrottlesAssumption
    <3> QED BY <3>1
  <2> QED BY <1>0, <1>1, <1>3, <1>5, <2>1 DEF Own, InCompany
<1>7. Lastly(c, t, a) = v \/ v = 0
  BY <1>0, <1>1, <1>3, <1>5, <1>6 DEF Own, Turns
<1>8. CASE v = 0
  BY <1>0, <1>4, <1>8, ClampRange
<1>9. CASE Lastly(c, t, a) = v /\ v # 0
  <2>1. ~Telling(a)
    <3>1. a # None
      <4>1. None \notin Addr
        BY ThrottlesAssumption
      <4> QED BY <4>1
    <3>2. \A p \in Worker : job[p].a = a => p = c
      BY <1>0, <1>1, <1>6, <3>1 DEF Core, Alone
    <3> QED BY <1>1, <3>2 DEF Telling
  <2>2. ~Noting(c, t, a)
    BY <1>1 DEF Noting
  <2>3. Fits(c, t, a)
    BY <1>0, <1>5, <2>1, <2>2 DEF Core, ToldOf
  <2>4. v # None
    <3>1. None \notin 0 .. 128
      BY ThrottlesAssumption
    <3> QED BY <3>1 DEF Speeds
  <2>5. 0 \in {UISpeed(v), UISpeed(ClampSpeedForControllerLimit(c, a, v))}
    BY <1>1, <1>9, <2>3, <2>4 DEF Fits
  <2>6. UISpeed(v) # 0
    BY <1>0, <1>9, ClampRange
  <2> QED BY <1>4, <2>5, <2>6
<1> QED BY <1>7, <1>8, <1>9

\* What the gateways know of a loco is what the store has: the registry's index is
\* the clients' FIFOs, a Z21 client shows the loco's speed and direction, and a
\* WiThrottle client's last known speed is the loco's (or was cut down to it), for
\* every client that could hear of the last change (notifier.go, Notify;
\* withrottle handleSpeed and z21server echoLocoState after it).
THEOREM ThrottlesStaySound == ThrottlesSpec => []ThrottlesSound
<1>1. ThrottlesInit => ThrottlesInv
  BY InvInit
<1>2. ThrottlesInv /\ [ThrottlesNext]_throttleVars => ThrottlesInv'
  BY InvStep, InvStutters
<1>3. ThrottlesInv => ThrottlesSound
  BY InvSound
<1> QED BY <1>1, <1>2, <1>3, PTL DEF ThrottlesSpec

\* A direction key sends the last known speed again, and so starts a standing loco
\* only when the loco was stopped or driven behind the client's back
\* (withrottle handleDirection).
THEOREM DirectionKeysAreSafe == ThrottlesSpec => NoSurpriseStart
<1>1. ThrottlesInit => ThrottlesInv
  BY InvInit
<1>2. ThrottlesInv /\ [ThrottlesNext]_throttleVars => ThrottlesInv'
  BY InvStep, InvStutters
<1>3. ThrottlesInv /\ [ThrottlesNext]_throttleVars => [NoSurpriseStep]_throttleVars
  BY InvNoSurprise
<1> QED BY <1>1, <1>2, <1>3, PTL DEF ThrottlesSpec, NoSurpriseStart
=============================================================================
