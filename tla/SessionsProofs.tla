--------------------------- MODULE SessionsProofs ---------------------------
(***************************************************************************)
(* Proofs about Sessions: NoRunaway, OneVehicle and RosterKept, for any    *)
(* number of sessions, users, locos and commands.                          *)
(*                                                                         *)
(* None of the three is inductive.  The station and the store disagree     *)
(* while a goroutine is between its two writes (Writes); a loco that moves *)
(* for a user has a session that will still look at it, or a stop that has *)
(* it on its list (Minded); of two locos that move for a user in single    *)
(* vehicle mode, one is still to be looked at by a scan (Scanned); a loco  *)
(* about to leave the roster stands already (Retiring).                    *)
(***************************************************************************)
EXTENDS Sessions, SequenceTheorems, FiniteSetTheorems, TLAPS

Pcs == {"off", "read", "subscribe", "send", "store", "scan", "brake", "stop", "mark", "end",
        "watch", "shut", "sleep", "retire", "unsubscribe", "apply", "halt", "zero"}
State == [pc : Pcs, a : Addr \cup {None}, go : BOOLEAN, todo : SUBSET Addr]

R(s) == proc[<<s, "read">>]
D(s) == proc[<<s, "dog">>]
L(s) == proc[<<s, "late">>]

\* Where a goroutine may be, and when it has a loco in its hands.
ReadPcs == {"off", "read", "subscribe", "send", "store", "scan", "brake", "stop", "mark", "end"}
DogPcs == {"off", "watch", "stop", "mark", "shut", "end"}
LatePcs == {"off", "sleep", "stop", "mark"}
RosPcs == {"off", "retire", "unsubscribe", "apply"}
RadioPcs == {"off", "halt", "zero", "stop", "mark"}

Busy == {"subscribe", "send", "store", "brake", "mark", "zero", "retire", "unsubscribe", "apply"}
Writing == {"store", "brake", "mark", "zero"}

\* A command that is on its way has the other locos to scan, or none.
Aimed(x) == x.pc \in {"send", "store"} => x.todo \in {{}, Addr \ {x.a}}

Local ==
  /\ \A s \in Session :
       /\ R(s).pc \in ReadPcs /\ D(s).pc \in DogPcs /\ L(s).pc \in LatePcs
       /\ s \in hub <=> R(s).pc \notin {"off", "end"}
       /\ R(s).pc = "off" => D(s).pc = "off"
       /\ R(s).pc # "end" => L(s).pc = "off"
       /\ reason[s] = "deadman" => D(s).pc = "end"
  /\ proc[Ros].pc \in RosPcs /\ proc[Radio].pc \in RadioPcs
  /\ proc[Ros].pc \in {"retire", "unsubscribe"} => ~proc[Ros].go
  /\ \A p \in Proc : /\ proc[p].pc \in Busy => proc[p].a \in Addr
                     /\ Aimed(proc[p])

\* p is between its write to the station and its write to the store.
Writes(p, a) == proc[p].a = a /\ proc[p].pc \in Writing
\* ... and the loco starts.
Starts(p, a) == Writes(p, a) /\ proc[p].pc = "store" /\ proc[p].go

Agree ==
  \A a \in Addr \ excused :
    /\ \A p, q \in Proc : Writes(p, a) /\ Writes(q, a) => p = q
    /\ \A p \in Proc : Writes(p, a) /\ ~Starts(p, a) => ~track[a]
    /\ track[a] /\ (\A p \in Proc : ~Writes(p, a)) => store[a]
    /\ \A s \in Session : Starts(<<s, "read">>, a) => ~Fired(s)

\* A goroutine of kind k in the state x still has a on its list, of the locos
\* to scan or of those to stop.
Listed(k, x, a) ==
  a \in x.todo /\ x.pc \in IF k = "read" THEN {"scan", "brake"} ELSE {"stop", "mark"}

\* s will look at the loco a of its user, or is about to stop it.
Minds(s, a) ==
  \/ s \in hub /\ ~Fired(s)
  \/ L(s).pc = "sleep"
  \/ Listed("dog", D(s), a) \/ Listed("late", L(s), a)

Minded == \A u \in User : \A a \in Under(u) : \E s \in Session : UserOf[s] = u /\ Minds(s, a)

Scanned ==
  Single => \A u \in User : \A a, b \in Under(u) \ crept : a # b =>
    \E s \in Session : UserOf[s] = u /\ (Listed("read", R(s), a) \/ Listed("read", R(s), b))

\* A loco that is about to leave the roster, or to come back, stands.
Retiring ==
  /\ RetiredStands
  /\ proc[Ros].pc \in {"unsubscribe", "apply"} /\ ~proc[Ros].go
       => (track[proc[Ros].a] => proc[Ros].a \in excused)

Inv == TypeOK /\ Local /\ Agree /\ Minded /\ Scanned /\ Retiring

-----------------------------------------------------------------------------
(***************************************************************************)
(* Types.                                                                  *)
(***************************************************************************)
LEMMA TypeFacts ==
  ASSUME Inv
  PROVE  /\ hub \subseteq Session /\ closed \in [Session -> BOOLEAN]
         /\ reason \in [Session -> {"none", "deadman", "other"}]
         /\ sub \in [Session -> Seq(Addr)]
         /\ \A s \in Session : Len(sub[s]) <= Cap /\ IsInjective(sub[s])
         /\ roster \subseteq Addr
         /\ track \in [Addr -> BOOLEAN] /\ store \in [Addr -> BOOLEAN]
         /\ ctrl \in [Addr -> User \cup {None}]
         /\ proc \in [Proc -> State]
         /\ calls \in 0 .. MaxCalls /\ excused \subseteq Addr /\ crept \subseteq Addr
BY DEF Inv, TypeOK, State, Pcs

LEMMA TypesStep ==
  ASSUME hub' \subseteq Session, closed' \in [Session -> BOOLEAN],
         reason' \in [Session -> {"none", "deadman", "other"}],
         sub' \in [Session -> Seq(Addr)],
         \A s \in Session : Len(sub'[s]) <= Cap /\ IsInjective(sub'[s]),
         roster' \subseteq Addr, track' \in [Addr -> BOOLEAN], store' \in [Addr -> BOOLEAN],
         ctrl' \in [Addr -> User \cup {None}], proc' \in [Proc -> State],
         calls' \in 0 .. MaxCalls, excused' \subseteq Addr, crept' \subseteq Addr
  PROVE  TypeOK'
BY DEF TypeOK, State, Pcs

LEMMA ProcFacts ==
  /\ \A s \in Session : <<s, "read">> \in Proc /\ <<s, "dog">> \in Proc /\ <<s, "late">> \in Proc
  /\ Ros \in Proc /\ Radio \in Proc /\ Ros # Radio
  /\ \A s \in Session : \A k \in {"read", "dog", "late"} : <<s, k>> # Ros /\ <<s, k>> # Radio
  /\ \A p \in Proc : p \in {Ros, Radio} \/ \E s \in Session : \E k \in {"read", "dog", "late"} :
                                             p = <<s, k>>
BY DEF Proc, Ros, Radio

LEMMA CallOK ==
  ASSUME Inv, UNCHANGED calls \/ (calls < MaxCalls /\ calls' = calls + 1)
  PROVE  calls' \in 0 .. MaxCalls
BY TypeFacts, SessionsAssumption

\* p has moved; nobody else has.
LEMMA Moved ==
  ASSUME Inv, NEW p \in Proc, NEW x \in State, proc' = [proc EXCEPT ![p] = x]
  PROVE  /\ proc' \in [Proc -> State] /\ proc'[p] = x
         /\ \A q \in Proc \ {p} : proc'[q] = proc[q]
BY TypeFacts

LEMMA ToOK ==
  ASSUME Inv, NEW p \in Proc, NEW pc \in Pcs, To(p, pc)
  PROVE  \E x \in State : /\ proc' = [proc EXCEPT ![p] = x] /\ x.pc = pc
                          /\ x.a = proc[p].a /\ x.go = proc[p].go /\ x.todo = proc[p].todo
<1>1. proc[p] \in State
  BY TypeFacts
<1>2. PICK x \in State : x = [proc[p] EXCEPT !.pc = pc]
  BY <1>1 DEF State
<1> QED BY <1>1, <1>2 DEF To, State

LEMMA LoopOK ==
  ASSUME Inv, NEW p \in Proc, NEW pc \in {"stop", "scan"}, NEW T \in SUBSET Addr,
         Loop(p, pc, T)
  PROVE  \E x \in State :
           /\ proc' = [proc EXCEPT ![p] = x] /\ x.a = None /\ ~x.go /\ x.todo = T
           /\ T # {} => x.pc = pc
           /\ T = {} => x.pc = IF p[2] = "read" THEN "read" ELSE IF p[2] = "dog" THEN "shut" ELSE "off"
<1>1. PICK q \in Pcs :
        /\ T # {} => q = pc
        /\ T = {} => q = IF p[2] = "read" THEN "read" ELSE IF p[2] = "dog" THEN "shut" ELSE "off"
        /\ Goto(p, q, None, FALSE, T)
  BY DEF Loop, Pcs
<1>2. PICK x \in State : x = [pc |-> q, a |-> None, go |-> FALSE, todo |-> T]
  BY DEF State
<1>3. proc' = [proc EXCEPT ![p] = x]
  BY <1>1, <1>2 DEF Goto
<1> QED BY <1>1, <1>2, <1>3

-----------------------------------------------------------------------------
(***************************************************************************)
(* Parts of the invariant that a step keeps.                               *)
(***************************************************************************)

\* Where p may go, by its kind.
Fits(p, x) ==
  /\ x.pc \in Busy => x.a \in Addr
  /\ Aimed(x)
  /\ p[2] = "read" => proc[p].pc \notin {"off", "end"} /\ x.pc \in ReadPcs \ {"off", "end"}
  /\ p[2] = "dog" => proc[p].pc \notin {"off", "end"} /\ x.pc \in DogPcs \ {"off", "watch"}
  /\ p[2] = "late" => proc[p].pc # "off" /\ x.pc \in LatePcs
  /\ p[2] = "roster" => x.pc \in RosPcs /\ (x.pc \in {"retire", "unsubscribe"} => ~x.go)
  /\ p[2] = "radio" => x.pc \in RadioPcs

LEMMA LocalMove ==
  ASSUME Inv, NEW p \in Proc, NEW x \in State, proc' = [proc EXCEPT ![p] = x],
         UNCHANGED <<hub, reason>>, Fits(p, x)
  PROVE  Local'
<1>1. /\ proc'[p] = x /\ \A q \in Proc \ {p} : proc'[q] = proc[q]
  BY Moved
<1>2. CASE p = Ros
  BY <1>1, <1>2, ProcFacts DEF Inv, Local, Fits, R, D, L, Ros
<1>3. CASE p = Radio
  BY <1>1, <1>3, ProcFacts DEF Inv, Local, Fits, R, D, L, Radio
<1>4. CASE \E s \in Session : \E k \in {"read", "dog", "late"} : p = <<s, k>>
  <2>1. PICK s \in Session, k \in {"read", "dog", "late"} : p = <<s, k>>
    BY <1>4
  <2>2. /\ proc'[Ros] = proc[Ros] /\ proc'[Radio] = proc[Radio]
        /\ \A t \in Session \ {s} : UNCHANGED <<R(t), D(t), L(t)>>
    BY <1>1, <2>1, ProcFacts DEF R, D, L
  <2>3. CASE k = "read"
    BY <1>1, <2>1, <2>2, <2>3, ProcFacts DEF Inv, Local, Fits, R, D, L
  <2>4. CASE k = "dog"
    BY <1>1, <2>1, <2>2, <2>4, ProcFacts DEF Inv, Local, Fits, R, D, L
  <2>5. CASE k = "late"
    BY <1>1, <2>1, <2>2, <2>5, ProcFacts DEF Inv, Local, Fits, R, D, L
  <2> QED BY <2>3, <2>4, <2>5
<1> QED BY <1>2, <1>3, <1>4, ProcFacts

\* Between its two writes nobody moves but the one that ends them.
LEMMA AgreeQuiet ==
  ASSUME Inv, UNCHANGED <<track, store>>, excused \subseteq excused',
         \A p \in Proc : \/ proc'[p] = proc[p]
                         \/ /\ proc[p].pc \notin Writing
                            /\ proc'[p].pc \notin Writing \/ proc'[p].a \in excused',
         \A s \in Session : \A a \in Addr :
           Starts(<<s, "read">>, a) /\ Fired(s)' => Fired(s) \/ a \in excused'
  PROVE  Agree'
<1>1. \A p \in Proc : \A a \in Addr \ excused' :
        (Writes(p, a)' <=> Writes(p, a)) /\ (Starts(p, a)' <=> Starts(p, a))
  BY DEF Writes, Starts
<1>2. SUFFICES ASSUME NEW a \in Addr, a \notin excused'
      PROVE  /\ \A p, q \in Proc : Writes(p, a)' /\ Writes(q, a)' => p = q
             /\ \A p \in Proc : Writes(p, a)' /\ ~Starts(p, a)' => ~track'[a]
             /\ track'[a] /\ (\A p \in Proc : ~Writes(p, a)') => store'[a]
             /\ \A s \in Session : Starts(<<s, "read">>, a)' => ~Fired(s)'
  BY DEF Agree
<1>3. /\ \A p, q \in Proc : Writes(p, a) /\ Writes(q, a) => p = q
      /\ \A p \in Proc : Writes(p, a) /\ ~Starts(p, a) => ~track[a]
      /\ track[a] /\ (\A p \in Proc : ~Writes(p, a)) => store[a]
      /\ \A s \in Session : Starts(<<s, "read">>, a) => ~Fired(s)
  BY <1>2 DEF Inv, Agree
<1> QED BY <1>1, <1>2, <1>3, ProcFacts

\* p writes v to the station for a.
LEMMA AgreeSent ==
  ASSUME Inv, NEW p \in Proc, NEW x \in State, proc' = [proc EXCEPT ![p] = x],
         proc[p].pc \notin Writing, NEW a \in Addr, NEW v \in BOOLEAN,
         track' = [track EXCEPT ![a] = v], UNCHANGED store, excused \subseteq excused',
         a \notin excused' => ~Overlaps(p, a),
         v /\ a \notin excused' => ~Fired(p[1]),
         x.pc \in Writing => x.a = a,
         v => x.pc = "store" /\ x.go /\ p[2] = "read",
         ~v => ~(x.pc = "store" /\ x.go),
         \A s \in Session : Fired(s)' <=> Fired(s)
  PROVE  Agree'
<1>1. /\ proc'[p] = x /\ \A q \in Proc \ {p} : proc'[q] = proc[q]
  BY Moved
<1>3. /\ \A q \in Proc \ {p} : \A b \in Addr : (Writes(q, b)' <=> Writes(q, b))
                                             /\ (Starts(q, b)' <=> Starts(q, b))
      /\ \A b \in Addr : ~Writes(p, b)
      /\ \A b \in Addr \ {a} : ~Writes(p, b)'
      /\ v <=> Starts(p, a)'
  BY <1>1 DEF Writes, Starts, Writing
<1>4. track'[a] = v /\ \A b \in Addr \ {a} : track'[b] = track[b]
  BY TypeFacts
<1>5. SUFFICES ASSUME NEW b \in Addr, b \notin excused'
      PROVE  /\ \A q, r \in Proc : Writes(q, b)' /\ Writes(r, b)' => q = r
             /\ \A q \in Proc : Writes(q, b)' /\ ~Starts(q, b)' => ~track'[b]
             /\ track'[b] /\ (\A q \in Proc : ~Writes(q, b)') => store'[b]
             /\ \A s \in Session : Starts(<<s, "read">>, b)' => ~Fired(s)'
  BY DEF Agree
<1>6. /\ \A q, r \in Proc : Writes(q, b) /\ Writes(r, b) => q = r
      /\ \A q \in Proc : Writes(q, b) /\ ~Starts(q, b) => ~track[b]
      /\ track[b] /\ (\A q \in Proc : ~Writes(q, b)) => store[b]
      /\ \A s \in Session : Starts(<<s, "read">>, b) => ~Fired(s)
  BY <1>5 DEF Inv, Agree
<1>7. CASE b # a
  <2>1. \A q \in Proc : (Writes(q, b)' <=> Writes(q, b)) /\ (Starts(q, b)' => Starts(q, b))
                     /\ (Starts(q, b) => Starts(q, b)')
    BY <1>3, <1>7 DEF Starts
  <2> QED BY <1>4, <1>6, <1>7, <2>1, ProcFacts
<1>8. CASE b = a
  <2>1. \A q \in Proc \ {p} : ~Writes(q, a) /\ ~Writes(q, a)' /\ ~Starts(q, a)'
    BY <1>3, <1>5, <1>8 DEF Overlaps, Writes, Writing, Starts
  <2>2. Starts(p, a)' => track'[a] /\ v
    BY <1>3, <1>4
  <2>3. \A s \in Session : Starts(<<s, "read">>, a)' => ~Fired(s)'
    <3>1. SUFFICES ASSUME NEW s \in Session, Starts(<<s, "read">>, a)' PROVE ~Fired(s)
      OBVIOUS
    <3>2. p = <<s, "read">> /\ v
      BY <2>1, <2>2, <3>1, ProcFacts
    <3> QED BY <1>5, <1>8, <3>2
  <2>4. track'[a] => Writes(p, a)'
    BY <1>3, <1>4 DEF Starts
  <2>5. Writes(p, a)' /\ ~Starts(p, a)' => ~track'[a]
    BY <1>3, <1>4
  <2> QED BY <1>8, <2>1, <2>3, <2>4, <2>5
<1> QED BY <1>7, <1>8

\* p writes to the store what it wrote to the station.
LEMMA AgreeStored ==
  ASSUME Inv, NEW p \in Proc, NEW x \in State, proc' = [proc EXCEPT ![p] = x],
         NEW a \in Addr, Writes(p, a), x.pc \notin Writing,
         UNCHANGED <<track, excused>>,
         store' = [store EXCEPT ![a] = (proc[p].pc = "store" /\ proc[p].go)],
         \A s \in Session : Fired(s)' <=> Fired(s)
  PROVE  Agree'
<1>1. /\ proc'[p] = x /\ \A q \in Proc \ {p} : proc'[q] = proc[q]
  BY Moved
<1>2. /\ \A q \in Proc \ {p} : \A b \in Addr : (Writes(q, b)' <=> Writes(q, b))
                                             /\ (Starts(q, b)' <=> Starts(q, b))
      /\ \A b \in Addr : ~Writes(p, b)' /\ ~Starts(p, b)' /\ (Writes(p, b) => b = a)
  BY <1>1 DEF Writes, Starts
<1>3. (store'[a] <=> Starts(p, a)) /\ \A b \in Addr \ {a} : store'[b] = store[b]
  BY TypeFacts DEF Starts
<1>5. SUFFICES ASSUME NEW b \in Addr, b \notin excused'
      PROVE  /\ \A q, r \in Proc : Writes(q, b)' /\ Writes(r, b)' => q = r
             /\ \A q \in Proc : Writes(q, b)' /\ ~Starts(q, b)' => ~track'[b]
             /\ track'[b] /\ (\A q \in Proc : ~Writes(q, b)') => store'[b]
             /\ \A s \in Session : Starts(<<s, "read">>, b)' => ~Fired(s)'
  BY DEF Agree
<1>6. /\ \A q, r \in Proc : Writes(q, b) /\ Writes(r, b) => q = r
      /\ \A q \in Proc : Writes(q, b) /\ ~Starts(q, b) => ~track[b]
      /\ track[b] /\ (\A q \in Proc : ~Writes(q, b)) => store[b]
      /\ \A s \in Session : Starts(<<s, "read">>, b) => ~Fired(s)
  BY <1>5 DEF Inv, Agree
<1>7. CASE b # a
  <2>1. \A q \in Proc : (Writes(q, b)' <=> Writes(q, b)) /\ (Starts(q, b)' <=> Starts(q, b))
    BY <1>2, <1>7 DEF Starts
  <2> QED BY <1>3, <1>6, <1>7, <2>1, ProcFacts
<1>8. CASE b = a
  <2>1. \A q \in Proc : ~Writes(q, a)' /\ ~Starts(q, a)'
    BY <1>2, <1>6, <1>8 DEF Starts
  <2>2. track[a] => store'[a]
    BY <1>3, <1>6, <1>8
  <2> QED BY <1>8, <2>1, <2>2, ProcFacts
<1> QED BY <1>7, <1>8

-----------------------------------------------------------------------------
(***************************************************************************)
(* The locos that move for a user.                                         *)
(***************************************************************************)

\* The store knows of them.
LEMMA UnderStore ==
  ASSUME Inv, NEW u \in User, NEW a \in Under(u)
  PROVE  a \in Addr /\ a \notin excused /\ track[a] /\ ctrl[a] = u /\ store[a] /\ a \in roster
<1>1. /\ a \in Addr \ excused /\ track[a] /\ ctrl[a] = u
      /\ \A s \in Session : ~(R(s).pc = "store" /\ R(s).a = a)
  BY DEF Under, At, R
<1>2. \A p \in Proc : ~Starts(p, a)
  <2>1. SUFFICES ASSUME NEW p \in Proc, Starts(p, a) PROVE FALSE
    OBVIOUS
  <2>2. proc[p].pc = "store" /\ proc[p].a = a
    BY <2>1 DEF Starts, Writes
  <2>3. p # Ros /\ p # Radio
    BY <2>2 DEF Inv, Local, RosPcs, RadioPcs
  <2>4. PICK s \in Session, k \in {"read", "dog", "late"} : p = <<s, k>>
    BY <2>3, ProcFacts
  <2>5. k = "read"
    BY <2>2, <2>4 DEF Inv, Local, D, L, DogPcs, LatePcs
  <2> QED BY <1>1, <2>2, <2>4, <2>5 DEF R
<1>3. \A p \in Proc : ~Writes(p, a)
  BY <1>1, <1>2 DEF Inv, Agree
<1>4. store[a]
  BY <1>1, <1>3 DEF Inv, Agree
<1>5. a \in roster
  BY <1>1 DEF Inv, Retiring, RetiredStands
<1> QED BY <1>1, <1>4, <1>5

LEMMA UnderQuiet ==
  ASSUME UNCHANGED <<track, ctrl>>, excused \subseteq excused',
         \A s \in Session : R(s).pc = "store" => R(s)' = R(s)
  PROVE  \A u \in User : \A a \in Under(u)' : a \in Under(u)
BY DEF Under, At, R

LEMMA UnderSent ==
  ASSUME Inv, NEW p \in Proc, NEW x \in State, proc' = [proc EXCEPT ![p] = x],
         proc[p].pc \notin Writing, NEW a \in Addr, NEW v \in BOOLEAN,
         track' = [track EXCEPT ![a] = v], UNCHANGED ctrl, excused \subseteq excused',
         v => x.pc = "store" /\ x.a = a /\ p[2] = "read"
  PROVE  \A u \in User : \A b \in Under(u)' : b \in Under(u) /\ b # a
<1>1. /\ proc'[p] = x /\ \A q \in Proc \ {p} : proc'[q] = proc[q]
  BY Moved
<1>2. track'[a] = v /\ \A b \in Addr \ {a} : track'[b] = track[b]
  BY TypeFacts
<1>3. v => \E s \in Session : p = <<s, "read">>
  BY ProcFacts DEF Ros, Radio
<1>4. \A s \in Session : R(s).pc = "store" => R(s)' = R(s)
  BY <1>1, ProcFacts DEF R, Writing
<1>5. ASSUME NEW u \in User, NEW b \in Under(u)' PROVE b # a
  <2>1. track'[b] /\ \A s \in Session : ~(R(s)'.pc = "store" /\ R(s)'.a = b)
    BY <1>5 DEF Under, At, R
  <2> QED BY <1>1, <1>2, <1>3, <2>1 DEF R
<1>6. ASSUME NEW u \in User, NEW b \in Under(u)' PROVE b \in Under(u)
  <2>1. /\ b \in Addr \ excused' /\ track'[b] /\ ctrl'[b] = u /\ b # a
        /\ \A s \in Session : ~(R(s)'.pc = "store" /\ R(s)'.a = b)
    BY <1>5, <1>6 DEF Under, At, R
  <2>2. \A s \in Session : ~(R(s).pc = "store" /\ R(s).a = b)
    BY <1>4, <2>1
  <2> QED BY <1>2, <2>1, <2>2 DEF Under, At, R
<1> QED BY <1>5, <1>6

LEMMA UnderStored ==
  ASSUME Inv, NEW p \in Proc, NEW x \in State, proc' = [proc EXCEPT ![p] = x],
         NEW a \in Addr, Writes(p, a), UNCHANGED <<track, excused>>,
         \A b \in Addr \ {a} : ctrl'[b] = ctrl[b]
  PROVE  \A u \in User : \A b \in Under(u)' : b \in Under(u) \/ (b = a /\ Starts(p, a))
<1>1. /\ proc'[p] = x /\ \A q \in Proc \ {p} : proc'[q] = proc[q]
  BY Moved
<1>2. SUFFICES ASSUME NEW u \in User, NEW b \in Under(u)'
               PROVE  b \in Under(u) \/ (b = a /\ Starts(p, a))
  OBVIOUS
<1>3. /\ b \in Addr \ excused /\ track[b] /\ ctrl'[b] = u
      /\ \A s \in Session : ~(R(s)'.pc = "store" /\ R(s)'.a = b)
  BY <1>2 DEF Under, At, R
<1>4. CASE b = a
  BY <1>3, <1>4 DEF Inv, Agree
<1>5. CASE b # a
  <2>1. \A s \in Session : ~(R(s).pc = "store" /\ R(s).a = b)
    BY <1>1, <1>3, <1>5, ProcFacts DEF R, Writes
  <2> QED BY <1>3, <1>5, <2>1 DEF Under, At, R
<1> QED BY <1>4, <1>5

\* p keeps on its list the locos that still move.
KeepsList(p, x) ==
  p[1] \in Session =>
    \A b \in Under(Of(p))' : Listed(p[2], proc[p], b) => Listed(p[2], x, b)

LEMMA MindedMove ==
  ASSUME Inv, NEW p \in Proc, NEW x \in State, proc' = [proc EXCEPT ![p] = x], UNCHANGED hub,
         \A u \in User : \A b \in Under(u)' : b \in Under(u), KeepsList(p, x), Fits(p, x),
         proc[p].pc \notin {"watch", "sleep"}
  PROVE  Minded'
<1>1. /\ proc'[p] = x /\ \A q \in Proc \ {p} : proc'[q] = proc[q]
  BY Moved
<1>2. SUFFICES ASSUME NEW u \in User, NEW b \in Under(u)'
               PROVE  \E s \in Session : UserOf[s] = u /\ Minds(s, b)'
  BY DEF Minded
<1>3. PICK s \in Session : UserOf[s] = u /\ Minds(s, b)
  BY <1>2 DEF Inv, Minded
<1>4. /\ p # <<s, "dog">> => D(s)' = D(s)
      /\ p # <<s, "late">> => L(s)' = L(s)
  BY <1>1, ProcFacts DEF D, L
<1>5. CASE s \in hub /\ ~Fired(s)
  <2>1. p # <<s, "dog">>
    BY <1>5 DEF Fits, Fired, Inv, Local, D, DogPcs
  <2> QED BY <1>3, <1>4, <1>5, <2>1 DEF Minds, Fired, D
<1>6. CASE L(s).pc = "sleep"
  <2>1. p # <<s, "late">>
    BY <1>6 DEF L
  <2> QED BY <1>3, <1>4, <1>6, <2>1 DEF Minds
<1>7. CASE Listed("dog", D(s), b)
  <2>1. Listed("dog", D(s)', b)
    BY <1>1, <1>2, <1>3, <1>4, <1>7 DEF KeepsList, Of, D
  <2> QED BY <1>3, <2>1 DEF Minds
<1>8. CASE Listed("late", L(s), b)
  <2>1. Listed("late", L(s)', b)
    BY <1>1, <1>2, <1>3, <1>4, <1>8 DEF KeepsList, Of, L
  <2> QED BY <1>3, <2>1 DEF Minds
<1> QED BY <1>3, <1>5, <1>6, <1>7, <1>8 DEF Minds

LEMMA ScannedMove ==
  ASSUME Inv, NEW p \in Proc, NEW x \in State, proc' = [proc EXCEPT ![p] = x],
         \A u \in User : \A b \in Under(u)' : b \in Under(u), KeepsList(p, x),
         \A u \in User : \A b \in Under(u)' : b \notin crept' => b \notin crept
  PROVE  Scanned'
<1>1. /\ proc'[p] = x /\ \A q \in Proc \ {p} : proc'[q] = proc[q]
  BY Moved
<1>2. SUFFICES ASSUME Single, NEW u \in User, NEW a \in Under(u)', NEW b \in Under(u)', a # b,
                      a \notin crept', b \notin crept'
               PROVE  \E s \in Session : /\ UserOf[s] = u
                                         /\ Listed("read", R(s)', a) \/ Listed("read", R(s)', b)
  BY DEF Scanned, Listed
<1>3. PICK s \in Session : UserOf[s] = u /\ (Listed("read", R(s), a) \/ Listed("read", R(s), b))
  BY <1>2 DEF Inv, Scanned
<1>4. p # <<s, "read">> => R(s)' = R(s)
  BY <1>1, ProcFacts DEF R
<1>5. ASSUME NEW c \in Under(u)', Listed("read", R(s), c) PROVE Listed("read", R(s)', c)
  BY <1>1, <1>3, <1>4, <1>5 DEF KeepsList, Of, R
<1> QED BY <1>2, <1>3, <1>5

LEMMA RetiringKept ==
  ASSUME Inv, UNCHANGED roster, proc'[Ros] = proc[Ros], excused \subseteq excused',
         \A a \in Addr : track'[a] /\ ~track[a]
                           => a \in excused' \/ (a \in roster /\ proc[Ros].a # a)
  PROVE  Retiring'
<1>1. RetiredStands'
  BY DEF Inv, Retiring, RetiredStands
<1>2. proc[Ros].pc \in {"unsubscribe", "apply"} => proc[Ros].a \in Addr
  BY ProcFacts DEF Inv, Local, Busy
<1> QED BY <1>1, <1>2 DEF Inv, Retiring

-----------------------------------------------------------------------------
(***************************************************************************)
(* The three kinds of steps of a goroutine.                                *)
(***************************************************************************)
LEMMA FiredMove ==
  ASSUME Inv, NEW p \in Proc, NEW x \in State, proc' = [proc EXCEPT ![p] = x], Fits(p, x),
         proc[p].pc # "watch"
  PROVE  \A s \in Session : Fired(s)' <=> Fired(s)
<1>1. /\ proc'[p] = x /\ \A q \in Proc \ {p} : proc'[q] = proc[q]
  BY Moved
<1>2. SUFFICES ASSUME NEW s \in Session PROVE Fired(s)' <=> Fired(s)
  OBVIOUS
<1>3. CASE p = <<s, "dog">>
  BY <1>1, <1>3 DEF Fits, Fired, Inv, Local, D, DogPcs
<1>4. CASE p # <<s, "dog">>
  BY <1>1, <1>4, ProcFacts DEF Fired
<1> QED BY <1>3, <1>4

\* It goes on and writes nothing.
LEMMA QuietInv ==
  ASSUME Inv, NEW p \in Proc, NEW x \in State, proc' = [proc EXCEPT ![p] = x], Fits(p, x),
         proc[p].pc \notin Writing, x.pc \notin Writing \/ x.a \in excused',
         proc[p].pc \notin {"watch", "sleep"},
         roster' \subseteq Addr, (p # Ros /\ UNCHANGED roster) \/ Retiring',
         UNCHANGED <<crept, hub, closed, reason, track, store, ctrl>>,
         sub' \in [Session -> Seq(Addr)],
         \A s \in Session : Len(sub'[s]) <= Cap /\ IsInjective(sub'[s]),
         calls' \in 0 .. MaxCalls, excused \subseteq excused', excused' \subseteq Addr,
         p[1] \in Session =>
           \A b \in Addr \ excused' : Listed(p[2], proc[p], b) =>
             \/ Listed(p[2], x, b) \/ ~store[b]
             \/ p[2] = "read" /\ ctrl[b] # Of(p)
  PROVE  Inv'
<1>1. /\ proc' \in [Proc -> State] /\ proc'[p] = x /\ \A q \in Proc \ {p} : proc'[q] = proc[q]
  BY Moved
<1>2. TypeOK'
  BY <1>1, TypeFacts, TypesStep
<1>3. Local'
  BY LocalMove
<1>4. \A s \in Session : Fired(s)' <=> Fired(s)
  BY FiredMove
<1>5. Agree'
  <2>1. \A q \in Proc : \/ proc'[q] = proc[q]
                         \/ /\ proc[q].pc \notin Writing
                            /\ proc'[q].pc \notin Writing \/ proc'[q].a \in excused'
    BY <1>1
  <2> QED BY <1>4, <2>1, AgreeQuiet
<1>6. \A u \in User : \A b \in Under(u)' : b \in Under(u)
  <2>1. \A s \in Session : R(s).pc = "store" => R(s)' = R(s)
    BY <1>1, ProcFacts DEF R, Writing
  <2> QED BY <2>1, UnderQuiet
<1>7. KeepsList(p, x)
  <2>1. SUFFICES ASSUME p[1] \in Session, NEW b \in Under(Of(p))', Listed(p[2], proc[p], b)
                 PROVE  Listed(p[2], x, b)
    BY DEF KeepsList
  <2>2. Of(p) \in User
    BY <2>1, SessionsAssumption DEF Of
  <2>3. b \in Under(Of(p)) /\ b \notin excused'
    BY <1>6, <2>1, <2>2 DEF Under
  <2> QED BY <2>1, <2>2, <2>3, UnderStore
<1>8. Minded' /\ Scanned'
  BY <1>6, <1>7, MindedMove, ScannedMove
<1>9. Retiring'
  BY <1>1, ProcFacts, RetiringKept
<1> QED BY <1>2, <1>3, <1>5, <1>8, <1>9 DEF Inv

\* It tells the station to start or to stop a loco.
LEMMA SentInv ==
  ASSUME Inv, NEW p \in Proc, NEW x \in State, proc' = [proc EXCEPT ![p] = x], Fits(p, x),
         p # Ros \/ Retiring', proc[p].pc \notin Writing, proc[p].pc \notin {"watch", "sleep"},
         NEW a \in Addr, NEW v \in BOOLEAN,
         track' = [track EXCEPT ![a] = v], x.a = a,
         excused \subseteq excused', excused' \subseteq Addr, a \notin excused' => ~Overlaps(p, a),
         v /\ a \notin excused' => ~Fired(p[1]) /\ a \in roster /\ proc[Ros].a # a,
         v => x.pc = "store" /\ x.go /\ p[2] = "read",
         ~v => ~(x.pc = "store" /\ x.go),
         UNCHANGED <<crept, hub, closed, reason, sub, roster, store, ctrl>>,
         calls' \in 0 .. MaxCalls,
         \A b \in Addr \ {a} : Listed(p[2], proc[p], b) => Listed(p[2], x, b)
  PROVE  Inv'
<1>1. /\ proc' \in [Proc -> State] /\ proc'[p] = x /\ \A q \in Proc \ {p} : proc'[q] = proc[q]
  BY Moved
<1>3. track' \in [Addr -> BOOLEAN] /\ track'[a] = v /\ \A b \in Addr \ {a} : track'[b] = track[b]
  BY TypeFacts
<1>4. TypeOK'
  BY <1>1, <1>3, TypeFacts, TypesStep
<1>5. Local'
  BY LocalMove
<1>6. Agree'
  BY FiredMove, AgreeSent
<1>7. \A u \in User : \A b \in Under(u)' : b \in Under(u) /\ b # a
  BY UnderSent
<1>8. KeepsList(p, x)
  <2>1. SUFFICES ASSUME p[1] \in Session, NEW b \in Under(Of(p))', Listed(p[2], proc[p], b)
                 PROVE  Listed(p[2], x, b)
    BY DEF KeepsList
  <2>2. Of(p) \in User
    BY <2>1, SessionsAssumption DEF Of
  <2>3. b \in Addr \ {a}
    BY <1>7, <2>1, <2>2, UnderStore
  <2> QED BY <2>1, <2>3
<1>9. Minded' /\ Scanned'
  BY <1>7, <1>8, MindedMove, ScannedMove
<1>10. Retiring'
  BY <1>1, <1>3, ProcFacts, RetiringKept
<1> QED BY <1>4, <1>5, <1>6, <1>9, <1>10 DEF Inv

LEMMA ExcuseOK ==
  ASSUME Inv, NEW p \in Proc, NEW a \in Addr, Excuse(p, a, FALSE)
  PROVE  excused \subseteq excused' /\ excused' \subseteq Addr /\ (a \notin excused' => ~Overlaps(p, a))
BY TypeFacts DEF Excuse

\* It writes to the store that a loco has stopped.
LEMMA StoredInv ==
  ASSUME Inv, NEW p \in Proc, NEW x \in State, proc' = [proc EXCEPT ![p] = x], Fits(p, x),
         p # Ros, NEW a \in Addr, Writes(p, a), ~Starts(p, a), x.pc \notin Writing,
         store' = [store EXCEPT ![a] = FALSE],
         ctrl' \in [Addr -> User \cup {None}], \A b \in Addr \ {a} : ctrl'[b] = ctrl[b],
         UNCHANGED <<hub, closed, reason, sub, roster, track, calls, excused>>,
         crept' = crept \ {a},
         \A b \in Addr : Listed(p[2], proc[p], b) => Listed(p[2], x, b)
  PROVE  Inv'
<1>1. /\ proc' \in [Proc -> State] /\ proc'[p] = x /\ \A q \in Proc \ {p} : proc'[q] = proc[q]
  BY Moved
<1>2. store' \in [Addr -> BOOLEAN]
  BY TypeFacts
<1>3. TypeOK'
  BY <1>1, <1>2, TypeFacts, TypesStep
<1>4. Local'
  BY LocalMove
<1>5. proc[p].pc \notin {"watch", "sleep"} /\ (proc[p].pc = "store" /\ proc[p].go) = FALSE
  BY DEF Writes, Writing, Starts
<1>6. Agree'
  <2>1. store' = [store EXCEPT ![a] = (proc[p].pc = "store" /\ proc[p].go)]
    BY <1>5
  <2> QED BY <1>5, <2>1, FiredMove, AgreeStored
<1>7. \A u \in User : \A b \in Under(u)' : b \in Under(u) /\ b # a
  <2>1. \A u \in User : \A b \in Under(u)' : b \in Under(u)
    BY UnderStored
  <2>2. a \notin excused => ~track[a]
    BY DEF Inv, Agree
  <2>3. \A u \in User : \A b \in Under(u) : b \notin excused /\ track[b]
    BY UnderStore
  <2> QED BY <2>1, <2>2, <2>3
<1>8. KeepsList(p, x)
  <2>1. SUFFICES ASSUME p[1] \in Session, NEW b \in Under(Of(p))', Listed(p[2], proc[p], b)
                 PROVE  Listed(p[2], x, b)
    BY DEF KeepsList
  <2>2. Of(p) \in User
    BY <2>1, SessionsAssumption DEF Of
  <2>3. b \in Addr
    BY <1>7, <2>1, <2>2, UnderStore
  <2> QED BY <2>1, <2>3
<1>9. Minded' /\ Scanned'
  <2>1. \A u \in User : \A b \in Under(u)' : b \notin crept' => b \notin crept
    BY <1>7
  <2> QED BY <1>5, <1>7, <1>8, <2>1, MindedMove, ScannedMove
<1>10. Retiring'
  BY <1>1, ProcFacts, RetiringKept
<1> QED BY <1>3, <1>4, <1>6, <1>9, <1>10 DEF Inv

-----------------------------------------------------------------------------
(***************************************************************************)
(* Stops and scans.                                                        *)
(***************************************************************************)
LEMMA KindFacts ==
  ASSUME Inv, NEW p \in Proc
  PROVE  /\ proc[p] \in State /\ proc[p].todo \subseteq Addr
         /\ proc[p].pc \in {"stop", "mark", "scan", "brake"} => p # Ros /\ p[2] # "roster"
         /\ proc[p].pc \in {"scan", "brake"} => p[2] = "read" /\ p[1] \in Session
         /\ proc[p].pc \in {"mark", "brake"} => proc[p].a \in Addr
         /\ p[1] # None => p[1] \in Session /\ Of(p) \in User
         /\ p[2] \in {"read", "dog", "late", "roster", "radio"}
         /\ p[2] = "roster" => p = Ros
         /\ p[2] \in {"read", "dog", "late"} => p[1] \in Session
<1>1. proc[p] \in State /\ proc[p].todo \subseteq Addr
  BY TypeFacts DEF State
<1>2. proc[p].pc \in {"mark", "brake"} => proc[p].a \in Addr
  BY DEF Inv, Local, Busy
<1>3. /\ p[1] # None => p[1] \in Session /\ Of(p) \in User
      /\ p[2] \in {"read", "dog", "late", "roster", "radio"}
      /\ p[2] = "roster" => p = Ros
      /\ p[2] \in {"read", "dog", "late"} => p[1] \in Session
  BY SessionsAssumption DEF Proc, Ros, Of
<1>4. proc[p].pc \in {"stop", "mark", "scan", "brake"} => p # Ros /\ p[2] # "roster"
  BY <1>3 DEF Inv, Local, RosPcs
<1>5. proc[p].pc \in {"scan", "brake"} => p[2] = "read" /\ p[1] \in Session
  <2>1. SUFFICES ASSUME proc[p].pc \in {"scan", "brake"} PROVE p[2] = "read" /\ p[1] \in Session
    OBVIOUS
  <2>2. p # Ros /\ p # Radio
    BY <2>1 DEF Inv, Local, RosPcs, RadioPcs
  <2>3. PICK s \in Session, k \in {"read", "dog", "late"} : p = <<s, k>>
    BY <2>2, ProcFacts
  <2>4. k = "read"
    BY <2>1, <2>3 DEF Inv, Local, D, L, DogPcs, LatePcs
  <2> QED BY <2>3, <2>4
<1> QED BY <1>1, <1>2, <1>3, <1>4, <1>5

LEMMA LoopFits ==
  ASSUME Inv, NEW p \in Proc, NEW x \in State, NEW pc \in {"stop", "scan"},
         p[2] # "roster", proc[p].pc \notin {"off", "end"}, pc = "scan" => p[2] = "read",
         x.todo # {} => x.pc = pc,
         x.todo = {} => x.pc = IF p[2] = "read" THEN "read" ELSE IF p[2] = "dog" THEN "shut" ELSE "off"
  PROVE  Fits(p, x) /\ x.pc \notin Writing
BY DEF Fits, Aimed, Busy, Writing, ReadPcs, DogPcs, LatePcs, RadioPcs

LEMMA StopOneInv ==
  ASSUME Inv, NEW p \in Proc, StopOne(p)
  PROVE  Inv'
<1>1. /\ UNCHANGED <<crept, hub, closed, reason, sub, roster, store, ctrl>> /\ proc[p].pc = "stop"
  BY DEF StopOne, session, At
<1>2. PICK a \in proc[p].todo :
        \/ ~store[a] /\ Loop(p, "stop", proc[p].todo \ {a}) /\ UNCHANGED <<track, calls, excused>>
        \/ /\ store[a] /\ track' = [track EXCEPT ![a] = FALSE]
           /\ Goto(p, "mark", a, FALSE, proc[p].todo \ {a})
           /\ Excuse(p, a, FALSE) /\ UNCHANGED calls
        \/ /\ store[a] /\ calls < MaxCalls /\ calls' = calls + 1
           /\ Loop(p, "stop", proc[p].todo \ {a})
           /\ excused' = excused \cup {a} /\ UNCHANGED track
  BY DEF StopOne
<1>3. /\ proc[p].todo \subseteq Addr /\ p # Ros /\ p[2] # "roster" /\ a \in Addr
  BY <1>1, KindFacts
<1>4. PICK T \in SUBSET Addr : T = proc[p].todo \ {a}
  BY <1>3
<1>5. CASE Loop(p, "stop", T) /\ UNCHANGED track /\ a \in excused' \cup {b \in Addr : ~store[b]}
           /\ excused \subseteq excused' /\ excused' \subseteq Addr
           /\ calls' \in 0 .. MaxCalls
  <2>1. PICK x \in State :
          /\ proc' = [proc EXCEPT ![p] = x] /\ x.a = None /\ ~x.go /\ x.todo = T
          /\ T # {} => x.pc = "stop"
          /\ T = {} => x.pc = IF p[2] = "read" THEN "read"
                              ELSE IF p[2] = "dog" THEN "shut" ELSE "off"
    BY <1>5, LoopOK
  <2>2. Fits(p, x) /\ x.pc \notin Writing
    BY <1>1, <1>3, <2>1, LoopFits
  <2>3. \A b \in Addr \ excused' : Listed(p[2], proc[p], b) => Listed(p[2], x, b) \/ ~store[b]
    BY <1>1, <1>4, <1>5, <2>1 DEF Listed
  <2> QED BY <1>1, <1>3, <1>5, <2>1, <2>2, <2>3, TypeFacts, QuietInv DEF Writing
<1>6. CASE /\ track' = [track EXCEPT ![a] = FALSE] /\ Goto(p, "mark", a, FALSE, T)
           /\ Excuse(p, a, FALSE) /\ UNCHANGED calls
  <2>0. PICK x \in State : x = [pc |-> "mark", a |-> a, go |-> FALSE, todo |-> T]
    BY <1>3 DEF State, Pcs
  <2>1. /\ proc' = [proc EXCEPT ![p] = x]
        /\ x.pc = "mark" /\ x.a = a /\ ~x.go /\ x.todo = T
    BY <1>6, <2>0 DEF Goto
  <2>2. Fits(p, x)
    BY <1>1, <1>3, <2>1 DEF Fits, Aimed, ReadPcs, DogPcs, LatePcs, RadioPcs
  <2>3. \A b \in Addr \ {a} : Listed(p[2], proc[p], b) => Listed(p[2], x, b)
    BY <1>1, <1>4, <2>1 DEF Listed
  <2> QED BY <1>1, <1>3, <1>6, <2>1, <2>2, <2>3, TypeFacts, ExcuseOK, SentInv, ZenonT(60) DEF Writing
<1>7. UNCHANGED calls \/ (calls < MaxCalls /\ calls' = calls + 1)
  BY <1>2
<1> QED BY <1>2, <1>3, <1>4, <1>5, <1>6, <1>7, TypeFacts, CallOK

LEMMA StopMarkInv ==
  ASSUME Inv, NEW p \in Proc, StopMark(p)
  PROVE  Inv'
<1>1. /\ UNCHANGED <<hub, closed, reason, sub, roster, track, calls, excused>>
      /\ proc[p].pc = "mark" /\ Loop(p, "stop", proc[p].todo)
      /\ store' = [store EXCEPT ![proc[p].a] = FALSE] /\ crept' = crept \ {proc[p].a}
      /\ \E s \in Session : ctrl' = [ctrl EXCEPT ![proc[p].a] = UserOf[s]]
  BY DEF StopMark, session, At
<1>2. /\ proc[p].todo \in SUBSET Addr /\ p # Ros /\ p[2] # "roster" /\ proc[p].a \in Addr
      /\ \A s \in Session : UserOf[s] \in User
  BY <1>1, KindFacts, SessionsAssumption
<1>3. PICK x \in State :
        /\ proc' = [proc EXCEPT ![p] = x] /\ x.todo = proc[p].todo
        /\ x.todo # {} => x.pc = "stop"
        /\ x.todo = {} => x.pc = IF p[2] = "read" THEN "read"
                                 ELSE IF p[2] = "dog" THEN "shut" ELSE "off"
  BY <1>1, <1>2, LoopOK
<1>4. Fits(p, x) /\ x.pc \notin Writing
  BY <1>1, <1>2, <1>3, LoopFits
<1>5. Writes(p, proc[p].a) /\ ~Starts(p, proc[p].a)
  BY <1>1 DEF Writes, Starts, Writing
<1>6. /\ ctrl' \in [Addr -> User \cup {None}]
      /\ \A b \in Addr \ {proc[p].a} : ctrl'[b] = ctrl[b]
  BY <1>1, <1>2, TypeFacts
<1>7. \A b \in Addr : Listed(p[2], proc[p], b) => Listed(p[2], x, b)
  BY <1>1, <1>3 DEF Listed
<1> QED BY <1>1, <1>2, <1>3, <1>4, <1>5, <1>6, <1>7, StoredInv, ZenonT(60)

LEMMA ScanOneInv ==
  ASSUME Inv, NEW p \in Proc, ScanOne(p)
  PROVE  Inv'
<1>1. /\ UNCHANGED <<crept, hub, closed, reason, sub, roster, store, ctrl>> /\ proc[p].pc = "scan"
  BY DEF ScanOne, session, At
<1>2. PICK a \in proc[p].todo :
        \/ /\ ~(store[a] /\ ctrl[a] = Of(p)) /\ Loop(p, "scan", proc[p].todo \ {a})
           /\ UNCHANGED <<track, calls, excused>>
        \/ /\ track' = [track EXCEPT ![a] = FALSE]
           /\ Goto(p, "brake", a, FALSE, proc[p].todo \ {a})
           /\ Excuse(p, a, FALSE) /\ UNCHANGED calls
        \/ /\ calls < MaxCalls /\ calls' = calls + 1
           /\ Loop(p, "scan", proc[p].todo \ {a})
           /\ excused' = excused \cup {a} /\ UNCHANGED track
  BY DEF ScanOne
<1>3. /\ proc[p].todo \subseteq Addr /\ p # Ros /\ p[2] = "read" /\ a \in Addr
  BY <1>1, KindFacts
<1>4. PICK T \in SUBSET Addr : T = proc[p].todo \ {a}
  BY <1>3
<1>5. CASE /\ Loop(p, "scan", T) /\ UNCHANGED track
           /\ a \in excused' \cup {b \in Addr : ~(store[b] /\ ctrl[b] = Of(p))}
           /\ excused \subseteq excused' /\ excused' \subseteq Addr
           /\ calls' \in 0 .. MaxCalls
  <2>1. PICK x \in State :
          /\ proc' = [proc EXCEPT ![p] = x] /\ x.a = None /\ ~x.go /\ x.todo = T
          /\ T # {} => x.pc = "scan"
          /\ T = {} => x.pc = IF p[2] = "read" THEN "read"
                              ELSE IF p[2] = "dog" THEN "shut" ELSE "off"
    BY <1>5, LoopOK
  <2>2. Fits(p, x) /\ x.pc \notin Writing
    BY <1>1, <1>3, <2>1, LoopFits
  <2>3. \A b \in Addr \ excused' : Listed(p[2], proc[p], b) =>
          Listed(p[2], x, b) \/ ~store[b] \/ (p[2] = "read" /\ ctrl[b] # Of(p))
    BY <1>1, <1>3, <1>4, <1>5, <2>1 DEF Listed
  <2> QED BY <1>1, <1>3, <1>5, <2>1, <2>2, <2>3, TypeFacts, QuietInv DEF Writing
<1>6. CASE /\ track' = [track EXCEPT ![a] = FALSE] /\ Goto(p, "brake", a, FALSE, T)
           /\ Excuse(p, a, FALSE) /\ UNCHANGED calls
  <2>0. PICK x \in State : x = [pc |-> "brake", a |-> a, go |-> FALSE, todo |-> T]
    BY <1>3 DEF State, Pcs
  <2>1. /\ proc' = [proc EXCEPT ![p] = x]
        /\ x.pc = "brake" /\ x.a = a /\ ~x.go /\ x.todo = T
    BY <1>6, <2>0 DEF Goto
  <2>2. Fits(p, x)
    BY <1>1, <1>3, <2>1 DEF Fits, Aimed, ReadPcs
  <2>3. \A b \in Addr \ {a} : Listed(p[2], proc[p], b) => Listed(p[2], x, b)
    BY <1>1, <1>4, <2>1 DEF Listed
  <2> QED BY <1>1, <1>3, <1>6, <2>1, <2>2, <2>3, TypeFacts, ExcuseOK, SentInv, ZenonT(60) DEF Writing
<1>7. UNCHANGED calls \/ (calls < MaxCalls /\ calls' = calls + 1)
  BY <1>2
<1> QED BY <1>2, <1>3, <1>4, <1>5, <1>6, <1>7, TypeFacts, CallOK

LEMMA ScanStoreInv ==
  ASSUME Inv, NEW p \in Proc, ScanStore(p)
  PROVE  Inv'
<1>1. /\ UNCHANGED <<hub, closed, reason, sub, roster, track, calls, excused>>
      /\ proc[p].pc = "brake" /\ Loop(p, "scan", proc[p].todo)
      /\ store' = [store EXCEPT ![proc[p].a] = FALSE] /\ crept' = crept \ {proc[p].a}
      /\ ctrl' = [ctrl EXCEPT ![proc[p].a] = Of(p)]
  BY DEF ScanStore, session, At
<1>2. /\ proc[p].todo \in SUBSET Addr /\ p # Ros /\ p[2] = "read" /\ proc[p].a \in Addr
      /\ Of(p) \in User
  BY <1>1, KindFacts, SessionsAssumption DEF Of
<1>3. PICK x \in State :
        /\ proc' = [proc EXCEPT ![p] = x] /\ x.todo = proc[p].todo
        /\ x.todo # {} => x.pc = "scan"
        /\ x.todo = {} => x.pc = IF p[2] = "read" THEN "read"
                                 ELSE IF p[2] = "dog" THEN "shut" ELSE "off"
  BY <1>1, <1>2, LoopOK
<1>4. Fits(p, x) /\ x.pc \notin Writing
  BY <1>1, <1>2, <1>3, LoopFits
<1>5. Writes(p, proc[p].a) /\ ~Starts(p, proc[p].a)
  BY <1>1 DEF Writes, Starts, Writing
<1>6. /\ ctrl' \in [Addr -> User \cup {None}]
      /\ \A b \in Addr \ {proc[p].a} : ctrl'[b] = ctrl[b]
  BY <1>1, <1>2, TypeFacts
<1>7. \A b \in Addr : Listed(p[2], proc[p], b) => Listed(p[2], x, b)
  BY <1>1, <1>3 DEF Listed
<1> QED BY <1>1, <1>2, <1>3, <1>4, <1>5, <1>6, <1>7, StoredInv, ZenonT(60)

-----------------------------------------------------------------------------
(***************************************************************************)
(* Frames and commands.                                                    *)
(***************************************************************************)
LEMMA ReadFacts ==
  ASSUME Inv, NEW s \in Session
  PROVE  /\ <<s, "read">> \in Proc /\ <<s, "read">> # Ros
         /\ <<s, "read">>[1] = s /\ <<s, "read">>[2] = "read" /\ Of(<<s, "read">>) = UserOf[s]
         /\ R(s) \in State /\ R(s).pc \in ReadPcs /\ (R(s).pc \in Busy => R(s).a \in Addr)
         /\ UserOf[s] \in User
BY ProcFacts, TypeFacts, SessionsAssumption DEF R, Of, Inv, Local

LEMMA NotAimed ==
  ASSUME NEW x, x.pc \notin {"send", "store"}
  PROVE  Aimed(x)
BY DEF Aimed

\* The read loop goes on to x, with at most its subscriptions changed.
LEMMA FrameInv ==
  ASSUME Inv, NEW s \in Session, NEW x \in State, proc' = [proc EXCEPT ![<<s, "read">>] = x],
         R(s).pc \in {"read", "subscribe", "send"},
         x.pc \in {"read", "subscribe", "send", "stop"}, x.pc \in Busy => x.a \in Addr,
         Aimed(x),
         UNCHANGED <<crept, hub, closed, reason, roster, track, store, ctrl, excused>>,
         sub' \in [Session -> Seq(Addr)],
         \A t \in Session : Len(sub'[t]) <= Cap /\ IsInjective(sub'[t]),
         calls' \in 0 .. MaxCalls
  PROVE  Inv'
<1> DEFINE p == <<s, "read">>
<1>1. p \in Proc /\ p # Ros /\ p[1] = s /\ p[2] = "read" /\ R(s) = proc[p]
  BY ReadFacts DEF R
<1> HIDE DEF p
<1>2. Fits(p, x)
  BY <1>1 DEF Fits, Aimed, ReadPcs
<1>3. proc[p].pc \notin Writing /\ x.pc \notin Writing /\ proc[p].pc \notin {"watch", "sleep"}
  BY <1>1 DEF Writing
<1>4. \A b \in Addr : ~Listed(p[2], proc[p], b)
  BY <1>1 DEF Listed
<1>5. proc' = [proc EXCEPT ![p] = x]
  BY DEF p
<1> QED BY <1>1, <1>2, <1>3, <1>4, <1>5, TypeFacts, QuietInv

LEMMA SubscribeInv ==
  ASSUME Inv, NEW s \in Session, NEW a \in Addr, HandleSubscribe(s, a)
  PROVE  Inv'
<1>1. /\ UNCHANGED <<crept, hub, closed, reason, sub, roster, track, store, ctrl, excused>>
      /\ R(s).pc = "read" /\ calls < MaxCalls /\ calls' = calls + 1
  BY DEF HandleSubscribe, Command, loco, At, R
<1>2. PICK x \in State : x = [pc |-> "subscribe", a |-> a, go |-> FALSE, todo |-> {}]
  BY DEF State, Pcs
<1>3. proc' = [proc EXCEPT ![<<s, "read">>] = x] /\ x.pc = "subscribe" /\ x.a = a
  BY <1>2 DEF HandleSubscribe, Goto
<1>4. Aimed(x)
  BY <1>3, NotAimed
<1> QED BY <1>1, <1>3, <1>4, TypeFacts, CallOK, FrameInv

LEMMA SetSpeedInv ==
  ASSUME Inv, NEW s \in Session, NEW a \in Addr, NEW v \in 0 .. 2, HandleSetSpeed(s, a, v)
  PROVE  Inv'
<1>1. /\ UNCHANGED <<crept, hub, closed, reason, sub, roster, track, store, ctrl, excused>>
      /\ R(s).pc = "read" /\ calls < MaxCalls /\ calls' = calls + 1
  BY DEF HandleSetSpeed, Command, loco, At, R
<1>2. PICK x \in State : x = [pc |-> "send", a |-> a, go |-> v > 0,
                               todo |-> IF Single /\ v > 1 THEN Addr \ {a} ELSE {}]
  <2>1. PICK T \in SUBSET Addr : T = IF Single /\ v > 1 THEN Addr \ {a} ELSE {}
    <3>1. Addr \ {a} \in SUBSET Addr /\ {} \in SUBSET Addr
      OBVIOUS
    <3> QED BY <3>1
  <2>3. PICK g \in BOOLEAN : g = (v > 0)
    <3>1. CASE v > 0
      <4>1. (v > 0) = TRUE
        BY <3>1
      <4> QED BY <4>1, Zenon
    <3>2. CASE ~(v > 0)
      <4>1. (v > 0) = FALSE
        BY <3>2
      <4> QED BY <4>1, Zenon
    <3> QED BY <3>1, <3>2
  <2>2. [pc |-> "send", a |-> a, go |-> g, todo |-> T] \in State
    BY DEF State, Pcs
  <2> QED BY <2>1, <2>2, <2>3
<1>3. proc' = [proc EXCEPT ![<<s, "read">>] = x] /\ x.pc = "send" /\ x.a = a
  BY <1>2 DEF HandleSetSpeed, Goto
<1>4. Aimed(x)
  BY <1>2 DEF Aimed
<1> QED BY <1>1, <1>3, <1>4, TypeFacts, CallOK, FrameInv

LEMMA SubsInAddr ==
  ASSUME Inv, NEW s \in Session
  PROVE  ToSet(sub[s]) \in SUBSET Addr
BY TypeFacts DEF ToSet

LEMMA EStopInv ==
  ASSUME Inv, NEW s \in Session, HandleEStop(s)
  PROVE  Inv'
<1>1. /\ UNCHANGED <<crept, hub, closed, reason, sub, roster, track, store, ctrl, excused>>
      /\ R(s).pc = "read" /\ calls < MaxCalls /\ calls' = calls + 1
      /\ Loop(<<s, "read">>, "stop", ToSet(sub[s]))
  BY DEF HandleEStop, Command, loco, At, R
<1>2. PICK T \in SUBSET Addr : T = ToSet(sub[s])
  BY SubsInAddr
<1>3. PICK x \in State :
        /\ proc' = [proc EXCEPT ![<<s, "read">>] = x] /\ x.todo = T
        /\ x.todo # {} => x.pc = "stop"
        /\ x.todo = {} => x.pc = "read"
  BY <1>1, <1>2, ReadFacts, LoopOK
<1>4. Aimed(x)
  BY <1>3, NotAimed
<1> QED BY <1>1, <1>3, <1>4, TypeFacts, CallOK, FrameInv DEF Busy

\* A subscription is added, the oldest one dropped when there is no room.
LEMMA SubscribedOK ==
  ASSUME NEW q \in Seq(Addr), Len(q) <= Cap, IsInjective(q), NEW a \in Addr, ~Contains(q, a),
         NEW r, r = Append(IF Len(q) >= Cap THEN Tail(q) ELSE q, a)
  PROVE  r \in Seq(Addr) /\ Len(r) <= Cap /\ IsInjective(r)
<1>1. Cap \in Nat /\ Cap > 0
  BY SessionsAssumption
<1>2. PICK t \in Seq(Addr) : t = IF Len(q) >= Cap THEN Tail(q) ELSE q
  <2>1. Len(q) >= Cap => Tail(q) \in Seq(Addr)
    BY <1>1
  <2> QED BY <2>1
<1>3. Len(t) < Cap /\ Len(t) \in Nat
  BY <1>1, <1>2
<1>4. \A i, j \in 1 .. Len(t) : (t[i] = t[j] => i = j) /\ t[i] # a
  <2>1. CASE Len(q) >= Cap
    <3>1. t = Tail(q) /\ Len(t) = Len(q) - 1 /\ \A i \in 1 .. Len(t) : t[i] = q[i + 1]
      BY <1>1, <1>2, <2>1
    <3> QED BY <3>1 DEF IsInjective, Contains
  <2>2. CASE ~(Len(q) >= Cap)
    BY <1>2, <2>2 DEF IsInjective, Contains
  <2> QED BY <2>1, <2>2
<1>5. r = Append(t, a) /\ r \in Seq(Addr) /\ Len(r) = Len(t) + 1
  BY <1>2
<1>6. \A i \in 1 .. Len(r) : r[i] = IF i <= Len(t) THEN t[i] ELSE a
  BY <1>3, <1>5
<1>7. \A i, j \in 1 .. Len(r) : r[i] = r[j] => i = j
  <2>1. SUFFICES ASSUME NEW i \in 1 .. Len(r), NEW j \in 1 .. Len(r), r[i] = r[j] PROVE i = j
    OBVIOUS
  <2>2. CASE i <= Len(t) /\ j <= Len(t)
    BY <1>3, <1>4, <1>6, <2>1, <2>2
  <2>3. ASSUME NEW k \in 1 .. Len(r), k > Len(t) PROVE k = Len(t) + 1 /\ r[k] = a
    BY <1>3, <1>5, <1>6, <2>3
  <2>4. ASSUME NEW k \in 1 .. Len(r), r[k] = a PROVE k > Len(t)
    BY <1>3, <1>4, <1>6, <2>4, SMTT(30)
  <2> QED BY <1>3, <2>1, <2>2, <2>3, <2>4
<1> QED BY <1>1, <1>3, <1>5, <1>7, SMTT(30) DEF IsInjective

LEMMA SubscriptionCapInv ==
  ASSUME Inv, NEW s \in Session, enforceSubscriptionCap(s)
  PROVE  Inv'
<1>1. /\ UNCHANGED <<crept, hub, closed, reason, roster, track, store, ctrl, calls, excused>>
      /\ R(s).pc = "subscribe" /\ R(s).a \in Addr
  BY ReadFacts DEF enforceSubscriptionCap, loco, At, R, Busy
<1>2. PICK x \in State : x = [pc |-> "read", a |-> None, go |-> FALSE, todo |-> {}]
  BY DEF State, Pcs
<1>3. proc' = [proc EXCEPT ![<<s, "read">>] = x] /\ x.pc = "read"
  BY <1>2 DEF enforceSubscriptionCap, Goto
<1>4. PICK r : r = Append(IF Len(sub[s]) >= Cap THEN Tail(sub[s]) ELSE sub[s], R(s).a)
  OBVIOUS
<1>5. sub' = IF Contains(sub[s], R(s).a) THEN sub ELSE [sub EXCEPT ![s] = r]
  BY <1>4 DEF enforceSubscriptionCap, R
<1>6. sub[s] \in Seq(Addr) /\ Len(sub[s]) <= Cap /\ IsInjective(sub[s])
  BY TypeFacts
<1>7. ~Contains(sub[s], R(s).a) => r \in Seq(Addr) /\ Len(r) <= Cap /\ IsInjective(r)
  BY <1>1, <1>4, <1>6, SubscribedOK
<1>10. Aimed(x)
  BY <1>3, NotAimed
<1>8. CASE Contains(sub[s], R(s).a)
  BY <1>1, <1>3, <1>5, <1>8, <1>10, TypeFacts, FrameInv DEF Busy
<1>9. CASE ~Contains(sub[s], R(s).a)
  <2>1. sub' \in [Session -> Seq(Addr)] /\ sub'[s] = r /\ \A t \in Session \ {s} : sub'[t] = sub[t]
    BY <1>5, <1>7, <1>9, TypeFacts
  <2>2. \A t \in Session : Len(sub'[t]) <= Cap /\ IsInjective(sub'[t])
    BY <1>7, <1>9, <2>1, TypeFacts
  <2> QED BY <1>1, <1>3, <1>10, <2>1, <2>2, TypeFacts, FrameInv DEF Busy
<1> QED BY <1>8, <1>9

LEMMA SendSpeedInv ==
  ASSUME Inv, NEW s \in Session, SendSpeed(s)
  PROVE  Inv'
<1> DEFINE p == <<s, "read">>
<1>1. p \in Proc /\ p # Ros /\ p[1] = s /\ p[2] = "read" /\ R(s) = proc[p]
  BY ReadFacts DEF R
<1>2. /\ UNCHANGED <<crept, hub, closed, reason, sub, roster, store, ctrl, calls>>
      /\ proc[p].pc = "send" /\ proc[p].a \in Addr /\ proc[p].go \in BOOLEAN
  BY <1>1, ReadFacts DEF SendSpeed, session, At, R, Busy, State
<1>3. CASE UNCHANGED <<track, excused>> /\ Goto(p, "read", None, FALSE, {})
  <2>1. PICK x \in State : x = [pc |-> "read", a |-> None, go |-> FALSE, todo |-> {}]
    BY DEF State, Pcs
  <2>2. proc' = [proc EXCEPT ![<<s, "read">>] = x] /\ x.pc = "read"
    BY <1>3, <2>1 DEF Goto
  <2>3. Aimed(x)
    BY <2>2, NotAimed
  <2> QED BY <1>1, <1>2, <1>3, <2>2, <2>3, TypeFacts, FrameInv DEF Busy
<1>4. CASE /\ track' = [track EXCEPT ![proc[p].a] = proc[p].go] /\ To(p, "store")
           /\ Excuse(p, proc[p].a, proc[p].go)
  <2>1. PICK x \in State : /\ proc' = [proc EXCEPT ![p] = x] /\ x.pc = "store"
                           /\ x.a = proc[p].a /\ x.go = proc[p].go /\ x.todo = proc[p].todo
    BY <1>1, <1>4, ToOK DEF Pcs
  <2>2. Fits(p, x)
    <3>1. Aimed(proc[p])
      BY <1>1 DEF Inv, Local
    <3> QED BY <1>1, <1>2, <2>1, <3>1 DEF Fits, Aimed, ReadPcs
  <2>3. \A b \in Addr : ~Listed(p[2], proc[p], b)
    BY <1>1, <1>2 DEF Listed
  <2>4. proc[p].pc \notin Writing /\ proc[p].pc \notin {"watch", "sleep"}
    BY <1>2 DEF Writing
  <2>5. PICK a \in Addr, v \in BOOLEAN : a = proc[p].a /\ v = proc[p].go
    BY <1>2
  <2>6. /\ excused \subseteq excused' /\ excused' \subseteq Addr
        /\ a \notin excused' => ~Overlaps(p, a)
        /\ v /\ a \notin excused' => ~Fired(p[1]) /\ a \in roster /\ proc[Ros].a # a
    BY <1>1, <1>4, <2>5, TypeFacts DEF Excuse, TooLate, Ros
  <2>7. track' = [track EXCEPT ![a] = v] /\ x.a = a /\ x.go = v
    BY <1>4, <2>1, <2>5
  <2> HIDE DEF p
  <2> QED BY <1>1, <1>2, <2>1, <2>2, <2>3, <2>4, <2>6, <2>7, TypeFacts, SentInv
<1> QED BY <1>3, <1>4 DEF SendSpeed

LEMMA StoreSpeedInv ==
  ASSUME Inv, NEW s \in Session, StoreSpeed(s)
  PROVE  Inv'
<1> DEFINE p == <<s, "read">>
<1>1. p \in Proc /\ p # Ros /\ p[1] = s /\ p[2] = "read" /\ R(s) = proc[p] /\ Of(p) = UserOf[s]
      /\ UserOf[s] \in User /\ proc[p] \in State
  BY ReadFacts DEF R
<1>2. /\ UNCHANGED <<hub, closed, reason, sub, roster, track, calls, excused>>
      /\ proc[p].pc = "store" /\ proc[p].a \in Addr
      /\ store' = [store EXCEPT ![proc[p].a] = proc[p].go]
      /\ ctrl' = [ctrl EXCEPT ![proc[p].a] = UserOf[s]]
      /\ Loop(p, "scan", proc[p].todo \cap roster)
      /\ crept' = IF proc[p].go /\ proc[p].todo = {} THEN crept \cup {proc[p].a}
                  ELSE crept \ {proc[p].a}
  BY <1>1, ReadFacts DEF StoreSpeed, session, At, R, Busy
<1>3. PICK a \in Addr, v \in BOOLEAN, T \in SUBSET Addr :
        a = proc[p].a /\ v = proc[p].go /\ T = proc[p].todo \cap roster
  BY <1>1, <1>2, TypeFacts DEF State
<1>4. PICK x \in State :
        /\ proc' = [proc EXCEPT ![p] = x] /\ x.todo = T
        /\ x.todo # {} => x.pc = "scan"
        /\ x.todo = {} => x.pc = IF p[2] = "read" THEN "read"
                                 ELSE IF p[2] = "dog" THEN "shut" ELSE "off"
  BY <1>1, <1>2, <1>3, LoopOK
<1>5. Fits(p, x) /\ x.pc \notin Writing
  BY <1>1, <1>2, <1>4, LoopFits
<1>6. /\ Writes(p, a) /\ (Starts(p, a) <=> v) /\ store' = [store EXCEPT ![a] = v]
      /\ ctrl' = [ctrl EXCEPT ![a] = UserOf[s]] /\ \A b \in Addr : ~Listed(p[2], proc[p], b)
  BY <1>1, <1>2, <1>3 DEF Writes, Starts, Writing, Listed
<1>7. /\ store' \in [Addr -> BOOLEAN] /\ ctrl' \in [Addr -> User \cup {None}]
      /\ ctrl'[a] = UserOf[s] /\ \A b \in Addr \ {a} : ctrl'[b] = ctrl[b]
  BY <1>1, <1>6, TypeFacts
<1> HIDE DEF p
<1>8. CASE ~v
  <2>1. store' = [store EXCEPT ![a] = FALSE] /\ ~Starts(p, a) /\ crept' = crept \ {a}
    BY <1>2, <1>3, <1>6, <1>8
  <2> QED BY <1>1, <1>2, <1>4, <1>5, <1>6, <1>7, <2>1, StoredInv
<1>9. CASE v
  <2>1. /\ proc' \in [Proc -> State] /\ proc'[p] = x /\ \A q \in Proc \ {p} : proc'[q] = proc[q]
    BY <1>1, <1>4, Moved
  <2>2. TypeOK'
    BY <1>2, <1>3, <1>7, <2>1, TypeFacts, TypesStep
  <2>3. Local'
    BY <1>1, <1>2, <1>4, <1>5, LocalMove
  <2>4. \A t \in Session : Fired(t)' <=> Fired(t)
    BY <1>1, <1>2, <1>4, <1>5, FiredMove
  <2>5. Agree'
    <3>1. store' = [store EXCEPT ![a] = (proc[p].pc = "store" /\ proc[p].go)]
      BY <1>2, <1>3, <1>6, <1>9
    <3> QED BY <1>1, <1>2, <1>4, <1>5, <1>6, <2>4, <3>1, AgreeStored
  <2>6. \A u \in User : \A b \in Under(u)' : b \in Under(u) \/ (b = a /\ u = UserOf[s])
    <3>1. \A u \in User : \A b \in Under(u)' : b \in Under(u) \/ (b = a /\ Starts(p, a))
      BY <1>1, <1>2, <1>4, <1>6, <1>7, UnderStored
    <3>2. \A u \in User : \A b \in Under(u)' : ctrl'[b] = u
      BY DEF Under
    <3> QED BY <1>7, <3>1, <3>2
  <2>7. \A t \in Session : D(t)' = D(t) /\ L(t)' = L(t) /\ (t # s => R(t)' = R(t)) /\ R(s)' = x
    BY <2>1, ProcFacts DEF D, L, R, p
  <2>8. Minded'
    <3>1. SUFFICES ASSUME NEW u \in User, NEW b \in Under(u)'
                   PROVE  \E t \in Session : UserOf[t] = u /\ Minds(t, b)'
      BY DEF Minded
    <3>2. CASE b \in Under(u)
      <4>1. PICK t \in Session : UserOf[t] = u /\ Minds(t, b)
        BY <3>2 DEF Inv, Minded
      <4>2. Minds(t, b)'
        BY <1>2, <2>4, <2>7, <4>1 DEF Minds
      <4> QED BY <4>1, <4>2
    <3>3. CASE b = a /\ u = UserOf[s]
      <4>1. s \in hub
        BY <1>1, <1>2 DEF Inv, Local, R
      <4>2. b \notin excused
        BY <1>2 DEF Under
      <4>3. ~Fired(s)
        BY <1>6, <1>9, <3>3, <4>2 DEF Inv, Agree, p
      <4> QED BY <1>2, <2>4, <3>3, <4>1, <4>3 DEF Minds
    <3> QED BY <2>6, <3>2, <3>3
  <2>9. Scanned'
    <3>1. SUFFICES ASSUME Single, NEW u \in User, NEW b \in Under(u)', NEW c \in Under(u)', b # c,
                          b \notin crept', c \notin crept'
                   PROVE  \E t \in Session : /\ UserOf[t] = u
                                             /\ Listed("read", R(t)', b) \/ Listed("read", R(t)', c)
      BY DEF Scanned, Listed
    <3>0. \A d \in Addr \ {a} : d \notin crept' => d \notin crept
      BY <1>2, <1>3
    <3>9. \A w \in User : a \notin Under(w)
      BY <1>1, <1>2, <1>3 DEF Under, At, R, p
    <3>2. CASE b \in Under(u) /\ c \in Under(u)
      <4>1. PICK t \in Session : UserOf[t] = u /\ (Listed("read", R(t), b) \/ Listed("read", R(t), c))
        <5>1. b \in Addr \ {a} /\ c \in Addr \ {a}
          BY <3>2, <3>9, UnderStore
        <5> QED BY <3>0, <3>1, <3>2, <5>1 DEF Inv, Scanned
      <4>2. t # s
        BY <1>1, <1>2, <4>1 DEF Listed
      <4> QED BY <2>7, <4>1, <4>2
    <3>3. ASSUME NEW d \in Under(u), d # a, u = UserOf[s], a \notin crept' PROVE Listed("read", R(s)', d)
      <4>1. d \in roster
        BY <3>3, UnderStore
      <4>2. d \in x.todo /\ x.pc = "scan"
        <5>1. d \in Addr /\ proc[p].todo # {}
          BY <1>2, <1>3, <1>9, <3>3, UnderStore
        <5>2. proc[p].todo = Addr \ {a}
          BY <1>1, <1>2, <1>3, <5>1 DEF Inv, Local, Aimed
        <5> QED BY <1>3, <1>4, <3>3, <4>1, <5>1, <5>2
      <4> QED BY <2>7, <4>2 DEF Listed
    <3> QED BY <2>6, <3>1, <3>2, <3>3
  <2>10. Retiring'
    BY <1>1, <1>2, <2>1, ProcFacts, RetiringKept
  <2> QED BY <2>2, <2>3, <2>5, <2>8, <2>9, <2>10 DEF Inv
<1> QED BY <1>3, <1>8, <1>9

-----------------------------------------------------------------------------
(***************************************************************************)
(* The radio stop.                                                         *)
(***************************************************************************)
LEMMA RadioFacts ==
  ASSUME Inv
  PROVE  /\ Radio \in Proc /\ Radio # Ros /\ Radio[1] = None /\ Radio[2] = "radio"
         /\ Radio[1] \notin Session /\ proc[Radio] \in State /\ proc[Radio].todo \in SUBSET Addr
         /\ proc[Radio].pc = "zero" => proc[Radio].a \in Addr
<1>1. Radio \in Proc /\ Radio # Ros /\ Radio[1] = None /\ Radio[2] = "radio"
  BY ProcFacts DEF Radio
<1>2. Radio[1] \notin Session
  BY <1>1, SessionsAssumption
<1>3. proc[Radio] \in State
  BY <1>1, TypeFacts
<1>4. proc[Radio].pc = "zero" => proc[Radio].a \in Addr
  BY <1>1 DEF Inv, Local, Busy
<1> QED BY <1>1, <1>2, <1>3, <1>4 DEF State

LEMMA RadioStopInv ==
  ASSUME Inv, HandleRadioStop
  PROVE  Inv'
<1>1. /\ UNCHANGED <<crept, hub, closed, reason, sub, roster, track, store, ctrl, excused>>
      /\ proc[Radio].pc = "off" /\ calls < MaxCalls /\ calls' = calls + 1
  BY DEF HandleRadioStop, session, loco, At
<1>2. PICK x \in State : x = [pc |-> "halt", a |-> None, go |-> FALSE, todo |-> roster]
  BY TypeFacts DEF State, Pcs
<1>3. proc' = [proc EXCEPT ![Radio] = x] /\ x.pc = "halt"
  BY <1>2 DEF HandleRadioStop, Goto
<1>4. Fits(Radio, x)
  BY <1>3, RadioFacts DEF Fits, Aimed, Busy, RadioPcs
<1> QED BY <1>1, <1>3, <1>4, RadioFacts, TypeFacts, CallOK, QuietInv DEF Writing

LEMMA HaltOneInv ==
  ASSUME Inv, HaltOne
  PROVE  Inv'
<1>1. UNCHANGED <<crept, hub, closed, reason, sub, roster, store, ctrl>> /\ proc[Radio].pc = "halt"
  BY DEF HaltOne, session, At
<1>2. PICK a \in proc[Radio].todo :
        \/ /\ \/ track' = [track EXCEPT ![a] = FALSE] /\ Excuse(Radio, a, FALSE)
              \/ UNCHANGED track /\ excused' = excused \cup {a}
           /\ Goto(Radio, "zero", a, FALSE, proc[Radio].todo \ {a})
        \/ Goto(Radio, "halt", None, FALSE, proc[Radio].todo \ {a}) /\ UNCHANGED <<track, excused>>
  BY DEF HaltOne
<1>12. calls' \in 0 .. MaxCalls
  <2>1. UNCHANGED calls \/ (calls < MaxCalls /\ calls' = calls + 1)
    BY DEF HaltOne
  <2> QED BY <2>1, TypeFacts, CallOK
<1>3. a \in Addr
  BY RadioFacts
<1>10. CASE Goto(Radio, "halt", None, FALSE, proc[Radio].todo \ {a}) /\ UNCHANGED <<track, excused>>
  <2>1. PICK x \in State : x = [pc |-> "halt", a |-> None, go |-> FALSE, todo |-> proc[Radio].todo \ {a}]
    BY RadioFacts DEF State, Pcs
  <2>2. proc' = [proc EXCEPT ![Radio] = x] /\ x.pc = "halt"
    BY <1>10, <2>1 DEF Goto
  <2>3. Fits(Radio, x)
    BY <2>2, RadioFacts DEF Fits, Aimed, RadioPcs, Busy
  <2> QED BY <1>1, <1>12, <1>10, <2>2, <2>3, RadioFacts, TypeFacts, QuietInv DEF Writing
<1>11. SUFFICES ASSUME \/ track' = [track EXCEPT ![a] = FALSE] /\ Excuse(Radio, a, FALSE)
                       \/ UNCHANGED track /\ excused' = excused \cup {a},
                       Goto(Radio, "zero", a, FALSE, proc[Radio].todo \ {a})
               PROVE  Inv'
  BY <1>2, <1>10
<1>4. PICK x \in State : x = [pc |-> "zero", a |-> a, go |-> FALSE, todo |-> proc[Radio].todo \ {a}]
  BY <1>3, RadioFacts DEF State, Pcs
<1>5. proc' = [proc EXCEPT ![Radio] = x] /\ x.pc = "zero" /\ x.a = a
  BY <1>4, <1>11 DEF Goto
<1>6. Fits(Radio, x)
  BY <1>3, <1>5, RadioFacts DEF Fits, Aimed, RadioPcs
<1>7. \A b \in Addr : ~Listed(Radio[2], proc[Radio], b)
  BY <1>1, RadioFacts DEF Listed
<1>8. CASE track' = [track EXCEPT ![a] = FALSE] /\ Excuse(Radio, a, FALSE)
  <2>1. excused \subseteq excused' /\ excused' \subseteq Addr /\ (a \notin excused' => ~Overlaps(Radio, a))
    BY <1>3, <1>8, RadioFacts, ExcuseOK
  <2>2. track' = [track EXCEPT ![a] = FALSE]
    BY <1>8
  <2> QED BY <1>1, <1>12, <1>3, <1>5, <1>6, <1>7, <2>1, <2>2, RadioFacts, TypeFacts, SentInv DEF Writing
<1>9. CASE UNCHANGED track /\ excused' = excused \cup {a}
  <2>1. excused \subseteq excused' /\ excused' \subseteq Addr /\ a \in excused'
    BY <1>3, <1>9, TypeFacts
  <2> QED BY <1>1, <1>12, <1>3, <1>5, <1>6, <1>9, <2>1, RadioFacts, TypeFacts, QuietInv DEF Writing
<1> QED BY <1>8, <1>9, <1>11

LEMMA HaltStoreInv ==
  ASSUME Inv, HaltStore
  PROVE  Inv'
<1>1. /\ UNCHANGED <<hub, closed, reason, sub, roster, track, ctrl, calls, excused>>
      /\ proc[Radio].pc = "zero" /\ store' = [store EXCEPT ![proc[Radio].a] = FALSE]
      /\ crept' = crept \ {proc[Radio].a}
  BY DEF HaltStore, session, At
<1>2. PICK a \in Addr : a = proc[Radio].a
  BY <1>1, RadioFacts
<1>3. PICK x \in State : x = [pc |-> "halt", a |-> None, go |-> FALSE, todo |-> proc[Radio].todo]
  BY RadioFacts DEF State, Pcs
<1>4. proc' = [proc EXCEPT ![Radio] = x] /\ x.pc = "halt" /\ x.pc \notin Writing
  BY <1>3 DEF HaltStore, Goto, Writing
<1>5. Fits(Radio, x)
  BY <1>4, RadioFacts DEF Fits, Aimed, RadioPcs, Busy
<1>6. \A b \in Addr : ~Listed(Radio[2], proc[Radio], b)
  BY <1>1, RadioFacts DEF Listed
<1>7. Writes(Radio, a) /\ ~Starts(Radio, a)
  BY <1>1, <1>2 DEF Writes, Starts, Writing
<1> QED BY <1>1, <1>2, <1>4, <1>5, <1>6, <1>7, RadioFacts, TypeFacts, StoredInv

LEMMA CollectOK ==
  ASSUME Inv, NEW u \in User, NEW T \in SUBSET Addr
  PROVE  collectDriveTargetsForUser(u, T) \in SUBSET Addr
<1>1. \A s \in SessionsForUser(u) : ToSet(sub[s]) \in SUBSET Addr
  BY TypeFacts, SubsInAddr DEF SessionsForUser
<1>2. \A a \in collectDriveTargetsForUser(u, T) :
        a \in T \/ a \in roster \/ \E s \in SessionsForUser(u) : a \in ToSet(sub[s])
  BY DEF collectDriveTargetsForUser
<1> QED BY <1>1, <1>2, TypeFacts

LEMMA HaltDoneInv ==
  ASSUME Inv, HaltDone
  PROVE  Inv'
<1>1. /\ UNCHANGED <<crept, hub, closed, reason, sub, roster, track, store, ctrl, calls, excused>>
      /\ proc[Radio].pc = "halt"
      /\ Loop(Radio, "stop", UNION {collectDriveTargetsForUser(UserOf[s], {}) : s \in hub})
  BY DEF HaltDone, session, loco, At
<1>2. PICK T \in SUBSET Addr : T = UNION {collectDriveTargetsForUser(UserOf[s], {}) : s \in hub}
  <2>1. \A s \in hub : UserOf[s] \in User /\ {} \in SUBSET Addr
    BY TypeFacts, SessionsAssumption
  <2>2. \A s \in hub : collectDriveTargetsForUser(UserOf[s], {}) \in SUBSET Addr
    BY <2>1, CollectOK
  <2> QED BY <2>2
<1>3. PICK x \in State :
        /\ proc' = [proc EXCEPT ![Radio] = x] /\ x.todo = T
        /\ x.todo # {} => x.pc = "stop"
        /\ x.todo = {} => x.pc = "off"
  BY <1>1, <1>2, RadioFacts, LoopOK
<1>4. Fits(Radio, x) /\ x.pc \notin Writing
  BY <1>3, RadioFacts DEF Fits, Aimed, RadioPcs, Busy, Writing
<1> QED BY <1>1, <1>3, <1>4, RadioFacts, TypeFacts, QuietInv DEF Writing

-----------------------------------------------------------------------------
(***************************************************************************)
(* The roster.                                                             *)
(***************************************************************************)
LEMMA RosFacts ==
  ASSUME Inv
  PROVE  /\ Ros \in Proc /\ Ros[1] = None /\ Ros[2] = "roster"
         /\ Ros[1] \notin Session /\ proc[Ros] \in State
         /\ proc[Ros].pc \in {"retire", "unsubscribe", "apply"} => proc[Ros].a \in Addr
         /\ proc[Ros].pc \in {"retire", "unsubscribe"} => ~proc[Ros].go
<1>1. Ros \in Proc /\ Ros[1] = None /\ Ros[2] = "roster"
  BY ProcFacts DEF Ros
<1>2. Ros[1] \notin Session
  BY <1>1, SessionsAssumption
<1>3. proc[Ros] \in State
  BY <1>1, TypeFacts
<1>4. proc[Ros].pc \in {"retire", "unsubscribe", "apply"} => proc[Ros].a \in Addr
  BY <1>1 DEF Inv, Local, Busy
<1> QED BY <1>1, <1>2, <1>3, <1>4 DEF Inv, Local

\* The consumer of the snapshots goes on to x and tells the station nothing.
LEMMA RosterInv ==
  ASSUME Inv, NEW x \in State, proc' = [proc EXCEPT ![Ros] = x], proc[Ros].pc \in RosPcs,
         x.pc \in RosPcs, x.pc \in {"retire", "unsubscribe"} => ~x.go, x.pc # "off" => x.a \in Addr,
         UNCHANGED <<crept, hub, closed, reason, track, store, ctrl>>,
         sub' \in [Session -> Seq(Addr)],
         \A s \in Session : Len(sub'[s]) <= Cap /\ IsInjective(sub'[s]),
         roster' \subseteq Addr, calls' \in 0 .. MaxCalls, excused \subseteq excused',
         excused' \subseteq Addr, Retiring'
  PROVE  Inv'
<1>1. Fits(Ros, x)
  BY RosFacts DEF Fits, Aimed, Busy, RosPcs
<1>2. /\ proc[Ros].pc \notin Writing /\ x.pc \notin Writing
      /\ proc[Ros].pc \notin {"watch", "sleep"}
  BY DEF RosPcs, Writing
<1> QED BY <1>1, <1>2, RosFacts, TypeFacts, QuietInv

LEMMA SnapshotWithoutInv ==
  ASSUME Inv, NEW a \in Addr, SnapshotWithout(a)
  PROVE  Inv'
<1>1. /\ UNCHANGED <<crept, hub, closed, reason, sub, roster, track, store, ctrl, excused>>
      /\ proc[Ros].pc = "off" /\ calls < MaxCalls /\ calls' = calls + 1
  BY DEF SnapshotWithout, session, loco, At
<1>2. PICK x \in State : x = [pc |-> "retire", a |-> a, go |-> FALSE, todo |-> {}]
  BY DEF State, Pcs
<1>3. proc' = [proc EXCEPT ![Ros] = x] /\ x.pc = "retire" /\ ~x.go /\ x.a = a
  BY <1>2 DEF SnapshotWithout, Goto
<1>4. Retiring'
  <2>1. proc'[Ros] = x
    BY <1>3, RosFacts, Moved
  <2> QED BY <1>1, <1>3, <2>1 DEF Inv, Retiring, RetiredStands
<1> QED BY <1>1, <1>3, <1>4, TypeFacts, CallOK, RosterInv DEF RosPcs

LEMMA SnapshotWithInv ==
  ASSUME Inv, NEW a \in Addr, SnapshotWith(a)
  PROVE  Inv'
<1>1. /\ UNCHANGED <<crept, hub, closed, reason, sub, roster, track, store, ctrl, excused>>
      /\ proc[Ros].pc = "off" /\ calls < MaxCalls /\ calls' = calls + 1
  BY DEF SnapshotWith, session, loco, At
<1>2. PICK x \in State : x = [pc |-> "apply", a |-> a, go |-> TRUE, todo |-> {}]
  BY DEF State, Pcs
<1>3. proc' = [proc EXCEPT ![Ros] = x] /\ x.pc = "apply" /\ x.go /\ x.a = a
  BY <1>2 DEF SnapshotWith, Goto
<1>4. Retiring'
  <2>1. proc'[Ros] = x
    BY <1>3, RosFacts, Moved
  <2> QED BY <1>1, <1>3, <2>1 DEF Inv, Retiring, RetiredStands
<1> QED BY <1>1, <1>3, <1>4, TypeFacts, CallOK, RosterInv DEF RosPcs

LEMMA RetireInv ==
  ASSUME Inv, retireRemovedLoco
  PROVE  Inv'
<1>1. /\ UNCHANGED <<crept, hub, closed, reason, sub, roster, store, ctrl>>
      /\ proc[Ros].pc = "retire" /\ To(Ros, "unsubscribe")
  BY DEF retireRemovedLoco, session, At
<1>2. PICK a \in Addr : a = proc[Ros].a
  BY <1>1, RosFacts
<1>3. PICK x \in State : /\ proc' = [proc EXCEPT ![Ros] = x] /\ x.pc = "unsubscribe"
                         /\ x.a = a /\ ~x.go
  BY <1>1, <1>2, RosFacts, ToOK DEF Pcs
<1>4. proc'[Ros] = x
  BY <1>3, RosFacts, Moved
<1>5. CASE track' = [track EXCEPT ![a] = FALSE] /\ Excuse(Ros, a, FALSE) /\ UNCHANGED calls
  <2>1. excused \subseteq excused' /\ excused' \subseteq Addr /\ (a \notin excused' => ~Overlaps(Ros, a))
    BY <1>5, RosFacts, ExcuseOK
  <2>2. track'[a] = FALSE /\ \A b \in Addr \ {a} : track'[b] = track[b]
    BY <1>5, TypeFacts
  <2>3. Retiring'
    BY <1>1, <1>3, <1>4, <2>1, <2>2 DEF Inv, Retiring, RetiredStands
  <2>4. Fits(Ros, x)
    BY <1>3, RosFacts DEF Fits, Aimed, RosPcs
  <2>5. \A b \in Addr : ~Listed(Ros[2], proc[Ros], b)
    BY <1>1, RosFacts DEF Listed
  <2>6. /\ track' = [track EXCEPT ![a] = FALSE] /\ calls' \in 0 .. MaxCalls /\ ~(x.pc = "store" /\ x.go)
        /\ proc[Ros].pc \notin Writing /\ proc[Ros].pc \notin {"watch", "sleep"}
    BY <1>1, <1>3, <1>5, TypeFacts DEF Writing
  <2> QED BY <1>1, <1>3, <2>1, <2>3, <2>4, <2>5, <2>6, RosFacts, SentInv
<1>6. CASE /\ calls < MaxCalls /\ calls' = calls + 1 /\ excused' = excused \cup {a}
           /\ UNCHANGED track
  <2>1. excused \subseteq excused' /\ excused' \subseteq Addr /\ a \in excused'
    BY <1>6, TypeFacts
  <2>2. Retiring'
    BY <1>1, <1>3, <1>4, <1>6, <2>1 DEF Inv, Retiring, RetiredStands
  <2> QED BY <1>1, <1>3, <1>6, <2>1, <2>2, TypeFacts, CallOK, RosterInv DEF RosPcs
<1> QED BY <1>2, <1>5, <1>6 DEF retireRemovedLoco

LEMMA ApplyInv ==
  ASSUME Inv, ApplySnapshot
  PROVE  Inv'
<1>1. /\ UNCHANGED <<crept, hub, closed, reason, sub, track, store, ctrl, calls, excused>>
      /\ proc[Ros].pc = "apply"
      /\ roster' = IF proc[Ros].go THEN roster \cup {proc[Ros].a} ELSE roster \ {proc[Ros].a}
  BY DEF ApplySnapshot, session, loco, At
<1>2. PICK x \in State : x = [pc |-> "off", a |-> None, go |-> FALSE, todo |-> {}]
  BY DEF State, Pcs
<1>3. proc' = [proc EXCEPT ![Ros] = x] /\ x.pc = "off"
  BY <1>2 DEF ApplySnapshot, Goto
<1>4. roster' \subseteq Addr
  BY <1>1, RosFacts, TypeFacts
<1>5. Retiring'
  <2>1. proc'[Ros] = x
    BY <1>3, RosFacts, Moved
  <2> QED BY <1>1, <1>3, <2>1 DEF Inv, Retiring, RetiredStands
<1> QED BY <1>1, <1>3, <1>4, <1>5, TypeFacts, RosterInv DEF RosPcs

\* A subscription is dropped.
LEMMA UnsubscribedOK ==
  ASSUME NEW q \in Seq(Addr), Len(q) <= Cap, IsInjective(q), NEW a,
         NEW r, r = Unsubscribe(q, a)
  PROVE  r \in Seq(Addr) /\ Len(r) <= Cap /\ IsInjective(r)
<1>1. CASE {i \in DOMAIN q : q[i] = a} = {}
  BY <1>1 DEF Unsubscribe
<1>2. CASE {i \in DOMAIN q : q[i] = a} # {}
  <2>0. PICK S : S = {i \in DOMAIN q : q[i] = a}
    OBVIOUS
  <2>1. PICK n \in 1 .. Len(q) : r = RemoveAt(q, n)
    <3>1. (CHOOSE i \in S : TRUE) \in S
      BY <1>2, <2>0
    <3>2. r = RemoveAt(q, CHOOSE i \in S : TRUE)
      BY <1>2, <2>0 DEF Unsubscribe
    <3>3. PICK n \in S : n = CHOOSE i \in S : TRUE
      BY <3>1
    <3>4. r = RemoveAt(q, n) /\ n \in 1 .. Len(q)
      BY <2>0, <3>2, <3>3
    <3> QED BY <3>4
  <2>2. PICK h \in Seq(Addr), t \in Seq(Addr) :
          h = SubSeq(q, 1, n - 1) /\ t = SubSeq(q, n + 1, Len(q))
    <3>1. \A i \in 1 .. Len(q) : q[i] \in Addr
      OBVIOUS
    <3>2. SubSeq(q, 1, n - 1) \in Seq(Addr)
      BY <2>1, <3>1, SubSeqProperties
    <3>3. SubSeq(q, n + 1, Len(q)) \in Seq(Addr)
      BY <2>1, <3>1, SubSeqProperties
    <3> QED BY <3>2, <3>3
  <2>3. /\ Len(h) = n - 1 /\ \A i \in 1 .. n - 1 : h[i] = q[i]
        /\ Len(t) = Len(q) - n /\ \A i \in 1 .. Len(q) - n : t[i] = q[n + i]
    BY <2>1, <2>2
  <2>4. r = h \o t
    BY <2>1, <2>2 DEF RemoveAt
  <2>5. r \in Seq(Addr) /\ Len(r) = Len(q) - 1
    BY <2>1, <2>3, <2>4
  <2>6. \A i \in 1 .. Len(r) : r[i] = IF i < n THEN q[i] ELSE q[i + 1]
    <3>1. SUFFICES ASSUME NEW i \in 1 .. Len(r) PROVE r[i] = IF i < n THEN q[i] ELSE q[i + 1]
      OBVIOUS
    <3>2. r[i] = IF i <= Len(h) THEN h[i] ELSE t[i - Len(h)]
      <4>1. i \in 1 .. Len(h) + Len(t)
        BY <2>1, <2>3, <2>5, <3>1
      <4> QED BY <2>2, <2>4, <4>1, ConcatProperties, ZenonT(60)
    <3>3. CASE i < n
      BY <2>1, <2>3, <2>5, <3>1, <3>2, <3>3
    <3>4. CASE ~(i < n)
      BY <2>1, <2>3, <2>5, <3>1, <3>2, <3>4
    <3> QED BY <3>3, <3>4
  <2>7. \A i, j \in 1 .. Len(q) : q[i] = q[j] => i = j
    BY DEF IsInjective
  <2>8. \A i, j \in 1 .. Len(r) : r[i] = r[j] => i = j
    <3>1. SUFFICES ASSUME NEW i \in 1 .. Len(r), NEW j \in 1 .. Len(r), r[i] = r[j] PROVE i = j
      OBVIOUS
    <3>2. PICK k \in 1 .. Len(q) : r[i] = q[k] /\ k = IF i < n THEN i ELSE i + 1
      BY <2>1, <2>5, <2>6, <3>1
    <3>3. PICK l \in 1 .. Len(q) : r[j] = q[l] /\ l = IF j < n THEN j ELSE j + 1
      BY <2>1, <2>5, <2>6, <3>1
    <3>4. k = l
      BY <2>7, <3>1, <3>2, <3>3
    <3> QED BY <3>2, <3>3, <3>4
  <2>9. Len(r) <= Cap
    BY <2>5, SessionsAssumption
  <2> QED BY <2>5, <2>8, <2>9, SMTT(30) DEF IsInjective
<1> QED BY <1>1, <1>2

LEMMA UnsubscribeAllInv ==
  ASSUME Inv, UnsubscribeAll
  PROVE  Inv'
<1>1. /\ UNCHANGED <<crept, hub, closed, reason, roster, track, store, ctrl, calls, excused>>
      /\ proc[Ros].pc = "unsubscribe" /\ To(Ros, "apply")
  BY DEF UnsubscribeAll, loco, At
<1>2. PICK x \in State : /\ proc' = [proc EXCEPT ![Ros] = x] /\ x.pc = "apply"
                         /\ x.a = proc[Ros].a /\ ~x.go
  BY <1>1, RosFacts, ToOK DEF Pcs
<1>3. ASSUME NEW s \in Session
      PROVE  sub'[s] \in Seq(Addr) /\ Len(sub'[s]) <= Cap /\ IsInjective(sub'[s])
  <2>1. sub'[s] = sub[s] \/ sub'[s] = Unsubscribe(sub[s], proc[Ros].a)
    BY DEF UnsubscribeAll
  <2> QED BY <2>1, TypeFacts, UnsubscribedOK
<1>4. sub' \in [Session -> Seq(Addr)]
  <2>1. PICK f : f = sub'
    OBVIOUS
  <2>2. DOMAIN f = Session /\ f = [s \in DOMAIN f |-> f[s]]
    BY <2>1 DEF UnsubscribeAll
  <2>3. \A s \in Session : f[s] \in Seq(Addr)
    BY <1>3, <2>1
  <2> QED BY <2>1, <2>2, <2>3
<1>5. Retiring'
  <2>1. proc'[Ros] = x
    BY <1>2, RosFacts, Moved
  <2> QED BY <1>1, <1>2, <2>1, RosFacts DEF Inv, Retiring, RetiredStands
<1> QED BY <1>1, <1>2, <1>3, <1>4, <1>5, RosFacts, TypeFacts, RosterInv DEF RosPcs

-----------------------------------------------------------------------------
(***************************************************************************)
(* A session opens and ends.                                               *)
(***************************************************************************)

\* What s minded, it or another session of its user still minds.
HandsOver(s) ==
  \A b \in Under(UserOf[s]) : b \notin excused' /\ Minds(s, b)
    => \E t \in Session : UserOf[t] = UserOf[s] /\ Minds(t, b)'

\* The goroutines of s move, and write nothing.
LEMMA SessionInv ==
  ASSUME Inv, NEW s \in Session, proc' \in [Proc -> State],
         \A q \in Proc \ {<<s, "read">>, <<s, "dog">>, <<s, "late">>} : proc'[q] = proc[q],
         R(s)' = R(s) \/ (R(s).pc \in {"off", "read"} /\ R(s)'.pc \notin Writing),
         D(s)' = D(s) \/ (D(s).pc \notin Writing /\ D(s)'.pc \notin Writing),
         L(s)' = L(s) \/ (L(s).pc \notin Writing /\ L(s)'.pc \notin Writing),
         UNCHANGED <<crept, sub, roster, track, store, ctrl>>,
         hub' \subseteq Session, \A t \in Session \ {s} : t \in hub => t \in hub',
         closed' \in [Session -> BOOLEAN], reason' \in [Session -> {"none", "deadman", "other"}],
         calls' \in 0 .. MaxCalls, excused \subseteq excused', excused' \subseteq Addr,
         Local',
         \A a \in Addr : Starts(<<s, "read">>, a) /\ Fired(s)' => Fired(s) \/ a \in excused',
         HandsOver(s)
  PROVE  Inv'
<1>1. TypeOK'
  BY TypeFacts, TypesStep
<1>2. \A t \in Session \ {s} : R(t)' = R(t) /\ D(t)' = D(t) /\ L(t)' = L(t) /\ (Fired(t)' <=> Fired(t))
  BY ProcFacts DEF R, D, L, Fired
<1>3. Agree'
  <2>1. \A p \in Proc : \/ proc'[p] = proc[p]
                         \/ /\ proc[p].pc \notin Writing
                            /\ proc'[p].pc \notin Writing \/ proc'[p].a \in excused'
    BY DEF R, D, L, Writing
  <2>2. \A t \in Session : \A a \in Addr :
          Starts(<<t, "read">>, a) /\ Fired(t)' => Fired(t) \/ a \in excused'
    BY <1>2
  <2> QED BY <2>1, <2>2, AgreeQuiet
<1>4. \A u \in User : \A b \in Under(u)' : b \in Under(u) /\ b \notin excused'
  <2>1. \A t \in Session : R(t).pc = "store" => R(t)' = R(t)
    BY <1>2
  <2>2. \A u \in User : \A b \in Under(u)' : b \in Under(u)
    BY <2>1, UnderQuiet
  <2>3. \A u \in User : \A b \in Under(u)' : b \notin excused'
    BY DEF Under
  <2> QED BY <2>2, <2>3
<1>5. Minded'
  <2>1. SUFFICES ASSUME NEW u \in User, NEW b \in Under(u)'
                 PROVE  \E t \in Session : UserOf[t] = u /\ Minds(t, b)'
    BY DEF Minded
  <2>2. b \in Under(u) /\ b \notin excused'
    BY <1>4, <2>1
  <2>3. PICK t \in Session : UserOf[t] = u /\ Minds(t, b)
    BY <2>2 DEF Inv, Minded
  <2>4. CASE t = s
    BY <2>2, <2>3, <2>4 DEF HandsOver
  <2>5. CASE t # s
    <3>1. Minds(t, b)'
      BY <1>2, <2>3, <2>5 DEF Minds
    <3> QED BY <2>3, <3>1
  <2> QED BY <2>4, <2>5
<1>6. Scanned'
  <2>1. SUFFICES ASSUME Single, NEW u \in User, NEW a \in Under(u)', NEW b \in Under(u)', a # b,
                        a \notin crept', b \notin crept'
                 PROVE  \E t \in Session : /\ UserOf[t] = u
                                           /\ Listed("read", R(t)', a) \/ Listed("read", R(t)', b)
    BY DEF Scanned, Listed
  <2>2. PICK t \in Session : UserOf[t] = u /\ (Listed("read", R(t), a) \/ Listed("read", R(t), b))
    BY <1>4, <2>1 DEF Inv, Scanned
  <2>3. R(t)' = R(t)
    BY <1>2, <2>2 DEF Listed
  <2> QED BY <2>2, <2>3
<1>7. Retiring'
  BY ProcFacts, RetiringKept
<1> QED BY <1>1, <1>3, <1>5, <1>6, <1>7 DEF Inv

Both(p, y, q, z) == proc' = [proc EXCEPT ![p].pc = y, ![q].pc = z]

LEMMA TwoMoves ==
  ASSUME Inv, NEW p \in Proc, NEW q \in Proc, p # q, NEW y \in Pcs, NEW z \in Pcs,
         Both(p, y, q, z)
  PROVE  /\ proc' \in [Proc -> State] /\ proc'[p].pc = y /\ proc'[q].pc = z
         /\ proc'[p].a = proc[p].a /\ proc'[q].a = proc[q].a
         /\ \A r \in Proc \ {p, q} : proc'[r] = proc[r]
<1>1. proc \in [Proc -> State]
  BY TypeFacts
<1>2. PICK v \in State, w \in State : v = [proc[p] EXCEPT !.pc = y] /\ w = [proc[q] EXCEPT !.pc = z]
  BY <1>1 DEF State
<1>3. v.pc = y /\ w.pc = z /\ v.a = proc[p].a /\ w.a = proc[q].a
  BY <1>1, <1>2 DEF State
<1>4. proc' = [[proc EXCEPT ![p] = v] EXCEPT ![q] = w]
  BY <1>1, <1>2 DEF Both
<1> QED BY <1>1, <1>3, <1>4

LEMMA CloseOK ==
  ASSUME Inv, NEW s \in Session, NEW why \in {"deadman", "other"}, Close(s, why)
  PROVE  /\ closed' \in [Session -> BOOLEAN] /\ reason' \in [Session -> {"none", "deadman", "other"}]
         /\ \A t \in Session \ {s} : reason'[t] = reason[t]
         /\ reason'[s] = reason[s] \/ reason'[s] = why
BY TypeFacts DEF Close

LEMMA SessionProcs ==
  ASSUME Inv, NEW s \in Session
  PROVE  /\ <<s, "read">> \in Proc /\ <<s, "dog">> \in Proc /\ <<s, "late">> \in Proc
         /\ <<s, "read">> # <<s, "dog">> /\ <<s, "read">> # <<s, "late">> /\ <<s, "dog">> # <<s, "late">>
         /\ \A t \in Session \ {s} : \A k \in {"read", "dog", "late"} :
              <<t, k>> \in Proc \ {<<s, "read">>, <<s, "dog">>, <<s, "late">>}
         /\ Ros \in Proc \ {<<s, "read">>, <<s, "dog">>, <<s, "late">>}
         /\ Radio \in Proc \ {<<s, "read">>, <<s, "dog">>, <<s, "late">>}
         /\ R(s) \in State /\ D(s) \in State /\ L(s) \in State
         /\ R(s).pc \in ReadPcs /\ D(s).pc \in DogPcs /\ L(s).pc \in LatePcs
         /\ s \in hub <=> R(s).pc \notin {"off", "end"}
         /\ R(s).pc = "off" => D(s).pc = "off"
         /\ R(s).pc # "end" => L(s).pc = "off"
         /\ reason[s] = "deadman" => D(s).pc = "end"
<1>1. /\ <<s, "read">> \in Proc /\ <<s, "dog">> \in Proc /\ <<s, "late">> \in Proc
      /\ <<s, "read">> # <<s, "dog">> /\ <<s, "read">> # <<s, "late">> /\ <<s, "dog">> # <<s, "late">>
      /\ \A t \in Session \ {s} : \A k \in {"read", "dog", "late"} :
           <<t, k>> \in Proc \ {<<s, "read">>, <<s, "dog">>, <<s, "late">>}
      /\ Ros \in Proc \ {<<s, "read">>, <<s, "dog">>, <<s, "late">>}
      /\ Radio \in Proc \ {<<s, "read">>, <<s, "dog">>, <<s, "late">>}
  BY ProcFacts
<1>2. R(s) \in State /\ D(s) \in State /\ L(s) \in State
  BY <1>1, TypeFacts DEF R, D, L
<1> QED BY <1>1, <1>2 DEF Inv, Local

\* Local again, when only s has changed.
LEMMA LocalSession ==
  ASSUME Inv, NEW s \in Session,
         \A q \in Proc \ {<<s, "read">>, <<s, "dog">>, <<s, "late">>} : proc'[q] = proc[q],
         \A t \in Session \ {s} : (t \in hub' <=> t \in hub) /\ reason'[t] = reason[t],
         R(s)'.pc \in ReadPcs, D(s)'.pc \in DogPcs, L(s)'.pc \in LatePcs,
         s \in hub' <=> R(s)'.pc \notin {"off", "end"},
         R(s)'.pc = "off" => D(s)'.pc = "off",
         R(s)'.pc # "end" => L(s)'.pc = "off",
         reason'[s] = "deadman" => D(s)'.pc = "end",
         R(s)'.pc \in Busy => R(s)'.a \in Addr, D(s)'.pc \in Busy => D(s)'.a \in Addr,
         L(s)'.pc \in Busy => L(s)'.a \in Addr,
         R(s)' = R(s) \/ R(s)'.pc \notin {"send", "store"}
  PROVE  Local'
<1>1. \A t \in Session \ {s} : R(t)' = R(t) /\ D(t)' = D(t) /\ L(t)' = L(t)
  BY SessionProcs DEF R, D, L
<1>2. proc'[Ros] = proc[Ros] /\ proc'[Radio] = proc[Radio]
  BY SessionProcs
<1>3. \A t \in Session :
       /\ R(t)'.pc \in ReadPcs /\ D(t)'.pc \in DogPcs /\ L(t)'.pc \in LatePcs
       /\ t \in hub' <=> R(t)'.pc \notin {"off", "end"}
       /\ R(t)'.pc = "off" => D(t)'.pc = "off"
       /\ R(t)'.pc # "end" => L(t)'.pc = "off"
       /\ reason'[t] = "deadman" => D(t)'.pc = "end"
  <2>1. SUFFICES ASSUME NEW t \in Session, t # s
        PROVE  /\ R(t)'.pc \in ReadPcs /\ D(t)'.pc \in DogPcs /\ L(t)'.pc \in LatePcs
               /\ t \in hub' <=> R(t)'.pc \notin {"off", "end"}
               /\ R(t)'.pc = "off" => D(t)'.pc = "off"
               /\ R(t)'.pc # "end" => L(t)'.pc = "off"
               /\ reason'[t] = "deadman" => D(t)'.pc = "end"
    OBVIOUS
  <2> QED BY <1>1, <2>1, SessionProcs
<1>4. \A p \in Proc : proc'[p].pc \in Busy => proc'[p].a \in Addr
  BY DEF R, D, L, Inv, Local
<1>5. \A p \in Proc : Aimed(proc'[p])
  <2>1. Aimed(R(s)')
    BY SessionProcs DEF R, Inv, Local, Aimed
  <2>2. Aimed(D(s)') /\ Aimed(L(s)')
    BY DEF Aimed, DogPcs, LatePcs
  <2> QED BY <2>1, <2>2 DEF R, D, L, Inv, Local
<1> QED BY <1>2, <1>3, <1>4, <1>5 DEF Inv, Local, Aimed

LEMMA OpenInv ==
  ASSUME Inv, NEW s \in Session, handleWS(s)
  PROVE  Inv'
<1>1. /\ UNCHANGED <<crept, closed, reason, sub, roster, track, store, ctrl, calls, excused>>
      /\ R(s).pc = "off" /\ hub' = hub \cup {s}
      /\ proc' = [proc EXCEPT ![<<s, "read">>].pc = "read", ![<<s, "dog">>].pc = "watch"]
  BY DEF handleWS, loco, At, R
<1>2. D(s).pc = "off" /\ L(s).pc = "off" /\ s \notin hub /\ reason[s] # "deadman"
  BY <1>1, SessionProcs
<1>3. /\ proc' \in [Proc -> State] /\ R(s)'.pc = "read" /\ D(s)'.pc = "watch"
      /\ \A q \in Proc \ {<<s, "read">>, <<s, "dog">>} : proc'[q] = proc[q]
  <2>0. PICK p : p = <<s, "read">>
    OBVIOUS
  <2>1. PICK q : q = <<s, "dog">> /\ p \in Proc /\ q \in Proc /\ p # q
    BY <2>0, SessionProcs
  <2>2. "read" \in Pcs /\ "watch" \in Pcs /\ Both(p, "read", q, "watch")
    BY <1>1, <2>0, <2>1 DEF Pcs, Both
  <2>3. /\ proc' \in [Proc -> State] /\ proc'[p].pc = "read" /\ proc'[q].pc = "watch"
        /\ \A r \in Proc \ {p, q} : proc'[r] = proc[r]
    BY <2>1, <2>2, TwoMoves
  <2> QED BY <2>0, <2>1, <2>3 DEF R, D
<1>4. L(s)' = L(s)
  BY <1>3, SessionProcs DEF L
<1>5. Local'
  BY <1>1, <1>2, <1>3, <1>4, LocalSession DEF ReadPcs, DogPcs, LatePcs, Busy
<1>6. \A b \in Addr : ~Minds(s, b)
  BY <1>2 DEF Minds, Listed
<1>7. HandsOver(s)
  BY <1>6 DEF HandsOver, Under
<1>8. \A a \in Addr : ~Starts(<<s, "read">>, a)
  BY <1>1 DEF Starts, R
<1> QED BY <1>1, <1>2, <1>3, <1>4, <1>5, <1>7, <1>8, TypeFacts, SessionInv DEF Writing

LEMMA WriteFailsInv ==
  ASSUME Inv, NEW s \in Session, WriteFails(s)
  PROVE  Inv'
<1>1. /\ UNCHANGED <<crept, hub, sub, roster, track, store, ctrl, proc, excused>>
      /\ Close(s, "other") /\ calls < MaxCalls /\ calls' = calls + 1
  BY DEF WriteFails, loco
<1>2. UNCHANGED <<R(s), D(s), L(s)>> /\ (Fired(s)' <=> Fired(s))
  BY <1>1 DEF R, D, L, Fired
<1>3. /\ closed' \in [Session -> BOOLEAN] /\ reason' \in [Session -> {"none", "deadman", "other"}]
      /\ \A t \in Session \ {s} : reason'[t] = reason[t]
      /\ reason'[s] = reason[s] \/ reason'[s] = "other"
  BY <1>1, CloseOK
<1>4. Local'
  BY <1>1, <1>2, <1>3, SessionProcs, LocalSession DEF Inv, Local, R, D, L
<1>5. HandsOver(s)
  BY <1>1, <1>2 DEF HandsOver, Minds
<1> QED BY <1>1, <1>2, <1>3, <1>4, <1>5, TypeFacts, CallOK, SessionInv

LEMMA ReadEndsInv ==
  ASSUME Inv, NEW s \in Session, ReadEnds(s)
  PROVE  Inv'
<1>1. /\ UNCHANGED <<crept, sub, roster, track, store, ctrl, calls, excused>>
      /\ R(s).pc = "read" /\ hub' = hub \ {s} /\ Close(s, "other")
      /\ proc' = [proc EXCEPT ![<<s, "read">>].pc = "end",
                              ![<<s, "late">>].pc = IF reason[s] = "deadman" THEN "off" ELSE "sleep"]
  BY DEF ReadEnds, loco, At, R
<1>2. L(s).pc = "off" /\ s \in hub
  BY <1>1, SessionProcs
<1>3. PICK z \in Pcs : z = IF reason[s] = "deadman" THEN "off" ELSE "sleep"
  BY DEF Pcs
<1>4. /\ proc' \in [Proc -> State] /\ R(s)'.pc = "end" /\ L(s)'.pc = z
      /\ \A q \in Proc \ {<<s, "read">>, <<s, "late">>} : proc'[q] = proc[q]
  <2>0. PICK p : p = <<s, "read">>
    OBVIOUS
  <2>1. PICK q : q = <<s, "late">> /\ p \in Proc /\ q \in Proc /\ p # q
    BY <2>0, SessionProcs
  <2>2. "end" \in Pcs /\ z \in Pcs /\ Both(p, "end", q, z)
    BY <1>1, <1>3, <2>0, <2>1 DEF Pcs, Both
  <2>3. /\ proc' \in [Proc -> State] /\ proc'[p].pc = "end" /\ proc'[q].pc = z
        /\ \A r \in Proc \ {p, q} : proc'[r] = proc[r]
    BY <2>1, <2>2, TwoMoves
  <2> QED BY <2>0, <2>1, <2>3 DEF R, L
<1>5. D(s)' = D(s) /\ (Fired(s)' <=> Fired(s))
  BY <1>4, SessionProcs DEF D, Fired
<1>6. /\ closed' \in [Session -> BOOLEAN] /\ reason' \in [Session -> {"none", "deadman", "other"}]
      /\ \A t \in Session \ {s} : reason'[t] = reason[t]
      /\ reason'[s] = reason[s] \/ reason'[s] = "other"
  BY <1>1, CloseOK
<1>7. Local'
  <2>1. D(s).pc \in Busy => D(s).a \in Addr
    BY SessionProcs DEF Inv, Local, D
  <2> QED BY <1>1, <1>3, <1>4, <1>5, <1>6, <2>1, SessionProcs, LocalSession, SMTT(30) DEF ReadPcs, LatePcs, Busy
<1>8. HandsOver(s)
  <2>1. CASE reason[s] = "deadman"
    <3>1. D(s).pc = "end"
      BY <2>1, SessionProcs
    <3>2. \A b \in Addr : ~Minds(s, b)
      BY <1>2, <3>1 DEF Minds, Fired, Listed, D
    <3> QED BY <3>2 DEF HandsOver, Under
  <2>2. CASE reason[s] # "deadman"
    <3>1. \A b : Minds(s, b)'
      BY <1>3, <1>4, <2>2 DEF Minds
    <3> QED BY <3>1 DEF HandsOver
  <2> QED BY <2>1, <2>2
<1>9. L(s)'.pc \notin Writing
  BY <1>3, <1>4 DEF Writing
<1> QED BY <1>1, <1>2, <1>4, <1>5, <1>6, <1>7, <1>8, <1>9, TypeFacts, SessionInv DEF Writing

LEMMA CloseDeadmanInv ==
  ASSUME Inv, NEW s \in Session, CloseDeadman(s)
  PROVE  Inv'
<1>1. /\ UNCHANGED <<crept, hub, sub, roster, track, store, ctrl, calls, excused>>
      /\ D(s).pc = "shut" /\ Close(s, "deadman") /\ To(<<s, "dog">>, "end")
  BY DEF CloseDeadman, loco, At, D
<1>2. PICK x \in State : proc' = [proc EXCEPT ![<<s, "dog">>] = x] /\ x.pc = "end"
  <2>1. PICK p \in Proc : p = <<s, "dog">>
    BY SessionProcs
  <2>2. "end" \in Pcs /\ To(p, "end")
    BY <1>1, <2>1 DEF Pcs
  <2> QED BY <2>1, <2>2, ToOK
<1>3. /\ proc' \in [Proc -> State] /\ D(s)' = x
      /\ \A q \in Proc \ {<<s, "dog">>} : proc'[q] = proc[q]
  BY <1>2, SessionProcs, Moved DEF D
<1>4. R(s)' = R(s) /\ L(s)' = L(s) /\ Fired(s)' /\ Fired(s)
  BY <1>1, <1>2, <1>3, SessionProcs DEF R, L, D, Fired
<1>5. /\ closed' \in [Session -> BOOLEAN] /\ reason' \in [Session -> {"none", "deadman", "other"}]
      /\ \A t \in Session \ {s} : reason'[t] = reason[t]
  BY <1>1, CloseOK
<1>6. Local'
  <2>1. (R(s).pc \in Busy => R(s).a \in Addr) /\ (L(s).pc \in Busy => L(s).a \in Addr)
    BY SessionProcs DEF Inv, Local, R, L
  <2>2. R(s).pc # "off"
    BY <1>1, SessionProcs
  <2> QED BY <1>1, <1>2, <1>3, <1>4, <1>5, <2>1, <2>2, SessionProcs, LocalSession DEF DogPcs, Busy
<1>7. HandsOver(s)
  <2>1. \A b : Minds(s, b) => Minds(s, b)'
    BY <1>1, <1>4 DEF Minds, Listed
  <2> QED BY <2>1 DEF HandsOver
<1> QED BY <1>1, <1>2, <1>3, <1>4, <1>5, <1>6, <1>7, TypeFacts, SessionInv DEF Writing

\* The dead-man plan of s, in its watchdog or in its delayed close.
LEMMA SessionCloseInv ==
  ASSUME Inv, NEW s \in Session, NEW k \in {"dog", "late"}, NEW p \in Proc, p = <<s, k>>,
         HandleSessionClose(p), k = "dog" => D(s).pc = "watch", k = "late" => L(s).pc = "sleep"
  PROVE  Inv'
<1>1. /\ UNCHANGED <<crept, hub, closed, reason, sub, roster, track, store, ctrl, calls>>
      /\ p[1] = s /\ p[2] = k /\ Of(p) = UserOf[s] /\ UserOf[s] \in User
  BY SessionsAssumption DEF HandleSessionClose, session, loco, Of
<1>2. PICK u \in User, others \in SUBSET Session :
        u = UserOf[s] /\ others = SessionsForUser(u) \ {s}
  BY <1>1, TypeFacts DEF SessionsForUser
<1>3. PICK own \in SUBSET Addr : own = IF p[2] = "dog" /\ s \in hub THEN ToSet(sub[s]) ELSE {}
  BY SubsInAddr
<1>4. PICK all \in SUBSET Addr : all = collectDriveTargetsForUser(u, ToSet(sub[s]))
  BY SubsInAddr, CollectOK
<1>5. PICK T \in SUBSET Addr : T = IF others = {} THEN all ELSE own
  OBVIOUS
<1>6. Loop(p, "stop", T)
  BY <1>1, <1>2, <1>3, <1>4, <1>5 DEF HandleSessionClose
<1>7. /\ excused \subseteq excused' /\ excused' \subseteq Addr
      /\ others # {} /\ (\A t \in others : Fired(t)) => \A a \in Addr : ctrl[a] = u => a \in excused'
      /\ \A a \in Addr : R(s).a = a /\ R(s).pc = "store" => a \in excused'
  BY <1>1, <1>2, TypeFacts DEF HandleSessionClose, R
<1>8. PICK x \in State :
        /\ proc' = [proc EXCEPT ![p] = x] /\ x.todo = T
        /\ x.todo # {} => x.pc = "stop"
        /\ x.todo = {} => x.pc = IF p[2] = "read" THEN "read"
                                 ELSE IF p[2] = "dog" THEN "shut" ELSE "off"
  BY <1>6, LoopOK
<1>9. /\ proc' \in [Proc -> State] /\ proc'[p] = x /\ \A q \in Proc \ {p} : proc'[q] = proc[q]
  BY <1>8, Moved
<1>10. Fits(p, x) /\ x.pc \notin Writing
  <2>1. proc[p].pc \in {"watch", "sleep"}
    BY DEF D, L
  <2> QED BY <1>1, <1>8, <2>1, LoopFits
<1>11. Local'
  BY <1>1, <1>8, <1>10, LocalMove
<1>12. /\ R(s)' = R(s) /\ (k # "dog" => D(s)' = D(s)) /\ (k # "late" => L(s)' = L(s))
       /\ (k = "dog" => D(s)' = x) /\ (k = "late" => L(s)' = x)
  BY <1>9, SessionProcs DEF R, D, L
<1>13. \A t \in Session \ {s} : Fired(t)' <=> Fired(t)
  BY <1>9, SessionProcs DEF Fired
<1>14. HandsOver(s)
  <2>1. SUFFICES ASSUME NEW b \in Under(u), b \notin excused'
                 PROVE  \E t \in Session : UserOf[t] = u /\ Minds(t, b)'
    BY <1>2 DEF HandsOver
  <2>2. b \in Addr /\ b \in roster /\ ctrl[b] = u
    BY <2>1, UnderStore
  <2>3. CASE others = {}
    <3>1. b \in T
      BY <1>4, <1>5, <2>2, <2>3 DEF collectDriveTargetsForUser
    <3>2. Listed("dog", x, b) /\ Listed("late", x, b)
      BY <1>8, <3>1 DEF Listed
    <3>3. Minds(s, b)'
      BY <1>12, <3>2 DEF Minds
    <3> QED BY <1>2, <3>3
  <2>4. CASE others # {}
    <3>1. PICK t \in others : ~Fired(t)
      BY <1>7, <2>1, <2>2, <2>4
    <3>2. t \in Session \ {s} /\ t \in hub /\ UserOf[t] = u
      BY <1>2, <3>1 DEF SessionsForUser
    <3>3. Minds(t, b)'
      BY <1>1, <1>13, <3>1, <3>2 DEF Minds
    <3> QED BY <3>2, <3>3
  <2> QED BY <2>3, <2>4
<1>15. \A a \in Addr : Starts(<<s, "read">>, a) => a \in excused'
  BY <1>7 DEF Starts, Writes, R
<1>16. /\ D(s)' = D(s) \/ (D(s).pc \notin Writing /\ D(s)'.pc \notin Writing)
       /\ L(s)' = L(s) \/ (L(s).pc \notin Writing /\ L(s)'.pc \notin Writing)
  BY <1>10, <1>12 DEF Writing
<1>17. \A q \in Proc \ {<<s, "read">>, <<s, "dog">>, <<s, "late">>} : proc'[q] = proc[q]
  BY <1>9
<1> QED BY <1>1, <1>7, <1>9, <1>11, <1>12, <1>14, <1>15, <1>16, <1>17, TypeFacts, SessionInv

LEMMA DeadmanInv ==
  ASSUME Inv, NEW s \in Session, watchDeadman(s) \/ delayedSessionClose(s)
  PROVE  Inv'
<1>1. CASE watchDeadman(s)
  <2>1. PICK p \in Proc : p = <<s, "dog">>
    BY SessionProcs
  <2> QED BY <1>1, <2>1, SessionCloseInv DEF watchDeadman, At, D
<1>2. CASE delayedSessionClose(s)
  <2>1. PICK p \in Proc : p = <<s, "late">>
    BY SessionProcs
  <2> QED BY <1>2, <2>1, SessionCloseInv DEF delayedSessionClose, At, L
<1> QED BY <1>1, <1>2

-----------------------------------------------------------------------------
(***************************************************************************)
(* The theorems.                                                           *)
(***************************************************************************)
LEMMA InitInv ==
  ASSUME Init
  PROVE  Inv
<1>1. Off \in State /\ Off.pc = "off" /\ Off.todo = {}
  BY DEF Off, State, Pcs
<1>2. proc \in [Proc -> State] /\ \A p \in Proc : proc[p] = Off
  BY <1>1 DEF Init
<1>3. TypeOK
  <2>1. \A s \in Session : sub[s] = <<>>
    BY DEF Init
  <2>2. \A s \in Session : Len(sub[s]) <= Cap /\ IsInjective(sub[s])
    BY <2>1, SessionsAssumption DEF IsInjective
  <2>3. sub \in [Session -> Seq(Addr)]
    BY DEF Init
  <2> QED BY <1>2, <2>2, <2>3, SessionsAssumption DEF Init, TypeOK, State, Pcs
<1>4. \A a \in Addr : ~track[a]
  BY DEF Init
<1>5. Local
  <2>1. \A s \in Session : R(s).pc = "off" /\ D(s).pc = "off" /\ L(s).pc = "off"
    BY <1>1, <1>2, ProcFacts DEF R, D, L
  <2>2. proc[Ros].pc = "off" /\ proc[Radio].pc = "off" /\ \A p \in Proc : proc[p].pc = "off"
    BY <1>1, <1>2, ProcFacts
  <2> QED BY <2>1, <2>2 DEF Init, Local, Aimed, ReadPcs, DogPcs, LatePcs, RosPcs, RadioPcs, Busy
<1>6. \A p \in Proc : \A a : ~Writes(p, a)
  BY <1>1, <1>2 DEF Writes, Writing
<1>7. Agree
  BY <1>4, <1>6, ProcFacts DEF Agree, Starts
<1>8. \A u \in User : Under(u) = {}
  BY <1>4 DEF Under
<1>9. Retiring
  <2>1. proc[Ros].pc = "off"
    BY <1>1, <1>2, ProcFacts
  <2> QED BY <1>4, <2>1 DEF Retiring, RetiredStands
<1> QED BY <1>3, <1>5, <1>7, <1>8, <1>9 DEF Inv, Minded, Scanned

LEMMA StutterInv ==
  ASSUME Inv, UNCHANGED vars
  PROVE  Inv'
<1>1. UNCHANGED <<crept, hub, closed, reason, sub, roster, track, store, ctrl, proc, calls, excused>>
  BY DEF vars, session, loco
<1>2. TypeOK' /\ Local' /\ Retiring'
  BY <1>1 DEF Inv, TypeOK, Local, Retiring, RetiredStands, R, D, L
<1>3. Agree'
  BY <1>1 DEF Inv, Agree, Writes, Starts, Fired
<1>4. \A u \in User : Under(u)' = Under(u)
  BY <1>1 DEF Under, At
<1>5. Minded' /\ Scanned'
  BY <1>1, <1>4 DEF Inv, Minded, Scanned, Minds, Fired, R, D, L
<1> QED BY <1>2, <1>3, <1>5 DEF Inv

LEMMA NextInv ==
  ASSUME Inv, [Next]_vars
  PROVE  Inv'
<1>1. ASSUME NEW s \in Session, Client(s) PROVE Inv'
  <2>1. CASE handleWS(s) \/ WriteFails(s) \/ ReadEnds(s) \/ HandleEStop(s)
    BY <2>1, OpenInv, WriteFailsInv, ReadEndsInv, EStopInv
  <2>2. ASSUME NEW a \in Addr, HandleSubscribe(s, a) PROVE Inv'
    BY <2>2, SubscribeInv
  <2>3. ASSUME NEW a \in Addr, NEW v \in 0 .. 2, HandleSetSpeed(s, a, v) PROVE Inv'
    BY <2>3, SetSpeedInv
  <2> QED BY <1>1, <2>1, <2>2, <2>3 DEF Client
<1>2. ASSUME NEW s \in Session, Run(s) PROVE Inv'
  BY <1>2, DeadmanInv, CloseDeadmanInv, SubscriptionCapInv, SendSpeedInv, StoreSpeedInv DEF Run
<1>3. ASSUME NEW p \in Proc, Work(p) PROVE Inv'
  BY <1>3, StopOneInv, StopMarkInv, ScanOneInv, ScanStoreInv DEF Work
<1>4. CASE Server
  BY <1>4, SnapshotWithoutInv, SnapshotWithInv, RetireInv, UnsubscribeAllInv, ApplyInv,
     RadioStopInv, HaltOneInv, HaltStoreInv, HaltDoneInv DEF Server
<1> QED BY <1>1, <1>2, <1>3, <1>4, StutterInv DEF Next

\* The inductive invariant holds in every reachable state.
THEOREM InvHolds == Spec => []Inv
<1>1. Init => Inv
  BY InitInv
<1>2. Inv /\ [Next]_vars => Inv'
  BY NextInv
<1> QED BY <1>1, <1>2, PTL DEF Spec

\* Once the last session of a user is gone and its close has been handled
\* (HandleSessionClose, delayedSessionClose), no loco of the user moves.
THEOREM NoRunawayHolds == Spec => []NoRunaway
<1>1. Inv => NoRunaway
  <2>1. SUFFICES ASSUME Inv, NEW u \in User, Left(u), NEW a \in Under(u) PROVE FALSE
    BY DEF NoRunaway
  <2>2. PICK s \in Session : UserOf[s] = u /\ Minds(s, a)
    BY <2>1 DEF Inv, Minded
  <2>3. /\ s \notin hub /\ D(s).pc \in {"off", "end", "watch"}
        /\ L(s).pc \in {"off", "end", "watch"}
    BY <2>1, <2>2 DEF Left, D, L
  <2> QED BY <2>2, <2>3 DEF Minds, Listed
<1> QED BY <1>1, InvHolds, PTL

\* In single vehicle mode a user whose sessions are at rest moves at most one
\* loco that does not creep at the first notch (enforceSingleVehicleControl).
THEOREM OneVehicleHolds == Spec => []OneVehicle
<1>1. Inv => OneVehicle
  <2>1. SUFFICES ASSUME Inv, Single, NEW u \in User, Resting(u) PROVE Cardinality(Under(u) \ crept) <= 1
    BY DEF OneVehicle
  <2>2. \A a, b \in Under(u) \ crept : a = b
    <3>1. SUFFICES ASSUME NEW a \in Under(u) \ crept, NEW b \in Under(u) \ crept, a # b PROVE FALSE
      OBVIOUS
    <3>2. PICK s \in Session : UserOf[s] = u /\ (Listed("read", R(s), a) \/ Listed("read", R(s), b))
      BY <2>1, <3>1 DEF Inv, Scanned
    <3> QED BY <2>1, <3>2 DEF Resting, Listed, R
  <2> DEFINE S == Under(u) \ crept
  <2>3. CASE S = {}
    BY <2>3, FS_EmptySet
  <2>4. CASE S # {}
    <3>1. PICK a : S = {a}
      BY <2>2, <2>4
    <3> HIDE DEF S
    <3>2. Cardinality(S) = 1
      BY <3>1, FS_Singleton
    <3> QED BY <3>2 DEF S
  <2> QED BY <2>3, <2>4
<1> QED BY <1>1, InvHolds, PTL

\* A session keeps within its cap (enforceSubscriptionCap), and a loco off the
\* roster stands (retireRemovedLoco).
THEOREM RosterStaysKept == Spec => []RosterKept
<1>1. Inv => RosterKept
  BY DEF Inv, Retiring, RosterKept
<1> QED BY <1>1, InvHolds, PTL

=============================================================================
