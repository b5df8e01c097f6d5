------------------------------- MODULE Pilots -------------------------------
(***************************************************************************)
(* What the pairing store promises (package remotepairing: "one pilot per  *)
(* user per command station"): a handset drives for at most one user and a *)
(* user has at most one handset.  A new pairing of the user replaces the   *)
(* old one in the same step.                                               *)
(***************************************************************************)
CONSTANTS Client, User, None

VARIABLE pilot      \* the user of every handset

\* No two handsets drive for one user.
OneEach ==
  \A c, d \in Client : c # d /\ pilot[c] # None => pilot[c] # pilot[d]

Init == pilot \in [Client -> User \cup {None}] /\ OneEach

\* The pairing of c with u ends the sessions of cs as well: the handset the
\* index names for u may drive for somebody else by now.
Pair(c, u, cs) ==
  pilot' = [d \in Client |-> IF d = c THEN u
                             ELSE IF d \in cs \/ pilot[d] = u THEN None ELSE pilot[d]]

End(cs) == pilot' = [d \in Client |-> IF d \in cs THEN None ELSE pilot[d]]

\* Nothing but a pairing gives a handset a user.
Next ==
  \E cs \in SUBSET Client : End(cs) \/ \E c \in Client, u \in User : Pair(c, u, cs)

Spec == Init /\ [][Next]_pilot
=============================================================================
