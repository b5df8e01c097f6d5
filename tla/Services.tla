------------------------------ MODULE Services ------------------------------
(***************************************************************************)
(* Two services of the server that share no state, one of which the        *)
(* initial state picks: the accounts with the hub of their sessions        *)
(* (Accounts) and the signal boxes with their radio (Signalbox).  The      *)
(* variables of the other are Nil throughout.                              *)
(***************************************************************************)
EXTENDS Integers

CONSTANTS Nil,          \* the absent value
          Person,       \* users
          First,        \* those with an account from the start
          Agent,        \* goroutines
          Number,       \* loco addresses
          Conn,         \* connections
          Box, Track,   \* signal boxes; command stations with a daemon
          Driver,       \* users who drive at first
          MaxFailures,  \* failed PINs that lock an account
          MaxMs, MaxFaults, MaxEvents, MaxTalks  \* bounds on time, faults and calls

VARIABLES part,
          users, pool, tickets, aOwed, elev, entry, orphans, early, fails, locked, inLock, conn,
          reg, unreg, clients, closed, aOnline, hub, goro, aCalls, stale, swapped, panicked,
          signalman, listed, chat, seat, told, blurred, bNow, stream, accepted, page, loaded, cut,
          dropped, window, stop, bProc, bCalls, faults

accounts == <<users, pool, tickets, aOwed, elev, entry, orphans, early, fails, locked, inLock,
              conn, reg, unreg, clients, closed, aOnline, hub, goro, aCalls, stale, swapped,
              panicked>>

boxes == <<signalman, listed, chat, seat, told, blurred, bNow, stream, accepted, page, loaded,
           cut, dropped, window, stop, bProc, bCalls, faults>>

Acc == INSTANCE Accounts
  WITH None <- Nil, User <- Person, Proc <- Agent, Addr <- Number, MaxCalls <- MaxEvents,
       row <- users, owed <- aOwed, online <- aOnline, proc <- goro, calls <- aCalls

B == INSTANCE Signalbox
  WITH None <- Nil, User <- Person, Proc <- Agent, Station <- Track, MaxCalls <- MaxTalks,
       now <- bNow, proc <- bProc, calls <- bCalls

ASSUME ServicesAssumption == Acc!AccountsAssumption /\ B!SignalboxAssumption

NoAccounts ==
  /\ users = Nil /\ pool = Nil /\ tickets = Nil /\ aOwed = Nil /\ elev = Nil /\ entry = Nil
  /\ orphans = Nil /\ early = Nil /\ fails = Nil /\ locked = Nil /\ inLock = Nil /\ conn = Nil
  /\ reg = Nil /\ unreg = Nil /\ clients = Nil /\ closed = Nil /\ aOnline = Nil /\ hub = Nil
  /\ goro = Nil /\ aCalls = Nil /\ stale = Nil /\ swapped = Nil /\ panicked = Nil

NoBoxes ==
  /\ signalman = Nil /\ listed = Nil /\ chat = Nil /\ seat = Nil /\ told = Nil /\ blurred = Nil
  /\ bNow = Nil /\ stream = Nil /\ accepted = Nil /\ page = Nil /\ loaded = Nil /\ cut = Nil
  /\ dropped = Nil /\ window = Nil /\ stop = Nil /\ bProc = Nil /\ bCalls = Nil /\ faults = Nil

Accounting == part = "accounts" /\ UNCHANGED <<part, boxes>>
Signalling == part = "signalbox" /\ UNCHANGED <<part, accounts>>

ServicesInit ==
  \/ part = "accounts" /\ Acc!Init /\ NoBoxes
  \/ part = "signalbox" /\ B!Init /\ NoAccounts

ServicesNext == (Accounting /\ Acc!Next) \/ (Signalling /\ B!Next)

ServicesSpec == ServicesInit /\ [][ServicesNext]_<<part, accounts, boxes>>

\* No two users have an address in common (user.go:215, dcc_pool.go:49).
PoolsDisjoint == part = "accounts" => Acc!PoolsDisjoint

\* A sign-in is used once and a locked account stays locked (oauth.go, sudo.go).
LoginsSound == part = "accounts" => Acc!LoginsSound

\* The hub's sessions know their users' roles (hub.go:381, :420).
FlagFollows == part = "accounts" => Acc!FlagFollows

\* The hub shows who is there and sends to nobody who is not (hub.go Run).
HubSound == part = "accounts" => Acc!HubSound

\* The boxes are staffed by one user each, a user staffs one, and the clients
\* know (interlocking_occupancy.go Join, Leave); the walkie-talkie loses no
\* message and Radio Stop is sent when it says so (radio.go, radio_stop.go).
SignalboxSound == part = "signalbox" => B!SignalboxSound
=============================================================================
