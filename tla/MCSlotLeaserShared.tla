------------------------ MODULE MCSlotLeaserShared ------------------------
(***************************************************************************)
(* Four settings of the leaser, one of which the initial state picks:      *)
(*                                                                         *)
(* "cap"     one user, who may have two locos at a time, drives three and  *)
(*           leaves them in any order; no slot budget;                     *)
(* "switch"  one user drives two locos, one at a time, and leaves each in  *)
(*           grace; no slot budget;                                        *)
(* "train"   a handset (s2) takes a train of two locos with one slot, and  *)
(*           the gate refuses the second; idle sweeps, throttles on the    *)
(*           bus and the boot stop go on meanwhile;                        *)
(* "select"  two users select and deselect one loco by two goroutines,     *)
(*           while it is force-released and reconciled.                    *)
(***************************************************************************)
EXTENDS SlotLeaser, TLC

CONSTANTS a1, a2, a3, u1, u2, s1, s2, c1, c2

VARIABLE setting

\* A session each.
TwoUsers == (s1 :> u1) @@ (s2 :> u2)

Two == {a1, a2}

Cap == INSTANCE SlotLeaser
  WITH MayDrive <- {u1} \X Addr, MaxSlots <- 0, Retries <- 1,
       StationMayFail <- FALSE, Ops <- {"drive", "deselect"}

Switch == INSTANCE SlotLeaser
  WITH MayDrive <- {u1} \X Two, MaxPerUser <- 1, MaxSlots <- 0, Retries <- 1,
       StationMayFail <- FALSE, Ops <- {"drive", "defer", "sweepDeferred"}

Train == INSTANCE SlotLeaser
  WITH MayDrive <- {<<u2, a1>>}, Retries <- 1,
       Ops <- {"train", "defer", "close", "touch", "sweepIdle", "throttle",
               "bootStop"}

Select == INSTANCE SlotLeaser
  WITH MayDrive <- User \X {a1}, MaxSlots <- 0,
       Ops <- {"select", "deselect", "force", "close", "reconcile", "missed"}

MCInit ==
  \/ setting = "cap" /\ Cap!Init
  \/ setting = "switch" /\ Switch!Init
  \/ setting = "train" /\ Train!Init
  \/ setting = "select" /\ Select!Init

In(part) == setting = part /\ UNCHANGED setting

CapCalls ==
  /\ In("cap")
  /\ \E a \in Addr : \/ Cap!Call(c1, "drive", s1, a)
                    \/ Cap!Deselect(c1, s1, a, FALSE)
CapSteps == In("cap") /\ \E p \in Proc : Cap!Step(p)
CapReleases == In("cap") /\ Cap!WorkerTakes

SwitchCalls ==
  /\ In("switch")
  /\ \E a \in Two : \/ Switch!Call(c1, "drive", s1, a)
                    \/ Switch!Deselect(c1, s1, a, TRUE)
SwitchSteps == In("switch") /\ \E p \in Proc : Switch!Step(p)
SwitchSweeps == In("switch") /\ (Switch!WorkerTakes \/ Switch!SweepDeferred)

TrainSelects ==
  In("train") /\ \E M \in SUBSET Two \ {{}} : Train!SelectTrain(c1, s2, M)
TrainLeaves ==
  /\ In("train")
  /\ \E a \in Two : Train!Deselect(c1, s2, a, TRUE) \/ Train!Touch(c1, s2, a)
TrainCloses == In("train") /\ Train!ReleaseSession(c1, s2)
TrainSteps == In("train") /\ \E p \in Proc : Train!Step(p)
TrainSweeps == In("train") /\ (Train!WorkerTakes \/ Train!SweepIdle)
TrainStation ==
  /\ In("train")
  /\ \/ \E a \in Two : \/ Train!ThrottleTakes(a) \/ Train!SlotFreed(a)
                       \/ Train!IdleElapse(s2, a)
     \/ Train!BootStopEnds

SelectCalls == In("select") /\ \E p \in {c1, c2} : Select!Begin(p)
SelectSteps == In("select") /\ \E p \in Proc : Select!Step(p)
SelectReconciles == In("select") /\ Select!Reconcile
SelectMisses == In("select") /\ \E a \in Addr : Select!SlotFreedUnseen(a)

MCNext ==
  \/ CapCalls \/ CapSteps \/ CapReleases
  \/ SwitchCalls \/ SwitchSteps \/ SwitchSweeps
  \/ TrainSelects \/ TrainLeaves \/ TrainCloses \/ TrainSteps \/ TrainSweeps
  \/ TrainStation
  \/ SelectCalls \/ SelectSteps \/ SelectReconciles \/ SelectMisses

MCSpec == MCInit /\ [][MCNext]_<<vars, setting>>

\* "Per user - how many locos a user may drive at once": the cap holds for a
\* user with one session and one call at a time.  Reserve unlocks between its
\* test and the new holder, and an eviction takes only the session's own holder
\* away, so two sessions or two calls of a user may go past the cap.
CapRespected ==
  \/ setting = "cap" /\ Cap!WithinCap
  \/ setting = "switch" /\ Switch!WithinCap
  \/ setting = "train" /\ Train!WithinCap
  \/ setting = "select" /\ Select!WithinCap

===========================================================================
