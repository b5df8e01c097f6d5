--------------------------- MODULE MCSlotLeaser ---------------------------
(***************************************************************************)
(* One user with one session and one call at a time, who drives, switches  *)
(* locos and leaves them in grace, with one command-station slot.          *)
(***************************************************************************)
EXTENDS SlotLeaser

CONSTANTS a1, a2, u1, s1, c1

OneUser == [s \in Session |-> u1]
AllowAll == User \X Addr

\* The part of Next that such a user and the sweep loop set off.
DriveNext ==
  \/ \E s \in Session, a \in Addr :
       Call(c1, "drive", s, a) \/ Deselect(c1, s, a, TRUE)
  \/ \E p \in Proc :
       \/ ResumeBudget(p) \/ CapEvict(p) \/ ResumeReserve(p) \/ Drive(p)
       \/ EnqueueRelease(p) \/ ReleaseScheduled(p)
       \/ ReleaseAbortedByReuse(p) \/ EStop(p) \/ ReleaseSlot(p)
  \/ WorkerTakes \/ SweepDeferred

DriveSpec == Init /\ [][DriveNext]_vars /\ Fairness

===========================================================================
