---------------------------- MODULE MCTrainSpeed ----------------------------
(***************************************************************************)
(* Small trains: a leading loco that is written at once and a trailing one *)
(* with a start delay or with ramps of two or three steps.                 *)
(***************************************************************************)
EXTENDS TrainSpeed

CONSTANTS a1, a2, c1

TwoMembers == <<a1, a2>>

Plain == [num |-> 1, den |-> 1, delayMs |-> 0, accelMs |-> 0, accelSteps |-> 0,
          brakeMs |-> 0, brakeSteps |-> 0]

\* The trailing member runs at 2/3 of the leading speed, waits before it starts
\* from standstill, and ramps up in three steps and down in two.
Ramps == [a \in Addr |->
  IF a = a1 THEN Plain
  ELSE [Plain EXCEPT !.num = 2, !.den = 3, !.delayMs = 800, !.accelMs = 1600,
                     !.accelSteps = 5, !.brakeMs = 1000, !.brakeSteps = 2]]

\* The session may go up to two thirds of full speed.
Limited == [c \in Caller |-> 67]

=============================================================================
