-------------------------------- MODULE Seeds -------------------------------
(***************************************************************************)
(* The vehicle templates the migrations seed (seed_*_template.go): which   *)
(* function numbers each one lists, which of these carry a horn's icon,    *)
(* and which are forced to be momentary whatever their icon.  The names    *)
(* and the other icons of the functions are left out.                      *)
(***************************************************************************)
EXTENDS Integers

\* One templateFunctionSeed list with its forceMomentaryOverride.
Template(slots, horns, forced) ==
  [slots |-> slots, horns |-> horns, forced |-> forced]

\* momentaryValues: the function numbers a seed inserts as momentary.
momentaryValues(t) == {f \in t.slots : f \in t.forced \/ f \in t.horns}

PikoSm31 == Template(0 .. 31, {2, 3}, {})
PikoZimoSm31 == Template(0 .. 28, {2, 3}, {})
SchlesienModelleEsuLoksound == Template(0 .. 27, {2, 5, 24, 25}, {})
PikoXpSu46 == Template(0 .. 26, {2, 3}, {})
PikoXpSp45Su45 == Template(0 .. 22, {2, 3}, {})
PikoDcc24EsuSp45Su45 == Template(0 .. 24, {2, 8}, {})
RocoZimo810 == Template((0 .. 28) \ {21, 22, 23, 25}, {7, 9, 10}, {})
PikoXpSt44 == Template(0 .. 28, {2}, {})
PikoDcc24EsuEp07Eu07 == Template(0 .. 24, {2, 8}, {})
SchlesienModelleEsuEp07Eu07 == Template(0 .. 27, {2, 5}, {})
PikoXpEn57 == Template(0 .. 28, {2, 13, 14}, {})
RoboEsuEn57 == Template(0 .. 28, {2, 12, 17}, {})
RoboDigisoundEn57 == Template(0 .. 26, {2, 11, 16}, {})
RocoDcc24ZimoTy2 == Template(0 .. 23, {2, 3, 4}, {})
RocoDcc24EsuTy2 == Template(0 .. 31, {2, 3}, {})
PikoXpEt21 == Template(0 .. 28, {2}, {})
SchlesienModelleDcc24EsuEp07V3 == Template(0 .. 31, {2, 8}, {})
RailboxRb23xxEp07Eu07 == Template(0 .. 28, {2, 3}, {})
RailboxRb23xxSt44 == Template((0 .. 28) \ {4, 15, 16, 24, 25, 26}, {2, 3}, {})
RailboxRb23xxSm42 == Template((0 .. 28) \ {4, 7, 8, 16, 24, 26}, {2, 3}, {})
RailboxRb23xxEs64 == Template((0 .. 28) \ {16, 19, 26}, {2, 3}, {})
RailboxRb23xxVectron == Template((0 .. 28) \ {15, 16, 19, 25, 26}, {2, 3}, {})
RailboxRb23xxEp09 == Template(0 .. 28, {2, 3}, {})
RailboxRb23xxSm31 == Template((0 .. 28) \ {4, 7, 8, 15, 16, 24, 25, 26}, {2, 3}, {})
RailboxRb23xxEp08 == Template((0 .. 28) \ {16, 26}, {2, 3}, {})
RailboxRb23xxEt22 == Template((0 .. 28) \ {16, 26, 27}, {2, 3}, {})
RailboxRb23xxEn57 == Template(0 .. 31, {2, 3}, {})
RailboxRb23xxSu45 == Template((0 .. 28) \ {4, 24, 27}, {2, 3}, {})
RailboxRb23xxBr232Ludmila == Template((0 .. 28) \ {4, 15, 16, 24, 25, 26}, {2, 3}, {})
RailboxRb23xxTp1 == Template((0 .. 28) \ {4, 7, 8, 25, 26, 27}, {2, 3}, {})
Basic == Template(0 .. 10, {}, {3, 4})
=============================================================================
