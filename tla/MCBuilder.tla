----------------------------- MODULE MCBuilder -----------------------------
(***************************************************************************)
(* Two builders that are alike, on limits small enough to meet.  13 inputs  *)
(* are refused.  After 12 the first gate has a number no record can hold,   *)
(* and the third push panics.  After 9 three gates fill the signal space;   *)
(* three NANDs do not fit the body, two latches and a NAND do, but not the  *)
(* file once there is an output.                                            *)
(***************************************************************************)
EXTENDS Builder, TLC

SomeWires == {<<2, 11>>, <<12, 2>>}
SomeOutputs == {<<>>, <<12>>}

Alike == Permutations(Builders)

=============================================================================
