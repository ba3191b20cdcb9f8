------------------------------- MODULE Machine -------------------------------
(***************************************************************************)
(* What executing a TSOL circuit promises: a synchronous machine.  A tick   *)
(* reads an input vector, lets every signal settle against the latch state  *)
(* from before the tick, and then, in one step, replaces the whole latch    *)
(* state and shows the outputs.  Signals are not computed in any order: a   *)
(* settled valuation (module Tsol) satisfies every gate at once.            *)
(***************************************************************************)
EXTENDS Tsol

CONSTANT Circuits

VARIABLES
  circuit,   \* the machine that runs; it never changes
  latches,   \* the latch positions that hold one
  outputs    \* the output positions that showed one at the last tick

vars == <<circuit, latches, outputs>>

Init ==
  /\ circuit \in Circuits
  /\ latches \in SUBSET Nat
  /\ outputs = {}

Tick(in) ==
  \E v \in SUBSET Signals(circuit) :
    /\ Settled(circuit, in, latches, v)
    /\ latches' = NextLatches(circuit, v)
    /\ outputs' = OutputBits(circuit, v)
    /\ UNCHANGED circuit

Next == \E in \in SUBSET (0 .. circuit.input_count - 1) : Tick(in)

Spec == Init /\ [][Next]_vars

=============================================================================
