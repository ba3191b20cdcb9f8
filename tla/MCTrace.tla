------------------------------- MODULE MCTrace -------------------------------
(***************************************************************************)
(* Two hosts.  Bytes and lengths go up to 2, so a vector of three bytes has *)
(* a length that does not fit its field; the observations are the ways to   *)
(* split a few short strings into a state and an output.                    *)
(***************************************************************************)
EXTENDS Trace, TLC

SpecOf(circuit, ins, outs, gates, latches) ==
  [circuit_id |-> circuit, input_count |-> ins, output_count |-> outs,
   gate_count |-> gates, latch_count |-> latches]

MCSpecs == {SpecOf(7, 1, 1, 2, 1), SpecOf(7, 1, 1, 2, 2), SpecOf(7, 1, 1, 1, 2)}

MCInputs == {[width |-> 1, ticks |-> 2, bytes |-> <<0>>],
             [width |-> 1, ticks |-> 2, bytes |-> <<1>>]}

Splits(w) == {[state |-> SubSeq(w, 1, n), output |-> SubSeq(w, n + 1, Len(w))] : n \in 0 .. Len(w)}

MCObserved == {o \in Splits(<<0, 0>>) \cup Splits(<<0, 0, 0>>) : <<>> \in {o.state, o.output}}

Alike == Permutations(Hosts)

=============================================================================
