-------------------------------- MODULE Tsol --------------------------------
(***************************************************************************)
(* A TSOL v1 circuit after decoding (nandry-vm: Header, Gate, CircuitView)  *)
(* and what makes it valid.  Every other module speaks of these records.    *)
(***************************************************************************)
EXTENDS Integers, Sequences

(* Gate i of the code (counted from 0) is c.gates[i + 1].                   *)
Nand(a, b) == [op |-> "nand", a |-> a, b |-> b]
Latch(d) == [op |-> "latch", d |-> d]

Gate == [op : {"nand"}, a : Nat, b : Nat] \cup [op : {"latch"}, d : Nat]

Circuit == [input_count : Nat, latch_count : Nat,
            outputs : Seq(Nat), gates : Seq(Gate)]

(* Signals 0 and 1 are the constants, the inputs follow, then the gates.    *)
signal_count(c) == 2 + c.input_count + Len(c.gates)
GateSignal(c, i) == 2 + c.input_count + i
Signals(c) == 0 .. signal_count(c) - 1

(* What CircuitView::parse leaves true of the view it returns: the only     *)
(* way to a CircuitView is through validate_outputs and validate_gates.     *)
ValidOutputs(c) == \A k \in 1 .. Len(c.outputs) : c.outputs[k] < signal_count(c)

ValidGate(c, i) ==
  IF c.gates[i + 1].op = "latch"
  THEN i < c.latch_count /\ c.gates[i + 1].d < signal_count(c)
  ELSE /\ i >= c.latch_count
       /\ c.gates[i + 1].a < GateSignal(c, i)
       /\ c.gates[i + 1].b < GateSignal(c, i)

Valid(c) ==
  /\ c \in Circuit
  /\ c.latch_count <= Len(c.gates)
  /\ ValidOutputs(c)
  /\ \A i \in 0 .. Len(c.gates) - 1 : ValidGate(c, i)

-----------------------------------------------------------------------------
(* v, the set of true signals, satisfies every equation of circuit c under  *)
(* the input bits in and the latch bits st.                                 *)
GateSettled(c, st, v, i) ==
  GateSignal(c, i) \in v <=>
    IF c.gates[i + 1].op = "latch"
    THEN i \in st
    ELSE ~(c.gates[i + 1].a \in v /\ c.gates[i + 1].b \in v)

Settled(c, in, st, v) ==
  /\ 0 \notin v
  /\ 1 \in v
  /\ \A i \in 0 .. c.input_count - 1 : 2 + i \in v <=> i \in in
  /\ \A i \in 0 .. Len(c.gates) - 1 : GateSettled(c, st, v, i)

NextLatches(c, v) == {l \in 0 .. c.latch_count - 1 : c.gates[l + 1].d \in v}
OutputBits(c, v) == {k \in 0 .. Len(c.outputs) - 1 : c.outputs[k + 1] \in v}

=============================================================================
