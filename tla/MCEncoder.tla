----------------------------- MODULE MCEncoder ------------------------------
(***************************************************************************)
(* Encoder with three-valued bytes, so that MAX_U24 is 26 and MAX_U32 80:   *)
(* every netlist of up to one output and two gates over a range of signals  *)
(* that reaches past the signal space, and netlists at the limits: inputs   *)
(* that fill the signal space, and bodies around the u32 and usize limits.  *)
(***************************************************************************)
EXTENDS Encoder

NetlistOf(in, outs, gs) == [input_count |-> in, outputs |-> outs, gates |-> gs]

Refs == 0 .. 5
SmallGates == {Nand(a, b) : a \in Refs, b \in Refs} \cup {Latch(d) : d \in Refs}

Small ==
  {NetlistOf(in, outs, gs) :
     in \in 0 .. 2, outs \in {<<>>} \cup {<<o>> : o \in Refs},
     gs \in {<<>>} \cup {<<g>> : g \in SmallGates}}
  \cup {NetlistOf(1, <<4>>, <<g, h>>) : g \in SmallGates, h \in SmallGates}

(* Signals that do not fit three digits, or fit only just.                  *)
Wide ==
  {NetlistOf(in, <<o>>, <<Latch(d), Nand(a, 2)>>) :
     in \in {22, 23, 24, 25, MAX_U32 - 3, MAX_U32 - 2, MAX_U32},
     o \in {0, 24, 25, 26, 27, MAX_U32},
     d \in {2, 26, 27, 28}, a \in {2, 25, 26, 27, 29, 53}}

(* Bodies and tables of 48 to 91 bytes.                                     *)
Long ==
  {NetlistOf(1, [k \in 1 .. outs |-> 2], [i \in 1 .. nands |-> Nand(i, 1)]) :
     outs \in {0, 1, 16, 17, 18}, nands \in {0, 6, 7, 11, 12, 13}}

Shift == NetlistOf(1, <<3, 4, 5>>, <<Latch(7), Latch(3), Latch(4), Nand(5, 2), Nand(6, 1)>>)

MCNetlists == Small \cup Wide \cup Long \cup {Shift}

=============================================================================
