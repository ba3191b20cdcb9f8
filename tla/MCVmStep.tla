------------------------------ MODULE MCVmStep ------------------------------
(***************************************************************************)
(* VmStep on small circuits: those of one input, one latch and one NAND     *)
(* that read a signal, and hand-picked larger ones.  ByteBits is 2.         *)
(***************************************************************************)
EXTENDS VmStep

Bytes(n) == [bytes : {n}, ones : SUBSET (0 .. n * ByteBits - 1)]

CircuitOf(inputs, latches, outs, gs) ==
  [input_count |-> inputs, latch_count |-> latches, outputs |-> outs, gates |-> gs]

(* golden/vm-v1.json: two_input_nand and one_bit_latch.                     *)
TwoInputNand == CircuitOf(2, 0, <<4>>, <<Nand(2, 3)>>)
OneBitLatch == CircuitOf(1, 1, <<3>>, <<Latch(2)>>)

(* Two latches that swap their bits, a toggle fed by a later NAND, and a    *)
(* three-bit shift register whose latches and outputs fill a byte and half  *)
(* of the next.                                                             *)
Swap == CircuitOf(1, 2, <<4, 3>>, <<Latch(4), Latch(3)>>)
Toggle == CircuitOf(1, 1, <<7, 3>>,
                    <<Latch(7), Nand(2, 3), Nand(2, 4), Nand(3, 4), Nand(5, 6)>>)
Shift == CircuitOf(1, 3, <<3, 4, 5>>,
                   <<Latch(7), Latch(3), Latch(4), Nand(5, 2), Nand(6, 1)>>)

(* No inputs, no gates: still valid TSOL.                                   *)
Constants == CircuitOf(0, 0, <<1, 0>>, <<>>)

(* One input, latch, NAND and output, in every wiring that reads no constant *)
(* but 1.                                                                   *)
Tiny == {CircuitOf(1, 1, <<4>>, <<Latch(d), Nand(a, b)>>) :
           d \in 2 .. 4, a \in 1 .. 3, b \in 2 .. 3}

Picked == {TwoInputNand, OneBitLatch, Swap, Toggle, Shift, Constants} \cup Tiny

PickedInputs == Bytes(0) \cup Bytes(1)
PickedStates == UNION {Bytes(n) : n \in 0 .. 2}
PickedDirty == {[bytes |-> n, ones |-> 0 .. n * ByteBits - 1] : n \in 0 .. 2}
PickedScratches == {[bytes |-> n, ones |-> 0 .. n - 1] : n \in {4, 8, 9}}

=============================================================================
