------------------------------- MODULE MCWasm -------------------------------
(***************************************************************************)
(* Circuits whose outputs and latches do and do not fill their bytes of two *)
(* bits, one without latches, one whose signals need three digits in base   *)
(* three, and one that cannot be compiled.                                    *)
(***************************************************************************)
EXTENDS Wasm

NetlistOf(in, outs, gs) == [input_count |-> in, outputs |-> outs, gates |-> gs]

Swap == NetlistOf(1, <<4, 3, 2>>, <<Latch(4), Latch(3)>>)
Toggle == NetlistOf(1, <<7, 3>>,
                    <<Latch(7), Nand(2, 3), Nand(2, 4), Nand(3, 4), Nand(5, 6)>>)
Shift == NetlistOf(1, <<5>>, <<Latch(2), Latch(3), Latch(4)>>)
Wide == NetlistOf(3, <<9, 6, 2>>, <<Latch(9), Latch(5), Nand(2, 3), Nand(4, 7), Nand(7, 8)>>)
Pure == NetlistOf(2, <<4>>, <<Nand(2, 3)>>)
Broken == NetlistOf(1, <<3>>, <<Nand(3, 2)>>)

MCNetlists == {Swap, Toggle, Shift, Wide, Pure, Broken}

Bytes(n) == [bytes : {n}, ones : SUBSET (0 .. n * ByteBits - 1)]

MCInputs == UNION {Bytes(n) : n \in 0 .. 2}
MCStates == UNION {Bytes(n) : n \in 0 .. 2}

=============================================================================
