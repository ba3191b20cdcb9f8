-------------------------------- MODULE Bits --------------------------------
(***************************************************************************)
(* The packed bit vectors that carry inputs, latch state and outputs        *)
(* (nandry-vm: bit_bytes, read_bit, write_bit): a length in bytes and the   *)
(* set of positions whose bit is one.  ByteBits is the number of bits in a  *)
(* byte, 8 in the code: a smaller value brings the padding bits of the last *)
(* byte within reach of small circuits.                                     *)
(***************************************************************************)
EXTENDS Integers

CONSTANT ByteBits

ASSUME ByteBitsAssumption == ByteBits \in Nat \ {0}

bit_bytes(bits) == (bits + ByteBits - 1) \div ByteBits

(* No position past the last byte holds a one.                              *)
Buffer == {b \in [bytes : Nat, ones : SUBSET Nat] :
             \A i \in b.ones : i \div ByteBits < b.bytes}

(* A position past the end reads as false; a Buffer has no one there.       *)
read_bit(b, i) == i \in b.ones

(* A write past the end is dropped without an error.                        *)
write_bit(b, i, value) ==
  IF i \div ByteBits < b.bytes
  THEN [b EXCEPT !.ones = IF value THEN @ \cup {i} ELSE @ \ {i}]
  ELSE b

(* A plausible slip: the fill(0) of a buffer is left out.                   *)
NotZeroed(b) == b

Zeroed(b) == [b EXCEPT !.ones = {}]

=============================================================================
