------------------------------- MODULE Words -------------------------------
(* Words of data: W bits, 8 in the code.                                    *)
EXTENDS Integers, Sequences

CONSTANT W

ASSUME WordAssumption == W \in Nat \ {0}

Bit == 0 .. W - 1
Size == 2 ^ W
Word == 0 .. Size - 1

BitOf(x, i) == (x \div 2 ^ i) % 2

=============================================================================
