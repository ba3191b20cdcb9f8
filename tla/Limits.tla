------------------------------- MODULE Limits -------------------------------
(***************************************************************************)
(* The limits of a TSOL v1 file: the highest signal a record can name, the  *)
(* highest count a header field can hold, the longest slice, and the sizes  *)
(* of what a file is made of.                                               *)
(***************************************************************************)
EXTENDS Integers

CONSTANTS
  MAX_U24,     \* 2^24 - 1
  MAX_U32,     \* 2^32 - 1
  USIZE_MAX    \* 2^64 - 1 natively, 2^32 - 1 when nandry-wasm runs the code

ASSUME LimitsAssumption ==
  /\ MAX_U24 \in Nat /\ MAX_U32 \in Nat /\ USIZE_MAX \in Nat
  /\ MAX_U24 < MAX_U32
  /\ MAX_U32 <= USIZE_MAX

HEADER_LEN == 28
NAND_LEN == 7
LATCH_LEN == 4

=============================================================================
