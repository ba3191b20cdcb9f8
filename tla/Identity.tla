------------------------------ MODULE Identity ------------------------------
(***************************************************************************)
(* The commitments of nandry-ir.  A digest is the byte string it is the     *)
(* hash of: SHA-256 is taken to be injective.  Every byte string starts     *)
(* with an eight-byte domain; what follows, up to the first slice of        *)
(* variable length, has a fixed width and is kept as a tuple of fields.     *)
(* The version fields are the same constants in every digest and are left   *)
(* out.                                                                     *)
(***************************************************************************)
EXTENDS Integers, Sequences

CONSTANTS
  MAX_U8,     \* 255
  MAX_U32     \* 2^32 - 1

ASSUME WidthsAssumption == MAX_U8 \in Nat /\ MAX_U32 \in Nat

Byte == 0 .. MAX_U8
u32 == 0 .. MAX_U32

sha256v(domain, fields, bytes) == [domain |-> domain, fields |-> fields, bytes |-> bytes]

-----------------------------------------------------------------------------
(* MachineSpecV1: the circuit digest, a number, and the counts its caller   *)
(* claims.                                                                  *)
MachineSpec == [circuit_id : Nat, input_count : u32, output_count : u32,
                gate_count : u32, latch_count : u32]

SpecError(s) ==
  IF s.input_count = 0 THEN "EmptyInput"
  ELSE IF s.output_count = 0 THEN "EmptyOutput"
  ELSE IF s.gate_count = 0 \/ s.gate_count < s.latch_count THEN "InvalidGateCounts"
  ELSE "none"

(* Slip: the latch count is left out of the structure.                      *)
IdWithoutLatches(s) ==
  sha256v("NDRYMCH1", <<s.circuit_id, s.input_count, s.output_count, s.gate_count>>, <<>>)

(* The hash of canonical_bytes, 64 bytes of fixed-width fields.             *)
machine_id(s) ==
  sha256v("NDRYMCH1", <<s.circuit_id, s.input_count, s.output_count, s.gate_count,
                        s.latch_count>>, <<>>)

machine_input_digest(id, input_width, ticks, input) ==
  sha256v("NDRYINP1", <<id, input_width, ticks>>, input)

(* Slip: the input is not part of the commitment.                           *)
OutputAlone(id, input_digest, output_width, output) ==
  sha256v("NDRYOUT1", <<id, output_width>>, output)

machine_output_digest(id, input_digest, output_width, output) ==
  sha256v("NDRYOUT1", <<id, input_digest, output_width>>, output)

=============================================================================
