------------------------------- MODULE Format -------------------------------
(***************************************************************************)
(* TSOL v1 files, as bytes: the fixed header, the table of output signals   *)
(* and the body of gate records, and which files hold a circuit.  A byte is *)
(* a number below Base (256 in the code), so that a small Base brings the   *)
(* limits of the u24 and u32 fields within reach.                           *)
(***************************************************************************)
EXTENDS Tsol, Limits

CONSTANT Base    \* the number of values of a byte

(* A u24 is three bytes and a u32 is four.                                  *)
ASSUME BaseAssumption ==
  /\ Base \in Nat /\ Base > 1
  /\ MAX_U24 = Base * Base * Base - 1
  /\ MAX_U32 = Base * Base * Base * Base - 1

OP_NAND == 0
OP_LATCH == 1

(* A file: how many of its bytes fall in the header, the first thing wrong  *)
(* with the eight bytes before the counts, the counts, and the bytes after  *)
(* the header.  A file cut inside the header has no tail, and its other     *)
(* fields mean nothing.  No slice is longer than a usize can say.           *)
Signature == {"ok", "magic", "version", "flags", "reserved"}

File == {f \in [header_bytes : 0 .. HEADER_LEN, signature : Signature,
                input_count : 0 .. MAX_U32, output_count : 0 .. MAX_U32,
                gate_count : 0 .. MAX_U32, latch_count : 0 .. MAX_U32,
                body_len : 0 .. MAX_U32, tail : Seq(0 .. Base - 1)] :
           /\ f.header_bytes < HEADER_LEN => f.tail = <<>>
           /\ f.header_bytes + Len(f.tail) <= USIZE_MAX}

Length(f) == f.header_bytes + Len(f.tail)

-----------------------------------------------------------------------------
(* Reading the bytes after the header.  Offsets count from 0.               *)

None == -1

(* body.get(at), or None past the end.                                      *)
byte_at(f, at) == IF at < Len(f.tail) THEN f.tail[at + 1] ELSE None

(* Three bytes, the lowest first, or None when the slice is too short.      *)
read_u24_at(f, at) ==
  IF at + 3 <= Len(f.tail)
  THEN f.tail[at + 1] + Base * f.tail[at + 2] + Base * Base * f.tail[at + 3]
  ELSE None

body_offset(f) == 3 * f.output_count

output_signal(f, k) == read_u24_at(f, 3 * k)

(* The record that starts at a body offset, its opcode being known.         *)
NandAt(f, at) == Nand(read_u24_at(f, body_offset(f) + at + 1),
                      read_u24_at(f, body_offset(f) + at + 4))
LatchAt(f, at) == Latch(read_u24_at(f, body_offset(f) + at + 1))

-----------------------------------------------------------------------------
(* The format, said without scanning: with the latch records first, gate i  *)
(* of a file with latches latch records starts at a known offset.           *)
RecordOffset(latches, i) ==
  IF i <= latches
  THEN LATCH_LEN * i
  ELSE LATCH_LEN * latches + NAND_LEN * (i - latches)

GateOf(f, i) == IF i < f.latch_count
                THEN LatchAt(f, RecordOffset(f.latch_count, i))
                ELSE NandAt(f, RecordOffset(f.latch_count, i))

(* The circuit the records spell.                                           *)
Reading(f) ==
  [input_count |-> f.input_count,
   latch_count |-> f.latch_count,
   outputs |-> [k \in 1 .. f.output_count |-> output_signal(f, k - 1)],
   gates |-> [i \in 1 .. f.gate_count |-> GateOf(f, i - 1)]]

Opcode(f, i) == byte_at(f, body_offset(f) + RecordOffset(f.latch_count, i))

(* A file that is the encoding of a valid circuit, byte for byte.           *)
WellFormed(f) ==
  /\ f.header_bytes = HEADER_LEN
  /\ f.signature = "ok"
  /\ 2 + f.input_count + f.gate_count - 1 <= MAX_U24
  /\ f.latch_count <= f.gate_count
  /\ Len(f.tail) = body_offset(f) + f.body_len
  /\ f.body_len = RecordOffset(f.latch_count, f.gate_count)
  /\ \A i \in 0 .. f.gate_count - 1 :
       Opcode(f, i) = IF i < f.latch_count THEN OP_LATCH ELSE OP_NAND
  /\ Valid(Reading(f))

=============================================================================
