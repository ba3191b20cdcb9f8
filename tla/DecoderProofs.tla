--------------------------- MODULE DecoderProofs ----------------------------
(***************************************************************************)
(* Proofs about CircuitView::parse and GateIter, for every base, every      *)
(* machine word and every slice: parse accepts exactly the encodings of     *)
(* valid circuits, and the unchecked second pass reads what the first one   *)
(* checked.                                                                 *)
(***************************************************************************)
EXTENDS Decoder, TLAPS

-----------------------------------------------------------------------------
(* The fields of a slice and the limits of their types.                     *)
LEMMA LimitsOrder ==
  /\ MAX_U24 \in Nat /\ MAX_U32 \in Nat /\ MAX_U24 + 1 <= MAX_U32
BY LimitsAssumption

LEMMA FileFields ==
  ASSUME NEW f \in File
  PROVE  /\ f.header_bytes \in 0 .. HEADER_LEN
         /\ f.signature \in Signature
         /\ f.input_count \in Nat /\ f.output_count \in Nat
         /\ f.gate_count \in Nat /\ f.latch_count \in Nat
         /\ f.body_len \in Nat
         /\ f.input_count <= MAX_U32 /\ f.gate_count <= MAX_U32
         /\ f.latch_count <= MAX_U32
         /\ f.tail \in Seq(0 .. Base - 1)
         /\ Len(f.tail) \in Nat
         /\ f.header_bytes + Len(f.tail) <= USIZE_MAX
         /\ body_offset(f) \in Nat /\ body_offset(f) = 3 * f.output_count
<1>1. /\ f.header_bytes \in 0 .. HEADER_LEN
      /\ f.signature \in Signature
      /\ f.input_count \in 0 .. MAX_U32 /\ f.output_count \in 0 .. MAX_U32
      /\ f.gate_count \in 0 .. MAX_U32 /\ f.latch_count \in 0 .. MAX_U32
      /\ f.body_len \in 0 .. MAX_U32
      /\ f.tail \in Seq(0 .. Base - 1)
      /\ f.header_bytes + Len(f.tail) <= USIZE_MAX
  BY DEF File
<1>2. Len(f.tail) \in Nat
  BY <1>1
<1> QED
  BY <1>1, <1>2, LimitsOrder DEF body_offset

LEMMA BelowSum ==
  ASSUME NEW a \in Nat, NEW n \in Nat, NEW i \in Nat, ~(a >= 2 + n + i)
  PROVE  a \in 0 .. 2 + n + i - 1
OBVIOUS

LEMMA ElementsOfSeq ==
  ASSUME NEW S, NEW s \in Seq(S)
  PROVE  \A i \in 1 .. Len(s) : s[i] \in S
OBVIOUS

(* A read of three bytes inside the slice is a number, outside it is None.  *)
LEMMA ReadU24 ==
  ASSUME NEW f \in File, NEW at \in Nat
  PROVE  /\ at + 3 <= Len(f.tail) => read_u24_at(f, at) \in Nat
         /\ ~(at + 3 <= Len(f.tail)) => read_u24_at(f, at) = None
<1>1. ASSUME at + 3 <= Len(f.tail)
      PROVE  read_u24_at(f, at) \in Nat
  <2> DEFINE x == f.tail[at + 1]
             y == f.tail[at + 2]
             z == f.tail[at + 3]
  <2>1. x \in Nat /\ y \in Nat /\ z \in Nat
    <3> HIDE DEF x, y, z
    <3>0. f.tail \in Seq(0 .. Base - 1) /\ Len(f.tail) \in Nat
      BY FileFields
    <3>1. at + 1 \in 1 .. Len(f.tail) /\ at + 2 \in 1 .. Len(f.tail) /\ at + 3 \in 1 .. Len(f.tail)
      BY <1>1, <3>0
    <3>2. \A i \in 1 .. Len(f.tail) : f.tail[i] \in 0 .. Base - 1
      BY <3>0, ElementsOfSeq
    <3> QED
      BY <3>1, <3>2, BaseAssumption DEF x, y, z
  <2> HIDE DEF x, y, z
  <2>2. Base * y \in Nat
    BY <2>1, BaseAssumption
  <2>3. Base * Base \in Nat
    BY BaseAssumption
  <2>4. Base * Base * z \in Nat
    <3> DEFINE q == Base * Base
    <3> HIDE DEF q
    <3>1. q \in Nat => q * z \in Nat
      BY <2>1
    <3> QED
      BY <2>3, <3>1 DEF q
  <2>5. x + Base * y + Base * Base * z \in Nat
    <3> DEFINE q == Base * y
               r == Base * Base * z
    <3> HIDE DEF q, r
    <3>1. q \in Nat /\ r \in Nat => x + q + r \in Nat
      BY <2>1
    <3> QED
      BY <2>2, <2>4, <3>1 DEF q, r
  <2> QED
    BY <1>1, <2>5 DEF read_u24_at, x, y, z
<1> QED
  BY <1>1 DEF read_u24_at

(* Where the records lie.                                                   *)
LEMMA Offsets ==
  ASSUME NEW ls \in Nat, NEW i \in Nat
  PROVE  /\ RecordOffset(ls, i) \in Nat
         /\ i < ls => RecordOffset(ls, i + 1) = RecordOffset(ls, i) + LATCH_LEN
         /\ i >= ls => RecordOffset(ls, i + 1) = RecordOffset(ls, i) + NAND_LEN
         /\ i <= ls => RecordOffset(ls, i) = LATCH_LEN * i
         /\ RecordOffset(i, i) = LATCH_LEN * i
         /\ \A j \in Nat : i < j => RecordOffset(ls, i) + LATCH_LEN <= RecordOffset(ls, j)
         /\ \A j \in Nat : i < j /\ i >= ls => RecordOffset(ls, i) + NAND_LEN <= RecordOffset(ls, j)
BY DEF RecordOffset, LATCH_LEN, NAND_LEN

-----------------------------------------------------------------------------
(* The circuit a slice spells, record by record.                            *)

LEMMA ReadingFields ==
  ASSUME NEW f \in File
  PROVE  /\ Reading(f).input_count = f.input_count
         /\ Reading(f).latch_count = f.latch_count
         /\ Len(Reading(f).outputs) = f.output_count
         /\ Len(Reading(f).gates) = f.gate_count
         /\ signal_count(Reading(f)) = 2 + f.input_count + f.gate_count
         /\ \A k \in 0 .. f.output_count - 1 :
              Reading(f).outputs[k + 1] = output_signal(f, k)
         /\ \A i \in 0 .. f.gate_count - 1 : Reading(f).gates[i + 1] = GateOf(f, i)
<1>1. f.output_count \in Nat /\ f.gate_count \in Nat
  BY FileFields
<1>2. /\ Reading(f).input_count = f.input_count
      /\ Reading(f).latch_count = f.latch_count
      /\ Reading(f).outputs = [k \in 1 .. f.output_count |-> output_signal(f, k - 1)]
      /\ Reading(f).gates = [i \in 1 .. f.gate_count |-> GateOf(f, i - 1)]
  BY DEF Reading
<1>3. Len(Reading(f).outputs) = f.output_count /\ Len(Reading(f).gates) = f.gate_count
  BY <1>1, <1>2
<1>4. ASSUME NEW k \in 0 .. f.output_count - 1
      PROVE  Reading(f).outputs[k + 1] = output_signal(f, k)
  <2>1. k + 1 \in 1 .. f.output_count /\ (k + 1) - 1 = k
    BY <1>1
  <2> QED
    BY <1>2, <2>1
<1>5. ASSUME NEW i \in 0 .. f.gate_count - 1
      PROVE  Reading(f).gates[i + 1] = GateOf(f, i)
  <2>1. i + 1 \in 1 .. f.gate_count /\ (i + 1) - 1 = i
    BY <1>1
  <2> QED
    BY <1>2, <2>1
<1> QED
  BY <1>2, <1>3, <1>4, <1>5 DEF signal_count

(* What validity says of one record, in terms of the bytes.                 *)
LEMMA RecordOfWellFormed ==
  ASSUME NEW f \in File, WellFormed(f), NEW i \in 0 .. f.gate_count - 1
  PROVE  LET at == RecordOffset(f.latch_count, i)
         IN  IF i < f.latch_count
             THEN /\ Opcode(f, i) = OP_LATCH
                  /\ at + LATCH_LEN <= f.body_len
                  /\ LatchAt(f, at).d < 2 + f.input_count + f.gate_count
             ELSE /\ Opcode(f, i) = OP_NAND
                  /\ at + NAND_LEN <= f.body_len
                  /\ NandAt(f, at).a < 2 + f.input_count + i
                  /\ NandAt(f, at).b < 2 + f.input_count + i
<1> DEFINE at == RecordOffset(f.latch_count, i)
<1>1. /\ f.latch_count \in Nat /\ f.gate_count \in Nat /\ i \in Nat /\ i < f.gate_count
  BY FileFields
<1>2. /\ f.body_len = RecordOffset(f.latch_count, f.gate_count)
      /\ Opcode(f, i) = IF i < f.latch_count THEN OP_LATCH ELSE OP_NAND
      /\ Valid(Reading(f))
  BY DEF WellFormed
<1>3. ValidGate(Reading(f), i)
  BY <1>2, ReadingFields DEF Valid
<1>4. Reading(f).gates[i + 1] = GateOf(f, i)
  BY ReadingFields
<1>5. CASE i < f.latch_count
  <2>1. GateOf(f, i) = LatchAt(f, at)
    BY <1>5 DEF GateOf
  <2>2. LatchAt(f, at).op = "latch"
    BY DEF LatchAt, Latch
  <2>3. LatchAt(f, at).d < 2 + f.input_count + f.gate_count
    BY <1>3, <1>4, <2>1, <2>2, ReadingFields DEF ValidGate
  <2>4. at + LATCH_LEN <= f.body_len
    BY <1>1, <1>2, <1>5 DEF RecordOffset, LATCH_LEN, NAND_LEN
  <2> QED
    BY <1>2, <1>5, <2>3, <2>4
<1>6. CASE ~(i < f.latch_count)
  <2>1. GateOf(f, i) = NandAt(f, at)
    BY <1>6 DEF GateOf
  <2>2. NandAt(f, at).op # "latch"
    BY DEF NandAt, Nand
  <2>3. NandAt(f, at).a < 2 + f.input_count + i /\ NandAt(f, at).b < 2 + f.input_count + i
    BY <1>3, <1>4, <2>1, <2>2, ReadingFields DEF ValidGate, GateSignal
  <2>4. at + NAND_LEN <= f.body_len
    BY <1>1, <1>2, <1>6 DEF RecordOffset, LATCH_LEN, NAND_LEN
  <2> QED
    BY <1>2, <1>6, <2>3, <2>4
<1> QED
  BY <1>5, <1>6

(* The other way: a layout, outputs and records that passed every check     *)
(* make a well-formed slice.                                                *)
LEMMA CheckedIsWellFormed ==
  ASSUME file \in File,
         LayoutChecked,
         OutputsChecked(file.output_count),
         file.latch_count <= file.gate_count,
         file.body_len = RecordOffset(file.latch_count, file.gate_count),
         \A i \in 0 .. file.gate_count - 1 : RecordChecked(file.latch_count, i)
  PROVE  WellFormed(file)
<1> DEFINE c == Reading(file)
<1>1. /\ file.input_count \in Nat /\ file.output_count \in Nat
      /\ file.gate_count \in Nat /\ file.latch_count \in Nat
  BY FileFields
<1>2. /\ c.input_count = file.input_count /\ c.latch_count = file.latch_count
      /\ Len(c.outputs) = file.output_count /\ Len(c.gates) = file.gate_count
      /\ signal_count(c) = SignalCount
      /\ \A k \in 0 .. file.output_count - 1 : c.outputs[k + 1] = output_signal(file, k)
      /\ \A i \in 0 .. file.gate_count - 1 : c.gates[i + 1] = GateOf(file, i)
  BY ReadingFields DEF SignalCount
<1>3. ASSUME NEW k \in 1 .. file.output_count
      PROVE  output_signal(file, k - 1) \in Nat /\ output_signal(file, k - 1) < SignalCount
  <2>1. k - 1 \in 0 .. file.output_count - 1
    BY <1>1
  <2>2. output_signal(file, k - 1) \in 0 .. SignalCount - 1 /\ SignalCount \in Nat
    BY <1>1, <2>1 DEF OutputsChecked, SignalCount
  <2> QED
    BY <2>2
<1>4. ASSUME NEW i \in 0 .. file.gate_count - 1
      PROVE  /\ GateOf(file, i) \in Gate
             /\ ValidGate(c, i)
             /\ Opcode(file, i) = IF i < file.latch_count THEN OP_LATCH ELSE OP_NAND
  <2> DEFINE at == RecordOffset(file.latch_count, i)
  <2>1. RecordChecked(file.latch_count, i) /\ SignalCount \in Nat
    BY <1>1 DEF SignalCount
  <2>2. c.gates[i + 1] = GateOf(file, i)
    BY <1>2
  <2>3. CASE i < file.latch_count
    <3>1. /\ LatchAt(file, at).d \in Nat /\ LatchAt(file, at).d < SignalCount
          /\ Opcode(file, i) = OP_LATCH
      BY <2>1, <2>3 DEF RecordChecked, Opcode
    <3>2. GateOf(file, i) = LatchAt(file, at)
      BY <2>3 DEF GateOf
    <3>3. LatchAt(file, at) \in Gate /\ LatchAt(file, at).op = "latch"
      BY <3>1 DEF LatchAt, Latch, Gate
    <3>4. ValidGate(c, i)
      BY <1>2, <2>2, <2>3, <3>1, <3>2, <3>3 DEF ValidGate
    <3> QED
      BY <2>3, <3>1, <3>2, <3>3, <3>4
  <2>4. CASE ~(i < file.latch_count)
    <3>1. /\ NandAt(file, at).a \in Nat /\ NandAt(file, at).a < 2 + file.input_count + i
          /\ NandAt(file, at).b \in Nat /\ NandAt(file, at).b < 2 + file.input_count + i
          /\ Opcode(file, i) = OP_NAND
      BY <1>1, <2>1, <2>4 DEF RecordChecked, Opcode
    <3>2. GateOf(file, i) = NandAt(file, at)
      BY <2>4 DEF GateOf
    <3>3. NandAt(file, at) \in Gate /\ NandAt(file, at).op # "latch"
      BY <3>1 DEF NandAt, Nand, Gate
    <3>4. ValidGate(c, i)
      BY <1>1, <1>2, <2>2, <2>4, <3>1, <3>2, <3>3 DEF ValidGate, GateSignal
    <3> QED
      BY <2>4, <3>1, <3>2, <3>3, <3>4
  <2> QED
    BY <2>3, <2>4
<1>5. c \in Circuit
  <2>1. [k \in 1 .. file.output_count |-> output_signal(file, k - 1)] \in Seq(Nat)
    BY <1>1, <1>3
  <2>2. \A i \in 1 .. file.gate_count : GateOf(file, i - 1) \in Gate
    <3>1. \A i \in 1 .. file.gate_count : i - 1 \in 0 .. file.gate_count - 1
      BY <1>1
    <3> QED
      BY <1>4, <3>1
  <2>3. [i \in 1 .. file.gate_count |-> GateOf(file, i - 1)] \in Seq(Gate)
    BY <1>1, <2>2
  <2> QED
    BY <1>1, <2>1, <2>3 DEF Reading, Circuit
<1>6. ValidOutputs(c)
  <2>1. \A k \in 1 .. file.output_count : c.outputs[k] = output_signal(file, k - 1)
    BY DEF Reading
  <2> QED
    BY <1>2, <1>3, <2>1 DEF ValidOutputs
<1>7. Valid(c)
  BY <1>2, <1>4, <1>5, <1>6 DEF Valid
<1> QED
  BY <1>4, <1>7 DEF WellFormed, LayoutChecked

(* On a well-formed slice the scan has seen the latch records that lie      *)
(* before it and stands where the format puts the record.                   *)
LEMMA ScanAgrees ==
  ASSUME Inv, pc = "gates", WellFormed(file)
  PROVE  /\ latches = IF index <= file.latch_count THEN index ELSE file.latch_count
         /\ cursor = RecordOffset(file.latch_count, index)
<1>1. /\ file \in File /\ index \in Nat /\ latches \in Nat
      /\ file.latch_count \in Nat /\ file.gate_count \in Nat
  BY FileFields, LimitsOrder DEF Inv, TypeOK
<1>2. /\ index <= file.gate_count /\ latches <= index
      /\ cursor = RecordOffset(latches, index)
      /\ \A i \in 0 .. index - 1 : RecordChecked(latches, i)
  BY DEF Inv, GatesInv
<1>3. ~(latches < file.latch_count /\ latches < index)
  <2> SUFFICES ASSUME latches < file.latch_count, latches < index
               PROVE  FALSE
    OBVIOUS
  <2>1. latches \in 0 .. file.gate_count - 1 /\ latches \in 0 .. index - 1
    BY <1>1, <1>2
  <2>2. Opcode(file, latches) = OP_LATCH
    BY <1>1, <2>1, RecordOfWellFormed
  <2>3. byte_at(file, body_offset(file) + RecordOffset(latches, latches)) = OP_NAND
    BY <1>1, <1>2, <2>1 DEF RecordChecked
  <2>4. RecordOffset(latches, latches) = RecordOffset(file.latch_count, latches)
    BY <1>1 DEF RecordOffset
  <2> QED
    BY <2>2, <2>3, <2>4 DEF Opcode, OP_LATCH, OP_NAND
<1>4. ~(file.latch_count < latches)
  <2> SUFFICES ASSUME file.latch_count < latches
               PROVE  FALSE
    OBVIOUS
  <2> DEFINE n == file.latch_count
  <2>1. n \in 0 .. file.gate_count - 1 /\ n \in 0 .. index - 1
    BY <1>1, <1>2
  <2>2. Opcode(file, n) = OP_NAND
    BY <1>1, <2>1, RecordOfWellFormed
  <2>3. byte_at(file, body_offset(file) + RecordOffset(latches, n)) = OP_LATCH
    BY <1>1, <1>2, <2>1 DEF RecordChecked
  <2>4. RecordOffset(latches, n) = RecordOffset(file.latch_count, n)
    BY <1>1 DEF RecordOffset
  <2> QED
    BY <2>2, <2>3, <2>4 DEF Opcode, OP_LATCH, OP_NAND
<1>5. latches = IF index <= file.latch_count THEN index ELSE file.latch_count
  BY <1>1, <1>2, <1>3, <1>4
<1>6. RecordOffset(latches, index) = RecordOffset(file.latch_count, index)
  BY <1>1, <1>2, <1>5 DEF RecordOffset
<1> QED
  BY <1>2, <1>5, <1>6

-----------------------------------------------------------------------------
(* The inductive step, one lemma per action.                                *)

LEMMA InitInv == Init => Inv
<1> SUFFICES ASSUME Init PROVE Inv
  OBVIOUS
<1>1. TypeOK
  <2>1. file \in File
    BY FilesAssumption DEF Init
  <2>2. latches \in 0 .. MAX_U32
    BY LimitsOrder DEF Init
  <2>3. yielded \in Seq(Gate)
    BY DEF Init
  <2> QED
    BY <2>1, <2>2, <2>3 DEF Init, TypeOK
<1> QED
  BY <1>1 DEF Init, Inv, BeforeGates, OutputsInv, GatesInv, IterInv, AcceptsExactly

(* A refusal keeps the invariant when the slice deserves it.                *)
LEMMA RejectInv ==
  ASSUME Inv, NEW e \in Errors, Reject(e),
         pc \in {"layout", "outputs", "gates"}, ~WellFormed(file)
  PROVE  Inv'
<1>1. /\ pc' = "rejected" /\ error' = e
      /\ file' = file /\ cursor' = cursor /\ index' = index /\ latches' = latches
      /\ saw_nand' = saw_nand /\ remaining' = remaining /\ yielded' = yielded
  BY DEF Reject, scan, iter
<1>2. TypeOK'
  BY <1>1 DEF Inv, TypeOK
<1>3. AcceptsExactly'
  BY <1>1 DEF AcceptsExactly
<1>4. yielded' = <<>>
  BY <1>1 DEF Inv
<1> QED
  BY <1>1, <1>2, <1>3, <1>4 DEF Inv, BeforeGates, OutputsInv, GatesInv, IterInv

(* Sums of lengths, with nothing around them that slows the arithmetic.     *)
LEMMA SumLeft ==
  ASSUME NEW h \in Nat, NEW l \in Nat, NEW b \in Nat, NEW n \in Nat, NEW H \in Nat,
         h = H, h + l = H + b + n
  PROVE  l = b + n
OBVIOUS

LEMMA SumFits ==
  ASSUME NEW h \in Nat, NEW l \in Nat, NEW b \in Nat, NEW n \in Nat, NEW H \in Nat,
         NEW U \in Nat, h = H, l = b + n, h + l <= U
  PROVE  /\ ~(H + b + n > U) /\ ~(H + b > U)
         /\ ~(h + l < H + b) /\ h + l = H + b + n
OBVIOUS

LEMMA SignalLimit ==
  ASSUME NEW i \in Nat, NEW g \in Nat, NEW m \in Nat, NEW M \in Nat, m + 1 <= M
  PROVE  /\ 2 + i + g - 1 <= m <=> ~(2 + i + g - 1 > m)
         /\ 2 + i + g - 1 <= m => ~(2 + i + g > M)
OBVIOUS

LEMMA ParseLayoutInv ==
  ASSUME Inv, ParseLayout
  PROVE  Inv'
<1>1. file \in File /\ pc = "layout"
  BY DEF Inv, TypeOK, ParseLayout
<1>f. file.signature \in Signature /\ body_offset(file) = 3 * file.output_count
  BY <1>1, FileFields
<1>h. HEADER_LEN \in Nat /\ file.header_bytes \in Nat /\ file.header_bytes <= HEADER_LEN
  <2>1. file.header_bytes \in 0 .. HEADER_LEN
    BY <1>1, FileFields
  <2> QED
    BY <2>1 DEF HEADER_LEN
<1>2. /\ file.input_count \in Nat /\ file.gate_count \in Nat /\ file.body_len \in Nat
      /\ body_offset(file) \in Nat /\ Len(file.tail) \in Nat
  BY <1>1, FileFields
<1>s. USIZE_MAX \in Nat /\ file.header_bytes + Len(file.tail) <= USIZE_MAX
  BY <1>1, FileFields, LimitsAssumption
<1>3. MAX_U24 \in Nat /\ MAX_U32 \in Nat /\ MAX_U24 + 1 <= MAX_U32
  BY LimitsOrder
<1>4. CASE LayoutError = "none"
  <2>1. LayoutChecked
    <3>1. /\ ~(file.header_bytes < HEADER_LEN)
          /\ file.signature \notin {"magic", "version", "flags", "reserved"}
          /\ ~(2 + file.input_count + file.gate_count - 1 > MAX_U24)
          /\ ~(Length(file) # HEADER_LEN + body_offset(file) + file.body_len)
      BY <1>4 DEF LayoutError
    <3>2. file.signature = "ok"
      BY <1>f, <3>1 DEF Signature
    <3>3. file.header_bytes = HEADER_LEN
      BY <1>h, <3>1
    <3>4. Len(file.tail) = body_offset(file) + file.body_len
      <4>1. file.header_bytes + Len(file.tail) = HEADER_LEN + body_offset(file) + file.body_len
        BY <3>1 DEF Length
      <4> QED
        BY <1>2, <1>h, <3>3, <4>1, SumLeft
    <3>5. 2 + file.input_count + file.gate_count - 1 <= MAX_U24
      BY <1>2, <1>3, <3>1, SignalLimit
    <3> QED
      BY <3>2, <3>3, <3>4, <3>5 DEF LayoutChecked
  <2>2. /\ pc' = "outputs" /\ file' = file /\ cursor' = cursor /\ index' = index
        /\ latches' = latches /\ saw_nand' = saw_nand /\ error' = error
        /\ remaining' = remaining /\ yielded' = yielded
    BY <1>4 DEF ParseLayout, scan, iter
  <2>3. index = 0 /\ cursor = 0 /\ latches = 0 /\ ~saw_nand /\ yielded = <<>>
    BY <1>1 DEF Inv, BeforeGates
  <2>4. TypeOK'
    BY <2>2 DEF Inv, TypeOK
  <2>5. OutputsInv'
    <3>1. file.output_count \in Nat /\ LayoutChecked'
      BY <1>1, <2>1, <2>2, FileFields DEF LayoutChecked, body_offset
    <3>2. OutputsChecked(0)' /\ index' <= file'.output_count
      BY <2>2, <2>3, <3>1 DEF OutputsChecked
    <3> QED
      BY <2>2, <2>3, <3>1, <3>2 DEF OutputsInv
  <2> QED
    BY <2>2, <2>3, <2>4, <2>5
    DEF Inv, BeforeGates, GatesInv, IterInv, AcceptsExactly
<1>5. CASE LayoutError # "none"
  <2>1. Reject(LayoutError)
    BY <1>5 DEF ParseLayout
  <2>2. LayoutError \in Errors
    BY <1>5 DEF LayoutError, Errors
  <2>3. ~WellFormed(file)
    <3> SUFFICES ASSUME WellFormed(file) PROVE FALSE
      OBVIOUS
    <3>1. /\ file.header_bytes = HEADER_LEN
          /\ file.signature = "ok"
          /\ 2 + file.input_count + file.gate_count - 1 <= MAX_U24
          /\ Len(file.tail) = body_offset(file) + file.body_len
      BY DEF WellFormed
    <3>2. /\ ~SignalsOverflow /\ ~TableOverflow /\ ~LengthOverflow
      <4>1. ~(2 + file.input_count + file.gate_count > MAX_U32)
        BY <1>2, <1>3, <3>1, SignalLimit
      <4>2. /\ ~(HEADER_LEN + body_offset(file) + file.body_len > USIZE_MAX)
            /\ ~(HEADER_LEN + body_offset(file) > USIZE_MAX)
        BY <1>2, <1>h, <1>s, <3>1, SumFits
      <4>3. ~(HEADER_LEN + 3 * file.output_count > USIZE_MAX)
        BY <1>f, <4>2
      <4> QED
        BY <4>1, <4>2, <4>3 DEF SignalsOverflow, TableOverflow, LengthOverflow
    <3>3. /\ ~(Length(file) < HEADER_LEN + body_offset(file))
          /\ ~(Length(file) # HEADER_LEN + body_offset(file) + file.body_len)
      BY <1>2, <1>h, <3>1, SumFits DEF Length
    <3>4. ~(2 + file.input_count + file.gate_count - 1 > MAX_U24)
      BY <1>2, <1>3, <3>1, SignalLimit
    <3>5. ~(file.header_bytes < HEADER_LEN)
      BY <1>h, <3>1
    <3>6. LayoutError = "none"
      BY <3>1, <3>2, <3>3, <3>4, <3>5 DEF LayoutError
    <3> QED
      BY <1>5, <3>6
  <2> QED
    BY <1>1, <2>1, <2>2, <2>3, RejectInv
<1> QED
  BY <1>4, <1>5

LEMMA CheckOutputInv ==
  ASSUME Inv, CheckOutput
  PROVE  Inv'
<1> DEFINE signal == output_signal(file, index)
<1>1. /\ file \in File /\ pc = "outputs" /\ index \in Nat /\ index < file.output_count
      /\ file.output_count \in Nat /\ SignalCount \in Nat
  BY FileFields DEF Inv, TypeOK, CheckOutput, SignalCount
<1>2. LayoutChecked /\ OutputsChecked(index)
  BY <1>1 DEF Inv, OutputsInv
<1>3. signal # None => signal \in Nat
  <2>1. 3 * index \in Nat
    BY <1>1
  <2> QED
    BY <1>1, <2>1, ReadU24 DEF output_signal
<1>4. WellFormed(file) => signal # None /\ signal < SignalCount
  <2> SUFFICES ASSUME WellFormed(file) PROVE signal \in Nat /\ signal < SignalCount
    BY DEF None
  <2> DEFINE c == Reading(file)
  <2>1. /\ Len(c.outputs) = file.output_count
        /\ signal_count(c) = SignalCount
        /\ \A k \in 0 .. file.output_count - 1 : c.outputs[k + 1] = output_signal(file, k)
    BY <1>1, ReadingFields DEF SignalCount
  <2>2. c.outputs \in Seq(Nat) /\ ValidOutputs(c)
    BY DEF WellFormed, Valid, Circuit
  <2>3. index + 1 \in 1 .. Len(c.outputs) /\ index \in 0 .. file.output_count - 1
    BY <1>1, <2>1
  <2>4. c.outputs[index + 1] \in Nat /\ c.outputs[index + 1] < SignalCount
    BY <2>1, <2>2, <2>3 DEF ValidOutputs
  <2> QED
    BY <2>1, <2>3, <2>4
<1>5. CASE signal = None \/ signal >= SignalCount
  <2>1. Reject("TruncatedOutputTable") \/ Reject("InvalidOutput")
    BY <1>5 DEF CheckOutput
  <2>2. ~WellFormed(file)
    <3>1. signal >= SignalCount /\ signal # None => ~(signal < SignalCount)
      BY <1>1, <1>3
    <3> QED
      BY <1>4, <1>5, <3>1
  <2> QED
    BY <1>1, <2>1, <2>2, RejectInv DEF Errors
<1>6. CASE ~(signal = None \/ signal >= SignalCount)
  <2>1. /\ index' = index + 1 /\ file' = file /\ pc' = pc /\ cursor' = cursor
        /\ latches' = latches /\ saw_nand' = saw_nand /\ error' = error
        /\ remaining' = remaining /\ yielded' = yielded
    BY <1>6 DEF CheckOutput, iter
  <2>2. signal \in 0 .. SignalCount - 1
    BY <1>1, <1>3, <1>6
  <2>3. OutputsChecked(index + 1)
    <3>1. \A k \in 0 .. (index + 1) - 1 : k \in 0 .. index - 1 \/ k = index
      BY <1>1
    <3> QED
      BY <1>2, <2>2, <3>1 DEF OutputsChecked
  <2>4. OutputsInv'
    <3>1. index' <= file'.output_count
      BY <1>1, <2>1
    <3>2. LayoutChecked' /\ OutputsChecked(index)'
      BY <1>2, <2>1, <2>3 DEF LayoutChecked, OutputsChecked, SignalCount
    <3> QED
      BY <3>1, <3>2 DEF OutputsInv
  <2>5. TypeOK'
    BY <1>1, <2>1 DEF Inv, TypeOK
  <2> QED
    BY <1>1, <2>1, <2>4, <2>5 DEF Inv, BeforeGates, GatesInv, IterInv, AcceptsExactly
<1> QED
  BY <1>5, <1>6

LEMMA EndOutputsInv ==
  ASSUME Inv, EndOutputs
  PROVE  Inv'
<1>1. /\ file \in File /\ pc = "outputs" /\ index = file.output_count
      /\ Len(file.tail) \in Nat /\ file.body_len \in Nat /\ file.gate_count \in Nat
      /\ body_offset(file) \in Nat
  BY FileFields DEF Inv, TypeOK, EndOutputs
<1>2. /\ pc' = "gates" /\ index' = 0 /\ file' = file /\ cursor' = cursor
      /\ latches' = latches /\ saw_nand' = saw_nand /\ error' = error
      /\ remaining' = remaining /\ yielded' = yielded
  BY DEF EndOutputs, iter
<1>3. /\ LayoutChecked /\ OutputsChecked(file.output_count)
      /\ cursor = 0 /\ latches = 0 /\ ~saw_nand /\ yielded = <<>>
  BY <1>1 DEF Inv, OutputsInv, BeforeGates
<1>4. TypeOK'
  <2>1. BodyLeft' >= 0
    BY <1>1, <1>2, <1>3 DEF BodyLeft, LayoutChecked
  <2> QED
    BY <1>2, <2>1 DEF Inv, TypeOK
<1>5. GatesInv'
  <2>1. cursor' = RecordOffset(latches', index')
    BY <1>2, <1>3 DEF RecordOffset, LATCH_LEN
  <2>2. LayoutChecked' /\ OutputsChecked(file.output_count)'
    BY <1>2, <1>3 DEF LayoutChecked, OutputsChecked, SignalCount
  <2>3. index' <= file'.gate_count /\ latches' <= index' /\ 0 .. index' - 1 = {}
    BY <1>1, <1>2, <1>3
  <2>4. saw_nand' <=> latches' # index'
    BY <1>2, <1>3
  <2> QED
    BY <2>1, <2>2, <2>3, <2>4 DEF GatesInv
<1> QED
  BY <1>2, <1>3, <1>4, <1>5 DEF Inv, BeforeGates, OutputsInv, IterInv, AcceptsExactly

-----------------------------------------------------------------------------
(* validate_gates: what holds whenever the loop looks at a record.          *)
LEMMA AtRecord ==
  ASSUME Inv, pc = "gates"
  PROVE  /\ file \in File /\ index \in Nat /\ latches \in Nat /\ cursor \in Nat
         /\ file.input_count \in Nat /\ file.gate_count \in Nat
         /\ file.gate_count <= MAX_U32 /\ MAX_U32 \in Nat
         /\ file.latch_count \in Nat /\ file.body_len \in Nat
         /\ body_offset(file) \in Nat /\ Len(file.tail) \in Nat
         /\ BodyLeft = file.body_len - cursor
         /\ LayoutChecked /\ OutputsChecked(file.output_count)
         /\ index <= file.gate_count /\ latches <= index
         /\ saw_nand <=> latches # index
         /\ cursor = RecordOffset(latches, index)
         /\ \A i \in 0 .. index - 1 : RecordChecked(latches, i)
         /\ yielded = <<>>
<1>1. file \in File /\ index \in Nat /\ cursor \in Nat
  BY DEF Inv, TypeOK
<1>2. MAX_U32 \in Nat /\ latches \in Nat
  BY LimitsOrder DEF Inv, TypeOK
<1>3. /\ LayoutChecked /\ OutputsChecked(file.output_count)
      /\ index <= file.gate_count /\ latches <= index
      /\ saw_nand <=> latches # index
      /\ cursor = RecordOffset(latches, index)
      /\ \A i \in 0 .. index - 1 : RecordChecked(latches, i)
      /\ yielded = <<>>
  BY DEF Inv, GatesInv
<1>4. /\ file.input_count \in Nat /\ file.gate_count \in Nat
      /\ file.gate_count <= MAX_U32
      /\ file.latch_count \in Nat /\ file.body_len \in Nat
      /\ body_offset(file) \in Nat /\ Len(file.tail) \in Nat
  BY <1>1, FileFields
<1>5. BodyLeft = file.body_len - cursor
  BY <1>1, <1>3, <1>4 DEF BodyLeft, LayoutChecked
<1> QED
  BY <1>1, <1>2, <1>3, <1>4, <1>5

LEMMA CheckNandInv ==
  ASSUME Inv, CheckNand
  PROVE  Inv'
<1>1. pc = "gates" /\ index < file.gate_count /\ OpcodeHere = OP_NAND
  BY DEF CheckNand
<1>2. /\ file \in File /\ index \in Nat /\ latches \in Nat /\ cursor \in Nat
      /\ file.input_count \in Nat /\ file.gate_count \in Nat
      /\ file.latch_count \in Nat /\ file.body_len \in Nat
      /\ body_offset(file) \in Nat /\ Len(file.tail) \in Nat
      /\ latches <= index
  BY <1>1, AtRecord
<1>a. BodyLeft = file.body_len - cursor /\ cursor = RecordOffset(latches, index)
  BY <1>1, AtRecord
<1>3. CASE NandError = "none"
  <2>1. /\ saw_nand' = TRUE /\ cursor' = cursor + NAND_LEN /\ index' = index + 1
        /\ file' = file /\ pc' = pc /\ latches' = latches /\ error' = error
        /\ remaining' = remaining /\ yielded' = yielded
    BY <1>3 DEF CheckNand, iter
  <2>2. /\ ~(BodyLeft < NAND_LEN)
        /\ ~(NandAt(file, cursor).a >= CurrentSignal)
        /\ ~(NandAt(file, cursor).b >= CurrentSignal)
    BY <1>3 DEF NandError
  <2>3. NAND_LEN = 7 /\ cursor + 7 <= file.body_len
        /\ Len(file.tail) = body_offset(file) + file.body_len
    <3>1. Len(file.tail) = body_offset(file) + file.body_len
      BY <1>1, AtRecord DEF LayoutChecked
    <3>2. ~(file.body_len - cursor < 7)
      BY <1>a, <2>2 DEF NAND_LEN
    <3> QED
      BY <1>2, <3>1, <3>2 DEF NAND_LEN
  <2>4. RecordChecked(latches, index)
    <3>1. /\ NandAt(file, cursor).a = read_u24_at(file, body_offset(file) + cursor + 1)
          /\ NandAt(file, cursor).b = read_u24_at(file, body_offset(file) + cursor + 4)
      BY DEF NandAt, Nand
    <3>2. /\ body_offset(file) + cursor + 1 \in Nat
          /\ body_offset(file) + cursor + 4 \in Nat
          /\ body_offset(file) + cursor + 1 + 3 <= Len(file.tail)
          /\ body_offset(file) + cursor + 4 + 3 <= Len(file.tail)
      <4> DEFINE bo == body_offset(file)
                 all == Len(file.tail)
                 len == file.body_len
      <4> HIDE DEF bo, all, len
      <4>1. bo \in Nat /\ all \in Nat /\ len \in Nat /\ cursor + 7 <= len /\ all = bo + len
        BY <1>2, <2>3 DEF bo, all, len
      <4>2. /\ bo + cursor + 1 \in Nat /\ bo + cursor + 4 \in Nat
            /\ bo + cursor + 1 + 3 <= all /\ bo + cursor + 4 + 3 <= all
        BY <1>2, <4>1
      <4> QED
        BY <4>2 DEF bo, all
    <3>3. NandAt(file, cursor).a \in Nat /\ NandAt(file, cursor).b \in Nat
      BY <1>2, <3>1, <3>2, ReadU24
    <3>4. /\ NandAt(file, cursor).a \in 0 .. 2 + file.input_count + index - 1
          /\ NandAt(file, cursor).b \in 0 .. 2 + file.input_count + index - 1
      <4>1. /\ ~(NandAt(file, cursor).a >= 2 + file.input_count + index)
            /\ ~(NandAt(file, cursor).b >= 2 + file.input_count + index)
        BY <2>2 DEF CurrentSignal
      <4>2. NandAt(file, cursor).a \in 0 .. 2 + file.input_count + index - 1
        BY <1>2, <3>3, <4>1, BelowSum, Zenon
      <4>3. NandAt(file, cursor).b \in 0 .. 2 + file.input_count + index - 1
        BY <1>2, <3>3, <4>1, BelowSum, Zenon
      <4> QED
        BY <4>2, <4>3
    <3>5. ~(index < latches)
      BY <1>2
    <3> QED
      BY <1>1, <1>a, <3>4, <3>5 DEF RecordChecked, OpcodeHere
  <2>5. GatesInv'
    <3>1. \A i \in 0 .. (index + 1) - 1 : RecordChecked(latches, i)
      <4>1. \A i \in 0 .. (index + 1) - 1 : i \in 0 .. index - 1 \/ i = index
        BY <1>2
      <4> QED
        BY <1>1, <2>4, <4>1, AtRecord
    <3>2. (\A i \in 0 .. index - 1 : RecordChecked(latches, i))'
      BY <2>1, <3>1 DEF RecordChecked, SignalCount
    <3>3. LayoutChecked' /\ OutputsChecked(file.output_count)'
      <4>1. LayoutChecked /\ OutputsChecked(file.output_count)
        BY <1>1, AtRecord
      <4> QED
        BY <2>1, <4>1 DEF LayoutChecked, OutputsChecked, SignalCount
    <3>4. /\ index' <= file'.gate_count /\ latches' <= index'
          /\ latches' # index'
      BY <1>1, <1>2, <2>1
    <3>5. cursor' = RecordOffset(latches', index')
      BY <1>2, <1>a, <2>1, Offsets
    <3> QED
      BY <2>1, <3>2, <3>3, <3>4, <3>5 DEF GatesInv
  <2>6. TypeOK'
    <3>1. BodyLeft' >= 0 /\ cursor' \in Nat /\ index' \in Nat
      <4>1. BodyLeft' = Len(file.tail) - body_offset(file) - (cursor + 7)
        BY <2>1, <2>3 DEF BodyLeft
      <4> QED
        BY <1>2, <2>1, <2>3, <4>1
    <3> QED
      BY <2>1, <3>1 DEF Inv, TypeOK
  <2> QED
    BY <1>1, <2>1, <2>5, <2>6 DEF Inv, BeforeGates, OutputsInv, IterInv, AcceptsExactly
<1>4. CASE NandError # "none"
  <2>1. Reject(NandError) /\ NandError \in Errors
    BY <1>4 DEF CheckNand, NandError, Errors
  <2>2. ASSUME WellFormed(file) PROVE FALSE
    <3>1. cursor = RecordOffset(file.latch_count, index)
      BY <1>1, <2>2, ScanAgrees
    <3>2. index \in 0 .. file.gate_count - 1 /\ Opcode(file, index) = OP_NAND
      BY <1>1, <1>2, <3>1 DEF Opcode, OpcodeHere
    <3>3. ~(index < file.latch_count)
      BY <1>2, <2>2, <3>2, RecordOfWellFormed DEF OP_NAND, OP_LATCH
    <3>4. /\ cursor + NAND_LEN <= file.body_len
          /\ NandAt(file, cursor).a < CurrentSignal
          /\ NandAt(file, cursor).b < CurrentSignal
      BY <1>2, <2>2, <3>1, <3>2, <3>3, RecordOfWellFormed DEF CurrentSignal
    <3>5. NandAt(file, cursor).a \in Int /\ NandAt(file, cursor).b \in Int
      <4>1. /\ body_offset(file) + cursor + 1 \in Nat
            /\ body_offset(file) + cursor + 4 \in Nat
        BY <1>2
      <4>2. /\ read_u24_at(file, body_offset(file) + cursor + 1) \in Int
            /\ read_u24_at(file, body_offset(file) + cursor + 4) \in Int
        BY <1>2, <4>1, ReadU24 DEF None
      <4> QED
        BY <4>2 DEF NandAt, Nand
    <3>6. /\ ~(BodyLeft < NAND_LEN)
          /\ ~(NandAt(file, cursor).a >= CurrentSignal)
          /\ ~(NandAt(file, cursor).b >= CurrentSignal)
      <4>1. 2 + file.input_count + index \in Nat
        BY <1>2
      <4>2. ~(file.body_len - cursor < 7)
        BY <1>2, <3>4 DEF NAND_LEN
      <4> QED
        BY <1>a, <3>4, <3>5, <4>1, <4>2 DEF NAND_LEN, CurrentSignal
    <3> QED
      BY <1>4, <3>6 DEF NandError
  <2> QED
    BY <1>1, <2>1, <2>2, RejectInv
<1> QED
  BY <1>3, <1>4

LEMMA CheckLatchInv ==
  ASSUME Inv, CheckLatch
  PROVE  Inv'
<1>1. pc = "gates" /\ index < file.gate_count /\ OpcodeHere = OP_LATCH
  BY DEF CheckLatch
<1>2. /\ file \in File /\ index \in Nat /\ latches \in Nat /\ cursor \in Nat
      /\ file.input_count \in Nat /\ file.gate_count \in Nat
      /\ file.gate_count <= MAX_U32 /\ MAX_U32 \in Nat
      /\ file.latch_count \in Nat /\ file.body_len \in Nat
      /\ body_offset(file) \in Nat /\ Len(file.tail) \in Nat
  BY <1>1, AtRecord
<1>a. BodyLeft = file.body_len - cursor /\ cursor = RecordOffset(latches, index)
  BY <1>1, AtRecord
<1>b. SignalCount \in Nat
  BY <1>2 DEF SignalCount
<1>3. CASE LatchError = "none"
  <2>1. /\ latches' = latches + 1 /\ cursor' = cursor + LATCH_LEN /\ index' = index + 1
        /\ file' = file /\ pc' = pc /\ saw_nand' = saw_nand /\ error' = error
        /\ remaining' = remaining /\ yielded' = yielded
    BY <1>3 DEF CheckLatch, iter
  <2>2. /\ ~saw_nand
        /\ ~(BodyLeft < LATCH_LEN)
        /\ ~(LatchAt(file, cursor).d >= SignalCount)
    BY <1>3 DEF LatchError
  <2>a. latches = index
    BY <1>1, <2>2, AtRecord
  <2>3. LATCH_LEN = 4 /\ cursor + 4 <= file.body_len
        /\ Len(file.tail) = body_offset(file) + file.body_len
    <3>1. Len(file.tail) = body_offset(file) + file.body_len
      BY <1>1, AtRecord DEF LayoutChecked
    <3>2. ~(file.body_len - cursor < 4)
      BY <1>a, <2>2 DEF LATCH_LEN
    <3> QED
      BY <1>2, <3>1, <3>2 DEF LATCH_LEN
  <2>4. RecordChecked(index + 1, index)
    <3>1. LatchAt(file, cursor).d = read_u24_at(file, body_offset(file) + cursor + 1)
      BY DEF LatchAt, Latch
    <3>2. /\ body_offset(file) + cursor + 1 \in Nat
          /\ body_offset(file) + cursor + 1 + 3 <= Len(file.tail)
      <4> DEFINE bo == body_offset(file)
                 all == Len(file.tail)
                 len == file.body_len
      <4> HIDE DEF bo, all, len
      <4>1. bo \in Nat /\ all \in Nat /\ len \in Nat /\ cursor + 4 <= len /\ all = bo + len
        BY <1>2, <2>3 DEF bo, all, len
      <4>2. bo + cursor + 1 \in Nat /\ bo + cursor + 1 + 3 <= all
        BY <1>2, <4>1
      <4> QED
        BY <4>2 DEF bo, all
    <3>3. LatchAt(file, cursor).d \in Nat
      BY <1>2, <3>1, <3>2, ReadU24
    <3>4. LatchAt(file, cursor).d \in 0 .. SignalCount - 1
      BY <1>b, <2>2, <3>3
    <3>5. RecordOffset(index + 1, index) = cursor
      BY <1>2, <1>a, <2>a DEF RecordOffset
    <3>6. index < index + 1
      BY <1>2
    <3> QED
      BY <1>1, <3>4, <3>5, <3>6 DEF RecordChecked, OpcodeHere
  <2>5. GatesInv'
    <3>1. \A i \in 0 .. (index + 1) - 1 : RecordChecked(index + 1, i)
      <4>1. ASSUME NEW i \in 0 .. (index + 1) - 1, i # index
            PROVE  RecordChecked(index + 1, i)
        <5>1. i \in 0 .. index - 1 /\ i < index /\ i < index + 1
          BY <1>2, <4>1
        <5>2. RecordChecked(index, i)
          BY <1>1, <2>a, <5>1, AtRecord
        <5>3. RecordOffset(index + 1, i) = RecordOffset(index, i)
          BY <1>2, <5>1 DEF RecordOffset
        <5> QED
          BY <5>1, <5>2, <5>3 DEF RecordChecked
      <4> QED
        BY <2>4, <4>1
    <3>2. (\A i \in 0 .. index - 1 : RecordChecked(latches, i))'
      BY <2>1, <2>a, <3>1 DEF RecordChecked, SignalCount
    <3>3. LayoutChecked' /\ OutputsChecked(file.output_count)'
      <4>1. LayoutChecked /\ OutputsChecked(file.output_count)
        BY <1>1, AtRecord
      <4> QED
        BY <2>1, <4>1 DEF LayoutChecked, OutputsChecked, SignalCount
    <3>4. /\ index' <= file'.gate_count /\ latches' <= index'
          /\ latches' = index' /\ ~saw_nand'
      BY <1>1, <1>2, <2>1, <2>2, <2>a
    <3>5. cursor' = RecordOffset(latches', index')
      BY <1>2, <1>a, <2>1, <2>a DEF RecordOffset, LATCH_LEN
    <3> QED
      BY <2>1, <3>2, <3>3, <3>4, <3>5 DEF GatesInv
  <2>6. TypeOK'
    <3>1. BodyLeft' >= 0 /\ cursor' \in Nat /\ index' \in Nat
      <4>1. BodyLeft' = Len(file.tail) - body_offset(file) - (cursor + 4)
        BY <2>1, <2>3 DEF BodyLeft
      <4> QED
        BY <1>2, <2>1, <2>3, <4>1
    <3>2. latches' \in 0 .. MAX_U32
      BY <1>1, <1>2, <2>1, <2>a
    <3> QED
      BY <2>1, <3>1, <3>2 DEF Inv, TypeOK
  <2> QED
    BY <1>1, <2>1, <2>5, <2>6 DEF Inv, BeforeGates, OutputsInv, IterInv, AcceptsExactly
<1>4. CASE LatchError # "none"
  <2>1. Reject(LatchError) /\ LatchError \in Errors
    BY <1>4 DEF CheckLatch, LatchError, Errors
  <2>2. ASSUME WellFormed(file) PROVE FALSE
    <3>1. /\ latches = IF index <= file.latch_count THEN index ELSE file.latch_count
          /\ cursor = RecordOffset(file.latch_count, index)
      BY <1>1, <2>2, ScanAgrees
    <3>2. index \in 0 .. file.gate_count - 1 /\ Opcode(file, index) = OP_LATCH
      BY <1>1, <1>2, <3>1 DEF Opcode, OpcodeHere
    <3>3. index < file.latch_count
      BY <1>2, <2>2, <3>2, RecordOfWellFormed DEF OP_NAND, OP_LATCH
    <3>4. /\ cursor + LATCH_LEN <= file.body_len
          /\ LatchAt(file, cursor).d < SignalCount
      BY <1>2, <2>2, <3>1, <3>2, <3>3, RecordOfWellFormed DEF SignalCount
    <3>5. LatchAt(file, cursor).d \in Int
      <4>1. body_offset(file) + cursor + 1 \in Nat
        BY <1>2
      <4>2. read_u24_at(file, body_offset(file) + cursor + 1) \in Int
        BY <1>2, <4>1, ReadU24 DEF None
      <4> QED
        BY <4>2 DEF LatchAt, Latch
    <3>6. /\ ~saw_nand
          /\ ~(BodyLeft < LATCH_LEN)
          /\ ~(LatchAt(file, cursor).d >= SignalCount)
      <4>1. latches = index
        BY <1>2, <3>1, <3>3
      <4>2. ~saw_nand
        BY <1>1, <4>1, AtRecord
      <4>3. ~(file.body_len - cursor < 4)
        BY <1>2, <3>4 DEF LATCH_LEN
      <4>4. ~(LatchAt(file, cursor).d >= SignalCount)
        BY <1>b, <3>4, <3>5
      <4> QED
        BY <1>a, <4>2, <4>3, <4>4 DEF LATCH_LEN
    <3> QED
      BY <1>4, <3>6 DEF LatchError
  <2> QED
    BY <1>1, <2>1, <2>2, RejectInv
<1> QED
  BY <1>3, <1>4

LEMMA CheckOtherInv ==
  ASSUME Inv, CheckOther
  PROVE  Inv'
<1>1. /\ pc = "gates" /\ index < file.gate_count
      /\ OpcodeHere \notin {OP_NAND, OP_LATCH}
      /\ Reject("TruncatedGate") \/ Reject("UnknownOpcode")
  BY DEF CheckOther
<1>2. file \in File /\ index \in 0 .. file.gate_count - 1
  BY <1>1, AtRecord
<1>3. ASSUME WellFormed(file) PROVE FALSE
  <2>1. cursor = RecordOffset(file.latch_count, index)
    BY <1>1, <1>3, ScanAgrees
  <2>2. Opcode(file, index) \in {OP_NAND, OP_LATCH}
    BY <1>2, <1>3, RecordOfWellFormed
  <2> QED
    BY <1>1, <2>1, <2>2 DEF Opcode, OpcodeHere
<1> QED
  BY <1>1, <1>3, RejectInv DEF Errors

LEMMA EndGatesInv ==
  ASSUME Inv, EndGates
  PROVE  Inv'
<1>1. pc = "gates" /\ index = file.gate_count
  BY DEF EndGates
<1>2. /\ file \in File /\ cursor \in Nat /\ latches \in Nat
      /\ file.gate_count \in Nat /\ file.latch_count \in Nat /\ file.body_len \in Nat
      /\ body_offset(file) \in Nat /\ Len(file.tail) \in Nat
      /\ latches <= file.gate_count
  BY <1>1, AtRecord
<1>3. BodyLeft = file.body_len - cursor /\ cursor = RecordOffset(latches, file.gate_count)
  BY <1>1, AtRecord
<1>4. CASE BodyLeft # 0 \/ latches # file.latch_count
  <2>1. Reject("LengthMismatch") \/ Reject("LatchCountMismatch")
    BY <1>4 DEF EndGates
  <2>2. ASSUME WellFormed(file) PROVE FALSE
    <3>1. /\ latches = IF index <= file.latch_count THEN index ELSE file.latch_count
          /\ cursor = RecordOffset(file.latch_count, file.gate_count)
      BY <1>1, <2>2, ScanAgrees
    <3>2. /\ file.latch_count <= file.gate_count
          /\ file.body_len = RecordOffset(file.latch_count, file.gate_count)
      BY <2>2 DEF WellFormed
    <3>3. latches = file.latch_count
      BY <1>1, <1>2, <3>1, <3>2
    <3>4. BodyLeft = 0
      BY <1>2, <1>3, <3>1, <3>2
    <3> QED
      BY <1>4, <3>3, <3>4
  <2> QED
    BY <1>1, <2>1, <2>2, RejectInv DEF Errors
<1>5. CASE BodyLeft = 0 /\ latches = file.latch_count
  <2>1. /\ pc' = "iterating" /\ cursor' = 0 /\ remaining' = file.gate_count
        /\ file' = file /\ index' = index /\ latches' = latches
        /\ saw_nand' = saw_nand /\ error' = error /\ yielded' = yielded
    BY <1>5 DEF EndGates, scan
  <2>2. yielded = <<>>
    BY <1>1, AtRecord
  <2>3. WellFormed(file)
    <3>1. file.body_len = RecordOffset(file.latch_count, file.gate_count)
      BY <1>2, <1>3, <1>5
    <3>2. LayoutChecked /\ OutputsChecked(file.output_count)
          /\ \A i \in 0 .. file.gate_count - 1 : RecordChecked(file.latch_count, i)
      BY <1>1, <1>5, AtRecord
    <3> QED
      BY <1>2, <1>5, <3>1, <3>2, CheckedIsWellFormed
  <2>4. TypeOK'
    <3>1. BodyLeft' >= 0
      <4>1. BodyLeft' = Len(file.tail) - body_offset(file) - 0
        BY <2>1 DEF BodyLeft
      <4>2. Len(file.tail) = body_offset(file) + file.body_len
        BY <1>1, AtRecord DEF LayoutChecked
      <4> QED
        BY <1>2, <4>1, <4>2
    <3> QED
      BY <1>2, <2>1, <3>1 DEF Inv, TypeOK
  <2>5. IterInv'
    <3>1. Len(yielded) = 0
      BY <2>2
    <3>2. cursor' = RecordOffset(file'.latch_count, Len(yielded'))
      BY <1>2, <2>1, <3>1 DEF RecordOffset, LATCH_LEN
    <3>3. remaining' + Len(yielded') = file'.gate_count /\ 0 .. Len(yielded') - 1 = {}
      BY <1>2, <2>1, <3>1
    <3> QED
      BY <2>1, <3>2, <3>3 DEF IterInv
  <2> QED
    BY <2>1, <2>3, <2>4, <2>5
    DEF Inv, BeforeGates, OutputsInv, GatesInv, AcceptsExactly
<1> QED
  BY <1>4, <1>5

-----------------------------------------------------------------------------
(* GateIter: on the slice parse accepted, the record next finds is the one  *)
(* the format puts there.                                                   *)
LEMMA AtItem ==
  ASSUME Inv, pc = "iterating"
  PROVE  /\ file \in File /\ WellFormed(file)
         /\ file.gate_count \in Nat /\ file.latch_count \in Nat /\ cursor \in Nat
         /\ body_offset(file) \in Nat /\ Len(file.tail) \in Nat /\ file.body_len \in Nat
         /\ BodyLeft = file.body_len - cursor
         /\ Len(yielded) \in Nat /\ remaining \in Nat
         /\ remaining + Len(yielded) = file.gate_count
         /\ cursor = RecordOffset(file.latch_count, Len(yielded))
         /\ remaining # 0 =>
              /\ HasItem
              /\ Item = GateOf(file, Len(yielded))
              /\ Item \in Gate
              /\ OpcodeHere = IF Len(yielded) < file.latch_count THEN OP_LATCH ELSE OP_NAND
              /\ IF OpcodeHere = OP_NAND THEN cursor + NAND_LEN <= file.body_len
                                         ELSE cursor + LATCH_LEN <= file.body_len
<1>1. /\ file \in File /\ WellFormed(file) /\ cursor \in Nat /\ remaining \in Nat
      /\ yielded \in Seq(Gate)
      /\ remaining + Len(yielded) = file.gate_count
      /\ cursor = RecordOffset(file.latch_count, Len(yielded))
  BY DEF Inv, TypeOK, AcceptsExactly, IterInv
<1>2. /\ file.gate_count \in Nat /\ file.latch_count \in Nat
      /\ body_offset(file) \in Nat /\ Len(file.tail) \in Nat /\ file.body_len \in Nat
      /\ Len(yielded) \in Nat
  BY <1>1, FileFields
<1>3. BodyLeft = file.body_len - cursor
  <2>1. Len(file.tail) = body_offset(file) + file.body_len
    BY <1>1 DEF WellFormed
  <2>2. BodyLeft = Len(file.tail) - body_offset(file) - cursor
    BY DEF BodyLeft
  <2> QED
    BY <1>1, <1>2, <2>1, <2>2
<1>4. ASSUME remaining # 0
      PROVE  /\ HasItem
             /\ Item = GateOf(file, Len(yielded))
             /\ Item \in Gate
             /\ OpcodeHere = IF Len(yielded) < file.latch_count THEN OP_LATCH ELSE OP_NAND
             /\ IF OpcodeHere = OP_NAND THEN cursor + NAND_LEN <= file.body_len
                                        ELSE cursor + LATCH_LEN <= file.body_len
  <2> DEFINE i == Len(yielded)
  <2>1. i \in 0 .. file.gate_count - 1
    BY <1>1, <1>2, <1>4
  <2>2. OpcodeHere = Opcode(file, i) /\ OP_LATCH # OP_NAND
    BY <1>1 DEF OpcodeHere, Opcode, OP_LATCH, OP_NAND
  <2>3. GateOf(file, i) \in Gate
    <3>1. Reading(file).gates \in Seq(Gate)
      BY <1>1 DEF WellFormed, Valid, Circuit
    <3>2. Reading(file).gates[i + 1] \in Gate
      <4>1. i + 1 \in 1 .. Len(Reading(file).gates)
        BY <1>1, <1>2, <2>1, ReadingFields
      <4> QED
        BY <3>1, <4>1, ElementsOfSeq
    <3> QED
      BY <1>1, <2>1, <3>2, ReadingFields
  <2>4. CASE i < file.latch_count
    <3>1. OpcodeHere = OP_LATCH /\ cursor + LATCH_LEN <= file.body_len
      BY <1>1, <2>1, <2>2, <2>4, RecordOfWellFormed
    <3>2. Item = GateOf(file, i)
      BY <1>1, <2>2, <2>4, <3>1 DEF Item, GateOf
    <3>3. BodyLeft >= LATCH_LEN
      BY <1>1, <1>2, <1>3, <3>1 DEF LATCH_LEN
    <3> QED
      BY <1>4, <2>2, <2>3, <2>4, <3>1, <3>2, <3>3 DEF HasItem
  <2>5. CASE ~(i < file.latch_count)
    <3>1. OpcodeHere = OP_NAND /\ cursor + NAND_LEN <= file.body_len
      BY <1>1, <2>1, <2>2, <2>5, RecordOfWellFormed
    <3>2. Item = GateOf(file, i)
      BY <1>1, <2>2, <2>5, <3>1 DEF Item, GateOf
    <3>3. BodyLeft >= NAND_LEN
      BY <1>1, <1>2, <1>3, <3>1 DEF NAND_LEN
    <3> QED
      BY <1>4, <2>2, <2>3, <2>5, <3>1, <3>2, <3>3 DEF HasItem
  <2> QED
    BY <2>4, <2>5
<1> QED
  BY <1>1, <1>2, <1>3, <1>4

LEMMA NextGateInv ==
  ASSUME Inv, NextGate
  PROVE  Inv'
<1> DEFINE n == Len(yielded)
<1>1. /\ pc = "iterating" /\ remaining # 0
      /\ yielded' = Append(yielded, Item)
      /\ cursor' = cursor + (IF OpcodeHere = OP_NAND THEN NAND_LEN ELSE LATCH_LEN)
      /\ remaining' = remaining - 1
      /\ file' = file /\ pc' = pc /\ index' = index /\ latches' = latches
      /\ saw_nand' = saw_nand /\ error' = error
  BY DEF NextGate, HasItem, scan
<1>2. /\ file \in File /\ WellFormed(file)
      /\ file.gate_count \in Nat /\ file.latch_count \in Nat /\ cursor \in Nat
      /\ body_offset(file) \in Nat /\ Len(file.tail) \in Nat /\ file.body_len \in Nat
      /\ n \in Nat /\ remaining \in Nat /\ remaining + n = file.gate_count
  BY <1>1, AtItem
<1>3. /\ cursor = RecordOffset(file.latch_count, n)
      /\ Item = GateOf(file, n) /\ Item \in Gate
      /\ OpcodeHere = IF n < file.latch_count THEN OP_LATCH ELSE OP_NAND
      /\ IF OpcodeHere = OP_NAND THEN cursor + NAND_LEN <= file.body_len
                                 ELSE cursor + LATCH_LEN <= file.body_len
  BY <1>1, AtItem
<1>4. yielded \in Seq(Gate)
  BY DEF Inv, TypeOK
<1>5. /\ yielded' \in Seq(Gate) /\ Len(yielded') = n + 1
      /\ \A i \in 0 .. n - 1 : yielded'[i + 1] = yielded[i + 1]
      /\ yielded'[n + 1] = Item
  BY <1>1, <1>2, <1>3, <1>4
<1>6. cursor' \in Nat /\ cursor' <= file.body_len
  BY <1>1, <1>2, <1>3 DEF NAND_LEN, LATCH_LEN
<1>7. TypeOK'
  <2>1. BodyLeft' >= 0
    <3>1. Len(file.tail) = body_offset(file) + file.body_len
      BY <1>2 DEF WellFormed
    <3>2. BodyLeft' = Len(file.tail) - body_offset(file) - cursor'
      BY <1>1 DEF BodyLeft
    <3> QED
      BY <1>2, <1>6, <3>1, <3>2
  <2>2. remaining' \in Nat
    BY <1>1, <1>2
  <2> QED
    BY <1>1, <1>5, <1>6, <2>1, <2>2 DEF Inv, TypeOK
<1>8. IterInv'
  <2>1. cursor' = RecordOffset(file'.latch_count, Len(yielded'))
    <3>1. n \in Nat /\ file.latch_count \in Nat
      BY <1>2
    <3>2. RecordOffset(file.latch_count, n + 1)
            = RecordOffset(file.latch_count, n)
              + (IF n < file.latch_count THEN LATCH_LEN ELSE NAND_LEN)
      BY <3>1 DEF RecordOffset, LATCH_LEN, NAND_LEN
    <3>3. cursor' = RecordOffset(file.latch_count, n)
                    + (IF n < file.latch_count THEN LATCH_LEN ELSE NAND_LEN)
      BY <1>1, <1>3 DEF OP_LATCH, OP_NAND
    <3> QED
      BY <1>1, <1>5, <3>2, <3>3
  <2>2. \A i \in 0 .. Len(yielded') - 1 : yielded'[i + 1] = GateOf(file', i)
    <3>1. \A i \in 0 .. n - 1 : yielded[i + 1] = GateOf(file, i)
      BY <1>1 DEF Inv, IterInv
    <3>2. \A i \in 0 .. (n + 1) - 1 : i \in 0 .. n - 1 \/ i = n
      BY <1>2
    <3> QED
      BY <1>1, <1>3, <1>5, <3>1, <3>2
  <2>3. remaining' + Len(yielded') = file'.gate_count
    BY <1>1, <1>2, <1>5
  <2> QED
    BY <1>1, <2>1, <2>2, <2>3 DEF IterInv
<1> QED
  BY <1>1, <1>2, <1>7, <1>8
  DEF Inv, BeforeGates, OutputsInv, GatesInv, AcceptsExactly

LEMMA EndIterInv ==
  ASSUME Inv, EndIter
  PROVE  Inv'
<1>1. /\ pc = "iterating" /\ pc' = "done" /\ ~HasItem
      /\ file' = file /\ cursor' = cursor /\ index' = index /\ latches' = latches
      /\ saw_nand' = saw_nand /\ error' = error /\ remaining' = remaining
      /\ yielded' = yielded
  BY DEF EndIter, scan, iter
<1>2. remaining = 0 /\ WellFormed(file)
  BY <1>1, AtItem
<1>3. TypeOK'
  BY <1>1 DEF Inv, TypeOK
<1>4. IterInv'
  BY <1>1, <1>2 DEF Inv, IterInv
<1> QED
  BY <1>1, <1>2, <1>3, <1>4
  DEF Inv, BeforeGates, OutputsInv, GatesInv, AcceptsExactly

LEMMA StutterInv ==
  ASSUME Inv, UNCHANGED vars
  PROVE  Inv'
<1>1. /\ file' = file /\ pc' = pc /\ index' = index /\ cursor' = cursor
      /\ latches' = latches /\ saw_nand' = saw_nand /\ error' = error
      /\ remaining' = remaining /\ yielded' = yielded
  BY DEF vars
<1>2. TypeOK'
  BY <1>1 DEF Inv, TypeOK, BodyLeft
<1>3. OutputsInv' /\ GatesInv'
  BY <1>1 DEF Inv, OutputsInv, GatesInv, LayoutChecked, OutputsChecked, RecordChecked, SignalCount
<1>4. IterInv' /\ BeforeGates' /\ AcceptsExactly'
  BY <1>1 DEF Inv, IterInv, BeforeGates, AcceptsExactly
<1> QED
  BY <1>1, <1>2, <1>3, <1>4 DEF Inv

-----------------------------------------------------------------------------
(* The inductive invariant: both passes over the records stand where the    *)
(* format puts the next record, and all before it is checked.               *)
THEOREM Invariant == Spec => []Inv
<1>1. Inv /\ [Next]_vars => Inv'
  BY ParseLayoutInv, CheckOutputInv, EndOutputsInv, CheckNandInv, CheckLatchInv,
     CheckOtherInv, EndGatesInv, NextGateInv, EndIterInv, StutterInv DEF Next
<1> QED
  BY InitInv, <1>1, PTL DEF Spec

(* No read leaves the slice and no counter its type.                        *)
THEOREM TypeCorrect == Spec => []TypeOK
<1>1. Inv => TypeOK
  BY DEF Inv
<1> QED
  BY <1>1, Invariant, PTL

(* parse accepts a slice exactly when it is the encoding of a valid circuit.*)
THEOREM ParseIsExact == Spec => []AcceptsExactly
<1>1. Inv => AcceptsExactly
  BY DEF Inv
<1> QED
  BY <1>1, Invariant, PTL

(* Every view that parse hands out iterates to the end and is a circuit     *)
(* that satisfies Valid: the assumption VmStep makes of its circuits.       *)
THEOREM ViewsAreValid == Spec => []ViewIsValid
<1>1. Inv => ViewIsValid
  <2> SUFFICES ASSUME Inv, pc = "done"
               PROVE  remaining = 0 /\ View = Reading(file) /\ Valid(View)
    BY DEF ViewIsValid
  <2>1. /\ file \in File /\ WellFormed(file) /\ yielded \in Seq(Gate)
        /\ remaining = 0 /\ remaining + Len(yielded) = file.gate_count
        /\ \A i \in 0 .. Len(yielded) - 1 : yielded[i + 1] = GateOf(file, i)
    BY DEF Inv, TypeOK, AcceptsExactly, IterInv
  <2>2. Len(yielded) = file.gate_count /\ file.gate_count \in Nat
    BY <2>1, FileFields
  <2>3. \A i \in 1 .. file.gate_count : yielded[i] = GateOf(file, i - 1)
    <3>1. \A i \in 1 .. file.gate_count : i - 1 \in 0 .. file.gate_count - 1 /\ (i - 1) + 1 = i
      BY <2>2
    <3> QED
      BY <2>1, <2>2, <3>1
  <2>4. yielded = [i \in 1 .. file.gate_count |-> GateOf(file, i - 1)]
    <3>1. DOMAIN yielded = 1 .. file.gate_count
      BY <2>1, <2>2
    <3>2. yielded = [i \in DOMAIN yielded |-> yielded[i]]
      BY <2>1
    <3> QED
      BY <2>3, <3>1, <3>2
  <2>5. View = Reading(file)
    BY <2>4 DEF View, Reading
  <2> QED
    BY <2>1, <2>5 DEF WellFormed
<1> QED
  BY <1>1, Invariant, PTL

=============================================================================
