------------------------------ MODULE Decoder -------------------------------
(***************************************************************************)
(* CircuitView::parse of nandry-vm, and the second pass over the records    *)
(* that every later use of the view makes through GateIter.  The first pass *)
(* checks and remembers nothing of the records; the second decodes them     *)
(* again and checks nothing.  Both find each record from the length of the  *)
(* one before it.                                                           *)
(***************************************************************************)
EXTENDS Format

CONSTANT Files      \* the byte slices parse may be given

ASSUME FilesAssumption == Files \subseteq File

VARIABLES
  file,         \* the slice
  pc,           \* "layout", "outputs", "gates", "iterating", "done", "rejected"
  index,        \* the counter of the loop over outputs or gates
  cursor,       \* the offset in the body, of validate_gates or of GateIter
  latches,      \* validate_gates: latch records so far
  saw_nand,     \* validate_gates: a NAND record was seen
  error,        \* the error parse returned
  remaining,    \* GateIter: the items next still promises
  yielded       \* the gates next returned

scan == <<index, latches, saw_nand>>
iter == <<remaining, yielded>>
vars == <<file, pc, index, cursor, latches, saw_nand, error, remaining, yielded>>

Init ==
  /\ file \in Files
  /\ pc = "layout"
  /\ index = 0
  /\ cursor = 0
  /\ latches = 0
  /\ saw_nand = FALSE
  /\ error = "none"
  /\ remaining = 0
  /\ yielded = <<>>

Reject(e) ==
  /\ pc' = "rejected"
  /\ error' = e
  /\ UNCHANGED <<file, cursor, scan, iter>>

-----------------------------------------------------------------------------
(* parse_layout.                                                            *)

(* The checked additions and multiplications: u32 for the signals, usize    *)
(* for the lengths.                                                         *)
SignalsOverflow == 2 + file.input_count + file.gate_count > MAX_U32
TableOverflow == HEADER_LEN + 3 * file.output_count > USIZE_MAX
LengthOverflow == HEADER_LEN + body_offset(file) + file.body_len > USIZE_MAX

LayoutError ==
  IF file.header_bytes < HEADER_LEN THEN "TruncatedHeader"
  ELSE IF file.signature = "magic" THEN "BadMagic"
  ELSE IF file.signature = "version" THEN "UnsupportedVersion"
  ELSE IF file.signature = "flags" THEN "UnsupportedFlags"
  ELSE IF file.signature = "reserved" THEN "NonZeroReserved"
  ELSE IF SignalsOverflow THEN "SizeOverflow"
  ELSE IF 2 + file.input_count + file.gate_count - 1 > MAX_U24 THEN "SignalSpaceExhausted"
  ELSE IF TableOverflow THEN "SizeOverflow"
  ELSE IF Length(file) < HEADER_LEN + body_offset(file) THEN "TruncatedOutputTable"
  ELSE IF LengthOverflow THEN "SizeOverflow"
  ELSE IF Length(file) # HEADER_LEN + body_offset(file) + file.body_len THEN "LengthMismatch"
  ELSE "none"

ParseLayout ==
  /\ pc = "layout"
  /\ IF LayoutError = "none"
     THEN /\ pc' = "outputs"
          /\ UNCHANGED <<file, cursor, scan, error, iter>>
     ELSE Reject(LayoutError)

-----------------------------------------------------------------------------
(* validate_outputs.                                                        *)

SignalCount == 2 + file.input_count + file.gate_count

CheckOutput ==
  /\ pc = "outputs"
  /\ index < file.output_count
  /\ LET signal == output_signal(file, index)
     IN  IF signal = None THEN Reject("TruncatedOutputTable")
         ELSE IF signal >= SignalCount THEN Reject("InvalidOutput")
         ELSE /\ index' = index + 1
              /\ UNCHANGED <<file, pc, cursor, latches, saw_nand, error, iter>>

EndOutputs ==
  /\ pc = "outputs"
  /\ index = file.output_count
  /\ pc' = "gates"
  /\ index' = 0
  /\ UNCHANGED <<file, cursor, latches, saw_nand, error, iter>>

-----------------------------------------------------------------------------
(* validate_gates.                                                          *)

BodyLeft == Len(file.tail) - body_offset(file) - cursor
OpcodeHere == byte_at(file, body_offset(file) + cursor)
CurrentSignal == 2 + file.input_count + index

(* Slip: a NAND may read itself.                                            *)
NandErrorOffByOne ==
  IF BodyLeft < NAND_LEN THEN "TruncatedGate"
  ELSE IF \/ NandAt(file, cursor).a > CurrentSignal
          \/ NandAt(file, cursor).b > CurrentSignal THEN "InvalidNandReference"
  ELSE "none"

NandError ==
  IF BodyLeft < NAND_LEN THEN "TruncatedGate"
  ELSE IF \/ NandAt(file, cursor).a >= CurrentSignal
          \/ NandAt(file, cursor).b >= CurrentSignal THEN "InvalidNandReference"
  ELSE "none"

(* Slip: latch records are taken wherever they stand.                       *)
LatchErrorAnyOrder ==
  IF BodyLeft < LATCH_LEN THEN "TruncatedGate"
  ELSE IF LatchAt(file, cursor).d >= SignalCount THEN "InvalidLatchReference"
  ELSE "none"

LatchError ==
  IF saw_nand THEN "NonCanonicalLatchOrder"
  ELSE IF BodyLeft < LATCH_LEN THEN "TruncatedGate"
  ELSE IF LatchAt(file, cursor).d >= SignalCount THEN "InvalidLatchReference"
  ELSE "none"

CheckNand ==
  /\ pc = "gates"
  /\ index < file.gate_count
  /\ OpcodeHere = OP_NAND
  /\ IF NandError = "none"
     THEN /\ saw_nand' = TRUE
          /\ cursor' = cursor + NAND_LEN
          /\ index' = index + 1
          /\ UNCHANGED <<file, pc, latches, error, iter>>
     ELSE Reject(NandError)

CheckLatch ==
  /\ pc = "gates"
  /\ index < file.gate_count
  /\ OpcodeHere = OP_LATCH
  /\ IF LatchError = "none"
     THEN /\ latches' = latches + 1
          /\ cursor' = cursor + LATCH_LEN
          /\ index' = index + 1
          /\ UNCHANGED <<file, pc, saw_nand, error, iter>>
     ELSE Reject(LatchError)

(* Slip: the end of the body is not one of the cases of the opcode.         *)
CheckOtherNotEnd ==
  /\ pc = "gates"
  /\ index < file.gate_count
  /\ OpcodeHere \notin {OP_NAND, OP_LATCH, None}
  /\ Reject("UnknownOpcode")

CheckOther ==
  /\ pc = "gates"
  /\ index < file.gate_count
  /\ OpcodeHere \notin {OP_NAND, OP_LATCH}
  /\ Reject(IF OpcodeHere = None THEN "TruncatedGate" ELSE "UnknownOpcode")

(* The cursor must stand at the end of the body and the declared latches    *)
(* must be those seen; then parse returns the view, and gates() starts.     *)
EndGates ==
  /\ pc = "gates"
  /\ index = file.gate_count
  /\ IF BodyLeft # 0 THEN Reject("LengthMismatch")
     ELSE IF latches # file.latch_count THEN Reject("LatchCountMismatch")
     ELSE /\ pc' = "iterating"
          /\ cursor' = 0
          /\ remaining' = file.gate_count
          /\ UNCHANGED <<file, scan, error, yielded>>

-----------------------------------------------------------------------------
(* GateIter::next.                                                          *)

(* Slip: the last record of the body is taken for a truncated one.          *)
HasItemButLast ==
  /\ remaining # 0
  /\ \/ OpcodeHere = OP_NAND /\ BodyLeft > NAND_LEN
     \/ OpcodeHere = OP_LATCH /\ BodyLeft > LATCH_LEN

(* next returns a gate here rather than None, and the gate.                 *)
HasItem ==
  /\ remaining # 0
  /\ \/ OpcodeHere = OP_NAND /\ BodyLeft >= NAND_LEN
     \/ OpcodeHere = OP_LATCH /\ BodyLeft >= LATCH_LEN

Item == IF OpcodeHere = OP_NAND THEN NandAt(file, cursor) ELSE LatchAt(file, cursor)

NextGate ==
  /\ pc = "iterating"
  /\ HasItem
  /\ yielded' = Append(yielded, Item)
  /\ cursor' = cursor + (IF OpcodeHere = OP_NAND THEN NAND_LEN ELSE LATCH_LEN)
  /\ remaining' = remaining - 1
  /\ UNCHANGED <<file, pc, scan, error>>

EndIter ==
  /\ pc = "iterating"
  /\ ~HasItem
  /\ pc' = "done"
  /\ UNCHANGED <<file, cursor, scan, error, iter>>

Next == \/ ParseLayout
        \/ CheckOutput \/ EndOutputs
        \/ CheckNand \/ CheckLatch \/ CheckOther \/ EndGates
        \/ NextGate \/ EndIter

(* One call on its own thread.                                              *)
Spec == Init /\ [][Next]_vars /\ WF_vars(Next)

-----------------------------------------------------------------------------
(* Properties.                                                              *)

Errors == {"TruncatedHeader", "BadMagic", "UnsupportedVersion", "UnsupportedFlags",
           "NonZeroReserved", "SizeOverflow", "SignalSpaceExhausted", "LengthMismatch",
           "TruncatedOutputTable", "InvalidOutput", "UnknownOpcode", "TruncatedGate",
           "InvalidNandReference", "InvalidLatchReference", "NonCanonicalLatchOrder",
           "LatchCountMismatch"}

(* Every variable keeps its type, and no read runs past the slice: the      *)
(* cursor of either pass never leaves the body (lines 310 and 369).         *)
TypeOK ==
  /\ file \in File
  /\ pc \in {"layout", "outputs", "gates", "iterating", "done", "rejected"}
  /\ index \in Nat
  /\ cursor \in Nat
  /\ latches \in 0 .. MAX_U32
  /\ saw_nand \in BOOLEAN
  /\ error \in Errors \cup {"none"}
  /\ remaining \in Nat
  /\ yielded \in Seq(Gate)
  /\ pc \in {"gates", "iterating"} => BodyLeft >= 0

(* The view as its users see it: header, output table, and what iterating   *)
(* gives.                                                                   *)
View ==
  [input_count |-> file.input_count,
   latch_count |-> file.latch_count,
   outputs |-> [k \in 1 .. file.output_count |-> output_signal(file, k - 1)],
   gates |-> yielded]

(* parse accepts a slice exactly when it is, byte for byte, the encoding of *)
(* a valid circuit.  parse finds the records by scanning opcodes and looks  *)
(* at the declared latch count last; the format places every record from    *)
(* that count.                                                              *)
AcceptsExactly ==
  /\ pc \in {"iterating", "done"} => WellFormed(file)
  /\ pc = "rejected" => ~WellFormed(file)

(* The unchecked second pass agrees with the checked first one: the         *)
(* iterator gives every gate it promised (its ExactSizeIterator contract),  *)
(* none was misread, and the view is a valid circuit, which is what         *)
(* CircuitView::step indexes its buffers by.                                *)
ViewIsValid ==
  pc = "done" => /\ remaining = 0
                 /\ View = Reading(file)
                 /\ Valid(View)

(* parse returns, and the iterator runs dry, on every slice, however large  *)
(* the counts its header claims.                                            *)
ParseEnds == <>(pc \in {"done", "rejected"})

(* The inductive invariant: what either pass knows of the part it has read. *)
LayoutChecked ==
  /\ file.header_bytes = HEADER_LEN
  /\ file.signature = "ok"
  /\ 2 + file.input_count + file.gate_count - 1 <= MAX_U24
  /\ Len(file.tail) = body_offset(file) + file.body_len

OutputsChecked(n) ==
  \A k \in 0 .. n - 1 : output_signal(file, k) \in 0 .. SignalCount - 1

(* Record i, in a body that starts with ls latch records.                   *)
RecordChecked(ls, i) ==
  LET at == RecordOffset(ls, i)
      op == byte_at(file, body_offset(file) + at)
  IN  IF i < ls
      THEN op = OP_LATCH /\ LatchAt(file, at).d \in 0 .. SignalCount - 1
      ELSE /\ op = OP_NAND
           /\ NandAt(file, at).a \in 0 .. 2 + file.input_count + i - 1
           /\ NandAt(file, at).b \in 0 .. 2 + file.input_count + i - 1

BeforeGates ==
  pc \in {"layout", "outputs"} => cursor = 0 /\ latches = 0 /\ ~saw_nand

OutputsInv ==
  pc = "outputs" => /\ LayoutChecked
                    /\ index <= file.output_count
                    /\ OutputsChecked(index)

GatesInv ==
  pc = "gates" => /\ LayoutChecked
                  /\ OutputsChecked(file.output_count)
                  /\ index <= file.gate_count
                  /\ latches <= index
                  /\ saw_nand <=> latches # index
                  /\ cursor = RecordOffset(latches, index)
                  /\ \A i \in 0 .. index - 1 : RecordChecked(latches, i)

IterInv ==
  pc \in {"iterating", "done"} =>
    /\ remaining + Len(yielded) = file.gate_count
    /\ cursor = RecordOffset(file.latch_count, Len(yielded))
    /\ \A i \in 0 .. Len(yielded) - 1 : yielded[i + 1] = GateOf(file, i)
    /\ pc = "done" => remaining = 0

Inv ==
  /\ TypeOK
  /\ pc = "layout" => index = 0
  /\ pc \notin {"iterating", "done"} => yielded = <<>>
  /\ BeforeGates /\ OutputsInv /\ GatesInv /\ IterInv
  /\ AcceptsExactly

=============================================================================
