---------------------------- MODULE EncoderProofs ---------------------------
(***************************************************************************)
(* Proofs about encode_netlist, for every base of the digits, every machine *)
(* word and every netlist: what it returns reads back as the netlist, and   *)
(* it refuses exactly the netlists that have no encoding.                   *)
(***************************************************************************)
EXTENDS Encoder, NetlistRulesProofs

-----------------------------------------------------------------------------
(* The inductive invariant.                                                 *)

Firsts == Denoted(netlist).latch_count

InCounts == index = 0 /\ latch_count = 0 /\ saw_nand = FALSE /\ body_len = 0 /\ bytes = Nothing

(* The first gates are fine, and have been counted and measured.            *)
InCheck ==
  /\ CountsError(netlist) = "none"
  /\ index \in 0 .. GateCount
  /\ saw_nand = SawNand(netlist, index)
  /\ latch_count = Count(netlist.gates, index)
  /\ body_len = Body(netlist.gates, index)
  /\ \A i \in 0 .. index - 1 : GateError(netlist, i, SawNand(netlist, i)) = "none"
  /\ bytes = Nothing

Headed == Encodable(netlist) /\ HeaderOf(netlist, bytes)

InOutputs ==
  /\ index \in 0 .. OutputCount
  /\ Len(bytes.tail) = 3 * index
  /\ Table(netlist, bytes, index)

InGates ==
  /\ index \in 0 .. GateCount
  /\ Len(bytes.tail) = 3 * OutputCount + RecordOffset(Firsts, index)
  /\ Table(netlist, bytes, OutputCount)
  /\ Records(netlist, bytes, index)

Inv ==
  /\ TypeOK
  /\ pc = "counts" => InCounts
  /\ pc = "check" => InCheck
  /\ pc \in {"outputs", "gates", "done"} => Headed
  /\ pc = "outputs" => InOutputs
  /\ pc = "gates" => InGates
  /\ pc = "done" => WellFormed(bytes) /\ Reading(bytes) = Denoted(netlist)
  /\ pc = "failed" => ~Encodable(netlist)
  /\ error # "EncodedNetlistInvalid"

LEMMA NothingIsFile == Nothing \in File
<1>1. 0 \in 0 .. MAX_U32 /\ 0 \in 0 .. HEADER_LEN /\ USIZE_MAX \in Nat
  BY MaxU32IsNat, LimitsAssumption DEF HEADER_LEN
<1>2. <<>> \in Seq(0 .. Base - 1) /\ Len(<<>>) = 0
  OBVIOUS
<1> QED
  BY <1>1, <1>2 DEF Nothing, File, Signature

LEMMA InitInv == Init => Inv
<1> SUFFICES ASSUME Init PROVE Inv
  OBVIOUS
<1>1. netlist \in Netlist
  BY NetlistsAssumption DEF Init
<1>2. 0 \in Nat /\ 0 \in 0 .. USIZE_MAX
  BY LimitsAssumption
<1>3. TypeOK
  BY <1>1, <1>2, NothingIsFile DEF Init, TypeOK
<1> QED
  BY <1>3 DEF Init, Inv, InCounts

LEMMA FailInv ==
  ASSUME Inv, NEW e \in Errors, Fail(e), e # "EncodedNetlistInvalid", ~Encodable(netlist)
  PROVE  Inv'
<1>1. TypeOK'
  BY DEF Inv, TypeOK, Fail, checked
<1> QED
  BY <1>1 DEF Inv, Fail

LEMMA CheckCountsInv == Inv /\ CheckCounts => Inv'
<1> SUFFICES ASSUME Inv, CheckCounts PROVE Inv'
  OBVIOUS
<1>1. netlist \in Netlist /\ pc = "counts" /\ InCounts
  BY DEF Inv, TypeOK, CheckCounts
<1>2. CASE CountsError(netlist) = "none"
  <2>1. /\ pc' = "check"
        /\ UNCHANGED <<netlist, index, latch_count, saw_nand, body_len, bytes, error>>
    BY <1>2 DEF CheckCounts, checked
  <2>2. TypeOK'
    BY <2>1 DEF Inv, TypeOK
  <2>3. Len(netlist.gates) \in Nat
    BY <1>1, NetlistFields
  <2>4. InCheck
    <3>1. 0 \in 0 .. Len(netlist.gates) /\ \A i \in 0 .. 0 - 1 : FALSE
      BY <2>3
    <3>2. SawNand(netlist, 0) = FALSE
      BY DEF SawNand
    <3>3. Count(netlist.gates, 0) = 0 /\ Body(netlist.gates, 0) = 0
      BY CountStart DEF Body, LATCH_LEN, NAND_LEN
    <3> QED
      BY <1>1, <1>2, <3>1, <3>2, <3>3 DEF InCheck, InCounts, GateCount
  <2> QED
    BY <2>1, <2>2, <2>4 DEF Inv, InCheck, GateCount
<1>3. CASE CountsError(netlist) # "none"
  <2>1. Fail(CountsError(netlist))
    BY <1>3 DEF CheckCounts
  <2>2. CountsError(netlist) \in Errors /\ CountsError(netlist) # "EncodedNetlistInvalid"
    BY <1>3 DEF CountsError, Errors
  <2>3. ~Encodable(netlist)
    BY <1>1, <1>3, NotFitting
  <2> QED
    BY <2>1, <2>2, <2>3, FailInv
<1> QED
  BY <1>2, <1>3

-----------------------------------------------------------------------------
(* The loop over the gates.                                                 *)

LEMMA SawStep ==
  ASSUME NEW n \in Netlist, NEW k \in 0 .. Len(n.gates) - 1
  PROVE  SawNand(n, k + 1) = (SawNand(n, k) \/ n.gates[k + 1].op = "nand")
<1>1. \A i : i \in 1 .. k + 1 <=> i \in 1 .. k \/ i = k + 1
  BY NetlistFields
<1> QED
  BY <1>1 DEF SawNand

LEMMA AtGate ==
  ASSUME Inv, pc = "check", index < GateCount
  PROVE  /\ netlist \in Netlist /\ InCheck
         /\ index \in 0 .. Len(netlist.gates) - 1
         /\ index \in Nat /\ Len(netlist.gates) \in Nat
         /\ gate = netlist.gates[index + 1] /\ gate \in NetlistGate
         /\ error_here = GateError(netlist, index, SawNand(netlist, index))
<1>1. netlist \in Netlist /\ InCheck
  BY DEF Inv, TypeOK
<1>2. Len(netlist.gates) \in Nat /\ \A i \in 1 .. Len(netlist.gates) : netlist.gates[i] \in NetlistGate
  BY <1>1, NetlistFields
<1>3. index \in 0 .. Len(netlist.gates) /\ index < Len(netlist.gates)
  BY <1>1 DEF InCheck, GateCount
<1>4. index \in 0 .. Len(netlist.gates) - 1 /\ index + 1 \in 1 .. Len(netlist.gates) /\ index \in Nat
  BY <1>2, <1>3
<1>5. gate = netlist.gates[index + 1] /\ gate \in NetlistGate
  BY <1>2, <1>4 DEF gate
<1>6. error_here = GateError(netlist, index, SawNand(netlist, index))
  BY <1>1 DEF InCheck, error_here
<1> QED
  BY <1>1, <1>2, <1>4, <1>5, <1>6

LEMMA CheckGateInv == Inv /\ CheckGate => Inv'
<1> SUFFICES ASSUME Inv, CheckGate PROVE Inv'
  OBVIOUS
<1>1. /\ pc = "check" /\ index < GateCount
      /\ netlist \in Netlist /\ InCheck
      /\ index \in 0 .. Len(netlist.gates) - 1
      /\ index \in Nat /\ Len(netlist.gates) \in Nat
      /\ gate = netlist.gates[index + 1] /\ gate \in NetlistGate
      /\ error_here = GateError(netlist, index, SawNand(netlist, index))
  BY AtGate DEF CheckGate
<1>2. /\ body_len = Body(netlist.gates, index)
      /\ Body(netlist.gates, index + 1) = Body(netlist.gates, index) + RecordLen(gate)
      /\ Body(netlist.gates, index) \in Nat /\ RecordLen(gate) \in Nat
      /\ Body(netlist.gates, index) + RecordLen(gate) <= BodyLen(netlist)
  BY <1>1, BodyStep DEF InCheck
<1>3. CASE error_here # "none"
  <2>1. Fail(error_here)
    BY <1>3 DEF CheckGate
  <2>2. error_here \in Errors /\ error_here # "EncodedNetlistInvalid"
    BY <1>3 DEF error_here, GateError, Errors
  <2>3. BadGates(netlist) # {}
    BY <1>1, <1>3 DEF BadGates
  <2>4. ~Encodable(netlist)
    BY <1>1, <2>3, NotFitting
  <2> QED
    BY <2>1, <2>2, <2>4, FailInv
<1>4. CASE error_here = "none" /\ body_len + RecordLen(gate) > USIZE_MAX
  <2>1. Fail("BodyTooLarge")
    BY <1>4 DEF CheckGate
  <2>2. "BodyTooLarge" \in Errors /\ "BodyTooLarge" # "EncodedNetlistInvalid"
    BY DEF Errors
  <2>3. BodyLen(netlist) \in Nat
    <3>1. Denoted(netlist).latch_count \in 0 .. Len(netlist.gates)
      BY <1>1, DenotedFields
    <3> QED
      BY <1>1, <3>1, WholeOffset DEF BodyLen
  <2>4. BodyLen(netlist) > MAX_U32
    <3>1. ASSUME NEW x \in Nat, NEW y \in Nat, NEW u \in Nat, NEW m \in Nat,
                 x > u, u >= m, x <= y
          PROVE  y > m
      BY <3>1
    <3> QED
      BY <1>2, <1>4, <2>3, <3>1, MaxU32IsNat, LimitsAssumption
  <2>5. ~Encodable(netlist)
    BY <1>1, <2>4, NotFitting DEF TooLarge
  <2> QED
    BY <2>1, <2>2, <2>5, FailInv
<1>5. CASE error_here = "none" /\ ~(body_len + RecordLen(gate) > USIZE_MAX)
  <2>1. /\ saw_nand' = (saw_nand \/ gate.op = "nand")
        /\ latch_count' = IF gate.op = "latch" THEN latch_count + 1 ELSE latch_count
        /\ body_len' = body_len + RecordLen(gate)
        /\ index' = index + 1
        /\ UNCHANGED <<netlist, pc, bytes, error>>
    BY <1>5 DEF CheckGate, sees_nand
  <2>2. TypeOK'
    <3>1. body_len' \in 0 .. USIZE_MAX
      BY <1>2, <1>5, <2>1, LimitsAssumption
    <3>2. latch_count \in Nat /\ index \in Nat /\ saw_nand \in BOOLEAN
      BY DEF Inv, TypeOK
    <3>3. latch_count' \in Nat /\ index' \in Nat /\ saw_nand' \in BOOLEAN
      BY <2>1, <3>2
    <3> QED
      BY <2>1, <3>1, <3>3 DEF Inv, TypeOK
  <2>3. index' \in 0 .. Len(netlist.gates)
    BY <1>1, <2>1
  <2>4. saw_nand' = SawNand(netlist, index')
    BY <1>1, <2>1, SawStep DEF InCheck
  <2>5. latch_count' = Count(netlist.gates, index')
    BY <1>1, <2>1, CountStep, NetlistFields DEF InCheck
  <2>6. body_len' = Body(netlist.gates, index')
    BY <1>2, <2>1
  <2>7. \A i \in 0 .. index' - 1 : GateError(netlist, i, SawNand(netlist, i)) = "none"
    <3>1. \A i \in 0 .. index' - 1 : i \in 0 .. index - 1 \/ i = index
      BY <1>1, <2>1
    <3> QED
      BY <1>1, <1>5, <3>1 DEF InCheck
  <2>8. InCheck'
    BY <1>1, <2>1, <2>3, <2>4, <2>5, <2>6, <2>7 DEF InCheck, GateCount
  <2> QED
    BY <1>1, <2>1, <2>2, <2>8 DEF Inv
<1> QED
  BY <1>3, <1>4, <1>5

LEMMA WriteHeaderInv == Inv /\ WriteHeader => Inv'
<1> SUFFICES ASSUME Inv, WriteHeader PROVE Inv'
  OBVIOUS
<1>1. pc = "check" /\ index = Len(netlist.gates) /\ netlist \in Netlist /\ InCheck
  BY DEF WriteHeader, GateCount, Inv, TypeOK
<1>2. /\ latch_count = Firsts /\ body_len = BodyLen(netlist)
  BY <1>1, CountAll DEF InCheck, Firsts
<1>3. CASE TooLarge(netlist, body_len)
  <2>1. Fail("BodyTooLarge")
    BY <1>3 DEF WriteHeader
  <2>2. "BodyTooLarge" \in Errors /\ "BodyTooLarge" # "EncodedNetlistInvalid"
    BY DEF Errors
  <2>3. ~Encodable(netlist)
    BY <1>1, <1>2, <1>3, NotFitting
  <2> QED
    BY <2>1, <2>2, <2>3, FailInv
<1>4. CASE ~TooLarge(netlist, body_len)
  <2>1. /\ bytes' = [header_bytes |-> HEADER_LEN, signature |-> "ok",
                     input_count |-> netlist.input_count, output_count |-> OutputCount,
                     gate_count |-> GateCount, latch_count |-> latch_count,
                     body_len |-> body_len, tail |-> <<>>]
        /\ pc' = "outputs" /\ index' = 0
        /\ UNCHANGED <<netlist, latch_count, saw_nand, body_len, error>>
    BY <1>4 DEF WriteHeader, checked
  <2>2. BadGates(netlist) = {}
    BY <1>1 DEF BadGates, InCheck
  <2>3. Encodable(netlist)
    BY <1>1, <1>2, <1>4, <2>2, NotFitting DEF InCheck
  <2>4. /\ Firsts \in 0 .. Len(netlist.gates)
        /\ HEADER_LEN + 3 * Len(netlist.outputs) + BodyLen(netlist) <= USIZE_MAX
        /\ Len(netlist.outputs) <= MAX_U32 /\ Len(netlist.gates) <= MAX_U32
        /\ BodyLen(netlist) \in 0 .. MAX_U32
    BY <1>1, <2>3, Fits DEF Firsts
  <2>5. /\ Len(netlist.outputs) \in Nat /\ Len(netlist.gates) \in Nat
        /\ netlist.input_count \in 0 .. MAX_U32 /\ MAX_U32 \in Nat
    BY <1>1, NetlistFields, MaxU32IsNat DEF Netlist
  <2>6. /\ Len(netlist.outputs) \in 0 .. MAX_U32 /\ Len(netlist.gates) \in 0 .. MAX_U32
        /\ Firsts \in 0 .. MAX_U32 /\ HEADER_LEN \in 0 .. HEADER_LEN
        /\ HEADER_LEN + 0 <= USIZE_MAX
    BY <2>4, <2>5, LimitsAssumption DEF HEADER_LEN
  <2>7. <<>> \in Seq(0 .. Base - 1) /\ Len(<<>>) = 0
    OBVIOUS
  <2>8. bytes' \in File
    <3>1. /\ bytes'.header_bytes = HEADER_LEN /\ bytes'.tail = <<>>
          /\ bytes' \in [header_bytes : 0 .. HEADER_LEN, signature : Signature,
                         input_count : 0 .. MAX_U32, output_count : 0 .. MAX_U32,
                         gate_count : 0 .. MAX_U32, latch_count : 0 .. MAX_U32,
                         body_len : 0 .. MAX_U32, tail : Seq(0 .. Base - 1)]
      BY <1>2, <2>1, <2>4, <2>5, <2>6, <2>7 DEF Signature, OutputCount, GateCount
    <3> QED
      BY <2>6, <2>7, <3>1 DEF File
  <2>9. TypeOK'
    BY <2>1, <2>8 DEF Inv, TypeOK
  <2>10. Headed'
    BY <1>2, <2>1, <2>3 DEF Headed, HeaderOf, OutputCount, GateCount, Firsts
  <2>11. InOutputs'
    <3>1. 0 \in 0 .. Len(netlist.outputs) /\ \A j \in 0 .. 0 - 1 : FALSE
      BY <2>5
    <3> QED
      BY <2>1, <2>7, <3>1 DEF InOutputs, OutputCount, Table
  <2> QED
    BY <2>1, <2>9, <2>10, <2>11 DEF Inv
<1> QED
  BY <1>3, <1>4

-----------------------------------------------------------------------------
(* The loops that write.                                                    *)

(* The header stays.                                                        *)
LEMMA HeadedStays ==
  ASSUME Headed, UNCHANGED netlist,
         bytes'.header_bytes = bytes.header_bytes, bytes'.signature = bytes.signature,
         bytes'.input_count = bytes.input_count, bytes'.output_count = bytes.output_count,
         bytes'.gate_count = bytes.gate_count, bytes'.latch_count = bytes.latch_count,
         bytes'.body_len = bytes.body_len
  PROVE  Headed'
BY DEF Headed, HeaderOf, OutputCount, GateCount, Firsts

LEMMA PushOutputInv == Inv /\ PushOutput => Inv'
<1> SUFFICES ASSUME Inv, PushOutput PROVE Inv'
  OBVIOUS
<1> DEFINE s == netlist.outputs[index + 1]
           bs == u24_bytes(s)
           oc == Len(netlist.outputs)
<1>1. /\ pc = "outputs" /\ Headed /\ InOutputs /\ netlist \in Netlist /\ bytes \in File
      /\ Encodable(netlist) /\ bytes.header_bytes = HEADER_LEN
  BY DEF Inv, TypeOK, PushOutput, Headed, HeaderOf
<1>2. /\ index \in Nat /\ oc \in Nat /\ index < oc /\ Len(bytes.tail) = 3 * index
      /\ Table(netlist, bytes, index) /\ index + 1 \in 1 .. oc
  BY <1>1, NetlistFields DEF InOutputs, PushOutput, OutputCount
<1>3. s \in 0 .. MAX_U24
  BY <1>1, <1>2, Fits
<1>4. bs \in Seq(Digit) /\ Len(bs) = 3
  BY <1>3, U24Bytes
<1>5. /\ bytes' = Longer(bytes, bs) /\ index' = index + 1
      /\ UNCHANGED <<netlist, pc, latch_count, saw_nand, body_len, error>>
  BY DEF PushOutput, checked, Longer
<1>6. BodyLen(netlist) \in Nat /\ HEADER_LEN + 3 * oc + BodyLen(netlist) <= USIZE_MAX
  BY <1>1, Fits
<1> HIDE DEF bs, s, oc
<1>7. HEADER_LEN + Len(bytes.tail) + Len(bs) <= USIZE_MAX
  BY <1>2, <1>4, <1>6, LimitsAssumption DEF HEADER_LEN
<1>8. /\ bytes' \in File /\ Continues(bytes, bytes', bs)
      /\ bytes'.header_bytes = bytes.header_bytes /\ bytes'.signature = bytes.signature
      /\ bytes'.input_count = bytes.input_count /\ bytes'.output_count = bytes.output_count
      /\ bytes'.gate_count = bytes.gate_count /\ bytes'.latch_count = bytes.latch_count
      /\ bytes'.body_len = bytes.body_len
  BY <1>1, <1>4, <1>5, <1>7, Lengthened
<1>9. TypeOK'
  BY <1>2, <1>5, <1>8 DEF Inv, TypeOK
<1>10. Headed'
  BY <1>1, <1>5, <1>8, HeadedStays
<1>11. Len(bytes'.tail) = 3 * (index + 1) /\ Table(netlist, bytes', index + 1)
  <2>1. index \in 0 .. oc - 1
    BY <1>2
  <2> QED
    BY <1>1, <1>2, <1>8, <2>1, OutputWritten DEF bs, s, oc
<1>12. InOutputs'
  BY <1>2, <1>5, <1>11 DEF InOutputs, OutputCount, oc
<1> QED
  BY <1>1, <1>5, <1>9, <1>10, <1>12 DEF Inv

LEMMA EndOutputsInv == Inv /\ EndOutputs => Inv'
<1> SUFFICES ASSUME Inv, EndOutputs PROVE Inv'
  OBVIOUS
<1>1. /\ pc = "outputs" /\ Headed /\ InOutputs /\ netlist \in Netlist
      /\ index = Len(netlist.outputs)
      /\ pc' = "gates" /\ index' = 0
      /\ UNCHANGED <<netlist, latch_count, saw_nand, body_len, bytes, error>>
  BY DEF Inv, TypeOK, EndOutputs, OutputCount, checked
<1>2. TypeOK'
  BY <1>1 DEF Inv, TypeOK
<1>3. Headed'
  BY <1>1, HeadedStays
<1>4. Len(netlist.gates) \in Nat /\ Len(netlist.outputs) \in Nat /\ Firsts \in Nat
  BY <1>1, NetlistFields, DenotedFields DEF Firsts
<1>5. RecordOffset(Firsts, 0) = 0
  BY <1>4 DEF RecordOffset, LATCH_LEN
<1>6. InGates'
  <2>1. 0 \in 0 .. Len(netlist.gates) /\ \A j \in 0 .. 0 - 1 : FALSE
    BY <1>4
  <2>2. Len(bytes.tail) = 3 * Len(netlist.outputs) + 0
    BY <1>1, <1>4 DEF InOutputs
  <2> QED
    BY <1>1, <1>5, <2>1, <2>2 DEF InGates, InOutputs, Table, Records, GateCount, OutputCount, Firsts
<1> QED
  BY <1>1, <1>2, <1>3, <1>6 DEF Inv

LEMMA PushGateInv == Inv /\ PushGate => Inv'
<1> SUFFICES ASSUME Inv, PushGate PROVE Inv'
  OBVIOUS
<1> DEFINE bs == record_bytes(netlist.gates[index + 1])
           oc == Len(netlist.outputs)
           N == Len(netlist.gates)
           l == Denoted(netlist).latch_count
<1>1. /\ pc = "gates" /\ Headed /\ InGates /\ netlist \in Netlist /\ bytes \in File
      /\ Encodable(netlist) /\ bytes.header_bytes = HEADER_LEN
      /\ bytes.output_count = oc /\ bytes.latch_count = l
  BY DEF Inv, TypeOK, PushGate, Headed, HeaderOf
<1>2. oc \in Nat /\ N \in Nat /\ l \in Nat
  <2>1. l \in 0 .. N /\ N \in Nat /\ oc \in Nat
    BY <1>1, DenotedFields, NetlistFields
  <2> QED
    BY <2>1
<1>3. /\ index \in 0 .. N - 1 /\ index \in Nat /\ Len(bytes.tail) = At(oc, l, index)
      /\ Table(netlist, bytes, oc) /\ Records(netlist, bytes, index)
  BY <1>1, <1>2 DEF InGates, PushGate, OutputCount, GateCount, Firsts, At
<1>4. /\ bytes' = Longer(bytes, bs) /\ index' = index + 1
      /\ UNCHANGED <<netlist, pc, latch_count, saw_nand, body_len, error>>
  BY DEF PushGate, checked, Longer, gate
<1>5. /\ bs \in Seq(Digit) /\ Len(bs) \in Nat
      /\ RecordOffset(l, index + 1) = RecordOffset(l, index) + Len(bs)
      /\ RecordOffset(l, index) \in Nat /\ RecordOffset(l, index + 1) <= BodyLen(netlist)
  BY <1>1, <1>3, RecordBytes
<1>6. BodyLen(netlist) \in 0 .. MAX_U32 /\ HEADER_LEN + 3 * oc + BodyLen(netlist) <= USIZE_MAX
  BY <1>1, Fits
<1> HIDE DEF bs, oc, N, l
<1>7. HEADER_LEN + Len(bytes.tail) + Len(bs) <= USIZE_MAX
  BY <1>2, <1>3, <1>5, <1>6, MaxU32IsNat, LimitsAssumption DEF At, HEADER_LEN
<1>8. /\ bytes' \in File /\ Continues(bytes, bytes', bs)
      /\ bytes'.header_bytes = bytes.header_bytes /\ bytes'.signature = bytes.signature
      /\ bytes'.input_count = bytes.input_count /\ bytes'.output_count = bytes.output_count
      /\ bytes'.gate_count = bytes.gate_count /\ bytes'.latch_count = bytes.latch_count
      /\ bytes'.body_len = bytes.body_len
  BY <1>1, <1>4, <1>5, <1>7, Lengthened
<1>9. TypeOK'
  BY <1>3, <1>4, <1>8 DEF Inv, TypeOK
<1>10. Headed'
  BY <1>1, <1>4, <1>8, HeadedStays
<1>11. Laid(netlist, bytes, index)
  BY <1>1, <1>2, <1>3 DEF Laid, Located, oc, l
<1>12. Laid(netlist, bytes', index + 1)
  <2>1. index \in 0 .. Len(netlist.gates) - 1
    BY <1>3 DEF N
  <2>2. Continues(bytes, bytes', record_bytes(netlist.gates[index + 1]))
    BY <1>8 DEF bs
  <2> QED
    BY <1>1, <1>8, <1>11, <2>1, <2>2, GateWritten
<1>13. InGates'
  <2>1. index' \in 0 .. N
    BY <1>2, <1>3, <1>4
  <2> QED
    BY <1>4, <1>12, <2>1 DEF Laid, InGates, OutputCount, GateCount, Firsts, At, oc, N, l
<1> QED
  BY <1>1, <1>4, <1>9, <1>10, <1>13 DEF Inv

-----------------------------------------------------------------------------
(* The parse at the end has nothing to refuse.                              *)

LEMMA ParseInv == Inv /\ Parse => Inv'
<1> SUFFICES ASSUME Inv, Parse PROVE Inv'
  OBVIOUS
<1>1. /\ pc = "gates" /\ index = GateCount /\ netlist \in Netlist /\ bytes \in File
      /\ Headed /\ InGates
  BY DEF Inv, TypeOK, Parse
<1>2. WellFormed(bytes) /\ Reading(bytes) = Denoted(netlist)
  BY <1>1, WholeFile DEF Headed, InGates, OutputCount, GateCount, Firsts
<1>3. pc' = "done" /\ UNCHANGED <<netlist, index, latch_count, saw_nand, body_len, bytes, error>>
  BY <1>2 DEF Parse, checked
<1>4. TypeOK'
  BY <1>3 DEF Inv, TypeOK
<1>5. Headed'
  BY <1>1, <1>3, HeadedStays
<1> QED
  BY <1>2, <1>3, <1>4, <1>5 DEF Inv

-----------------------------------------------------------------------------
LEMMA StutterInv == Inv /\ UNCHANGED vars => Inv'
<1> SUFFICES ASSUME Inv, UNCHANGED vars PROVE Inv'
  OBVIOUS
<1>1. UNCHANGED <<netlist, pc, index, latch_count, saw_nand, body_len, bytes, error>>
  BY DEF vars
<1>2. TypeOK'
  BY <1>1 DEF Inv, TypeOK
<1>3. (Headed => Headed') /\ (InCounts => InCounts') /\ (InCheck => InCheck')
      /\ (InOutputs => InOutputs') /\ (InGates => InGates')
  BY <1>1 DEF Headed, InCounts, InCheck, InOutputs, InGates, OutputCount, GateCount, Firsts
<1> QED
  BY <1>1, <1>2, <1>3 DEF Inv

(* The state is one that the loops reach: what is checked is fine, what is  *)
(* written reads back (lines 246 to 361).                                   *)
THEOREM Invariant == Spec => []Inv
<1>1. Inv /\ [Next]_vars => Inv'
  BY CheckCountsInv, CheckGateInv, WriteHeaderInv, PushOutputInv, EndOutputsInv,
     PushGateInv, ParseInv, StutterInv DEF Next
<1> QED
  BY InitInv, <1>1, PTL DEF Spec

(* Every variable keeps its type.                                           *)
THEOREM TypeCorrect == Spec => []TypeOK
<1>1. Inv => TypeOK
  BY DEF Inv
<1> QED
  BY <1>1, Invariant, PTL

(* The bytes returned decode to the netlist, for every netlist and every    *)
(* number of values of a byte: no field truncates a signal (line 336).      *)
THEOREM RoundTrips == Spec => []RoundTrip
<1>1. Inv => RoundTrip
  BY DEF Inv, RoundTrip
<1> QED
  BY <1>1, Invariant, PTL

(* What is refused has no encoding, what has one is not refused, and the    *)
(* parse of its own bytes never is what refuses (line 354).                 *)
THEOREM RefusalsAreExact == Spec => []RefusesExactly
<1>1. Inv => RefusesExactly
  BY DEF Inv, RefusesExactly, Headed
<1> QED
  BY <1>1, Invariant, PTL

-----------------------------------------------------------------------------
(* The loops against the rules as functions of the netlist.  Whether the    *)
(* sum of the lengths overflows before the gate that is wrong is looked at  *)
(* depends on the machine word: where it holds the longest body that the    *)
(* signal space allows, it never does.                                      *)

Room == NAND_LEN * MAX_U24 <= USIZE_MAX

OutputsSoFar(k) == UpTo(OutputParts(netlist), k)
GatesSoFar(k) == UpTo(GateParts(netlist), k)

Follows ==
  /\ pc # "failed" => error = "none"
  /\ pc = "failed" => error = EncodeError(netlist)
  /\ pc = "outputs" => bytes = Written(netlist, OutputsSoFar(index))
  /\ pc = "gates" => bytes = Written(netlist, OutputsSoFar(OutputCount) \o GatesSoFar(index))
  /\ pc = "done" => bytes = Encoded(netlist)

LEMMA InitFollows == Init => Follows
BY DEF Init, Follows

LEMMA FailFollows ==
  ASSUME NEW e, Fail(e), e = EncodeError(netlist)
  PROVE  Follows'
BY DEF Fail, Follows

LEMMA CheckCountsFollows == Follows /\ CheckCounts => Follows'
<1> SUFFICES ASSUME Follows, CheckCounts PROVE Follows'
  OBVIOUS
<1>1. CASE CountsError(netlist) = "none"
  <2>1. pc = "counts" /\ pc' = "check" /\ error' = error
    BY <1>1 DEF CheckCounts
  <2> QED
    BY <2>1 DEF Follows
<1>2. CASE CountsError(netlist) # "none"
  <2>1. Fail(CountsError(netlist))
    BY <1>2 DEF CheckCounts
  <2>2. CountsError(netlist) = EncodeError(netlist)
    BY <1>2 DEF EncodeError
  <2> QED
    BY <2>1, <2>2, FailFollows
<1> QED
  BY <1>1, <1>2

(* The gate the loop fails at is the first of the bad ones.                 *)
LEMMA FirstOfTheBad ==
  ASSUME Inv, pc = "check", index < GateCount, error_here # "none"
  PROVE  error_here = EncodeError(netlist)
<1> DEFINE B == BadGates(netlist)
           first == CHOOSE i \in B : \A j \in B : i <= j
<1>1. /\ InCheck /\ index \in 0 .. Len(netlist.gates) - 1 /\ index \in Nat
      /\ error_here = GateError(netlist, index, SawNand(netlist, index))
  BY AtGate
<1>2. index \in B
  BY <1>1 DEF BadGates
<1>3. ASSUME NEW j \in B PROVE index <= j
  <2>1. j \in Nat /\ GateError(netlist, j, SawNand(netlist, j)) # "none"
    BY DEF BadGates
  <2>2. j \notin 0 .. index - 1
    BY <1>1, <2>1 DEF InCheck
  <2> QED
    BY <1>1, <2>1, <2>2
<1>4. B \in SUBSET Nat
  BY DEF BadGates
<1>5. first \in B /\ \A j \in B : first <= j
  <2> HIDE DEF B
  <2> QED
    BY <1>2, <1>3
<1> HIDE DEF first
<1>6. first = index
  <2>1. first \in Nat /\ first <= index /\ index <= first
    BY <1>2, <1>3, <1>4, <1>5
  <2> QED
    BY <1>1, <2>1
<1>7. CountsError(netlist) = "none" /\ B # {}
  BY <1>1, <1>2 DEF InCheck
<1>8. EncodeError(netlist) = GateError(netlist, first, SawNand(netlist, first))
  BY <1>7 DEF EncodeError, first
<1> QED
  BY <1>1, <1>6, <1>8

LEMMA SumHolds ==
  ASSUME Room, Inv, pc = "check", index < GateCount
  PROVE  body_len + RecordLen(gate) <= USIZE_MAX
<1>1. /\ netlist \in Netlist /\ InCheck
      /\ index \in 0 .. Len(netlist.gates) - 1 /\ Len(netlist.gates) \in Nat
  BY AtGate
<1>2. /\ body_len + RecordLen(gate) <= BodyLen(netlist)
  <2>1. gate = netlist.gates[index + 1]
    BY AtGate
  <2> QED
    BY <1>1, <2>1, BodyStep DEF InCheck
<1>3. /\ body_len \in Nat /\ RecordLen(gate) \in Nat
  BY LimitsAssumption DEF Inv, TypeOK, RecordLen, NAND_LEN, LATCH_LEN
<1>4. Denoted(netlist).latch_count \in 0 .. Len(netlist.gates)
  BY <1>1, DenotedFields
<1>5. netlist.input_count \in Nat /\ 2 + netlist.input_count + Len(netlist.gates) - 1 <= MAX_U24
  <2>1. netlist.input_count \in Nat
    BY <1>1, MaxU32IsNat DEF Netlist
  <2>2. ~(SignalCount(netlist) - 1 > MAX_U24)
    BY <1>1 DEF InCheck, CountsError
  <2> QED
    BY <1>1, <2>1, <2>2, MaxU32IsNat DEF SignalCount
<1>6. ASSUME NEW l \in Nat, NEW n \in Nat, l <= n, NEW in \in Nat, NEW m \in Nat,
             2 + in + n - 1 <= m
      PROVE  4 * l + 7 * (n - l) \in Nat /\ 4 * l + 7 * (n - l) <= 7 * m
  BY <1>6
<1>7. /\ BodyLen(netlist) \in Nat
      /\ BodyLen(netlist) <= NAND_LEN * MAX_U24
  <2> DEFINE l == Denoted(netlist).latch_count
             n == Len(netlist.gates)
  <2>1. BodyLen(netlist) = 4 * l + 7 * (n - l) /\ NAND_LEN * MAX_U24 = 7 * MAX_U24
    BY DEF BodyLen, NAND_LEN, LATCH_LEN
  <2>2. l \in Nat /\ n \in Nat /\ l <= n /\ MAX_U24 \in Nat
    BY <1>1, <1>4, MaxU32IsNat
  <2>3. 2 + netlist.input_count + n - 1 <= MAX_U24 /\ netlist.input_count \in Nat
    BY <1>5
  <2> HIDE DEF l, n
  <2>4. 4 * l + 7 * (n - l) \in Nat /\ 4 * l + 7 * (n - l) <= 7 * MAX_U24
    BY <1>6, <2>2, <2>3
  <2> QED
    BY <2>1, <2>4
<1>8. ASSUME NEW x \in Nat, NEW b \in Nat, NEW m \in Nat, NEW u \in Nat, x <= b, b <= m, m <= u
      PROVE  x <= u
  BY <1>8
<1>9. NAND_LEN * MAX_U24 \in Nat /\ body_len + RecordLen(gate) \in Nat
  BY <1>3, MaxU32IsNat DEF NAND_LEN
<1> QED
  BY <1>2, <1>7, <1>8, <1>9, LimitsAssumption DEF Room

LEMMA CheckGateFollows == Room /\ Inv /\ Follows /\ CheckGate => Follows'
<1> SUFFICES ASSUME Room, Inv, Follows, CheckGate PROVE Follows'
  OBVIOUS
<1>1. pc = "check" /\ index < GateCount
  BY DEF CheckGate
<1>2. CASE error_here # "none"
  <2>1. Fail(error_here)
    BY <1>2 DEF CheckGate
  <2> QED
    BY <1>1, <1>2, <2>1, FirstOfTheBad, FailFollows
<1>3. CASE error_here = "none"
  <2>1. body_len \in Nat /\ RecordLen(gate) \in Nat
    BY LimitsAssumption DEF Inv, TypeOK, RecordLen, NAND_LEN, LATCH_LEN
  <2>2. ~(body_len + RecordLen(gate) > USIZE_MAX)
    <3>1. body_len + RecordLen(gate) <= USIZE_MAX
      BY <1>1, SumHolds
    <3> QED
      BY <2>1, <3>1, LimitsAssumption
  <2>3. pc' = pc /\ error' = error
    BY <1>3, <2>2 DEF CheckGate
  <2> QED
    BY <1>1, <2>3 DEF Follows
<1> QED
  BY <1>2, <1>3

LEMMA WriteHeaderFollows == Inv /\ Follows /\ WriteHeader => Follows'
<1> SUFFICES ASSUME Inv, Follows, WriteHeader PROVE Follows'
  OBVIOUS
<1>1. pc = "check" /\ index = Len(netlist.gates) /\ netlist \in Netlist /\ InCheck
  BY DEF WriteHeader, GateCount, Inv, TypeOK
<1>2. latch_count = Firsts /\ body_len = BodyLen(netlist)
  BY <1>1, CountAll DEF InCheck, Firsts
<1>3. CASE TooLarge(netlist, body_len)
  <2>1. Fail("BodyTooLarge")
    BY <1>3 DEF WriteHeader
  <2>2. BadGates(netlist) = {}
    BY <1>1 DEF BadGates, InCheck
  <2>3. EncodeError(netlist) = "BodyTooLarge"
    BY <1>1, <1>2, <1>3, <2>2 DEF EncodeError, InCheck
  <2> QED
    BY <2>1, <2>3, FailFollows
<1>4. CASE ~TooLarge(netlist, body_len)
  <2>1. /\ bytes' = [header_bytes |-> HEADER_LEN, signature |-> "ok",
                     input_count |-> netlist.input_count, output_count |-> OutputCount,
                     gate_count |-> GateCount, latch_count |-> latch_count,
                     body_len |-> body_len, tail |-> <<>>]
        /\ pc' = "outputs" /\ index' = 0 /\ netlist' = netlist /\ error' = error
    BY <1>4 DEF WriteHeader, checked
  <2>2. UpTo(OutputParts(netlist), 0) = <<>>
    BY <1>1, PartsOf, NetlistFields, UpToSteps
  <2>3. bytes' = Written(netlist, UpTo(OutputParts(netlist), 0))
    BY <1>2, <2>1, <2>2 DEF Written, OutputCount, GateCount, Firsts
  <2> QED
    BY <1>1, <2>1, <2>3 DEF Follows, OutputsSoFar
<1> QED
  BY <1>3, <1>4

LEMMA WrittenLonger ==
  ASSUME NEW n, NEW t, NEW b
  PROVE  Longer(Written(n, t), b) = Written(n, t \o b)
<1>1. ASSUME NEW u PROVE [Written(n, t) EXCEPT !.tail = u] = Written(n, u)
  BY DEF Written
<1>2. Written(n, t).tail = t
  BY DEF Written
<1> QED
  BY <1>1, <1>2, Zenon DEF Longer

LEMMA PartAppended ==
  ASSUME NEW parts, Len(parts) \in Nat, NEW k \in Nat, k + 1 \in 1 .. Len(parts)
  PROVE  UpTo(parts, k + 1) = UpTo(parts, k) \o parts[k + 1]
<1>1. \A i \in 1 .. Len(parts) : UpTo(parts, i) = UpTo(parts, i - 1) \o parts[i]
  BY UpToSteps
<1>2. ASSUME NEW i \in 1 .. Len(parts), i - 1 = k
      PROVE  UpTo(parts, i) = UpTo(parts, k) \o parts[i]
  BY <1>1, <1>2
<1>3. k + 1 - 1 = k
  OBVIOUS
<1> QED
  BY <1>2, <1>3

LEMMA PushOutputFollows == Inv /\ Follows /\ PushOutput => Follows'
<1> SUFFICES ASSUME Inv, Follows, PushOutput PROVE Follows'
  OBVIOUS
<1> DEFINE b == u24_bytes(netlist.outputs[index + 1])
<1>1. /\ pc = "outputs" /\ netlist \in Netlist /\ index + 1 \in 1 .. Len(netlist.outputs)
      /\ index \in Nat /\ Len(netlist.outputs) \in Nat
  BY NetlistFields DEF Inv, TypeOK, PushOutput, InOutputs, OutputCount
<1>2. /\ bytes' = Longer(bytes, b) /\ pc' = pc /\ index' = index + 1
      /\ netlist' = netlist /\ error' = error
  BY DEF PushOutput, Longer
<1>3. OutputsSoFar(index + 1) = OutputsSoFar(index) \o b
  <2>2. UpTo(OutputParts(netlist), index + 1)
          = UpTo(OutputParts(netlist), index) \o OutputParts(netlist)[index + 1]
    BY <1>1, PartsOf, PartAppended
  <2>3. OutputParts(netlist)[index + 1] = b
    BY <1>1, PartsOf
  <2> HIDE DEF b
  <2> QED
    BY <2>2, <2>3, Zenon DEF OutputsSoFar
<1> HIDE DEF b
<1>4. bytes = Written(netlist, OutputsSoFar(index))
  BY <1>1 DEF Follows
<1>5. bytes' = Written(netlist, OutputsSoFar(index + 1))
  <2>1. Longer(Written(netlist, OutputsSoFar(index)), b)
          = Written(netlist, OutputsSoFar(index) \o b)
    BY WrittenLonger
  <2>2. bytes' = Longer(bytes, b)
    BY <1>2
  <2> QED
    BY <1>3, <1>4, <2>1, <2>2
<1>6. bytes' = Written(netlist', UpTo(OutputParts(netlist'), index'))
  BY <1>2, <1>5 DEF OutputsSoFar
<1> QED
  BY <1>1, <1>2, <1>6 DEF Follows, OutputsSoFar

LEMMA EndOutputsFollows == Inv /\ Follows /\ EndOutputs => Follows'
<1> SUFFICES ASSUME Inv, Follows, EndOutputs PROVE Follows'
  OBVIOUS
<1>1. /\ pc = "outputs" /\ netlist \in Netlist /\ index = OutputCount
      /\ Encodable(netlist)
  BY DEF Inv, TypeOK, EndOutputs, Headed
<1>2. /\ pc' = "gates" /\ index' = 0 /\ netlist' = netlist /\ bytes' = bytes /\ error' = error
  BY DEF EndOutputs
<1>3. GatesSoFar(0) = <<>>
  BY <1>1, PartsOf, NetlistFields, UpToSteps DEF GatesSoFar
<1>4. OutputsSoFar(OutputCount) \in Seq(Digit)
  <2>1. Len(netlist.outputs) \in 0 .. Len(netlist.outputs)
    BY <1>1, NetlistFields
  <2> QED
    BY <1>1, <2>1, OutputsWritten DEF OutputsSoFar, OutputCount
<1>5. OutputsSoFar(OutputCount) \o GatesSoFar(0) = OutputsSoFar(OutputCount)
  BY <1>3, <1>4
<1>6. bytes' = Written(netlist, OutputsSoFar(OutputCount) \o GatesSoFar(0))
  BY <1>1, <1>2, <1>5 DEF Follows
<1>7. bytes' = Written(netlist', UpTo(OutputParts(netlist'), Len(netlist'.outputs))
                                   \o UpTo(GateParts(netlist'), index'))
  BY <1>2, <1>6 DEF OutputsSoFar, GatesSoFar, OutputCount
<1> QED
  BY <1>1, <1>2, <1>7 DEF Follows, OutputsSoFar, GatesSoFar, OutputCount

LEMMA PushGateFollows == Inv /\ Follows /\ PushGate => Follows'
<1> SUFFICES ASSUME Inv, Follows, PushGate PROVE Follows'
  OBVIOUS
<1> DEFINE b == record_bytes(netlist.gates[index + 1])
           o == OutputsSoFar(OutputCount)
           g == GatesSoFar(index)
<1>1. /\ pc = "gates" /\ netlist \in Netlist /\ Encodable(netlist)
      /\ index \in 0 .. Len(netlist.gates) - 1
      /\ index \in 0 .. Len(netlist.gates) /\ index + 1 \in 1 .. Len(netlist.gates)
      /\ index + 1 - 1 = index
  BY NetlistFields DEF Inv, TypeOK, Headed, PushGate, InGates, GateCount
<1>2. /\ bytes' = Longer(bytes, b) /\ pc' = pc /\ index' = index + 1
      /\ netlist' = netlist /\ error' = error
  BY DEF PushGate, Longer, gate
<1>3. GatesSoFar(index + 1) = g \o b
  <2>1. UpTo(GateParts(netlist), index + 1)
          = UpTo(GateParts(netlist), index) \o GateParts(netlist)[index + 1]
    <3> DEFINE parts == GateParts(netlist)
    <3>1. Len(parts) = Len(netlist.gates)
      BY <1>1, PartsOf
    <3>2. Len(parts) \in Nat /\ index \in Nat /\ index + 1 \in 1 .. Len(parts)
      BY <1>1, <3>1, NetlistFields
    <3> HIDE DEF parts
    <3>3. UpTo(parts, index + 1) = UpTo(parts, index) \o parts[index + 1]
      BY ONLY <3>2, PartAppended
    <3> QED
      BY <3>3, Zenon DEF parts
  <2>2. GateParts(netlist)[index + 1] = b
    BY <1>1, PartsOf
  <2> HIDE DEF b
  <2> QED
    BY <1>1, <2>1, <2>2, Zenon DEF GatesSoFar
<1>4. o \in Seq(Digit)
  <2>1. Len(netlist.outputs) \in 0 .. Len(netlist.outputs)
    BY <1>1, NetlistFields
  <2> QED
    BY <1>1, <2>1, OutputsWritten DEF OutputsSoFar, OutputCount
<1>5. g \in Seq(Digit)
  BY <1>1, GatesWritten DEF GatesSoFar
<1>6. b \in Seq(Digit)
  BY <1>1, RecordBytes
<1>7. bytes = Written(netlist, o \o g)
  BY <1>1 DEF Follows
<1>8. OutputsSoFar(OutputCount) = o
  OBVIOUS
<1> HIDE DEF b, o, g
<1>9. o \o (g \o b) = (o \o g) \o b
  BY ONLY <1>4, <1>5, <1>6, Regroup
<1>10. bytes' = Written(netlist, OutputsSoFar(OutputCount) \o GatesSoFar(index + 1))
  <2>1. Longer(Written(netlist, o \o g), b) = Written(netlist, (o \o g) \o b)
    BY WrittenLonger
  <2>2. bytes' = Longer(bytes, b)
    BY <1>2
  <2> QED
    BY <1>3, <1>7, <1>8, <1>9, <2>1, <2>2
<1>11. bytes' = Written(netlist', UpTo(OutputParts(netlist'), Len(netlist'.outputs))
                                    \o UpTo(GateParts(netlist'), index'))
  BY <1>2, <1>10 DEF OutputsSoFar, GatesSoFar, OutputCount
<1> QED
  BY <1>1, <1>2, <1>11 DEF Follows, OutputsSoFar, GatesSoFar, OutputCount

LEMMA ParseFollows == Inv /\ Follows /\ Parse => Follows'
<1> SUFFICES ASSUME Inv, Follows, Parse PROVE Follows'
  OBVIOUS
<1>1. /\ pc = "gates" /\ index = Len(netlist.gates) /\ netlist \in Netlist /\ bytes \in File
      /\ Headed /\ InGates
  BY DEF Inv, TypeOK, Parse, GateCount
<1>2. WellFormed(bytes)
  BY <1>1, WholeFile DEF Headed, InGates, OutputCount, GateCount, Firsts
<1>3. pc' = "done" /\ netlist' = netlist /\ bytes' = bytes /\ error' = error
  BY <1>2 DEF Parse
<1>4. bytes = Written(netlist, UpTo(OutputParts(netlist), Len(netlist.outputs))
                                 \o UpTo(GateParts(netlist), Len(netlist.gates)))
  BY <1>1 DEF Follows, OutputsSoFar, GatesSoFar, OutputCount
<1>5. bytes' = Encoded(netlist')
  BY <1>1, <1>3, <1>4, EncodedIsWritten
<1> QED
  BY <1>1, <1>3, <1>5 DEF Follows

LEMMA StutterFollows == Follows /\ UNCHANGED vars => Follows'
BY DEF vars, Follows, OutputsSoFar, GatesSoFar, OutputCount

(* The loops return what the rules say as functions of the netlist, which   *)
(* is how the callers are modelled: the first error in the order of the     *)
(* code, or the bytes (lines 246 to 361), where a usize holds the longest   *)
(* body that the signal space allows, as it does at 32 and at 64 bits.      *)
THEOREM CallsAreTheRules == Room => (Spec => []ReturnsAsTheRules)
<1>1. ASSUME Room PROVE Inv /\ Follows /\ [Next]_vars => Follows'
  BY <1>1, CheckCountsFollows, CheckGateFollows, WriteHeaderFollows, PushOutputFollows,
     EndOutputsFollows, PushGateFollows, ParseFollows, StutterFollows DEF Next
<1>2. Inv /\ Follows => ReturnsAsTheRules
  <2>1. Inv /\ pc = "done" => EncodeError(netlist) = "none"
    BY RulesAreExact DEF Inv, Headed, TypeOK
  <2> QED
    BY <2>1 DEF Follows, ReturnsAsTheRules
<1>3. ASSUME Room PROVE Spec => []ReturnsAsTheRules
  BY <1>1, <1>2, <1>3, InitFollows, Invariant, PTL DEF Spec
<1> QED
  BY <1>3

=============================================================================
