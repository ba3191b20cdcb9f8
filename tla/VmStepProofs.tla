---------------------------- MODULE VmStepProofs ----------------------------
(***************************************************************************)
(* Proofs about CircuitView::step, for every set of valid circuits, every   *)
(* byte size and every buffer: the types, the inductive invariant of the    *)
(* three loops, and that calls implement the synchronous machine.           *)
(***************************************************************************)
EXTENDS VmStep, TLAPS

(* bit_bytes(n) bytes hold the bits 0 .. n - 1, so the accesses of step to  *)
(* a buffer of the checked length never fall outside it.                    *)
LEMMA BitInBytes ==
  ASSUME NEW n \in Nat, NEW i \in 0 .. n - 1
  PROVE  i \div ByteBits < bit_bytes(n)
<1> DEFINE q == i \div ByteBits
           r == (n + ByteBits - 1) \div ByteBits
<1>1. ByteBits \in Nat /\ ByteBits > 0
  BY ByteBitsAssumption
<1>2. q \in Int /\ r \in Int
  BY <1>1
<1>3. ByteBits * q <= i
  BY <1>1
<1>4. n + ByteBits - 1 < ByteBits * r + ByteBits
  BY <1>1
<1>5. ByteBits * q < ByteBits * r
  <2>1. ByteBits * q \in Int /\ ByteBits * r \in Int
    BY <1>1, <1>2
  <2> QED
    BY <1>1, <1>3, <1>4, <2>1
<1>6. q < r
  BY <1>1, <1>2, <1>5
<1> QED
  BY <1>6 DEF bit_bytes

-----------------------------------------------------------------------------
(* What the validated view guarantees about a circuit and its gates.        *)
LEMMA ValidCircuit ==
  ASSUME NEW c, Valid(c)
  PROVE  /\ c.input_count \in Nat
         /\ c.latch_count \in Nat
         /\ Len(c.gates) \in Nat
         /\ Len(c.outputs) \in Nat
         /\ signal_count(c) \in Nat
         /\ c.latch_count <= Len(c.gates)
         /\ \A i \in 0 .. Len(c.gates) - 1 : c.gates[i + 1] \in Gate /\ ValidGate(c, i)
         /\ \A k \in 0 .. Len(c.outputs) - 1 : c.outputs[k + 1] \in Signals(c)
<1>1. c \in Circuit
  BY DEF Valid
<1>2. /\ c.input_count \in Nat
      /\ c.latch_count \in Nat
      /\ c.gates \in Seq(Gate)
      /\ c.outputs \in Seq(Nat)
  BY <1>1 DEF Circuit
<1>3. Len(c.gates) \in Nat /\ Len(c.outputs) \in Nat
  BY <1>2
<1>4. signal_count(c) \in Nat
  BY <1>2, <1>3 DEF signal_count
<1>5. \A i \in 0 .. Len(c.gates) - 1 : c.gates[i + 1] \in Gate /\ ValidGate(c, i)
  BY <1>2, <1>3 DEF Valid
<1>6. \A k \in 0 .. Len(c.outputs) - 1 : c.outputs[k + 1] \in Signals(c)
  BY <1>2, <1>3, <1>4 DEF Valid, ValidOutputs, Signals
<1> QED
  BY <1>2, <1>3, <1>4, <1>5, <1>6 DEF Valid

(* The signals a valid gate reads: a latch samples any signal, a NAND reads *)
(* only signals below its own.                                              *)
LEMMA GateReads ==
  ASSUME NEW c, Valid(c), NEW i \in 0 .. Len(c.gates) - 1
  PROVE  /\ GateSignal(c, i) \in Signals(c)
         /\ c.gates[i + 1].op = "latch" <=> i < c.latch_count
         /\ c.gates[i + 1].op = "latch" => c.gates[i + 1].d \in Signals(c)
         /\ c.gates[i + 1].op # "latch" =>
              /\ c.gates[i + 1].a \in 0 .. GateSignal(c, i) - 1
              /\ c.gates[i + 1].b \in 0 .. GateSignal(c, i) - 1
<1> DEFINE g == c.gates[i + 1]
<1>1. /\ c.input_count \in Nat /\ c.latch_count \in Nat /\ Len(c.gates) \in Nat
      /\ g \in Gate /\ ValidGate(c, i)
  BY ValidCircuit
<1>2. GateSignal(c, i) \in Signals(c)
  BY <1>1 DEF GateSignal, Signals, signal_count
<1>3. g.op = "latch" <=> i < c.latch_count
  BY <1>1 DEF ValidGate
<1>4. g.op = "latch" => g.d \in Nat
  BY <1>1 DEF Gate
<1>5. g.op # "latch" => g.a \in Nat /\ g.b \in Nat
  BY <1>1 DEF Gate
<1>6. g.op = "latch" => g.d \in Signals(c)
  BY <1>1, <1>4 DEF ValidGate, Signals, signal_count
<1>7. g.op # "latch" => /\ g.a \in 0 .. GateSignal(c, i) - 1
                        /\ g.b \in 0 .. GateSignal(c, i) - 1
  BY <1>1, <1>5 DEF ValidGate, GateSignal
<1> QED
  BY <1>2, <1>3, <1>6, <1>7

(* The buffers of a call that passed the checks of step.                    *)
LEMMA CheckedLengths ==
  ASSUME NEW in, LengthError(in) = "none"
  PROVE  /\ in.bytes = bit_bytes(circuit.input_count)
         /\ state.bytes = bit_bytes(circuit.latch_count)
         /\ next_state.bytes = bit_bytes(circuit.latch_count)
         /\ output.bytes = bit_bytes(Len(circuit.outputs))
         /\ ~(scratch.bytes < signal_count(circuit))
BY DEF LengthError, required_input_bytes, required_state_bytes,
       required_output_bytes, required_scratch_bytes

(* Writing a bit keeps a buffer a buffer of the same length, and inside the *)
(* buffer it changes that bit and no other.                                 *)
LEMMA GateSignalNat ==
  ASSUME NEW c, c.input_count \in Nat, NEW i \in Nat
  PROVE  GateSignal(c, i) \in Nat
BY DEF GateSignal

LEMMA WriteBit ==
  ASSUME NEW b \in Buffer, NEW i \in Nat, NEW value \in BOOLEAN
  PROVE  /\ write_bit(b, i, value) \in Buffer
         /\ write_bit(b, i, value).bytes = b.bytes
         /\ i \div ByteBits < b.bytes =>
              write_bit(b, i, value).ones = IF value THEN b.ones \cup {i} ELSE b.ones \ {i}
BY DEF write_bit, Buffer

LEMMA ZeroedBuffer ==
  ASSUME NEW b \in Buffer
  PROVE  Zeroed(b) \in Buffer /\ Zeroed(b).bytes = b.bytes /\ Zeroed(b).ones = {}
BY DEF Zeroed, Buffer

-----------------------------------------------------------------------------
(* No call ends half-way: all that the loops look up lies in scratch.       *)

LEMMA SignalsAreSlots ==
  ASSUME Inv, pc # "idle"
  PROVE  /\ Valid(circuit)
         /\ Signals(circuit) \subseteq Slots
<1>1. Valid(circuit)
  BY CircuitsAssumption DEF Inv, TypeOK
<1>2. signal_count(circuit) \in Nat
  BY <1>1, ValidCircuit
<1>3. scratch.bytes \in Nat
  BY DEF Inv, TypeOK, ScratchBuffer
<1>4. ~(scratch.bytes < signal_count(circuit))
  BY CheckedLengths DEF Inv, TypeOK
<1> QED
  BY <1>1, <1>2, <1>3, <1>4 DEF Signals, Slots

LEMMA GateIsEvaluated ==
  ASSUME Inv, EvalGate
  PROVE  GateEvaluated
<1> DEFINE g == circuit.gates[cursor + 1]
           signal == GateSignal(circuit, cursor)
<1>1. pc = "eval" /\ cursor < Len(circuit.gates) /\ cursor \in Nat
  BY DEF EvalGate, Inv, TypeOK
<1>2. Valid(circuit) /\ Signals(circuit) \subseteq Slots
  BY <1>1, SignalsAreSlots
<1>3. Len(circuit.gates) \in Nat /\ signal_count(circuit) \in Nat
  BY <1>2, ValidCircuit
<1>4. cursor \in 0 .. Len(circuit.gates) - 1
  BY <1>1, <1>3
<1>5. /\ signal \in Signals(circuit)
      /\ g.op # "latch" => /\ g.a \in 0 .. signal - 1
                           /\ g.b \in 0 .. signal - 1
  BY <1>2, <1>4, GateReads
<1>6. 0 .. signal - 1 \subseteq Signals(circuit)
  <2>1. signal \in 0 .. signal_count(circuit) - 1
    BY <1>5 DEF Signals
  <2> HIDE DEF signal
  <2> QED
    BY <1>3, <2>1 DEF Signals
<1>7. LookedUp(g) \subseteq Signals(circuit)
  <2> HIDE DEF g, signal
  <2> QED
    BY <1>5, <1>6 DEF LookedUp
<1>8. LookedUp(g) \cup {signal} \subseteq Slots
  BY <1>2, <1>5, <1>7
<1> QED
  BY <1>8 DEF EvalGate

LEMMA LatchIsSampled ==
  ASSUME Inv, SampleLatch
  PROVE  LatchSampled
<1> DEFINE g == circuit.gates[cursor + 1]
<1>1. pc = "latches" /\ cursor < Len(circuit.gates) /\ cursor \in Nat
  BY DEF SampleLatch, Inv, TypeOK
<1>2. Valid(circuit) /\ Signals(circuit) \subseteq Slots
  BY <1>1, SignalsAreSlots
<1>3. Len(circuit.gates) \in Nat
  BY <1>2, ValidCircuit
<1>4. cursor \in 0 .. Len(circuit.gates) - 1
  BY <1>1, <1>3
<1>5. g.op = "latch" => g.d \in Signals(circuit)
  BY <1>2, <1>4, GateReads
<1>6. ~(g.op = "latch" /\ g.d \notin Slots)
  BY <1>2, <1>5
<1> QED
  BY <1>6 DEF SampleLatch

LEMMA OutputIsWritten ==
  ASSUME Inv, WriteOutput
  PROVE  OutputWritten
<1>1. pc = "outputs" /\ cursor < Len(circuit.outputs) /\ cursor \in Nat
  BY DEF WriteOutput, output_count, Inv, TypeOK
<1>2. Valid(circuit) /\ Signals(circuit) \subseteq Slots
  BY <1>1, SignalsAreSlots
<1>3. circuit.outputs \in Seq(Nat)
  BY <1>2 DEF Valid, Circuit
<1>4. cursor + 1 \in DOMAIN circuit.outputs
  BY <1>1, <1>3
<1>5. cursor \in 0 .. Len(circuit.outputs) - 1
  BY <1>1, <1>3
<1>6. circuit.outputs[cursor + 1] \in Slots
  BY <1>2, <1>5, ValidCircuit
<1> QED
  BY <1>4, <1>6 DEF WriteOutput

-----------------------------------------------------------------------------
(* The inductive step, one lemma per action of VmStep.                      *)

LEMMA InitInv == Init => Inv
<1> SUFFICES ASSUME Init PROVE Inv
  OBVIOUS
<1>1. TypeOK
  BY BuffersAssumption DEF Init, TypeOK
<1> QED
  BY <1>1 DEF Init, Inv, EvalInv, LatchesInv, OutputsInv

LEMMA RejectInv ==
  ASSUME Inv, NEW in \in Inputs, Reject(in)
  PROVE  Inv'
<1>1. TypeOK'
  <2>1. LengthError(in) \in Errors \cup {"none", "Ok"}
    BY DEF LengthError, Errors
  <2> QED
    BY <2>1, BuffersAssumption DEF Inv, TypeOK, Reject
<1> QED
  BY <1>1 DEF Inv, Reject, EvalInv, LatchesInv, OutputsInv

LEMMA BeginInv ==
  ASSUME Inv, NEW in \in Inputs, Begin(in)
  PROVE  Inv'
<1>1. Valid(circuit)
  BY CircuitsAssumption DEF Inv, TypeOK
<1>2. /\ circuit.input_count \in Nat
      /\ circuit.latch_count \in Nat
      /\ Len(circuit.gates) \in Nat
      /\ signal_count(circuit) \in Nat
      /\ signal_count(circuit) = 2 + circuit.input_count + Len(circuit.gates)
  BY <1>1, ValidCircuit DEF signal_count
<1>3. ~(scratch.bytes < signal_count(circuit))
  BY CheckedLengths DEF Begin
<1>4. in \in Buffer /\ next_state \in Buffer /\ output \in Buffer /\ scratch \in ScratchBuffer
  BY BuffersAssumption DEF Inv, TypeOK
<1>5. /\ Zeroed(next_state) \in Buffer /\ Zeroed(next_state).bytes = next_state.bytes
      /\ Zeroed(output) \in Buffer /\ Zeroed(output).bytes = output.bytes
      /\ Zeroed(next_state).ones = {} /\ Zeroed(output).ones = {}
  BY <1>4, ZeroedBuffer
<1>6. /\ scratch' = LoadedScratch(in)
      /\ scratch'.bytes = scratch.bytes
      /\ scratch'.ones = {i \in scratch.ones : i >= signal_count(circuit)} \cup {1}
           \cup {2 + bit : bit \in {b \in 0 .. circuit.input_count - 1 : b \in in.ones}}
  BY <1>4 DEF Begin, LoadedScratch, ScratchBuffer, read_bit, required_scratch_bytes
<1>7. scratch' \in ScratchBuffer
  <2>1. scratch.bytes \in Nat /\ scratch.ones \in SUBSET Nat
        /\ \A i \in scratch.ones : i < scratch.bytes
    BY <1>4 DEF ScratchBuffer
  <2>2. ASSUME NEW i \in scratch'.ones
        PROVE  i \in Nat /\ i < scratch.bytes
    <3>1. \/ i \in scratch.ones
          \/ i = 1
          \/ \E bit \in 0 .. circuit.input_count - 1 : i = 2 + bit
      BY <1>6
    <3>2. 2 + circuit.input_count <= scratch.bytes
      BY <1>2, <1>3, <2>1
    <3>3. CASE i \in scratch.ones
      BY <2>1, <3>3
    <3>4. CASE i = 1
      BY <1>2, <2>1, <3>2, <3>4
    <3>5. CASE \E bit \in 0 .. circuit.input_count - 1 : i = 2 + bit
      <4>1. PICK bit \in 0 .. circuit.input_count - 1 : i = 2 + bit
        BY <3>5
      <4> QED
        BY <1>2, <2>1, <3>2, <4>1
    <3> QED
      BY <3>1, <3>3, <3>4, <3>5
  <2>3. scratch' \in [bytes : Nat, ones : SUBSET Nat]
    <3>1. scratch'.ones \in SUBSET Nat
      BY <2>2
    <3> QED
      BY <1>4, <1>6, <3>1 DEF LoadedScratch, ScratchBuffer
  <2> QED
    BY <1>6, <2>2, <2>3 DEF ScratchBuffer
<1>8. TypeOK'
  <2>1. LengthError(input)' = "none"
    BY <1>5, <1>6 DEF Begin, LengthError, required_input_bytes, required_state_bytes,
                      required_output_bytes, required_scratch_bytes
  <2> QED
    BY <1>4, <1>5, <1>7, <2>1 DEF Inv, TypeOK, Begin, results
<1>9. EvalInv'
  <2>1. InputsLoaded'
    BY <1>2, <1>6 DEF Begin, InputsLoaded
  <2>2. GatesDone(cursor)' /\ SampledLatches(0)' /\ WrittenOutputs(0)'
    BY <1>5 DEF Begin, GatesDone, SampledLatches, WrittenOutputs
  <2>3. cursor' = 0 /\ latch' = 0 /\ circuit' = circuit
    BY DEF Begin
  <2> QED
    BY <1>2, <2>1, <2>2, <2>3 DEF EvalInv
<1> QED
  BY <1>8, <1>9 DEF Inv, Begin, LatchesInv, OutputsInv

(* Evaluating gate cursor writes a slot no earlier gate reads, so the gates *)
(* already settled stay settled, and the new one settles.                   *)
LEMMA EvalGateInv ==
  ASSUME Inv, EvalGate
  PROVE  Inv'
<1> DEFINE g == circuit.gates[cursor + 1]
           signal == GateSignal(circuit, cursor)
<1>1. Valid(circuit)
  BY CircuitsAssumption DEF Inv, TypeOK
<1>2. /\ circuit.input_count \in Nat
      /\ circuit.latch_count \in Nat
      /\ Len(circuit.gates) \in Nat
      /\ signal_count(circuit) = 2 + circuit.input_count + Len(circuit.gates)
      /\ circuit.latch_count <= Len(circuit.gates)
  BY <1>1, ValidCircuit DEF signal_count
<1>3. cursor \in 0 .. Len(circuit.gates) - 1
  BY <1>2 DEF Inv, TypeOK, EvalGate
<1>4. /\ signal \in Signals(circuit)
      /\ g.op = "latch" <=> cursor < circuit.latch_count
      /\ g.op # "latch" => g.a \in 0 .. signal - 1 /\ g.b \in 0 .. signal - 1
  BY <1>1, <1>3, GateReads
<1>5. /\ InputsLoaded
      /\ GatesDone(cursor)
      /\ SampledLatches(0)
      /\ WrittenOutputs(0)
      /\ latch = IF cursor < circuit.latch_count THEN cursor ELSE circuit.latch_count
  BY DEF Inv, EvalInv, EvalGate
<1>6. scratch \in ScratchBuffer /\ scratch.bytes >= signal_count(circuit)
  <2>1. scratch \in ScratchBuffer /\ LengthError(input) = "none"
    BY DEF Inv, TypeOK, EvalGate
  <2> QED
    BY <1>2, <2>1, CheckedLengths DEF ScratchBuffer
<1>7. /\ scratch' \in ScratchBuffer
      /\ scratch'.bytes = scratch.bytes
      /\ scratch'.ones = IF GateValue(g) THEN scratch.ones \cup {signal}
                                         ELSE scratch.ones \ {signal}
  <2>1. signal \in Nat /\ signal < scratch.bytes
    BY <1>2, <1>4, <1>6 DEF Signals, ScratchBuffer
  <2>2. scratch' = [scratch EXCEPT !.ones = IF GateValue(g)
                                            THEN scratch.ones \cup {signal}
                                            ELSE scratch.ones \ {signal}]
    BY GateIsEvaluated DEF GateEvaluated
  <2> QED
    BY <1>6, <2>1, <2>2 DEF ScratchBuffer
<1>8. /\ circuit' = circuit /\ input' = input /\ state' = state
      /\ next_state' = next_state /\ output' = output
      /\ pc = "eval" /\ pc' = "eval" /\ cursor' = cursor + 1
      /\ result' = result /\ returned' = returned
      /\ latch' = IF g.op = "latch" THEN latch + 1 ELSE latch
  BY GateIsEvaluated DEF EvalGate, GateEvaluated, args, results
<1>9. TypeOK'
  <2>1. LengthError(input)' = LengthError(input)
    BY <1>7, <1>8 DEF LengthError, required_input_bytes, required_state_bytes,
                      required_output_bytes, required_scratch_bytes
  <2>2. cursor' \in Nat /\ latch' \in Nat
    BY <1>3, <1>8 DEF Inv, TypeOK
  <2> QED
    BY <1>7, <1>8, <2>1, <2>2 DEF Inv, TypeOK
<1>10. InputsLoaded'
  <2>1. \A s \in 0 .. 1 + circuit.input_count : s # signal
    BY <1>2, <1>3 DEF GateSignal
  <2>2. \A s \in 0 .. 1 + circuit.input_count : s \in scratch'.ones <=> s \in scratch.ones
    BY <1>7, <2>1
  <2>3. 0 \in 0 .. 1 + circuit.input_count /\ 1 \in 0 .. 1 + circuit.input_count
        /\ \A i \in 0 .. circuit.input_count - 1 : 2 + i \in 0 .. 1 + circuit.input_count
    BY <1>2
  <2> QED
    BY <1>5, <1>8, <2>2, <2>3 DEF InputsLoaded
<1>11. GatesDone(cursor)'
  <2>1. \A s \in 0 .. signal - 1 : s \in scratch'.ones <=> s \in scratch.ones
    BY <1>2, <1>4, <1>7 DEF Signals
  <2>2. ASSUME NEW i \in 0 .. cursor
        PROVE  GateSettled(circuit, state.ones, scratch'.ones, i)
    <3> DEFINE h == circuit.gates[i + 1]
    <3>1. i \in 0 .. Len(circuit.gates) - 1
      BY <1>2, <1>3
    <3>2. h.op # "latch" => /\ h.a \in 0 .. GateSignal(circuit, i) - 1
                            /\ h.b \in 0 .. GateSignal(circuit, i) - 1
      BY <1>1, <3>1, GateReads
    <3>3. CASE i < cursor
      <4>1. i \in 0 .. cursor - 1 /\ GateSignal(circuit, i) \in 0 .. signal - 1
        BY <1>2, <1>3, <3>1, <3>3 DEF GateSignal
      <4>2. GateSettled(circuit, state.ones, scratch.ones, i)
        BY <1>5, <4>1 DEF GatesDone
      <4>3. signal \in Nat /\ GateSignal(circuit, i) \in Nat
        <5>1. i \in Nat /\ cursor \in Nat
          BY <1>3, <3>1
        <5> QED
          BY <1>2, <5>1, GateSignalNat
      <4>4. h.op # "latch" => h.a \in 0 .. signal - 1 /\ h.b \in 0 .. signal - 1
        <5> HIDE DEF h, signal
        <5> QED
          BY <3>2, <4>1, <4>3
      <4> QED
        BY <2>1, <4>1, <4>2, <4>4 DEF GateSettled, GateSignal
    <3>4. CASE i = cursor
      <4>1. signal \in scratch'.ones <=> GateValue(g)
        BY <1>7
      <4>2. g.op = "latch" => latch = cursor
        BY <1>4, <1>5
      <4>3. GateValue(g) <=> IF g.op = "latch" THEN cursor \in state.ones
                             ELSE ~(g.a \in scratch.ones /\ g.b \in scratch.ones)
        BY <4>2 DEF GateValue, read_bit
      <4> QED
        BY <1>4, <2>1, <3>4, <4>1, <4>3 DEF GateSettled, GateSignal
    <3> QED
      BY <1>3, <3>3, <3>4
  <2>3. 0 .. cursor' - 1 = 0 .. cursor
    BY <1>3, <1>8
  <2> QED
    BY <1>8, <2>2, <2>3 DEF GatesDone
<1>12. EvalInv'
  <2>1. cursor' <= Len(circuit'.gates)
    BY <1>2, <1>3, <1>8
  <2>2. latch' = IF cursor' < circuit'.latch_count THEN cursor' ELSE circuit'.latch_count
    BY <1>2, <1>3, <1>4, <1>5, <1>8
  <2>3. SampledLatches(0)' /\ WrittenOutputs(0)'
    BY <1>5, <1>8 DEF SampledLatches, WrittenOutputs
  <2> QED
    BY <1>10, <1>11, <2>1, <2>2, <2>3 DEF EvalInv
<1> QED
  BY <1>8, <1>9, <1>12 DEF Inv, LatchesInv, OutputsInv

LEMMA EndEvalInv ==
  ASSUME Inv, EndEval
  PROVE  Inv'
<1>1. Valid(circuit)
  BY CircuitsAssumption DEF Inv, TypeOK
<1>2. circuit.latch_count \in Nat /\ Len(circuit.gates) \in Nat
  BY <1>1, ValidCircuit
<1>3. /\ circuit' = circuit /\ input' = input /\ state' = state /\ scratch' = scratch
      /\ next_state' = next_state /\ output' = output
      /\ pc = "eval" /\ pc' = "latches" /\ cursor = Len(circuit.gates)
      /\ cursor' = 0 /\ latch' = 0 /\ result' = result /\ returned' = returned
  BY DEF EndEval, args, results
<1>4. TypeOK'
  <2>1. LengthError(input)' = LengthError(input)
    BY <1>3 DEF LengthError, required_input_bytes, required_state_bytes,
                required_output_bytes, required_scratch_bytes
  <2> QED
    BY <1>3, <2>1 DEF Inv, TypeOK
<1>5. LatchesInv'
  <2>1. InputsLoaded /\ GatesDone(Len(circuit.gates)) /\ SampledLatches(0) /\ WrittenOutputs(0)
    BY <1>3 DEF Inv, EvalInv
  <2>2. InputsLoaded'
    BY <1>3, <2>1 DEF InputsLoaded
  <2>3. GatesDone(Len(circuit.gates))'
    BY <1>3, <2>1 DEF GatesDone
  <2>4. SampledLatches(cursor)' /\ WrittenOutputs(0)'
    BY <1>3, <2>1 DEF SampledLatches, WrittenOutputs
  <2> QED
    BY <1>2, <1>3, <2>2, <2>3, <2>4 DEF LatchesInv
<1> QED
  BY <1>3, <1>4, <1>5 DEF Inv, EvalInv, OutputsInv

(* Sampling a latch writes its own bit of next_state: valid records below   *)
(* latch_count are latches, so none is skipped and the counters agree.      *)
LEMMA SampleLatchInv ==
  ASSUME Inv, SampleLatch
  PROVE  Inv'
<1> DEFINE g == circuit.gates[cursor + 1]
<1>1. Valid(circuit)
  BY CircuitsAssumption DEF Inv, TypeOK
<1>2. circuit.latch_count \in Nat /\ Len(circuit.gates) \in Nat
  BY <1>1, ValidCircuit
<1>3. cursor \in 0 .. circuit.latch_count - 1 /\ cursor \in 0 .. Len(circuit.gates) - 1
  BY <1>2 DEF Inv, TypeOK, SampleLatch
<1>4. g.op = "latch"
  <2>1. g.op = "latch" <=> cursor < circuit.latch_count
    BY <1>1, <1>3, GateReads
  <2> QED
    BY <1>2, <1>3, <2>1
<1>5. /\ latch = cursor /\ InputsLoaded /\ GatesDone(Len(circuit.gates))
      /\ SampledLatches(cursor) /\ WrittenOutputs(0)
  BY DEF Inv, LatchesInv, SampleLatch
<1>6. /\ next_state \in Buffer
      /\ next_state.bytes = bit_bytes(circuit.latch_count)
  BY CheckedLengths DEF Inv, TypeOK, SampleLatch
<1>7. cursor \div ByteBits < next_state.bytes
  BY <1>2, <1>3, <1>6, BitInBytes
<1>8. /\ circuit' = circuit /\ input' = input /\ state' = state /\ scratch' = scratch
      /\ output' = output /\ pc = "latches" /\ pc' = "latches"
      /\ cursor' = cursor + 1 /\ latch' = latch + 1
      /\ result' = result /\ returned' = returned
      /\ next_state' = write_bit(next_state, latch, g.d \in scratch.ones)
  BY <1>4, LatchIsSampled DEF SampleLatch, LatchSampled, args, results
<1>9. /\ next_state' \in Buffer
      /\ next_state'.bytes = next_state.bytes
      /\ next_state'.ones = IF g.d \in scratch.ones THEN next_state.ones \cup {cursor}
                                                    ELSE next_state.ones \ {cursor}
  <2> DEFINE value == g.d \in scratch.ones
  <2>1. cursor \in Nat /\ value \in BOOLEAN /\ next_state \in Buffer
    BY <1>3, <1>6
  <2>2. next_state' = write_bit(next_state, cursor, value)
    BY <1>5, <1>8
  <2> HIDE DEF value
  <2>3. /\ next_state' \in Buffer
        /\ next_state'.bytes = next_state.bytes
        /\ next_state'.ones = IF value THEN next_state.ones \cup {cursor}
                                       ELSE next_state.ones \ {cursor}
    BY <1>7, <2>1, <2>2, WriteBit
  <2> QED
    BY <2>3 DEF value
<1>10. TypeOK'
  <2>1. LengthError(input)' = LengthError(input)
    BY <1>8, <1>9 DEF LengthError, required_input_bytes, required_state_bytes,
                      required_output_bytes, required_scratch_bytes
  <2>2. cursor' \in Nat /\ latch' \in Nat
    BY <1>3, <1>5, <1>8
  <2> QED
    BY <1>8, <1>9, <2>1, <2>2 DEF Inv, TypeOK
<1>11. SampledLatches(cursor)'
  <2>1. next_state.ones = {l \in 0 .. cursor - 1 : circuit.gates[l + 1].d \in scratch.ones}
    BY <1>5 DEF SampledLatches
  <2>2. next_state'.ones = {l \in 0 .. cursor : circuit.gates[l + 1].d \in scratch.ones}
    BY <1>3, <1>9, <2>1
  <2> QED
    BY <1>3, <1>8, <2>2 DEF SampledLatches
<1>12. LatchesInv'
  <2>1. cursor' <= circuit'.latch_count /\ latch' = cursor'
    BY <1>2, <1>3, <1>5, <1>8
  <2>2. InputsLoaded' /\ GatesDone(Len(circuit.gates))' /\ WrittenOutputs(0)'
    BY <1>5, <1>8 DEF InputsLoaded, GatesDone, WrittenOutputs
  <2> QED
    BY <1>11, <2>1, <2>2 DEF LatchesInv
<1> QED
  BY <1>8, <1>10, <1>12 DEF Inv, EvalInv, OutputsInv

LEMMA EndLatchesInv ==
  ASSUME Inv, EndLatches
  PROVE  Inv'
<1>1. Valid(circuit)
  BY CircuitsAssumption DEF Inv, TypeOK
<1>2. /\ circuit.latch_count \in Nat /\ Len(circuit.gates) \in Nat
      /\ Len(circuit.outputs) \in Nat /\ circuit.latch_count <= Len(circuit.gates)
  BY <1>1, ValidCircuit
<1>3. /\ circuit' = circuit /\ input' = input /\ state' = state /\ scratch' = scratch
      /\ next_state' = next_state /\ output' = output
      /\ pc = "latches" /\ pc' = "outputs"
      /\ cursor' = 0 /\ latch' = latch /\ result' = result /\ returned' = returned
  BY DEF EndLatches, args, results
<1>4. cursor = circuit.latch_count
  BY <1>2 DEF EndLatches, Inv, LatchesInv, TypeOK
<1>5. TypeOK'
  <2>1. LengthError(input)' = LengthError(input)
    BY <1>3 DEF LengthError, required_input_bytes, required_state_bytes,
                required_output_bytes, required_scratch_bytes
  <2> QED
    BY <1>3, <2>1 DEF Inv, TypeOK
<1>6. OutputsInv'
  <2>1. /\ InputsLoaded /\ GatesDone(Len(circuit.gates))
        /\ SampledLatches(circuit.latch_count) /\ WrittenOutputs(0)
    BY <1>3, <1>4 DEF Inv, LatchesInv
  <2>2. InputsLoaded' /\ GatesDone(Len(circuit.gates))'
    BY <1>3, <2>1 DEF InputsLoaded, GatesDone
  <2>3. SampledLatches(circuit.latch_count)' /\ WrittenOutputs(cursor)'
    BY <1>3, <2>1 DEF SampledLatches, WrittenOutputs
  <2> QED
    BY <1>2, <1>3, <2>2, <2>3 DEF OutputsInv
<1> QED
  BY <1>3, <1>5, <1>6 DEF Inv, EvalInv, LatchesInv

LEMMA WriteOutputInv ==
  ASSUME Inv, WriteOutput
  PROVE  Inv'
<1> DEFINE signal == circuit.outputs[cursor + 1]
<1>1. Valid(circuit)
  BY CircuitsAssumption DEF Inv, TypeOK
<1>2. Len(circuit.outputs) \in Nat
  BY <1>1, ValidCircuit
<1>3. cursor \in 0 .. Len(circuit.outputs) - 1
  BY <1>2 DEF Inv, TypeOK, WriteOutput, output_count
<1>4. /\ InputsLoaded /\ GatesDone(Len(circuit.gates))
      /\ SampledLatches(circuit.latch_count) /\ WrittenOutputs(cursor)
  BY DEF Inv, OutputsInv, WriteOutput
<1>5. output \in Buffer /\ output.bytes = bit_bytes(Len(circuit.outputs))
  BY CheckedLengths DEF Inv, TypeOK, WriteOutput
<1>6. cursor \div ByteBits < output.bytes
  BY <1>2, <1>3, <1>5, BitInBytes
<1>7. /\ circuit' = circuit /\ input' = input /\ state' = state /\ scratch' = scratch
      /\ next_state' = next_state /\ pc = "outputs" /\ pc' = "outputs"
      /\ cursor' = cursor + 1 /\ latch' = latch
      /\ result' = result /\ returned' = returned
      /\ output' = write_bit(output, cursor, signal \in scratch.ones)
  BY OutputIsWritten DEF WriteOutput, OutputWritten, args, results
<1>8. /\ output' \in Buffer
      /\ output'.bytes = output.bytes
      /\ output'.ones = IF signal \in scratch.ones THEN output.ones \cup {cursor}
                                                   ELSE output.ones \ {cursor}
  <2> DEFINE value == signal \in scratch.ones
  <2>1. cursor \in Nat /\ value \in BOOLEAN /\ output \in Buffer
    BY <1>3, <1>5
  <2>2. output' = write_bit(output, cursor, value)
    BY <1>7
  <2> HIDE DEF value
  <2>3. /\ output' \in Buffer
        /\ output'.bytes = output.bytes
        /\ output'.ones = IF value THEN output.ones \cup {cursor}
                                   ELSE output.ones \ {cursor}
    BY <1>6, <2>1, <2>2, WriteBit
  <2> QED
    BY <2>3 DEF value
<1>9. TypeOK'
  <2>1. LengthError(input)' = LengthError(input)
    BY <1>7, <1>8 DEF LengthError, required_input_bytes, required_state_bytes,
                      required_output_bytes, required_scratch_bytes
  <2>2. cursor' \in Nat
    BY <1>3, <1>7
  <2> QED
    BY <1>7, <1>8, <2>1, <2>2 DEF Inv, TypeOK
<1>10. WrittenOutputs(cursor)'
  <2>1. output.ones = {k \in 0 .. cursor - 1 : circuit.outputs[k + 1] \in scratch.ones}
    BY <1>4 DEF WrittenOutputs
  <2>2. output'.ones = {k \in 0 .. cursor : circuit.outputs[k + 1] \in scratch.ones}
    BY <1>3, <1>8, <2>1
  <2> QED
    BY <1>3, <1>7, <2>2 DEF WrittenOutputs
<1>11. OutputsInv'
  <2>1. cursor' <= Len(circuit'.outputs)
    BY <1>2, <1>3, <1>7
  <2>2. InputsLoaded' /\ GatesDone(Len(circuit.gates))' /\ SampledLatches(circuit.latch_count)'
    BY <1>4, <1>7 DEF InputsLoaded, GatesDone, SampledLatches
  <2> QED
    BY <1>10, <2>1, <2>2 DEF OutputsInv
<1> QED
  BY <1>7, <1>9, <1>11 DEF Inv, EvalInv, LatchesInv

LEMMA ReturnInv ==
  ASSUME Inv, Return
  PROVE  Inv'
<1>1. TypeOK'
  <2>1. output \in Buffer /\ next_state \in Buffer
    BY DEF Inv, TypeOK
  <2>2. output.ones \in SUBSET Nat
    BY <2>1 DEF Buffer
  <2> QED
    BY <2>1, <2>2 DEF Inv, TypeOK, Return
<1> QED
  BY <1>1 DEF Inv, Return, EvalInv, LatchesInv, OutputsInv

LEMMA StutterInv ==
  ASSUME Inv, UNCHANGED vars
  PROVE  Inv'
<1> USE DEF vars
<1>1. TypeOK'
  <2>1. LengthError(input)' = LengthError(input)
    BY DEF LengthError, required_input_bytes, required_state_bytes,
           required_output_bytes, required_scratch_bytes
  <2> QED
    BY <2>1 DEF Inv, TypeOK
<1>2. EvalInv' /\ LatchesInv' /\ OutputsInv'
  BY DEF Inv, EvalInv, LatchesInv, OutputsInv, InputsLoaded, GatesDone,
         SampledLatches, WrittenOutputs
<1> QED
  BY <1>1, <1>2 DEF Inv

(* The invariant of the three loops of step holds in every reachable state. *)
THEOREM Invariant == Spec => []Inv
<1>1. Init => Inv
  BY InitInv
<1>2. Inv /\ [Next]_vars => Inv'
  BY BeginInv, RejectInv, EvalGateInv, EndEvalInv, SampleLatchInv, EndLatchesInv,
     WriteOutputInv, ReturnInv, StutterInv DEF Next, Step
<1> QED
  BY <1>1, <1>2, PTL DEF Spec

(* Type correctness, for every set of valid circuits and every buffer.      *)
THEOREM TypeCorrect == Spec => []TypeOK
BY Invariant, PTL DEF Inv

(* The evaluation loop and the sampling loop give record i the state bit i, *)
(* and that bit lies inside both buffers.                                   *)
THEOREM LatchBitsAgree == Spec => []LatchBitAgrees
<1>1. Inv => LatchBitAgrees
  <2> SUFFICES ASSUME Inv, pc \in {"eval", "latches"}, cursor < Len(circuit.gates),
                      circuit.gates[cursor + 1].op = "latch"
               PROVE  /\ latch = cursor
                      /\ latch \div ByteBits < state.bytes
                      /\ latch \div ByteBits < next_state.bytes
    BY DEF LatchBitAgrees
  <2>1. Valid(circuit)
    BY CircuitsAssumption DEF Inv, TypeOK
  <2>2. circuit.latch_count \in Nat /\ Len(circuit.gates) \in Nat
    BY <2>1, ValidCircuit
  <2>3. cursor \in 0 .. Len(circuit.gates) - 1
    BY <2>2 DEF Inv, TypeOK
  <2>4. cursor < circuit.latch_count
    BY <2>1, <2>3, GateReads
  <2>5. latch = cursor
    BY <2>4 DEF Inv, EvalInv, LatchesInv
  <2>6. cursor \in 0 .. circuit.latch_count - 1
    BY <2>2, <2>3, <2>4
  <2>7. /\ state.bytes = bit_bytes(circuit.latch_count)
        /\ next_state.bytes = bit_bytes(circuit.latch_count)
    BY CheckedLengths DEF Inv, TypeOK
  <2> QED
    BY <2>2, <2>5, <2>6, <2>7, BitInBytes
<1> QED
  BY <1>1, Invariant, PTL

-----------------------------------------------------------------------------
(* The refinement.                                                          *)

(* When the loops have run, the true signals of scratch are a settled       *)
(* valuation, and next_state and output are read off it.                    *)
LEMMA SettledAtTheEnd ==
  ASSUME Inv, pc \in {"latches", "outputs"}
  PROVE  LET v == scratch.ones \cap Signals(circuit)
         IN  Settled(circuit, input.ones, state.ones, v)
<1> DEFINE v == scratch.ones \cap Signals(circuit)
<1>1. Valid(circuit)
  BY CircuitsAssumption DEF Inv, TypeOK
<1>2. /\ circuit.input_count \in Nat /\ Len(circuit.gates) \in Nat
      /\ signal_count(circuit) = 2 + circuit.input_count + Len(circuit.gates)
  BY <1>1, ValidCircuit DEF signal_count
<1>3. InputsLoaded /\ GatesDone(Len(circuit.gates))
  BY DEF Inv, LatchesInv, OutputsInv
<1>4. /\ 0 \notin v /\ 1 \in v
      /\ \A i \in 0 .. circuit.input_count - 1 : 2 + i \in v <=> i \in input.ones
  <2>1. 1 \in Signals(circuit)
        /\ \A i \in 0 .. circuit.input_count - 1 : 2 + i \in Signals(circuit)
    <3>1. signal_count(circuit) \in Nat /\ 2 + circuit.input_count <= signal_count(circuit)
      BY <1>2
    <3>2. 1 \in Signals(circuit)
      BY <1>2, <3>1 DEF Signals
    <3>3. ASSUME NEW i \in 0 .. circuit.input_count - 1
          PROVE  2 + i \in Signals(circuit)
      BY <1>2, <3>1 DEF Signals
    <3> QED
      BY <3>2, <3>3
  <2>2. /\ 0 \notin scratch.ones /\ 1 \in scratch.ones
        /\ \A i \in 0 .. circuit.input_count - 1 : 2 + i \in scratch.ones <=> i \in input.ones
    BY <1>3 DEF InputsLoaded
  <2> QED
    BY <2>1, <2>2
<1>5. ASSUME NEW i \in 0 .. Len(circuit.gates) - 1
      PROVE  GateSettled(circuit, state.ones, v, i)
  <2> DEFINE g == circuit.gates[i + 1]
  <2>1. GateSettled(circuit, state.ones, scratch.ones, i)
    BY <1>3 DEF GatesDone
  <2>2. /\ GateSignal(circuit, i) \in Signals(circuit)
        /\ g.op # "latch" => /\ g.a \in 0 .. GateSignal(circuit, i) - 1
                             /\ g.b \in 0 .. GateSignal(circuit, i) - 1
    BY <1>1, GateReads
  <2>3. GateSignal(circuit, i) \in Nat /\ 0 .. GateSignal(circuit, i) - 1 \subseteq Signals(circuit)
    <3>1. signal_count(circuit) \in Nat
      BY <1>2
    <3>2. GateSignal(circuit, i) \in 0 .. signal_count(circuit) - 1
      BY <2>2 DEF Signals
    <3> QED
      BY <3>1, <3>2 DEF Signals
  <2>4. g.op # "latch" => g.a \in Signals(circuit) /\ g.b \in Signals(circuit)
    BY <2>2, <2>3
  <2> QED
    BY <2>1, <2>2, <2>4 DEF GateSettled, GateSignal
<1> QED
  BY <1>4, <1>5 DEF Settled

(* A call that returns Ok is one tick of the synchronous machine.           *)
LEMMA ReturnIsTick ==
  ASSUME Inv, Return
  PROVE  M!Next
<1> DEFINE v == scratch.ones \cap Signals(circuit)
           in == input.ones \cap (0 .. circuit.input_count - 1)
<1>1. Valid(circuit)
  BY CircuitsAssumption DEF Inv, TypeOK
<1>2. /\ circuit.latch_count \in Nat /\ Len(circuit.gates) \in Nat
      /\ Len(circuit.outputs) \in Nat /\ circuit.latch_count <= Len(circuit.gates)
  BY <1>1, ValidCircuit
<1>3. Settled(circuit, input.ones, state.ones, v)
  BY SettledAtTheEnd DEF Return
<1>4. Settled(circuit, in, state.ones, v)
  BY <1>3 DEF Settled
<1>5. state'.ones = NextLatches(circuit, v)
  <2>1. next_state.ones = {l \in 0 .. circuit.latch_count - 1 :
                             circuit.gates[l + 1].d \in scratch.ones}
    BY DEF Inv, OutputsInv, SampledLatches, Return
  <2>2. ASSUME NEW l \in 0 .. circuit.latch_count - 1
        PROVE  circuit.gates[l + 1].d \in Signals(circuit)
    <3>1. l \in 0 .. Len(circuit.gates) - 1 /\ l < circuit.latch_count
      BY <1>2
    <3>2. circuit.gates[l + 1].op = "latch"
      BY <1>1, <3>1, GateReads
    <3> QED
      BY <1>1, <3>1, <3>2, GateReads
  <2> QED
    BY <2>1, <2>2 DEF Return, NextLatches
<1>6. returned' = OutputBits(circuit, v)
  <2>1. output.ones = {k \in 0 .. Len(circuit.outputs) - 1 :
                         circuit.outputs[k + 1] \in scratch.ones}
    BY DEF Inv, OutputsInv, WrittenOutputs, Return, output_count
  <2>2. \A k \in 0 .. Len(circuit.outputs) - 1 : circuit.outputs[k + 1] \in Signals(circuit)
    BY <1>1, ValidCircuit
  <2> QED
    BY <2>1, <2>2 DEF Return, OutputBits
<1>7. v \in SUBSET M!Signals(circuit)
  BY DEF M!Signals, M!signal_count, Signals, signal_count
<1>8. M!Settled(circuit, in, state.ones, v)
  BY <1>4 DEF M!Settled, Settled, M!GateSettled, GateSettled, M!GateSignal, GateSignal
<1>9. /\ state'.ones = M!NextLatches(circuit, v)
      /\ returned' = M!OutputBits(circuit, v)
  BY <1>5, <1>6 DEF M!NextLatches, NextLatches, M!OutputBits, OutputBits
<1>10. M!Tick(in)
  BY <1>7, <1>8, <1>9 DEF M!Tick, Return
<1> QED
  BY <1>10 DEF M!Next

(* The step function of the virtual machine implements the synchronous      *)
(* machine: whatever the buffers held before, however long they are, and    *)
(* in whatever order the gates were numbered.                               *)
THEOREM Refinement == Spec => ImplementsMachine
<1>1. Init => M!Init
  BY BuffersAssumption DEF Init, M!Init, Buffer
<1>2. Inv /\ [Next]_vars => [M!Next]_M!vars
  <2> SUFFICES ASSUME Inv, [Next]_vars
               PROVE  M!Next \/ UNCHANGED M!vars
    OBVIOUS
  <2>1. CASE \E in \in Inputs : Begin(in) \/ Reject(in)
    BY <2>1 DEF Begin, Reject, results, M!vars
  <2>2. CASE EvalGate \/ SampleLatch \/ WriteOutput
    BY <2>2, GateIsEvaluated, LatchIsSampled, OutputIsWritten
       DEF GateEvaluated, LatchSampled, OutputWritten, args, results, M!vars
  <2>3. CASE EndEval \/ EndLatches
    BY <2>3 DEF EndEval, EndLatches, args, results, M!vars
  <2>4. CASE Return
    BY <2>4, ReturnIsTick
  <2>5. CASE UNCHANGED vars
    BY <2>5 DEF vars, M!vars
  <2> QED
    BY <2>1, <2>2, <2>3, <2>4, <2>5 DEF Next, Step
<1> QED
  BY <1>1, <1>2, Invariant, PTL DEF Spec, ImplementsMachine, M!Spec

-----------------------------------------------------------------------------
(* Uniqueness: the pass over the gates computes the only settled valuation. *)

(* One gate: a settled valuation that agrees with scratch on every signal   *)
(* below the gate agrees on the gate once EvalGate has written it.          *)
LEMMA EvalGateAgrees ==
  ASSUME Inv, AgreesBelow, EvalGate
  PROVE  AgreesBelow'
<1> DEFINE g == circuit.gates[cursor + 1]
           signal == GateSignal(circuit, cursor)
<1>1. Valid(circuit)
  BY CircuitsAssumption DEF Inv, TypeOK
<1>2. /\ circuit.input_count \in Nat /\ Len(circuit.gates) \in Nat
      /\ cursor \in 0 .. Len(circuit.gates) - 1
      /\ signal \in Nat /\ signal = 2 + circuit.input_count + cursor
  BY <1>1, ValidCircuit DEF Inv, TypeOK, EvalGate, GateSignal
<1>3. /\ g.op = "latch" <=> cursor < circuit.latch_count
      /\ g.op # "latch" => g.a \in 0 .. signal - 1 /\ g.b \in 0 .. signal - 1
  BY <1>1, <1>2, GateReads
<1>4. g.op = "latch" => latch = cursor
  BY <1>3 DEF Inv, EvalInv, EvalGate
<1>5. /\ circuit' = circuit /\ input' = input /\ state' = state
      /\ pc = "eval" /\ pc' = "eval" /\ cursor' = cursor + 1
      /\ scratch'.ones = IF GateValue(g) THEN scratch.ones \cup {signal}
                                         ELSE scratch.ones \ {signal}
  <2>1. scratch \in ScratchBuffer
    BY DEF Inv, TypeOK
  <2>2. scratch' = [scratch EXCEPT !.ones = IF GateValue(g)
                                            THEN scratch.ones \cup {signal}
                                            ELSE scratch.ones \ {signal}]
    BY GateIsEvaluated DEF GateEvaluated
  <2> QED
    BY <2>1, <2>2, GateIsEvaluated DEF EvalGate, GateEvaluated, args, ScratchBuffer
<1>6. ASSUME NEW v \in SUBSET Signals(circuit),
             Settled(circuit, input.ones, state.ones, v),
             NEW s \in 0 .. signal
      PROVE  s \in v <=> s \in scratch'.ones
  <2>1. \A t \in 0 .. signal - 1 : t \in v <=> t \in scratch.ones
    BY <1>5, <1>6 DEF AgreesBelow, Written
  <2>2. CASE s = signal
    <3>1. GateSettled(circuit, state.ones, v, cursor)
      BY <1>2, <1>6 DEF Settled
    <3>2. signal \in v <=> IF g.op = "latch" THEN cursor \in state.ones
                           ELSE ~(g.a \in v /\ g.b \in v)
      BY <3>1 DEF GateSettled, GateSignal
    <3>3. GateValue(g) <=> IF g.op = "latch" THEN cursor \in state.ones
                           ELSE ~(g.a \in scratch.ones /\ g.b \in scratch.ones)
      BY <1>4 DEF GateValue, read_bit
    <3>4. signal \in v <=> GateValue(g)
      BY <1>3, <2>1, <3>2, <3>3
    <3> QED
      BY <1>5, <2>2, <3>4
  <2>3. CASE s # signal
    BY <1>2, <1>5, <2>1, <2>3
  <2> QED
    BY <2>2, <2>3
<1>7. GateSignal(circuit, cursor + 1) - 1 = signal
  BY <1>2 DEF GateSignal
<1> QED
  BY <1>5, <1>6, <1>7 DEF AgreesBelow, Written

(* Before the first gate, only the constants and the inputs are written,    *)
(* and the equations of a settled valuation give those.                     *)
LEMMA BeginAgrees ==
  ASSUME Inv, NEW in \in Inputs, Begin(in), Inv'
  PROVE  AgreesBelow'
<1>1. circuit.input_count \in Nat
  BY CircuitsAssumption, ValidCircuit DEF Inv, TypeOK
<1>2. /\ circuit' = circuit /\ state' = state /\ input' = in
      /\ pc' = "eval" /\ cursor' = 0
  BY DEF Begin
<1>3. /\ 0 \notin scratch'.ones
      /\ 1 \in scratch'.ones
      /\ \A i \in 0 .. circuit.input_count - 1 : 2 + i \in scratch'.ones <=> i \in in.ones
  BY <1>2 DEF Inv, EvalInv, InputsLoaded
<1>4. GateSignal(circuit, 0) - 1 = circuit.input_count + 1
  BY <1>1 DEF GateSignal
<1>5. ASSUME NEW v \in SUBSET Signals(circuit),
             Settled(circuit, in.ones, state.ones, v),
             NEW s \in 0 .. circuit.input_count + 1
      PROVE  s \in v <=> s \in scratch'.ones
  <2>1. CASE s \in {0, 1}
    BY <1>3, <1>5, <2>1 DEF Settled
  <2>2. CASE s \notin {0, 1}
    <3>1. s - 2 \in 0 .. circuit.input_count - 1 /\ 2 + (s - 2) = s
      BY <1>1, <2>2
    <3>2. 2 + (s - 2) \in v <=> s - 2 \in in.ones
      BY <1>5, <3>1 DEF Settled
    <3> QED
      BY <1>3, <3>1, <3>2
  <2> QED
    BY <2>1, <2>2
<1> QED
  BY <1>2, <1>4, <1>5 DEF AgreesBelow, Written

(* After the last gate scratch and circuit stay as they are until the call  *)
(* returns, so the agreement stays too.                                     *)
LEMMA LaterAgrees ==
  ASSUME Inv, AgreesBelow,
         EndEval \/ SampleLatch \/ EndLatches \/ WriteOutput \/ Return
  PROVE  AgreesBelow'
<1>1. CASE EndEval
  <2>1. Written' = Written
    BY <1>1 DEF EndEval, args, Written, GateSignal, signal_count
  <2> QED
    BY <1>1, <2>1 DEF EndEval, args, AgreesBelow
<1>2. CASE SampleLatch \/ EndLatches \/ WriteOutput
  <2>1. pc \in {"latches", "outputs"} /\ pc' \in {"latches", "outputs"}
        /\ UNCHANGED <<args, scratch>>
    BY <1>2, LatchIsSampled, OutputIsWritten
       DEF SampleLatch, EndLatches, WriteOutput, LatchSampled, OutputWritten
  <2>2. Written' = Written
    BY <2>1 DEF args, Written, signal_count
  <2> QED
    BY <2>1, <2>2 DEF args, AgreesBelow
<1>3. CASE Return
  BY <1>3 DEF Return, AgreesBelow
<1> QED
  BY <1>1, <1>2, <1>3

(* A call computes the one and only settled valuation: no order of gates,   *)
(* no stale byte of scratch and no later latch input can lead to another.   *)
THEOREM UniqueSolution == Spec => []OnlySolution
<1>1. Init => AgreesBelow
  BY DEF Init, AgreesBelow
<1>2. Inv /\ Inv' /\ AgreesBelow /\ [Next]_vars => AgreesBelow'
  <2> SUFFICES ASSUME Inv, Inv', AgreesBelow, [Next]_vars
               PROVE  AgreesBelow'
    OBVIOUS
  <2>1. CASE \E in \in Inputs : Begin(in) \/ Reject(in)
    <3> PICK in \in Inputs : Begin(in) \/ Reject(in)
      BY <2>1
    <3>1. CASE Begin(in)
      BY <3>1, BeginAgrees
    <3>2. CASE Reject(in)
      BY <3>2 DEF Reject, AgreesBelow
    <3> QED
      BY <3>1, <3>2
  <2>2. CASE EvalGate
    BY <2>2, EvalGateAgrees
  <2>3. CASE EndEval \/ SampleLatch \/ EndLatches \/ WriteOutput \/ Return
    BY <2>3, LaterAgrees
  <2>4. CASE UNCHANGED vars
    <3>1. Written' = Written
      BY <2>4 DEF vars, Written, GateSignal, signal_count
    <3> QED
      BY <2>4, <3>1 DEF vars, AgreesBelow
  <2> QED
    BY <2>1, <2>2, <2>3, <2>4 DEF Next, Step
<1>3. Inv /\ AgreesBelow => OnlySolution
  <2> SUFFICES ASSUME Inv, AgreesBelow, pc \in {"latches", "outputs"},
                      NEW v \in SUBSET Signals(circuit)
               PROVE  Settled(circuit, input.ones, state.ones, v)
                        <=> v = scratch.ones \cap Signals(circuit)
    BY DEF OnlySolution
  <2>1. Settled(circuit, input.ones, state.ones, scratch.ones \cap Signals(circuit))
    BY SettledAtTheEnd
  <2>2. ASSUME Settled(circuit, input.ones, state.ones, v)
        PROVE  v = scratch.ones \cap Signals(circuit)
    BY <2>2 DEF AgreesBelow, Written, Signals
  <2> QED
    BY <2>1, <2>2
<1> QED
  BY <1>1, <1>2, <1>3, Invariant, PTL DEF Spec

(* A call is refused by the checks before its first write, or it returns Ok:*)
(* once it has cleared its buffers, no index and no output of a valid view  *)
(* can end it.                                                              *)
THEOREM FailuresTouchNothing == Spec => FailedCallTouchesNothing
<1> DEFINE Untouched ==
             (pc' = "idle" /\ result' # "Ok")
               => /\ pc = "idle"
                  /\ UNCHANGED <<state, scratch, next_state, output, returned>>
<1>1. Inv /\ [Next]_vars => [Untouched]_vars
  <2> SUFFICES ASSUME Inv, Next, pc' = "idle", result' # "Ok"
               PROVE  /\ pc = "idle"
                      /\ UNCHANGED <<state, scratch, next_state, output, returned>>
    OBVIOUS
  <2>1. ASSUME NEW in \in Inputs, Reject(in)
        PROVE  /\ pc = "idle"
               /\ UNCHANGED <<state, scratch, next_state, output, returned>>
    BY <2>1 DEF Reject
  <2>2. ASSUME NEW in \in Inputs, Begin(in) PROVE FALSE
    BY <2>2 DEF Begin
  <2>3. ASSUME EvalGate PROVE FALSE
    BY <2>3, GateIsEvaluated DEF EvalGate, GateEvaluated
  <2>4. ASSUME SampleLatch PROVE FALSE
    BY <2>4, LatchIsSampled DEF SampleLatch, LatchSampled
  <2>5. ASSUME WriteOutput PROVE FALSE
    BY <2>5, OutputIsWritten DEF WriteOutput, OutputWritten
  <2>6. ASSUME EndEval \/ EndLatches \/ Return PROVE FALSE
    BY <2>6 DEF EndEval, EndLatches, Return
  <2> QED
    BY <2>1, <2>2, <2>3, <2>4, <2>5, <2>6 DEF Next, Step
<1> QED
  BY <1>1, Invariant, PTL DEF Spec, FailedCallTouchesNothing

=============================================================================
