-------------------------------- MODULE VmStep --------------------------------
(***************************************************************************)
(* CircuitView::step of nandry-vm, loop iteration by loop iteration, called *)
(* again and again by a host that owns every buffer.  The host is the one   *)
(* of nandry-circuits' CpuMachine::step: it keeps its buffers from call to  *)
(* call, so a call finds in them whatever the previous one left, and when   *)
(* the call succeeds it copies next_state over state.  The first contents   *)
(* and the lengths are arbitrary, as they are for any caller of the public  *)
(* function (nandry-wasm passes the caller's own input and state).          *)
(***************************************************************************)
EXTENDS Bits, Tsol

CONSTANTS
  Circuits,    \* the circuits that may run, each one accepted by parse
  Inputs,      \* the input buffers a call may pass
  States,      \* what the state buffer may hold before the first call
  Dirty,       \* what next_state and output may hold before the first call
  Scratches    \* what scratch may hold before the first call

(* A scratch slot is a byte of its own, so its length bounds its positions. *)
ScratchBuffer == {b \in [bytes : Nat, ones : SUBSET Nat] :
                    \A i \in b.ones : i < b.bytes}

ASSUME CircuitsAssumption == \A c \in Circuits : Valid(c)
ASSUME BuffersAssumption ==
  /\ Inputs \subseteq Buffer
  /\ States \subseteq Buffer
  /\ Dirty \subseteq Buffer
  /\ Scratches \subseteq ScratchBuffer

VARIABLES
  circuit,      \* self: the validated view
  input,        \* the arguments of the call, in the order of the signature
  state,
  scratch,
  next_state,
  output,
  pc,           \* the loop the call is in; "idle" between calls
  cursor,       \* the counter of that loop
  latch,        \* the local variable latch
  result,       \* what the last completed call returned
  returned      \* the output bits of the last call that returned Ok

args == <<circuit, input, state>>
results == <<result, returned>>
vars == <<circuit, input, state, scratch, next_state, output,
          pc, cursor, latch, result, returned>>

(* "panic" is an index past the end of scratch; it unwinds to the caller.   *)
Errors == {"InputLength", "StateLength", "OutputLength", "ScratchLength",
           "TruncatedOutputTable", "panic"}

-----------------------------------------------------------------------------
required_input_bytes(c) == bit_bytes(c.input_count)
required_output_bytes(c) == bit_bytes(Len(c.outputs))
required_state_bytes(c) == bit_bytes(c.latch_count)

(* Slip: the highest signal is taken for the number of signals.             *)
highest_signal(c) == signal_count(c) - 1

required_scratch_bytes(c) == signal_count(c)

(* The five checks step makes before it touches a buffer; the first one     *)
(* that fails names the error.                                              *)
LengthError(in) ==
  IF in.bytes # required_input_bytes(circuit) THEN "InputLength"
  ELSE IF \/ state.bytes # required_state_bytes(circuit)
          \/ next_state.bytes # required_state_bytes(circuit) THEN "StateLength"
  ELSE IF output.bytes # required_output_bytes(circuit) THEN "OutputLength"
  ELSE IF scratch.bytes < required_scratch_bytes(circuit) THEN "ScratchLength"
  ELSE "none"

(* Slip: what an earlier call left in scratch is not cleared.               *)
LoadedOverStale(in) ==
  [scratch EXCEPT !.ones =
     @ \cup {1}
       \cup {2 + bit : bit \in {b \in 0 .. circuit.input_count - 1 : read_bit(in, b)}}]

(* scratch[..required_scratch].fill(0), scratch[1] = 1, and the input bits. *)
LoadedScratch(in) ==
  [scratch EXCEPT !.ones =
     {i \in @ : i >= required_scratch_bytes(circuit)}
     \cup {1}
     \cup {2 + bit : bit \in {b \in 0 .. circuit.input_count - 1 : read_bit(in, b)}}]

Init ==
  /\ circuit \in Circuits
  /\ input \in Inputs
  /\ state \in States
  /\ scratch \in Scratches
  /\ next_state \in Dirty
  /\ output \in Dirty
  /\ pc = "idle"
  /\ cursor = 0
  /\ latch = 0
  /\ result = "none"
  /\ returned = {}

(* A call whose buffers have a wrong length: an error, and nothing else.    *)
Reject(in) ==
  /\ pc = "idle"
  /\ LengthError(in) # "none"
  /\ input' = in
  /\ result' = LengthError(in)
  /\ UNCHANGED <<circuit, state, scratch, next_state, output, pc, cursor, latch, returned>>

(* A call that passes the checks clears its buffers and loads the inputs,   *)
(* all of it below required_scratch_bytes.                                  *)
Begin(in) ==
  /\ pc = "idle"
  /\ LengthError(in) = "none"
  /\ input' = in
  /\ scratch' = LoadedScratch(in)
  /\ next_state' = Zeroed(next_state)
  /\ output' = Zeroed(output)
  /\ pc' = "eval"
  /\ cursor' = 0
  /\ latch' = 0
  /\ UNCHANGED <<circuit, state, results>>

(* A call that ends half-way: its buffers stay as it has left them.         *)
Abort(e) ==
  /\ pc' = "idle"
  /\ result' = e
  /\ UNCHANGED <<args, scratch, next_state, output, cursor, latch, returned>>

Slots == 0 .. scratch.bytes - 1

(* The value the gate under the cursor takes: a latch shows its bit of the  *)
(* old state, a NAND combines two signals that are already in scratch.      *)
GateValue(g) ==
  IF g.op = "latch"
  THEN read_bit(state, latch)
  ELSE ~(g.a \in scratch.ones /\ g.b \in scratch.ones)

(* The signals a gate looks up, the second of a NAND if the first is one.   *)
LookedUp(g) ==
  IF g.op = "latch" THEN {}
  ELSE {g.a} \cup {s \in {g.b} : g.a \in scratch.ones}

(* Slip: the iterator moves on only past latch records.                     *)
GateStays ==
  LET g == circuit.gates[cursor + 1]
      signal == GateSignal(circuit, cursor)
  IN  /\ scratch' = [scratch EXCEPT !.ones = IF GateValue(g)
                                             THEN @ \cup {signal}
                                             ELSE @ \ {signal}]
      /\ latch' = IF g.op = "latch" THEN latch + 1 ELSE latch
      /\ cursor' = IF g.op = "latch" THEN cursor + 1 ELSE cursor
      /\ UNCHANGED <<args, next_state, output, pc, results>>

GateEvaluated ==
  LET g == circuit.gates[cursor + 1]
      signal == GateSignal(circuit, cursor)
  IN  /\ scratch' = [scratch EXCEPT !.ones = IF GateValue(g)
                                             THEN @ \cup {signal}
                                             ELSE @ \ {signal}]
      /\ latch' = IF g.op = "latch" THEN latch + 1 ELSE latch
      /\ cursor' = cursor + 1
      /\ UNCHANGED <<args, next_state, output, pc, results>>

EvalGate ==
  /\ pc = "eval"
  /\ cursor < Len(circuit.gates)
  /\ IF LookedUp(circuit.gates[cursor + 1]) \cup {GateSignal(circuit, cursor)} \subseteq Slots
     THEN GateEvaluated
     ELSE Abort("panic")

(* Slip: the counter of latches is not set back for the second loop.        *)
EndEvalKeepsLatch ==
  /\ pc = "eval"
  /\ cursor = Len(circuit.gates)
  /\ pc' = "latches"
  /\ cursor' = 0
  /\ UNCHANGED <<args, scratch, next_state, output, latch, results>>

(* latch = 0, and the scan of the latch prefix starts.                      *)
EndEval ==
  /\ pc = "eval"
  /\ cursor = Len(circuit.gates)
  /\ pc' = "latches"
  /\ cursor' = 0
  /\ latch' = 0
  /\ UNCHANGED <<args, scratch, next_state, output, results>>

(* gates().take(latch_count): a record that is no latch would be skipped.   *)
LatchSampled ==
  LET g == circuit.gates[cursor + 1]
  IN  /\ IF g.op = "latch"
         THEN /\ next_state' = write_bit(next_state, latch, g.d \in scratch.ones)
              /\ latch' = latch + 1
         ELSE UNCHANGED <<next_state, latch>>
      /\ cursor' = cursor + 1
      /\ UNCHANGED <<args, scratch, output, pc, results>>

SampleLatch ==
  /\ pc = "latches"
  /\ cursor < circuit.latch_count
  /\ cursor < Len(circuit.gates)
  /\ LET g == circuit.gates[cursor + 1]
     IN  IF g.op = "latch" /\ g.d \notin Slots THEN Abort("panic") ELSE LatchSampled

EndLatches ==
  /\ pc = "latches"
  /\ cursor = circuit.latch_count \/ cursor = Len(circuit.gates)
  /\ pc' = "outputs"
  /\ cursor' = 0
  /\ UNCHANGED <<args, scratch, next_state, output, latch, results>>

(* The loop runs to the count of the header, and looks each signal up in    *)
(* the table.                                                               *)
output_count(c) == Len(c.outputs)

OutputWritten ==
  /\ output' = write_bit(output, cursor, circuit.outputs[cursor + 1] \in scratch.ones)
  /\ cursor' = cursor + 1
  /\ UNCHANGED <<args, scratch, next_state, pc, latch, results>>

WriteOutput ==
  /\ pc = "outputs"
  /\ cursor < output_count(circuit)
  /\ IF cursor + 1 \notin DOMAIN circuit.outputs THEN Abort("TruncatedOutputTable")
     ELSE IF circuit.outputs[cursor + 1] \notin Slots THEN Abort("panic")
     ELSE OutputWritten

(* step returns Ok(()) and the host copies next_state over state.           *)
Return ==
  /\ pc = "outputs"
  /\ cursor = output_count(circuit)
  /\ pc' = "idle"
  /\ result' = "Ok"
  /\ returned' = output.ones
  /\ state' = next_state
  /\ UNCHANGED <<circuit, input, scratch, next_state, output, cursor, latch>>

Step == EvalGate \/ EndEval \/ SampleLatch \/ EndLatches \/ WriteOutput \/ Return

Next == (\E in \in Inputs : Begin(in) \/ Reject(in)) \/ Step

(* A call runs straight-line code on its own thread: it never waits.  The   *)
(* host need not call again.                                                *)
Fairness == WF_vars(Step)

Spec == Init /\ [][Next]_vars /\ Fairness

-----------------------------------------------------------------------------
(* Properties.                                                              *)

(* Every variable keeps its type, and a call that runs was given buffers of *)
(* the lengths the circuit needs (the checks of step, lines 222 to 248).    *)
TypeOK ==
  /\ circuit \in Circuits
  /\ {input, state, next_state, output} \subseteq Buffer
  /\ scratch \in ScratchBuffer
  /\ pc \in {"idle", "eval", "latches", "outputs"}
  /\ cursor \in Nat
  /\ latch \in Nat
  /\ result \in Errors \cup {"none", "Ok"}
  /\ returned \in SUBSET Nat
  /\ pc # "idle" => LengthError(input) = "none"

(* The two loops of step agree on the state bit of a latch although each    *)
(* counts latches for itself: record i is state bit i in both, and the bit  *)
(* lies inside the buffer, where read_bit and write_bit would otherwise     *)
(* answer false and drop the write without an error.                        *)
LatchBitAgrees ==
  /\ pc \in {"eval", "latches"}
  /\ cursor < Len(circuit.gates)
  /\ circuit.gates[cursor + 1].op = "latch"
  => /\ latch = cursor
     /\ latch \div ByteBits < state.bytes
     /\ latch \div ByteBits < next_state.bytes

M == INSTANCE Machine WITH latches <- state.ones, outputs <- returned

(* After the one pass over the gates, scratch is the one and only valuation *)
(* that satisfies every gate at once: stale bytes of earlier calls, the     *)
(* order of the gates and later latch inputs leave no trace.                *)
OnlySolution ==
  pc \in {"latches", "outputs"} =>
    \A v \in SUBSET Signals(circuit) :
      Settled(circuit, input.ones, state.ones, v)
        <=> v = scratch.ones \cap Signals(circuit)

(* Calls that return Ok are ticks of the synchronous machine, and nothing   *)
(* else changes what the host can see: all latches commit at once, from the *)
(* state before the tick, and padding bits come back zero.                  *)
ImplementsMachine == M!Spec

(* A call either is refused before it has touched a buffer, so that the host*)
(* may fix the lengths and call again, or it returns Ok: the lengths that   *)
(* step checks suffice for whatever the gates, the latches and the outputs  *)
(* of a valid view look up in scratch, so that no call ends half-way by an  *)
(* index (lines 262, 269, 277, 285) or a missing output (line 284).         *)
FailedCallTouchesNothing ==
  [][(pc' = "idle" /\ result' # "Ok")
     => /\ pc = "idle"
        /\ UNCHANGED <<state, scratch, next_state, output, returned>>]_vars

(* Every call returns: the three loops run out.                             *)
CallReturns == pc # "idle" ~> pc = "idle"

(* The inductive invariant behind the properties above: what each loop has  *)
(* established when its counter stands at cursor.                           *)
InputsLoaded ==
  /\ 0 \notin scratch.ones
  /\ 1 \in scratch.ones
  /\ \A i \in 0 .. circuit.input_count - 1 :
       2 + i \in scratch.ones <=> i \in input.ones

GatesDone(n) ==
  \A i \in 0 .. n - 1 : GateSettled(circuit, state.ones, scratch.ones, i)

SampledLatches(n) ==
  next_state.ones = {l \in 0 .. n - 1 : circuit.gates[l + 1].d \in scratch.ones}

WrittenOutputs(n) ==
  output.ones = {k \in 0 .. n - 1 : circuit.outputs[k + 1] \in scratch.ones}

EvalInv ==
  pc = "eval" => /\ cursor <= Len(circuit.gates)
                 /\ latch = IF cursor < circuit.latch_count
                            THEN cursor ELSE circuit.latch_count
                 /\ InputsLoaded
                 /\ GatesDone(cursor)
                 /\ SampledLatches(0)
                 /\ WrittenOutputs(0)

LatchesInv ==
  pc = "latches" => /\ cursor <= circuit.latch_count
                    /\ latch = cursor
                    /\ InputsLoaded
                    /\ GatesDone(Len(circuit.gates))
                    /\ SampledLatches(cursor)
                    /\ WrittenOutputs(0)

OutputsInv ==
  pc = "outputs" => /\ cursor <= Len(circuit.outputs)
                    /\ InputsLoaded
                    /\ GatesDone(Len(circuit.gates))
                    /\ SampledLatches(circuit.latch_count)
                    /\ WrittenOutputs(cursor)

Inv == TypeOK /\ EvalInv /\ LatchesInv /\ OutputsInv

(* On every signal written so far, every settled valuation agrees with      *)
(* scratch: the induction that makes OnlySolution true.                     *)
Written == IF pc = "eval" THEN GateSignal(circuit, cursor) ELSE signal_count(circuit)

AgreesBelow ==
  pc # "idle" =>
    \A v \in SUBSET Signals(circuit) :
      Settled(circuit, input.ones, state.ones, v) =>
        \A s \in 0 .. Written - 1 : s \in v <=> s \in scratch.ones

(* docs/machine-spec-v1.md and docs/tsol-v1.md: the unused high bits of the *)
(* input and state vectors of an execution are zero.                        *)
PaddingIsZero ==
  pc # "idle" => /\ input.ones \subseteq 0 .. circuit.input_count - 1
                 /\ state.ones \subseteq 0 .. circuit.latch_count - 1

=============================================================================
