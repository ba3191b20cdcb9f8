-------------------------------- MODULE Wasm --------------------------------
(***************************************************************************)
(* nandry-wasm under a page: it has a circuit compiled, asks for its        *)
(* description, and steps it as often as it likes.  The library keeps       *)
(* nothing between calls: bytes and state live in the page, every call      *)
(* parses the bytes again, and a step returns output and next state in one  *)
(* array, which the page takes apart by the lengths of the description.     *)
(* The calls the bindings make are modelled by what other modules show of   *)
(* them: encode_netlist by module Encoder, parse by Decoder, step by VmStep.*)
(***************************************************************************)
EXTENDS NetlistBytes, Bits

CONSTANTS
  Netlists,     \* what encode_circuit_graph makes of the page's graphs
  InputArrays,  \* the input arrays the page may pass
  StateArrays   \* the state arrays it may begin with: zeros, or one it has kept

ASSUME WasmAssumption ==
  /\ Netlists \subseteq Netlist
  /\ InputArrays \subseteq Buffer
  /\ StateArrays \subseteq Buffer

VARIABLES
  netlist,    \* the circuit on the page
  bytes,      \* what the page got for it
  metadata,   \* the description of the bytes
  state,      \* the page's state array
  shown,      \* the output array of its last step
  reply,      \* what the last call returned: "none", "Ok" or an error
  stepped     \* auxiliary: a step has succeeded

pageVars == <<netlist, bytes, metadata, state, shown, reply, stepped>>

Absent == [header_bytes |-> 0]

PageLoads ==
  /\ netlist \in Netlists
  /\ bytes = Absent
  /\ metadata = <<>>
  /\ state \in StateArrays
  /\ shown = [bytes |-> 0, ones |-> {}]
  /\ reply = "none" /\ stepped = FALSE

encode_circuit_graph_json ==
  /\ bytes = Absent
  /\ IF EncodeError(netlist) = "none"
     THEN bytes' = Encoded(netlist) /\ reply' = "Ok"
     ELSE reply' = EncodeError(netlist) /\ UNCHANGED bytes
  /\ UNCHANGED <<netlist, metadata, state, shown, stepped>>

-----------------------------------------------------------------------------
(* What parse_circuit_json says of bytes that parse accepts, and None in    *)
(* the table for an output that is not there.                               *)
Description(f) ==
  LET c == Reading(f)
  IN  [header |-> [input_count |-> f.input_count, output_count |-> f.output_count,
                   gate_count |-> f.gate_count, latch_count |-> f.latch_count,
                   body_length |-> f.body_len],
       outputs |-> c.outputs, gates |-> c.gates, signal_count |-> signal_count(c)]

Incomplete(f) == \E k \in 0 .. f.output_count - 1 : output_signal(f, k) = None

parse_circuit_json ==
  /\ bytes # Absent
  /\ metadata = <<>>
  /\ IF ~WellFormed(bytes) THEN reply' = "parse" /\ UNCHANGED metadata
     ELSE IF Incomplete(bytes) THEN reply' = "incomplete" /\ UNCHANGED metadata
     ELSE metadata' = Description(bytes) /\ reply' = "Ok"
  /\ UNCHANGED <<netlist, bytes, state, shown, stepped>>

-----------------------------------------------------------------------------
(* The checks of step that the caller's arrays can fail; the other three    *)
(* buffers are made here.                                                   *)
LengthError(c, input) ==
  IF input.bytes # bit_bytes(c.input_count) THEN "InputLength"
  ELSE IF state.bytes # bit_bytes(c.latch_count) THEN "StateLength"
  ELSE "none"

(* The settled signals of a step; there is exactly one such set.            *)
Settling(c, input) ==
  CHOOSE v \in SUBSET Signals(c) : Settled(c, input.ones, state.ones, v)

(* Slip: the state comes first.                                             *)
JoinedStateFirst(output, next_state) ==
  [bytes |-> next_state.bytes + output.bytes,
   ones |-> next_state.ones \cup {ByteBits * next_state.bytes + i : i \in output.ones}]

(* Slip: the last byte is made only when it is full.                        *)
WholeBytes(c) == c.latch_count \div ByteBits

StateBytes(c) == bit_bytes(c.latch_count)

(* output.extend_from_slice(&next_state): the state begins on a byte.       *)
joined(output, next_state) ==
  [bytes |-> output.bytes + next_state.bytes,
   ones |-> output.ones \cup {ByteBits * output.bytes + i : i \in next_state.ones}]

(* The array of a step that succeeds.                                       *)
Stepped(c, input) ==
  LET v == Settling(c, input)
  IN  joined([bytes |-> bit_bytes(Len(c.outputs)), ones |-> OutputBits(c, v)],
             [bytes |-> StateBytes(c), ones |-> NextLatches(c, v)])

(* The page takes the array apart: as many bytes as the outputs of the      *)
(* description fill, and the rest.                                          *)
Before(array, length) == [bytes |-> length, ones |-> {i \in array.ones : i < ByteBits * length}]

After(array, length) ==
  [bytes |-> array.bytes - length,
   ones |-> {i - ByteBits * length : i \in {j \in array.ones : j >= ByteBits * length}}]

step_circuit_bytes(input) ==
  /\ metadata # <<>>
  /\ LET c == Reading(bytes)
         length == bit_bytes(metadata.header.output_count)
     IN  IF ~WellFormed(bytes) THEN reply' = "parse" /\ UNCHANGED <<state, shown, stepped>>
         ELSE IF LengthError(c, input) # "none"
         THEN reply' = LengthError(c, input) /\ UNCHANGED <<state, shown, stepped>>
         ELSE /\ shown' = Before(Stepped(c, input), length)
              /\ state' = After(Stepped(c, input), length)
              /\ reply' = "Ok" /\ stepped' = TRUE
  /\ UNCHANGED <<netlist, bytes, metadata>>

PageCalls ==
  \/ encode_circuit_graph_json
  \/ parse_circuit_json
  \/ \E input \in InputArrays : step_circuit_bytes(input)

Page == PageLoads /\ [][PageCalls]_pageVars

-----------------------------------------------------------------------------
(* Properties.                                                              *)

(* A page that carries the state from step to step sees the machine of the  *)
(* circuit it had compiled: compiling, parsing again at every call, joining *)
(* and taking apart lose nothing (line 77).                                 *)
Synchronous == INSTANCE Machine WITH
  Circuits <- {Denoted(n) : n \in Netlists},
  circuit <- Denoted(netlist), latches <- state.ones, outputs <- shown.ones

ImplementsMachine == Synchronous!Spec

(* Bytes that the bindings gave out are described in full, gate for gate as *)
(* they were compiled, and never refused afterwards (line 45).              *)
DescribesWhatWasCompiled ==
  /\ reply \notin {"parse", "incomplete"}
  /\ metadata # <<>> =>
       /\ [input_count |-> metadata.header.input_count,
           outputs |-> metadata.outputs, gates |-> metadata.gates] = netlist
       /\ metadata.header.latch_count = Denoted(netlist).latch_count
       /\ metadata.signal_count = SignalCount(netlist)

(* The state that comes back from a step is one that the next call takes:   *)
(* whatever the page began with, only the inputs it chooses are refused     *)
(* from then on.                                                            *)
StateComesBack == stepped => reply \in {"Ok", "InputLength"}

=============================================================================
