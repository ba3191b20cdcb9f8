------------------------------ MODULE Encoder -------------------------------
(***************************************************************************)
(* encode_netlist of nandry-compiler: it checks a netlist in one loop, by   *)
(* rules written a second time, lays the bytes out in two more loops, and   *)
(* then has CircuitView::parse check the bytes once again.  The parse is    *)
(* modelled by what module Decoder shows of it: it accepts exactly the      *)
(* well-formed files.                                                       *)
(***************************************************************************)
EXTENDS NetlistBytes

CONSTANT Netlists

ASSUME NetlistsAssumption == Netlists \subseteq Netlist

VARIABLES
  netlist,       \* the argument
  pc,            \* "counts", "check", "outputs", "gates", "done", "failed"
  index,         \* the counter of the loop
  latch_count,
  saw_nand,
  body_len,
  bytes,         \* what has been written: a File once the header is
  error

checked == <<latch_count, saw_nand, body_len>>
vars == <<netlist, pc, index, latch_count, saw_nand, body_len, bytes, error>>

Nothing == [header_bytes |-> 0, signature |-> "ok", input_count |-> 0, output_count |-> 0,
            gate_count |-> 0, latch_count |-> 0, body_len |-> 0, tail |-> <<>>]

Init ==
  /\ netlist \in Netlists
  /\ pc = "counts"
  /\ index = 0
  /\ latch_count = 0
  /\ saw_nand = FALSE
  /\ body_len = 0
  /\ bytes = Nothing
  /\ error = "none"

Fail(e) ==
  /\ pc' = "failed"
  /\ error' = e
  /\ UNCHANGED <<netlist, index, checked, bytes>>

-----------------------------------------------------------------------------
OutputCount == Len(netlist.outputs)
GateCount == Len(netlist.gates)

CheckCounts ==
  /\ pc = "counts"
  /\ IF CountsError(netlist) = "none"
     THEN /\ pc' = "check"
          /\ UNCHANGED <<netlist, index, checked, bytes, error>>
     ELSE Fail(CountsError(netlist))

-----------------------------------------------------------------------------
(* The loop over the gates, which also measures the body.                   *)
gate == netlist.gates[index + 1]
error_here == GateError(netlist, index, saw_nand)

(* Slip: the flag is not raised.                                            *)
sees_no_nand == saw_nand

sees_nand == saw_nand \/ gate.op = "nand"

CheckGate ==
  /\ pc = "check"
  /\ index < GateCount
  /\ IF error_here # "none" THEN Fail(error_here)
     ELSE IF body_len + RecordLen(gate) > USIZE_MAX THEN Fail("BodyTooLarge")
     ELSE /\ saw_nand' = sees_nand
          /\ latch_count' = IF gate.op = "latch" THEN latch_count + 1 ELSE latch_count
          /\ body_len' = body_len + RecordLen(gate)
          /\ index' = index + 1
          /\ UNCHANGED <<netlist, pc, bytes, error>>

WriteHeader ==
  /\ pc = "check"
  /\ index = GateCount
  /\ IF TooLarge(netlist, body_len)
     THEN Fail("BodyTooLarge")
     ELSE /\ bytes' = [header_bytes |-> HEADER_LEN, signature |-> "ok",
                       input_count |-> netlist.input_count,
                       output_count |-> OutputCount,
                       gate_count |-> GateCount,
                       latch_count |-> latch_count,
                       body_len |-> body_len,
                       tail |-> <<>>]
          /\ pc' = "outputs"
          /\ index' = 0
          /\ UNCHANGED <<netlist, checked, error>>

-----------------------------------------------------------------------------
PushOutput ==
  /\ pc = "outputs"
  /\ index < OutputCount
  /\ bytes' = [bytes EXCEPT !.tail = @ \o u24_bytes(netlist.outputs[index + 1])]
  /\ index' = index + 1
  /\ UNCHANGED <<netlist, pc, checked, error>>

EndOutputs ==
  /\ pc = "outputs"
  /\ index = OutputCount
  /\ pc' = "gates"
  /\ index' = 0
  /\ UNCHANGED <<netlist, checked, bytes, error>>

PushGate ==
  /\ pc = "gates"
  /\ index < GateCount
  /\ bytes' = [bytes EXCEPT !.tail = @ \o record_bytes(gate)]
  /\ index' = index + 1
  /\ UNCHANGED <<netlist, pc, checked, error>>

(* CircuitView::parse on the result.                                        *)
Parse ==
  /\ pc = "gates"
  /\ index = GateCount
  /\ IF WellFormed(bytes)
     THEN pc' = "done" /\ UNCHANGED <<netlist, index, checked, bytes, error>>
     ELSE Fail("EncodedNetlistInvalid")

Next == \/ CheckCounts \/ CheckGate \/ WriteHeader
        \/ PushOutput \/ EndOutputs \/ PushGate \/ Parse

Spec == Init /\ [][Next]_vars

-----------------------------------------------------------------------------
(* Properties.                                                              *)

Errors == {"CountOverflow", "SignalSpaceExhausted", "InvalidOutput", "InvalidNandReference",
           "NonCanonicalLatchOrder", "InvalidLatchReference", "BodyTooLarge",
           "EncodedNetlistInvalid"}

(* Every variable keeps its type; what is being written is a file whose     *)
(* header fields fit their u32 (lines 320 to 337).                          *)
TypeOK ==
  /\ netlist \in Netlist
  /\ pc \in {"counts", "check", "outputs", "gates", "done", "failed"}
  /\ index \in Nat
  /\ latch_count \in Nat
  /\ saw_nand \in BOOLEAN
  /\ body_len \in 0 .. USIZE_MAX
  /\ bytes \in File
  /\ error \in Errors \cup {"none"}

(* What encode_netlist returns decodes to the netlist it was given, latch   *)
(* count included: nothing is truncated on the way into u24 fields.         *)
RoundTrip == pc = "done" => WellFormed(bytes) /\ Reading(bytes) = Denoted(netlist)

(* A netlist is refused exactly if it is no valid circuit, or has no        *)
(* encoding because a signal does not fit in u24 or the lengths do not fit, *)
(* and never by the parse of its own bytes at the end (line 354).           *)
RefusesExactly ==
  /\ pc \in {"done", "failed"} => (pc = "done" <=> Encodable(netlist))
  /\ error # "EncodedNetlistInvalid"

(* The loops return what the rules say as functions of the netlist: the     *)
(* first error in the order of the code, whatever was counted on the way,   *)
(* or the bytes of the netlist.  Modules Builder and Wasm rely on it.       *)
(* It needs USIZE_MAX to exceed the longest body the signal space allows,  *)
(* in the code: else the sum of the lengths overflows before a later gate.  *)
ReturnsAsTheRules ==
  /\ pc \in {"done", "failed"} => error = EncodeError(netlist)
  /\ pc = "done" => bytes = Encoded(netlist)

=============================================================================
