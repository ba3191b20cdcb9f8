---------------------------- MODULE NetlistRules ----------------------------
(***************************************************************************)
(* The rules encode_netlist of nandry-compiler holds a netlist to, as       *)
(* functions of the netlist: module Encoder applies them loop by loop,      *)
(* modules GraphCompiler and Builder through the outcome of the whole call. *)
(***************************************************************************)
EXTENDS Tsol, Limits, FiniteSets

(* A netlist is a circuit without the latch count; its signals are u32.     *)
NetlistGate == [op : {"nand"}, a : 0 .. MAX_U32, b : 0 .. MAX_U32]
               \cup [op : {"latch"}, d : 0 .. MAX_U32]

Netlist == [input_count : 0 .. MAX_U32, outputs : Seq(0 .. MAX_U32),
            gates : Seq(NetlistGate)]

SignalCount(n) == 2 + n.input_count + Len(n.gates)

CountsError(n) ==
  IF \/ Len(n.gates) > MAX_U32
     \/ Len(n.outputs) > MAX_U32
     \/ SignalCount(n) > MAX_U32 THEN "CountOverflow"
  ELSE IF SignalCount(n) - 1 > MAX_U24 THEN "SignalSpaceExhausted"
  ELSE IF \E k \in DOMAIN n.outputs : n.outputs[k] >= SignalCount(n) THEN "InvalidOutput"
  ELSE "none"

(* Slip: a latch is held to the rule for NANDs.                             *)
GateErrorForward(n, index, saw_nand) ==
  LET g == n.gates[index + 1]
      current_signal == 2 + n.input_count + index
  IN  IF g.op = "nand"
      THEN IF g.a >= current_signal \/ g.b >= current_signal
           THEN "InvalidNandReference" ELSE "none"
      ELSE IF saw_nand THEN "NonCanonicalLatchOrder"
           ELSE IF g.d >= current_signal THEN "InvalidLatchReference" ELSE "none"

(* What is wrong with the gate at index, counted from 0.                    *)
GateError(n, index, saw_nand) ==
  LET g == n.gates[index + 1]
      current_signal == 2 + n.input_count + index
  IN  IF g.op = "nand"
      THEN IF g.a >= current_signal \/ g.b >= current_signal
           THEN "InvalidNandReference" ELSE "none"
      ELSE IF saw_nand THEN "NonCanonicalLatchOrder"
           ELSE IF g.d >= SignalCount(n) THEN "InvalidLatchReference" ELSE "none"

RecordLen(g) == IF g.op = "nand" THEN NAND_LEN ELSE LATCH_LEN

(* Slip: only the field of the header is thought of, not the whole file.    *)
FieldTooLarge(n, body_len) == body_len > MAX_U32

(* The lengths must fit: the body its field, the file a usize.              *)
TooLarge(n, body_len) ==
  body_len > MAX_U32 \/ HEADER_LEN + 3 * Len(n.outputs) + body_len > USIZE_MAX

-----------------------------------------------------------------------------
(* The circuit a netlist denotes: its latches are the gates that latch.     *)
Denoted(n) ==
  [input_count |-> n.input_count,
   latch_count |-> Cardinality({i \in DOMAIN n.gates : n.gates[i].op = "latch"}),
   outputs |-> n.outputs,
   gates |-> n.gates]

BodyLen(n) ==
  LATCH_LEN * Denoted(n).latch_count + NAND_LEN * (Len(n.gates) - Denoted(n).latch_count)

(* A netlist that has an encoding: a valid circuit whose signals, counts    *)
(* and lengths fit their fields.                                            *)
Encodable(n) ==
  /\ Valid(Denoted(n))
  /\ Len(n.outputs) <= MAX_U32
  /\ SignalCount(n) - 1 <= MAX_U24
  /\ BodyLen(n) <= MAX_U32
  /\ HEADER_LEN + 3 * Len(n.outputs) + BodyLen(n) <= USIZE_MAX

(* What the call returns: "none" for Ok, or the error it meets first, the   *)
(* gates being looked at in order after the counts.                         *)
SawNand(n, index) == \E i \in 1 .. index : n.gates[i].op = "nand"

BadGates(n) ==
  {index \in 0 .. Len(n.gates) - 1 : GateError(n, index, SawNand(n, index)) # "none"}

EncodeError(n) ==
  IF CountsError(n) # "none" THEN CountsError(n)
  ELSE IF BadGates(n) # {}
  THEN LET first == CHOOSE i \in BadGates(n) : \A j \in BadGates(n) : i <= j
       IN  GateError(n, first, SawNand(n, first))
  ELSE IF TooLarge(n, BodyLen(n)) THEN "BodyTooLarge"
  ELSE "none"

=============================================================================
