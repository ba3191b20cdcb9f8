------------------------------ MODULE Builder ------------------------------
(***************************************************************************)
(* The Builder of nandry-circuits.  A client makes builders, wires gates by *)
(* the signals it is handed, sets the inputs of latches later through       *)
(* handles, and finishes each builder once: finish takes it by value.  A    *)
(* handle is a plain copy of a gate index: nothing in it says which builder *)
(* gave it out.  Every profile of the workspace checks u32 sums for         *)
(* overflow (Cargo.toml:24), so the number of a gate that would not be a    *)
(* u32 panics; the casts of a length to u32 truncate.                       *)
(***************************************************************************)
EXTENDS NetlistRules

CONSTANTS
  Builders,
  InputCounts,   \* what new may be called with
  Wires,         \* the pairs of signals nand may be called with
  Inputs,        \* the signals latch and set_latch_d may be called with
  OutputLists,   \* what finish may be called with
  MaxGates       \* bounds the gates of a builder

ASSUME ArgumentsAreU32 ==
  /\ InputCounts \subseteq 0 .. MAX_U32
  /\ Wires \subseteq (0 .. MAX_U32) \X (0 .. MAX_U32)
  /\ Inputs \subseteq 0 .. MAX_U32
  /\ OutputLists \subseteq Seq(0 .. MAX_U32)
  /\ MaxGates \in Nat

VARIABLES
  phase,         \* of each builder: "unmade", "open", "refused" or "finished"
  input_count, gates,
  handles,       \* every LatchHandle given out; owner is auxiliary
  outputs,       \* what finish was called with
  result,        \* what the last call returned: "Ok", a BuildError, or "panic"
  answer,        \* what finish of each builder returned
  (* Auxiliary: the client's own notes, the gate it asked for under each    *)
  (* signal it was handed, and whether it has kept to them.                 *)
  meant, careful

args == <<input_count, outputs>>
vars == <<phase, input_count, gates, handles, outputs, result, answer, meant, careful>>

Init ==
  /\ phase = [b \in Builders |-> "unmade"]
  /\ input_count = [b \in Builders |-> 0]
  /\ gates = [b \in Builders |-> <<>>]
  /\ handles = {}
  /\ outputs = [b \in Builders |-> <<>>]
  /\ result = "Ok"
  /\ answer = [b \in Builders |-> "none"]
  /\ meant = [b \in Builders |-> <<>>]
  /\ careful = [b \in Builders |-> TRUE]

New(b, inputs) ==
  /\ phase[b] = "unmade"
  /\ IF 2 + inputs - 1 > MAX_U24
     THEN /\ phase' = [phase EXCEPT ![b] = "refused"]
          /\ result' = "TooManySignals"
          /\ UNCHANGED input_count
     ELSE /\ phase' = [phase EXCEPT ![b] = "open"]
          /\ result' = "Ok"
          /\ input_count' = [input_count EXCEPT ![b] = inputs]
  /\ UNCHANGED <<gates, handles, outputs, answer, meant, careful>>

-----------------------------------------------------------------------------
(* `as u32`.                                                                *)
AsU32(n) == n % (MAX_U32 + 1)

(* Slip: the sum is not checked for overflow, and wraps.                    *)
PushedSignalWraps(b) == AsU32(2 + input_count[b] + AsU32(Len(gates[b])))

(* The signal push_gate hands out for the next gate, if it is a u32.        *)
PushedSignal(b) == 2 + input_count[b] + AsU32(Len(gates[b]))

(* What a client of b knows: the constants, the inputs, what it was handed. *)
Known(b) == (0 .. 1 + input_count[b]) \cup DOMAIN meant[b]

(* The client notes the gate under the signal.                              *)
Noted(notes, signal, gate) ==
  [s \in DOMAIN notes \cup {signal} |-> IF s = signal THEN gate ELSE notes[s]]

push_gate(b, gate, kept) ==
  /\ phase[b] = "open"
  /\ Len(gates[b]) < MaxGates
  /\ PushedSignal(b) <= MAX_U32
  /\ gates' = [gates EXCEPT ![b] = Append(@, gate)]
  /\ result' = "Ok"
  /\ meant' = [meant EXCEPT ![b] = Noted(@, PushedSignal(b), gate)]
  /\ careful' = [careful EXCEPT ![b] = @ /\ kept]
  /\ UNCHANGED <<phase, args, answer>>

(* The sum panics before the gate is pushed: a client that catches the      *)
(* panic has the builder as it was.                                         *)
PushPanics(b) ==
  /\ phase[b] = "open"
  /\ PushedSignal(b) > MAX_U32
  /\ result' = "panic"
  /\ UNCHANGED <<phase, args, gates, handles, answer, meant, careful>>

nand(b, wire) ==
  /\ push_gate(b, Nand(wire[1], wire[2]), {wire[1], wire[2]} \subseteq Known(b))
  /\ UNCHANGED handles

LatchesOnly(b) == \A i \in DOMAIN gates[b] : gates[b][i].op = "latch"

(* Slip: the index is read after the push.                                  *)
HandleAfterPush(b) ==
  [gate_index |-> Len(gates[b]) + 1, q |-> PushedSignal(b), owner |-> b]

Handle(b) == [gate_index |-> Len(gates[b]), q |-> PushedSignal(b), owner |-> b]

latch(b, d) ==
  /\ push_gate(b, Latch(d), d \in Known(b) /\ LatchesOnly(b))
  /\ handles' = handles \cup {Handle(b)}

-----------------------------------------------------------------------------
LatchAtIndex(b, handle) ==
  /\ handle.gate_index < Len(gates[b])
  /\ gates[b][handle.gate_index + 1].op = "latch"

SetLatch(b, handle, d) ==
  /\ phase[b] = "open"
  /\ LatchAtIndex(b, handle)
  /\ gates' = [gates EXCEPT ![b] = [@ EXCEPT ![handle.gate_index + 1] = Latch(d)]]
  /\ result' = "Ok"
  /\ meant' = IF handle.owner = b
              THEN [meant EXCEPT ![b] = Noted(@, handle.q, Latch(d))] ELSE meant
  /\ careful' = [careful EXCEPT ![b] = @ /\ handle.owner = b /\ d \in Known(b)]
  /\ UNCHANGED <<phase, args, handles, answer>>

RefuseHandle(b, handle) ==
  /\ phase[b] = "open"
  /\ ~LatchAtIndex(b, handle)
  /\ result' = "InvalidLatchHandle"
  /\ UNCHANGED <<phase, args, gates, handles, answer, meant, careful>>

set_latch_d(b, handle, d) == SetLatch(b, handle, d) \/ RefuseHandle(b, handle)

-----------------------------------------------------------------------------
NetlistOf(b, outs) == [input_count |-> input_count[b], outputs |-> outs, gates |-> gates[b]]

map_compile_error(e) ==
  CASE e \in {"SignalSpaceExhausted", "CountOverflow"} -> "TooManySignals"
    [] e \in {"InvalidOutput", "InvalidNandReference", "InvalidLatchReference"} -> "InvalidSignal"
    [] e \in {"NonCanonicalLatchOrder", "BodyTooLarge"} -> e
    [] e = "none" -> "Ok"
    [] OTHER -> "InvalidNetlist"

LatchAfterNand(b) ==
  \E i, j \in DOMAIN gates[b] : i < j /\ gates[b][i].op = "nand" /\ gates[b][j].op = "latch"

(* Slip: the count of the signals is held to the limit of their numbers     *)
(* (encode_netlist makes the other checks again).                           *)
FinishAtLimit(b, outs) ==
  LET total == 2 + input_count[b] + AsU32(Len(gates[b]))
  IN  IF total > MAX_U24 THEN "TooManySignals"
      ELSE map_compile_error(EncodeError(NetlistOf(b, outs)))

(* What finish returns: its own checks, and then those of encode_netlist.   *)
Finish(b, outs) ==
  LET total == 2 + input_count[b] + AsU32(Len(gates[b]))
  IN  IF total > MAX_U32 \/ total - 1 > MAX_U24 THEN "TooManySignals"
      ELSE IF \E k \in DOMAIN outs : outs[k] >= total THEN "InvalidSignal"
      ELSE IF LatchAfterNand(b) THEN "NonCanonicalLatchOrder"
      ELSE map_compile_error(EncodeError(NetlistOf(b, outs)))

finish(b, outs) ==
  /\ phase[b] = "open"
  /\ phase' = [phase EXCEPT ![b] = "finished"]
  /\ outputs' = [outputs EXCEPT ![b] = outs]
  /\ answer' = [answer EXCEPT ![b] = Finish(b, outs)]
  /\ result' = Finish(b, outs)
  /\ UNCHANGED <<input_count, gates, handles, meant, careful>>

Next ==
  \E b \in Builders :
    \/ \E n \in InputCounts : New(b, n)
    \/ \E wire \in Wires : nand(b, wire)
    \/ \E d \in Inputs : latch(b, d)
    \/ PushPanics(b)
    \/ \E handle \in handles, d \in Inputs : set_latch_d(b, handle, d)
    \/ \E outs \in OutputLists : finish(b, outs)

Spec == Init /\ [][Next]_vars

-----------------------------------------------------------------------------
(* Properties.                                                              *)

BuildErrors == {"TooManySignals", "InvalidSignal", "InvalidLatchHandle", "BodyTooLarge",
                "NonCanonicalLatchOrder", "InvalidNetlist"}

LatchHandle == [gate_index : Nat, q : 0 .. MAX_U32, owner : Builders]

(* Every variable keeps its type.                                           *)
TypeOK ==
  /\ phase \in [Builders -> {"unmade", "open", "refused", "finished"}]
  /\ input_count \in [Builders -> 0 .. MAX_U32]
  /\ gates \in [Builders -> Seq(NetlistGate)]
  /\ handles \subseteq LatchHandle
  /\ outputs \in [Builders -> Seq(0 .. MAX_U32)]
  /\ result \in BuildErrors \cup {"Ok", "panic"}
  /\ answer \in [Builders -> BuildErrors \cup {"Ok", "none"}]
  /\ \A b \in Builders : /\ DOMAIN meant[b] \subseteq 0 .. MAX_U32
                         /\ \A s \in DOMAIN meant[b] : meant[b][s] \in NetlistGate
  /\ careful \in [Builders -> BOOLEAN]

(* A handle names, in the builder that gave it out, the latch whose signal  *)
(* it carries, for as long as that builder lives: set_latch_d through it    *)
(* never fails and never wires another gate (line 80).                      *)
HandlesHold ==
  \A h \in handles :
    /\ h.gate_index < Len(gates[h.owner])
    /\ gates[h.owner][h.gate_index + 1].op = "latch"
    /\ h.q = 2 + input_count[h.owner] + h.gate_index

(* finish returns bytes exactly for the circuits that have an encoding, and *)
(* never falls through to the error that stands for no case (line 147).     *)
FinishIsExact ==
  \A b \in Builders : phase[b] = "finished" =>
    /\ answer[b] = "Ok" <=> Encodable(NetlistOf(b, outputs[b]))
    /\ answer[b] # "InvalidNetlist"

(* push_gate numbers gates without asking whether a record could name them  *)
(* (line 130): past MAX_U24, and across a panic that the client caught,     *)
(* every gate still has a signal of its own, the one its call returned.     *)
SignalsAreTheirOwn ==
  \A b \in Builders :
    /\ DOMAIN meant[b] = {2 + input_count[b] + i : i \in 0 .. Len(gates[b]) - 1}
    /\ DOMAIN meant[b] \subseteq 0 .. MAX_U32

(* What is encoded is what the client asked for: if finish succeeds and no  *)
(* handle of another builder came in between, the gate under each signal is *)
(* the one that was asked for, every latch with the input it was last given.*)
BuildsWhatWasMeant ==
  \A b \in Builders : answer[b] = "Ok" /\ careful[b] =>
    \A i \in DOMAIN gates[b] : gates[b][i] = meant[b][1 + input_count[b] + i]

(* A client that makes its latches first, wires only signals it was handed  *)
(* and uses each handle with its own builder can only be refused for size.  *)
CarefulBuildSucceeds ==
  \A b \in Builders :
    /\ phase[b] = "finished"
    /\ careful[b]
    /\ \A k \in DOMAIN outputs[b] : outputs[b][k] \in Known(b)
    => answer[b] \in {"Ok", "TooManySignals", "BodyTooLarge"}

(* What another builder's handle can do: it may move the input of a latch,  *)
(* and nothing else.  No call takes a gate away, moves one, or touches a    *)
(* NAND.                                                                    *)
GatesStay ==
  [][\A b \in Builders :
       /\ Len(gates'[b]) >= Len(gates[b])
       /\ \A i \in DOMAIN gates[b] :
            gates'[b][i] # gates[b][i] => gates[b][i].op = "latch" /\ gates'[b][i].op = "latch"]_vars

=============================================================================
