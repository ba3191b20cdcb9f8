-------------------------------- MODULE Cpu --------------------------------
(* The CPU circuit under a host that puts any word on its inputs, also when *)
(* it has halted.                                                           *)
EXTENDS CpuCircuit

CONSTANT Inputs   \* the words that may be on the inputs

ASSUME InputsAssumption == Inputs \subseteq 0 .. 256 * Size - 1

VARIABLE state   \* the latches

PowerOn == state = ResetLatches

AnyTick == \E word \in Inputs : state' = tick(state, word)

FreeRunning == PowerOn /\ [][AnyTick]_state

-----------------------------------------------------------------------------
(* Properties.                                                              *)

(* Every latch holds a truth value: the gates of tick make nothing else.    *)
StateOK == state \in StateBits

(* Whatever word is on the inputs, the gates do to the latches what the     *)
(* instruction does to the machine: the adder adds, its inverted use        *)
(* subtracts with the carry as no borrow, branches see the flags of earlier *)
(* ticks only, an operation on one register twice reads it before it is     *)
(* written, and nothing else moves.                                         *)
TickIsExecute ==
  \A word \in Inputs : Decoded(tick(state, word)) = Execute(Decoded(state), word)

(* A halted machine stays halted and keeps its program counter, whatever is *)
(* put on its inputs.                                                       *)
HaltStays ==
  [][state[HALT_STATE_OFFSET] =>
       /\ state'[HALT_STATE_OFFSET]
       /\ WordAt(state', PC_STATE_OFFSET) = WordAt(state, PC_STATE_OFFSET)]_state

=============================================================================
