----------------------------- MODULE CpuMachine -----------------------------
(***************************************************************************)
(* The host of module Runner on the circuit of module CpuCircuit, and that  *)
(* together they are the host on the instruction set.                       *)
(***************************************************************************)
EXTENDS Programs, CpuCircuit, Arithmetic

IsaPc(m) == m.pc
IsaHalted(m) == m.halt
IsaOut(m) == m.out

OnIsa ==
  INSTANCE Runner WITH cpu <- Decoded(cpu),
                       path <- [i \in DOMAIN path |-> Decoded(path[i])],
                       ResetState <- ResetCpu, Tick <- Execute,
                       Pc <- IsaPc, Halted <- IsaHalted, Out <- IsaOut

(* A host that ticks the gates shows its callers exactly what a host that   *)
(* executes instructions shows: every fetch, every value and every return.  *)
ImplementsIsa == OnIsa!Init /\ [][OnIsa!Next]_(OnIsa!vars)

(* The gates of ADD and SUB agree with arithmetic at every pair of words: a *)
(* statement without a state, evaluated once, before the first call.        *)
ArithmeticIsExact == calls = 0 /\ fits => AddIsAddition /\ SubIsSubtraction

=============================================================================
