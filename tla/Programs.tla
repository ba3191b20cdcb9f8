------------------------------ MODULE Programs ------------------------------
(***************************************************************************)
(* The programs of nandry-circuits on the host of module Runner and the     *)
(* instruction set: what a run of each on a fresh machine returns.          *)
(***************************************************************************)
EXTENDS Runner

(* Slip: the next value replaces the later term before it has moved up.     *)
fibonacciSwapped ==
  <<ldi(0, 0), ldi(1, 1), output(0), binary(MOV, 2, 0), binary(ADD, 2, 1),
    binary(MOV, 1, 2), binary(MOV, 0, 1), branch(JMP, 2)>>

fibonacci ==
  <<ldi(0, 0), ldi(1, 1), output(0), binary(MOV, 2, 0), binary(ADD, 2, 1),
    binary(MOV, 0, 1), binary(MOV, 1, 2), branch(JMP, 2)>>

(* Slip: the loop tests its counter before it is loaded into the flags.     *)
multiplicationNoTest(a, b) ==
  <<ldi(0, a), ldi(1, b), ldi(2, 0), ldi(3, 1), instruction(0, 0, 0, 0), branch(JZ, 9),
    binary(ADD, 2, 0), binary(SUB, 1, 3), branch(JMP, 4), output(2), instruction(HLT, 0, 0, 0)>>

multiplication(a, b) ==
  <<ldi(0, a), ldi(1, b), ldi(2, 0), ldi(3, 1), binary(MOV, 1, 1), branch(JZ, 9),
    binary(ADD, 2, 0), binary(SUB, 1, 3), branch(JMP, 4), output(2), instruction(HLT, 0, 0, 0)>>

(* Slip: the branch on the borrow is taken on its absence.                  *)
gcdOtherBranch(a, b) ==
  <<ldi(0, a), ldi(1, b), binary(MOV, 2, 0), binary(SUB, 2, 1), branch(JZ, 12), branch(JC, 8),
    binary(MOV, 0, 2), branch(JMP, 2), binary(MOV, 2, 1), binary(SUB, 2, 0),
    binary(MOV, 1, 2), branch(JMP, 2), output(0), instruction(HLT, 0, 0, 0)>>

gcd(a, b) ==
  <<ldi(0, a), ldi(1, b), binary(MOV, 2, 0), binary(SUB, 2, 1), branch(JZ, 12), branch(JNC, 8),
    binary(MOV, 0, 2), branch(JMP, 2), binary(MOV, 2, 1), binary(SUB, 2, 0),
    binary(MOV, 1, 2), branch(JMP, 2), output(0), instruction(HLT, 0, 0, 0)>>

-----------------------------------------------------------------------------
(* Properties of the first call on a machine with the CPU's circuit.        *)

FirstCall(kind) == ~Running /\ fits /\ calls = 1 /\ call.kind = kind

(* The ticks of multiplication: four loads, five words for each round, then *)
(* the test, the OUT and the HLT.                                           *)
TicksToMultiply(b) == 5 * b + 8

(* multiplication returns the product modulo the word, if the limit leaves  *)
(* a pass after the HLT, and otherwise gives up.                            *)
MultiplicationMultiplies ==
  FirstCall("run_until_halt") =>
    \A a, b \in Word : call.program = multiplication(a, b) =>
      IF TicksToMultiply(b) < call.limit
      THEN result = "Ok" /\ outputs = <<(a * b) % Size>>
      ELSE result = "TickLimit"

Divides(d, x) == \E q \in 0 .. x : x = d * q

IsGcd(d, a, b) ==
  /\ Divides(d, a) /\ Divides(d, b)
  /\ \A e \in Word : Divides(e, a) /\ Divides(e, b) => Divides(e, d)

(* At most so many ticks of gcd: two loads, eight words for each round in   *)
(* which the larger operand shrinks, and five words for the last one.       *)
TicksToDivide(a, b) == 8 * (IF a < b THEN b ELSE a) + 7

(* gcd returns nothing but the greatest common divisor, also when a         *)
(* subtraction borrowed on the way, and does so if the limit leaves a pass  *)
(* after the HLT; with exactly one operand zero it subtracts zero until the *)
(* limit ends it (line 70).                                                 *)
GcdDivides ==
  FirstCall("run_until_halt") =>
    \A a, b \in Word : call.program = gcd(a, b) =>
      IF (a = 0) <=> (b = 0)
      THEN /\ result = "Ok" => Len(outputs) = 1 /\ IsGcd(outputs[1], a, b)
           /\ TicksToDivide(a, b) < call.limit => result = "Ok"
      ELSE result = "TickLimit" /\ outputs = <<>>

Fib[n \in Nat] == IF n < 2 THEN n ELSE Fib[n - 1] + Fib[n - 2]

(* fibonacci shows the sequence modulo the word, and never halts: it shows  *)
(* as many values as are asked for within three ticks and six for each      *)
(* value after the first.                                                   *)
FibonacciCounts ==
  FirstCall("run_until_outputs") /\ call.program = fibonacci /\ call.count > 0 =>
    IF 6 * (call.count - 1) + 3 <= call.limit
    THEN /\ result = "Ok"
         /\ outputs = [n \in 1 .. call.count |-> Fib[n - 1] % Size]
    ELSE result = "TickLimit"

(* The three programs together, each for every operand and limit it is run  *)
(* with.                                                                    *)
ProgramsCompute == MultiplicationMultiplies /\ GcdDivides /\ FibonacciCounts

=============================================================================
