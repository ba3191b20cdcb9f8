------------------------------ MODULE MCRunner ------------------------------
(***************************************************************************)
(* Words of four bits.  In one session callers make up to three calls, of   *)
(* every kind, with programs that show values before and after a HLT, in a  *)
(* loop, at their last word, and that run past their end.  In the other one *)
(* call runs a program of the repository on a fresh machine, with limits    *)
(* around the ticks it needs.                                               *)
(***************************************************************************)
EXTENDS Programs

MCPc(s) == s.pc
MCHalted(s) == s.halt
MCOut(s) == s.out

CountUp == <<ldi(1, 1), output(0), binary(ADD, 0, 1), branch(JMP, 1)>>
ShowTwice == <<ldi(0, 5), output(0), output(0), instruction(HLT, 0, 0, 0), output(1)>>
PastTheEnd == <<ldi(2, 7), output(2)>>
Nothing == <<>>

Small == {CountUp, ShowTwice, PastTheEnd, Nothing}
Products == {multiplication(a, b) : a, b \in Word}
Divisors == {gcd(a, b) : a, b \in Word}

MCSessions ==
  <<[calls |-> StepCalls(Small) \cup HaltCalls(Small, {0, 2, 4, 5})
                 \cup OutputsCalls(Small, {0, 1, 2}, {0, 2, 4, 5}),
     length |-> 3],
    [calls |-> HaltCalls(Products \cup Divisors, {78, 200})
                 \cup OutputsCalls({fibonacci}, {14, 20}, {78, 200}),
     length |-> 1]>>

=============================================================================
