---------------------------- MODULE MCCpuMachine ----------------------------
(* The circuit at the width of the code, on the repository's test cases, a  *)
(* program for the words they do not use, and one without words.            *)
EXTENDS CpuMachine

Others ==
  <<ldi(0, 204), ldi(1, 170), ldi(3, 240), binary(AND, 0, 1), output(0), binary(OR, 3, 1),
    branch(JC, 0), output(3), binary(XOR, 3, 0), branch(JNZ, 11), output(2),
    instruction(14, 3, 3, 255), binary(ADD, 3, 3), branch(JNC, 0), branch(JC, 16), output(1),
    output(3), binary(SUB, 3, 3), branch(JNC, 0), branch(JNZ, 0), branch(JZ, 255)>>

TestPrograms == {fibonacci, multiplication(13, 17), gcd(84, 30), Others, <<>>}

TestSessions ==
  <<[calls |-> StepCalls(TestPrograms) \cup HaltCalls(TestPrograms, {100, 200})
                 \cup OutputsCalls(TestPrograms, {12}, {100, 200}),
     length |-> 1]>>

=============================================================================
