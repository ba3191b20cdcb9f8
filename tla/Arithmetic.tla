----------------------------- MODULE Arithmetic -----------------------------
(* What the adder of the gate library promises, as numbers.                 *)
EXTENDS Logic, Instructions

Lines(x) == [bit \in Bit |-> BitOf(x, bit) = 1]
Number(lines) == Value([bit \in Bit |-> IF lines[bit] THEN 1 ELSE 0])

(* The ripple adder adds modulo 2^W and its carry out says that the sum did *)
(* not fit, with and without a carry in (logic.rs, line 71).                *)
AddIsAddition ==
  \A a, b \in Word, c \in {0, 1} :
    LET s == add_word(Lines(a), Lines(b), c = 1)
    IN  Number(s.sum) = (a + b + c) % Size /\ s.carry = (a + b + c >= Size)

(* The same adder subtracts, and its carry out then says that a is not less *)
(* than b, as the branches of gcd need it (logic.rs, line 84).              *)
SubIsSubtraction ==
  \A a, b \in Word :
    LET s == sub_word(Lines(a), Lines(b))
    IN  Number(s.sum) = (a - b) % Size /\ s.carry = (a >= b)

=============================================================================
