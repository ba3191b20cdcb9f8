-------------------------------- MODULE MCCpu --------------------------------
(* Every instruction word there is at a width of one bit.                   *)
EXTENDS Cpu

AllWords == {instruction(op, dst, src, imm) :
               op \in 0 .. 15, dst \in Register, src \in Register, imm \in Word}

=============================================================================
