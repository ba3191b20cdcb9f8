---------------------------- MODULE Instructions ----------------------------
(***************************************************************************)
(* The instruction set: the words of nandry-circuits programs, and what a   *)
(* word does to a machine with four registers, as arithmetic.  The circuit  *)
(* of module Cpu is compared with Execute, and the host of module Runner    *)
(* runs on it.                                                              *)
(***************************************************************************)
EXTENDS Words

Register == 0 .. 3

LDI == 1
MOV == 2
ADD == 3
SUB == 4
AND == 5
OR == 6
XOR == 7
JMP == 8
JZ == 9
JNZ == 10
JC == 11
JNC == 12
OUT == 13
HLT == 15

instruction(op, dst, src, immediate) ==
  (op % 16) + 16 * (dst % 4) + 64 * (src % 4) + 256 * (immediate % Size)

ldi(dst, immediate) == instruction(LDI, dst, 0, immediate)
binary(op, dst, src) == instruction(op, dst, src, 0)
branch(op, target) == instruction(op, 0, 0, target)
output(register) == instruction(OUT, register, 0, 0)

opcode(word) == word % 16
dst_selector(word) == (word \div 16) % 4
src_selector(word) == (word \div 64) % 4
immediate_of(word) == (word \div 256) % Size

-----------------------------------------------------------------------------
(* A machine between two ticks, and the machine after one tick of a word.   *)
(* A halted machine keeps its program counter but executes what it is given.*)
Cpu == [reg : [Register -> Word], pc : Word, zero : BOOLEAN, carry : BOOLEAN,
        halt : BOOLEAN, out : Word]

ResetCpu == [reg |-> [r \in Register |-> 0], pc |-> 0, zero |-> FALSE, carry |-> FALSE,
             halt |-> FALSE, out |-> 0]

(* The word with these bits, each 0 or 1.                                   *)
Value(f) ==
  LET low[n \in 0 .. W] == IF n = 0 THEN 0 ELSE low[n - 1] + 2 ^ (n - 1) * f[n - 1]
  IN  low[W]

BitByBit(op(_, _), x, y) == Value([i \in Bit |-> op(BitOf(x, i), BitOf(y, i))])

BothBits(a, b) == a * b
EitherBit(a, b) == a + b - a * b
DifferentBits(a, b) == (a + b) % 2

Writes(word) == opcode(word) \in LDI .. XOR

Result(cpu, word) ==
  LET d == cpu.reg[dst_selector(word)]
      s == cpu.reg[src_selector(word)]
  IN  CASE opcode(word) = LDI -> immediate_of(word)
        [] opcode(word) = MOV -> s
        [] opcode(word) = ADD -> (d + s) % Size
        [] opcode(word) = SUB -> (d - s) % Size
        [] opcode(word) = AND -> BitByBit(BothBits, d, s)
        [] opcode(word) = OR  -> BitByBit(EitherBit, d, s)
        [] opcode(word) = XOR -> BitByBit(DifferentBits, d, s)
        [] OTHER -> d

(* The carry of a subtraction means that it did not borrow.                 *)
CarryAfter(cpu, word) ==
  LET d == cpu.reg[dst_selector(word)]
      s == cpu.reg[src_selector(word)]
  IN  CASE opcode(word) = ADD -> d + s >= Size
        [] opcode(word) = SUB -> d >= s
        [] OTHER -> cpu.carry

Branches(cpu, word) ==
  \/ opcode(word) = JMP
  \/ opcode(word) = JZ /\ cpu.zero
  \/ opcode(word) = JNZ /\ ~cpu.zero
  \/ opcode(word) = JC /\ cpu.carry
  \/ opcode(word) = JNC /\ ~cpu.carry

Stops(cpu, word) == cpu.halt \/ opcode(word) = HLT

Execute(cpu, word) ==
  [reg |-> [r \in Register |->
              IF Writes(word) /\ r = dst_selector(word) THEN Result(cpu, word) ELSE cpu.reg[r]],
   pc |-> IF Stops(cpu, word) THEN cpu.pc
          ELSE IF Branches(cpu, word) THEN immediate_of(word)
          ELSE (cpu.pc + 1) % Size,
   zero |-> IF Writes(word) THEN Result(cpu, word) = 0 ELSE cpu.zero,
   carry |-> CarryAfter(cpu, word),
   halt |-> Stops(cpu, word),
   out |-> IF opcode(word) = OUT THEN cpu.reg[dst_selector(word)] ELSE cpu.out]

=============================================================================
