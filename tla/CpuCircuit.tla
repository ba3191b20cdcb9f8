----------------------------- MODULE CpuCircuit -----------------------------
(***************************************************************************)
(* The circuit of build_cpu: a tick computes the next value of every latch  *)
(* from the latches and the instruction on the inputs.                      *)
(***************************************************************************)
EXTENDS Logic, Instructions

(* The bits of the state, in the order the latches are made.                *)
REG_STATE_OFFSET == 0
PC_STATE_OFFSET == 4 * W
ZERO_STATE_OFFSET == 5 * W
CARRY_STATE_OFFSET == 5 * W + 1
HALT_STATE_OFFSET == 5 * W + 2
OUT_STATE_OFFSET == 5 * W + 3
CPU_STATE_BITS == 6 * W + 3

StateBits == [0 .. CPU_STATE_BITS - 1 -> BOOLEAN]
WordAt(s, offset) == [bit \in Bit |-> s[offset + bit]]

ResetLatches == [i \in 0 .. CPU_STATE_BITS - 1 |-> FALSE]

InputBits(word, first, last) == SubSeq([i \in 1 .. 16 |-> BitOf(word, i - 1) = 1], first, last)

(* result: the destination, replaced by what the selected operation gives.  *)
result_word(operation, dst, src, immediate) ==
  LET candidate(op) ==
        CASE op = LDI -> immediate
          [] op = MOV -> src
          [] op = ADD -> add_word(dst, src, FALSE).sum
          [] op = SUB -> sub_word(dst, src).sum
          [] op = AND -> and_word(dst, src)
          [] op = OR  -> or_word(dst, src)
          [] op = XOR -> xor_word(dst, src)
      result[n \in 0 .. 7] ==
        IF n = 0 THEN dst ELSE mux_word(operation[n], result[n - 1], candidate(n))
  IN  result[7]

(* Slip: the carry after SUB is taken for a borrow.                         *)
BranchOnBorrow(operation, zero, carry) ==
  reduce_or(<<operation[JMP], and(operation[JZ], zero), and(operation[JNZ], not(zero)),
              and(operation[JC], not(carry)), and(operation[JNC], carry)>>)

take_branch(operation, zero, carry) ==
  reduce_or(<<operation[JMP], and(operation[JZ], zero), and(operation[JNZ], not(zero)),
              and(operation[JC], carry), and(operation[JNC], not(carry))>>)

(* Slip: the halt latch is not looked at.                                   *)
StopsOnce(halt, hlt) == hlt

stopped(halt, hlt) == or(halt, hlt)

(* Slip: words without a result move the flag.                              *)
ZeroOfAny(write_enable, zero, result_zero) == result_zero

zero_after(write_enable, zero, result_zero) == mux(write_enable, zero, result_zero)

One == [bit \in Bit |-> bit = 0]

(* The state, from the words and bits that set_latch_d puts before it.      *)
Latches(registers, pc, zero, carry, halt, out) ==
  [i \in 0 .. CPU_STATE_BITS - 1 |->
     CASE i < PC_STATE_OFFSET -> registers[i \div W][i % W]
       [] i \in PC_STATE_OFFSET .. ZERO_STATE_OFFSET - 1 -> pc[i - PC_STATE_OFFSET]
       [] i = ZERO_STATE_OFFSET -> zero
       [] i = CARRY_STATE_OFFSET -> carry
       [] i = HALT_STATE_OFFSET -> halt
       [] OTHER -> out[i - OUT_STATE_OFFSET]]

(* The program counter holds when the machine stops.                        *)
next_pc(s, stop, branches, immediate) ==
  LET pc == WordAt(s, PC_STATE_OFFSET)
      incremented_pc == add_word(pc, One, FALSE).sum
  IN  mux_word(stop, mux_word(branches, incremented_pc, immediate), pc)

(* The next value of every latch.                                           *)
tick(s, word) ==
  LET opcode_bits == InputBits(word, 1, 4)
      dst_selector_bits == InputBits(word, 5, 6)
      src_selector_bits == InputBits(word, 7, 8)
      immediate == [bit \in Bit |-> BitOf(word, 8 + bit) = 1]
      is(op) == eq_const(opcode_bits, op)
      operation == <<is(1), is(2), is(3), is(4), is(5), is(6), is(7), is(8),
                     is(9), is(10), is(11), is(12), is(13), is(14), is(15)>>
      registers == [r \in Register |-> WordAt(s, REG_STATE_OFFSET + W * r)]
      zero == s[ZERO_STATE_OFFSET]
      carry == s[CARRY_STATE_OFFSET]
      dst == select_register(registers, dst_selector_bits)
      src == select_register(registers, src_selector_bits)
      result == result_word(operation, dst, src, immediate)
      write_enable == reduce_or(SubSeq(operation, 1, 7))
      result_zero == not(reduce_or([n \in 1 .. W |-> result[n - 1]]))
      zero_next == zero_after(write_enable, zero, result_zero)
      carry_after_add == mux(operation[ADD], carry, add_word(dst, src, FALSE).carry)
      carry_next == mux(operation[SUB], carry_after_add, sub_word(dst, src).carry)
      register_next ==
        [r \in Register |->
           mux_word(and(write_enable, eq_const(dst_selector_bits, r)), registers[r], result)]
      branches == take_branch(operation, zero, carry)
      stop == stopped(s[HALT_STATE_OFFSET], operation[HLT])
      pc_next == next_pc(s, stop, branches, immediate)
      out_next == mux_word(operation[OUT], WordAt(s, OUT_STATE_OFFSET), dst)
  IN  Latches(register_next, pc_next, zero_next, carry_next, stop, out_next)

-----------------------------------------------------------------------------
(* What the host reads from the state, and the machine that a state stands  *)
(* for.                                                                     *)
read_byte(s, offset) == Value([bit \in Bit |-> IF s[offset + bit] THEN 1 ELSE 0])

pc_of(s) == read_byte(s, PC_STATE_OFFSET)
output_of(s) == read_byte(s, OUT_STATE_OFFSET)
halted(s) == s[HALT_STATE_OFFSET]

Decoded(s) ==
  [reg |-> [r \in Register |-> read_byte(s, REG_STATE_OFFSET + W * r)],
   pc |-> pc_of(s),
   zero |-> s[ZERO_STATE_OFFSET], carry |-> s[CARRY_STATE_OFFSET],
   halt |-> halted(s),
   out |-> output_of(s)]

=============================================================================
