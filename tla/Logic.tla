------------------------------- MODULE Logic -------------------------------
(***************************************************************************)
(* The gate library of nandry-circuits: every function is wired from NANDs  *)
(* and the constants.  A word is a function from bit positions, bit 0 the   *)
(* lowest, to truth values.                                                 *)
(***************************************************************************)
EXTENDS Words

Bits == [Bit -> BOOLEAN]

nand(a, b) == ~(a /\ b)
not(a) == nand(a, a)
and(a, b) == not(nand(a, b))
or(a, b) == nand(not(a), not(b))

xor(a, b) ==
  LET common == nand(a, b)
  IN  nand(nand(a, common), nand(b, common))

mux(select, when_false, when_true) ==
  nand(nand(when_false, not(select)), nand(when_true, select))

(* The folds over a sequence of signals.                                    *)
reduce_or(values) ==
  LET acc[n \in 0 .. Len(values)] == IF n = 0 THEN FALSE ELSE or(acc[n - 1], values[n])
  IN  acc[Len(values)]

eq_const(signals, value) ==
  LET matches(n) == IF (value \div 2 ^ (n - 1)) % 2 = 0 THEN not(signals[n]) ELSE signals[n]
      acc[n \in 0 .. Len(signals)] == IF n = 0 THEN TRUE ELSE and(acc[n - 1], matches(n))
  IN  acc[Len(signals)]

mux_word(select, when_false, when_true) ==
  [bit \in Bit |-> mux(select, when_false[bit], when_true[bit])]

select_register(registers, selector) ==
  [bit \in Bit |->
     LET low == mux(selector[1], registers[0][bit], registers[1][bit])
         high == mux(selector[1], registers[2][bit], registers[3][bit])
     IN  mux(selector[2], low, high)]

(* Slip: the carry that arrives is not passed on.                           *)
CarryOfPair(a, b, carry) == and(a, b)

CarryOut(a, b, carry) == or(and(a, b), and(carry, xor(a, b)))

add_word(a, b, carry_in) ==
  LET carry[bit \in 0 .. W] ==
        IF bit = 0 THEN carry_in ELSE CarryOut(a[bit - 1], b[bit - 1], carry[bit - 1])
  IN  [sum |-> [bit \in Bit |-> xor(xor(a[bit], b[bit]), carry[bit])], carry |-> carry[W]]

(* Slip: the negation is the inverse, one too few.                          *)
SubWithoutOne(a, b) == add_word(a, [bit \in Bit |-> not(b[bit])], FALSE)

sub_word(a, b) == add_word(a, [bit \in Bit |-> not(b[bit])], TRUE)

and_word(a, b) == [bit \in Bit |-> and(a[bit], b[bit])]
or_word(a, b) == [bit \in Bit |-> or(a[bit], b[bit])]
xor_word(a, b) == [bit \in Bit |-> xor(a[bit], b[bit])]

=============================================================================
