---------------------------- MODULE NetlistBytes ----------------------------
(***************************************************************************)
(* The bytes encode_netlist of nandry-compiler writes for a netlist that    *)
(* passes its rules: the records as push_u24 writes them, and the file.     *)
(***************************************************************************)
EXTENDS Format, NetlistRules

(* Slip: the third byte is dropped.                                         *)
u16_bytes(s) == <<s % Base, (s \div Base) % Base, 0>>

(* push_u24: the three low bytes, lowest first; a higher byte is dropped.   *)
u24_bytes(s) == <<s % Base, (s \div Base) % Base, (s \div (Base * Base)) % Base>>

record_bytes(g) ==
  IF g.op = "nand" THEN <<OP_NAND>> \o u24_bytes(g.a) \o u24_bytes(g.b)
                   ELSE <<OP_LATCH>> \o u24_bytes(g.d)

(* The bytes of a netlist that has none of these errors.                    *)
Joined(parts) ==
  LET upto[i \in 0 .. Len(parts)] == IF i = 0 THEN <<>> ELSE upto[i - 1] \o parts[i]
  IN  upto[Len(parts)]

Encoded(n) ==
  [header_bytes |-> HEADER_LEN, signature |-> "ok",
   input_count |-> n.input_count, output_count |-> Len(n.outputs),
   gate_count |-> Len(n.gates), latch_count |-> Denoted(n).latch_count,
   body_len |-> BodyLen(n),
   tail |-> Joined([k \in DOMAIN n.outputs |-> u24_bytes(n.outputs[k])])
              \o Joined([i \in DOMAIN n.gates |-> record_bytes(n.gates[i])])]

=============================================================================
