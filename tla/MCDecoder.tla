----------------------------- MODULE MCDecoder ------------------------------
(***************************************************************************)
(* Decoder on four families of slices, with three-valued bytes: every tail  *)
(* of up to MaxTail bytes under small honest headers, every slice one edit  *)
(* away from the encoding of a circuit, counts at the limits of their       *)
(* fields, and headers cut short or mis-signed.                             *)
(***************************************************************************)
EXTENDS Decoder, SequencesExt

CONSTANT MaxTail

FileOf(in, outs, gs, ls, len, tail) ==
  [header_bytes |-> HEADER_LEN, signature |-> "ok", input_count |-> in,
   output_count |-> outs, gate_count |-> gs, latch_count |-> ls,
   body_len |-> len, tail |-> tail]

Tails == {SubSeq(w, 1, n) : w \in [1 .. MaxTail -> 0 .. Base - 1], n \in 0 .. MaxTail}

Short ==
  {FileOf(1, 0, gs, ls, Len(tail), tail) :
     gs \in 1 .. 2, ls \in 0 .. 1, tail \in Tails}
  \cup {FileOf(1, 1, 1, ls, Len(tail) - 3, tail) :
          ls \in 0 .. 1, tail \in {t \in Tails : Len(t) >= 3}}

-----------------------------------------------------------------------------
Digits(n) == <<n % Base, (n \div Base) % Base, n \div (Base * Base)>>

RecordBytes(g) ==
  IF g.op = "latch" THEN <<OP_LATCH>> \o Digits(g.d)
                    ELSE <<OP_NAND>> \o Digits(g.a) \o Digits(g.b)

Encoding(in, ls, outs, gs) ==
  LET table == FlattenSeq([k \in 1 .. Len(outs) |-> Digits(outs[k])])
      body == FlattenSeq([i \in 1 .. Len(gs) |-> RecordBytes(gs[i])])
  IN  FileOf(in, Len(outs), Len(gs), ls, Len(body), table \o body)

Encodings ==
  {Encoding(2, 0, <<4>>, <<Nand(2, 3)>>),
   Encoding(1, 1, <<3>>, <<Latch(2)>>),
   Encoding(1, 2, <<4, 3>>, <<Latch(4), Latch(3)>>),
   Encoding(1, 1, <<7, 3>>,
            <<Latch(7), Nand(2, 3), Nand(2, 4), Nand(3, 4), Nand(5, 6)>>),
   Encoding(1, 1, <<>>, <<Nand(2, 1), Latch(3)>>),
   Encoding(0, 0, <<1, 0>>, <<>>)}

(* One byte changed, dropped or added, one count off by one.                *)
Edited(f) ==
  {[f EXCEPT !.tail[i] = b] : i \in 1 .. Len(f.tail), b \in 0 .. Base - 1}
  \cup {[f EXCEPT !.tail = RemoveAt(@, i), !.body_len = @ - d] :
          i \in 1 .. Len(f.tail), d \in 0 .. IF f.body_len > 0 THEN 1 ELSE 0}
  \cup {[f EXCEPT !.tail = InsertAt(@, i, b), !.body_len = @ + d] :
          i \in 1 .. Len(f.tail) + 1, b \in 0 .. Base - 1, d \in 0 .. 1}
  \cup {[f EXCEPT !.input_count = @ + 1], [f EXCEPT !.output_count = @ + 1],
        [f EXCEPT !.gate_count = @ + 1], [f EXCEPT !.latch_count = @ + 1]}
  \cup {[f EXCEPT !.body_len = @ + 1]}
  \cup {[f EXCEPT !.gate_count = @ - 1] : i \in {1} \cap 1 .. f.gate_count}
  \cup {[f EXCEPT !.latch_count = @ - 1] : i \in {1} \cap 1 .. f.latch_count}

-----------------------------------------------------------------------------
Limits ==
  {FileOf(in, outs, gs, 0, len, <<0, 0, 0>>) :
     in \in {0, MAX_U24 - 2, MAX_U24 - 1, MAX_U24, MAX_U32 - 2, MAX_U32},
     gs \in {0, 1, 2, MAX_U32},
     outs \in {0, 1, 17, 18, MAX_U32},
     len \in {0, 3, MAX_U32}}

Mangled ==
  {[FileOf(1, 0, 0, 0, 0, <<>>) EXCEPT !.signature = s, !.header_bytes = h] :
     s \in Signature, h \in {0, HEADER_LEN - 1, HEADER_LEN}}

MCFiles == Short \cup Encodings \cup UNION {Edited(f) : f \in Encodings} \cup Limits \cup Mangled

=============================================================================
