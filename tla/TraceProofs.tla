----------------------------- MODULE TraceProofs -----------------------------
(***************************************************************************)
(* Proofs about the commitments, for any number of hosts, steps and bytes.  *)
(* That a root binds its history is an induction along the chain of roots:  *)
(* a new root can only meet a root made by a push, whose predecessors then  *)
(* meet too.                                                                *)
(***************************************************************************)
EXTENDS Trace, SequenceTheorems, TLAPS

-----------------------------------------------------------------------------
(* Digests are equal only if what was hashed is.                            *)
LEMMA HashInjective ==
  ASSUME NEW d, NEW f, NEW b, NEW e, NEW g, NEW c,
         sha256v(d, f, b) = sha256v(e, g, c)
  PROVE  d = e /\ f = g /\ b = c
<1>1. /\ sha256v(d, f, b).domain = d /\ sha256v(d, f, b).fields = f /\ sha256v(d, f, b).bytes = b
      /\ sha256v(e, g, c).domain = e /\ sha256v(e, g, c).fields = g /\ sha256v(e, g, c).bytes = c
  BY DEF sha256v
<1> QED
  BY <1>1

LEMMA MachineIdInjective ==
  ASSUME NEW s \in MachineSpec, NEW t \in MachineSpec, machine_id(s) = machine_id(t)
  PROVE  s = t
<1>1. <<s.circuit_id, s.input_count, s.output_count, s.gate_count, s.latch_count>>
      = <<t.circuit_id, t.input_count, t.output_count, t.gate_count, t.latch_count>>
  BY HashInjective DEF machine_id
<1>2. /\ s.circuit_id = t.circuit_id /\ s.input_count = t.input_count
      /\ s.output_count = t.output_count /\ s.gate_count = t.gate_count
      /\ s.latch_count = t.latch_count
  BY <1>1
<1> QED
  BY <1>2 DEF MachineSpec

LEMMA InputDigestInjective ==
  ASSUME NEW m, NEW in \in Inputs \cup {NoInput}, NEW n, NEW jn \in Inputs \cup {NoInput},
         DigestOf(m, in) = DigestOf(n, jn)
  PROVE  m = n /\ in = jn
<1>1. <<m, in.width, in.ticks>> = <<n, jn.width, jn.ticks>> /\ in.bytes = jn.bytes
  BY HashInjective DEF DigestOf, machine_input_digest
<1>2. m = n /\ in.width = jn.width /\ in.ticks = jn.ticks
  BY <1>1
<1>3. \A x \in Inputs \cup {NoInput} : x = [width |-> x.width, ticks |-> x.ticks, bytes |-> x.bytes]
  BY HostInputsAssumption DEF NoInput
<1> QED
  BY <1>1, <1>2, <1>3

-----------------------------------------------------------------------------
(* The lengths frame what is hashed in a step.                              *)
LEMMA EqualLengthsCut ==
  ASSUME NEW S, NEW a \in Seq(S), NEW b \in Seq(S), NEW c \in Seq(S), NEW d \in Seq(S),
         Len(a) = Len(c), a \o b = c \o d
  PROVE  a = c /\ b = d
<1>1. \A i \in 1 .. Len(a) : a[i] = c[i]
  BY ConcatProperties
<1>2. a = c
  BY <1>1, SeqEqual
<1>3. Len(b) = Len(d)
  BY ConcatProperties, LenProperties
<1>4. ASSUME NEW i \in 1 .. Len(b) PROVE b[i] = d[i]
  <2>1. Len(a) \in Nat /\ Len(b) \in Nat
    BY LenProperties
  <2>2. Len(a) + i \in 1 .. Len(a) + Len(b) /\ ~(Len(a) + i <= Len(a)) /\ Len(a) + i - Len(a) = i
    BY <2>1
  <2>3. (a \o b)[Len(a) + i] = b[i]
    BY <2>2, ConcatProperties
  <2>4. (c \o d)[Len(a) + i] = d[i]
    BY <1>3, <2>2, ConcatProperties
  <2> QED
    BY <2>3, <2>4
<1>5. b = d
  BY <1>3, <1>4, SeqEqual
<1> QED
  BY <1>2, <1>5

LEMMA ObservedFields ==
  ASSUME NEW o \in Observed
  PROVE  /\ o.state \in Seq(Nat) /\ o.output \in Seq(Nat)
         /\ Len(o.state) \in Nat /\ Len(o.output) \in Nat
         /\ o = [state |-> o.state, output |-> o.output]
<1>1. o \in [state : Seq(Byte), output : Seq(Byte)]
  BY HostInputsAssumption
<1>2. Byte \subseteq Nat
  BY DEF Byte
<1> QED
  BY <1>1, <1>2, SeqMonotonic, LenProperties

LEMMA SmallMod ==
  ASSUME NEW m \in Nat, NEW n \in Nat, n < m
  PROVE  n % m = n
OBVIOUS

LEMMA LengthField ==
  ASSUME NEW n \in Nat, n <= MAX_U32
  PROVE  le_bytes(n) = <<n>>
<1> DEFINE m == MAX_U32 + 1
<1>1. m \in Nat /\ n < m
  BY WidthsAssumption
<1> HIDE DEF m
<1>2. n % m = n
  BY <1>1, SmallMod
<1> QED
  BY <1>2 DEF le_bytes, m

(* A byte string whose length fits its field.                               *)
Short(v) == v \in Seq(Nat) /\ Len(v) <= MAX_U32

LEMMA FrameOf ==
  ASSUME NEW v, Short(v)
  PROVE  /\ Framed(v) = <<Len(v)>> \o v
         /\ Framed(v) \in Seq(Nat)
         /\ Len(Framed(v)) = Len(v) + 1
         /\ Framed(v)[1] = Len(v)
<1>1. v \in Seq(Nat) /\ Len(v) \in Nat
  BY LenProperties DEF Short
<1>2. Framed(v) = <<Len(v)>> \o v
  BY <1>1, LengthField DEF Framed, Short
<1> DEFINE l == <<Len(v)>>
<1>3. l \in Seq(Nat) /\ Len(l) = 1 /\ l[1] = Len(v)
  BY <1>1
<1> HIDE DEF l
<1>4. l \o v \in Seq(Nat) /\ Len(l \o v) = Len(l) + Len(v)
  BY <1>1, <1>3, ConcatProperties
<1>5. 1 \in 1 .. Len(l) + Len(v) /\ 1 <= Len(l)
  BY <1>1, <1>3
<1>6. (l \o v)[1] = l[1]
  BY <1>1, <1>3, <1>5, ConcatProperties
<1> QED
  BY <1>1, <1>2, <1>3, <1>4, <1>6 DEF l

LEMMA FramesCut ==
  ASSUME NEW v, Short(v), NEW w, Short(w), NEW x \in Seq(Nat), NEW y \in Seq(Nat),
         Framed(v) \o x = Framed(w) \o y
  PROVE  v = w /\ x = y
<1>1. /\ Framed(v) \in Seq(Nat) /\ Len(Framed(v)) = Len(v) + 1 /\ Framed(v)[1] = Len(v)
      /\ Framed(w) \in Seq(Nat) /\ Len(Framed(w)) = Len(w) + 1 /\ Framed(w)[1] = Len(w)
  BY FrameOf
<1>2. /\ v \in Seq(Nat) /\ Len(v) \in Nat
      /\ w \in Seq(Nat) /\ Len(w) \in Nat
  BY LenProperties DEF Short
<1>3. (Framed(v) \o x)[1] = Len(v) /\ (Framed(w) \o y)[1] = Len(w)
  BY <1>1, <1>2, ConcatProperties
<1>4. Len(v) = Len(w)
  BY <1>3
<1>5. Framed(v) = Framed(w) /\ x = y
  BY <1>1, <1>4, EqualLengthsCut
<1> DEFINE l == <<Len(v)>>
<1>6. l \in Seq(Nat) /\ l \o v = l \o w
  <2>1. l \in Seq(Nat)
    BY <1>2
  <2>2. Framed(v) = l \o v
    BY FrameOf
  <2>3. Framed(w) = l \o w
    BY <1>4, FrameOf
  <2> QED
    BY <1>5, <2>1, <2>2, <2>3
<1>7. v = w
  <2> HIDE DEF l
  <2> QED
    BY <1>2, <1>6, EqualLengthsCut
<1> QED
  BY <1>5, <1>7

(* The same, with the sequences behind names that the provers leave alone.  *)
Bytes(x) == x \in Seq(Nat)
Join(x, y) == x \o y

LEMMA JoinedFramesCut ==
  ASSUME NEW v, Short(v), NEW w, Short(w), NEW x, Bytes(x), NEW y, Bytes(y),
         Join(Framed(v), x) = Join(Framed(w), y)
  PROVE  v = w /\ x = y
<1>1. x \in Seq(Nat) /\ y \in Seq(Nat)
  BY DEF Bytes
<1>2. Framed(v) \o x = Framed(w) \o y
  BY DEF Join
<1> QED
  BY <1>1, <1>2, FramesCut

LEMMA TwoFramesCut ==
  ASSUME NEW a, Short(a), NEW b, Short(b), NEW c, Short(c), NEW d, Short(d),
         Join(Framed(a), Framed(b)) = Join(Framed(c), Framed(d))
  PROVE  a = c /\ b = d
<1>1. Bytes(Framed(b)) /\ Bytes(Framed(d))
  BY FrameOf DEF Bytes
<1>2. a = c /\ Framed(b) = Framed(d)
  BY <1>1, JoinedFramesCut
<1>3. Bytes(<<>>) /\ Join(Framed(b), <<>>) = Join(Framed(d), <<>>)
  BY <1>2 DEF Bytes
<1>4. b = d
  BY <1>3, JoinedFramesCut
<1> QED
  BY <1>2, <1>4

LEMMA StepsAreFramed ==
  ASSUME NEW r, NEW q, NEW i, NEW j, NEW o \in Observed, NEW p \in Observed,
         FitsU32(o), FitsU32(p), NextRoot(r, i, o) = NextRoot(q, j, p)
  PROVE  r = q /\ i = j /\ o = p
<1> DEFINE os == o.state
           oo == o.output
           ps == p.state
           po == p.output
<1>1. <<r, i>> = <<q, j>> /\ Framed(os) \o Framed(oo) = Framed(ps) \o Framed(po)
  <2> DEFINE b == Framed(os) \o Framed(oo)
             c == Framed(ps) \o Framed(po)
  <2>1. sha256v("NDRYSTP1", <<r, i>>, b) = sha256v("NDRYSTP1", <<q, j>>, c)
    BY DEF NextRoot
  <2> HIDE DEF b, c
  <2>2. <<r, i>> = <<q, j>> /\ b = c
    BY <2>1, HashInjective
  <2> QED
    BY <2>2 DEF b, c
<1>2. Short(os) /\ Short(oo) /\ Short(ps) /\ Short(po)
  BY ObservedFields DEF FitsU32, Short
<1>4. o = [state |-> os, output |-> oo] /\ p = [state |-> ps, output |-> po]
  BY ObservedFields
<1> HIDE DEF os, oo, ps, po
<1>3. os = ps /\ oo = po
  <2> HIDE DEF os, oo, ps, po
  <2>1. Join(Framed(os), Framed(oo)) = Join(Framed(ps), Framed(po))
    BY <1>1 DEF Join
  <2> QED
    BY <1>2, <2>1, TwoFramesCut
<1> QED
  BY <1>1, <1>3, <1>4

LEMMA FirstIsNotNext ==
  ASSUME NEW m, NEW d, NEW s, NEW r, NEW i, NEW o
  PROVE  FirstRoot(m, d, s) # NextRoot(r, i, o)
<1> SUFFICES ASSUME FirstRoot(m, d, s) = NextRoot(r, i, o) PROVE FALSE
  OBVIOUS
<1>1. "NDRYTRC1" = "NDRYSTP1"
  BY HashInjective DEF FirstRoot, NextRoot
<1> QED
  BY <1>1

-----------------------------------------------------------------------------
(* The chain of a host: its first root, and the roots that hang on it.      *)
Linked(h, i) ==
  /\ i \in Nat /\ 1 <= i
  /\ i = 1 => chain[h][i] = FirstRoot(id[h], input_digest[h], expected_steps[h])
  /\ i # 1 => /\ i - 1 \in 1 .. Len(history[h])
              /\ history[h][i - 1] \in Observed
              /\ chain[h][i] = NextRoot(chain[h][i - 1], i - 2, history[h][i - 1])

AllLinked == \A h \in Hosts : \A i \in 1 .. Len(chain[h]) : Linked(h, i)

LEMMA Links == TypeOK /\ Chained => AllLinked
<1> SUFFICES ASSUME TypeOK, Chained, NEW h \in Hosts, NEW i \in 1 .. Len(chain[h])
             PROVE  Linked(h, i)
  BY DEF AllLinked
<1>1. /\ next_step[h] \in Nat /\ Len(history[h]) = next_step[h]
      /\ history[h] \in Seq(Observed)
  BY DEF TypeOK, Byte
<1>2. Opened(h)
  <2> SUFFICES ASSUME chain[h] = <<>> PROVE FALSE
    BY DEF Chained
  <2> QED
    OBVIOUS
<1>3. /\ Len(chain[h]) = next_step[h] + 1
      /\ chain[h][1] = FirstRoot(id[h], input_digest[h], expected_steps[h])
      /\ \A k \in 1 .. next_step[h] : chain[h][k + 1] = NextRoot(chain[h][k], k - 1, history[h][k])
  BY <1>2 DEF Chained
<1>4. i \in Nat /\ 1 <= i /\ i <= next_step[h] + 1
  BY <1>1, <1>3
<1>5. ASSUME i # 1
      PROVE  /\ i - 1 \in 1 .. next_step[h] /\ i - 1 + 1 = i /\ i - 1 - 1 = i - 2
  BY <1>1, <1>4, <1>5
<1>6. ASSUME i # 1
      PROVE  /\ i - 1 \in 1 .. Len(history[h])
             /\ history[h][i - 1] \in Observed
             /\ chain[h][i] = NextRoot(chain[h][i - 1], i - 2, history[h][i - 1])
  <2>1. i - 1 \in 1 .. Len(history[h])
    BY <1>1, <1>5, <1>6
  <2>2. history[h][i - 1] \in Observed
    BY <1>1, <2>1, ElementOfSeq
  <2>3. chain[h][i - 1 + 1] = NextRoot(chain[h][i - 1], i - 1 - 1, history[h][i - 1])
    BY <1>3, <1>5, <1>6
  <2> QED
    BY <1>5, <1>6, <2>1, <2>2, <2>3
<1> QED
  BY <1>3, <1>4, <1>6 DEF Linked

(* What no step takes back: chains and histories only grow, by one element, *)
(* and what a chain hangs on stays.                                         *)
Grows ==
  \A h \in Hosts :
    /\ Fits(h)' => Fits(h)
    /\ \A i \in 2 .. Len(chain'[h]) :
         /\ i - 1 \in 1 .. Len(chain[h])
         /\ chain'[h][i - 1] = chain[h][i - 1]
         /\ \A k \in 1 .. i - 2 : history'[h][k] = history[h][k]
         /\ id'[h] = id[h] /\ input_digest'[h] = input_digest[h]
         /\ expected_steps'[h] = expected_steps[h]

LEMMA FirstRootInjective ==
  ASSUME NEW m, NEW d, NEW s, NEW n, NEW e, NEW t, FirstRoot(m, d, s) = FirstRoot(n, e, t)
  PROVE  m = n /\ d = e /\ s = t
<1>1. <<m, d, s>> = <<n, e, t>>
  BY HashInjective DEF FirstRoot
<1> QED
  BY <1>1

Bound(g, h, i, j) ==
  /\ i = j
  /\ id[g] = id[h]
  /\ input_digest[g] = input_digest[h]
  /\ expected_steps[g] = expected_steps[h]
  /\ SameBeginning(g, h, i - 1)

LEMMA RootsBindStep ==
  ASSUME RootsBind, TypeOK', Chained', Grows
  PROVE  RootsBind'
<1> SUFFICES ASSUME NEW g \in Hosts, NEW h \in Hosts, Fits(g)', Fits(h)',
                    NEW i \in 1 .. Len(chain[g])', NEW j \in 1 .. Len(chain[h])',
                    (chain[g])'[i] = (chain[h])'[j]
             PROVE  Bound(g, h, i, j)'
  BY DEF RootsBind, Bound
<1>0. Linked(g, i)' /\ Linked(h, j)'
  <2>1. AllLinked'
    BY Links, PTL
  <2> QED
    BY <2>1 DEF AllLinked
<1>1. /\ i \in Nat /\ 1 <= i
      /\ i = 1 => chain'[g][i] = FirstRoot(id'[g], input_digest'[g], expected_steps'[g])
      /\ i # 1 => /\ i - 1 \in 1 .. Len(history'[g])
                  /\ history'[g][i - 1] \in Observed
                  /\ chain'[g][i] = NextRoot(chain'[g][i - 1], i - 2, history'[g][i - 1])
  BY <1>0 DEF Linked
<1>2. /\ j \in Nat /\ 1 <= j
      /\ j = 1 => chain'[h][j] = FirstRoot(id'[h], input_digest'[h], expected_steps'[h])
      /\ j # 1 => /\ j - 1 \in 1 .. Len(history'[h])
                  /\ history'[h][j - 1] \in Observed
                  /\ chain'[h][j] = NextRoot(chain'[h][j - 1], j - 2, history'[h][j - 1])
  BY <1>0 DEF Linked
<1>3. CASE i = 1 /\ j = 1
  <2>1. FirstRoot(id'[g], input_digest'[g], expected_steps'[g])
        = FirstRoot(id'[h], input_digest'[h], expected_steps'[h])
    BY <1>1, <1>2, <1>3
  <2>2. id'[g] = id'[h] /\ input_digest'[g] = input_digest'[h] /\ expected_steps'[g] = expected_steps'[h]
    BY <2>1, FirstRootInjective
  <2> QED
    BY <1>3, <2>2 DEF Bound, SameBeginning
<1>4. CASE (i = 1 /\ j # 1) \/ (i # 1 /\ j = 1)
  BY <1>1, <1>2, <1>4, FirstIsNotNext
<1>5. CASE i # 1 /\ j # 1
  <2>1. FitsU32(history'[g][i - 1]) /\ FitsU32(history'[h][j - 1])
    BY <1>1, <1>2, <1>5 DEF Fits
  <2>2. /\ chain'[g][i - 1] = chain'[h][j - 1]
        /\ i - 2 = j - 2
        /\ history'[g][i - 1] = history'[h][j - 1]
    BY <1>1, <1>2, <1>5, <2>1, StepsAreFramed
  <2>3. /\ Fits(g) /\ i - 1 \in 1 .. Len(chain[g]) /\ chain'[g][i - 1] = chain[g][i - 1]
        /\ id'[g] = id[g] /\ input_digest'[g] = input_digest[g] /\ expected_steps'[g] = expected_steps[g]
        /\ \A k \in 1 .. i - 2 : history'[g][k] = history[g][k]
    <3>1. i \in 2 .. Len(chain'[g])
      BY <1>1, <1>5
    <3> QED
      BY <3>1 DEF Grows
  <2>4. /\ Fits(h) /\ j - 1 \in 1 .. Len(chain[h]) /\ chain'[h][j - 1] = chain[h][j - 1]
        /\ id'[h] = id[h] /\ input_digest'[h] = input_digest[h] /\ expected_steps'[h] = expected_steps[h]
        /\ \A k \in 1 .. j - 2 : history'[h][k] = history[h][k]
    <3>1. j \in 2 .. Len(chain'[h])
      BY <1>2, <1>5
    <3> QED
      BY <3>1 DEF Grows
  <2>5. /\ id[g] = id[h] /\ input_digest[g] = input_digest[h] /\ expected_steps[g] = expected_steps[h]
        /\ SameBeginning(g, h, i - 2)
    <3>1. /\ i - 1 = j - 1 /\ i - 1 - 1 = i - 2
          /\ chain[g][i - 1] = chain[h][j - 1]
      <4>1. i - 1 = j - 1 /\ i - 1 - 1 = i - 2
        BY <1>1, <1>2, <2>2
      <4>2. chain[g][i - 1] = chain[h][j - 1]
        BY <2>2, <2>3, <2>4
      <4> QED
        BY <4>1, <4>2
    <3>2. SameBeginning(g, h, i - 1 - 1)
      BY <2>3, <2>4, <3>1 DEF RootsBind
    <3> QED
      BY <2>3, <2>4, <3>1, <3>2 DEF RootsBind
  <2>6. i = j
    BY <1>1, <1>2, <2>2
  <2>7. ASSUME NEW k \in 1 .. i - 1 PROVE history'[g][k] = history'[h][k]
    <3>1. CASE k = i - 1
      BY <2>2, <2>6, <3>1
    <3>2. CASE k # i - 1
      <4>1. k \in 1 .. i - 2
        BY <1>1, <3>2
      <4> QED
        BY <2>3, <2>4, <2>5, <2>6, <4>1 DEF SameBeginning
    <3> QED
      BY <3>1, <3>2
  <2> QED
    BY <2>3, <2>4, <2>5, <2>6, <2>7 DEF Bound, SameBeginning
<1> QED
  BY <1>3, <1>4, <1>5

-----------------------------------------------------------------------------
(* One lemma for each step.                                                 *)
Quiet == UNCHANGED <<pc, identity, bound, trace, output_digest>>

Kept == TypeOK' /\ Digests' /\ Chained' /\ Grows

LEMMA SingletonIsSequence == \A e : IsSequence(<<e>>)
<1> TAKE e
<1> DEFINE s == <<e>>
<1>1. 1 \in DOMAIN s /\ s[1] = e
  OBVIOUS
<1>2. e \in {s[i] : i \in DOMAIN s}
  BY <1>1
<1> QED
  BY <1>2 DEF IsSequence

LEMMA SequenceLen == \A s : IsSequence(s) => Len(s) \in Nat
BY LenProperties DEF IsSequence

LEMMA QuietKeeps ==
  ASSUME Inv, Quiet PROVE Kept
<1> USE DEF Quiet, identity, bound, trace
<1>1. TypeOK'
  <2>1. /\ pc' = pc /\ spec' = spec /\ input' = input /\ expected_steps' = expected_steps
        /\ next_step' = next_step /\ history' = history /\ chain' = chain
        /\ id' = id /\ input_digest' = input_digest /\ output_digest' = output_digest /\ root' = root
    OBVIOUS
  <2> QED
    BY <2>1 DEF Inv, TypeOK
<1>2. Digests'
  BY DEF Inv, Digests, Named, Opened, LastOutput
<1>3. Chained'
  BY DEF Inv, Chained, Opened
<1>4. Grows
  <2> SUFFICES ASSUME NEW h \in Hosts, NEW i \in 2 .. Len(chain[h])
               PROVE  i - 1 \in 1 .. Len(chain[h])
    BY DEF Grows, Fits
  <2>1. Len(chain[h]) \in Nat
    BY SequenceLen DEF Inv, TypeOK
  <2> QED
    BY <2>1
<1> QED
  BY <1>1, <1>2, <1>3, <1>4 DEF Kept

LEMMA NameKeeps ==
  ASSUME Inv, NEW h \in Hosts, NEW s \in Specs, Name(h, s) PROVE Kept
<1>1. CASE SpecError(s) # "none"
  BY <1>1, QuietKeeps DEF Name, Fail, Quiet
<1>2. CASE SpecError(s) = "none"
  <2> USE DEF identity, bound, trace
  <2>1. /\ pc[h] = "start" /\ pc' = [pc EXCEPT ![h] = "named"]
        /\ spec' = [spec EXCEPT ![h] = s] /\ id' = [id EXCEPT ![h] = machine_id(s)]
        /\ UNCHANGED <<bound, trace, output_digest>>
    BY <1>2 DEF Name
  <2>2. s \in MachineSpec
    BY HostInputsAssumption
  <2>3. TypeOK'
    <3>1. /\ pc' \in [Hosts -> {"start", "named", "open", "done", "failed"}]
          /\ spec' \in [Hosts -> MachineSpec]
          /\ Hosts = DOMAIN id'
      BY <2>1, <2>2 DEF Inv, TypeOK
    <3> QED
      BY <2>1, <3>1 DEF Inv, TypeOK
  <2>4. ASSUME NEW k \in Hosts
        PROVE  /\ k # h => pc'[k] = pc[k] /\ spec'[k] = spec[k] /\ id'[k] = id[k]
               /\ k = h => pc'[k] = "named" /\ spec'[k] = s /\ id'[k] = machine_id(s)
               /\ Opened(k)' <=> Opened(k)
    BY <2>1 DEF Inv, TypeOK, Opened
  <2>5. Digests'
    BY <2>1, <2>4 DEF Inv, Digests, Named, Opened, LastOutput
  <2>6. Chained'
    <3> SUFFICES ASSUME NEW k \in Hosts
                 PROVE  IF Opened(k) THEN id'[k] = id[k] ELSE ~Opened(k)'
      BY <2>1, <2>4 DEF Inv, Chained
    <3> QED
      BY <2>1, <2>4 DEF Opened
  <2>7. Grows
    <3> SUFFICES ASSUME NEW k \in Hosts, NEW i \in 2 .. Len(chain[k])
                 PROVE  i - 1 \in 1 .. Len(chain[k]) /\ id'[k] = id[k]
      BY <2>1 DEF Grows, Fits
    <3>1. Opened(k)
      BY DEF Inv, Chained
    <3> QED
      BY <2>1, <2>4, <3>1 DEF Inv, TypeOK, Opened
  <2> QED
    BY <2>3, <2>5, <2>6, <2>7 DEF Kept
<1> QED
  BY <1>1, <1>2

LEMMA NewKeeps ==
  ASSUME Inv, NEW h \in Hosts, NEW in \in Inputs, NEW steps \in Byte, New(h, in, steps)
  PROVE  Kept
<1>1. CASE steps = 0
  BY <1>1, QuietKeeps DEF New, Fail, Quiet
<1>2. CASE steps # 0
  <2> DEFINE digest == DigestOf(id[h], in)
             first == FirstRoot(id[h], digest, steps)
  <2>1. /\ pc[h] = "named" /\ pc' = [pc EXCEPT ![h] = "open"]
        /\ input' = [input EXCEPT ![h] = in]
        /\ input_digest' = [input_digest EXCEPT ![h] = digest]
        /\ expected_steps' = [expected_steps EXCEPT ![h] = steps]
        /\ root' = [root EXCEPT ![h] = first] /\ chain' = [chain EXCEPT ![h] = <<first>>]
        /\ UNCHANGED <<spec, id, next_step, history, output_digest>>
    BY <1>2 DEF New, identity
  <2>2. digest = DigestOf(id[h], in)
    OBVIOUS
  <2>3. first = FirstRoot(id[h], digest, steps)
    OBVIOUS
  <2> HIDE DEF digest, first
  <2>4. next_step[h] = 0 /\ chain[h] = <<>> /\ history[h] = <<>> /\ history[h] \in Seq(Observed)
    <3>1. ~Opened(h)
      BY <2>1 DEF Opened
    <3>2. next_step[h] = 0 /\ chain[h] = <<>>
      BY <3>1 DEF Inv, Chained
    <3>3. history[h] \in Seq(Observed) /\ Len(history[h]) = 0
      BY <3>2 DEF Inv, TypeOK
    <3> QED
      BY <3>2, <3>3, EmptySeq
  <2>5. ASSUME NEW k \in Hosts
        PROVE  /\ k # h => /\ pc'[k] = pc[k] /\ input'[k] = input[k]
                           /\ input_digest'[k] = input_digest[k]
                           /\ expected_steps'[k] = expected_steps[k]
                           /\ root'[k] = root[k] /\ chain'[k] = chain[k]
               /\ k = h => /\ pc'[k] = "open" /\ input'[k] = in /\ input_digest'[k] = digest
                           /\ expected_steps'[k] = steps
                           /\ root'[k] = first /\ chain'[k] = <<first>>
    BY <2>1 DEF Inv, TypeOK
  <2>6. TypeOK'
    <3>1. \A k \in Hosts : IsSequence(chain'[k])
      <4> SUFFICES ASSUME NEW k \in Hosts PROVE IsSequence(chain'[k])
        OBVIOUS
      <4>1. IsSequence(chain[k])
        BY DEF Inv, TypeOK
      <4>2. IsSequence(<<first>>)
        BY SingletonIsSequence
      <4> QED
        BY <2>5, <4>1, <4>2
    <3>2. /\ pc' \in [Hosts -> {"start", "named", "open", "done", "failed"}]
          /\ input' \in [Hosts -> Inputs \cup {NoInput}]
          /\ expected_steps' \in [Hosts -> Byte]
      BY <2>1 DEF Inv, TypeOK
    <3>3. \A k \in Hosts : next_step'[k] <= expected_steps'[k]
      BY <2>1, <2>4, <2>5 DEF Inv, TypeOK, Byte
    <3>4. Hosts = DOMAIN input_digest' /\ Hosts = DOMAIN root' /\ Hosts = DOMAIN chain'
      BY <2>1 DEF Inv, TypeOK
    <3> QED
      BY <2>1, <3>1, <3>2, <3>3, <3>4 DEF Inv, TypeOK
  <2>7. Digests'
    BY <2>1, <2>2, <2>5 DEF Inv, Digests, Named, Opened, LastOutput
  <2>8. Chained'
    <3> SUFFICES ASSUME NEW k \in Hosts
                 PROVE  IF Opened(k)'
                        THEN /\ Len(chain'[k]) = next_step[k] + 1
                             /\ chain'[k][1] = FirstRoot(id[k], input_digest'[k], expected_steps'[k])
                             /\ \A i \in 1 .. next_step[k] :
                                  chain'[k][i + 1] = NextRoot(chain'[k][i], i - 1, history[k][i])
                             /\ root'[k] = chain'[k][next_step[k] + 1]
                             /\ expected_steps'[k] # 0
                        ELSE chain'[k] = <<>> /\ next_step[k] = 0
      BY <2>1 DEF Chained
    <3>1. CASE k # h
      <4>1. Opened(k)' <=> Opened(k)
        BY <2>5, <3>1 DEF Opened
      <4> QED
        BY <2>5, <3>1, <4>1 DEF Inv, Chained
    <3>2. CASE k = h
      <4>1. /\ Opened(k)' /\ chain'[k] = <<first>> /\ root'[k] = first /\ expected_steps'[k] = steps
            /\ input_digest'[k] = digest /\ next_step[k] = 0
        BY <2>4, <2>5, <3>2 DEF Opened
      <4>2. Len(chain'[k]) = 1 /\ chain'[k][1] = first /\ 1 .. 0 = {}
        BY <4>1
      <4> QED
        BY <1>2, <2>3, <3>2, <4>1, <4>2
    <3> QED
      BY <3>1, <3>2
  <2>9. Grows
    <3> SUFFICES ASSUME NEW k \in Hosts, NEW i \in 2 .. Len(chain'[k])
                 PROVE  /\ i - 1 \in 1 .. Len(chain[k]) /\ chain'[k][i - 1] = chain[k][i - 1]
                        /\ input_digest'[k] = input_digest[k]
                        /\ expected_steps'[k] = expected_steps[k]
      BY <2>1 DEF Grows, Fits
    <3>1. k # h
      <4> SUFFICES ASSUME k = h PROVE FALSE
        OBVIOUS
      <4>1. Len(chain'[k]) = 1
        BY <2>5
      <4> QED
        BY <4>1
    <3>2. chain'[k] = chain[k] /\ Len(chain[k]) \in Nat
      BY <2>5, <3>1, SequenceLen DEF Inv, TypeOK
    <3>3. i - 1 \in 1 .. Len(chain[k])
      BY <3>2
    <3> QED
      BY <2>5, <3>1, <3>2, <3>3
  <2> QED
    BY <2>6, <2>7, <2>8, <2>9 DEF Kept
<1> QED
  BY <1>1, <1>2

LEMMA AppendIsSequence ==
  ASSUME NEW s, IsSequence(s), NEW e
  PROVE  /\ IsSequence(Append(s, e)) /\ Len(Append(s, e)) = Len(s) + 1
         /\ Append(s, e)[Len(s) + 1] = e
         /\ \A i \in 1 .. Len(s) : Append(s, e)[i] = s[i]
<1> DEFINE R == {s[i] : i \in DOMAIN s}
           T == R \cup {e}
           t == Append(s, e)
<1>1. s \in Seq(R)
  BY DEF IsSequence
<1> HIDE DEF R
<1>2. s \in Seq(T) /\ e \in T /\ Len(s) \in Nat
  BY <1>1, SeqMonotonic, LenProperties
<1> HIDE DEF T
<1>3. /\ t \in Seq(T) /\ Len(t) = Len(s) + 1 /\ t[Len(s) + 1] = e
      /\ \A i \in 1 .. Len(s) : t[i] = s[i]
  BY <1>2, AppendProperties
<1>4. IsSequence(t)
  <2> HIDE DEF t
  <2> DEFINE U == {t[i] : i \in DOMAIN t}
  <2>1. DOMAIN t = 1 .. Len(t) /\ Len(t) \in Nat
    BY <1>3, LenProperties
  <2>2. \A i \in 1 .. Len(t) : t[i] \in U
    BY <2>1
  <2>3. t = [i \in 1 .. Len(t) |-> t[i]]
    BY <1>3, <2>1
  <2> HIDE DEF U
  <2>4. t \in Seq(U)
    BY <2>1, <2>2, <2>3, IsASeq
  <2> QED
    BY <2>4 DEF IsSequence, U
<1> QED
  BY <1>3, <1>4

(* A step that leaves the histories and the roots alone.                    *)
LEMMA SameRootsGrow ==
  ASSUME Inv, UNCHANGED <<id, input_digest, expected_steps, history, chain>> PROVE Grows
<1> SUFFICES ASSUME NEW k \in Hosts, NEW i \in 2 .. Len(chain[k])
             PROVE  i - 1 \in 1 .. Len(chain[k])
  BY DEF Grows, Fits
<1>1. Len(chain[k]) \in Nat
  BY SequenceLen DEF Inv, TypeOK
<1> QED
  BY <1>1

LEMMA PushKeeps ==
  ASSUME Inv, NEW h \in Hosts, NEW o \in Observed, Push(h, o) PROVE Kept
<1>1. CASE Full(h)
  BY <1>1, QuietKeeps DEF Push, Fail, Quiet
<1>2. CASE ~Full(h)
  <2> DEFINE n == next_step[h]
             next == NextRoot(root[h], n, o)
  <2>1. /\ pc[h] = "open"
        /\ root' = [root EXCEPT ![h] = next]
        /\ chain' = [chain EXCEPT ![h] = Append(chain[h], next)]
        /\ next_step' = [next_step EXCEPT ![h] = n + 1]
        /\ history' = [history EXCEPT ![h] = Append(history[h], o)]
        /\ UNCHANGED <<pc, spec, id, input, input_digest, expected_steps, output_digest>>
    BY <1>2 DEF Push, identity, bound
  <2>2. /\ n \in Nat /\ n + 1 \in Byte /\ n + 1 <= expected_steps[h]
        /\ history[h] \in Seq(Observed) /\ Len(history[h]) = n /\ IsSequence(chain[h])
    <3>1. n \in Byte /\ expected_steps[h] \in Byte /\ ~(n >= expected_steps[h])
      BY <1>2 DEF Full, Inv, TypeOK
    <3> QED
      BY <3>1, WidthsAssumption DEF Inv, TypeOK, Byte
  <2>3. /\ Len(chain[h]) = n + 1 /\ root[h] = chain[h][n + 1]
        /\ chain[h][1] = FirstRoot(id[h], input_digest[h], expected_steps[h])
        /\ \A i \in 1 .. n : chain[h][i + 1] = NextRoot(chain[h][i], i - 1, history[h][i])
    BY <2>1 DEF Inv, Chained, Opened
  <2>4. next = NextRoot(chain[h][n + 1], n, o)
    BY <2>3
  <2> HIDE DEF n, next
  <2>5. /\ history'[h] \in Seq(Observed) /\ Len(history'[h]) = n + 1 /\ history'[h][n + 1] = o
        /\ \A i \in 1 .. n : history'[h][i] = history[h][i]
    <3>1. history'[h] = Append(history[h], o)
      BY <2>1 DEF Inv, TypeOK
    <3> QED
      BY <2>2, <3>1, AppendProperties
  <2>6. /\ IsSequence(chain'[h]) /\ Len(chain'[h]) = n + 2 /\ chain'[h][n + 2] = next
        /\ \A i \in 1 .. n + 1 : chain'[h][i] = chain[h][i]
    <3>1. chain'[h] = Append(chain[h], next)
      BY <2>1 DEF Inv, TypeOK
    <3>2. n + 1 + 1 = n + 2
      BY <2>2
    <3> QED
      BY <2>2, <2>3, <3>1, <3>2, AppendIsSequence
  <2>7. root'[h] = next /\ next_step'[h] = n + 1
    BY <2>1 DEF Inv, TypeOK
  <2>8. ASSUME NEW k \in Hosts, k # h
        PROVE  /\ root'[k] = root[k] /\ chain'[k] = chain[k]
               /\ next_step'[k] = next_step[k] /\ history'[k] = history[k]
    BY <2>1, <2>8 DEF Inv, TypeOK
  <2>9. TypeOK'
    <3>1. next_step' \in [Hosts -> Byte] /\ history' \in [Hosts -> Seq(Observed)]
      <4>1. Append(history[h], o) \in Seq(Observed)
        BY <2>2, AppendProperties
      <4> QED
        BY <2>1, <2>2, <4>1 DEF Inv, TypeOK
    <3>2. \A k \in Hosts : next_step'[k] <= expected_steps[k]
      BY <2>2, <2>7, <2>8 DEF Inv, TypeOK
    <3>3. \A k \in Hosts : Len(history'[k]) = next_step'[k]
      BY <2>5, <2>7, <2>8 DEF Inv, TypeOK
    <3>4. \A k \in Hosts : IsSequence(chain'[k])
      BY <2>6, <2>8 DEF Inv, TypeOK
    <3>5. Hosts = DOMAIN root' /\ Hosts = DOMAIN chain'
      BY <2>1 DEF Inv, TypeOK
    <3> QED
      BY <2>1, <3>1, <3>2, <3>3, <3>4, <3>5 DEF Inv, TypeOK
  <2>10. Digests'
    <3>1. pc[h] # "done"
      BY <2>1
    <3> QED
      BY <2>1, <2>8, <3>1 DEF Inv, Digests, Named, Opened, LastOutput
  <2>11. Chained'
    <3> SUFFICES ASSUME NEW k \in Hosts
                 PROVE  IF Opened(k)
                        THEN /\ Len(chain'[k]) = next_step'[k] + 1
                             /\ chain'[k][1] = FirstRoot(id[k], input_digest[k], expected_steps[k])
                             /\ \A i \in 1 .. next_step'[k] :
                                  chain'[k][i + 1] = NextRoot(chain'[k][i], i - 1, history'[k][i])
                             /\ root'[k] = chain'[k][next_step'[k] + 1]
                             /\ expected_steps[k] # 0
                        ELSE chain'[k] = <<>> /\ next_step'[k] = 0
      BY <2>1 DEF Chained, Opened
    <3>1. CASE k # h
      BY <2>8, <3>1 DEF Inv, Chained
    <3>2. CASE k = h
      <4>1. Opened(h) /\ expected_steps[h] # 0
        BY <2>1 DEF Opened, Inv, Chained
      <4>2. n + 1 + 1 = n + 2 /\ 1 \in 1 .. n + 1
        BY <2>2
      <4>3. ASSUME NEW i \in 1 .. n + 1
            PROVE  chain'[h][i + 1] = NextRoot(chain'[h][i], i - 1, history'[h][i])
        <5>1. CASE i \in 1 .. n
          <6>1. i + 1 \in 1 .. n + 1
            BY <2>2, <5>1
          <6> QED
            BY <2>3, <2>5, <2>6, <5>1, <6>1
        <5>2. CASE i = n + 1
          <6>1. i + 1 = n + 2 /\ i - 1 = n
            BY <2>2, <5>2
          <6> QED
            BY <2>4, <2>5, <2>6, <5>2, <6>1
        <5> QED
          BY <2>2, <5>1, <5>2
      <4> QED
        BY <2>3, <2>6, <2>7, <3>2, <4>1, <4>2, <4>3
    <3> QED
      BY <3>1, <3>2
  <2>12. Grows
    <3> SUFFICES ASSUME NEW k \in Hosts
                 PROVE  /\ Fits(k)' => Fits(k)
                        /\ \A i \in 2 .. Len(chain'[k]) :
                             /\ i - 1 \in 1 .. Len(chain[k])
                             /\ chain'[k][i - 1] = chain[k][i - 1]
                             /\ \A j \in 1 .. i - 2 : history'[k][j] = history[k][j]
      BY <2>1 DEF Grows
    <3>1. CASE k # h
      <4>1. Len(chain[k]) \in Nat
        BY SequenceLen DEF Inv, TypeOK
      <4> QED
        BY <2>8, <3>1, <4>1 DEF Fits
    <3>2. CASE k = h
      <4>1. Fits(h)' => Fits(h)
        <5> SUFFICES ASSUME \A i \in 1 .. n + 1 : FitsU32(history'[h][i]), NEW i \in 1 .. n
                     PROVE  FitsU32(history[h][i])
          BY <2>2, <2>5 DEF Fits
        <5>1. i \in 1 .. n + 1
          BY <2>2
        <5> QED
          BY <2>5, <5>1
      <4>2. ASSUME NEW i \in 2 .. n + 2
            PROVE  i - 1 \in 1 .. n + 1 /\ \A j \in 1 .. i - 2 : j \in 1 .. n
        BY <2>2
      <4> QED
        BY <2>3, <2>5, <2>6, <3>2, <4>1, <4>2
    <3> QED
      BY <3>1, <3>2
  <2> QED
    BY <2>9, <2>10, <2>11, <2>12 DEF Kept
<1> QED
  BY <1>1, <1>2

LEMMA FinishKeeps ==
  ASSUME Inv, NEW h \in Hosts, finish(h) PROVE Kept
<1> DEFINE q == IF Complete(h) THEN "done" ELSE "failed"
<1>1. /\ pc[h] = "open" /\ pc' = [pc EXCEPT ![h] = q]
      /\ UNCHANGED <<spec, id, input, input_digest, expected_steps, root, next_step, history,
                     chain, output_digest>>
  BY DEF finish, identity, bound, trace
<1>2. q \in {"done", "failed"}
  OBVIOUS
<1>3. ASSUME NEW k \in Hosts
      PROVE  /\ k # h => pc'[k] = pc[k]
             /\ k = h => pc'[k] = q
  BY <1>1 DEF Inv, TypeOK
<1>4. q = "done" => next_step[h] = expected_steps[h]
  BY DEF Complete
<1> HIDE DEF q
<1>5. TypeOK'
  <2>1. pc' \in [Hosts -> {"start", "named", "open", "done", "failed"}]
    BY <1>1, <1>2 DEF Inv, TypeOK
  <2> QED
    BY <1>1, <2>1 DEF Inv, TypeOK
<1>6. \A k \in Hosts : (Opened(k)' <=> Opened(k)) /\ (Named(k)' <=> Named(k))
  BY <1>1, <1>2, <1>3 DEF Opened, Named
<1>7. Digests'
  <2>1. \A k \in Hosts : output_digest[k] # None => k # h
    BY <1>1 DEF Inv, Digests
  <2> QED
    BY <1>1, <1>3, <1>4, <1>6, <2>1 DEF Inv, Digests, LastOutput
<1>8. Chained'
  BY <1>1, <1>6 DEF Inv, Chained
<1>9. Grows
  BY <1>1, SameRootsGrow
<1> QED
  BY <1>5, <1>7, <1>8, <1>9 DEF Kept

LEMMA CommitKeeps ==
  ASSUME Inv, NEW h \in Hosts, CommitOutput(h) PROVE Kept
<1>1. /\ pc[h] = "done" /\ Hosts = DOMAIN output_digest'
      /\ UNCHANGED <<pc, spec, id, input, input_digest, expected_steps, root, next_step,
                     history, chain>>
  BY DEF CommitOutput, identity, bound, trace, Inv, TypeOK
<1>2. /\ \A k \in Hosts : k # h => output_digest'[k] = output_digest[k]
      /\ output_digest'[h] =
           machine_output_digest(id[h], input_digest[h], spec[h].output_count, LastOutput(h))
  BY DEF CommitOutput, Inv, TypeOK
<1>3. TypeOK'
  BY <1>1 DEF Inv, TypeOK
<1>4. Digests'
  BY <1>1, <1>2 DEF Inv, Digests, Named, Opened, LastOutput
<1>5. Chained'
  BY <1>1 DEF Inv, Chained, Opened
<1>6. Grows
  BY <1>1, SameRootsGrow
<1> QED
  BY <1>3, <1>4, <1>5, <1>6 DEF Kept

-----------------------------------------------------------------------------
LEMMA InitInv == Init => Inv
<1> SUFFICES ASSUME Init PROVE Inv
  OBVIOUS
<1>1. TypeOK
  <2>1. NoSpec \in MachineSpec
    <3>1. 0 \in Nat /\ 0 \in u32
      BY WidthsAssumption DEF u32
    <3> QED
      BY <3>1, Zenon DEF NoSpec, MachineSpec
  <2>2. IsSequence(<<>>)
    BY DEF IsSequence
  <2>3. 0 \in Byte
    BY WidthsAssumption DEF Byte
  <2> QED
    BY <2>1, <2>2, <2>3 DEF Init, TypeOK
<1>2. Digests /\ Chained
  BY DEF Init, Digests, Chained, Named, Opened
<1>3. RootsBind
  BY DEF Init, RootsBind
<1> QED
  BY <1>1, <1>2, <1>3 DEF Inv

LEMMA StepInv == Inv /\ [Next]_vars => Inv'
<1> SUFFICES ASSUME Inv, [Next]_vars PROVE Inv'
  OBVIOUS
<1>1. CASE UNCHANGED vars
  <2>1. Kept
    BY <1>1, QuietKeeps DEF vars, Quiet
  <2> QED
    BY <2>1, RootsBindStep DEF Kept, Inv
<1>2. CASE Next
  <2>1. Kept
    BY <1>2, NameKeeps, NewKeeps, PushKeeps, FinishKeeps,
       CommitKeeps DEF Next
  <2> QED
    BY <2>1, RootsBindStep DEF Kept, Inv
<1> QED
  BY <1>1, <1>2

(* The invariant holds of every behaviour, whatever the hosts, the widths   *)
(* and the bytes: digests are what the calls of a host compute, and roots   *)
(* bind their histories.                                                    *)
THEOREM Invariant == Spec => []Inv
<1> QED
  BY InitInv, StepInv, PTL DEF Spec

(* The step counter of a trace never passes the declared steps, and so      *)
(* never wraps (line 71).                                                   *)
THEOREM TypeCorrect == Spec => []TypeOK
<1>1. Inv => TypeOK
  BY DEF Inv
<1> QED
  BY <1>1, Invariant, PTL

(* Equal roots have the same machine, input, declared steps and history.    *)
THEOREM RootsAreBinding == Spec => []RootsBind
<1>1. Inv => RootsBind
  BY DEF Inv
<1> QED
  BY <1>1, Invariant, PTL

(* A root that finish returned names the whole run.                         *)
THEOREM RootsNameRuns == Spec => []FinishedRootsNameRuns
<1>1. Inv => FinishedRootsNameRuns
  <2> SUFFICES ASSUME Inv PROVE FinishedRootsNameRuns
    OBVIOUS
  <2>1. ASSUME NEW h \in Hosts, pc[h] = "done"
        PROVE  /\ Len(history[h]) = expected_steps[h] /\ next_step[h] = expected_steps[h]
               /\ history[h] \in Seq(Observed) /\ next_step[h] \in Nat
               /\ Len(chain[h]) = next_step[h] + 1 /\ root[h] = chain[h][next_step[h] + 1]
               /\ id[h] = machine_id(spec[h]) /\ spec[h] \in MachineSpec
               /\ input_digest[h] = DigestOf(id[h], input[h])
               /\ input[h] \in Inputs \cup {NoInput}
    BY <2>1 DEF Inv, TypeOK, Digests, Chained, Named, Opened, Byte
  <2>2. ASSUME NEW g \in Hosts, NEW h \in Hosts, pc[g] = "done", pc[h] = "done",
               root[g] = root[h], Fits(g), Fits(h)
        PROVE  SameRun(g, h)
    <3> DEFINE i == next_step[g] + 1
               j == next_step[h] + 1
    <3>1. i \in 1 .. Len(chain[g]) /\ j \in 1 .. Len(chain[h]) /\ chain[g][i] = chain[h][j]
      BY <2>1, <2>2
    <3>2. /\ i = j /\ id[g] = id[h] /\ input_digest[g] = input_digest[h]
          /\ SameBeginning(g, h, i - 1)
      <4> HIDE DEF i, j
      <4> QED
        BY <2>2, <3>1 DEF Inv, RootsBind
    <3>3. spec[g] = spec[h]
      BY <2>1, <2>2, <3>2, MachineIdInjective
    <3>4. input[g] = input[h]
      <4> DEFINE x == input[g]
               y == input[h]
      <4>1. /\ DigestOf(id[g], x) = DigestOf(id[h], y)
             /\ x \in Inputs \cup {NoInput} /\ y \in Inputs \cup {NoInput}
        BY <2>1, <2>2, <3>2
      <4> HIDE DEF x, y
      <4>2. x = y
        BY <4>1, InputDigestInjective
      <4> QED
        BY <4>2 DEF x, y
    <3>5. history[g] = history[h]
      <4>1. next_step[g] = next_step[h] /\ i - 1 = next_step[g]
        BY <2>1, <2>2, <3>2
      <4>2. /\ history[g] \in Seq(Observed) /\ history[h] \in Seq(Observed)
            /\ Len(history[g]) = next_step[g] /\ Len(history[h]) = next_step[g]
        BY <2>1, <2>2, <4>1
      <4>3. \A k \in 1 .. next_step[g] : history[g][k] = history[h][k]
        BY <3>2, <4>1 DEF SameBeginning
      <4> QED
        BY <4>2, <4>3, SeqEqual
    <3> QED
      BY <3>3, <3>4, <3>5 DEF SameRun
  <2> QED
    BY <2>1, <2>2 DEF FinishedRootsNameRuns
<1> QED
  BY <1>1, Invariant, PTL

(* An output commitment names the machine, the bound input and the output.  *)
THEOREM OutputsNameRuns == Spec => []OutputsBind
<1>1. Inv => OutputsBind
  <2> SUFFICES ASSUME Inv, NEW g \in Hosts, NEW h \in Hosts, output_digest[g] # None,
                      output_digest[g] = output_digest[h]
               PROVE  spec[g] = spec[h] /\ input[g] = input[h] /\ LastOutput(g) = LastOutput(h)
    BY DEF OutputsBind
  <2>1. ASSUME NEW k \in {g, h}
        PROVE  /\ id[k] = machine_id(spec[k]) /\ spec[k] \in MachineSpec
               /\ input_digest[k] = DigestOf(id[k], input[k])
               /\ input[k] \in Inputs \cup {NoInput}
               /\ output_digest[k] = machine_output_digest(id[k], input_digest[k], spec[k].output_count, LastOutput(k))
    BY DEF Inv, TypeOK, Digests, Named, Opened
  <2>2. /\ <<id[g], input_digest[g], spec[g].output_count>> = <<id[h], input_digest[h], spec[h].output_count>>
        /\ LastOutput(g) = LastOutput(h)
    BY <2>1, HashInjective DEF machine_output_digest
  <2>3. id[g] = id[h] /\ input_digest[g] = input_digest[h]
    BY <2>2
  <2>4. spec[g] = spec[h]
    BY <2>1, <2>3, MachineIdInjective
  <2>5. input[g] = input[h]
    <3> DEFINE x == input[g]
             y == input[h]
    <3>1. /\ DigestOf(id[g], x) = DigestOf(id[h], y)
           /\ x \in Inputs \cup {NoInput} /\ y \in Inputs \cup {NoInput}
      BY <2>1, <2>3
    <3> HIDE DEF x, y
    <3>2. x = y
      BY <3>1, InputDigestInjective
    <3> QED
      BY <3>2 DEF x, y
  <2> QED
    BY <2>2, <2>4, <2>5
<1> QED
  BY <1>1, Invariant, PTL

=============================================================================
