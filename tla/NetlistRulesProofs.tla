------------------------- MODULE NetlistRulesProofs -------------------------
(***************************************************************************)
(* Proofs about the rules for netlists: the checks of encode_netlist, made  *)
(* gate by gate with a flag, let through exactly the valid circuits that    *)
(* fit.  The step from the flag to the latch count is that latches with no  *)
(* NAND before them are the first ones.                                     *)
(***************************************************************************)
EXTENDS NetlistBytes, FiniteSetTheorems, SequenceTheorems, WellFoundedInduction, TLAPS

-----------------------------------------------------------------------------
(* Numbers.                                                                 *)

LEMMA MaxU32IsNat == MAX_U32 \in Nat /\ MAX_U24 \in Nat /\ MAX_U24 < MAX_U32
BY LimitsAssumption

LEMMA Least ==
  ASSUME NEW S \in SUBSET Nat, S # {}
  PROVE  \E m \in S : \A k \in S : m <= k
<1> DEFINE R == OpToRel(<, Nat)
<1>1. IsWellFoundedOn(R, Nat)
  BY NatLessThanWellFounded
<1>2. \A x, y \in Nat : <<y, x>> \in R <=> y < x
  BY DEF OpToRel
<1> HIDE DEF R
<1>3. PICK x \in S : \A y \in S : ~ (<<y, x>> \in R)
  BY <1>1, WFMin
<1>4. ASSUME NEW y \in S PROVE x <= y
  <2>1. x \in Nat /\ y \in Nat
    OBVIOUS
  <2>2. ~(y < x)
    BY <1>2, <1>3, <2>1
  <2> QED
    BY <2>1, <2>2
<1> QED
  BY <1>4

-----------------------------------------------------------------------------
(* The latches of a netlist.                                                *)

LatchIndices(s) == {i \in DOMAIN s : s[i].op = "latch"}

LEMMA LatchCount ==
  ASSUME NEW s \in Seq(NetlistGate)
  PROVE  /\ DOMAIN s = 1 .. Len(s) /\ Len(s) \in Nat
         /\ IsFiniteSet(LatchIndices(s))
         /\ Cardinality(LatchIndices(s)) \in 0 .. Len(s)
<1>1. DOMAIN s = 1 .. Len(s) /\ Len(s) \in Nat
  OBVIOUS
<1>2. IsFiniteSet(1 .. Len(s)) /\ Cardinality(1 .. Len(s)) = Len(s)
  BY <1>1, FS_Interval
<1>3. LatchIndices(s) \subseteq 1 .. Len(s)
  BY <1>1 DEF LatchIndices
<1>4. /\ IsFiniteSet(LatchIndices(s))
      /\ Cardinality(LatchIndices(s)) <= Len(s)
  BY <1>2, <1>3, FS_Subset
<1>5. Cardinality(LatchIndices(s)) \in Nat
  BY <1>4, FS_CardinalityType
<1> QED
  BY <1>1, <1>4, <1>5

LEMMA GateOps ==
  ASSUME NEW g \in NetlistGate
  PROVE  /\ g.op = "nand" <=> g.op # "latch"
         /\ g.op = "nand" => g = Nand(g.a, g.b) /\ g.a \in 0 .. MAX_U32 /\ g.b \in 0 .. MAX_U32
         /\ g.op = "latch" => g = Latch(g.d) /\ g.d \in 0 .. MAX_U32
BY DEF NetlistGate, Nand, Latch

(* No latch behind a NAND.                                                  *)
LatchesFirst(s) ==
  \A i, j \in DOMAIN s : i < j /\ s[j].op = "latch" => s[i].op = "latch"

(* Then the latches are the first ones, as many as there are.               *)
LEMMA LatchPrefix ==
  ASSUME NEW s \in Seq(NetlistGate)
  PROVE  LatchesFirst(s)
           <=> \A i \in DOMAIN s : s[i].op = "latch" <=> i <= Cardinality(LatchIndices(s))
<1> DEFINE L == LatchIndices(s)
           N == Len(s)
<1>1. DOMAIN s = 1 .. N /\ N \in Nat /\ Cardinality(L) \in Nat
  BY LatchCount
<1>2. \A i : i \in L <=> i \in 1 .. N /\ s[i].op = "latch"
  BY <1>1 DEF LatchIndices
<1>3. ASSUME \A i \in DOMAIN s : s[i].op = "latch" <=> i <= Cardinality(L)
      PROVE  LatchesFirst(s)
  BY <1>1, <1>3 DEF LatchesFirst
<1>4. ASSUME LatchesFirst(s)
      PROVE  \A i \in DOMAIN s : s[i].op = "latch" <=> i <= Cardinality(L)
  <2> DEFINE Others == {m \in 1 .. N + 1 : m \notin L}
  <2>1. Others \in SUBSET Nat /\ N + 1 \in Others
    BY <1>1, <1>2
  <2>2. PICK m \in Others : \A k \in Others : m <= k
    BY <2>1, Least
  <2>3. m \in 1 .. N + 1 /\ m \notin L
    BY <2>2
  <2>4. ASSUME NEW i \in L PROVE i \in 1 .. m - 1
    <3>1. i \in 1 .. N /\ s[i].op = "latch"
      BY <1>2
    <3>2. CASE i < m
      BY <1>1, <2>3, <3>1, <3>2
    <3>3. CASE m < i
      <4>1. m \in 1 .. N
        BY <1>1, <2>3, <3>1, <3>3
      <4>2. s[m].op = "latch"
        BY <1>1, <1>4, <3>1, <3>3, <4>1 DEF LatchesFirst
      <4> QED
        BY <1>2, <2>3, <4>1, <4>2
    <3> QED
      BY <1>1, <2>3, <3>1, <3>2, <3>3
  <2>5. ASSUME NEW i \in 1 .. m - 1 PROVE i \in L
    <3>1. i \in 1 .. N + 1 /\ ~(m <= i)
      BY <1>1, <2>3
    <3> QED
      BY <2>2, <3>1
  <2>6. L = 1 .. m - 1
    BY <2>4, <2>5
  <2>7. m - 1 \in Nat /\ 1 \in Int /\ m - 1 \in Int
    BY <1>1, <2>3
  <2>8. Cardinality(1 .. m - 1) = IF 1 > m - 1 THEN 0 ELSE m - 1 - 1 + 1
    BY <2>7, FS_Interval
  <2>9. Cardinality(L) = m - 1
    BY <2>6, <2>7, <2>8
  <2> HIDE DEF L
  <2> QED
    BY <1>1, <1>2, <2>6, <2>7, <2>9
<1> QED
  BY <1>3, <1>4

-----------------------------------------------------------------------------
(* The checks, one by one.                                                  *)

LEMMA NetlistFields ==
  ASSUME NEW n \in Netlist
  PROVE  /\ n.input_count \in Nat /\ n.outputs \in Seq(0 .. MAX_U32)
         /\ n.gates \in Seq(NetlistGate)
         /\ Len(n.outputs) \in Nat /\ Len(n.gates) \in Nat
         /\ DOMAIN n.outputs = 1 .. Len(n.outputs) /\ DOMAIN n.gates = 1 .. Len(n.gates)
         /\ SignalCount(n) \in Nat /\ SignalCount(n) > Len(n.gates)
         /\ \A k \in DOMAIN n.outputs : n.outputs[k] \in 0 .. MAX_U32
         /\ \A i \in DOMAIN n.gates : n.gates[i] \in NetlistGate
<1>1. n.input_count \in Nat /\ n.outputs \in Seq(0 .. MAX_U32) /\ n.gates \in Seq(NetlistGate)
  BY MaxU32IsNat DEF Netlist
<1>2. Len(n.outputs) \in Nat /\ Len(n.gates) \in Nat
  BY <1>1, LenProperties
<1>3. /\ DOMAIN n.outputs = 1 .. Len(n.outputs) /\ DOMAIN n.gates = 1 .. Len(n.gates)
      /\ \A k \in DOMAIN n.outputs : n.outputs[k] \in 0 .. MAX_U32
      /\ \A i \in DOMAIN n.gates : n.gates[i] \in NetlistGate
  BY <1>1, ElementOfSeq, LenProperties
<1>4. SignalCount(n) \in Nat /\ SignalCount(n) > Len(n.gates)
  BY <1>1, <1>2 DEF SignalCount
<1> QED
  BY <1>1, <1>2, <1>3, <1>4

(* The counts and the outputs.                                              *)
LEMMA CountsFit ==
  ASSUME NEW n \in Netlist
  PROVE  CountsError(n) = "none"
           <=> /\ Len(n.outputs) <= MAX_U32
               /\ SignalCount(n) - 1 <= MAX_U24
               /\ \A k \in DOMAIN n.outputs : n.outputs[k] < SignalCount(n)
<1>1. /\ Len(n.outputs) \in Nat /\ Len(n.gates) \in Nat
      /\ SignalCount(n) \in Nat /\ SignalCount(n) > Len(n.gates)
      /\ \A k \in DOMAIN n.outputs : n.outputs[k] \in Nat
  BY NetlistFields, MaxU32IsNat
<1>2. (\E k \in DOMAIN n.outputs : n.outputs[k] >= SignalCount(n))
        <=> ~ \A k \in DOMAIN n.outputs : n.outputs[k] < SignalCount(n)
  BY <1>1
<1>3. ~(SignalCount(n) - 1 > MAX_U24) => ~(SignalCount(n) > MAX_U32) /\ ~(Len(n.gates) > MAX_U32)
  BY <1>1, MaxU32IsNat
<1>4. (Len(n.outputs) > MAX_U32 <=> ~(Len(n.outputs) <= MAX_U32))
      /\ (SignalCount(n) - 1 > MAX_U24 <=> ~(SignalCount(n) - 1 <= MAX_U24))
  BY <1>1, MaxU32IsNat
<1> QED
  BY <1>2, <1>3, <1>4 DEF CountsError

(* What a gate may read, the latches aside.                                 *)
ReadsWell(n, i) ==
  IF n.gates[i].op = "nand"
  THEN n.gates[i].a < 1 + n.input_count + i /\ n.gates[i].b < 1 + n.input_count + i
  ELSE n.gates[i].d < SignalCount(n)

LEMMA GateFits ==
  ASSUME NEW n \in Netlist, NEW i \in 1 .. Len(n.gates)
  PROVE  GateError(n, i - 1, SawNand(n, i - 1)) = "none"
           <=> /\ ReadsWell(n, i)
               /\ n.gates[i].op = "latch" =>
                    \A j \in 1 .. i - 1 : n.gates[j].op = "latch"
<1> DEFINE g == n.gates[i]
<1>1. /\ i \in DOMAIN n.gates /\ g \in NetlistGate /\ Len(n.gates) \in Nat
      /\ n.input_count \in Nat /\ SignalCount(n) \in Nat /\ i - 1 + 1 = i
  BY NetlistFields
<1>2. \A j \in 1 .. i - 1 : n.gates[j] \in NetlistGate
  BY <1>1, NetlistFields
<1>3. SawNand(n, i - 1) <=> ~ \A j \in 1 .. i - 1 : n.gates[j].op = "latch"
  BY <1>2, GateOps DEF SawNand
<1>4. GateError(n, i - 1, SawNand(n, i - 1)) =
        IF g.op = "nand"
        THEN IF g.a >= 2 + n.input_count + (i - 1) \/ g.b >= 2 + n.input_count + (i - 1)
             THEN "InvalidNandReference" ELSE "none"
        ELSE IF SawNand(n, i - 1) THEN "NonCanonicalLatchOrder"
             ELSE IF g.d >= SignalCount(n) THEN "InvalidLatchReference" ELSE "none"
  BY <1>1 DEF GateError
<1>5. CASE g.op = "nand"
  <2>1. g.a \in Nat /\ g.b \in Nat /\ g.op # "latch"
    BY <1>1, <1>5, GateOps, MaxU32IsNat
  <2>2. ASSUME NEW x \in Nat
        PROVE  x >= 2 + n.input_count + (i - 1) <=> ~(x < 1 + n.input_count + i)
    BY <1>1
  <2>3. /\ g.a >= 2 + n.input_count + (i - 1) <=> ~(g.a < 1 + n.input_count + i)
        /\ g.b >= 2 + n.input_count + (i - 1) <=> ~(g.b < 1 + n.input_count + i)
    BY <2>1, <2>2
  <2> QED
    BY <1>4, <1>5, <2>1, <2>3 DEF ReadsWell
<1>6. CASE g.op # "nand"
  <2>1. g.d \in Nat /\ g.op = "latch"
    BY <1>1, <1>6, GateOps, MaxU32IsNat
  <2>2. g.d >= SignalCount(n) <=> ~(g.d < SignalCount(n))
    BY <1>1, <2>1
  <2> QED
    BY <1>3, <1>4, <1>6, <2>1, <2>2 DEF ReadsWell
<1> QED
  BY <1>5, <1>6

LEMMA GatesFit ==
  ASSUME NEW n \in Netlist
  PROVE  BadGates(n) = {}
           <=> LatchesFirst(n.gates) /\ \A i \in DOMAIN n.gates : ReadsWell(n, i)
<1>1. DOMAIN n.gates = 1 .. Len(n.gates) /\ Len(n.gates) \in Nat
  BY NetlistFields
<1> DEFINE Fine(i) == GateError(n, i - 1, SawNand(n, i - 1)) = "none"
<1>2. BadGates(n) = {} <=> \A i \in 1 .. Len(n.gates) : Fine(i)
  <2>1. ASSUME \A i \in 1 .. Len(n.gates) : Fine(i), NEW x \in 0 .. Len(n.gates) - 1
        PROVE  GateError(n, x, SawNand(n, x)) = "none"
    <3>1. x + 1 \in 1 .. Len(n.gates) /\ x + 1 - 1 = x
      BY <1>1
    <3> QED
      BY <2>1, <3>1
  <2>2. ASSUME BadGates(n) = {}, NEW i \in 1 .. Len(n.gates) PROVE Fine(i)
    <3>1. i - 1 \in 0 .. Len(n.gates) - 1
      BY <1>1
    <3> QED
      BY <2>2, <3>1 DEF BadGates
  <2> QED
    BY <2>1, <2>2 DEF BadGates
<1>3. LatchesFirst(n.gates)
        <=> \A i \in 1 .. Len(n.gates) : n.gates[i].op = "latch" =>
              \A j \in 1 .. i - 1 : n.gates[j].op = "latch"
  <2>1. \A i \in 1 .. Len(n.gates) : \A j : j \in 1 .. i - 1 <=> j \in 1 .. Len(n.gates) /\ j < i
    BY <1>1
  <2> QED
    BY <1>1, <2>1 DEF LatchesFirst
<1> QED
  BY <1>1, <1>2, <1>3, GateFits

LEMMA FirstError ==
  ASSUME NEW n \in Netlist
  PROVE  EncodeError(n) = "none"
           <=> CountsError(n) = "none" /\ BadGates(n) = {} /\ ~TooLarge(n, BodyLen(n))
<1>1. ASSUME BadGates(n) # {}
      PROVE  LET first == CHOOSE i \in BadGates(n) : \A j \in BadGates(n) : i <= j
             IN  GateError(n, first, SawNand(n, first)) # "none"
  <2>1. BadGates(n) \in SUBSET Nat
    BY NetlistFields DEF BadGates
  <2>2. \E i \in BadGates(n) : \A j \in BadGates(n) : i <= j
    BY <1>1, <2>1, Least
  <2> DEFINE first == CHOOSE i \in BadGates(n) : \A j \in BadGates(n) : i <= j
  <2>3. first \in BadGates(n)
    BY <2>2
  <2> HIDE DEF first
  <2>4. GateError(n, first, SawNand(n, first)) # "none"
    BY <2>3 DEF BadGates
  <2> QED
    BY <2>4 DEF first
<1> QED
  BY <1>1 DEF EncodeError

-----------------------------------------------------------------------------
(* What parse looks at, for the circuit of a netlist.                       *)
LEMMA DenotedFields ==
  ASSUME NEW n \in Netlist
  PROVE  /\ Denoted(n).input_count = n.input_count /\ Denoted(n).outputs = n.outputs
         /\ Denoted(n).gates = n.gates
         /\ Denoted(n).latch_count = Cardinality(LatchIndices(n.gates))
         /\ Denoted(n).latch_count \in 0 .. Len(n.gates)
         /\ Denoted(n) \in Circuit
         /\ signal_count(Denoted(n)) = SignalCount(n)
<1>1. /\ Denoted(n).input_count = n.input_count /\ Denoted(n).outputs = n.outputs
      /\ Denoted(n).gates = n.gates
      /\ Denoted(n).latch_count = Cardinality(LatchIndices(n.gates))
  BY DEF Denoted, LatchIndices
<1>2. Denoted(n).latch_count \in 0 .. Len(n.gates)
  BY <1>1, NetlistFields, LatchCount
<1>3. 0 .. MAX_U32 \subseteq Nat /\ NetlistGate \subseteq Gate
  BY MaxU32IsNat DEF NetlistGate, Gate
<1>4. n.outputs \in Seq(Nat) /\ n.gates \in Seq(Gate) /\ n.input_count \in Nat
  BY <1>3, NetlistFields, SeqMonotonic
<1>5. Cardinality(LatchIndices(n.gates)) \in Nat
  BY <1>1, <1>2, NetlistFields
<1>6. Denoted(n) \in Circuit
  BY <1>4, <1>5 DEF Denoted, Circuit, LatchIndices
<1> QED
  BY <1>1, <1>2, <1>6 DEF signal_count, SignalCount

LEMMA ValidParts ==
  ASSUME NEW n \in Netlist
  PROVE  Valid(Denoted(n))
           <=> /\ \A k \in DOMAIN n.outputs : n.outputs[k] < SignalCount(n)
               /\ LatchesFirst(n.gates)
               /\ \A i \in DOMAIN n.gates : ReadsWell(n, i)
<1> DEFINE c == Denoted(n)
           L == Cardinality(LatchIndices(n.gates))
           N == Len(n.gates)
<1>1. /\ c.input_count = n.input_count /\ c.outputs = n.outputs /\ c.gates = n.gates
      /\ c.latch_count = L /\ c \in Circuit /\ signal_count(c) = SignalCount(n)
      /\ L \in 0 .. N
  BY DenotedFields
<1>2. /\ N \in Nat /\ n.input_count \in Nat /\ SignalCount(n) \in Nat
      /\ DOMAIN n.gates = 1 .. N /\ DOMAIN n.outputs = 1 .. Len(n.outputs)
      /\ n.gates \in Seq(NetlistGate)
      /\ \A i \in 1 .. N : n.gates[i] \in NetlistGate
  BY NetlistFields
<1> HIDE DEF c, L
<1>3. ValidOutputs(c) <=> \A k \in DOMAIN n.outputs : n.outputs[k] < SignalCount(n)
  BY <1>1, <1>2 DEF ValidOutputs
<1>4. ASSUME NEW i \in 1 .. N
      PROVE  ValidGate(c, i - 1)
               <=> ReadsWell(n, i) /\ (n.gates[i].op = "latch" <=> i <= L)
  <2> DEFINE g == n.gates[i]
  <2>1. i - 1 + 1 = i /\ g \in NetlistGate /\ (g.op = "nand" <=> g.op # "latch")
    BY <1>2, GateOps
  <2>2. (i - 1 < L <=> i <= L) /\ (i - 1 >= L <=> ~(i <= L))
    BY <1>1, <1>2
  <2>3. GateSignal(c, i - 1) = 1 + n.input_count + i
    BY <1>1, <1>2 DEF GateSignal
  <2>4. ValidGate(c, i - 1) =
          IF g.op = "latch"
          THEN i - 1 < L /\ g.d < SignalCount(n)
          ELSE /\ i - 1 >= L
               /\ g.a < GateSignal(c, i - 1)
               /\ g.b < GateSignal(c, i - 1)
    BY <1>1, <2>1 DEF ValidGate
  <2> HIDE DEF g
  <2> QED
    BY <2>1, <2>2, <2>3, <2>4 DEF ReadsWell, g
<1>5. (\A i \in 0 .. N - 1 : ValidGate(c, i)) <=> \A i \in 1 .. N : ValidGate(c, i - 1)
  <2>1. \A i \in 0 .. N - 1 : i + 1 \in 1 .. N /\ i + 1 - 1 = i
    BY <1>2
  <2>2. \A i \in 1 .. N : i - 1 \in 0 .. N - 1
    BY <1>2
  <2> QED
    BY <2>1, <2>2
<1>6. LatchesFirst(n.gates) <=> \A i \in 1 .. N : n.gates[i].op = "latch" <=> i <= L
  BY <1>2, LatchPrefix DEF L
<1>7. (\A i \in 1 .. N : ValidGate(c, i - 1))
        <=> LatchesFirst(n.gates) /\ \A i \in 1 .. N : ReadsWell(n, i)
  <2> DEFINE V(i) == ValidGate(c, i - 1)
             R(i) == ReadsWell(n, i)
             P(i) == n.gates[i].op = "latch" <=> i <= L
  <2>1. \A i \in 1 .. N : V(i) <=> R(i) /\ P(i)
    BY <1>4
  <2>2. LatchesFirst(n.gates) <=> \A i \in 1 .. N : P(i)
    BY <1>6
  <2> HIDE DEF V, R, P
  <2>3. (\A i \in 1 .. N : V(i)) <=> (\A i \in 1 .. N : P(i)) /\ \A i \in 1 .. N : R(i)
    BY <2>1
  <2>4. (\A i \in 1 .. N : V(i)) <=> LatchesFirst(n.gates) /\ \A i \in 1 .. N : R(i)
    BY <2>2, <2>3
  <2> QED
    BY <2>4 DEF V, R
<1>8. L <= N
  BY <1>1, <1>2
<1>9. Valid(c) <=> ValidOutputs(c) /\ \A i \in 0 .. N - 1 : ValidGate(c, i)
  BY <1>1, <1>8 DEF Valid
<1> QED
  BY <1>2, <1>3, <1>5, <1>7, <1>9 DEF c

(* The rules refuse exactly what has no encoding.                           *)
THEOREM RulesAreExact ==
  \A n \in Netlist : EncodeError(n) = "none" <=> Encodable(n)
<1> SUFFICES ASSUME NEW n \in Netlist
             PROVE  EncodeError(n) = "none" <=> Encodable(n)
  OBVIOUS
<1>1. BodyLen(n) \in Nat /\ Len(n.outputs) \in Nat
  <2>1. Denoted(n).latch_count \in 0 .. Len(n.gates) /\ Len(n.gates) \in Nat
    BY DenotedFields, NetlistFields
  <2> QED
    BY <2>1, NetlistFields DEF BodyLen, LATCH_LEN, NAND_LEN
<1>2. ~TooLarge(n, BodyLen(n))
        <=> /\ BodyLen(n) <= MAX_U32
            /\ HEADER_LEN + 3 * Len(n.outputs) + BodyLen(n) <= USIZE_MAX
  BY <1>1, MaxU32IsNat, LimitsAssumption DEF TooLarge, HEADER_LEN
<1> QED
  BY <1>2, FirstError, CountsFit, GatesFit, ValidParts DEF Encodable

LEMMA NotFitting ==
  ASSUME NEW n \in Netlist
  PROVE  Encodable(n)
           <=> CountsError(n) = "none" /\ BadGates(n) = {} /\ ~TooLarge(n, BodyLen(n))
BY RulesAreExact, FirstError

-----------------------------------------------------------------------------
(* Numbers: three digits spell a number below the third power of the base.  *)

LEMMA Quotient ==
  ASSUME NEW d \in Nat, d > 0, NEW q \in Nat, NEW r \in Nat, r < d
  PROVE  (d * q + r) \div d = q
<1> DEFINE s == d * q + r
<1>1. d * q \in Nat
  OBVIOUS
<1>2. s \in Nat
  BY <1>1
<1>3. /\ s \div d \in Nat /\ s % d \in Nat /\ s % d < d
      /\ s = d * (s \div d) + (s % d)
  BY <1>2
<1> DEFINE p == s \div d
           t == s % d
<1>4. d * q + r = d * p + t
  BY <1>3
<1>5. p \in Nat /\ t \in Nat /\ t < d
  BY <1>3
<1> HIDE DEF p, t
<1>6. ASSUME NEW x \in Nat, NEW y \in Nat, x < y PROVE d * x + d <= d * y
  <2>1. y - x \in Nat /\ y - x >= 1
    BY <1>6
  <2>2. d * y = d * x + d * (y - x)
    BY <1>6, <2>1
  <2>3. d * (y - x) >= d
    BY <2>1
  <2>4. d * y \in Int /\ d * x \in Int /\ d * (y - x) \in Int
    BY <2>1
  <2> QED
    BY <2>2, <2>3, <2>4
<1>7. d * p \in Nat
  BY <1>5
<1>8. ASSUME p < q PROVE FALSE
  BY <1>1, <1>4, <1>5, <1>6, <1>7, <1>8
<1>9. ASSUME q < p PROVE FALSE
  BY <1>1, <1>4, <1>5, <1>6, <1>7, <1>9
<1>10. p = q
  BY <1>5, <1>8, <1>9
<1> QED
  BY <1>10 DEF p

LEMMA Digits ==
  ASSUME NEW s \in 0 .. MAX_U24
  PROVE  /\ s % Base \in 0 .. Base - 1
         /\ (s \div Base) % Base \in 0 .. Base - 1
         /\ (s \div (Base * Base)) % Base \in 0 .. Base - 1
         /\ (s % Base) + Base * ((s \div Base) % Base)
              + Base * Base * ((s \div (Base * Base)) % Base) = s
<1> DEFINE q == s \div Base
           r == s % Base
           qq == q \div Base
           rr == q % Base
<1>1. Base \in Nat /\ Base > 1 /\ s \in Nat
  BY BaseAssumption, MaxU32IsNat
<1>2. q \in Nat /\ r \in 0 .. Base - 1 /\ s = Base * q + r
  BY <1>1
<1>3. qq \in Nat /\ rr \in 0 .. Base - 1 /\ q = Base * qq + rr
  <2> HIDE DEF q
  <2> QED
    BY <1>1, <1>2
<1> DEFINE low == Base * rr + r
           BB == Base * Base
<1>4. BB \in Nat /\ BB > 0
  BY <1>1
<1> HIDE DEF q, r, qq, rr
<1>5. low \in Nat /\ low < BB
  <2>1. rr \in Nat /\ r \in Nat /\ rr <= Base - 1 /\ r <= Base - 1
    BY <1>1, <1>2, <1>3
  <2>2. Base * rr \in Nat /\ Base * (Base - 1 - rr) \in Nat
    BY <1>1, <2>1
  <2>3. Base * Base = Base * rr + Base * (Base - 1 - rr) + Base
    BY <1>1, <2>1
  <2> QED
    BY <1>1, <1>4, <2>1, <2>2, <2>3
<1>6. s = BB * qq + low
  <2>1. s = Base * (Base * qq + rr) + r
    BY <1>2, <1>3
  <2>2. Base * (Base * qq + rr) = Base * Base * qq + Base * rr
    BY <1>1, <1>3
  <2>3. r \in Int /\ Base * rr \in Int /\ Base * Base * qq \in Int
    BY <1>1, <1>2, <1>3
  <2> QED
    BY <2>1, <2>2, <2>3
<1>7. s \div BB = qq
  <2> HIDE DEF BB, low
  <2> QED
    BY <1>3, <1>4, <1>5, <1>6, Quotient
<1>8. qq < Base
  <2>1. s < BB * Base
    <3>1. s <= Base * Base * Base - 1 /\ Base * Base * Base \in Nat
      BY <1>1, <1>4, BaseAssumption
    <3> QED
      BY <1>1, <3>1
  <2>2. ASSUME qq >= Base PROVE BB * qq >= BB * Base
    <3>1. qq - Base \in Nat
      BY <1>1, <1>3, <2>2
    <3>2. BB * qq = BB * Base + BB * (qq - Base)
      BY <1>1, <1>3, <1>4
    <3>3. BB * (qq - Base) \in Nat /\ BB * Base \in Nat
      BY <1>1, <1>4, <3>1
    <3> QED
      BY <3>2, <3>3
  <2>3. BB * qq \in Nat /\ BB * Base \in Nat
    BY <1>1, <1>3, <1>4
  <2> HIDE DEF BB, low
  <2> QED
    BY <1>1, <1>3, <1>5, <1>6, <2>1, <2>2, <2>3
<1>9. qq % Base = qq
  BY <1>1, <1>3, <1>8
<1>10. r + Base * rr + Base * Base * qq = s
  <2>1. r \in Int /\ Base * rr \in Int /\ Base * Base * qq \in Int
    BY <1>1, <1>2, <1>3
  <2> QED
    BY <1>6, <2>1
<1>11. qq \in 0 .. Base - 1
  BY <1>1, <1>3, <1>8
<1> QED
  BY <1>2, <1>3, <1>7, <1>9, <1>10, <1>11 DEF q, r, rr

-----------------------------------------------------------------------------
(* The latches among the first k gates, and the length of their records.    *)

LatchesUpTo(s, k) == {i \in 1 .. k : s[i].op = "latch"}

Count(s, k) == Cardinality(LatchesUpTo(s, k))

Body(s, k) == LATCH_LEN * Count(s, k) + NAND_LEN * (k - Count(s, k))

LEMMA CountFinite ==
  ASSUME NEW s \in Seq(NetlistGate), NEW k \in 0 .. Len(s)
  PROVE  /\ IsFiniteSet(LatchesUpTo(s, k))
         /\ Count(s, k) \in 0 .. k
<1>1. k \in Nat
  OBVIOUS
<1>2. IsFiniteSet(1 .. k) /\ Cardinality(1 .. k) = k
  BY <1>1, FS_Interval
<1>3. LatchesUpTo(s, k) \subseteq 1 .. k
  BY DEF LatchesUpTo
<1>4. /\ IsFiniteSet(LatchesUpTo(s, k))
      /\ Cardinality(LatchesUpTo(s, k)) <= k
  BY <1>2, <1>3, FS_Subset
<1>5. Cardinality(LatchesUpTo(s, k)) \in Nat
  BY <1>4, FS_CardinalityType
<1> QED
  BY <1>1, <1>4, <1>5 DEF Count

LEMMA CountStart == ASSUME NEW s PROVE Count(s, 0) = 0
<1>1. LatchesUpTo(s, 0) = {}
  BY DEF LatchesUpTo
<1> QED
  BY <1>1, FS_EmptySet DEF Count

LEMMA CountStep ==
  ASSUME NEW s \in Seq(NetlistGate), NEW k \in 0 .. Len(s) - 1
  PROVE  Count(s, k + 1) = IF s[k + 1].op = "latch" THEN Count(s, k) + 1 ELSE Count(s, k)
<1>1. k \in Nat /\ k \in 0 .. Len(s) /\ k + 1 \in Nat
  OBVIOUS
<1>2. IsFiniteSet(LatchesUpTo(s, k))
  BY <1>1, CountFinite
<1>3. \A i : i \in 1 .. k + 1 <=> i \in 1 .. k \/ i = k + 1
  BY <1>1
<1>4. k + 1 \notin LatchesUpTo(s, k)
  BY <1>1 DEF LatchesUpTo
<1>5. CASE s[k + 1].op = "latch"
  <2>1. LatchesUpTo(s, k + 1) = LatchesUpTo(s, k) \cup {k + 1}
    BY <1>3, <1>5 DEF LatchesUpTo
  <2>2. Cardinality(LatchesUpTo(s, k) \cup {k + 1}) = Cardinality(LatchesUpTo(s, k)) + 1
    BY <1>2, <1>4, FS_AddElement
  <2> QED
    BY <1>5, <2>1, <2>2 DEF Count
<1>6. CASE s[k + 1].op # "latch"
  <2>1. LatchesUpTo(s, k + 1) = LatchesUpTo(s, k)
    BY <1>3, <1>6 DEF LatchesUpTo
  <2> QED
    BY <1>6, <2>1 DEF Count
<1> QED
  BY <1>5, <1>6

(* There are at most as many to come as there are gates to come.            *)
LEMMA CountRest ==
  ASSUME NEW s \in Seq(NetlistGate), NEW k \in 0 .. Len(s)
  PROVE  Count(s, Len(s)) - Count(s, k) \in 0 .. (Len(s) - k)
<1> DEFINE N == Len(s)
           A == LatchesUpTo(s, k)
           C == LatchesUpTo(s, N)
           R == k + 1 .. N
<1>1. N \in Nat /\ k \in Nat /\ k <= N
  OBVIOUS
<1>2. N \in 0 .. N
  BY <1>1
<1>3. /\ IsFiniteSet(A) /\ IsFiniteSet(C)
      /\ Cardinality(A) \in Nat /\ Cardinality(C) \in Nat
  BY <1>1, <1>2, CountFinite DEF Count
<1>4. A \subseteq C
  BY <1>1 DEF LatchesUpTo
<1>5. Cardinality(A) <= Cardinality(C)
  BY <1>3, <1>4, FS_Subset
<1>6. IsFiniteSet(R) /\ Cardinality(R) = N - k
  <2>1. k + 1 \in Int /\ N \in Int
    BY <1>1
  <2>2. IsFiniteSet(R) /\ Cardinality(R) = IF k + 1 > N THEN 0 ELSE N - (k + 1) + 1
    BY <2>1, FS_Interval
  <2> QED
    BY <1>1, <2>2
<1>7. C \subseteq A \cup R
  BY <1>1 DEF LatchesUpTo
<1>8. /\ IsFiniteSet(A \cup R)
      /\ Cardinality(A \cup R) = Cardinality(A) + Cardinality(R) - Cardinality(A \cap R)
  BY <1>3, <1>6, FS_Union
<1>9. Cardinality(A \cap R) \in Nat
  <2>1. IsFiniteSet(A \cap R)
    BY <1>3, FS_Subset
  <2> QED
    BY <2>1, FS_CardinalityType
<1>10. Cardinality(C) <= Cardinality(A \cup R)
  BY <1>7, <1>8, FS_Subset
<1> HIDE DEF A, C, R
<1>11. Cardinality(C) - Cardinality(A) \in 0 .. N - k
  BY <1>1, <1>3, <1>5, <1>6, <1>8, <1>9, <1>10
<1> QED
  BY <1>11 DEF Count, A, C

LEMMA CountAll ==
  ASSUME NEW n \in Netlist
  PROVE  /\ Denoted(n).latch_count = Count(n.gates, Len(n.gates))
         /\ BodyLen(n) = Body(n.gates, Len(n.gates))
<1>1. DOMAIN n.gates = 1 .. Len(n.gates)
  BY NetlistFields
<1>2. LatchIndices(n.gates) = LatchesUpTo(n.gates, Len(n.gates))
  BY <1>1 DEF LatchIndices, LatchesUpTo
<1>3. Denoted(n).latch_count = Count(n.gates, Len(n.gates))
  BY <1>2, DenotedFields DEF Count
<1> QED
  BY <1>3 DEF BodyLen, Body

(* What a gate adds to the body, and that the body only grows.              *)
LEMMA BodyStep ==
  ASSUME NEW n \in Netlist, NEW k \in 0 .. Len(n.gates) - 1
  PROVE  /\ Body(n.gates, k + 1) = Body(n.gates, k) + RecordLen(n.gates[k + 1])
         /\ Body(n.gates, k) \in Nat
         /\ RecordLen(n.gates[k + 1]) \in Nat
         /\ Body(n.gates, k) + RecordLen(n.gates[k + 1]) <= BodyLen(n)
<1> DEFINE s == n.gates
           N == Len(s)
<1>1. s \in Seq(NetlistGate) /\ N \in Nat /\ s[k + 1] \in NetlistGate
  BY NetlistFields
<1>2. k \in Nat /\ k \in 0 .. N /\ k + 1 \in 0 .. N
  BY <1>1
<1>3. Count(s, k) \in Nat /\ Count(s, k) <= k
  BY <1>1, <1>2, CountFinite
<1>4. Count(s, k + 1) = IF s[k + 1].op = "latch" THEN Count(s, k) + 1 ELSE Count(s, k)
  BY <1>1, CountStep
<1>5. s[k + 1].op = "nand" <=> s[k + 1].op # "latch"
  BY <1>1, GateOps
<1>6. Count(s, N) \in Nat /\ Count(s, N) - Count(s, k + 1) \in 0 .. (N - (k + 1))
  <2>1. N \in 0 .. N
    BY <1>1
  <2>2. Count(s, N) \in 0 .. N
    BY <1>1, <2>1, CountFinite
  <2>3. Count(s, N) - Count(s, k + 1) \in 0 .. (N - (k + 1))
    BY <1>1, <1>2, CountRest
  <2> QED
    BY <2>2, <2>3
<1>7. BodyLen(n) = Body(s, N)
  BY CountAll
<1> HIDE DEF s, N
<1>8. Body(s, k + 1) = Body(s, k) + RecordLen(s[k + 1]) /\ Body(s, k) \in Nat
  <2>1. Body(s, k) = 4 * Count(s, k) + 7 * (k - Count(s, k))
    BY DEF Body, LATCH_LEN, NAND_LEN
  <2>2. Body(s, k + 1) = 4 * Count(s, k + 1) + 7 * ((k + 1) - Count(s, k + 1))
    BY DEF Body, LATCH_LEN, NAND_LEN
  <2>3. RecordLen(s[k + 1]) = IF s[k + 1].op = "latch" THEN 4 ELSE 7
    BY <1>5 DEF RecordLen, LATCH_LEN, NAND_LEN
  <2>4. CASE s[k + 1].op = "latch"
    BY <1>2, <1>3, <1>4, <2>1, <2>2, <2>3, <2>4
  <2>5. CASE s[k + 1].op # "latch"
    BY <1>2, <1>3, <1>4, <2>1, <2>2, <2>3, <2>5
  <2> QED
    BY <2>4, <2>5
<1>9. Body(s, k + 1) <= Body(s, N)
  <2>1. Count(s, k + 1) \in Nat
    BY <1>3, <1>4
  <2> QED
    BY <1>1, <1>2, <1>6, <2>1 DEF Body, LATCH_LEN, NAND_LEN
<1>10. RecordLen(s[k + 1]) \in Nat
  BY DEF RecordLen, LATCH_LEN, NAND_LEN
<1> QED
  BY <1>7, <1>8, <1>9, <1>10 DEF s

-----------------------------------------------------------------------------
(* Writing at the end of the bytes, and reading back.                       *)

Digit == 0 .. Base - 1

LEMMA Small == 0 \in Digit /\ 1 \in Digit /\ Base - 1 \in Nat
BY BaseAssumption DEF Digit

LEMMA U24Bytes ==
  ASSUME NEW s \in 0 .. MAX_U24
  PROVE  /\ u24_bytes(s) \in Seq(Digit) /\ Len(u24_bytes(s)) = 3
         /\ u24_bytes(s)[1] + Base * u24_bytes(s)[2] + Base * Base * u24_bytes(s)[3] = s
<1> DEFINE x == s % Base
           y == (s \div Base) % Base
           z == (s \div (Base * Base)) % Base
<1>1. x \in Digit /\ y \in Digit /\ z \in Digit /\ x + Base * y + Base * Base * z = s
  BY Digits DEF Digit
<1>2. u24_bytes(s) = <<x, y, z>>
  BY DEF u24_bytes
<1> HIDE DEF x, y, z
<1>3. /\ <<x, y, z>> \in Seq(Digit) /\ Len(<<x, y, z>>) = 3
      /\ <<x, y, z>>[1] = x /\ <<x, y, z>>[2] = y /\ <<x, y, z>>[3] = z
  BY <1>1
<1> QED
  BY <1>1, <1>2, <1>3

(* One sequence after another.                                              *)
IsConcat(r, s, t) == r = s \o t

LEMMA Concatenated ==
  ASSUME NEW s \in Seq(Digit), NEW t \in Seq(Digit), NEW r, IsConcat(r, s, t)
  PROVE  /\ r \in Seq(Digit) /\ Len(r) = Len(s) + Len(t)
         /\ \A i \in 1 .. Len(s) + Len(t) : r[i] = IF i <= Len(s) THEN s[i] ELSE t[i - Len(s)]
BY ConcatProperties DEF IsConcat

(* The bytes of f are continued by those of g.                              *)
Continues(f, g, bs) ==
  /\ g.tail = f.tail \o bs
  /\ f.tail \in Seq(Digit) /\ bs \in Seq(Digit)
  /\ g.output_count = f.output_count

LEMMA Continued ==
  ASSUME NEW f, NEW g, NEW bs, Continues(f, g, bs)
  PROVE  /\ g.tail \in Seq(Digit) /\ Len(g.tail) = Len(f.tail) + Len(bs)
         /\ Len(f.tail) \in Nat /\ Len(bs) \in Nat
         /\ \A i \in 1 .. Len(f.tail) : g.tail[i] = f.tail[i]
         /\ \A i \in 1 .. Len(bs) : g.tail[Len(f.tail) + i] = bs[i]
<1>1. f.tail \in Seq(Digit) /\ bs \in Seq(Digit)
  BY DEF Continues
<1>2. Len(f.tail) \in Nat /\ Len(bs) \in Nat
  BY <1>1, LenProperties
<1> DEFINE t == f.tail
           u == t \o bs
<1>3. /\ u \in Seq(Digit) /\ Len(u) = Len(t) + Len(bs)
      /\ \A i \in 1 .. Len(t) + Len(bs) : u[i] = IF i <= Len(t) THEN t[i] ELSE bs[i - Len(t)]
  BY <1>1, ConcatProperties
<1>4. g.tail = u
  BY DEF Continues
<1> HIDE DEF t, u
<1>5. Len(t) \in Nat
  BY <1>2 DEF t
<1>6. ASSUME NEW i \in 1 .. Len(t) PROVE u[i] = t[i]
  <2>1. i \in 1 .. Len(t) + Len(bs) /\ i <= Len(t)
    BY <1>2, <1>5
  <2> QED
    BY <1>3, <2>1
<1>7. ASSUME NEW i \in 1 .. Len(bs) PROVE u[Len(t) + i] = bs[i]
  <2>1. /\ Len(t) + i \in 1 .. Len(t) + Len(bs) /\ ~(Len(t) + i <= Len(t))
        /\ Len(t) + i - Len(t) = i
    BY <1>2, <1>5
  <2> QED
    BY <1>3, <2>1
<1> QED
  BY <1>2, <1>3, <1>4, <1>6, <1>7 DEF t

(* What was written stays readable.                                         *)
LEMMA StillReads ==
  ASSUME NEW f, NEW g, NEW bs, Continues(f, g, bs), NEW at \in Nat
  PROVE  /\ at + 3 <= Len(f.tail) => read_u24_at(g, at) = read_u24_at(f, at)
         /\ at < Len(f.tail) => byte_at(g, at) = byte_at(f, at)
<1>1. /\ Len(g.tail) = Len(f.tail) + Len(bs) /\ Len(f.tail) \in Nat /\ Len(bs) \in Nat
      /\ \A i \in 1 .. Len(f.tail) : g.tail[i] = f.tail[i]
  BY Continued
<1>2. ASSUME at + 3 <= Len(f.tail)
      PROVE  read_u24_at(g, at) = read_u24_at(f, at)
  <2>1. /\ at + 1 \in 1 .. Len(f.tail) /\ at + 2 \in 1 .. Len(f.tail)
        /\ at + 3 \in 1 .. Len(f.tail) /\ at + 3 <= Len(g.tail)
    BY <1>1, <1>2
  <2>2. /\ g.tail[at + 1] = f.tail[at + 1] /\ g.tail[at + 2] = f.tail[at + 2]
        /\ g.tail[at + 3] = f.tail[at + 3]
    BY <1>1, <2>1
  <2> QED
    BY <1>2, <2>1, <2>2 DEF read_u24_at
<1>3. ASSUME at < Len(f.tail)
      PROVE  byte_at(g, at) = byte_at(f, at)
  <2>1. at + 1 \in 1 .. Len(f.tail) /\ at < Len(g.tail)
    BY <1>1, <1>3
  <2> QED
    BY <1>1, <1>3, <2>1 DEF byte_at
<1> QED
  BY <1>2, <1>3

(* A number written into the new bytes is read there.                       *)
LEMMA ReadsWritten ==
  ASSUME NEW f, NEW g, NEW bs, Continues(f, g, bs),
         NEW s \in 0 .. MAX_U24, NEW k \in Nat, k + 3 <= Len(bs),
         bs[k + 1] = u24_bytes(s)[1], bs[k + 2] = u24_bytes(s)[2],
         bs[k + 3] = u24_bytes(s)[3]
  PROVE  read_u24_at(g, Len(f.tail) + k) = s
<1> DEFINE at == Len(f.tail) + k
<1>1. /\ Len(g.tail) = Len(f.tail) + Len(bs) /\ Len(f.tail) \in Nat /\ Len(bs) \in Nat
      /\ \A i \in 1 .. Len(bs) : g.tail[Len(f.tail) + i] = bs[i]
  BY ONLY Continues(f, g, bs), Continued
<1>2. /\ k + 1 \in 1 .. Len(bs) /\ k + 2 \in 1 .. Len(bs) /\ k + 3 \in 1 .. Len(bs)
      /\ at + 1 = Len(f.tail) + (k + 1) /\ at + 2 = Len(f.tail) + (k + 2)
      /\ at + 3 = Len(f.tail) + (k + 3) /\ at + 3 <= Len(g.tail)
  <2>1. ASSUME NEW l \in Nat, NEW m \in Nat, k + 3 <= m
        PROVE  /\ k + 1 \in 1 .. m /\ k + 2 \in 1 .. m /\ k + 3 \in 1 .. m
               /\ l + k + 1 = l + (k + 1) /\ l + k + 2 = l + (k + 2)
               /\ l + k + 3 = l + (k + 3) /\ l + k + 3 <= l + m
    BY ONLY k \in Nat, <2>1
  <2> QED
    BY <1>1, <2>1
<1>3. /\ g.tail[at + 1] = bs[k + 1] /\ g.tail[at + 2] = bs[k + 2]
      /\ g.tail[at + 3] = bs[k + 3]
  <2> HIDE DEF at
  <2> QED
    BY <1>1, <1>2
<1>4. u24_bytes(s)[1] + Base * u24_bytes(s)[2] + Base * Base * u24_bytes(s)[3] = s
  BY U24Bytes
<1> HIDE DEF at
<1>5. read_u24_at(g, at) = s
  BY <1>2, <1>3, <1>4 DEF read_u24_at
<1> QED
  BY <1>5 DEF at

(* The two places where a record has its references.                        *)
LEMMA ReadsAt1 ==
  ASSUME NEW f, NEW g, NEW bs, Continues(f, g, bs), NEW s \in 0 .. MAX_U24,
         1 + 3 <= Len(bs),
         bs[2] = u24_bytes(s)[1], bs[3] = u24_bytes(s)[2], bs[4] = u24_bytes(s)[3]
  PROVE  read_u24_at(g, Len(f.tail) + 1) = s
<1> DEFINE k == 1
<1>1. k \in Nat /\ k + 1 = 2 /\ k + 2 = 3 /\ k + 3 = 4
  OBVIOUS
<1> HIDE DEF k
<1>2. k + 3 <= Len(bs)
  BY <1>1
<1>3. bs[k + 1] = u24_bytes(s)[1] /\ bs[k + 2] = u24_bytes(s)[2] /\ bs[k + 3] = u24_bytes(s)[3]
  BY <1>1
<1>4. read_u24_at(g, Len(f.tail) + k) = s
  BY <1>1, <1>2, <1>3, ReadsWritten
<1> QED
  BY <1>4 DEF k

LEMMA ReadsAt4 ==
  ASSUME NEW f, NEW g, NEW bs, Continues(f, g, bs), NEW s \in 0 .. MAX_U24,
         4 + 3 <= Len(bs),
         bs[5] = u24_bytes(s)[1], bs[6] = u24_bytes(s)[2], bs[7] = u24_bytes(s)[3]
  PROVE  read_u24_at(g, Len(f.tail) + 4) = s
<1> DEFINE k == 4
<1>1. k \in Nat /\ k + 1 = 5 /\ k + 2 = 6 /\ k + 3 = 7
  OBVIOUS
<1> HIDE DEF k
<1>2. k + 3 <= Len(bs)
  BY <1>1
<1>3. bs[k + 1] = u24_bytes(s)[1] /\ bs[k + 2] = u24_bytes(s)[2] /\ bs[k + 3] = u24_bytes(s)[3]
  BY <1>1
<1>4. read_u24_at(g, Len(f.tail) + k) = s
  BY <1>1, <1>2, <1>3, ReadsWritten
<1> QED
  BY <1>4 DEF k

LEMMA OpcodeWritten ==
  ASSUME NEW f, NEW g, NEW bs, Continues(f, g, bs), Len(bs) >= 1
  PROVE  byte_at(g, Len(f.tail)) = bs[1]
<1>1. /\ Len(g.tail) = Len(f.tail) + Len(bs) /\ Len(f.tail) \in Nat /\ Len(bs) \in Nat
      /\ \A i \in 1 .. Len(bs) : g.tail[Len(f.tail) + i] = bs[i]
  BY Continued
<1>2. 1 \in 1 .. Len(bs) /\ Len(f.tail) < Len(g.tail)
  BY <1>1
<1> QED
  BY <1>1, <1>2 DEF byte_at

(* The bytes of a record.                                                   *)
LEMMA NandBytes ==
  ASSUME NEW a \in 0 .. MAX_U24, NEW b \in 0 .. MAX_U24
  PROVE  LET bs == record_bytes(Nand(a, b))
         IN  /\ bs \in Seq(Digit) /\ Len(bs) = NAND_LEN /\ bs[1] = OP_NAND
             /\ bs[2] = u24_bytes(a)[1] /\ bs[3] = u24_bytes(a)[2] /\ bs[4] = u24_bytes(a)[3]
             /\ bs[5] = u24_bytes(b)[1] /\ bs[6] = u24_bytes(b)[2] /\ bs[7] = u24_bytes(b)[3]
<1> DEFINE u == u24_bytes(a)
           v == u24_bytes(b)
           o == <<OP_NAND>>
           ou == o \o u
           bs == ou \o v
<1>0. IsConcat(ou, o, u) /\ IsConcat(bs, ou, v)
  BY DEF IsConcat
<1>1. u \in Seq(Digit) /\ Len(u) = 3 /\ v \in Seq(Digit) /\ Len(v) = 3
  BY U24Bytes
<1>2. o \in Seq(Digit) /\ Len(o) = 1 /\ o[1] = OP_NAND
  BY Small DEF OP_NAND
<1>3. record_bytes(Nand(a, b)) = bs
  BY DEF record_bytes, Nand
<1> HIDE DEF u, v, o, ou, bs
<1>4. /\ ou \in Seq(Digit) /\ Len(ou) = 4
      /\ \A i \in 1 .. 4 : ou[i] = IF i <= 1 THEN o[i] ELSE u[i - 1]
  <2>1. o \in Seq(Digit) /\ u \in Seq(Digit) /\ Len(o) = 1 /\ Len(u) = 3
    BY <1>1, <1>2
  <2>2. /\ ou \in Seq(Digit) /\ Len(ou) = Len(o) + Len(u)
        /\ \A i \in 1 .. Len(o) + Len(u) :
             ou[i] = IF i <= Len(o) THEN o[i] ELSE u[i - Len(o)]
    BY <1>0, <2>1, Concatenated
  <2> QED
    BY <2>1, <2>2
<1>5. /\ bs \in Seq(Digit) /\ Len(bs) = 7
      /\ \A i \in 1 .. 7 : bs[i] = IF i <= 4 THEN ou[i] ELSE v[i - 4]
  <2>1. ou \in Seq(Digit) /\ v \in Seq(Digit) /\ Len(ou) = 4 /\ Len(v) = 3
    BY <1>1, <1>4
  <2>2. /\ bs \in Seq(Digit) /\ Len(bs) = Len(ou) + Len(v)
        /\ \A i \in 1 .. Len(ou) + Len(v) :
             bs[i] = IF i <= Len(ou) THEN ou[i] ELSE v[i - Len(ou)]
    BY <1>0, <2>1, Concatenated
  <2> QED
    BY <2>1, <2>2
<1>6. ou[1] = OP_NAND /\ ou[2] = u[1] /\ ou[3] = u[2] /\ ou[4] = u[3]
  BY <1>2, <1>4
<1>7. /\ bs[1] = ou[1] /\ bs[2] = ou[2] /\ bs[3] = ou[3] /\ bs[4] = ou[4]
      /\ bs[5] = v[1] /\ bs[6] = v[2] /\ bs[7] = v[3]
  BY <1>5
<1> QED
  BY <1>3, <1>5, <1>6, <1>7 DEF u, v, NAND_LEN

LEMMA LatchBytes ==
  ASSUME NEW d \in 0 .. MAX_U24
  PROVE  LET bs == record_bytes(Latch(d))
         IN  /\ bs \in Seq(Digit) /\ Len(bs) = LATCH_LEN /\ bs[1] = OP_LATCH
             /\ bs[2] = u24_bytes(d)[1] /\ bs[3] = u24_bytes(d)[2] /\ bs[4] = u24_bytes(d)[3]
<1> DEFINE u == u24_bytes(d)
           o == <<OP_LATCH>>
           bs == o \o u
<1>0. IsConcat(bs, o, u)
  BY DEF IsConcat
<1>1. u \in Seq(Digit) /\ Len(u) = 3
  BY U24Bytes
<1>2. o \in Seq(Digit) /\ Len(o) = 1 /\ o[1] = OP_LATCH
  BY Small DEF OP_LATCH
<1>3. record_bytes(Latch(d)) = bs
  BY DEF record_bytes, Latch
<1> HIDE DEF u, o, bs
<1>4. /\ bs \in Seq(Digit) /\ Len(bs) = 4
      /\ \A i \in 1 .. 4 : bs[i] = IF i <= 1 THEN o[i] ELSE u[i - 1]
  <2>1. o \in Seq(Digit) /\ u \in Seq(Digit) /\ Len(o) = 1 /\ Len(u) = 3
    BY <1>1, <1>2
  <2>2. /\ bs \in Seq(Digit) /\ Len(bs) = Len(o) + Len(u)
        /\ \A i \in 1 .. Len(o) + Len(u) :
             bs[i] = IF i <= Len(o) THEN o[i] ELSE u[i - Len(o)]
    BY <1>0, <2>1, Concatenated
  <2> QED
    BY <2>1, <2>2
<1>5. bs[1] = OP_LATCH /\ bs[2] = u[1] /\ bs[3] = u[2] /\ bs[4] = u[3]
  BY <1>2, <1>4
<1> QED
  BY <1>3, <1>4, <1>5 DEF u, LATCH_LEN

-----------------------------------------------------------------------------
(* What makes a netlist encodable, said of its gates.                       *)

LEMMA WholeOffset ==
  ASSUME NEW m \in Nat, NEW l \in 0 .. m
  PROVE  /\ LATCH_LEN * l + NAND_LEN * (m - l) = RecordOffset(l, m)
         /\ RecordOffset(l, m) \in Nat
BY DEF RecordOffset, LATCH_LEN, NAND_LEN

LEMMA SumBounds ==
  ASSUME NEW a \in Nat, NEW b \in Nat, NEW m \in Nat, NEW M \in Nat, m < M, 2 + a + b - 1 <= m
  PROVE  b <= M
OBVIOUS

LEMMA Fits ==
  ASSUME NEW n \in Netlist, Encodable(n)
  PROVE  LET L == Denoted(n).latch_count
         IN  /\ L \in 0 .. Len(n.gates)
             /\ \A k \in 1 .. Len(n.outputs) : n.outputs[k] \in 0 .. MAX_U24
             /\ \A i \in 1 .. L : n.gates[i].op = "latch" /\ n.gates[i].d \in 0 .. MAX_U24
             /\ \A i \in L + 1 .. Len(n.gates) :
                  /\ n.gates[i].op = "nand"
                  /\ n.gates[i].a \in 0 .. MAX_U24 /\ n.gates[i].b \in 0 .. MAX_U24
             /\ BodyLen(n) = RecordOffset(L, Len(n.gates))
             /\ HEADER_LEN + 3 * Len(n.outputs) + BodyLen(n) <= USIZE_MAX
             /\ Len(n.outputs) <= MAX_U32 /\ Len(n.gates) <= MAX_U32
             /\ BodyLen(n) \in 0 .. MAX_U32
             /\ SignalCount(n) - 1 <= MAX_U24
<1> DEFINE L == Denoted(n).latch_count
           N == Len(n.gates)
           C == SignalCount(n)
<1>1. /\ N \in Nat /\ Len(n.outputs) \in Nat /\ n.input_count \in Nat
      /\ DOMAIN n.gates = 1 .. N /\ DOMAIN n.outputs = 1 .. Len(n.outputs)
      /\ \A k \in DOMAIN n.outputs : n.outputs[k] \in 0 .. MAX_U32
      /\ \A i \in DOMAIN n.gates : n.gates[i] \in NetlistGate
      /\ C = 2 + n.input_count + N /\ n.gates \in Seq(NetlistGate)
  BY NetlistFields DEF SignalCount
<1>2. L \in 0 .. N /\ L = Cardinality(LatchIndices(n.gates))
  BY DenotedFields
<1>3. MAX_U24 \in Nat /\ MAX_U32 \in Nat /\ MAX_U24 < MAX_U32
  BY MaxU32IsNat
<1>4. C - 1 <= MAX_U24
  BY DEF Encodable
<1>5. /\ \A k \in DOMAIN n.outputs : n.outputs[k] < C
      /\ LatchesFirst(n.gates)
      /\ \A i \in DOMAIN n.gates : ReadsWell(n, i)
  BY ValidParts DEF Encodable
<1>6. \A i \in 1 .. N : n.gates[i].op = "latch" <=> i <= L
  BY <1>1, <1>2, <1>5, LatchPrefix
<1>7. \A i \in 1 .. N : ReadsWell(n, i) /\ n.gates[i] \in NetlistGate
  BY <1>1, <1>5
<1> HIDE DEF L, N, C
<1>8. ASSUME NEW x \in Nat, x < C PROVE x \in 0 .. MAX_U24
  BY <1>1, <1>3, <1>4, <1>8
<1>9. \A k \in 1 .. Len(n.outputs) : n.outputs[k] \in 0 .. MAX_U24
  BY <1>1, <1>3, <1>5, <1>8
<1>10. ASSUME NEW i \in 1 .. L
       PROVE  n.gates[i].op = "latch" /\ n.gates[i].d \in 0 .. MAX_U24
  <2>1. i \in 1 .. N /\ i <= L
    BY <1>1, <1>2
  <2>2. n.gates[i].op = "latch" /\ n.gates[i].op # "nand"
    BY <1>6, <1>7, <2>1, GateOps
  <2>3. n.gates[i].d \in Nat
    BY <1>3, <1>7, <2>1, <2>2, GateOps
  <2>4. n.gates[i].d < C
    BY <1>7, <2>1, <2>2 DEF ReadsWell, C
  <2> QED
    BY <1>8, <2>2, <2>3, <2>4
<1>11. ASSUME NEW i \in L + 1 .. N
       PROVE  /\ n.gates[i].op = "nand"
              /\ n.gates[i].a \in 0 .. MAX_U24 /\ n.gates[i].b \in 0 .. MAX_U24
  <2>1. i \in 1 .. N /\ ~(i <= L)
    BY <1>1, <1>2
  <2>2. n.gates[i].op = "nand"
    BY <1>6, <1>7, <2>1, GateOps
  <2>3. n.gates[i].a \in Nat /\ n.gates[i].b \in Nat
    BY <1>3, <1>7, <2>1, <2>2, GateOps
  <2>4. n.gates[i].a < 1 + n.input_count + i /\ n.gates[i].b < 1 + n.input_count + i
    BY <1>7, <2>1, <2>2 DEF ReadsWell
  <2>5. ASSUME NEW x \in Nat, x < 1 + n.input_count + i PROVE x < C
    BY <1>1, <2>1, <2>5
  <2> QED
    BY <1>8, <2>2, <2>3, <2>4, <2>5
<1>12. BodyLen(n) = RecordOffset(L, N)
  <2>1. BodyLen(n) = LATCH_LEN * L + NAND_LEN * (N - L)
    BY DEF BodyLen, L, N
  <2> QED
    BY <1>1, <1>2, <2>1, WholeOffset
<1>13. N <= MAX_U32 /\ BodyLen(n) \in Nat
  <2>1. BodyLen(n) \in Nat
    BY <1>1, <1>2, <1>12, WholeOffset
  <2>2. 2 + n.input_count + N - 1 <= MAX_U24
    BY <1>1, <1>4
  <2> QED
    BY <1>1, <1>3, <2>1, <2>2, SumBounds
<1>14. /\ HEADER_LEN + 3 * Len(n.outputs) + BodyLen(n) <= USIZE_MAX
       /\ Len(n.outputs) <= MAX_U32 /\ BodyLen(n) <= MAX_U32
  BY DEF Encodable
<1>15. BodyLen(n) \in 0 .. MAX_U32
  BY <1>3, <1>13, <1>14
<1> QED
  BY <1>2, <1>4, <1>9, <1>10, <1>11, <1>12, <1>13, <1>14, <1>15 DEF L, N, C

(* Records do not overlap.                                                  *)
LEMMA Slots ==
  ASSUME NEW l \in Nat, NEW i \in Nat, NEW j \in 0 .. i - 1
  PROVE  /\ RecordOffset(l, i) \in Nat /\ RecordOffset(l, j) \in Nat
         /\ j < l => RecordOffset(l, j) + LATCH_LEN <= RecordOffset(l, i)
         /\ ~(j < l) => RecordOffset(l, j) + NAND_LEN <= RecordOffset(l, i)
BY DEF RecordOffset, LATCH_LEN, NAND_LEN

LEMMA SlotStep ==
  ASSUME NEW l \in Nat, NEW i \in Nat
  PROVE  /\ RecordOffset(l, i) \in Nat
         /\ i < l => RecordOffset(l, i + 1) = RecordOffset(l, i) + LATCH_LEN
         /\ ~(i < l) => RecordOffset(l, i + 1) = RecordOffset(l, i) + NAND_LEN
BY DEF RecordOffset, LATCH_LEN, NAND_LEN

LEMMA SlotOrder ==
  ASSUME NEW l \in Nat, NEW i \in Nat, NEW m \in Nat, i <= m
  PROVE  RecordOffset(l, i) <= RecordOffset(l, m)
BY DEF RecordOffset, LATCH_LEN, NAND_LEN

-----------------------------------------------------------------------------
(* What has been written so far.                                            *)

(* The first k outputs, and the first k gates, read back.                   *)
Table(n, f, k) == \A j \in 0 .. k - 1 : output_signal(f, j) = n.outputs[j + 1]

Records(n, f, k) ==
  \A j \in 0 .. k - 1 :
    /\ Opcode(f, j) = IF j < Denoted(n).latch_count THEN OP_LATCH ELSE OP_NAND
    /\ GateOf(f, j) = n.gates[j + 1]

Longer(f, bs) == [f EXCEPT !.tail = @ \o bs]

LEMMA Lengthened ==
  ASSUME NEW f \in File, f.header_bytes = HEADER_LEN, NEW bs \in Seq(Digit),
         HEADER_LEN + Len(f.tail) + Len(bs) <= USIZE_MAX,
         NEW g, g = Longer(f, bs)
  PROVE  /\ g \in File /\ Continues(f, g, bs)
         /\ g.header_bytes = f.header_bytes /\ g.signature = f.signature
         /\ g.input_count = f.input_count /\ g.output_count = f.output_count
         /\ g.gate_count = f.gate_count /\ g.latch_count = f.latch_count
         /\ g.body_len = f.body_len
<1> DEFINE F == [header_bytes : 0 .. HEADER_LEN, signature : Signature,
                 input_count : 0 .. MAX_U32, output_count : 0 .. MAX_U32,
                 gate_count : 0 .. MAX_U32, latch_count : 0 .. MAX_U32,
                 body_len : 0 .. MAX_U32, tail : Seq(0 .. Base - 1)]
           t == f.tail \o bs
<1>1. f \in F
  BY DEF File
<1>2. f.tail \in Seq(Digit)
  BY <1>1 DEF Digit
<1>3. Len(f.tail) \in Nat /\ Len(bs) \in Nat
  BY <1>2, LenProperties
<1>4. t \in Seq(Digit) /\ Len(t) = Len(f.tail) + Len(bs)
  BY <1>2, ConcatProperties
<1> HIDE DEF t
<1>5. g = [f EXCEPT !.tail = t]
  BY DEF t, Longer
<1>6. /\ g.header_bytes = f.header_bytes /\ g.signature = f.signature
      /\ g.input_count = f.input_count /\ g.output_count = f.output_count
      /\ g.gate_count = f.gate_count /\ g.latch_count = f.latch_count
      /\ g.body_len = f.body_len /\ g.tail = t
  BY <1>1, <1>5
<1>7. g \in F
  BY <1>1, <1>4, <1>5 DEF Digit
<1>8. Continues(f, g, bs)
  BY <1>2, <1>6 DEF Continues, t
<1>9. g.header_bytes + Len(g.tail) <= USIZE_MAX /\ ~(g.header_bytes < HEADER_LEN)
  BY <1>3, <1>4, <1>6, LimitsAssumption DEF HEADER_LEN
<1>10. g \in File
  BY <1>7, <1>9 DEF File
<1> QED
  BY <1>6, <1>8, <1>10

(* What was read from the outputs and from the gates stays.                 *)
LEMMA TableStays ==
  ASSUME NEW n, NEW f, NEW g, NEW bs, Continues(f, g, bs), NEW k \in Nat,
         Table(n, f, k), 3 * k <= Len(f.tail)
  PROVE  Table(n, g, k)
<1>1. Len(f.tail) \in Nat
  BY LenProperties DEF Continues
<1>2. ASSUME NEW j \in 0 .. k - 1
      PROVE  output_signal(g, j) = n.outputs[j + 1]
  <2>1. 3 * j \in Nat /\ 3 * j + 3 <= Len(f.tail)
    BY <1>1
  <2>2. read_u24_at(g, 3 * j) = read_u24_at(f, 3 * j)
    BY <2>1, StillReads
  <2> QED
    BY <2>2 DEF Table, output_signal
<1> QED
  BY <1>2 DEF Table

(* Where a file has its records, the table being oc outputs long.           *)
Located(f, oc, l) ==
  /\ f.output_count = oc /\ oc \in Nat
  /\ f.latch_count = l /\ l \in Nat

At(oc, l, j) == 3 * oc + RecordOffset(l, j)

LEMMA AtRecord ==
  ASSUME NEW f, NEW oc, NEW l, Located(f, oc, l), NEW j \in Nat
  PROVE  /\ At(oc, l, j) \in Nat
         /\ Opcode(f, j) = byte_at(f, At(oc, l, j))
         /\ j < l => GateOf(f, j) = Latch(read_u24_at(f, At(oc, l, j) + 1))
         /\ ~(j < l) => GateOf(f, j) = Nand(read_u24_at(f, At(oc, l, j) + 1),
                                            read_u24_at(f, At(oc, l, j) + 4))
<1>1. l \in Nat /\ body_offset(f) = 3 * oc /\ 3 * oc \in Nat
  BY DEF Located, body_offset
<1>2. RecordOffset(l, j) \in Nat
  BY ONLY <1>1, j \in Nat, SlotStep
<1> QED
  BY <1>1, <1>2 DEF At, Opcode, GateOf, LatchAt, NandAt, Located

LEMMA RecordsStay ==
  ASSUME NEW n, NEW f, NEW g, NEW bs, Continues(f, g, bs),
         NEW oc, NEW l, Located(f, oc, l), Located(g, oc, l), l = Denoted(n).latch_count,
         NEW k \in Nat, At(oc, l, k) <= Len(f.tail), Records(n, f, k)
  PROVE  Records(n, g, k)
<1>1. Len(f.tail) \in Nat
  BY LenProperties DEF Continues
<1>2. ASSUME NEW j \in 0 .. k - 1
      PROVE  Opcode(g, j) = Opcode(f, j) /\ GateOf(g, j) = GateOf(f, j)
  <2> DEFINE at == At(oc, l, j)
  <2>1. j \in Nat /\ at \in Nat
    BY AtRecord
  <2>2. /\ j < l => at + LATCH_LEN <= Len(f.tail)
        /\ ~(j < l) => at + NAND_LEN <= Len(f.tail)
    <3>1. /\ j < l => RecordOffset(l, j) + LATCH_LEN <= RecordOffset(l, k)
          /\ ~(j < l) => RecordOffset(l, j) + NAND_LEN <= RecordOffset(l, k)
          /\ RecordOffset(l, j) \in Nat /\ RecordOffset(l, k) \in Nat /\ oc \in Nat
      BY Slots DEF Located
    <3> QED
      BY <1>1, <3>1 DEF At, LATCH_LEN, NAND_LEN
  <2>3. /\ Opcode(f, j) = byte_at(f, at)
        /\ j < l => GateOf(f, j) = Latch(read_u24_at(f, at + 1))
        /\ ~(j < l) => GateOf(f, j) = Nand(read_u24_at(f, at + 1), read_u24_at(f, at + 4))
    BY ONLY Located(f, oc, l), <2>1, AtRecord
  <2>9. /\ Opcode(g, j) = byte_at(g, at)
        /\ j < l => GateOf(g, j) = Latch(read_u24_at(g, at + 1))
        /\ ~(j < l) => GateOf(g, j) = Nand(read_u24_at(g, at + 1), read_u24_at(g, at + 4))
    BY ONLY Located(g, oc, l), <2>1, AtRecord
  <2> HIDE DEF at
  <2>4. at + 1 \in Nat /\ at + 4 \in Nat /\ at < Len(f.tail) /\ at + 1 + 3 <= Len(f.tail)
        /\ (~(j < l) => at + 4 + 3 <= Len(f.tail))
    BY <1>1, <2>1, <2>2 DEF LATCH_LEN, NAND_LEN
  <2>5. byte_at(g, at) = byte_at(f, at)
    BY <2>1, <2>4, StillReads
  <2>6. read_u24_at(g, at + 1) = read_u24_at(f, at + 1)
    BY <2>4, StillReads
  <2>7. ~(j < l) => read_u24_at(g, at + 4) = read_u24_at(f, at + 4)
    BY <2>4, StillReads
  <2> QED
    BY <2>3, <2>9, <2>5, <2>6, <2>7
<1> QED
  BY <1>2 DEF Records

(* The record of gate g, read where it was written.                         *)
LEMMA RecordWritten ==
  ASSUME NEW f, NEW g, NEW x, Continues(f, g, record_bytes(x)),
         NEW oc, NEW l, Located(g, oc, l), NEW j \in Nat, Len(f.tail) = At(oc, l, j),
         \/ j < l /\ x.op = "latch" /\ x = Latch(x.d) /\ x.d \in 0 .. MAX_U24
         \/ /\ ~(j < l) /\ x.op = "nand" /\ x = Nand(x.a, x.b)
            /\ x.a \in 0 .. MAX_U24 /\ x.b \in 0 .. MAX_U24
  PROVE  /\ Opcode(g, j) = IF j < l THEN OP_LATCH ELSE OP_NAND
         /\ GateOf(g, j) = x
         /\ Len(g.tail) = At(oc, l, j + 1)
<1> DEFINE bs == record_bytes(x)
           at == At(oc, l, j)
<1>0. Continues(f, g, bs)
  OBVIOUS
<1>1. /\ at \in Nat /\ Opcode(g, j) = byte_at(g, at)
      /\ j < l => GateOf(g, j) = Latch(read_u24_at(g, at + 1))
      /\ ~(j < l) => GateOf(g, j) = Nand(read_u24_at(g, at + 1), read_u24_at(g, at + 4))
  BY AtRecord
<1>2. Len(g.tail) = Len(f.tail) + Len(bs)
  BY <1>0, Continued
<1>3. /\ RecordOffset(l, j) \in Nat /\ oc \in Nat /\ l \in Nat
      /\ j < l => RecordOffset(l, j + 1) = RecordOffset(l, j) + LATCH_LEN
      /\ ~(j < l) => RecordOffset(l, j + 1) = RecordOffset(l, j) + NAND_LEN
  BY SlotStep DEF Located
<1>4. Len(f.tail) = at
  OBVIOUS
<1>5. /\ j < l => At(oc, l, j + 1) = at + 4
      /\ ~(j < l) => At(oc, l, j + 1) = at + 7
  BY <1>3 DEF At, LATCH_LEN, NAND_LEN
<1> HIDE DEF at
<1>6. CASE j < l
  <2>1. x = Latch(x.d) /\ x.d \in 0 .. MAX_U24
    BY <1>6
  <2> DEFINE d == x.d
  <2>2. bs = record_bytes(Latch(d))
    BY <2>1
  <2> HIDE DEF bs, d
  <2>3. /\ Len(bs) = 4 /\ bs[1] = OP_LATCH
        /\ bs[2] = u24_bytes(d)[1] /\ bs[3] = u24_bytes(d)[2] /\ bs[4] = u24_bytes(d)[3]
    BY <2>1, <2>2, LatchBytes DEF LATCH_LEN, d
  <2>4. byte_at(g, Len(f.tail)) = bs[1]
    <3>1. Len(bs) >= 1
      BY ONLY <2>3
    <3> QED
      BY ONLY <1>0, <3>1, OpcodeWritten
  <2>5. read_u24_at(g, Len(f.tail) + 1) = d
    <3>1. 1 + 3 <= Len(bs) /\ d \in 0 .. MAX_U24
      BY <2>1, <2>3 DEF d
    <3> QED
      BY <1>0, <2>3, <3>1, ReadsAt1
  <2> QED
    BY <1>1, <1>2, <1>4, <1>5, <1>6, <2>1, <2>3, <2>4, <2>5 DEF d
<1>7. CASE ~(j < l)
  <2>1. x = Nand(x.a, x.b) /\ x.a \in 0 .. MAX_U24 /\ x.b \in 0 .. MAX_U24
    BY <1>7
  <2> DEFINE a == x.a
             b == x.b
  <2>2. bs = record_bytes(Nand(a, b))
    BY <2>1
  <2> HIDE DEF bs, a, b
  <2>3. /\ Len(bs) = 7 /\ bs[1] = OP_NAND
        /\ bs[2] = u24_bytes(a)[1] /\ bs[3] = u24_bytes(a)[2] /\ bs[4] = u24_bytes(a)[3]
        /\ bs[5] = u24_bytes(b)[1] /\ bs[6] = u24_bytes(b)[2] /\ bs[7] = u24_bytes(b)[3]
    BY <2>1, <2>2, NandBytes DEF NAND_LEN, a, b
  <2>4. byte_at(g, Len(f.tail)) = bs[1]
    <3>1. Len(bs) >= 1
      BY ONLY <2>3
    <3> QED
      BY ONLY <1>0, <3>1, OpcodeWritten
  <2>5. read_u24_at(g, Len(f.tail) + 1) = a
    <3>1. 1 + 3 <= Len(bs) /\ a \in 0 .. MAX_U24
      BY <2>1, <2>3 DEF a
    <3> QED
      BY <1>0, <2>3, <3>1, ReadsAt1
  <2>6. read_u24_at(g, Len(f.tail) + 4) = b
    <3>1. 4 + 3 <= Len(bs) /\ b \in 0 .. MAX_U24
      BY <2>1, <2>3 DEF b
    <3> QED
      BY <1>0, <2>3, <3>1, ReadsAt4
  <2> QED
    BY <1>1, <1>2, <1>4, <1>5, <1>7, <2>1, <2>3, <2>4, <2>5, <2>6 DEF a, b
<1> QED
  BY <1>6, <1>7

-----------------------------------------------------------------------------
(* The next output and the next record, written behind those before.        *)

LEMMA OutputWritten ==
  ASSUME NEW n \in Netlist, Encodable(n), NEW k \in 0 .. Len(n.outputs) - 1,
         NEW f, NEW g, Continues(f, g, u24_bytes(n.outputs[k + 1])),
         Len(f.tail) = 3 * k, Table(n, f, k)
  PROVE  Len(g.tail) = 3 * (k + 1) /\ Table(n, g, k + 1)
<1> DEFINE s == n.outputs[k + 1]
           bs == u24_bytes(s)
<1>1. k \in Nat /\ k + 1 \in 1 .. Len(n.outputs)
  BY NetlistFields
<1>2. s \in 0 .. MAX_U24
  BY <1>1, Fits
<1>3. bs \in Seq(Digit) /\ Len(bs) = 3
  BY <1>2, U24Bytes
<1>4. Continues(f, g, bs)
  OBVIOUS
<1> HIDE DEF bs, s
<1>5. Len(g.tail) = 3 * (k + 1)
  <2>1. Len(g.tail) = Len(f.tail) + Len(bs)
    BY <1>4, Continued
  <2> QED
    BY <1>1, <1>3, <2>1
<1>6. Table(n, g, k)
  <2>1. 3 * k <= Len(f.tail)
    BY <1>1
  <2> QED
    BY <1>1, <1>4, <2>1, TableStays
<1>7. output_signal(g, k) = n.outputs[k + 1]
  <2>1. /\ 0 \in Nat /\ 0 + 3 <= Len(bs)
        /\ bs[0 + 1] = bs[1] /\ bs[0 + 2] = bs[2] /\ bs[0 + 3] = bs[3]
    BY <1>3
  <2>4. bs[1] = u24_bytes(s)[1] /\ bs[2] = u24_bytes(s)[2] /\ bs[3] = u24_bytes(s)[3]
    BY DEF bs
  <2>2. read_u24_at(g, Len(f.tail) + 0) = s
    <3> DEFINE z == 0
    <3>1. /\ z \in Nat /\ z + 3 <= Len(bs) /\ bs[z + 1] = u24_bytes(s)[1]
          /\ bs[z + 2] = u24_bytes(s)[2] /\ bs[z + 3] = u24_bytes(s)[3]
      BY <2>1, <2>4
    <3> HIDE DEF z
    <3>2. read_u24_at(g, Len(f.tail) + z) = s
      BY ONLY <1>2, <1>4, <3>1, ReadsWritten
    <3> QED
      BY <3>2 DEF z
  <2>3. Len(f.tail) + 0 = 3 * k
    BY <1>1
  <2> QED
    BY <2>2, <2>3 DEF output_signal, s
<1>8. \A j \in 0 .. (k + 1) - 1 : j \in 0 .. k - 1 \/ j = k
  BY <1>1
<1> QED
  BY <1>5, <1>6, <1>7, <1>8 DEF Table

(* The gate at k is a latch or a NAND as its place says, and fits.          *)
LEMMA GateInPlace ==
  ASSUME NEW n \in Netlist, Encodable(n), NEW k \in 0 .. Len(n.gates) - 1
  PROVE  LET x == n.gates[k + 1]
         IN  \/ /\ k < Denoted(n).latch_count
                /\ x.op = "latch" /\ x = Latch(x.d) /\ x.d \in 0 .. MAX_U24
             \/ /\ ~(k < Denoted(n).latch_count)
                /\ x.op = "nand" /\ x = Nand(x.a, x.b)
                /\ x.a \in 0 .. MAX_U24 /\ x.b \in 0 .. MAX_U24
<1> DEFINE x == n.gates[k + 1]
           N == Len(n.gates)
           l == Denoted(n).latch_count
<1>1. N \in Nat /\ l \in 0 .. N /\ \A i \in 1 .. N : n.gates[i] \in NetlistGate
  BY NetlistFields, DenotedFields
<1>2. /\ \A i \in 1 .. l : n.gates[i].op = "latch" /\ n.gates[i].d \in 0 .. MAX_U24
      /\ \A i \in l + 1 .. N :
           /\ n.gates[i].op = "nand"
           /\ n.gates[i].a \in 0 .. MAX_U24 /\ n.gates[i].b \in 0 .. MAX_U24
  BY Fits
<1>3. k \in 0 .. N - 1
  OBVIOUS
<1> HIDE DEF N, l
<1>4. k + 1 \in 1 .. N /\ (k < l => k + 1 \in 1 .. l) /\ (~(k < l) => k + 1 \in l + 1 .. N)
  BY <1>1, <1>3
<1>5. x \in NetlistGate
  BY <1>1, <1>4
<1>6. ASSUME k < l PROVE x.op = "latch" /\ x = Latch(x.d) /\ x.d \in 0 .. MAX_U24
  BY <1>2, <1>4, <1>5, <1>6, GateOps
<1>7. ASSUME ~(k < l)
      PROVE  x.op = "nand" /\ x = Nand(x.a, x.b) /\ x.a \in 0 .. MAX_U24 /\ x.b \in 0 .. MAX_U24
  BY <1>2, <1>4, <1>5, <1>7, GateOps
<1> HIDE DEF x
<1> QED
  BY <1>6, <1>7 DEF x, l

LEMMA RecordBytes ==
  ASSUME NEW n \in Netlist, Encodable(n), NEW k \in 0 .. Len(n.gates) - 1
  PROVE  LET bs == record_bytes(n.gates[k + 1])
             l == Denoted(n).latch_count
         IN  /\ bs \in Seq(Digit) /\ Len(bs) \in Nat
             /\ RecordOffset(l, k + 1) = RecordOffset(l, k) + Len(bs)
             /\ RecordOffset(l, k) \in Nat /\ RecordOffset(l, k + 1) <= BodyLen(n)
<1> DEFINE x == n.gates[k + 1]
           bs == record_bytes(x)
           N == Len(n.gates)
           l == Denoted(n).latch_count
<1>1. /\ N \in Nat /\ l \in 0 .. N /\ l \in Nat /\ k \in Nat /\ k + 1 \in Nat /\ k + 1 <= N
      /\ BodyLen(n) = RecordOffset(l, N)
  <2>1. N \in Nat /\ l \in 0 .. N /\ BodyLen(n) = RecordOffset(l, N)
    BY NetlistFields, Fits
  <2> QED
    BY <2>1
<1>2. \/ k < l /\ x = Latch(x.d) /\ x.d \in 0 .. MAX_U24
      \/ ~(k < l) /\ x = Nand(x.a, x.b) /\ x.a \in 0 .. MAX_U24 /\ x.b \in 0 .. MAX_U24
  BY GateInPlace
<1> HIDE DEF x, N, l
<1>3. ASSUME k < l PROVE bs \in Seq(Digit) /\ Len(bs) = LATCH_LEN
  <2>1. bs = record_bytes(Latch(x.d)) /\ x.d \in 0 .. MAX_U24
    BY <1>2, <1>3
  <2> QED
    BY <2>1, LatchBytes
<1>4. ASSUME ~(k < l) PROVE bs \in Seq(Digit) /\ Len(bs) = NAND_LEN
  <2>1. bs = record_bytes(Nand(x.a, x.b)) /\ x.a \in 0 .. MAX_U24 /\ x.b \in 0 .. MAX_U24
    BY <1>2, <1>4
  <2> QED
    BY <2>1, NandBytes
<1> HIDE DEF bs
<1>5. /\ RecordOffset(l, k) \in Nat
      /\ k < l => RecordOffset(l, k + 1) = RecordOffset(l, k) + LATCH_LEN
      /\ ~(k < l) => RecordOffset(l, k + 1) = RecordOffset(l, k) + NAND_LEN
  BY <1>1, SlotStep
<1>6. RecordOffset(l, k + 1) <= RecordOffset(l, N)
  BY <1>1, SlotOrder
<1>7. LATCH_LEN \in Nat /\ NAND_LEN \in Nat
  BY DEF LATCH_LEN, NAND_LEN
<1>8. /\ bs \in Seq(Digit) /\ Len(bs) \in Nat
      /\ RecordOffset(l, k + 1) = RecordOffset(l, k) + Len(bs)
  BY <1>3, <1>4, <1>5, <1>7
<1> QED
  BY <1>1, <1>5, <1>6, <1>8 DEF bs, x, l

(* The table and the first k records are there and read back.               *)
Laid(n, f, k) ==
  /\ Located(f, Len(n.outputs), Denoted(n).latch_count)
  /\ Len(f.tail) = At(Len(n.outputs), Denoted(n).latch_count, k)
  /\ Table(n, f, Len(n.outputs))
  /\ Records(n, f, k)

LEMMA GateWritten ==
  ASSUME NEW n \in Netlist, Encodable(n), NEW k \in 0 .. Len(n.gates) - 1,
         NEW f, NEW g, Continues(f, g, record_bytes(n.gates[k + 1])),
         g.latch_count = f.latch_count, Laid(n, f, k)
  PROVE  Laid(n, g, k + 1)
<1> DEFINE x == n.gates[k + 1]
           bs == record_bytes(x)
           oc == Len(n.outputs)
           l == Denoted(n).latch_count
<1>10. /\ Located(f, oc, l) /\ Located(g, oc, l)
       /\ Len(f.tail) = At(oc, l, k) /\ Table(n, f, oc) /\ Records(n, f, k)
  BY DEF Laid, Located, Continues
<1>11. l = Denoted(n).latch_count
  OBVIOUS
<1> HIDE DEF oc, l
<1>1. k \in Nat /\ oc \in Nat /\ l \in Nat
  BY <1>10 DEF Located
<1>2. \/ k < l /\ x.op = "latch" /\ x = Latch(x.d) /\ x.d \in 0 .. MAX_U24
      \/ /\ ~(k < l) /\ x.op = "nand" /\ x = Nand(x.a, x.b)
         /\ x.a \in 0 .. MAX_U24 /\ x.b \in 0 .. MAX_U24
  BY GateInPlace DEF l
<1>3. Continues(f, g, bs)
  OBVIOUS
<1>4. At(oc, l, k) <= Len(f.tail) /\ At(oc, l, k) \in Nat
  BY <1>1, <1>10, AtRecord
<1> HIDE DEF x
<1>5. /\ Opcode(g, k) = IF k < l THEN OP_LATCH ELSE OP_NAND
      /\ GateOf(g, k) = x
      /\ Len(g.tail) = At(oc, l, k + 1)
  BY <1>1, <1>2, <1>3, <1>10, RecordWritten
<1> HIDE DEF bs
<1>6. Table(n, g, oc)
  <2>1. 3 * oc <= Len(f.tail)
    <3>1. RecordOffset(l, k) \in Nat
      BY <1>1, SlotStep
    <3> QED
      BY <1>1, <1>10, <3>1 DEF At
  <2> QED
    BY <1>1, <1>3, <1>10, <2>1, TableStays
<1>7. Records(n, g, k)
  BY <1>1, <1>3, <1>4, <1>10, <1>11, RecordsStay
<1>8. \A j \in 0 .. (k + 1) - 1 : j \in 0 .. k - 1 \/ j = k
  BY <1>1
<1>9. Records(n, g, k + 1)
  BY <1>5, <1>7, <1>8 DEF Records, x, l
<1> QED
  BY <1>5, <1>6, <1>9, <1>10 DEF Laid, oc, l

(* A file with all of them under the right header is the circuit.           *)
HeaderOf(n, f) ==
  /\ f.header_bytes = HEADER_LEN /\ f.signature = "ok"
  /\ f.input_count = n.input_count
  /\ f.output_count = Len(n.outputs)
  /\ f.gate_count = Len(n.gates)
  /\ f.latch_count = Denoted(n).latch_count
  /\ f.body_len = BodyLen(n)

LEMMA SeqIsFunction ==
  ASSUME NEW S, NEW s \in Seq(S), NEW m, m = Len(s)
  PROVE  s = [i \in 1 .. m |-> s[i]]
OBVIOUS

LEMMA WholeFile ==
  ASSUME NEW n \in Netlist, Encodable(n), NEW f, HeaderOf(n, f),
         Len(f.tail) = 3 * Len(n.outputs) + RecordOffset(Denoted(n).latch_count, Len(n.gates)),
         Table(n, f, Len(n.outputs)), Records(n, f, Len(n.gates))
  PROVE  WellFormed(f) /\ Reading(f) = Denoted(n)
<1> DEFINE oc == Len(n.outputs)
           N == Len(n.gates)
           l == Denoted(n).latch_count
<1>1. /\ f.header_bytes = HEADER_LEN /\ f.signature = "ok"
      /\ f.input_count = n.input_count /\ f.output_count = oc
      /\ f.gate_count = N /\ f.latch_count = l /\ f.body_len = BodyLen(n)
      /\ Len(f.tail) = 3 * oc + RecordOffset(l, N)
      /\ Table(n, f, oc) /\ Records(n, f, N)
  BY DEF HeaderOf
<1>2. /\ l \in 0 .. N /\ BodyLen(n) = RecordOffset(l, N) /\ SignalCount(n) - 1 <= MAX_U24
      /\ Valid(Denoted(n))
  BY Fits DEF Encodable
<1>3. /\ Denoted(n) = [input_count |-> n.input_count, latch_count |-> l,
                       outputs |-> n.outputs, gates |-> n.gates]
  BY DEF Denoted
<1>4. /\ oc \in Nat /\ N \in Nat /\ n.outputs \in Seq(0 .. MAX_U32)
      /\ n.gates \in Seq(NetlistGate)
      /\ DOMAIN n.outputs = 1 .. oc /\ DOMAIN n.gates = 1 .. N
      /\ n.input_count \in Nat
  BY NetlistFields
<1> HIDE DEF oc, N, l
<1>5. [k \in 1 .. oc |-> output_signal(f, k - 1)] = n.outputs
  <2>1. ASSUME NEW k \in 1 .. oc PROVE output_signal(f, k - 1) = n.outputs[k]
    <3>1. k - 1 \in 0 .. oc - 1 /\ k - 1 + 1 = k
      BY <1>4
    <3> QED
      BY <1>1, <3>1 DEF Table
  <2>2. n.outputs = [k \in 1 .. oc |-> n.outputs[k]]
    BY <1>4, SeqIsFunction DEF oc
  <2> QED
    BY <2>1, <2>2
<1>6. [i \in 1 .. N |-> GateOf(f, i - 1)] = n.gates
  <2>1. ASSUME NEW i \in 1 .. N PROVE GateOf(f, i - 1) = n.gates[i]
    <3>1. i - 1 \in 0 .. N - 1 /\ i - 1 + 1 = i
      BY <1>4
    <3> QED
      BY <1>1, <3>1 DEF Records
  <2>2. n.gates = [i \in 1 .. N |-> n.gates[i]]
    BY <1>4, SeqIsFunction DEF N
  <2> QED
    BY <2>1, <2>2
<1>7. Reading(f) = Denoted(n)
  BY <1>1, <1>3, <1>5, <1>6 DEF Reading
<1>8. 2 + f.input_count + f.gate_count - 1 <= MAX_U24
  <2>1. SignalCount(n) = 2 + n.input_count + N /\ SignalCount(n) - 1 <= MAX_U24
    BY <1>2 DEF SignalCount, N
  <2>2. ASSUME NEW a \in Nat, NEW b \in Nat, NEW m \in Nat, (2 + a + b) - 1 <= m
        PROVE  2 + a + b - 1 <= m
    BY ONLY <2>2
  <2>3. n.input_count \in Nat /\ N \in Nat /\ MAX_U24 \in Nat
    BY <1>4, MaxU32IsNat
  <2> QED
    BY <1>1, <2>1, <2>2, <2>3
<1>9. /\ f.latch_count <= f.gate_count
      /\ Len(f.tail) = body_offset(f) + f.body_len
      /\ f.body_len = RecordOffset(f.latch_count, f.gate_count)
  BY <1>1, <1>2, <1>4 DEF body_offset
<1>10. \A i \in 0 .. f.gate_count - 1 :
         Opcode(f, i) = IF i < f.latch_count THEN OP_LATCH ELSE OP_NAND
  BY <1>1 DEF Records, l
<1>11. WellFormed(f)
  BY <1>1, <1>2, <1>7, <1>8, <1>9, <1>10 DEF WellFormed
<1> QED
  BY <1>7, <1>11

-----------------------------------------------------------------------------
(* Joined, part by part.                                                    *)

(* g holds what is joined of the first m parts.                             *)
Prefixes(parts, m, g) ==
  g = [i \in 0 .. m |-> IF i = 0 THEN <<>> ELSE g[i - 1] \o parts[i]]

UpTo(parts, i) == (CHOOSE g : Prefixes(parts, Len(parts), g))[i]

LEMMA JoinedIsUpTo == ASSUME NEW parts PROVE Joined(parts) = UpTo(parts, Len(parts))
BY Zenon DEF Joined, UpTo, Prefixes

LEMMA PrefixesExtend ==
  ASSUME NEW parts, NEW m \in Nat, NEW g, Prefixes(parts, m, g)
  PROVE  \E h : Prefixes(parts, m + 1, h)
<1> DEFINE h == [i \in 0 .. m + 1 |-> IF i <= m THEN g[i] ELSE g[m] \o parts[m + 1]]
<1>1. \A i \in 0 .. m : g[i] = IF i = 0 THEN <<>> ELSE g[i - 1] \o parts[i]
  BY DEF Prefixes
<1>2. ASSUME NEW i \in 0 .. m + 1
      PROVE  h[i] = IF i = 0 THEN <<>> ELSE h[i - 1] \o parts[i]
  <2>1. CASE i \in 0 .. m
    <3>1. h[i] = g[i]
      BY <2>1
    <3>2. i # 0 => i - 1 \in 0 .. m /\ h[i - 1] = g[i - 1]
      BY <2>1
    <3> HIDE DEF h
    <3> QED
      BY <1>1, <2>1, <3>1, <3>2
  <2>2. CASE i = m + 1
    <3>1. h[i] = g[m] \o parts[m + 1] /\ i # 0 /\ i - 1 = m
      <4>1. ~(m + 1 <= m) /\ i # 0 /\ i - 1 = m /\ i \in 0 .. m + 1
        BY <2>2
      <4>2. h[i] = IF i <= m THEN g[i] ELSE g[m] \o parts[m + 1]
        BY <4>1, Zenon
      <4> QED
        BY <2>2, <4>1, <4>2, Zenon
    <3>2. h[m] = g[m]
      OBVIOUS
    <3> HIDE DEF h
    <3> QED
      BY <2>2, <3>1, <3>2
  <2> QED
    BY <2>1, <2>2
<1>3. h = [i \in 0 .. m + 1 |-> h[i]]
  OBVIOUS
<1> HIDE DEF h
<1>4. Prefixes(parts, m + 1, h)
  BY <1>2, <1>3 DEF Prefixes
<1> QED
  BY <1>4

LEMMA PrefixesExist ==
  ASSUME NEW parts, NEW m \in Nat
  PROVE  \E g : Prefixes(parts, m, g)
<1> DEFINE S == {k \in Nat : ~ \E g : Prefixes(parts, k, g)}
<1>1. SUFFICES ASSUME S # {} PROVE FALSE
  OBVIOUS
<1>2. PICK k \in S : \A j \in S : k <= j
  BY <1>1, Least
<1>3. CASE k = 0
  <2> DEFINE g == [i \in 0 .. 0 |-> <<>>]
  <2>1. g = [i \in 0 .. 0 |-> IF i = 0 THEN <<>> ELSE g[i - 1] \o parts[i]]
    OBVIOUS
  <2> HIDE DEF g
  <2>2. Prefixes(parts, 0, g)
    BY <2>1 DEF Prefixes
  <2> QED
    BY <1>2, <1>3, <2>2
<1>4. CASE k # 0
  <2>1. k \in Nat /\ k - 1 \in Nat /\ ~(k <= k - 1) /\ k - 1 + 1 = k
    BY <1>2, <1>4
  <2>2. k - 1 \notin S
    BY <1>2, <2>1
  <2>3. PICK g : Prefixes(parts, k - 1, g)
    BY <2>1, <2>2
  <2>4. \E h : Prefixes(parts, k - 1 + 1, h)
    BY <2>1, <2>3, PrefixesExtend
  <2> QED
    BY <1>2, <2>1, <2>4
<1> QED
  BY <1>3, <1>4

LEMMA UpToSteps ==
  ASSUME NEW parts, Len(parts) \in Nat
  PROVE  /\ UpTo(parts, 0) = <<>>
         /\ \A i \in 1 .. Len(parts) : UpTo(parts, i) = UpTo(parts, i - 1) \o parts[i]
<1> DEFINE m == Len(parts)
           g == CHOOSE g : Prefixes(parts, m, g)
<1>1. Prefixes(parts, m, g)
  BY PrefixesExist
<1>2. \A i : UpTo(parts, i) = g[i]
  BY DEF UpTo
<1> HIDE DEF m, g
<1>3. m \in Nat
  BY DEF m
<1>4. \A i \in 0 .. m : g[i] = IF i = 0 THEN <<>> ELSE g[i - 1] \o parts[i]
  BY <1>1 DEF Prefixes
<1>5. g[0] = <<>>
  BY <1>3, <1>4
<1>6. ASSUME NEW i \in 1 .. m PROVE g[i] = g[i - 1] \o parts[i]
  <2>1. i \in 0 .. m /\ i # 0
    BY <1>3
  <2> QED
    BY <1>4, <2>1, Zenon
<1> QED
  BY <1>2, <1>5, <1>6 DEF m

-----------------------------------------------------------------------------
(* The bytes of a netlist, which the loops write and the callers get.       *)

OutputParts(n) == [k \in DOMAIN n.outputs |-> u24_bytes(n.outputs[k])]
GateParts(n) == [i \in DOMAIN n.gates |-> record_bytes(n.gates[i])]

LEMMA PartsOf ==
  ASSUME NEW n \in Netlist
  PROVE  /\ Len(OutputParts(n)) = Len(n.outputs)
         /\ Len(GateParts(n)) = Len(n.gates)
         /\ \A k \in 1 .. Len(n.outputs) : OutputParts(n)[k] = u24_bytes(n.outputs[k])
         /\ \A i \in 1 .. Len(n.gates) : GateParts(n)[i] = record_bytes(n.gates[i])
<1>1. /\ Len(n.outputs) \in Nat /\ Len(n.gates) \in Nat
      /\ DOMAIN n.outputs = 1 .. Len(n.outputs) /\ DOMAIN n.gates = 1 .. Len(n.gates)
  BY NetlistFields
<1>2. ASSUME NEW m \in Nat, NEW p, DOMAIN p = 1 .. m, p \in [1 .. m -> {p[i] : i \in 1 .. m}]
      PROVE  Len(p) = m
  BY <1>2
<1>3. DOMAIN OutputParts(n) = 1 .. Len(n.outputs) /\ DOMAIN GateParts(n) = 1 .. Len(n.gates)
  BY <1>1 DEF OutputParts, GateParts
<1>4. /\ \A k \in 1 .. Len(n.outputs) : OutputParts(n)[k] = u24_bytes(n.outputs[k])
      /\ \A i \in 1 .. Len(n.gates) : GateParts(n)[i] = record_bytes(n.gates[i])
  BY <1>1 DEF OutputParts, GateParts
<1>5. /\ OutputParts(n) \in [1 .. Len(n.outputs) -> {OutputParts(n)[i] : i \in 1 .. Len(n.outputs)}]
      /\ GateParts(n) \in [1 .. Len(n.gates) -> {GateParts(n)[i] : i \in 1 .. Len(n.gates)}]
  BY <1>1 DEF OutputParts, GateParts
<1> QED
  BY <1>1, <1>2, <1>3, <1>4, <1>5

(* The header of n in front of a tail.                                      *)
Written(n, t) ==
  [header_bytes |-> HEADER_LEN, signature |-> "ok",
   input_count |-> n.input_count, output_count |-> Len(n.outputs),
   gate_count |-> Len(n.gates), latch_count |-> Denoted(n).latch_count,
   body_len |-> BodyLen(n), tail |-> t]

LEMMA WrittenHeader ==
  ASSUME NEW n, NEW t
  PROVE  HeaderOf(n, Written(n, t)) /\ Written(n, t).tail = t
BY DEF HeaderOf, Written

LEMMA WrittenOn ==
  ASSUME NEW n, NEW s \in Seq(Digit), NEW bs \in Seq(Digit)
  PROVE  Continues(Written(n, s), Written(n, s \o bs), bs)
BY DEF Continues, Written

LEMMA OutputsWritten ==
  ASSUME NEW n \in Netlist, Encodable(n), NEW k \in 0 .. Len(n.outputs)
  PROVE  LET t == UpTo(OutputParts(n), k)
         IN  t \in Seq(Digit) /\ Len(t) = 3 * k /\ Table(n, Written(n, t), k)
<1> DEFINE t(i) == UpTo(OutputParts(n), i)
           P(i) == t(i) \in Seq(Digit) /\ Len(t(i)) = 3 * i /\ Table(n, Written(n, t(i)), i)
           S == {i \in 0 .. Len(n.outputs) : ~P(i)}
<1>1. SUFFICES ASSUME S # {} PROVE FALSE
  OBVIOUS
<1>2. Len(n.outputs) \in Nat
  BY NetlistFields
<1>3. S \in SUBSET Nat
  BY <1>2
<1>4. PICK i \in S : \A j \in S : i <= j
  <2> HIDE DEF S
  <2> QED
    BY <1>1, <1>3, Least
<1>5. t(0) = <<>> /\ \A j \in 1 .. Len(n.outputs) : t(j) = t(j - 1) \o OutputParts(n)[j]
  BY <1>2, PartsOf, UpToSteps
<1> HIDE DEF t
<1>6. CASE i = 0
  <2>1. <<>> \in Seq(Digit) /\ Len(<<>>) = 0 /\ \A j \in 0 .. 0 - 1 : FALSE
    OBVIOUS
  <2>2. P(0)
    <3>1. t(0) \in Seq(Digit) /\ Len(t(0)) = 3 * 0
      <4>1. t(0) = <<>>
        BY <1>5, Zenon
      <4>2. Len(<<>>) = 3 * 0
        BY <2>1
      <4> QED
        BY <2>1, <4>1, <4>2, Zenon
    <3>2. Table(n, Written(n, t(0)), 0)
      BY <2>1 DEF Table
    <3> QED
      BY <3>1, <3>2
  <2> QED
    BY <1>4, <1>6, <2>2
<1>7. CASE i # 0
  <2> DEFINE j == i - 1
  <2>1. /\ i \in 0 .. Len(n.outputs) /\ j \in 0 .. Len(n.outputs) - 1
        /\ j \in 0 .. Len(n.outputs) /\ i = j + 1 /\ i - 1 = j /\ ~(i <= j) /\ i \in 1 .. Len(n.outputs)
    BY <1>2, <1>4, <1>7
  <2>2. P(j)
    BY <1>4, <2>1
  <2> HIDE DEF j
  <2> DEFINE bs == u24_bytes(n.outputs[j + 1])
  <2>3. bs \in Seq(Digit)
    <3>1. n.outputs[j + 1] \in 0 .. MAX_U24
      BY <2>1, Fits
    <3> QED
      BY <3>1, U24Bytes
  <2>4. t(i) = t(j) \o bs
    BY <1>5, <2>1, PartsOf
  <2>5. t(i) \in Seq(Digit)
    BY <2>2, <2>3, <2>4, ConcatProperties
  <2>6. Continues(Written(n, t(j)), Written(n, t(i)), bs)
    BY <2>2, <2>3, <2>4, WrittenOn
  <2>7. Len(t(i)) = 3 * i /\ Table(n, Written(n, t(i)), i)
    <3>1. Len(Written(n, t(j)).tail) = 3 * j /\ Table(n, Written(n, t(j)), j)
      BY <2>2, WrittenHeader
    <3>2. Len(Written(n, t(i)).tail) = 3 * (j + 1) /\ Table(n, Written(n, t(i)), j + 1)
      BY <2>1, <2>6, <3>1, OutputWritten
    <3> QED
      BY <2>1, <3>2, WrittenHeader
  <2> QED
    BY <1>4, <2>5, <2>7
<1> QED
  BY <1>6, <1>7

LEMMA Regroup ==
  ASSUME NEW S, NEW r \in Seq(S), NEW s \in Seq(S), NEW b \in Seq(S)
  PROVE  r \o (s \o b) = (r \o s) \o b
OBVIOUS

LEMMA GatesWritten ==
  ASSUME NEW n \in Netlist, Encodable(n), NEW k \in 0 .. Len(n.gates)
  PROVE  LET t == UpTo(OutputParts(n), Len(n.outputs)) \o UpTo(GateParts(n), k)
         IN  /\ UpTo(GateParts(n), k) \in Seq(Digit) /\ t \in Seq(Digit)
             /\ Laid(n, Written(n, t), k)
<1> DEFINE t == UpTo(OutputParts(n), Len(n.outputs))
           u(i) == UpTo(GateParts(n), i)
           P(i) == u(i) \in Seq(Digit) /\ Laid(n, Written(n, t \o u(i)), i)
           S == {i \in 0 .. Len(n.gates) : ~P(i)}
<1>2. Len(n.gates) \in Nat /\ Len(n.outputs) \in Nat /\ Denoted(n).latch_count \in Nat
  BY NetlistFields, DenotedFields
<1>8. t \in Seq(Digit) /\ Len(t) = 3 * Len(n.outputs) /\ Table(n, Written(n, t), Len(n.outputs))
  BY <1>2, OutputsWritten
<1>5. u(0) = <<>> /\ \A j \in 1 .. Len(n.gates) : u(j) = u(j - 1) \o GateParts(n)[j]
  BY <1>2, PartsOf, UpToSteps
<1> HIDE DEF t, u
<1>1. SUFFICES ASSUME S # {} PROVE FALSE
  <2>1. ASSUME S = {} PROVE P(k)
    BY <2>1
  <2>2. ASSUME P(k)
        PROVE  /\ u(k) \in Seq(Digit) /\ t \o u(k) \in Seq(Digit)
               /\ Laid(n, Written(n, t \o u(k)), k)
    BY <1>8, <2>2, ConcatProperties
  <2> QED
    BY <2>1, <2>2 DEF t, u
<1>3. S \in SUBSET Nat
  BY <1>2
<1>4. PICK i \in S : \A j \in S : i <= j
  <2> HIDE DEF S
  <2> QED
    BY <1>1, <1>3, Least
<1>6. CASE i = 0
  <2>1. <<>> \in Seq(Digit) /\ \A j \in 0 .. 0 - 1 : FALSE
    OBVIOUS
  <2>2. t \o u(0) = t
    BY <1>5, <1>8
  <2>3. Located(Written(n, t), Len(n.outputs), Denoted(n).latch_count)
    BY <1>2 DEF Located, Written
  <2>4. Len(Written(n, t).tail) = At(Len(n.outputs), Denoted(n).latch_count, 0)
    <3>1. RecordOffset(Denoted(n).latch_count, 0) = 0
      BY <1>2 DEF RecordOffset, LATCH_LEN
    <3> QED
      BY <1>2, <1>8, <3>1, WrittenHeader DEF At
  <2>5. Laid(n, Written(n, t), 0)
    BY <1>8, <2>1, <2>3, <2>4 DEF Laid, Records
  <2>6. P(0)
    BY <1>5, <2>1, <2>2, <2>5
  <2> QED
    BY <1>4, <1>6, <2>6
<1>7. CASE i # 0
  <2> DEFINE j == i - 1
  <2>1. /\ i \in 0 .. Len(n.gates) /\ j \in 0 .. Len(n.gates) - 1
        /\ j \in 0 .. Len(n.gates) /\ i = j + 1 /\ i - 1 = j /\ ~(i <= j) /\ i \in 1 .. Len(n.gates)
    BY <1>2, <1>4, <1>7
  <2>2. P(j)
    BY <1>4, <2>1
  <2> HIDE DEF j
  <2> DEFINE bs == record_bytes(n.gates[j + 1])
  <2>3. bs \in Seq(Digit)
    BY <2>1, RecordBytes
  <2>4. u(i) = u(j) \o bs
    BY <1>5, <2>1, PartsOf
  <2> HIDE DEF bs
  <2>5. u(i) \in Seq(Digit)
    BY <2>2, <2>3, <2>4, ConcatProperties
  <2>6. t \o u(i) = (t \o u(j)) \o bs /\ t \o u(j) \in Seq(Digit)
    <3>1. t \in Seq(Digit) /\ u(j) \in Seq(Digit) /\ bs \in Seq(Digit)
      BY <1>8, <2>2, <2>3
    <3>2. t \o (u(j) \o bs) = (t \o u(j)) \o bs
      <4> DEFINE uj == u(j)
      <4>1. t \in Seq(Digit) /\ uj \in Seq(Digit) /\ bs \in Seq(Digit)
        BY <3>1
      <4> HIDE DEF uj
      <4>2. t \o (uj \o bs) = (t \o uj) \o bs
        BY ONLY <4>1, Regroup
      <4> QED
        BY <4>2 DEF uj
    <3>3. t \o u(j) \in Seq(Digit)
      BY <3>1, ConcatProperties
    <3> QED
      BY <2>4, <3>2, <3>3, Zenon
  <2>7. Continues(Written(n, t \o u(j)), Written(n, t \o u(i)), bs)
    BY <2>3, <2>6, WrittenOn
  <2>8. Written(n, t \o u(i)).latch_count = Written(n, t \o u(j)).latch_count
    BY DEF Written
  <2>9. Laid(n, Written(n, t \o u(i)), j + 1)
    BY <2>1, <2>2, <2>7, <2>8, GateWritten DEF bs
  <2> QED
    BY <1>4, <2>1, <2>5, <2>9
<1> QED
  BY <1>6, <1>7

LEMMA EncodedIsWritten ==
  ASSUME NEW n \in Netlist
  PROVE  Encoded(n) = Written(n, UpTo(OutputParts(n), Len(n.outputs))
                                   \o UpTo(GateParts(n), Len(n.gates)))
<1>1. /\ Joined(OutputParts(n)) = UpTo(OutputParts(n), Len(n.outputs))
      /\ Joined(GateParts(n)) = UpTo(GateParts(n), Len(n.gates))
  BY JoinedIsUpTo, PartsOf
<1>2. Encoded(n) = Written(n, Joined(OutputParts(n)) \o Joined(GateParts(n)))
  BY DEF Encoded, Written, OutputParts, GateParts
<1> QED
  BY <1>1, <1>2

(* The bytes of a netlist that has an encoding are a file that parse        *)
(* accepts and reads as its circuit (lines 326 to 354).                     *)
THEOREM EncodedReads ==
  \A n \in Netlist : Encodable(n) =>
    WellFormed(Encoded(n)) /\ Reading(Encoded(n)) = Denoted(n)
<1> SUFFICES ASSUME NEW n \in Netlist, Encodable(n)
             PROVE  WellFormed(Encoded(n)) /\ Reading(Encoded(n)) = Denoted(n)
  OBVIOUS
<1> DEFINE t == UpTo(OutputParts(n), Len(n.outputs)) \o UpTo(GateParts(n), Len(n.gates))
<1>1. Encoded(n) = Written(n, t)
  BY EncodedIsWritten
<1>2. Len(n.gates) \in 0 .. Len(n.gates)
  BY NetlistFields
<1>3. Laid(n, Written(n, t), Len(n.gates))
  BY <1>2, GatesWritten
<1> HIDE DEF t
<1>4. HeaderOf(n, Written(n, t))
  BY WrittenHeader
<1>5. WellFormed(Written(n, t)) /\ Reading(Written(n, t)) = Denoted(n)
  BY <1>3, <1>4, WholeFile DEF Laid, At
<1> QED
  BY <1>1, <1>5

=============================================================================
