-------------------------- MODULE CpuMachineProofs --------------------------
(***************************************************************************)
(* Proofs about the host CpuMachine and the CPU circuit, in five parts:     *)
(* - the host, for every CPU, every program and every limit: what its loops *)
(*   return is what the CPU has shown, and nothing that was shown is lost   *)
(*   between the calls;                                                     *)
(* - powers of two, digits and the ripple adder: its gates add and subtract;*)
(* - the CPU circuit: what a tick does to the latches is what the           *)
(*   instruction does to the machine;                                       *)
(* - the host on the circuit: it is the host on the instruction set;        *)
(* - the programs: multiplication, greatest common divisor and Fibonacci    *)
(*   compute what they are for, on the instruction set and on the circuit.  *)
(***************************************************************************)
EXTENDS CpuMachine, Cpu, FiniteSetTheorems, SequenceTheorems, WellFoundedInduction, TLAPS

-----------------------------------------------------------------------------
(* The least of some natural numbers: induction without a predicate.        *)
LEMMA Least ==
  ASSUME NEW S \in SUBSET Nat, S # {}
  PROVE  \E m \in S : \A k \in S : m <= k
<1> DEFINE R == OpToRel(<, Nat)
<1>1. IsWellFoundedOn(R, Nat)
  BY NatLessThanWellFounded
<1>2. \A x, y \in Nat : <<y, x>> \in R <=> y < x
  BY DEF OpToRel
<1> HIDE DEF R
<1>3. PICK x \in S : \A y \in S : ~ (<<y, x>> \in R)
  BY <1>1, WFMin
<1>4. ASSUME NEW y \in S PROVE x <= y
  <2>1. x \in Nat /\ y \in Nat
    OBVIOUS
  <2>2. ~(y < x)
    BY <1>2, <1>3, <2>1
  <2> QED
    BY <2>1, <2>2
<1> QED
  BY <1>4

(* Sequences of whatever they are of.                                       *)
IsSeq(s) == \E S : s \in Seq(S)

LEMMA SeqLen == ASSUME NEW s, IsSeq(s) PROVE Len(s) \in Nat
BY DEF IsSeq

LEMMA SeqTogether ==
  ASSUME NEW s, IsSeq(s), NEW t, IsSeq(t)
  PROVE  \E S : s \in Seq(S) /\ t \in Seq(S)
<1>1. PICK S : s \in Seq(S)
  BY DEF IsSeq
<1>2. PICK T : t \in Seq(T)
  BY DEF IsSeq
<1>3. s \in Seq(S \cup T)
  BY <1>1, SeqMonotonic
<1>4. t \in Seq(S \cup T)
  BY <1>2, SeqMonotonic
<1> QED
  BY <1>3, <1>4

LEMMA SeqConcat ==
  ASSUME NEW s, IsSeq(s), NEW t, IsSeq(t)
  PROVE  /\ IsSeq(s \o t)
         /\ Len(s \o t) = Len(s) + Len(t)
         /\ s \o <<>> = s
<1>1. PICK S : s \in Seq(S) /\ t \in Seq(S)
  BY SeqTogether
<1>2. s \o t \in Seq(S) /\ Len(s \o t) = Len(s) + Len(t)
  BY <1>1, ConcatProperties
<1>3. s \o <<>> = s
  BY <1>1, ConcatEmptySeq
<1> QED
  BY <1>2, <1>3 DEF IsSeq

LEMMA SeqAssociative ==
  ASSUME NEW s, IsSeq(s), NEW t, IsSeq(t), NEW u, IsSeq(u)
  PROVE  (s \o t) \o u = s \o (t \o u)
<1>1. PICK S : s \in Seq(S) /\ t \in Seq(S)
  BY SeqTogether
<1>2. PICK U : u \in Seq(U)
  BY DEF IsSeq
<1>3. s \in Seq(S \cup U) /\ t \in Seq(S \cup U)
  BY <1>1, SeqMonotonic
<1>4. u \in Seq(S \cup U)
  BY <1>2, SeqMonotonic
<1> QED
  BY <1>3, <1>4, ConcatAssociative

LEMMA SeqAppend ==
  ASSUME NEW s, IsSeq(s), NEW x
  PROVE  /\ IsSeq(Append(s, x)) /\ Len(Append(s, x)) = Len(s) + 1
         /\ \A i \in 1 .. Len(s) : Append(s, x)[i] = s[i]
         /\ Append(s, x)[Len(s) + 1] = x
         /\ Append(s, x) = s \o <<x>>
         /\ Append(s, x) # <<>>
<1>1. PICK S : s \in Seq(S)
  BY DEF IsSeq
<1>2. s \in Seq(S \cup {x}) /\ x \in S \cup {x}
  BY <1>1, SeqMonotonic
<1>3. /\ Append(s, x) \in Seq(S \cup {x})
      /\ Append(s, x) # <<>>
      /\ Len(Append(s, x)) = Len(s) + 1
      /\ \A i \in 1 .. Len(s) : Append(s, x)[i] = s[i]
      /\ Append(s, x)[Len(s) + 1] = x
  BY <1>2, AppendProperties
<1>4. Append(s, x) = s \o <<x>>
  BY <1>2, AppendIsConcat
<1> QED
  BY <1>3, <1>4 DEF IsSeq

LEMMA SeqSmall ==
  /\ IsSeq(<<>>) /\ Len(<<>>) = 0
  /\ \A x : IsSeq(<<x>>) /\ Len(<<x>>) = 1 /\ <<x>> # <<>> /\ <<x>>[1] = x
<1>1. ASSUME NEW x PROVE IsSeq(<<x>>) /\ Len(<<x>>) = 1 /\ <<x>> # <<>> /\ <<x>>[1] = x
  <2>1. <<x>> \in Seq({x})
    OBVIOUS
  <2> QED
    BY <2>1 DEF IsSeq
<1>2. <<>> \in Seq({}) /\ Len(<<>>) = 0
  OBVIOUS
<1> QED
  BY <1>1, <1>2 DEF IsSeq

-----------------------------------------------------------------------------
(* What OUT showed along a path, as the function of the ticks that          *)
(* ShownAlong defines by recursion: it exists, and a tick adds to it.       *)
Showing(program, p, n, before) ==
  IF opcode(Fetch(program, Pc(p[n]))) = OUT THEN Append(before, Out(p[n + 1])) ELSE before

Collects(program, p, m, g) ==
  g = [n \in 0 .. m |-> IF n = 0 THEN <<>> ELSE Showing(program, p, n, g[n - 1])]

LEMMA AlongDef ==
  ShownAlong = (CHOOSE g : Collects(call.program, path, TicksOfCall, g))[TicksOfCall]
BY Zenon DEF ShownAlong, Collects, Showing

LEMMA CollectsExtends ==
  ASSUME NEW program, NEW p, NEW m \in Nat, NEW g, Collects(program, p, m, g)
  PROVE  \E h : Collects(program, p, m + 1, h)
<1> DEFINE h == [n \in 0 .. m + 1 |-> IF n = m + 1 THEN Showing(program, p, m + 1, g[m]) ELSE g[n]]
<1>1. \A n \in 0 .. m : g[n] = IF n = 0 THEN <<>> ELSE Showing(program, p, n, g[n - 1])
  BY DEF Collects
<1>2. ASSUME NEW n \in 0 .. m + 1
      PROVE  h[n] = IF n = 0 THEN <<>> ELSE Showing(program, p, n, h[n - 1])
  <2>1. CASE n = m + 1
    <3>1. n # 0 /\ n - 1 = m /\ m \in 0 .. m + 1 /\ m # m + 1
      BY <2>1
    <3> QED
      BY <2>1, <3>1
  <2>2. CASE n # m + 1
    <3>1. n \in 0 .. m /\ (n # 0 => n - 1 \in 0 .. m + 1 /\ n - 1 # m + 1)
      BY <2>2
    <3> QED
      BY <1>1, <2>2, <3>1
  <2> QED
    BY <2>1, <2>2
<1>3. h = [n \in 0 .. m + 1 |-> h[n]]
  OBVIOUS
<1> HIDE DEF h
<1>4. Collects(program, p, m + 1, h)
  BY <1>2, <1>3 DEF Collects
<1> QED
  BY <1>4

LEMMA CollectsExists ==
  ASSUME NEW program, NEW p, NEW m \in Nat
  PROVE  \E g : Collects(program, p, m, g)
<1> DEFINE S == {k \in Nat : ~ \E g : Collects(program, p, k, g)}
<1>1. SUFFICES ASSUME S # {} PROVE FALSE
  OBVIOUS
<1>2. PICK k \in S : \A j \in S : k <= j
  BY <1>1, Least
<1>3. CASE k = 0
  <2> DEFINE g == [n \in 0 .. 0 |-> <<>>]
  <2>1. g = [n \in 0 .. 0 |-> IF n = 0 THEN <<>> ELSE Showing(program, p, n, g[n - 1])]
    OBVIOUS
  <2> HIDE DEF g
  <2>2. Collects(program, p, 0, g)
    BY <2>1 DEF Collects
  <2> QED
    BY <1>2, <1>3, <2>2
<1>4. CASE k # 0
  <2>1. k \in Nat /\ k - 1 \in Nat /\ ~(k <= k - 1) /\ k - 1 + 1 = k
    BY <1>2, <1>4
  <2>2. k - 1 \notin S
    BY <1>2, <2>1
  <2>3. PICK g : Collects(program, p, k - 1, g)
    BY <2>1, <2>2
  <2>4. \E h : Collects(program, p, k - 1 + 1, h)
    BY <2>1, <2>3, CollectsExtends
  <2> QED
    BY <1>2, <2>1, <2>4
<1> QED
  BY <1>3, <1>4

LEMMA CollectsAt ==
  ASSUME NEW program, NEW p, NEW m \in Nat, NEW g, Collects(program, p, m, g), NEW k \in 1 .. m
  PROVE  g[k] = Showing(program, p, k, g[k - 1])
<1>1. k \in 0 .. m /\ k # 0
  OBVIOUS
<1> QED
  BY <1>1 DEF Collects

(* It looks at the states it passes only.                                   *)
LEMMA CollectsAgree ==
  ASSUME NEW program, NEW p, NEW q, NEW m \in Nat, NEW l \in Nat, m <= l,
         \A i \in 1 .. m + 1 : p[i] = q[i],
         NEW g, Collects(program, p, m, g), NEW h, Collects(program, q, l, h)
  PROVE  g[m] = h[m]
<1> DEFINE S == {k \in 0 .. m : g[k] # h[k]}
<1>1. SUFFICES ASSUME S # {} PROVE FALSE
  OBVIOUS
<1>0. S \in SUBSET Nat
  OBVIOUS
<1>2. PICK k \in S : \A j \in S : k <= j
  <2> HIDE DEF S
  <2> QED
    BY <1>0, <1>1, Least
<1>3. /\ \A n \in 0 .. m : g[n] = IF n = 0 THEN <<>> ELSE Showing(program, p, n, g[n - 1])
      /\ \A n \in 0 .. l : h[n] = IF n = 0 THEN <<>> ELSE Showing(program, q, n, h[n - 1])
  BY DEF Collects
<1>4. k \in 0 .. m /\ k \in 0 .. l
  BY <1>2
<1>5. k # 0
  BY <1>2, <1>3, <1>4
<1>6. k - 1 \in 0 .. m /\ ~(k <= k - 1) /\ k \in 1 .. m + 1 /\ k + 1 \in 1 .. m + 1
  BY <1>4, <1>5
<1>7. g[k - 1] = h[k - 1]
  BY <1>2, <1>6
<1>8. p[k] = q[k] /\ p[k + 1] = q[k + 1]
  BY <1>6
<1>9. Showing(program, p, k, g[k - 1]) = Showing(program, q, k, h[k - 1])
  BY <1>7, <1>8 DEF Showing
<1> QED
  BY <1>2, <1>3, <1>4, <1>5, <1>9

(* What has been shown along p, and what it is with one more tick.          *)
Along(program, p) ==
  (CHOOSE g : Collects(program, p, Len(p) - 1, g))[Len(p) - 1]

LEMMA AlongStart == ASSUME NEW program, NEW x PROVE Along(program, <<x>>) = <<>>
<1> DEFINE m == Len(<<x>>) - 1
           g == CHOOSE g : Collects(program, <<x>>, m, g)
<1>1. m = 0
  BY SeqSmall
<1>2. Collects(program, <<x>>, m, g)
  BY <1>1, CollectsExists
<1> HIDE DEF g
<1>3. g[0] = <<>>
  BY <1>1, <1>2 DEF Collects
<1> QED
  BY <1>1, <1>3 DEF Along, g

LEMMA AlongTick ==
  ASSUME NEW program, NEW p, IsSeq(p), Len(p) > 0, NEW x
  PROVE  Along(program, Append(p, x)) =
           Showing(program, Append(p, x), Len(p), Along(program, p))
<1> DEFINE q == Append(p, x)
           m == Len(p) - 1
           g == CHOOSE g : Collects(program, p, m, g)
           h == CHOOSE h : Collects(program, q, m + 1, h)
<1>1. m \in Nat /\ m + 1 \in Nat /\ m + 1 = Len(p) /\ m <= m + 1
  BY SeqLen
<1>2. Len(q) - 1 = m + 1 /\ \A i \in 1 .. m + 1 : p[i] = q[i]
  BY <1>1, SeqAppend
<1>3. Collects(program, p, m, g) /\ Collects(program, q, m + 1, h)
  BY <1>1, CollectsExists
<1>4. Along(program, p) = g[m] /\ Along(program, q) = h[m + 1]
  BY <1>2 DEF Along
<1> HIDE DEF g, h, q, m
<1>5. g[m] = h[m]
  BY <1>1, <1>2, <1>3, CollectsAgree
<1>6. h[m + 1] = Showing(program, q, m + 1, h[m])
  <2>1. m + 1 \in 1 .. m + 1 /\ (m + 1) - 1 = m
    BY <1>1
  <2> DEFINE k == m + 1
  <2>2. k \in Nat /\ Collects(program, q, k, h) /\ k \in 1 .. k /\ k - 1 = m
    BY <1>1, <1>3, <2>1
  <2> HIDE DEF k
  <2>3. h[k] = Showing(program, q, k, h[k - 1])
    BY ONLY <2>2, CollectsAt
  <2> QED
    BY <2>2, <2>3 DEF k
<1> QED
  BY <1>1, <1>4, <1>5, <1>6 DEF q

-----------------------------------------------------------------------------
(* The inductive invariant.                                                 *)

Collected == outputs = Along(call.program, path)

Basis ==
  /\ session \in DOMAIN Sessions
  /\ TypeOK
  /\ IsSeq(path) /\ IsSeq(outputs) /\ IsSeq(given) /\ IsSeq(shown)
  /\ Running => call \in Calls
  /\ Running /\ call.kind = "step" => TicksOfCall = 0
  /\ Collected

(* A run until the halt ticks in every pass, and no state before the last   *)
(* is halted.                                                               *)
HaltRun ==
  call.kind = "run_until_halt" =>
    /\ \A i \in 1 .. Len(path) - 1 : ~Halted(path[i])
    /\ Running => TicksOfCall = passes
    /\ result = "Ok" => Halted(Last) /\ TicksOfCall < call.limit
    /\ result = "TickLimit" => TicksOfCall = call.limit

(* A run until outputs ticks until the machine halts, and has not got       *)
(* enough.                                                                  *)
OutputsRun ==
  call.kind = "run_until_outputs" =>
    /\ Running => /\ TicksOfCall = passes \/ Halted(Last)
                  /\ Len(outputs) < call.count \/ call.count = 0
    /\ result = "Ok" =>
         /\ Len(outputs) = call.count
         /\ opcode(Fetch(call.program, Pc(path[TicksOfCall]))) = OUT
    /\ result = "TickLimit" =>
         /\ TicksOfCall = call.limit \/ Halted(Last)
         /\ Len(outputs) < call.count \/ call.count = 0

Inv == Basis /\ HaltRun /\ OutputsRun /\ NothingLost

LEMMA CallFields ==
  ASSUME NEW c \in CallRecord \cup {Idle}
  PROVE  c.limit \in Nat /\ c.count \in Nat
BY DEF CallRecord, Idle

LEMMA KnownCall ==
  ASSUME Basis
  PROVE  /\ call \in CallRecord \cup {Idle} /\ call.limit \in Nat /\ call.count \in Nat
         /\ passes \in Nat /\ passes <= call.limit
         /\ Len(path) \in Nat /\ Len(path) >= 1 /\ TicksOfCall \in Nat /\ Len(outputs) \in Nat
<1>1. call \in CallRecord \cup {Idle}
  BY SessionsAssumption DEF Basis, TypeOK, Calls
<1>2. call.limit \in Nat /\ call.count \in Nat
  BY <1>1, CallFields
<1>3. passes \in Nat /\ passes <= call.limit
  BY <1>2 DEF Basis, TypeOK
<1>4. Len(path) \in Nat /\ Len(outputs) \in Nat
  BY SeqLen DEF Basis
<1>5. Len(path) # 0
  <2>1. PICK S : path \in Seq(S) /\ path # <<>>
    BY DEF Basis, TypeOK, IsSeq
  <2> QED
    BY <2>1, EmptySeq
<1> QED
  BY <1>1, <1>2, <1>3, <1>4, <1>5 DEF TicksOfCall

LEMMA InitInv == Init => Inv
<1> SUFFICES ASSUME Init PROVE Inv
  OBVIOUS
<1>1. /\ session \in DOMAIN Sessions /\ call = Idle /\ passes = 0 /\ outputs = <<>>
      /\ result = "Ok" /\ calls = 0 /\ path = <<ResetState>> /\ cpu = ResetState
      /\ shown = <<>> /\ given = <<>> /\ dropped = FALSE /\ ticks = 0
  BY DEF Init
<1>2. /\ IsSeq(<<>>) /\ Len(<<>>) = 0
      /\ IsSeq(path) /\ Len(path) = 1 /\ path # <<>> /\ path[1] = ResetState
  BY <1>1, SeqSmall
<1>3. call.limit = 0 /\ call.kind = "none"
  BY <1>1 DEF Idle
<1>4. MaxCalls \in Nat
  BY <1>1, SessionsAssumption DEF MaxCalls
<1>5. TypeOK
  <2>1. call \in Calls \cup {Idle} /\ result \in {"running", "Ok", "Vm", "TickLimit"}
    BY <1>1
  <2>2. calls \in 0 .. MaxCalls /\ ticks \in Nat /\ passes \in 0 .. call.limit
    BY <1>1, <1>3, <1>4
  <2>3. TicksOfCall = 0 /\ Len(outputs) = 0
    BY <1>1, <1>2 DEF TicksOfCall
  <2>4. Last = cpu
    BY <1>1, <1>2 DEF Last
  <2>5. /\ Len(outputs) <= TicksOfCall
        /\ TicksOfCall <= (IF call.kind = "step" THEN 1 ELSE passes)
    BY <1>1, <1>3, <2>3
  <2>6. dropped \in BOOLEAN /\ path # <<>>
    BY <1>1, <1>2
  <2> QED
    BY ONLY <2>1, <2>2, <2>4, <2>5, <2>6 DEF TypeOK
<1>6. Collected
  BY <1>1, AlongStart DEF Collected
<1> QED
  BY <1>1, <1>2, <1>3, <1>5, <1>6
     DEF Inv, Basis, HaltRun, OutputsRun, NothingLost, Running

LEMMA CallInv == ASSUME Inv, NEW c \in Calls, Call(c) PROVE Inv'
<1>1. /\ calls' = calls + 1 /\ call' = c /\ passes' = 0 /\ outputs' = <<>>
      /\ result' = "running" /\ path' = <<cpu>> /\ result # "running" /\ calls < MaxCalls
      /\ UNCHANGED <<session, cpu, ticks, fits, shown, given, dropped>>
  BY DEF Call
<1>2. /\ IsSeq(<<>>) /\ Len(<<>>) = 0
      /\ IsSeq(path') /\ Len(path') = 1 /\ path' # <<>> /\ path'[1] = cpu
  BY <1>1, SeqSmall
<1>3. session \in DOMAIN Sessions /\ Calls' = Calls /\ MaxCalls' = MaxCalls /\ MaxCalls \in Nat
  BY <1>1, SessionsAssumption DEF Inv, Basis, Calls, MaxCalls
<1>4. c.limit \in Nat /\ c.count \in Nat
  BY <1>3, SessionsAssumption, CallFields DEF Calls
<1>5. TicksOfCall' = 0 /\ Last' = cpu
  BY <1>1, <1>2 DEF TicksOfCall, Last
<1>6. TypeOK'
  BY <1>1, <1>2, <1>3, <1>4, <1>5 DEF Inv, Basis, TypeOK
<1>7. Collected'
  BY <1>1, AlongStart DEF Collected
<1>8. Basis'
  BY <1>1, <1>2, <1>3, <1>5, <1>6, <1>7 DEF Inv, Basis, Running
<1>9. HaltRun' /\ OutputsRun'
  BY <1>1, <1>2, <1>4, <1>5 DEF HaltRun, OutputsRun, Running
<1>10. NothingLost'
  <2>1. given \o <<>> = given
    BY <1>2, SeqConcat DEF Inv, Basis
  <2> QED
    BY <1>1, <2>1 DEF Inv, NothingLost, Running
<1> QED
  BY <1>8, <1>9, <1>10 DEF Inv

-----------------------------------------------------------------------------
(* A pass without a tick, and a pass with one.                              *)

Handed(r, collected) ==
  /\ result' = r /\ outputs' = collected
  /\ given' = IF r = "Ok" THEN given \o collected ELSE given

Quiet(r) ==
  /\ UNCHANGED <<session, fits, calls, call, cpu, ticks, path, shown>>
  /\ Handed(r, outputs)
  /\ dropped' = IF r \in {"Vm", "TickLimit"} THEN dropped \/ outputs # <<>> ELSE dropped

Ticking(r) ==
  /\ UNCHANGED <<session, fits, calls, call, dropped>>
  /\ Advance
  /\ Handed(r, outputs \o Shown(Fetched, cpu'))

Results == {"running", "Ok", "Vm", "TickLimit"}

LEMMA QuietKeeps ==
  ASSUME Basis, NothingLost, Running, NEW r \in Results, Quiet(r),
         passes' \in Nat, passes <= passes', passes' <= call.limit
  PROVE  Basis' /\ NothingLost' /\ TicksOfCall' = TicksOfCall /\ Last' = Last
<1>1. /\ UNCHANGED <<session, fits, calls, call, cpu, ticks, path, shown, outputs>>
      /\ result' = r /\ given' = (IF r = "Ok" THEN given \o outputs ELSE given)
  BY DEF Quiet, Handed
<1>2. TicksOfCall' = TicksOfCall /\ Last' = Last /\ Calls' = Calls /\ MaxCalls' = MaxCalls
  BY <1>1 DEF TicksOfCall, Last, Calls, MaxCalls
<1>3. dropped \in BOOLEAN /\ dropped' \in BOOLEAN
  BY DEF Basis, TypeOK, Quiet
<1>4. passes' \in 0 .. call.limit
  BY KnownCall
<1>5. TypeOK'
  <2>1. TicksOfCall <= (IF call.kind = "step" THEN 1 ELSE passes')
    BY KnownCall DEF Basis, TypeOK
  <2> QED
    BY <1>1, <1>2, <1>3, <1>4, <2>1 DEF Basis, TypeOK, Results
<1>6. IsSeq(given \o outputs)
  BY SeqConcat DEF Basis
<1>7. Basis'
  BY <1>1, <1>2, <1>5, <1>6 DEF Basis, Running, Collected
<1>8. NothingLost'
  <2>1. CASE r \in {"running", "Ok"}
    BY <1>1, <2>1 DEF NothingLost, Running, Quiet
  <2>2. CASE r \in {"Vm", "TickLimit"} /\ outputs = <<>>
    <3>1. given \o outputs = given
      BY <2>2, SeqConcat, SeqSmall DEF Basis
    <3> QED
      BY <1>1, <2>2, <3>1 DEF NothingLost, Running, Quiet
  <2>3. CASE r \in {"Vm", "TickLimit"} /\ outputs # <<>>
    BY <2>3 DEF NothingLost, Quiet
  <2> QED
    BY <2>1, <2>2, <2>3 DEF Results
<1> QED
  BY <1>2, <1>7, <1>8

LEMMA ShownSeq ==
  ASSUME NEW word, NEW next
  PROVE  /\ IsSeq(Shown(word, next)) /\ Len(Shown(word, next)) \in 0 .. 1
         /\ opcode(word) = OUT => Len(Shown(word, next)) = 1 /\ Shown(word, next) # <<>>
         /\ opcode(word) # OUT => Shown(word, next) = <<>>
BY SeqSmall DEF Shown

LEMMA AdvanceFacts ==
  ASSUME Basis, Advance, UNCHANGED call
  PROVE  /\ IsSeq(path') /\ Len(path') = Len(path) + 1 /\ path' # <<>>
         /\ \A i \in 1 .. Len(path) : path'[i] = path[i]
         /\ path[Len(path)] = cpu /\ path'[Len(path')] = cpu'
         /\ TicksOfCall' = TicksOfCall + 1 /\ Last' = cpu'
         /\ ticks' \in Nat
         /\ shown' = shown \o Shown(Fetched, cpu')
         /\ Along(call.program, path') = Along(call.program, path) \o Shown(Fetched, cpu')
<1>1. /\ path' = Append(path, cpu') /\ ticks' = ticks + 1
      /\ shown' = shown \o Shown(Fetched, cpu')
  BY DEF Advance
<1>2. IsSeq(path) /\ Len(path) \in Nat /\ Len(path) > 0 /\ path[Len(path)] = cpu
  BY KnownCall DEF Basis, TypeOK, Last
<1>3. /\ IsSeq(path') /\ Len(path') = Len(path) + 1 /\ path' # <<>>
      /\ \A i \in 1 .. Len(path) : path'[i] = path[i]
      /\ path'[Len(path) + 1] = cpu'
  BY <1>1, <1>2, SeqAppend
<1>4. TicksOfCall' = TicksOfCall + 1 /\ Last' = cpu' /\ ticks' \in Nat
  BY <1>1, <1>2, <1>3 DEF TicksOfCall, Last, Basis, TypeOK
<1>5. Along(call.program, path') =
        Showing(call.program, path', Len(path), Along(call.program, path))
  BY <1>1, <1>2, AlongTick
<1>6. path'[Len(path)] = cpu
  BY <1>2, <1>3
<1>7. IsSeq(Along(call.program, path))
  BY DEF Basis, Collected
<1>8. CASE opcode(Fetched) = OUT
  <2>1. Along(call.program, path') = Append(Along(call.program, path), Out(cpu'))
    BY <1>3, <1>5, <1>6, <1>8 DEF Showing, Fetched
  <2>2. Shown(Fetched, cpu') = <<Out(cpu')>>
    BY <1>8 DEF Shown
  <2> QED
    BY <1>1, <1>2, <1>3, <1>4, <1>7, <2>1, <2>2, SeqAppend
<1>9. CASE opcode(Fetched) # OUT
  <2>1. Along(call.program, path') = Along(call.program, path)
    BY <1>5, <1>6, <1>9 DEF Showing, Fetched
  <2>2. Along(call.program, path) \o Shown(Fetched, cpu') = Along(call.program, path)
    BY <1>7, <1>9, SeqConcat, SeqSmall DEF Shown
  <2> QED
    BY <1>1, <1>2, <1>3, <1>4, <2>1, <2>2
<1> QED
  BY <1>8, <1>9

LEMMA AtMostOneMore ==
  ASSUME NEW a \in Nat, NEW b \in Nat, a <= b, NEW c \in 0 .. 1
  PROVE  a + c <= b + 1
OBVIOUS

LEMMA TickKeeps ==
  ASSUME Basis, NothingLost, Running, NEW r \in {"running", "Ok"}, Ticking(r),
         \/ call.kind = "step" /\ r = "Ok" /\ passes' = passes
         \/ call.kind # "step" /\ passes < call.limit /\ passes' = passes + 1
  PROVE  Basis' /\ NothingLost'
<1> DEFINE new == Shown(Fetched, cpu')
<1>1. /\ UNCHANGED <<session, fits, calls, call, dropped>> /\ Advance
      /\ result' = r /\ outputs' = outputs \o new
      /\ given' = IF r = "Ok" THEN given \o (outputs \o new) ELSE given
  BY DEF Ticking, Handed
<1>2. /\ IsSeq(path') /\ Len(path') = Len(path) + 1 /\ path' # <<>>
      /\ TicksOfCall' = TicksOfCall + 1 /\ Last' = cpu' /\ ticks' \in Nat
      /\ shown' = shown \o new
      /\ Along(call.program, path') = Along(call.program, path) \o new
  BY <1>1, AdvanceFacts
<1>3. IsSeq(new) /\ Len(new) \in 0 .. 1
  BY ShownSeq
<1>4. IsSeq(outputs) /\ IsSeq(given) /\ IsSeq(shown)
  BY DEF Basis
<1> HIDE DEF new
<1>5. /\ IsSeq(outputs \o new) /\ Len(outputs \o new) = Len(outputs) + Len(new)
      /\ IsSeq(shown \o new)
  BY <1>3, <1>4, SeqConcat
<1>6. IsSeq(given \o (outputs \o new))
  BY <1>4, <1>5, SeqConcat
<1>7. (given \o outputs) \o new = given \o (outputs \o new)
  BY <1>3, <1>4, SeqAssociative
<1>8. Calls' = Calls /\ MaxCalls' = MaxCalls
  BY <1>1 DEF Calls, MaxCalls
<1>9. /\ TicksOfCall \in Nat /\ Len(outputs) \in Nat /\ passes \in Nat /\ call.limit \in Nat
      /\ passes <= call.limit
  BY KnownCall
<1>10. TypeOK'
  <2>1. passes' \in 0 .. call.limit
    BY <1>9
  <2>2. Len(outputs') <= TicksOfCall'
    <3>1. Len(outputs) <= TicksOfCall
      BY DEF Basis, TypeOK
    <3>2. Len(outputs') = Len(outputs) + Len(new)
      BY <1>1, <1>5
    <3>3. Len(outputs) + Len(new) <= TicksOfCall + 1
      BY ONLY <1>3, <1>9, <3>1, AtMostOneMore
    <3> QED
      BY <1>2, <3>2, <3>3
  <2>3. TicksOfCall' <= (IF call.kind = "step" THEN 1 ELSE passes')
    <3>1. CASE call.kind = "step"
      <4>1. TicksOfCall = 0
        BY <3>1 DEF Basis
      <4> QED
        BY <1>2, <3>1, <4>1
    <3>2. CASE call.kind # "step"
      <4>1. TicksOfCall <= passes /\ passes' = passes + 1
        BY <3>2 DEF Basis, TypeOK
      <4>2. TicksOfCall + 1 <= passes + 1
        BY <1>9, <4>1
      <4> QED
        BY <1>2, <3>2, <4>1, <4>2
    <3> QED
      BY <3>1, <3>2
  <2> QED
    BY <1>1, <1>2, <1>8, <2>1, <2>2, <2>3 DEF Basis, TypeOK, Last
<1>11. Collected'
  BY <1>1, <1>2 DEF Basis, Collected
<1>12. Basis'
  <2>1. ~(result' = "running" /\ call'.kind = "step")
    BY <1>1
  <2> QED
    BY <1>1, <1>2, <1>4, <1>5, <1>6, <1>8, <1>10, <1>11, <2>1 DEF Basis, Running
<1>13. NothingLost'
  BY <1>1, <1>2, <1>7 DEF NothingLost, Running
<1> QED
  BY <1>12, <1>13

-----------------------------------------------------------------------------
(* Each step of a call.                                                     *)

(* A step returns without a tick, with nothing collected, or after one.     *)
LEMMA StepInv == ASSUME Inv, Step PROVE Inv'
<1>1. Basis /\ NothingLost /\ Running /\ call.kind = "step"
  BY DEF Inv, Step, Running
<1>2. passes' = passes /\ UNCHANGED <<session, fits, calls, call>>
  BY DEF Step, callers
<1>3. passes \in Nat /\ passes <= passes' /\ passes' <= call.limit
  BY <1>1, <1>2, KnownCall
<1>4. outputs = <<>>
  <2>1. TicksOfCall = 0 /\ Len(outputs) <= TicksOfCall /\ Len(outputs) \in Nat
    BY <1>1, KnownCall DEF Basis, TypeOK
  <2>2. PICK S : outputs \in Seq(S)
    BY <1>1 DEF Basis, IsSeq
  <2> QED
    BY <2>1, <2>2, EmptySeq
<1>5. HaltRun' /\ OutputsRun'
  BY <1>1, <1>2 DEF HaltRun, OutputsRun
<1>6. ASSUME StepHalts, UNCHANGED machine, Return("Ok", <<>>) PROVE Inv'
  <2>1. Quiet("Ok")
    <3>1. dropped \in BOOLEAN /\ dropped' = (dropped \/ FALSE)
      BY <1>1, <1>6 DEF Return, Basis, TypeOK
    <3>2. dropped' = dropped
      BY <3>1
    <3>3. /\ result' = "Ok" /\ outputs' = outputs /\ given' = given \o outputs
          /\ UNCHANGED <<cpu, ticks, path, shown>>
      BY <1>4, <1>6 DEF machine, Return
    <3> QED
      BY <1>2, <3>2, <3>3 DEF Quiet, Handed
  <2> QED
    BY <1>1, <1>2, <1>3, <1>5, <2>1, QuietKeeps DEF Inv, Results
<1>7. ASSUME StepFails, UNCHANGED machine, Return("Vm", <<>>) PROVE Inv'
  <2>1. Quiet("Vm")
    BY <1>2, <1>4, <1>7 DEF machine, Return, Quiet, Handed
  <2> QED
    BY <1>1, <1>2, <1>3, <1>5, <2>1, QuietKeeps DEF Inv, Results
<1>8. ASSUME StepTicks, Advance, Return("Ok", Shown(Fetched, cpu')) PROVE Inv'
  <2>1. <<>> \o Shown(Fetched, cpu') = Shown(Fetched, cpu')
    BY ShownSeq, ConcatEmptySeq DEF IsSeq
  <2>2. Ticking("Ok")
    BY <1>1, <1>2, <1>4, <1>8, <2>1 DEF Return, Ticking, Handed, Basis, TypeOK
  <2> QED
    BY <1>1, <1>2, <1>5, <2>2, TickKeeps DEF Inv
<1> QED
  BY <1>6, <1>7, <1>8 DEF Step

(* What a tick adds to what holds of the states passed.                     *)
LEMMA NotHaltedOnTheWay ==
  ASSUME Basis, Advance, UNCHANGED call, StepTicks,
         \A i \in 1 .. Len(path) - 1 : ~Halted(path[i])
  PROVE  \A i \in 1 .. Len(path') - 1 : ~Halted(path'[i])
<1>1. /\ Len(path') = Len(path) + 1 /\ path[Len(path)] = cpu
      /\ \A i \in 1 .. Len(path) : path'[i] = path[i]
  BY AdvanceFacts
<1>2. Len(path) \in Nat
  BY KnownCall
<1>3. ASSUME NEW i \in 1 .. Len(path') - 1 PROVE ~Halted(path'[i])
  <2>1. i \in 1 .. Len(path) /\ (i = Len(path) \/ i \in 1 .. Len(path) - 1)
    BY <1>1, <1>2
  <2>2. path'[i] = path[i]
    BY <1>1, <2>1
  <2> QED
    BY <1>1, <2>1, <2>2 DEF StepTicks
<1> QED
  BY <1>3

LEMMA HaltPassInv == ASSUME Inv, HaltPass PROVE Inv'
<1>1. Basis /\ NothingLost /\ HaltRun /\ Running /\ call.kind = "run_until_halt"
  BY DEF Inv, HaltPass, Pass, Running
<1>2. /\ passes < call.limit /\ passes' = passes + 1
      /\ UNCHANGED <<session, fits, calls, call>>
  BY DEF HaltPass, Pass, callers
<1>3. passes \in Nat /\ call.limit \in Nat /\ TicksOfCall \in Nat
  BY <1>1, KnownCall
<1>4. passes' \in Nat /\ passes <= passes' /\ passes' <= call.limit
  BY <1>2, <1>3
<1>5. TicksOfCall = passes /\ \A i \in 1 .. Len(path) - 1 : ~Halted(path[i])
  BY <1>1 DEF HaltRun
<1>6. OutputsRun'
  BY <1>1, <1>2 DEF OutputsRun
<1>7. ASSUME StepHalts, UNCHANGED machine, Return("Ok", outputs) PROVE Inv'
  <2>1. Quiet("Ok")
    BY <1>1, <1>2, <1>7 DEF machine, Return, Quiet, Handed, Basis, TypeOK
  <2>2. Basis' /\ NothingLost' /\ TicksOfCall' = TicksOfCall /\ Last' = Last
    BY <1>1, <1>4, <2>1, QuietKeeps DEF Results
  <2>3. Halted(Last)
    BY <1>1, <1>7 DEF StepHalts, Basis, TypeOK
  <2>4. result' = "Ok" /\ path' = path /\ call' = call
    BY <1>2, <1>7 DEF machine, Return
  <2>5. HaltRun'
    BY <1>2, <1>5, <2>2, <2>3, <2>4 DEF HaltRun, Running
  <2> QED
    BY <1>6, <2>2, <2>5 DEF Inv
<1>8. ASSUME StepFails, UNCHANGED machine, Return("Vm", outputs) PROVE Inv'
  <2>1. Quiet("Vm")
    BY <1>2, <1>8 DEF machine, Return, Quiet, Handed
  <2>2. Basis' /\ NothingLost'
    BY <1>1, <1>4, <2>1, QuietKeeps DEF Results
  <2>3. result' = "Vm" /\ path' = path
    BY <1>8 DEF machine, Return
  <2>4. HaltRun'
    BY <1>5, <2>3 DEF HaltRun, Running
  <2> QED
    BY <1>6, <2>2, <2>4 DEF Inv
<1>9. ASSUME StepTicks, Advance, Continue(outputs \o Shown(Fetched, cpu')) PROVE Inv'
  <2>1. Ticking("running")
    BY <1>1, <1>2, <1>9 DEF Continue, Ticking, Handed, Running
  <2>2. Basis' /\ NothingLost'
    BY <1>1, <1>2, <2>1, TickKeeps
  <2>3. \A i \in 1 .. Len(path') - 1 : ~Halted(path'[i])
    BY <1>1, <1>2, <1>5, <1>9, NotHaltedOnTheWay
  <2>4. TicksOfCall' = passes' /\ result' = "running"
    BY <1>1, <1>2, <1>5, <1>9, <2>1, AdvanceFacts DEF Ticking, Handed
  <2>5. HaltRun'
    BY <2>3, <2>4 DEF HaltRun, Running
  <2> QED
    BY <1>6, <2>2, <2>5 DEF Inv
<1> QED
  BY <1>7, <1>8, <1>9 DEF HaltPass

LEMMA NotYetEnough ==
  ASSUME NEW a \in Nat, NEW b \in Nat, NEW n \in 0 .. 1, NEW c, c = a + n, c # b,
         a < b \/ b = 0
  PROVE  c < b \/ b = 0
OBVIOUS

LEMMA OutputsPassInv == ASSUME Inv, OutputsPass PROVE Inv'
<1> DEFINE new == Shown(Fetched, cpu')
<1>1. /\ Basis /\ NothingLost /\ OutputsRun /\ Running
      /\ call.kind = "run_until_outputs"
  BY DEF Inv, OutputsPass, Pass, Running
<1>2. /\ passes < call.limit /\ passes' = passes + 1
      /\ UNCHANGED <<session, fits, calls, call>>
  BY DEF OutputsPass, Pass, callers
<1>3. /\ passes \in Nat /\ call.limit \in Nat /\ TicksOfCall \in Nat
      /\ Len(outputs) \in Nat /\ call.count \in Nat
  BY <1>1, KnownCall
<1>4. passes' \in Nat /\ passes <= passes' /\ passes' <= call.limit
  BY <1>2, <1>3
<1>5. /\ TicksOfCall = passes \/ Halted(Last)
      /\ Len(outputs) < call.count \/ call.count = 0
  BY <1>1 DEF OutputsRun
<1>6. HaltRun'
  BY <1>1, <1>2 DEF HaltRun
<1>7. Last = cpu
  BY <1>1 DEF Basis, TypeOK
<1>8. ASSUME StepHalts, UNCHANGED machine, Continue(outputs) PROVE Inv'
  <2>1. Quiet("running")
    BY <1>1, <1>2, <1>8 DEF machine, Continue, Quiet, Handed, Running
  <2>2. Basis' /\ NothingLost' /\ TicksOfCall' = TicksOfCall /\ Last' = Last
    BY <1>1, <1>4, <2>1, QuietKeeps DEF Results
  <2>3. Halted(Last) /\ result' = "running" /\ outputs' = outputs /\ call' = call
    BY <1>2, <1>7, <1>8, <2>1 DEF StepHalts, Quiet, Handed
  <2>4. OutputsRun'
    BY <1>5, <2>2, <2>3 DEF OutputsRun, Running
  <2> QED
    BY <1>6, <2>2, <2>4 DEF Inv
<1>9. ASSUME StepFails, UNCHANGED machine, Return("Vm", outputs) PROVE Inv'
  <2>1. Quiet("Vm")
    BY <1>2, <1>9 DEF machine, Return, Quiet, Handed
  <2>2. Basis' /\ NothingLost'
    BY <1>1, <1>4, <2>1, QuietKeeps DEF Results
  <2>3. result' = "Vm"
    BY <1>9 DEF Return
  <2>4. OutputsRun'
    BY <2>3 DEF OutputsRun, Running
  <2> QED
    BY <1>6, <2>2, <2>4 DEF Inv
<1>10. ASSUME StepTicks, Advance PROVE /\ TicksOfCall' = passes' /\ TicksOfCall' = Len(path)
                                       /\ path'[Len(path)] = cpu
  <2>1. TicksOfCall = passes
    BY <1>5, <1>7, <1>10 DEF StepTicks
  <2>2. /\ TicksOfCall' = TicksOfCall + 1 /\ path[Len(path)] = cpu
        /\ \A i \in 1 .. Len(path) : path'[i] = path[i]
    BY <1>1, <1>2, <1>10, AdvanceFacts
  <2>3. Len(path) \in Nat /\ Len(path) >= 1 /\ Len(path) \in 1 .. Len(path)
    BY <1>1, KnownCall
  <2>4. TicksOfCall + 1 = Len(path)
    BY <2>3 DEF TicksOfCall
  <2> QED
    BY <1>2, <2>1, <2>2, <2>3, <2>4
<1>11. ASSUME StepTicks, Advance, new # <<>>, Enough(outputs \o new), Return("Ok", outputs \o new)
       PROVE  Inv'
  <2>1. Ticking("Ok")
    BY <1>1, <1>2, <1>11 DEF Return, Ticking, Handed, Basis, TypeOK
  <2>2. Basis' /\ NothingLost'
    BY <1>1, <1>2, <2>1, TickKeeps
  <2>3. opcode(Fetched) = OUT
    BY <1>11 DEF Shown
  <2>4. opcode(Fetch(call.program, Pc(path'[TicksOfCall']))) = OUT
    BY <1>10, <1>11, <2>3 DEF Fetched
  <2>5. Len(outputs') = call.count /\ result' = "Ok"
    BY <1>11 DEF Return, Enough
  <2>6. OutputsRun'
    BY <1>2, <2>4, <2>5 DEF OutputsRun, Running
  <2> QED
    BY <1>6, <2>2, <2>6 DEF Inv
<1>12. ASSUME StepTicks, Advance, ~(new # <<>> /\ Enough(outputs \o new)),
              Continue(outputs \o new)
       PROVE  Inv'
  <2>1. Ticking("running")
    BY <1>1, <1>2, <1>12 DEF Continue, Ticking, Handed, Running
  <2>2. Basis' /\ NothingLost'
    BY <1>1, <1>2, <2>1, TickKeeps
  <2>3. outputs' = outputs \o new /\ result' = "running" /\ call' = call
    BY <1>2, <2>1 DEF Ticking, Handed
  <2>4. Len(outputs') < call.count \/ call.count = 0
    <3>1. CASE new = <<>>
      <4>1. outputs \o new = outputs
        BY <1>1, <3>1, SeqConcat, SeqSmall DEF Basis
      <4> QED
        BY <1>5, <2>3, <4>1
    <3>2. CASE new # <<>>
      <4>1. Len(outputs \o new) # call.count
        BY <1>12, <3>2 DEF Enough
      <4>2. Len(outputs \o new) = Len(outputs) + Len(new)
        BY <1>1, ShownSeq, SeqConcat DEF Basis
      <4>3. Len(new) \in 0 .. 1
        BY ShownSeq
      <4> HIDE DEF new
      <4>4. Len(outputs') = Len(outputs) + Len(new) /\ Len(outputs') # call.count
        BY <2>3, <4>1, <4>2
      <4> QED
        BY ONLY <1>3, <1>5, <4>3, <4>4, NotYetEnough
    <3> QED
      BY <3>1, <3>2
  <2>5. TicksOfCall' = passes'
    BY <1>10, <1>12
  <2>6. OutputsRun'
    BY <2>3, <2>4, <2>5 DEF OutputsRun, Running
  <2> QED
    BY <1>6, <2>2, <2>6 DEF Inv
<1> QED
  BY <1>8, <1>9, <1>11, <1>12 DEF OutputsPass

LEMMA GiveUpInv ==
  ASSUME Inv, NEW kind \in {"run_until_halt", "run_until_outputs"}, GiveUp(kind)
  PROVE  Inv'
<1>1. /\ Basis /\ NothingLost /\ HaltRun /\ OutputsRun /\ Running
      /\ call.kind = kind /\ passes = call.limit
  BY DEF Inv, GiveUp, Running
<1>2. /\ UNCHANGED <<session, fits, calls, call, passes, cpu, ticks, path, shown>>
      /\ result' = "TickLimit" /\ outputs' = outputs
  BY DEF GiveUp, callers, machine, Return
<1>3. passes' \in Nat /\ passes <= passes' /\ passes' <= call.limit
  BY <1>1, <1>2, KnownCall
<1>4. Quiet("TickLimit")
  BY <1>2 DEF GiveUp, Return, Quiet, Handed
<1>5. Basis' /\ NothingLost' /\ TicksOfCall' = TicksOfCall /\ Last' = Last
  BY <1>1, <1>3, <1>4, QuietKeeps DEF Results
<1>6. HaltRun'
  BY <1>1, <1>2, <1>5 DEF HaltRun, Running
<1>7. OutputsRun'
  BY <1>1, <1>2, <1>5 DEF OutputsRun, Running
<1> QED
  BY <1>5, <1>6, <1>7 DEF Inv

LEMMA StutterInv == ASSUME Inv, UNCHANGED vars PROVE Inv'
<1>1. UNCHANGED <<session, cpu, ticks, fits, call, passes, outputs, result,
                  calls, path, shown, given, dropped>>
  BY DEF vars, machine, callers
<1> QED
  BY <1>1 DEF Inv, Basis, TypeOK, Collected, HaltRun, OutputsRun, NothingLost,
              Running, TicksOfCall, Last, Calls, MaxCalls

-----------------------------------------------------------------------------
LEMMA NextInv == Inv /\ [Next]_vars => Inv'
<1> SUFFICES ASSUME Inv, [Next]_vars PROVE Inv'
  OBVIOUS
<1>1. CASE Step
  BY <1>1, StepInv
<1>2. CASE HaltPass
  BY <1>2, HaltPassInv
<1>3. CASE OutputsPass
  BY <1>3, OutputsPassInv
<1>4. ASSUME NEW kind \in {"run_until_halt", "run_until_outputs"}, GiveUp(kind) PROVE Inv'
  BY <1>4, GiveUpInv
<1>5. ASSUME NEW c \in Calls, Call(c) PROVE Inv'
  BY <1>5, CallInv
<1>6. CASE UNCHANGED vars
  BY <1>6, StutterInv
<1> QED
  BY <1>1, <1>2, <1>3, <1>4, <1>5, <1>6 DEF Next, Run

(* The invariant of the host: what a call has collected is what OUT showed  *)
(* along its path, and how many ticks each loop has made.                   *)
THEOREM Invariant == Spec => []Inv
BY InitInv, NextInv, PTL DEF Spec

(* The host's variables keep their types and loops their bounds.            *)
THEOREM TypeCorrect == Spec => []TypeOK
<1>1. Inv => TypeOK
  BY DEF Inv, Basis
<1> QED
  BY <1>1, Invariant, PTL

LEMMA ShownIsAlong == ShownAlong = Along(call.program, path)
BY AlongDef DEF Along, TicksOfCall

(* run_until_halt returns Ok exactly when the machine has halted before its *)
(* limit, and everything shown on the way (runner.rs, run_until_halt), on   *)
(* every CPU and with every program.                                        *)
THEOREM HaltRunsAreExact == Spec => []HaltRunIsExact
<1>1. Inv => HaltRunIsExact
  BY ShownIsAlong DEF Inv, Basis, Collected, HaltRun, HaltRunIsExact
<1> QED
  BY <1>1, Invariant, PTL

(* run_until_outputs returns Ok right after the OUT that showed the last    *)
(* value asked for, and gives up only with fewer or with none asked for.    *)
THEOREM OutputsRunsAreExact == Spec => []OutputsRunIsExact
<1>1. Inv => OutputsRunIsExact
  BY ShownIsAlong DEF Inv, Basis, Collected, OutputsRun, OutputsRunIsExact
<1> QED
  BY <1>1, Invariant, PTL

(* Cutting a run into calls loses and repeats nothing, as long as no call   *)
(* fails with outputs in its hands.                                         *)
THEOREM NothingIsLost == Spec => []NothingLost
<1>1. Inv => NothingLost
  BY DEF Inv
<1> QED
  BY <1>1, Invariant, PTL

-----------------------------------------------------------------------------
(* Powers of two.  The prover knows nothing of exponents; the library knows *)
(* that a set of n elements has 2^n subsets.                                *)
LEMMA PowerIs ==
  ASSUME NEW n \in Nat
  PROVE  /\ IsFiniteSet(SUBSET (1 .. n))
         /\ 2 ^ n = Cardinality(SUBSET (1 .. n))
         /\ 2 ^ n \in Nat /\ 2 ^ n > 0
<1>1. IsFiniteSet(1 .. n) /\ Cardinality(1 .. n) = n
  BY FS_Interval
<1>2. IsFiniteSet(SUBSET (1 .. n)) /\ Cardinality(SUBSET (1 .. n)) = 2 ^ n
  BY <1>1, FS_SUBSET
<1>3. Cardinality(SUBSET (1 .. n)) \in Nat
  BY <1>2, FS_CardinalityType
<1>4. {} \in SUBSET (1 .. n)
  OBVIOUS
<1>5. Cardinality(SUBSET (1 .. n)) # 0
  BY <1>2, <1>4, FS_EmptySet
<1> QED
  BY <1>2, <1>3, <1>5

LEMMA PowerDoubles ==
  ASSUME NEW n \in Nat
  PROVE  2 ^ (n + 1) = 2 * 2 ^ n
<1> DEFINE A == SUBSET (1 .. n)
           B == {x \cup {n + 1} : x \in A}
           f == [x \in A |-> x \cup {n + 1}]
<1>1. n + 1 \in Nat /\ n + 1 \notin 1 .. n /\ 1 .. n + 1 = (1 .. n) \cup {n + 1}
  OBVIOUS
<1>2. SUBSET (1 .. n + 1) = A \cup B
  <2>1. ASSUME NEW x \in SUBSET (1 .. n + 1) PROVE x \in A \cup B
    <3>1. CASE n + 1 \in x
      <4>1. x \ {n + 1} \in A /\ x = (x \ {n + 1}) \cup {n + 1}
        BY <1>1, <3>1
      <4> QED
        BY <4>1
    <3>2. CASE n + 1 \notin x
      BY <1>1, <3>2
    <3> QED
      BY <3>1, <3>2
  <2>2. ASSUME NEW x \in A \cup B PROVE x \in SUBSET (1 .. n + 1)
    BY <1>1
  <2> QED
    BY <2>1, <2>2
<1>3. A \cap B = {}
  BY <1>1
<1>4. f \in Bijection(A, B)
  <2>1. \A x, y \in A : x \cup {n + 1} = y \cup {n + 1} => x = y
    <3> SUFFICES ASSUME NEW x \in A, NEW y \in A, x \cup {n + 1} = y \cup {n + 1}
                 PROVE  x = y
      OBVIOUS
    <3>1. n + 1 \notin x /\ n + 1 \notin y
      BY <1>1
    <3> QED
      BY <3>1
  <2>2. f \in [A -> B]
    OBVIOUS
  <2>3. f \in Injection(A, B)
    BY <2>1, <2>2 DEF Injection, IsInjective
  <2>4. f \in Surjection(A, B)
    BY <2>2 DEF Surjection
  <2> QED
    BY <2>3, <2>4 DEF Bijection
<1>5. IsFiniteSet(A) /\ Cardinality(A) = 2 ^ n /\ 2 ^ n \in Nat
  BY PowerIs
<1>6. IsFiniteSet(B) /\ Cardinality(B) = Cardinality(A)
  BY <1>4, <1>5, FS_Bijection DEF ExistsBijection
<1>7. Cardinality(SUBSET (1 .. n + 1)) = Cardinality(A) + Cardinality(B) - Cardinality(A \cap B)
  BY <1>2, <1>5, <1>6, FS_Union
<1>8. Cardinality(A \cap B) = 0
  BY <1>3, FS_EmptySet
<1>9. 2 ^ (n + 1) = Cardinality(SUBSET (1 .. n + 1))
  BY <1>1, PowerIs
<1> HIDE DEF A, B
<1> QED
  BY <1>5, <1>6, <1>7, <1>8, <1>9

LEMMA PowerZero == 2 ^ 0 = 1
OBVIOUS

-----------------------------------------------------------------------------
(* Recursion along 0 .. n, with values in V: there is such a function.      *)
Recursion(n, V, base, F, f) ==
  /\ f \in [0 .. n -> V]
  /\ f[0] = base
  /\ \A k \in 1 .. n : f[k] = F[<<k, f[k - 1]>>]

LEMMA RecursionExists ==
  ASSUME NEW n \in Nat, NEW V, NEW base \in V, NEW F \in [(1 .. n) \X V -> V]
  PROVE  \E f : Recursion(n, V, base, F, f)
<1> DEFINE S == {k \in 0 .. n : ~ \E f : Recursion(k, V, base, F, f)}
<1>1. SUFFICES ASSUME S # {} PROVE FALSE
  <2>1. n \in 0 .. n
    OBVIOUS
  <2> QED
    BY <1>1, <2>1
<1>2. PICK k \in S : \A j \in S : k <= j
  <2>1. S \in SUBSET Nat
    OBVIOUS
  <2> HIDE DEF S
  <2> QED
    BY <1>1, <2>1, Least
<1>3. k \in 0 .. n /\ ~ \E f : Recursion(k, V, base, F, f)
  BY <1>2
<1>4. CASE k = 0
  <2> DEFINE f == [i \in 0 .. 0 |-> base]
  <2>1. f \in [0 .. 0 -> V] /\ f[0] = base /\ 1 .. 0 = {}
    OBVIOUS
  <2> HIDE DEF f
  <2>2. Recursion(0, V, base, F, f)
    BY <2>1 DEF Recursion
  <2> QED
    BY <1>3, <1>4, <2>2
<1>5. CASE k # 0
  <2>1. k - 1 \in 0 .. n /\ ~(k <= k - 1) /\ k \in 1 .. n /\ k \in Nat
    BY <1>3, <1>5
  <2>2. PICK g : Recursion(k - 1, V, base, F, g)
    BY <1>2, <2>1
  <2>3. g \in [0 .. k - 1 -> V] /\ g[0] = base /\ \A i \in 1 .. k - 1 : g[i] = F[<<i, g[i - 1]>>]
    BY <2>2 DEF Recursion
  <2> DEFINE v == F[<<k, g[k - 1]>>]
             f == [i \in 0 .. k |-> IF i = k THEN v ELSE g[i]]
  <2>4. g[k - 1] \in V /\ v \in V
    BY <2>1, <2>3
  <2> HIDE DEF v
  <2>5. \A i \in 0 .. k : i # k => i \in 0 .. k - 1
    BY <2>1
  <2>6. f \in [0 .. k -> V]
    BY <2>3, <2>4, <2>5
  <2>7. f[0] = base /\ f[k] = v /\ f[k - 1] = g[k - 1]
    BY <1>5, <2>1, <2>3
  <2>8. ASSUME NEW i \in 1 .. k PROVE f[i] = F[<<i, f[i - 1]>>]
    <3>1. CASE i = k
      <4>1. v = F[<<k, f[k - 1]>>]
        BY <2>7, Zenon DEF v
      <4> QED
        BY <2>7, <3>1, <4>1, Zenon
    <3>2. CASE i # k
      <4>1. i \in 1 .. k - 1 /\ i \in 0 .. k /\ i - 1 \in 0 .. k /\ i - 1 # k
        BY <2>1, <3>2
      <4>2. f[i] = g[i] /\ f[i - 1] = g[i - 1]
        BY <3>2, <4>1
      <4>3. g[i] = F[<<i, g[i - 1]>>]
        BY <2>3, <4>1
      <4> HIDE DEF f
      <4> QED
        BY <4>2, <4>3, Zenon
    <3> QED
      BY <3>1, <3>2
  <2> HIDE DEF f
  <2>9. Recursion(k, V, base, F, f)
    BY <2>6, <2>7, <2>8 DEF Recursion
  <2> QED
    BY <1>3, <2>9
<1> QED
  BY <1>4, <1>5

(* A function that keeps to F as long as it stays in V does both.           *)
LEMMA RecursionIs ==
  ASSUME NEW n \in Nat, NEW V, NEW base \in V, NEW F \in [(1 .. n) \X V -> V],
         NEW f, f = [k \in 0 .. n |-> f[k]], f[0] = base,
         \A k \in 1 .. n : f[k - 1] \in V => f[k] = F[<<k, f[k - 1]>>]
  PROVE  Recursion(n, V, base, F, f)
<1> DEFINE S == {k \in 0 .. n : f[k] \notin V}
<1>1. S = {}
  <2>1. SUFFICES ASSUME S # {} PROVE FALSE
    OBVIOUS
  <2>2. PICK k \in S : \A j \in S : k <= j
    <3>1. S \in SUBSET Nat
      OBVIOUS
    <3> HIDE DEF S
    <3> QED
      BY <2>1, <3>1, Least
  <2>3. k \in 0 .. n /\ k # 0 /\ f[k] \notin V
    BY <2>2
  <2>4. k \in 1 .. n /\ k - 1 \in 0 .. n /\ ~(k <= k - 1)
    BY <2>3
  <2>5. f[k - 1] \in V
    BY <2>2, <2>4
  <2>6. f[k] = F[<<k, f[k - 1]>>]
    BY <2>4, <2>5
  <2>7. <<k, f[k - 1]>> \in (1 .. n) \X V
    BY <2>4, <2>5
  <2> QED
    BY <2>3, <2>6, <2>7
<1>2. f \in [0 .. n -> V]
  BY <1>1
<1>3. \A k \in 1 .. n : k - 1 \in 0 .. n
  OBVIOUS
<1> QED
  BY <1>2, <1>3 DEF Recursion

(* The value of a word of digits, from its lowest up.                       *)
Digits == [Bit -> {0, 1}]

Summing(f, low) ==
  /\ low \in [0 .. W -> Nat]
  /\ low[0] = 0
  /\ \A k \in 1 .. W : low[k] = low[k - 1] + 2 ^ (k - 1) * f[k - 1]

LEMMA BitsBelow ==
  ASSUME NEW k \in 1 .. W
  PROVE  /\ k - 1 \in Bit /\ k - 1 \in 0 .. W /\ k \in 0 .. W /\ k - 1 \in Nat
         /\ (k - 1) + 1 = k
BY WordAssumption DEF Bit

LEMMA ValueIs ==
  ASSUME NEW f \in Digits
  PROVE  \E low : Summing(f, low) /\ Value(f) = low[W]
<1> DEFINE F == [p \in (1 .. W) \X Nat |-> p[2] + 2 ^ (p[1] - 1) * f[p[1] - 1]]
           Low(low) ==
             low = [n \in 0 .. W |-> IF n = 0 THEN 0 ELSE low[n - 1] + 2 ^ (n - 1) * f[n - 1]]
<1>1. W \in Nat
  BY WordAssumption
<1>2. ASSUME NEW k \in 1 .. W, NEW m \in Nat PROVE m + 2 ^ (k - 1) * f[k - 1] \in Nat
  <2>1. 2 ^ (k - 1) \in Nat
    BY BitsBelow, PowerIs
  <2>2. f[k - 1] \in {0, 1}
    BY BitsBelow DEF Digits
  <2> DEFINE p == 2 ^ (k - 1)
             d == f[k - 1]
  <2> HIDE DEF p, d
  <2>3. d = 0 \/ d = 1
    BY <2>2 DEF d
  <2>4. p \in Nat
    BY <2>1 DEF p
  <2>5. m + p * d \in Nat
    BY <2>3, <2>4
  <2> QED
    BY <2>5 DEF p, d
<1>3. F \in [(1 .. W) \X Nat -> Nat]
  <2>1. ASSUME NEW p \in (1 .. W) \X Nat PROVE p[2] + 2 ^ (p[1] - 1) * f[p[1] - 1] \in Nat
    BY <1>2
  <2> QED
    BY <2>1
<1>4. \A k \in 1 .. W, m \in Nat : F[<<k, m>>] = m + 2 ^ (k - 1) * f[k - 1]
  BY Zenon
<1> HIDE DEF F
<1>5. PICK g : Recursion(W, Nat, 0, F, g)
  BY <1>1, <1>3, RecursionExists
<1>6. ASSUME NEW h, Recursion(W, Nat, 0, F, h) PROVE Summing(f, h)
  <2>1. h \in [0 .. W -> Nat] /\ h[0] = 0
    BY <1>6 DEF Recursion
  <2>2. ASSUME NEW k \in 1 .. W PROVE h[k] = h[k - 1] + 2 ^ (k - 1) * f[k - 1]
    <3>1. h[k] = F[<<k, h[k - 1]>>]
      BY <1>6 DEF Recursion
    <3>2. h[k - 1] \in Nat
      BY <2>1, BitsBelow
    <3> QED
      BY <1>4, <3>1, <3>2, Zenon
  <2> QED
    BY <2>1, <2>2 DEF Summing
<1>12. Summing(f, g)
  BY <1>5, <1>6
<1>7. Low(g)
  <2>1. g = [n \in 0 .. W |-> g[n]]
    BY <1>12 DEF Summing
  <2>2. ASSUME NEW n \in 0 .. W
        PROVE  g[n] = IF n = 0 THEN 0 ELSE g[n - 1] + 2 ^ (n - 1) * f[n - 1]
    <3>1. CASE n = 0
      BY <1>12, <3>1 DEF Summing
    <3>2. CASE n # 0
      <4>1. n \in 1 .. W
        BY <1>1, <3>2
      <4>2. g[n] = g[n - 1] + 2 ^ (n - 1) * f[n - 1]
        BY <1>12, <4>1, Zenon DEF Summing
      <4> QED
        BY <3>2, <4>2, Zenon
    <3> QED
      BY <3>1, <3>2
  <2> QED
    BY <2>1, <2>2, Zenon
<1> DEFINE low == CHOOSE low : Low(low)
<1>8. Low(low)
  BY <1>7, Zenon
<1>9. Value(f) = low[W]
  BY Zenon DEF Value
<1> HIDE DEF low
<1>10. Recursion(W, Nat, 0, F, low)
  <2>1. low = [k \in 0 .. W |-> low[k]]
    BY <1>8
  <2>2. low[0] = 0
    <3>1. 0 \in 0 .. W
      BY <1>1
    <3> QED
      BY <1>8, <3>1, Zenon
  <2>3. ASSUME NEW k \in 1 .. W, low[k - 1] \in Nat PROVE low[k] = F[<<k, low[k - 1]>>]
    <3>1. k \in 0 .. W /\ k # 0
      BY BitsBelow
    <3>2. low[k] = low[k - 1] + 2 ^ (k - 1) * f[k - 1]
      BY <1>8, <3>1, Zenon
    <3> QED
      BY <1>4, <2>3, <3>2, Zenon
  <2> QED
    BY <1>1, <1>3, <2>1, <2>2, <2>3, RecursionIs
<1>11. Summing(f, low)
  BY <1>6, <1>10
<1> QED
  BY <1>9, <1>11

-----------------------------------------------------------------------------
(* Induction along 0 .. n.                                                  *)
LEMMA Along0 ==
  ASSUME NEW n \in Nat, NEW S, 0 \in S, \A k \in 1 .. n : k - 1 \in S => k \in S
  PROVE  0 .. n \subseteq S
<1> DEFINE R == (0 .. n) \ S
<1>1. SUFFICES ASSUME R # {} PROVE FALSE
  OBVIOUS
<1>2. PICK k \in R : \A j \in R : k <= j
  <2>1. R \in SUBSET Nat
    OBVIOUS
  <2> HIDE DEF R
  <2> QED
    BY <1>1, <2>1, Least
<1>3. k \in 1 .. n
  <2>1. k \in 0 .. n /\ k # 0
    BY <1>2
  <2> QED
    BY <2>1
<1>4. k - 1 \in 0 .. n /\ ~(k <= k - 1)
  BY <1>3
<1> QED
  BY <1>2, <1>3, <1>4

LEMMA Division ==
  ASSUME NEW m \in Nat, m > 0, NEW h \in Nat, NEW t \in Nat, t < m
  PROVE  (m * h + t) % m = t /\ (m * h + t) \div m = h
<1> DEFINE x == m * h + t
           q == x \div m
           r == x % m
<1>1. x \in Nat
  OBVIOUS
<1> HIDE DEF x
<1>2. q \in Nat /\ r \in Nat /\ r < m /\ x = m * q + r
  BY <1>1
<1> HIDE DEF q, r
<1>3. m * h + t = m * q + r
  BY <1>2 DEF x
<1>4. ASSUME NEW c \in Nat, NEW d \in Nat, NEW u \in Nat, NEW v \in Nat, u < m, v < m,
             m * c + u = m * d + v, c < d
      PROVE  FALSE
  <2> DEFINE e == d - c - 1
  <2>1. e \in Nat /\ d = c + 1 + e
    BY <1>4
  <2> HIDE DEF e
  <2>2. m * d = m * c + m + m * e /\ m * e \in Nat /\ m * c \in Nat
    BY <2>1
  <2> QED
    BY <1>4, <2>2
<1>5. q = h
  BY <1>2, <1>3, <1>4
<1>6. r = t
  BY <1>2, <1>3, <1>5
<1> QED
  BY <1>5, <1>6 DEF x, q, r

(* The bit at weight p of x, and what is below twice the weight.            *)
LEMMA BitAt ==
  ASSUME NEW x \in Nat, NEW p \in Nat, p > 0
  PROVE  /\ (x \div p) % 2 \in {0, 1}
         /\ x % p \in Nat /\ x % p < p
         /\ (x \div p) % 2 = 0 => x % (2 * p) = x % p
         /\ (x \div p) % 2 = 1 => x % (2 * p) = (x % p) + p
<1> DEFINE q == x \div p
           r == x % p
           h == q \div 2
           b == q % 2
<1>1. q \in Nat /\ r \in Nat /\ r < p /\ x = p * q + r
  OBVIOUS
<1> HIDE DEF q, r
<1>2. h \in Nat /\ b \in {0, 1} /\ q = 2 * h + b
  BY <1>1
<1> HIDE DEF h, b
<1>3. p * q = (2 * p) * h + p * b
  BY <1>2
<1>4. CASE b = 0
  <2>1. x = (2 * p) * h + r /\ 2 * p \in Nat /\ 2 * p > 0 /\ r < 2 * p
    BY <1>1, <1>2, <1>3, <1>4
  <2> DEFINE m == 2 * p
             t == r
  <2>3. m \in Nat /\ m > 0 /\ t \in Nat /\ t < m /\ x = m * h + t
    BY <1>1, <2>1
  <2> HIDE DEF m, t
  <2>4. x % m = t
    BY <1>2, <2>3, Division
  <2>2. x % (2 * p) = r
    BY <2>4 DEF m, t
  <2> QED
    BY <1>1, <1>4, <2>2 DEF q, r, b
<1>5. CASE b = 1
  <2>1. /\ x = (2 * p) * h + (r + p) /\ 2 * p \in Nat /\ 2 * p > 0
        /\ r + p < 2 * p /\ r + p \in Nat
    BY <1>1, <1>2, <1>3, <1>5
  <2> DEFINE m == 2 * p
             t == r + p
  <2>3. m \in Nat /\ m > 0 /\ t \in Nat /\ t < m /\ x = m * h + t
    BY <1>1, <2>1
  <2> HIDE DEF m, t
  <2>4. x % m = t
    BY <1>2, <2>3, Division
  <2>2. x % (2 * p) = r + p
    BY <2>4 DEF m, t
  <2> QED
    BY <1>1, <1>5, <2>2 DEF q, r, b
<1> QED
  BY <1>2, <1>4, <1>5

(* One more digit of a value.                                               *)
LEMMA SummingStep ==
  ASSUME NEW f \in Digits, NEW low, Summing(f, low), NEW k \in 1 .. W
  PROVE  \E p \in Nat :
           /\ p > 0 /\ p = 2 ^ (k - 1) /\ 2 ^ k = 2 * p
           /\ low[k - 1] \in Nat /\ low[k] \in Nat
           /\ f[k - 1] \in {0, 1}
           /\ f[k - 1] = 0 => low[k] = low[k - 1]
           /\ f[k - 1] = 1 => low[k] = low[k - 1] + p
<1> DEFINE p == 2 ^ (k - 1)
           d == f[k - 1]
<1>1. p \in Nat /\ p > 0
  BY BitsBelow, PowerIs
<1>2. 2 ^ k = 2 * p
  <2>1. 2 ^ ((k - 1) + 1) = 2 * p
    BY BitsBelow, PowerDoubles
  <2>2. (k - 1) + 1 = k
    BY BitsBelow
  <2> HIDE DEF p
  <2> QED
    BY <2>1, <2>2
<1>3. low[k - 1] \in Nat /\ low[k] \in Nat
  BY BitsBelow DEF Summing
<1>4. d \in {0, 1}
  BY BitsBelow DEF Digits
<1>5. low[k] = low[k - 1] + p * d
  BY Zenon DEF Summing
<1> HIDE DEF p, d
<1>6. (d = 0 => low[k] = low[k - 1]) /\ (d = 1 => low[k] = low[k - 1] + p)
  BY <1>1, <1>3, <1>5
<1> QED
  BY <1>1, <1>2, <1>3, <1>4, <1>6 DEF p, d

(* A value of k digits is below 2^k, and other digits make another value.   *)
LEMMA SummingBound ==
  ASSUME NEW f \in Digits, NEW low, Summing(f, low), NEW k \in 0 .. W
  PROVE  low[k] \in Nat /\ low[k] < 2 ^ k
<1> DEFINE S == {i \in 0 .. W : low[i] \in Nat /\ low[i] < 2 ^ i}
<1>1. W \in Nat
  BY WordAssumption
<1>2. 0 \in S
  BY <1>1, PowerZero DEF Summing
<1>3. ASSUME NEW i \in 1 .. W, i - 1 \in S PROVE i \in S
  <2>1. PICK p \in Nat :
           /\ p > 0 /\ p = 2 ^ (i - 1) /\ 2 ^ i = 2 * p
           /\ low[i - 1] \in Nat /\ low[i] \in Nat
           /\ f[i - 1] \in {0, 1}
           /\ f[i - 1] = 0 => low[i] = low[i - 1]
           /\ f[i - 1] = 1 => low[i] = low[i - 1] + p
    BY SummingStep
  <2>2. low[i - 1] < p
    BY <1>3, <2>1
  <2>3. low[i] < 2 * p
    BY <2>1, <2>2
  <2> QED
    BY <2>1, <2>3, BitsBelow
<1> HIDE DEF S
<1>4. k \in S
  BY <1>1, <1>2, <1>3, Along0
<1> QED
  BY <1>4 DEF S

LEMMA SizeIs == Size \in Nat /\ Size > 0
BY PowerIs, WordAssumption DEF Size

LEMMA ValueIsWord ==
  ASSUME NEW f \in Digits
  PROVE  Value(f) \in Word
<1>1. PICK low : Summing(f, low) /\ Value(f) = low[W]
  BY ValueIs
<1>2. W \in 0 .. W
  BY WordAssumption
<1>3. low[W] \in Nat /\ low[W] < Size
  BY <1>1, <1>2, SummingBound DEF Size
<1> QED
  BY <1>1, <1>3, SizeIs DEF Word

LEMMA BitOfIs ==
  ASSUME NEW x \in Nat, NEW i \in Nat
  PROVE  BitOf(x, i) \in {0, 1}
BY PowerIs, BitAt DEF BitOf

BitsOf(x) == [i \in Bit |-> BitOf(x, i)]

LEMMA BitsOfIs ==
  ASSUME NEW x \in Nat
  PROVE  BitsOf(x) \in Digits
<1>1. \A i \in Bit : i \in Nat
  BY WordAssumption DEF Bit
<1> QED
  BY <1>1, BitOfIs DEF BitsOf, Digits

(* The bits of a number have its value, modulo the word.                    *)
LEMMA ValueOfBits ==
  ASSUME NEW x \in Nat
  PROVE  Value(BitsOf(x)) = x % Size
<1> DEFINE f == BitsOf(x)
<1>1. f \in Digits
  BY BitsOfIs
<1>2. PICK low : Summing(f, low) /\ Value(f) = low[W]
  BY <1>1, ValueIs
<1>3. \A k \in 1 .. W : f[k - 1] = (x \div 2 ^ (k - 1)) % 2
  BY BitsBelow DEF BitsOf, BitOf
<1> HIDE DEF f
<1> DEFINE S == {i \in 0 .. W : low[i] = x % 2 ^ i}
<1>4. W \in Nat
  BY WordAssumption
<1>5. 0 \in S
  <2>1. x % 1 = 0
    OBVIOUS
  <2>2. x % 2 ^ 0 = 0
    BY <2>1, PowerZero, Zenon
  <2> QED
    BY <1>2, <1>4, <2>2 DEF Summing
<1>6. ASSUME NEW i \in 1 .. W, i - 1 \in S PROVE i \in S
  <2>1. PICK p \in Nat :
           /\ p > 0 /\ p = 2 ^ (i - 1) /\ 2 ^ i = 2 * p
           /\ low[i - 1] \in Nat /\ low[i] \in Nat
           /\ f[i - 1] \in {0, 1}
           /\ f[i - 1] = 0 => low[i] = low[i - 1]
           /\ f[i - 1] = 1 => low[i] = low[i - 1] + p
    BY <1>1, <1>2, SummingStep
  <2>2. low[i - 1] = x % p
    BY <1>6, <2>1, Zenon
  <2>3. f[i - 1] = (x \div p) % 2
    BY <1>3, <2>1, Zenon
  <2>4. low[i] = x % (2 * p)
    <3>1. /\ (x \div p) % 2 = 0 => x % (2 * p) = x % p
          /\ (x \div p) % 2 = 1 => x % (2 * p) = (x % p) + p
      BY <2>1, BitAt
    <3>2. CASE f[i - 1] = 0
      BY <2>1, <2>2, <2>3, <3>1, <3>2, Zenon
    <3>3. CASE f[i - 1] = 1
      BY <2>1, <2>2, <2>3, <3>1, <3>3, Zenon
    <3> QED
      BY <2>1, <3>2, <3>3, Zenon
  <2>5. low[i] = x % 2 ^ i
    BY <2>1, <2>4, Zenon
  <2> QED
    BY <2>5, BitsBelow
<1> HIDE DEF S
<1>7. W \in S
  <2>1. W \in 0 .. W
    BY <1>4
  <2> QED
    BY <1>4, <1>5, <1>6, <2>1, Along0
<1> QED
  BY <1>2, <1>7, Zenon DEF S, f, Size

(* Different digits have different values.                                  *)
LEMMA ValueInjective ==
  ASSUME NEW f \in Digits, NEW g \in Digits, Value(f) = Value(g)
  PROVE  f = g
<1>1. PICK low : Summing(f, low) /\ Value(f) = low[W]
  BY ValueIs
<1>2. PICK mow : Summing(g, mow) /\ Value(g) = mow[W]
  BY ValueIs
<1>3. W \in Nat
  BY WordAssumption
<1>4. ASSUME NEW k \in 1 .. W, low[k] = mow[k]
      PROVE  low[k - 1] = mow[k - 1] /\ f[k - 1] = g[k - 1]
  <2>1. PICK p \in Nat :
           /\ p > 0 /\ p = 2 ^ (k - 1) /\ 2 ^ k = 2 * p
           /\ low[k - 1] \in Nat /\ low[k] \in Nat
           /\ f[k - 1] \in {0, 1}
           /\ f[k - 1] = 0 => low[k] = low[k - 1]
           /\ f[k - 1] = 1 => low[k] = low[k - 1] + p
    BY <1>1, SummingStep
  <2>2. PICK q \in Nat :
           /\ q > 0 /\ q = 2 ^ (k - 1) /\ 2 ^ k = 2 * q
           /\ mow[k - 1] \in Nat /\ mow[k] \in Nat
           /\ g[k - 1] \in {0, 1}
           /\ g[k - 1] = 0 => mow[k] = mow[k - 1]
           /\ g[k - 1] = 1 => mow[k] = mow[k - 1] + q
    BY <1>2, SummingStep
  <2>3. p = q
    BY <2>1, <2>2, Zenon
  <2>4. low[k - 1] < p /\ mow[k - 1] < p
    <3>1. low[k - 1] < 2 ^ (k - 1)
      BY <1>1, BitsBelow, SummingBound
    <3>2. mow[k - 1] < 2 ^ (k - 1)
      BY <1>2, BitsBelow, SummingBound
    <3> QED
      BY <2>1, <3>1, <3>2, Zenon
  <2> QED
    BY <1>4, <2>1, <2>2, <2>3, <2>4
<1> DEFINE S == {i \in 0 .. W : low[W - i] = mow[W - i]}
<1>5. 0 \in S
  <2>1. W - 0 = W /\ 0 \in 0 .. W
    BY <1>3
  <2> QED
    BY <1>1, <1>2, <2>1
<1>6. ASSUME NEW i \in 1 .. W, i - 1 \in S PROVE i \in S
  <2>1. W - (i - 1) \in 1 .. W /\ (W - (i - 1)) - 1 = W - i /\ i \in 0 .. W
    BY <1>3
  <2> DEFINE k == W - (i - 1)
  <2>2. low[k] = mow[k]
    BY <1>6
  <2>3. k \in 1 .. W /\ k - 1 = W - i
    BY <2>1
  <2> HIDE DEF k
  <2>4. low[k - 1] = mow[k - 1]
    BY <1>4, <2>2, <2>3
  <2> QED
    BY <2>1, <2>3, <2>4
<1>7. ASSUME NEW k \in 0 .. W PROVE low[k] = mow[k]
  <2>1. W - k \in 0 .. W /\ W - (W - k) = k
    BY <1>3
  <2>2. W - k \in S
    <3> HIDE DEF S
    <3> QED
      BY <1>3, <1>5, <1>6, <2>1, Along0
  <2> QED
    BY <2>1, <2>2
<1>8. ASSUME NEW i \in Bit PROVE f[i] = g[i]
  <2>1. i + 1 \in 1 .. W /\ (i + 1) - 1 = i /\ i + 1 \in 0 .. W
    BY <1>3 DEF Bit
  <2> DEFINE k == i + 1
  <2>2. k \in 1 .. W /\ k - 1 = i /\ k \in 0 .. W
    BY <2>1
  <2> HIDE DEF k
  <2>3. f[k - 1] = g[k - 1]
    BY <1>4, <1>7, <2>2
  <2> QED
    BY <2>2, <2>3
<1> QED
  BY <1>8 DEF Digits

(* The bits of a value are its digits.                                      *)
LEMMA BitsOfValue ==
  ASSUME NEW f \in Digits
  PROVE  BitsOf(Value(f)) = f
<1>1. Value(f) \in Word
  BY ValueIsWord
<1>2. Value(f) \in Nat /\ Value(f) % Size = Value(f)
  BY <1>1, SizeIs DEF Word
<1>3. Value(BitsOf(Value(f))) = Value(f)
  BY <1>2, ValueOfBits
<1> QED
  BY <1>2, <1>3, BitsOfIs, ValueInjective

-----------------------------------------------------------------------------
(* Lines and numbers.                                                       *)
DigitsOf(lines) == [bit \in Bit |-> IF lines[bit] THEN 1 ELSE 0]

LEMMA NumberOf ==
  ASSUME NEW lines
  PROVE  /\ DigitsOf(lines) \in Digits
         /\ Number(lines) = Value(DigitsOf(lines))
         /\ Number(lines) \in Word
<1>1. DigitsOf(lines) \in Digits
  BY DEF DigitsOf, Digits
<1>2. Number(lines) = Value(DigitsOf(lines))
  BY Zenon DEF Number, DigitsOf
<1> QED
  BY <1>1, <1>2, ValueIsWord

(* Different lines are different numbers.                                   *)
LEMMA NumberInjective ==
  ASSUME NEW l \in Bits, NEW k \in Bits, Number(l) = Number(k)
  PROVE  l = k
<1>1. DigitsOf(l) = DigitsOf(k)
  BY NumberOf, ValueInjective
<1>2. ASSUME NEW i \in Bit PROVE l[i] = k[i]
  <2>1. l[i] \in BOOLEAN /\ k[i] \in BOOLEAN
    BY DEF Bits
  <2>2. DigitsOf(l)[i] = (IF l[i] THEN 1 ELSE 0) /\ DigitsOf(k)[i] = (IF k[i] THEN 1 ELSE 0)
    BY DEF DigitsOf
  <2> QED
    BY <1>1, <2>1, <2>2
<1>3. l = [i \in Bit |-> l[i]] /\ k = [i \in Bit |-> k[i]]
  BY DEF Bits
<1> QED
  BY <1>2, <1>3

LEMMA LinesOf ==
  ASSUME NEW x \in Word
  PROVE  Lines(x) \in Bits /\ Number(Lines(x)) = x
<1>1. x \in Nat /\ x % Size = x
  BY SizeIs DEF Word
<1>2. Lines(x) \in Bits
  BY DEF Lines, Bits
<1>3. DigitsOf(Lines(x)) = BitsOf(x)
  <2>1. \A i \in Bit : BitOf(x, i) \in {0, 1}
    BY <1>1, BitOfIs, WordAssumption DEF Bit
  <2>2. \A i \in Bit : (IF BitOf(x, i) = 1 THEN 1 ELSE 0) = BitOf(x, i)
    BY <2>1
  <2> QED
    BY <2>2 DEF DigitsOf, BitsOf, Lines
<1>4. Number(Lines(x)) = x
  BY <1>1, <1>3, NumberOf, ValueOfBits, Zenon
<1> QED
  BY <1>2, <1>4

(* The carry into each bit of the ripple adder.                             *)
Rippling(a, b, carry_in, carry) ==
  /\ carry \in [0 .. W -> BOOLEAN]
  /\ carry[0] = carry_in
  /\ \A k \in 1 .. W : carry[k] = CarryOut(a[k - 1], b[k - 1], carry[k - 1])

AddedWith(a, b, carry) ==
  [sum |-> [bit \in Bit |-> xor(xor(a[bit], b[bit]), carry[bit])], carry |-> carry[W]]

LEMMA AddIs ==
  ASSUME NEW a, NEW b, NEW c \in BOOLEAN
  PROVE  \E carry : Rippling(a, b, c, carry) /\ add_word(a, b, c) = AddedWith(a, b, carry)
<1> DEFINE F == [p \in (1 .. W) \X BOOLEAN |-> CarryOut(a[p[1] - 1], b[p[1] - 1], p[2])]
           Ripple(carry) ==
             carry = [bit \in 0 .. W |->
                        IF bit = 0 THEN c ELSE CarryOut(a[bit - 1], b[bit - 1], carry[bit - 1])]
<1>1. W \in Nat
  BY WordAssumption
<1>2. F \in [(1 .. W) \X BOOLEAN -> BOOLEAN]
  BY DEF CarryOut, or, nand
<1>3. \A k \in 1 .. W, m \in BOOLEAN : F[<<k, m>>] = CarryOut(a[k - 1], b[k - 1], m)
  BY Zenon
<1> HIDE DEF F
<1>4. ASSUME NEW h, Recursion(W, BOOLEAN, c, F, h) PROVE Rippling(a, b, c, h)
  <2>1. h \in [0 .. W -> BOOLEAN] /\ h[0] = c
    BY <1>4 DEF Recursion
  <2>2. ASSUME NEW k \in 1 .. W PROVE h[k] = CarryOut(a[k - 1], b[k - 1], h[k - 1])
    <3>1. h[k] = F[<<k, h[k - 1]>>]
      BY <1>4 DEF Recursion
    <3>2. h[k - 1] \in BOOLEAN
      BY <2>1, BitsBelow
    <3> QED
      BY <1>3, <3>1, <3>2, Zenon
  <2> QED
    BY <2>1, <2>2, Zenon DEF Rippling
<1>5. PICK g : Recursion(W, BOOLEAN, c, F, g)
  BY <1>1, <1>2, RecursionExists
<1>6. Rippling(a, b, c, g)
  BY <1>4, <1>5
<1>7. Ripple(g)
  <2>1. g = [n \in 0 .. W |-> g[n]]
    BY <1>6 DEF Rippling
  <2>2. ASSUME NEW n \in 0 .. W
        PROVE  g[n] = IF n = 0 THEN c ELSE CarryOut(a[n - 1], b[n - 1], g[n - 1])
    <3>1. CASE n = 0
      BY <1>6, <3>1, Zenon DEF Rippling
    <3>2. CASE n # 0
      <4>1. n \in 1 .. W
        BY <1>1, <3>2
      <4>2. g[n] = CarryOut(a[n - 1], b[n - 1], g[n - 1])
        BY <1>6, <4>1, Zenon DEF Rippling
      <4> QED
        BY <3>2, <4>2, Zenon
    <3> QED
      BY <3>1, <3>2
  <2> QED
    BY <2>1, <2>2, Zenon
<1> DEFINE carry == CHOOSE carry : Ripple(carry)
<1>8. Ripple(carry)
  BY <1>7, Zenon
<1>9. add_word(a, b, c) = AddedWith(a, b, carry)
  BY Zenon DEF add_word, AddedWith
<1> HIDE DEF carry
<1>10. Recursion(W, BOOLEAN, c, F, carry)
  <2>1. carry = [k \in 0 .. W |-> carry[k]]
    BY <1>8
  <2>2. carry[0] = c
    <3>1. 0 \in 0 .. W
      BY <1>1
    <3> QED
      BY <1>8, <3>1, Zenon
  <2>3. ASSUME NEW k \in 1 .. W, carry[k - 1] \in BOOLEAN
        PROVE  carry[k] = F[<<k, carry[k - 1]>>]
    <3>1. k \in 0 .. W /\ k # 0
      BY BitsBelow
    <3>2. carry[k] = CarryOut(a[k - 1], b[k - 1], carry[k - 1])
      BY <1>8, <3>1, Zenon
    <3> QED
      BY <1>3, <2>3, <3>2, Zenon
  <2> QED
    BY <1>1, <1>2, <2>1, <2>2, <2>3, RecursionIs
<1>11. Rippling(a, b, c, carry)
  BY <1>4, <1>10
<1> QED
  BY <1>9, <1>11, Zenon

(* One digit of an addition.                                                *)
LEMMA FullAdder ==
  ASSUME NEW a \in BOOLEAN, NEW b \in BOOLEAN, NEW c \in BOOLEAN
  PROVE  /\ CarryOut(a, b, c) <=> (a /\ b) \/ (a /\ c) \/ (b /\ c)
         /\ xor(xor(a, b), c) <=> (IF a THEN (b <=> c) ELSE ~(b <=> c))
BY DEF CarryOut, xor, or, and, not, nand

LEMMA LineDigit ==
  ASSUME NEW l, NEW low, Summing(DigitsOf(l), low), NEW k \in 1 .. W
  PROVE  /\ low[k - 1] \in Nat
         /\ low[k] = low[k - 1] + (IF l[k - 1] THEN 2 ^ (k - 1) ELSE 0)
<1>1. DigitsOf(l)[k - 1] = IF l[k - 1] THEN 1 ELSE 0
  BY BitsBelow DEF DigitsOf
<1>2. PICK p \in Nat :
         /\ p > 0 /\ p = 2 ^ (k - 1) /\ 2 ^ k = 2 * p
         /\ low[k - 1] \in Nat /\ low[k] \in Nat
         /\ DigitsOf(l)[k - 1] \in {0, 1}
         /\ DigitsOf(l)[k - 1] = 0 => low[k] = low[k - 1]
         /\ DigitsOf(l)[k - 1] = 1 => low[k] = low[k - 1] + p
  BY NumberOf, SummingStep
<1>3. low[k] = low[k - 1] + (IF l[k - 1] THEN p ELSE 0)
  BY <1>1, <1>2
<1> QED
  BY <1>2, <1>3, Zenon

LEMMA AdderSums ==
  ASSUME NEW a \in Bits, NEW b \in Bits, NEW c \in BOOLEAN,
         NEW carry, Rippling(a, b, c, carry)
  PROVE  Number(a) + Number(b) + (IF c THEN 1 ELSE 0)
           = Number(AddedWith(a, b, carry).sum) + (IF carry[W] THEN Size ELSE 0)
<1> DEFINE s == AddedWith(a, b, carry).sum
           m == IF c THEN 1 ELSE 0
<1>1. PICK x : Summing(DigitsOf(a), x) /\ Number(a) = x[W]
  BY NumberOf, ValueIs
<1>2. PICK y : Summing(DigitsOf(b), y) /\ Number(b) = y[W]
  BY NumberOf, ValueIs
<1>3. PICK z : Summing(DigitsOf(s), z) /\ Number(s) = z[W]
  BY NumberOf, ValueIs
<1>4. W \in Nat
  BY WordAssumption
<1>5. \A k \in 1 .. W : s[k - 1] = xor(xor(a[k - 1], b[k - 1]), carry[k - 1])
  BY BitsBelow DEF AddedWith
<1>6. m \in Nat
  OBVIOUS
<1> HIDE DEF s
<1> DEFINE S == {k \in 0 .. W : x[k] + y[k] + m = z[k] + (IF carry[k] THEN 2 ^ k ELSE 0)}
<1>7. 0 \in S
  <2>1. x[0] = 0 /\ y[0] = 0 /\ z[0] = 0
    BY <1>1, <1>2, <1>3 DEF Summing
  <2>2. carry[0] = c
    BY DEF Rippling
  <2>3. (IF carry[0] THEN 2 ^ 0 ELSE 0) = m
    BY <2>2, PowerZero, Zenon
  <2>4. 0 + 0 + m = 0 + m
    BY <1>6
  <2>5. x[0] + y[0] + m = z[0] + (IF carry[0] THEN 2 ^ 0 ELSE 0)
    <3> HIDE DEF m
    <3> QED
      BY <2>1, <2>3, <2>4, Zenon
  <2> QED
    BY <1>4, <2>5
<1>8. ASSUME NEW k \in 1 .. W, k - 1 \in S PROVE k \in S
  <2> DEFINE p == 2 ^ (k - 1)
             A == a[k - 1]
             B == b[k - 1]
             C == carry[k - 1]
  <2>1. p \in Nat /\ 2 ^ k = 2 * p
    <3>1. k - 1 \in Nat /\ (k - 1) + 1 = k
      BY BitsBelow
    <3>2. 2 ^ ((k - 1) + 1) = 2 * 2 ^ (k - 1)
      BY <3>1, PowerDoubles
    <3> QED
      BY <3>1, <3>2, PowerIs, Zenon
  <2>2. A \in BOOLEAN /\ B \in BOOLEAN /\ C \in BOOLEAN
    BY BitsBelow DEF Bits, Rippling
  <2>3. x[k - 1] \in Nat /\ x[k] = x[k - 1] + (IF A THEN p ELSE 0)
    BY <1>1, LineDigit
  <2>4. y[k - 1] \in Nat /\ y[k] = y[k - 1] + (IF B THEN p ELSE 0)
    BY <1>2, LineDigit
  <2>5. z[k - 1] \in Nat /\ z[k] = z[k - 1] + (IF s[k - 1] THEN p ELSE 0)
    BY <1>3, LineDigit
  <2>6. s[k - 1] = xor(xor(A, B), C) /\ carry[k] = CarryOut(A, B, C)
    BY <1>5, Zenon DEF Rippling
  <2>7. x[k - 1] + y[k - 1] + m = z[k - 1] + (IF C THEN p ELSE 0)
    BY <1>8, Zenon
  <2> HIDE DEF p, A, B, C, m
  <2>8. (x[k - 1] + (IF A THEN p ELSE 0)) + (y[k - 1] + (IF B THEN p ELSE 0)) + m
          = (z[k - 1] + (IF xor(xor(A, B), C) THEN p ELSE 0))
              + (IF CarryOut(A, B, C) THEN 2 * p ELSE 0)
    <3> DEFINE u == x[k - 1]
               v == y[k - 1]
               w == z[k - 1]
    <3>1. /\ u \in Nat /\ v \in Nat /\ w \in Nat
          /\ u + v + m = w + (IF C THEN p ELSE 0)
      BY <2>3, <2>4, <2>5, <2>7, Zenon
    <3> HIDE DEF u, v, w
    <3>2. (u + (IF A THEN p ELSE 0)) + (v + (IF B THEN p ELSE 0)) + m
            = (w + (IF xor(xor(A, B), C) THEN p ELSE 0))
                + (IF CarryOut(A, B, C) THEN 2 * p ELSE 0)
      <4> DEFINE sum == xor(xor(A, B), C)
                 out == CarryOut(A, B, C)
      <4>1. /\ out <=> (A /\ B) \/ (A /\ C) \/ (B /\ C)
            /\ sum <=> (IF A THEN (B <=> C) ELSE ~(B <=> C))
        BY <2>2, FullAdder
      <4> HIDE DEF sum, out
      <4>2. (u + (IF A THEN p ELSE 0)) + (v + (IF B THEN p ELSE 0)) + m
              = (w + (IF sum THEN p ELSE 0)) + (IF out THEN 2 * p ELSE 0)
        BY ONLY <1>6, <2>1, <2>2, <3>1, <4>1
      <4> QED
        BY <4>2, Zenon DEF sum, out
    <3> QED
      BY <3>2, Zenon DEF u, v, w
  <2>9. x[k] + y[k] + m = z[k] + (IF carry[k] THEN 2 ^ k ELSE 0)
    BY <2>1, <2>3, <2>4, <2>5, <2>6, <2>8, Zenon
  <2> QED
    BY <2>9, BitsBelow
<1>9. W \in S
  <2> HIDE DEF S
  <2>1. W \in 0 .. W
    BY <1>4
  <2> QED
    BY <1>4, <1>7, <1>8, <2>1, Along0
<1> QED
  BY <1>1, <1>2, <1>3, <1>9, Zenon DEF s, Size

(* What the ripple adder computes, whatever is on its lines.                *)
LEMMA Adder ==
  ASSUME NEW a \in Bits, NEW b \in Bits, NEW c \in BOOLEAN
  PROVE  /\ add_word(a, b, c).sum \in Bits
         /\ add_word(a, b, c).carry \in BOOLEAN
         /\ Number(a) + Number(b) + (IF c THEN 1 ELSE 0)
              = Number(add_word(a, b, c).sum) + (IF add_word(a, b, c).carry THEN Size ELSE 0)
<1>1. PICK carry : Rippling(a, b, c, carry) /\ add_word(a, b, c) = AddedWith(a, b, carry)
  BY AddIs
<1>2. AddedWith(a, b, carry).carry = carry[W]
  BY DEF AddedWith
<1>3. carry[W] \in BOOLEAN
  BY <1>1, WordAssumption DEF Rippling
<1>4. AddedWith(a, b, carry).sum \in Bits
  BY DEF AddedWith, Bits, xor, nand
<1>5. Number(a) + Number(b) + (IF c THEN 1 ELSE 0)
        = Number(AddedWith(a, b, carry).sum) + (IF carry[W] THEN Size ELSE 0)
  BY <1>1, AdderSums
<1> QED
  BY <1>1, <1>2, <1>3, <1>4, <1>5, Zenon

(* Sums and differences modulo n, by what is left over.                     *)
LEMMA SumModulo ==
  ASSUME NEW n \in Nat, n > 0, NEW x \in 0 .. n - 1, NEW y \in 0 .. n - 1, NEW m \in {0, 1},
         NEW z \in 0 .. n - 1, NEW d \in BOOLEAN, x + y + m = z + (IF d THEN n ELSE 0)
  PROVE  z = (x + y + m) % n /\ (d <=> x + y + m >= n)
<1> DEFINE t == x + y + m
           h == IF d THEN 1 ELSE 0
<1>1. z \in Nat /\ z < n /\ h \in Nat /\ t = n * h + z
  OBVIOUS
<1>2. t % n = z
  <2> HIDE DEF t, h
  <2>1. (n * h + z) % n = z
    BY <1>1, Division
  <2> QED
    BY <1>1, <2>1, Zenon
<1> QED
  BY <1>2

(* The inverse lines hold what is missing to a word of ones.                *)
Inverse1(b) == [bit \in Bit |-> not(b[bit])]

LEMMA NumberNot ==
  ASSUME NEW b \in Bits
  PROVE  Inverse1(b) \in Bits /\ Number(b) + Number(Inverse1(b)) + 1 = Size
<1> DEFINE n == Inverse1(b)
<1>1. PICK x : Summing(DigitsOf(b), x) /\ Number(b) = x[W]
  BY NumberOf, ValueIs
<1>2. PICK y : Summing(DigitsOf(n), y) /\ Number(n) = y[W]
  BY NumberOf, ValueIs
<1>3. W \in Nat
  BY WordAssumption
<1>4. n \in Bits
  BY DEF Bits, Inverse1, not, nand
<1>5. \A k \in 1 .. W : n[k - 1] <=> ~b[k - 1]
  BY BitsBelow DEF Inverse1, not, nand
<1> HIDE DEF n
<1> DEFINE S == {k \in 0 .. W : x[k] + y[k] + 1 = 2 ^ k}
<1>6. 0 \in S
  BY <1>1, <1>2, <1>3, PowerZero DEF Summing
<1>7. ASSUME NEW k \in 1 .. W, k - 1 \in S PROVE k \in S
  <2> DEFINE p == 2 ^ (k - 1)
             u == x[k - 1]
             v == y[k - 1]
  <2>1. p \in Nat /\ 2 ^ k = 2 * p
    <3>1. k - 1 \in Nat /\ (k - 1) + 1 = k
      BY BitsBelow
    <3>2. 2 ^ ((k - 1) + 1) = 2 * 2 ^ (k - 1)
      BY <3>1, PowerDoubles
    <3> QED
      BY <3>1, <3>2, PowerIs, Zenon
  <2>2. u \in Nat /\ x[k] = u + (IF b[k - 1] THEN p ELSE 0)
    BY <1>1, LineDigit
  <2>3. v \in Nat /\ y[k] = v + (IF n[k - 1] THEN p ELSE 0)
    BY <1>2, LineDigit
  <2>4. u + v + 1 = p
    BY <1>7, Zenon
  <2> HIDE DEF p, u, v
  <2>5. x[k] + y[k] + 1 = 2 * p
    BY <1>5, <2>1, <2>2, <2>3, <2>4
  <2> QED
    BY <2>1, <2>5, BitsBelow
<1>8. W \in S
  <2> HIDE DEF S
  <2>1. W \in 0 .. W
    BY <1>3
  <2> QED
    BY <1>3, <1>6, <1>7, <2>1, Along0
<1> QED
  BY <1>1, <1>2, <1>4, <1>8, Zenon DEF n, Size

(* The adder and the subtractor as arithmetic modulo the word.              *)
LEMMA AddsModulo ==
  ASSUME NEW a \in Bits, NEW b \in Bits, NEW c \in BOOLEAN
  PROVE  LET s == add_word(a, b, c)
             m == IF c THEN 1 ELSE 0
         IN  /\ s.sum \in Bits /\ s.carry \in BOOLEAN
             /\ Number(s.sum) = (Number(a) + Number(b) + m) % Size
             /\ s.carry = (Number(a) + Number(b) + m >= Size)
<1> DEFINE x == Number(a)
           y == Number(b)
           z == Number(add_word(a, b, c).sum)
           d == add_word(a, b, c).carry
           m == IF c THEN 1 ELSE 0
<1>1. x \in 0 .. Size - 1 /\ y \in 0 .. Size - 1 /\ z \in 0 .. Size - 1
  BY NumberOf DEF Word
<1>2. add_word(a, b, c).sum \in Bits /\ d \in BOOLEAN /\ x + y + m = z + (IF d THEN Size ELSE 0)
  BY Adder
<1>3. m \in {0, 1}
  OBVIOUS
<1> HIDE DEF x, y, z, d, m
<1>4. z = (x + y + m) % Size /\ (d <=> x + y + m >= Size)
  BY SizeIs, <1>1, <1>2, <1>3, SumModulo
<1>5. (x + y + m >= Size) \in BOOLEAN
  OBVIOUS
<1>6. d = (x + y + m >= Size)
  BY <1>2, <1>4, <1>5
<1> QED
  BY <1>2, <1>4, <1>6, Zenon DEF x, y, z, d, m

LEMMA DifferenceModulo ==
  ASSUME NEW n \in Nat, n > 0, NEW x \in 0 .. n - 1, NEW y \in 0 .. n - 1, NEW i \in 0 .. n - 1,
         y + i + 1 = n
  PROVE  (x + i + 1) % n = (x - y) % n /\ (x + i + 1 >= n <=> x >= y)
<1>1. x + i + 1 = (x - y) + n
  OBVIOUS
<1> DEFINE t == x - y
<1>2. t \in Int /\ -n < t /\ t < n
  OBVIOUS
<1>3. (t + n) % n = t % n
  <2> HIDE DEF t
  <2> QED
    BY <1>2
<1> QED
  BY <1>1, <1>3

LEMMA SubtractsModulo ==
  ASSUME NEW a \in Bits, NEW b \in Bits
  PROVE  LET s == sub_word(a, b)
         IN  /\ s.sum \in Bits /\ s.carry \in BOOLEAN
             /\ Number(s.sum) = (Number(a) - Number(b)) % Size
             /\ s.carry = (Number(a) >= Number(b))
<1> DEFINE x == Number(a)
           y == Number(b)
           i == Number(Inverse1(b))
           s == add_word(a, Inverse1(b), TRUE)
<1>1. x \in 0 .. Size - 1 /\ y \in 0 .. Size - 1 /\ i \in 0 .. Size - 1
  BY NumberOf DEF Word
<1>2. Inverse1(b) \in Bits /\ y + i + 1 = Size
  BY NumberNot
<1>3. sub_word(a, b) = s
  BY Zenon DEF sub_word, Inverse1
<1>4. /\ s.sum \in Bits /\ s.carry \in BOOLEAN
      /\ Number(s.sum) = (x + i + 1) % Size
      /\ s.carry = (x + i + 1 >= Size)
  BY <1>2, AddsModulo
<1> HIDE DEF x, y, i, s
<1>5. (x + i + 1) % Size = (x - y) % Size /\ (x + i + 1 >= Size <=> x >= y)
  BY <1>1, <1>2, SizeIs, DifferenceModulo
<1>6. s.carry = (x >= y)
  BY <1>4, <1>5
<1> QED
  BY <1>3, <1>4, <1>5, <1>6, Zenon DEF x, y

(* The gates of ADD and SUB add and subtract, for words of every width and  *)
(* every pair of them, and their carries say what the branches take them    *)
(* for (logic.rs, lines 71 and 84).                                         *)
THEOREM GatesAdd == AddIsAddition /\ SubIsSubtraction
<1>1. ASSUME NEW a \in Word, NEW b \in Word, NEW c \in {0, 1}
      PROVE  LET s == add_word(Lines(a), Lines(b), c = 1)
             IN  Number(s.sum) = (a + b + c) % Size /\ s.carry = (a + b + c >= Size)
  <2> DEFINE s == add_word(Lines(a), Lines(b), c = 1)
             m == IF c = 1 THEN 1 ELSE 0
  <2>1. m = c
    OBVIOUS
  <2>2. /\ Lines(a) \in Bits /\ Number(Lines(a)) = a
        /\ Lines(b) \in Bits /\ Number(Lines(b)) = b
    BY LinesOf
  <2>3. (c = 1) \in BOOLEAN
    OBVIOUS
  <2>4. /\ Number(s.sum) = (Number(Lines(a)) + Number(Lines(b)) + m) % Size
        /\ s.carry = (Number(Lines(a)) + Number(Lines(b)) + m >= Size)
    BY <2>2, <2>3, AddsModulo
  <2> HIDE DEF m
  <2> QED
    BY <2>1, <2>2, <2>4, Zenon
<1>2. ASSUME NEW a \in Word, NEW b \in Word
      PROVE  LET s == sub_word(Lines(a), Lines(b))
             IN  Number(s.sum) = (a - b) % Size /\ s.carry = (a >= b)
  <2> DEFINE s == sub_word(Lines(a), Lines(b))
  <2>1. /\ Lines(a) \in Bits /\ Number(Lines(a)) = a
        /\ Lines(b) \in Bits /\ Number(Lines(b)) = b
    BY LinesOf
  <2>2. /\ Number(s.sum) = (Number(Lines(a)) - Number(Lines(b))) % Size
        /\ s.carry = (Number(Lines(a)) >= Number(Lines(b)))
    BY <2>1, SubtractsModulo
  <2> QED
    BY <2>1, <2>2, Zenon
<1> QED
  BY <1>1, <1>2, Zenon DEF AddIsAddition, SubIsSubtraction

(* So they do wherever the host is run, whatever its words.                 *)
THEOREM ArithmeticHolds == Spec => []ArithmeticIsExact
<1>1. ArithmeticIsExact
  BY GatesAdd, Zenon DEF ArithmeticIsExact
<1> QED
  BY <1>1, PTL

-----------------------------------------------------------------------------
(* The circuit's tick is the instruction.  First the parts of tick by name. *)
Wired(word) == [bit \in Bit |-> BitOf(word, 8 + bit) = 1]
Is(word, op) == eq_const(InputBits(word, 1, 4), op)
Operation(word) == <<Is(word, 1), Is(word, 2), Is(word, 3), Is(word, 4), Is(word, 5),
                     Is(word, 6), Is(word, 7), Is(word, 8), Is(word, 9), Is(word, 10),
                     Is(word, 11), Is(word, 12), Is(word, 13), Is(word, 14), Is(word, 15)>>
Registers(s) == [r \in Register |-> WordAt(s, REG_STATE_OFFSET + W * r)]
Dst(s, word) == select_register(Registers(s), InputBits(word, 5, 6))
Src(s, word) == select_register(Registers(s), InputBits(word, 7, 8))
Res(s, word) == result_word(Operation(word), Dst(s, word), Src(s, word), Wired(word))
Enable(word) == reduce_or(SubSeq(Operation(word), 1, 7))
IsZero(lines) == not(reduce_or([n \in 1 .. W |-> lines[n - 1]]))
CarryNext(s, word) ==
  mux(Operation(word)[SUB],
      mux(Operation(word)[ADD], s[CARRY_STATE_OFFSET],
          add_word(Dst(s, word), Src(s, word), FALSE).carry),
      sub_word(Dst(s, word), Src(s, word)).carry)
RegisterNext(s, word) ==
  [r \in Register |->
     mux_word(and(Enable(word), eq_const(InputBits(word, 5, 6), r)), Registers(s)[r], Res(s, word))]
Taken(s, word) == take_branch(Operation(word), s[ZERO_STATE_OFFSET], s[CARRY_STATE_OFFSET])
Stop(s, word) == stopped(s[HALT_STATE_OFFSET], Operation(word)[HLT])
PcNext(s, word) == next_pc(s, Stop(s, word), Taken(s, word), Wired(word))
OutNext(s, word) == mux_word(Operation(word)[OUT], WordAt(s, OUT_STATE_OFFSET), Dst(s, word))
ZeroNext(s, word) == zero_after(Enable(word), s[ZERO_STATE_OFFSET], IsZero(Res(s, word)))

LEMMA TickIs ==
  ASSUME NEW s, NEW word
  PROVE  tick(s, word) = Latches(RegisterNext(s, word), PcNext(s, word), ZeroNext(s, word),
                                 CarryNext(s, word), Stop(s, word), OutNext(s, word))
BY Zenon DEF tick, Wired, Is, Operation, Registers, Dst, Src, Res, Enable, IsZero, CarryNext,
   RegisterNext, Taken, Stop, PcNext, OutNext, ZeroNext

-----------------------------------------------------------------------------
(* The folds over signals.                                                  *)
LEMMA ReduceOrIs ==
  ASSUME NEW values, Len(values) \in Nat
  PROVE  /\ reduce_or(values) \in BOOLEAN
         /\ (\A k \in 1 .. Len(values) : values[k] \in BOOLEAN)
              => (reduce_or(values) <=> \E k \in 1 .. Len(values) : values[k])
<1> DEFINE n == Len(values)
           F == [p \in (1 .. n) \X BOOLEAN |-> or(p[2], values[p[1]])]
           Folds(acc) == acc = [k \in 0 .. n |-> IF k = 0 THEN FALSE ELSE or(acc[k - 1], values[k])]
<1>1. n \in Nat
  OBVIOUS
<1>2. F \in [(1 .. n) \X BOOLEAN -> BOOLEAN]
  BY DEF or, nand
<1>3. \A k \in 1 .. n, m \in BOOLEAN : F[<<k, m>>] = or(m, values[k])
  BY Zenon
<1> HIDE DEF F, n
<1>4. PICK g : Recursion(n, BOOLEAN, FALSE, F, g)
  BY <1>1, <1>2, RecursionExists
<1>5. Folds(g)
  <2>1. g \in [0 .. n -> BOOLEAN] /\ g[0] = FALSE
    BY <1>4 DEF Recursion
  <2>2. ASSUME NEW k \in 0 .. n
        PROVE  g[k] = IF k = 0 THEN FALSE ELSE or(g[k - 1], values[k])
    <3>1. CASE k = 0
      BY <2>1, <3>1, Zenon
    <3>2. CASE k # 0
      <4>1. k \in 1 .. n /\ k - 1 \in 0 .. n
        BY <1>1, <3>2
      <4>2. g[k] = F[<<k, g[k - 1]>>] /\ g[k - 1] \in BOOLEAN
        BY <1>4, <2>1, <4>1 DEF Recursion
      <4> QED
        BY <1>3, <3>2, <4>1, <4>2, Zenon
    <3> QED
      BY <3>1, <3>2
  <2>3. g = [k \in 0 .. n |-> g[k]]
    BY <2>1
  <2> QED
    BY <2>2, <2>3, Zenon
<1> DEFINE acc == CHOOSE acc : Folds(acc)
<1>6. Folds(acc)
  BY <1>5, Zenon
<1>7. reduce_or(values) = acc[n]
  BY Zenon DEF reduce_or, n
<1> HIDE DEF acc
<1>8. acc[0] = FALSE /\ acc = [k \in 0 .. n |-> acc[k]]
  <2>1. 0 \in 0 .. n
    BY <1>1
  <2> QED
    BY <1>6, <2>1
<1>9. \A k \in 1 .. n : acc[k] = or(acc[k - 1], values[k])
  <2>1. ASSUME NEW k \in 1 .. n PROVE acc[k] = or(acc[k - 1], values[k])
    <3>1. k \in 0 .. n /\ k # 0
      BY <1>1
    <3> QED
      BY <1>6, <3>1, Zenon
  <2> QED
    BY <2>1
<1>10. acc[n] \in BOOLEAN
  <2>1. n = 0 \/ n \in 1 .. n
    BY <1>1
  <2>2. \A k \in 1 .. n : or(acc[k - 1], values[k]) \in BOOLEAN
    BY DEF or, nand
  <2> QED
    BY <1>8, <1>9, <2>1, <2>2
<1>11. ASSUME \A k \in 1 .. n : values[k] \in BOOLEAN
       PROVE  acc[n] <=> \E k \in 1 .. n : values[k]
  <2> DEFINE S == {m \in 0 .. n : acc[m] \in BOOLEAN /\ (acc[m] <=> \E k \in 1 .. m : values[k])}
  <2>1. 0 \in S
    BY <1>1, <1>8
  <2>2. ASSUME NEW m \in 1 .. n, m - 1 \in S PROVE m \in S
    <3>1. acc[m] = or(acc[m - 1], values[m])
      BY <1>9
    <3>2. acc[m - 1] \in BOOLEAN /\ values[m] \in BOOLEAN
      BY <1>11, <2>2
    <3>3. acc[m] \in BOOLEAN /\ (acc[m] <=> acc[m - 1] \/ values[m])
      BY <3>1, <3>2 DEF or, not, nand
    <3>4. \A k : k \in 1 .. m <=> k \in 1 .. m - 1 \/ k = m
      BY <1>1
    <3>5. acc[m - 1] <=> \E k \in 1 .. m - 1 : values[k]
      BY <2>2
    <3>6. m \in 0 .. n
      BY <1>1
    <3>7. acc[m] <=> \E k \in 1 .. m : values[k]
      BY <3>3, <3>4, <3>5, Zenon
    <3> QED
      BY <3>3, <3>6, <3>7
  <2> HIDE DEF S
  <2>3. n \in 0 .. n
    BY <1>1
  <2>4. n \in S
    BY <1>1, <2>1, <2>2, <2>3, Along0
  <2> QED
    BY <2>4 DEF S
<1> QED
  BY <1>7, <1>10, <1>11, Zenon DEF n

Matches(signals, value, k) ==
  IF (value \div 2 ^ (k - 1)) % 2 = 0 THEN not(signals[k]) ELSE signals[k]

LEMMA EqConstIs ==
  ASSUME NEW signals, Len(signals) \in Nat, NEW value,
         \A k \in 1 .. Len(signals) : signals[k] \in BOOLEAN
  PROVE  /\ eq_const(signals, value) \in BOOLEAN
         /\ eq_const(signals, value) <=> \A k \in 1 .. Len(signals) : Matches(signals, value, k)
<1> DEFINE n == Len(signals)
           F == [p \in (1 .. n) \X BOOLEAN |-> and(p[2], Matches(signals, value, p[1]))]
           Folds(acc) ==
             acc = [k \in 0 .. n |->
                      IF k = 0 THEN TRUE ELSE and(acc[k - 1], Matches(signals, value, k))]
<1>1. n \in Nat /\ \A k \in 1 .. n : Matches(signals, value, k) \in BOOLEAN
  BY DEF Matches, not, nand
<1>2. F \in [(1 .. n) \X BOOLEAN -> BOOLEAN]
  BY DEF and, not, nand
<1>3. \A k \in 1 .. n, m \in BOOLEAN : F[<<k, m>>] = and(m, Matches(signals, value, k))
  BY Zenon
<1> HIDE DEF F, n
<1>4. PICK g : Recursion(n, BOOLEAN, TRUE, F, g)
  BY <1>1, <1>2, RecursionExists
<1>5. Folds(g)
  <2>1. g \in [0 .. n -> BOOLEAN] /\ g[0] = TRUE
    BY <1>4 DEF Recursion
  <2>2. ASSUME NEW k \in 0 .. n
        PROVE  g[k] = IF k = 0 THEN TRUE ELSE and(g[k - 1], Matches(signals, value, k))
    <3>1. CASE k = 0
      BY <2>1, <3>1, Zenon
    <3>2. CASE k # 0
      <4>1. k \in 1 .. n /\ k - 1 \in 0 .. n
        BY <1>1, <3>2
      <4>2. g[k] = F[<<k, g[k - 1]>>] /\ g[k - 1] \in BOOLEAN
        BY <1>4, <2>1, <4>1 DEF Recursion
      <4> QED
        BY <1>3, <3>2, <4>1, <4>2, Zenon
    <3> QED
      BY <3>1, <3>2
  <2>3. g = [k \in 0 .. n |-> g[k]]
    BY <2>1
  <2> QED
    BY <2>2, <2>3, Zenon
<1> DEFINE acc == CHOOSE acc : Folds(acc)
<1>6. Folds(acc)
  BY <1>5, Zenon
<1>7. eq_const(signals, value) = acc[n]
  BY Zenon DEF eq_const, Matches, n
<1> HIDE DEF acc
<1>8. acc[0] = TRUE
  <2>1. 0 \in 0 .. n
    BY <1>1
  <2> QED
    BY <1>6, <2>1
<1>9. \A k \in 1 .. n : acc[k] = and(acc[k - 1], Matches(signals, value, k))
  <2>1. ASSUME NEW k \in 1 .. n PROVE acc[k] = and(acc[k - 1], Matches(signals, value, k))
    <3>1. k \in 0 .. n /\ k # 0
      BY <1>1
    <3> QED
      BY <1>6, <3>1, Zenon
  <2> QED
    BY <2>1
<1> DEFINE S == {m \in 0 .. n :
                   /\ acc[m] \in BOOLEAN
                   /\ acc[m] <=> \A k \in 1 .. m : Matches(signals, value, k)}
<1>10. 0 \in S
  <2>1. 0 \in 0 .. n
    BY <1>1
  <2>2. acc[0] \in BOOLEAN
    BY <1>8
  <2>3. 1 .. 0 = {}
    OBVIOUS
  <2>4. \A k \in 1 .. 0 : Matches(signals, value, k)
    BY <2>3, Zenon
  <2> QED
    BY <1>8, <2>1, <2>2, <2>4, Zenon
<1>11. ASSUME NEW m \in 1 .. n, m - 1 \in S PROVE m \in S
  <2>1. acc[m] = and(acc[m - 1], Matches(signals, value, m))
    BY <1>9
  <2>2. acc[m - 1] \in BOOLEAN /\ Matches(signals, value, m) \in BOOLEAN
    BY <1>1, <1>11
  <2>3. acc[m] \in BOOLEAN /\ (acc[m] <=> acc[m - 1] /\ Matches(signals, value, m))
    BY <2>1, <2>2 DEF and, not, nand
  <2>4. \A k : k \in 1 .. m <=> k \in 1 .. m - 1 \/ k = m
    BY <1>1
  <2>5. acc[m - 1] <=> \A k \in 1 .. m - 1 : Matches(signals, value, k)
    BY <1>11
  <2>6. m \in 0 .. n
    BY <1>1
  <2>7. acc[m] <=> \A k \in 1 .. m : Matches(signals, value, k)
    BY <2>3, <2>4, <2>5, Zenon
  <2> QED
    BY <2>3, <2>6, <2>7
<1> HIDE DEF S
<1>12. n \in 0 .. n
  BY <1>1
<1>13. n \in S
  BY <1>1, <1>10, <1>11, <1>12, Along0
<1> QED
  BY <1>7, <1>13 DEF S, n

-----------------------------------------------------------------------------
(* The bits of the word on the inputs.                                      *)
LEMMA SmallPowers ==
  /\ 2 ^ 0 = 1 /\ 2 ^ 1 = 2 /\ 2 ^ 2 = 4 /\ 2 ^ 3 = 8 /\ 2 ^ 4 = 16 /\ 2 ^ 5 = 32
  /\ 2 ^ 6 = 64 /\ 2 ^ 7 = 128 /\ 2 ^ 8 = 256
OBVIOUS

LEMMA InputBitsIs ==
  ASSUME NEW word, NEW first \in 1 .. 16, NEW last \in 1 .. 16, first <= last
  PROVE  /\ Len(InputBits(word, first, last)) = last - first + 1
         /\ \A k \in 1 .. last - first + 1 :
              InputBits(word, first, last)[k] = (BitOf(word, first + k - 2) = 1)
<1> DEFINE line == [i \in 1 .. 16 |-> BitOf(word, i - 1) = 1]
<1>1. \A i \in first .. last : line[i] \in BOOLEAN
  <2>1. \A i \in first .. last : i \in 1 .. 16
    OBVIOUS
  <2>2. \A i \in 1 .. 16 : line[i] = (BitOf(word, i - 1) = 1)
    OBVIOUS
  <2>3. \A i \in 1 .. 16 : (BitOf(word, i - 1) = 1) \in BOOLEAN
    OBVIOUS
  <2> HIDE DEF line
  <2> QED
    BY <2>1, <2>2, <2>3, Zenon
<1>2. \A i \in 1 .. 16 : line[i] = (BitOf(word, i - 1) = 1)
  OBVIOUS
<1>3. InputBits(word, first, last) = SubSeq(line, first, last)
  BY DEF InputBits
<1> HIDE DEF line
<1>4. /\ Len(SubSeq(line, first, last)) = last - first + 1
      /\ \A k \in 1 .. last - first + 1 : SubSeq(line, first, last)[k] = line[first + k - 1]
  <2>1. first \in Int /\ last \in Int
    OBVIOUS
  <2>2. /\ Len(SubSeq(line, first, last)) = IF first <= last THEN last - first + 1 ELSE 0
        /\ \A k \in 1 .. last - first + 1 : SubSeq(line, first, last)[k] = line[first + k - 1]
    BY <1>1, <2>1, SubSeqProperties, Zenon
  <2> QED
    BY <2>2, Zenon
<1>5. ASSUME NEW k \in 1 .. last - first + 1
      PROVE  line[first + k - 1] = (BitOf(word, first + k - 2) = 1)
  <2> DEFINE i == first + k - 1
  <2>1. i \in 1 .. 16 /\ i - 1 = first + k - 2
    OBVIOUS
  <2> HIDE DEF i
  <2>2. line[i] = (BitOf(word, i - 1) = 1)
    BY <1>2, <2>1
  <2> QED
    BY <2>1, <2>2, Zenon DEF i
<1> QED
  BY <1>3, <1>4, <1>5, Zenon

LEMMA FourBits ==
  ASSUME NEW word \in Nat
  PROVE  LET x == InputBits(word, 1, 4)
         IN  /\ Len(x) = 4
             /\ x[1] = (word % 2 = 1) /\ x[2] = ((word \div 2) % 2 = 1)
             /\ x[3] = ((word \div 4) % 2 = 1) /\ x[4] = ((word \div 8) % 2 = 1)
<1> DEFINE x == InputBits(word, 1, 4)
<1>1. Len(x) = 4 /\ \A k \in 1 .. 4 : x[k] = (BitOf(word, 1 + k - 2) = 1)
  <2>1. 4 - 1 + 1 = 4 /\ 1 \in 1 .. 16 /\ 4 \in 1 .. 16 /\ 1 <= 4
    OBVIOUS
  <2>2. /\ Len(x) = 4 - 1 + 1
        /\ \A k \in 1 .. 4 - 1 + 1 : x[k] = (BitOf(word, 1 + k - 2) = 1)
    BY <2>1, InputBitsIs, Zenon
  <2> HIDE DEF x
  <2> QED
    BY <2>1, <2>2, Zenon
<1> HIDE DEF x
<1>2. 1 + 1 - 2 = 0 /\ 1 + 2 - 2 = 1 /\ 1 + 3 - 2 = 2 /\ 1 + 4 - 2 = 3
  OBVIOUS
<1>3. /\ x[1] = (BitOf(word, 0) = 1) /\ x[2] = (BitOf(word, 1) = 1)
      /\ x[3] = (BitOf(word, 2) = 1) /\ x[4] = (BitOf(word, 3) = 1)
  BY <1>1, <1>2
<1>4. /\ BitOf(word, 0) = (word \div 1) % 2 /\ BitOf(word, 1) = (word \div 2) % 2
      /\ BitOf(word, 2) = (word \div 4) % 2 /\ BitOf(word, 3) = (word \div 8) % 2
  BY SmallPowers, Zenon DEF BitOf
<1>5. word \div 1 = word
  OBVIOUS
<1> QED
  BY <1>1, <1>3, <1>4, <1>5, Zenon DEF x

LEMMA OpcodeBits ==
  ASSUME NEW word \in Nat, NEW op \in 0 .. 15
  PROVE  /\ Is(word, op) \in BOOLEAN
         /\ Is(word, op) <=> opcode(word) = op
<1> DEFINE x == InputBits(word, 1, 4)
<1>1. /\ Len(x) = 4
      /\ x[1] = (word % 2 = 1) /\ x[2] = ((word \div 2) % 2 = 1)
      /\ x[3] = ((word \div 4) % 2 = 1) /\ x[4] = ((word \div 8) % 2 = 1)
  BY FourBits
<1>2. Is(word, op) = eq_const(x, op)
  BY DEF Is
<1> HIDE DEF x
<1>3. \A k \in 1 .. Len(x) : x[k] \in BOOLEAN
  <2>1. x[1] \in BOOLEAN /\ x[2] \in BOOLEAN /\ x[3] \in BOOLEAN /\ x[4] \in BOOLEAN
    BY <1>1, Zenon
  <2>2. \A k \in 1 .. 4 : k = 1 \/ k = 2 \/ k = 3 \/ k = 4
    OBVIOUS
  <2> QED
    BY <1>1, <2>1, <2>2, Zenon
<1>4. /\ eq_const(x, op) \in BOOLEAN
      /\ eq_const(x, op) <=> \A k \in 1 .. Len(x) : Matches(x, op, k)
  <2>1. Len(x) \in Nat
    BY <1>1
  <2> QED
    BY <1>3, <2>1, EqConstIs, Zenon
<1>5. (\A k \in 1 .. Len(x) : Matches(x, op, k))
        <=> Matches(x, op, 1) /\ Matches(x, op, 2) /\ Matches(x, op, 3) /\ Matches(x, op, 4)
  BY <1>1
<1>6. /\ Matches(x, op, 1) <=> (x[1] <=> op % 2 = 1)
      /\ Matches(x, op, 2) <=> (x[2] <=> (op \div 2) % 2 = 1)
      /\ Matches(x, op, 3) <=> (x[3] <=> (op \div 4) % 2 = 1)
      /\ Matches(x, op, 4) <=> (x[4] <=> (op \div 8) % 2 = 1)
  <2>1. 1 - 1 = 0 /\ 2 - 1 = 1 /\ 3 - 1 = 2 /\ 4 - 1 = 3 /\ op \div 1 = op
    OBVIOUS
  <2>2. /\ Matches(x, op, 1) = (IF (op \div 1) % 2 = 0 THEN not(x[1]) ELSE x[1])
        /\ Matches(x, op, 2) = (IF (op \div 2) % 2 = 0 THEN not(x[2]) ELSE x[2])
        /\ Matches(x, op, 3) = (IF (op \div 4) % 2 = 0 THEN not(x[3]) ELSE x[3])
        /\ Matches(x, op, 4) = (IF (op \div 8) % 2 = 0 THEN not(x[4]) ELSE x[4])
    BY <2>1, SmallPowers DEF Matches
  <2>3. /\ op % 2 \in {0, 1} /\ (op \div 2) % 2 \in {0, 1}
        /\ (op \div 4) % 2 \in {0, 1} /\ (op \div 8) % 2 \in {0, 1}
    OBVIOUS
  <2>4. 1 \in 1 .. Len(x) /\ 2 \in 1 .. Len(x) /\ 3 \in 1 .. Len(x) /\ 4 \in 1 .. Len(x)
    BY <1>1
  <2>5. x[1] \in BOOLEAN /\ x[2] \in BOOLEAN /\ x[3] \in BOOLEAN /\ x[4] \in BOOLEAN
    BY <1>3, <2>4
  <2>6. ASSUME NEW b \in {0, 1}, NEW l \in BOOLEAN
        PROVE  (IF b = 0 THEN not(l) ELSE l) <=> (l <=> b = 1)
    BY DEF not, nand
  <2>7. /\ Matches(x, op, 2) <=> (x[2] <=> (op \div 2) % 2 = 1)
        /\ Matches(x, op, 3) <=> (x[3] <=> (op \div 4) % 2 = 1)
        /\ Matches(x, op, 4) <=> (x[4] <=> (op \div 8) % 2 = 1)
    BY <2>2, <2>3, <2>5, <2>6, Zenon
  <2>8. Matches(x, op, 1) <=> (x[1] <=> op % 2 = 1)
    BY <2>1, <2>2, <2>3, <2>5, <2>6, Zenon
  <2> QED
    BY <2>7, <2>8, Zenon
<1>7. (/\ word % 2 = 1 <=> op % 2 = 1
       /\ (word \div 2) % 2 = 1 <=> (op \div 2) % 2 = 1
       /\ (word \div 4) % 2 = 1 <=> (op \div 4) % 2 = 1
       /\ (word \div 8) % 2 = 1 <=> (op \div 8) % 2 = 1) <=> word % 16 = op
  OBVIOUS
<1> QED
  BY <1>1, <1>2, <1>4, <1>5, <1>6, <1>7 DEF opcode

(* Two bits of the word, as the selectors of registers have them.           *)
TwoBits(x, n) ==
  /\ Len(x) = 2 /\ n \in 0 .. 3
  /\ x[1] = (n % 2 = 1) /\ x[2] = ((n \div 2) % 2 = 1)

LEMMA SelectorBits ==
  ASSUME NEW word \in Nat
  PROVE  /\ TwoBits(InputBits(word, 5, 6), dst_selector(word))
         /\ TwoBits(InputBits(word, 7, 8), src_selector(word))
<1>1. ASSUME NEW first \in 1 .. 15, NEW p \in Nat, NEW q \in Nat,
             2 ^ (first - 1) = p, 2 ^ first = q, q = 2 * p, p > 0
      PROVE  TwoBits(InputBits(word, first, first + 1), (word \div p) % 4)
  <2> DEFINE x == InputBits(word, first, first + 1)
  <2>1. /\ (first + 1) - first + 1 = 2 /\ first \in 1 .. 16 /\ first + 1 \in 1 .. 16
        /\ first <= first + 1
        /\ first + 1 - 2 = first - 1 /\ first + 2 - 2 = first
    OBVIOUS
  <2>2. /\ Len(x) = (first + 1) - first + 1
        /\ \A k \in 1 .. (first + 1) - first + 1 : x[k] = (BitOf(word, first + k - 2) = 1)
    BY <2>1, InputBitsIs, Zenon
  <2> HIDE DEF x
  <2>3. Len(x) = 2 /\ \A k \in 1 .. 2 : x[k] = (BitOf(word, first + k - 2) = 1)
    BY <2>1, <2>2, Zenon
  <2>4. 1 \in 1 .. 2 /\ 2 \in 1 .. 2
    OBVIOUS
  <2>5. x[1] = (BitOf(word, first - 1) = 1) /\ x[2] = (BitOf(word, first) = 1)
    BY <2>1, <2>3, <2>4, Zenon
  <2>6. BitOf(word, first - 1) = (word \div p) % 2 /\ BitOf(word, first) = (word \div q) % 2
    BY <1>1, Zenon DEF BitOf
  <2> DEFINE d == word \div p
             h == word \div q
             n == d % 4
  <2>7. h = d \div 2
    <3> DEFINE r == word % p
               e == d \div 2
               b == d % 2
    <3>1. d \in Nat /\ r \in Nat /\ r < p /\ word = p * d + r
      BY <1>1
    <3> HIDE DEF d, r
    <3>2. e \in Nat /\ b \in {0, 1} /\ d = 2 * e + b
      BY <3>1
    <3> HIDE DEF e, b
    <3>3. word = q * e + (p * b + r) /\ p * b + r \in Nat /\ p * b + r < q
      <4>1. p * d = q * e + p * b
        BY <1>1, <3>2
      <4>2. p * b = 0 \/ p * b = p
        BY <1>1, <3>2
      <4> DEFINE u == p * b
                 v == q * e
                 w == p * d
      <4>3. u \in {0, p} /\ v \in Nat /\ w \in Nat
        BY <1>1, <3>1, <3>2, <4>2
      <4>4. word = w + r /\ w = v + u
        BY <3>1, <4>1
      <4> HIDE DEF u, v, w
      <4>5. word = v + (u + r) /\ u + r \in Nat /\ u + r < q
        BY <1>1, <3>1, <4>3, <4>4
      <4> QED
        BY <4>5 DEF u, v
    <3> DEFINE t == p * b + r
    <3>4. t \in Nat /\ t < q /\ word = q * e + t
      BY <3>3
    <3> HIDE DEF t
    <3>5. word \div q = e
      BY <1>1, <3>2, <3>4, Division
    <3> QED
      BY <3>5 DEF e
  <2>8. d \in Nat
    BY <1>1
  <2> HIDE DEF d, h
  <2>9. n \in 0 .. 3 /\ n % 2 = d % 2 /\ (n \div 2) % 2 = (d \div 2) % 2
    BY <2>8
  <2>10. x[1] = (n % 2 = 1) /\ x[2] = ((n \div 2) % 2 = 1)
    BY <2>5, <2>6, <2>7, <2>9, Zenon DEF d, h
  <2> QED
    BY <2>3, <2>9, <2>10, Zenon DEF TwoBits, x, d
<1>2. TwoBits(InputBits(word, 5, 5 + 1), (word \div 16) % 4)
  <2> DEFINE f == 5
             p == 16
             q == 32
  <2>1. f \in 1 .. 15 /\ p \in Nat /\ q \in Nat /\ q = 2 * p /\ p > 0
    OBVIOUS
  <2>2. f - 1 = 4
    OBVIOUS
  <2>3. 2 ^ (f - 1) = p /\ 2 ^ f = q
    BY <2>2, SmallPowers
  <2> HIDE DEF f, p, q
  <2>4. TwoBits(InputBits(word, f, f + 1), (word \div p) % 4)
    BY <1>1, <2>1, <2>3, Zenon
  <2> QED
    BY <2>4 DEF f, p
<1>3. TwoBits(InputBits(word, 7, 7 + 1), (word \div 64) % 4)
  <2> DEFINE f == 7
             p == 64
             q == 128
  <2>1. f \in 1 .. 15 /\ p \in Nat /\ q \in Nat /\ q = 2 * p /\ p > 0
    OBVIOUS
  <2>2. f - 1 = 6
    OBVIOUS
  <2>3. 2 ^ (f - 1) = p /\ 2 ^ f = q
    BY <2>2, SmallPowers
  <2> HIDE DEF f, p, q
  <2>4. TwoBits(InputBits(word, f, f + 1), (word \div p) % 4)
    BY <1>1, <2>1, <2>3, Zenon
  <2> QED
    BY <2>4 DEF f, p
<1>4. 5 + 1 = 6 /\ 7 + 1 = 8
  OBVIOUS
<1> QED
  BY <1>2, <1>3, <1>4 DEF dst_selector, src_selector

LEMMA TwoBitsEqual ==
  ASSUME NEW x, NEW n, TwoBits(x, n), NEW r \in Register
  PROVE  /\ eq_const(x, r) \in BOOLEAN
         /\ eq_const(x, r) <=> r = n
<1>1. /\ Len(x) = 2 /\ n \in 0 .. 3
      /\ x[1] = (n % 2 = 1) /\ x[2] = ((n \div 2) % 2 = 1)
  BY DEF TwoBits
<1>2. x[1] \in BOOLEAN /\ x[2] \in BOOLEAN
  BY <1>1, Zenon
<1>3. \A k : k \in 1 .. Len(x) <=> k = 1 \/ k = 2
  BY <1>1
<1>4. \A k \in 1 .. Len(x) : x[k] \in BOOLEAN
  BY <1>2, <1>3, Zenon
<1>5. /\ eq_const(x, r) \in BOOLEAN
      /\ eq_const(x, r) <=> \A k \in 1 .. Len(x) : Matches(x, r, k)
  <2>1. Len(x) \in Nat
    BY <1>1
  <2> QED
    BY <1>4, <2>1, EqConstIs, Zenon
<1>6. eq_const(x, r) <=> Matches(x, r, 1) /\ Matches(x, r, 2)
  BY <1>3, <1>5, Zenon
<1>7. /\ Matches(x, r, 1) <=> (x[1] <=> r % 2 = 1)
      /\ Matches(x, r, 2) <=> (x[2] <=> (r \div 2) % 2 = 1)
  <2>1. 1 - 1 = 0 /\ 2 - 1 = 1 /\ r \div 1 = r
    BY DEF Register
  <2>2. /\ Matches(x, r, 1) = (IF (r \div 1) % 2 = 0 THEN not(x[1]) ELSE x[1])
        /\ Matches(x, r, 2) = (IF (r \div 2) % 2 = 0 THEN not(x[2]) ELSE x[2])
    BY <2>1, SmallPowers DEF Matches
  <2>3. r % 2 \in {0, 1} /\ (r \div 2) % 2 \in {0, 1}
    BY DEF Register
  <2>4. ASSUME NEW b \in {0, 1}, NEW l \in BOOLEAN
        PROVE  (IF b = 0 THEN not(l) ELSE l) <=> (l <=> b = 1)
    BY DEF not, nand
  <2>5. Matches(x, r, 2) <=> (x[2] <=> (r \div 2) % 2 = 1)
    BY <1>2, <2>2, <2>3, <2>4, Zenon
  <2>6. Matches(x, r, 1) <=> (x[1] <=> r % 2 = 1)
    BY <1>2, <2>1, <2>2, <2>3, <2>4, Zenon
  <2> QED
    BY <2>5, <2>6, Zenon
<1>8. (/\ n % 2 = 1 <=> r % 2 = 1
       /\ (n \div 2) % 2 = 1 <=> (r \div 2) % 2 = 1) <=> r = n
  BY <1>1 DEF Register
<1> QED
  BY <1>1, <1>5, <1>6, <1>7, <1>8

(* Multiplexers select.                                                     *)
LEMMA MuxIs ==
  ASSUME NEW select \in BOOLEAN, NEW a \in BOOLEAN, NEW b \in BOOLEAN
  PROVE  mux(select, a, b) = IF select THEN b ELSE a
BY DEF mux, nand, not

LEMMA MuxWordIs ==
  ASSUME NEW select \in BOOLEAN, NEW a \in Bits, NEW b \in Bits
  PROVE  mux_word(select, a, b) = IF select THEN b ELSE a
<1>1. \A bit \in Bit : a[bit] \in BOOLEAN /\ b[bit] \in BOOLEAN
  BY DEF Bits
<1>2. \A bit \in Bit : mux(select, a[bit], b[bit]) = IF select THEN b[bit] ELSE a[bit]
  BY <1>1, MuxIs
<1>3. a = [bit \in Bit |-> a[bit]] /\ b = [bit \in Bit |-> b[bit]]
  BY DEF Bits
<1> QED
  BY <1>2, <1>3, Zenon DEF mux_word

LEMMA SelectIs ==
  ASSUME NEW registers, \A r \in Register : registers[r] \in Bits,
         NEW x, NEW n, TwoBits(x, n)
  PROVE  n \in Register /\ select_register(registers, x) = registers[n]
<1>1. /\ n \in 0 .. 3 /\ x[1] = (n % 2 = 1) /\ x[2] = ((n \div 2) % 2 = 1)
  BY DEF TwoBits
<1>2. /\ x[1] \in BOOLEAN /\ (x[1] <=> n = 1 \/ n = 3)
      /\ x[2] \in BOOLEAN /\ (x[2] <=> n = 2 \/ n = 3)
      /\ n = 0 \/ n = 1 \/ n = 2 \/ n = 3
      /\ ~(0 = 1) /\ ~(0 = 2) /\ ~(0 = 3) /\ ~(1 = 2) /\ ~(1 = 3) /\ ~(2 = 3)
  <2>1. /\ n % 2 = 1 <=> n = 1 \/ n = 3
        /\ (n \div 2) % 2 = 1 <=> n = 2 \/ n = 3
        /\ n = 0 \/ n = 1 \/ n = 2 \/ n = 3
    BY <1>1
  <2>2. x[1] \in BOOLEAN /\ x[2] \in BOOLEAN
    BY <1>1, Zenon
  <2>3. (x[1] <=> n % 2 = 1) /\ (x[2] <=> (n \div 2) % 2 = 1)
    BY <1>1, Zenon
  <2>4. ~(0 = 1) /\ ~(0 = 2) /\ ~(0 = 3) /\ ~(1 = 2) /\ ~(1 = 3) /\ ~(2 = 3)
    OBVIOUS
  <2> QED
    BY <2>1, <2>2, <2>3, <2>4, Zenon
<1>3. ASSUME NEW bit \in Bit
      PROVE  mux(x[2], mux(x[1], registers[0][bit], registers[1][bit]),
                       mux(x[1], registers[2][bit], registers[3][bit])) = registers[n][bit]
  <2> DEFINE q(i) == registers[i][bit]
             low == mux(x[1], q(0), q(1))
             high == mux(x[1], q(2), q(3))
  <2>1. q(0) \in BOOLEAN /\ q(1) \in BOOLEAN /\ q(2) \in BOOLEAN /\ q(3) \in BOOLEAN
    BY DEF Bits, Register
  <2>2. /\ low = (IF x[1] THEN q(1) ELSE q(0))
        /\ high = (IF x[1] THEN q(3) ELSE q(2))
    BY <1>2, <2>1, MuxIs, Zenon
  <2>3. low \in BOOLEAN /\ high \in BOOLEAN
    BY DEF mux, nand
  <2>4. mux(x[2], low, high) = IF x[2] THEN high ELSE low
    <3> HIDE DEF low, high
    <3> QED
      BY <1>2, <2>3, MuxIs, Zenon
  <2> HIDE DEF low, high
  <2>5. mux(x[2], low, high) = q(n)
    <3>1. CASE n = 0
      BY <1>2, <2>2, <2>4, <3>1, Zenon
    <3>2. CASE n = 1
      BY <1>2, <2>2, <2>4, <3>2, Zenon
    <3>3. CASE n = 2
      BY <1>2, <2>2, <2>4, <3>3, Zenon
    <3>4. CASE n = 3
      BY <1>2, <2>2, <2>4, <3>4, Zenon
    <3> QED
      BY <1>2, <3>1, <3>2, <3>3, <3>4, Zenon
  <2> QED
    BY <2>5, Zenon DEF low, high
<1>4. n \in Register
  BY <1>1 DEF Register
<1>5. registers[n] = [bit \in Bit |-> registers[n][bit]]
  BY <1>4 DEF Bits
<1>6. select_register(registers, x)
        = [bit \in Bit |-> mux(x[2], mux(x[1], registers[0][bit], registers[1][bit]),
                                     mux(x[1], registers[2][bit], registers[3][bit]))]
  BY Zenon DEF select_register
<1> QED
  BY <1>3, <1>4, <1>5, <1>6, Zenon

-----------------------------------------------------------------------------
(* Words of lines and numbers, operation by operation.                      *)
LEMMA BitOfNumber ==
  ASSUME NEW l, NEW bit \in Bit
  PROVE  BitOf(Number(l), bit) = IF l[bit] THEN 1 ELSE 0
<1>1. BitsOf(Number(l)) = DigitsOf(l)
  BY NumberOf, BitsOfValue, Zenon
<1>2. BitsOf(Number(l))[bit] = BitOf(Number(l), bit)
  BY DEF BitsOf
<1>3. DigitsOf(l)[bit] = IF l[bit] THEN 1 ELSE 0
  BY DEF DigitsOf
<1> QED
  BY <1>1, <1>2, <1>3, Zenon

LEMMA BitwiseNumbers ==
  ASSUME NEW a \in Bits, NEW b \in Bits
  PROVE  /\ Number(and_word(a, b)) = BitByBit(BothBits, Number(a), Number(b))
         /\ Number(or_word(a, b)) = BitByBit(EitherBit, Number(a), Number(b))
         /\ Number(xor_word(a, b)) = BitByBit(DifferentBits, Number(a), Number(b))
         /\ and_word(a, b) \in Bits /\ or_word(a, b) \in Bits /\ xor_word(a, b) \in Bits
<1> DEFINE x(i) == BitOf(Number(a), i)
           y(i) == BitOf(Number(b), i)
<1>1. ASSUME NEW i \in Bit
      PROVE  /\ (IF and(a[i], b[i]) THEN 1 ELSE 0) = BothBits(x(i), y(i))
             /\ (IF or(a[i], b[i]) THEN 1 ELSE 0) = EitherBit(x(i), y(i))
             /\ (IF xor(a[i], b[i]) THEN 1 ELSE 0) = DifferentBits(x(i), y(i))
             /\ and(a[i], b[i]) \in BOOLEAN /\ or(a[i], b[i]) \in BOOLEAN
             /\ xor(a[i], b[i]) \in BOOLEAN
  <2>1. a[i] \in BOOLEAN /\ b[i] \in BOOLEAN
    BY DEF Bits
  <2>2. x(i) = (IF a[i] THEN 1 ELSE 0) /\ y(i) = (IF b[i] THEN 1 ELSE 0)
    BY BitOfNumber
  <2> DEFINE p == a[i]
             q == b[i]
             u == x(i)
             v == y(i)
  <2> HIDE DEF p, q, u, v
  <2>3. /\ p \in BOOLEAN /\ q \in BOOLEAN
        /\ u = (IF p THEN 1 ELSE 0) /\ v = (IF q THEN 1 ELSE 0)
    BY <2>1, <2>2, Zenon DEF p, q, u, v
  <2>4. /\ and(p, q) <=> p /\ q
        /\ or(p, q) <=> p \/ q
        /\ xor(p, q) <=> ~(p <=> q)
        /\ and(p, q) \in BOOLEAN /\ or(p, q) \in BOOLEAN /\ xor(p, q) \in BOOLEAN
    BY <2>3 DEF and, or, xor, not, nand
  <2>5. /\ (IF p /\ q THEN 1 ELSE 0) = u * v
        /\ (IF p \/ q THEN 1 ELSE 0) = u + v - u * v
        /\ (IF ~(p <=> q) THEN 1 ELSE 0) = (u + v) % 2
    <3>1. CASE p /\ q
      BY <2>3, <3>1
    <3>2. CASE p /\ ~q
      BY <2>3, <3>2
    <3>3. CASE ~p /\ q
      BY <2>3, <3>3
    <3>4. CASE ~p /\ ~q
      BY <2>3, <3>4
    <3> QED
      BY <2>3, <3>1, <3>2, <3>3, <3>4, Zenon
  <2>6. /\ (IF and(p, q) THEN 1 ELSE 0) = BothBits(u, v)
        /\ (IF or(p, q) THEN 1 ELSE 0) = EitherBit(u, v)
        /\ (IF xor(p, q) THEN 1 ELSE 0) = DifferentBits(u, v)
    BY <2>4, <2>5, Zenon DEF BothBits, EitherBit, DifferentBits
  <2> QED
    BY <2>4, <2>6, Zenon DEF p, q, u, v
<1>2. /\ \A i \in Bit : and_word(a, b)[i] = and(a[i], b[i])
      /\ \A i \in Bit : or_word(a, b)[i] = or(a[i], b[i])
      /\ \A i \in Bit : xor_word(a, b)[i] = xor(a[i], b[i])
  BY Zenon DEF and_word, or_word, xor_word
<1>3. /\ DigitsOf(and_word(a, b)) = [i \in Bit |-> BothBits(x(i), y(i))]
      /\ DigitsOf(or_word(a, b)) = [i \in Bit |-> EitherBit(x(i), y(i))]
      /\ DigitsOf(xor_word(a, b)) = [i \in Bit |-> DifferentBits(x(i), y(i))]
  BY <1>1, <1>2, Zenon DEF DigitsOf
<1>4. /\ and_word(a, b) \in Bits /\ or_word(a, b) \in Bits /\ xor_word(a, b) \in Bits
  BY <1>1, Zenon DEF and_word, or_word, xor_word, Bits
<1>5. /\ Number(and_word(a, b)) = Value(DigitsOf(and_word(a, b)))
      /\ Number(or_word(a, b)) = Value(DigitsOf(or_word(a, b)))
      /\ Number(xor_word(a, b)) = Value(DigitsOf(xor_word(a, b)))
  BY NumberOf
<1>6. /\ BitByBit(BothBits, Number(a), Number(b)) = Value([i \in Bit |-> BothBits(x(i), y(i))])
      /\ BitByBit(EitherBit, Number(a), Number(b)) = Value([i \in Bit |-> EitherBit(x(i), y(i))])
      /\ BitByBit(DifferentBits, Number(a), Number(b))
           = Value([i \in Bit |-> DifferentBits(x(i), y(i))])
  BY Zenon DEF BitByBit
<1> QED
  BY <1>3, <1>4, <1>5, <1>6, Zenon

(* A word is zero when no line of it is one.                                *)
LEMMA NumberZero ==
  ASSUME NEW l \in Bits
  PROVE  (\A i \in Bit : ~l[i]) <=> Number(l) = 0
<1> DEFINE zero == BitsOf(0)
<1>1. zero \in Digits /\ Value(zero) = 0
  <2>1. 0 % Size = 0
    BY SizeIs
  <2> QED
    BY <2>1, BitsOfIs, ValueOfBits, Zenon
<1>2. zero = [i \in Bit |-> 0]
  <2>1. ASSUME NEW i \in Bit PROVE BitOf(0, i) = 0
    <3> DEFINE p == 2 ^ i
    <3>1. i \in Nat
      BY WordAssumption DEF Bit
    <3>2. p \in Nat /\ p > 0
      BY <3>1, PowerIs
    <3> HIDE DEF p
    <3>3. (0 \div p) % 2 = 0
      BY <3>2
    <3> QED
      BY <3>3, Zenon DEF BitOf, p
  <2> QED
    BY <2>1, Zenon DEF BitsOf
<1> HIDE DEF zero
<1>3. (\A i \in Bit : ~l[i]) <=> DigitsOf(l) = zero
  <2>1. ASSUME \A i \in Bit : ~l[i] PROVE DigitsOf(l) = zero
    BY <1>2, <2>1, Zenon DEF DigitsOf
  <2>2. ASSUME DigitsOf(l) = zero, NEW i \in Bit PROVE ~l[i]
    <3>1. DigitsOf(l)[i] = IF l[i] THEN 1 ELSE 0
      BY DEF DigitsOf
    <3>2. DigitsOf(l)[i] = 0
      BY <1>2, <2>2
    <3> QED
      BY <3>1, <3>2
  <2> QED
    BY <2>1, <2>2
<1>4. DigitsOf(l) = zero <=> Number(l) = 0
  BY <1>1, NumberOf, ValueInjective
<1> QED
  BY <1>3, <1>4, Zenon

LEMMA ZeroIs ==
  ASSUME NEW l \in Bits
  PROVE  IsZero(l) \in BOOLEAN /\ (IsZero(l) <=> Number(l) = 0)
<1> DEFINE v == [n \in 1 .. W |-> l[n - 1]]
<1>1. W \in Nat
  BY WordAssumption
<1>2. \A n \in 1 .. W : v[n] = l[n - 1] /\ l[n - 1] \in BOOLEAN
  BY BitsBelow DEF Bits
<1>3. Len(v) = W
  BY <1>1
<1> HIDE DEF v
<1>4. /\ reduce_or(v) \in BOOLEAN
      /\ reduce_or(v) <=> \E k \in 1 .. W : v[k]
  BY <1>1, <1>2, <1>3, ReduceOrIs, Zenon
<1>5. IsZero(l) = not(reduce_or(v))
  BY Zenon DEF IsZero, v
<1>6. IsZero(l) \in BOOLEAN /\ (IsZero(l) <=> \A k \in 1 .. W : ~l[k - 1])
  BY <1>2, <1>4, <1>5, Zenon DEF not, nand
<1>7. (\A k \in 1 .. W : ~l[k - 1]) <=> \A i \in Bit : ~l[i]
  <2>1. ASSUME NEW i \in Bit PROVE i + 1 \in 1 .. W /\ (i + 1) - 1 = i
    BY <1>1 DEF Bit
  <2> QED
    BY <2>1, BitsBelow, Zenon
<1> QED
  BY <1>6, <1>7, NumberZero, Zenon

(* What each operation would put into the destination.                      *)
Candidate(op, dst, src, immediate) ==
  CASE op = LDI -> immediate
    [] op = MOV -> src
    [] op = ADD -> add_word(dst, src, FALSE).sum
    [] op = SUB -> sub_word(dst, src).sum
    [] op = AND -> and_word(dst, src)
    [] op = OR  -> or_word(dst, src)
    [] op = XOR -> xor_word(dst, src)

LEMMA CandidateIs ==
  ASSUME NEW d \in Bits, NEW s \in Bits, NEW i \in Bits
  PROVE  /\ Candidate(1, d, s, i) = i
         /\ Candidate(2, d, s, i) = s
         /\ Candidate(3, d, s, i) = add_word(d, s, FALSE).sum
         /\ Candidate(4, d, s, i) = sub_word(d, s).sum
         /\ Candidate(5, d, s, i) = and_word(d, s)
         /\ Candidate(6, d, s, i) = or_word(d, s)
         /\ Candidate(7, d, s, i) = xor_word(d, s)
         /\ \A k \in 1 .. 7 : Candidate(k, d, s, i) \in Bits
<1> DEFINE a == add_word(d, s, FALSE).sum
           b == sub_word(d, s).sum
           e == and_word(d, s)
           f == or_word(d, s)
           g == xor_word(d, s)
<1>1. a \in Bits /\ b \in Bits
  BY AddsModulo, SubtractsModulo
<1>2. e \in Bits /\ f \in Bits /\ g \in Bits
  BY BitwiseNumbers
<1> HIDE DEF a, b, e, f, g
<1>3. \A op : Candidate(op, d, s, i) =
        CASE op = 1 -> i [] op = 2 -> s [] op = 3 -> a [] op = 4 -> b [] op = 5 -> e
          [] op = 6 -> f [] op = 7 -> g
  BY Zenon DEF Candidate, LDI, MOV, ADD, SUB, AND, OR, XOR, a, b, e, f, g
<1>4. /\ Candidate(1, d, s, i) = i
      /\ Candidate(2, d, s, i) = s
      /\ Candidate(3, d, s, i) = a
      /\ Candidate(4, d, s, i) = b
      /\ Candidate(5, d, s, i) = e
      /\ Candidate(6, d, s, i) = f
      /\ Candidate(7, d, s, i) = g
  BY <1>3
<1>5. ASSUME NEW k \in 1 .. 7 PROVE Candidate(k, d, s, i) \in Bits
  <2>1. k = 1 \/ k = 2 \/ k = 3 \/ k = 4 \/ k = 5 \/ k = 6 \/ k = 7
    OBVIOUS
  <2> QED
    BY <1>1, <1>2, <1>4, <2>1, Zenon
<1> QED
  BY <1>4, <1>5, Zenon DEF a, b, e, f, g

(* The chain of multiplexers keeps the destination, or the candidate of the *)
(* one operation that is selected.                                          *)
LEMMA ResultWordIs ==
  ASSUME NEW d \in Bits, NEW s \in Bits, NEW i \in Bits, NEW operation, NEW o \in Nat,
         \A k \in 1 .. 7 : operation[k] \in BOOLEAN /\ (operation[k] <=> k = o)
  PROVE  /\ result_word(operation, d, s, i) \in Bits
         /\ result_word(operation, d, s, i) = IF o \in 1 .. 7 THEN Candidate(o, d, s, i) ELSE d
<1> DEFINE F == [p \in (1 .. 7) \X Bits |->
                   mux_word(operation[p[1]], p[2], Candidate(p[1], d, s, i))]
           Chain(acc) ==
             acc = [n \in 0 .. 7 |->
                      IF n = 0 THEN d
                      ELSE mux_word(operation[n], acc[n - 1], Candidate(n, d, s, i))]
<1>1. 7 \in Nat
  OBVIOUS
<1>2. \A k \in 1 .. 7, m \in Bits :
        mux_word(operation[k], m, Candidate(k, d, s, i))
          = IF operation[k] THEN Candidate(k, d, s, i) ELSE m
  <2> TAKE k \in 1 .. 7, m \in Bits
  <2>1. Candidate(k, d, s, i) \in Bits /\ operation[k] \in BOOLEAN
    BY CandidateIs
  <2>2. \A x \in BOOLEAN, a \in Bits, b \in Bits : mux_word(x, a, b) = IF x THEN b ELSE a
    BY MuxWordIs
  <2> QED
    BY <2>1, <2>2
<1>3. F \in [(1 .. 7) \X Bits -> Bits]
  <2>1. \A k \in 1 .. 7, m \in Bits : mux_word(operation[k], m, Candidate(k, d, s, i)) \in Bits
    <3> TAKE k \in 1 .. 7, m \in Bits
    <3>1. Candidate(k, d, s, i) \in Bits
      BY CandidateIs
    <3>2. mux_word(operation[k], m, Candidate(k, d, s, i))
            = IF operation[k] THEN Candidate(k, d, s, i) ELSE m
      BY <1>2
    <3>3. operation[k] \in BOOLEAN
      OBVIOUS
    <3> QED
      BY <3>1, <3>2, <3>3, Zenon
  <2> QED
    BY <2>1
<1>4. \A k \in 1 .. 7, m \in Bits : F[<<k, m>>] = mux_word(operation[k], m, Candidate(k, d, s, i))
  BY Zenon
<1> HIDE DEF F
<1>5. PICK g : Recursion(7, Bits, d, F, g)
  BY <1>1, <1>3, RecursionExists
<1>6. Chain(g)
  <2>1. g \in [0 .. 7 -> Bits] /\ g[0] = d
    BY <1>5 DEF Recursion
  <2>2. ASSUME NEW n \in 0 .. 7
        PROVE  g[n] = IF n = 0 THEN d
                      ELSE mux_word(operation[n], g[n - 1], Candidate(n, d, s, i))
    <3>1. CASE n = 0
      BY <2>1, <3>1, Zenon
    <3>2. CASE n # 0
      <4>1. n \in 1 .. 7 /\ n - 1 \in 0 .. 7
        BY <3>2
      <4>2. g[n] = F[<<n, g[n - 1]>>]
        BY <1>5, <4>1 DEF Recursion
      <4>3. g[n - 1] \in Bits
        BY <2>1, <4>1
      <4> QED
        BY <1>4, <3>2, <4>1, <4>2, <4>3, Zenon
    <3> QED
      BY <3>1, <3>2
  <2>3. g = [n \in 0 .. 7 |-> g[n]]
    BY <2>1
  <2> QED
    BY <2>2, <2>3, Zenon
<1> DEFINE acc == CHOOSE acc : Chain(acc)
<1>7. Chain(acc)
  BY <1>6, Zenon
<1>8. result_word(operation, d, s, i) = acc[7]
  BY Zenon DEF result_word, Candidate
<1> HIDE DEF acc
<1>9. acc[0] = d
  <2>1. 0 \in 0 .. 7
    OBVIOUS
  <2> QED
    BY <1>7, <2>1
<1>10. \A n \in 1 .. 7 : acc[n] = mux_word(operation[n], acc[n - 1], Candidate(n, d, s, i))
  <2>1. ASSUME NEW n \in 1 .. 7
        PROVE  acc[n] = mux_word(operation[n], acc[n - 1], Candidate(n, d, s, i))
    <3>1. n \in 0 .. 7 /\ n # 0
      OBVIOUS
    <3> QED
      BY <1>7, <3>1, Zenon
  <2> QED
    BY <2>1
<1> DEFINE S == {m \in 0 .. 7 : /\ acc[m] \in Bits
                                /\ acc[m] = IF o \in 1 .. m THEN Candidate(o, d, s, i) ELSE d}
<1>11. 0 \in S
  <2>1. 0 \in 0 .. 7 /\ o \notin 1 .. 0
    OBVIOUS
  <2> QED
    BY <1>9, <2>1, Zenon
<1>12. ASSUME NEW m \in 1 .. 7, m - 1 \in S PROVE m \in S
  <2> DEFINE c == Candidate(m, d, s, i)
             e == acc[m - 1]
  <2>1. e \in Bits /\ e = IF o \in 1 .. m - 1 THEN Candidate(o, d, s, i) ELSE d
    BY <1>12, Zenon
  <2>2. acc[m] = IF operation[m] THEN c ELSE e
    BY <1>2, <1>10, <2>1, Zenon
  <2>3. c \in Bits
    BY CandidateIs
  <2>4. operation[m] <=> m = o
    OBVIOUS
  <2>5. /\ m = o => o \in 1 .. m
        /\ m # o => (o \in 1 .. m <=> o \in 1 .. m - 1)
        /\ m \in 0 .. 7
    OBVIOUS
  <2> HIDE DEF e
  <2>6. CASE m = o
    <3>1. acc[m] = c /\ c = Candidate(o, d, s, i) /\ o \in 1 .. m
      BY <2>2, <2>4, <2>5, <2>6, Zenon
    <3> QED
      BY <2>3, <2>5, <3>1, Zenon
  <2>7. CASE m # o
    <3>1. acc[m] = e /\ (o \in 1 .. m <=> o \in 1 .. m - 1)
      BY <2>2, <2>4, <2>5, <2>7, Zenon
    <3> QED
      BY <2>1, <2>5, <3>1, Zenon
  <2> QED
    BY <2>6, <2>7
<1> HIDE DEF S
<1>13. 7 \in 0 .. 7
  OBVIOUS
<1>14. 7 \in S
  BY <1>1, <1>11, <1>12, <1>13, Along0
<1> QED
  BY <1>8, <1>14, Zenon DEF S

(* The upper bits of the word are the immediate.                            *)
LEMMA ImmediateIs ==
  ASSUME NEW word \in Nat
  PROVE  /\ Wired(word) \in Bits
         /\ Number(Wired(word)) = immediate_of(word)
<1> DEFINE h == word \div 256
<1>1. h \in Nat
  OBVIOUS
<1>2. ASSUME NEW i \in Nat PROVE BitOf(word, 8 + i) = BitOf(h, i)
  <2> DEFINE p == 2 ^ i
  <2>1. 2 ^ (8 + i) = 256 * p
    <3> DEFINE Shifts(k) == 2 ^ (8 + k) = 256 * 2 ^ k
               T == {k \in 0 .. i : Shifts(k)}
    <3>1. 0 \in T
      <4>1. 8 + 0 = 8 /\ 256 * 1 = 256 /\ 0 \in 0 .. i
        OBVIOUS
      <4>2. 2 ^ (8 + 0) = 256 /\ 256 * 2 ^ 0 = 256
        OBVIOUS
      <4>3. Shifts(0)
        BY <4>2, Zenon
      <4> QED
        BY <4>1, <4>3, Zenon
    <3>2. ASSUME NEW k \in 1 .. i, k - 1 \in T PROVE k \in T
      <4> DEFINE u == 2 ^ (8 + (k - 1))
                 v == 2 ^ (k - 1)
      <4>1. /\ k - 1 \in Nat /\ 8 + (k - 1) \in Nat
            /\ (8 + (k - 1)) + 1 = 8 + k /\ (k - 1) + 1 = k /\ k \in 0 .. i
        OBVIOUS
      <4>2. 2 ^ (8 + k) = 2 * u /\ 2 ^ k = 2 * v
        <5>1. 2 ^ ((8 + (k - 1)) + 1) = 2 * u /\ 2 ^ ((k - 1) + 1) = 2 * v
          <6>1. ASSUME NEW n \in Nat PROVE 2 ^ (n + 1) = 2 * 2 ^ n
            BY PowerDoubles
          <6> QED
            BY <4>1, <6>1, Zenon
        <5> QED
          BY <4>1, <5>1, Zenon
      <4>3. u = 256 * v
        BY <3>2, Zenon
      <4>4. v \in Nat
        BY <4>1, PowerIs
      <4> HIDE DEF u, v
      <4>5. 2 ^ (8 + k) = 256 * (2 * v)
        BY <4>2, <4>3, <4>4
      <4>6. Shifts(k)
        BY <4>2, <4>5, Zenon
      <4> QED
        BY <4>1, <4>6, Zenon
    <3> HIDE DEF T
    <3>3. i \in 0 .. i
      OBVIOUS
    <3>4. i \in T
      BY <3>1, <3>2, <3>3, Along0
    <3> QED
      BY <3>4 DEF T
  <2>2. p \in Nat /\ p > 0
    BY PowerIs
  <2> DEFINE q == h \div p
             t == h % p
             l == word % 256
  <2> HIDE DEF p
  <2>3. q \in Nat /\ t \in Nat /\ t < p /\ h = p * q + t
    BY <1>1, <2>2
  <2>4. l \in Nat /\ l < 256 /\ word = 256 * h + l
    OBVIOUS
  <2> DEFINE m == 256 * p
             r == 256 * t + l
             z == p * q
  <2> HIDE DEF h, q, t, l
  <2>5. z \in Nat
    BY <2>2, <2>3
  <2>6. m * q = 256 * z
    BY <2>2, <2>3
  <2> HIDE DEF z
  <2>7. m \in Nat /\ m > 0 /\ r \in Nat /\ r < m
    BY <2>2, <2>3, <2>4
  <2>8. word = 256 * z + r
    <3>1. h = z + t
      BY <2>3, Zenon DEF z
    <3> QED
      BY <2>3, <2>4, <2>5, <3>1
  <2>9. word = m * q + r
    BY <2>6, <2>8, Zenon
  <2> HIDE DEF m, r
  <2>10. word \div m = q
    <3>1. (m * q + r) \div m = q
      BY <2>3, <2>7, Division
    <3> QED
      BY <2>9, <3>1, Zenon
  <2> QED
    BY <2>1, <2>10, Zenon DEF BitOf, m, q, p
<1>3. \A i \in Bit : i \in Nat
  BY WordAssumption DEF Bit
<1>4. \A i \in Bit : Wired(word)[i] = (BitOf(h, i) = 1)
  BY <1>2, <1>3, Zenon DEF Wired
<1>5. \A i \in Bit : BitOf(h, i) \in {0, 1}
  BY <1>1, <1>3, BitOfIs
<1>6. Wired(word) \in Bits
  BY DEF Wired, Bits
<1> HIDE DEF h
<1>7. \A i \in Bit : (IF Wired(word)[i] THEN 1 ELSE 0) = BitOf(h, i)
  <2> TAKE i \in Bit
  <2>1. BitOf(h, i) = 0 \/ BitOf(h, i) = 1
    BY <1>5
  <2>2. ~(0 = 1)
    OBVIOUS
  <2> QED
    BY <1>4, <2>1, <2>2, Zenon
<1>8. DigitsOf(Wired(word)) = BitsOf(h)
  BY <1>7, Zenon DEF DigitsOf, BitsOf
<1>9. Number(Wired(word)) = h % Size
  BY <1>1, <1>8, NumberOf, ValueOfBits, Zenon
<1> QED
  BY <1>6, <1>9, Zenon DEF immediate_of, h

-----------------------------------------------------------------------------
(* The state as words and bits.                                             *)
StateWords == {W * r : r \in Register} \cup {PC_STATE_OFFSET, OUT_STATE_OFFSET}

LEMMA StateIs ==
  ASSUME NEW s \in StateBits
  PROVE  /\ \A offset \in StateWords : WordAt(s, offset) \in Bits
         /\ s[ZERO_STATE_OFFSET] \in BOOLEAN /\ s[CARRY_STATE_OFFSET] \in BOOLEAN
         /\ s[HALT_STATE_OFFSET] \in BOOLEAN
<1>1. W \in Nat /\ W > 0
  BY WordAssumption
<1>2. ASSUME NEW offset \in StateWords, NEW bit \in Bit
      PROVE  offset + bit \in 0 .. CPU_STATE_BITS - 1
  <2>1. \A r \in Register : W * r \in 0 .. 3 * W
    BY <1>1 DEF Register
  <2>2. offset \in 0 .. 5 * W + 3
    BY <1>1, <2>1 DEF StateWords, PC_STATE_OFFSET, OUT_STATE_OFFSET
  <2> QED
    BY <1>1, <2>2 DEF Bit, CPU_STATE_BITS
<1>3. \A offset \in StateWords : WordAt(s, offset) \in Bits
  BY <1>2 DEF StateBits, WordAt, Bits
<1>4. /\ ZERO_STATE_OFFSET \in 0 .. CPU_STATE_BITS - 1
      /\ CARRY_STATE_OFFSET \in 0 .. CPU_STATE_BITS - 1
      /\ HALT_STATE_OFFSET \in 0 .. CPU_STATE_BITS - 1
  BY <1>1 DEF ZERO_STATE_OFFSET, CARRY_STATE_OFFSET, HALT_STATE_OFFSET, CPU_STATE_BITS
<1> QED
  BY <1>3, <1>4 DEF StateBits

(* What Latches puts where.                                                 *)
LEMMA LatchesRead ==
  ASSUME NEW r, \A k \in Register : r[k] \in Bits, NEW p \in Bits, NEW z \in BOOLEAN,
         NEW c \in BOOLEAN, NEW h \in BOOLEAN, NEW o \in Bits
  PROVE  LET s == Latches(r, p, z, c, h, o)
         IN  /\ s \in StateBits
             /\ \A k \in Register : WordAt(s, W * k) = r[k]
             /\ WordAt(s, PC_STATE_OFFSET) = p /\ WordAt(s, OUT_STATE_OFFSET) = o
             /\ s[ZERO_STATE_OFFSET] = z /\ s[CARRY_STATE_OFFSET] = c /\ s[HALT_STATE_OFFSET] = h
<1> DEFINE s == Latches(r, p, z, c, h, o)
           At(i) == CASE i < 4 * W -> r[i \div W][i % W]
                      [] i \in 4 * W .. 5 * W - 1 -> p[i - 4 * W]
                      [] i = 5 * W -> z
                      [] i = 5 * W + 1 -> c
                      [] i = 5 * W + 2 -> h
                      [] OTHER -> o[i - (5 * W + 3)]
<1>1. W \in Nat /\ W > 0
  BY WordAssumption
<1>2. s = [i \in 0 .. CPU_STATE_BITS - 1 |-> At(i)]
  BY Zenon DEF Latches, PC_STATE_OFFSET, ZERO_STATE_OFFSET, CARRY_STATE_OFFSET, HALT_STATE_OFFSET,
     OUT_STATE_OFFSET
<1>3. CPU_STATE_BITS = 6 * W + 3
  BY DEF CPU_STATE_BITS
<1> HIDE DEF s
<1>4. ASSUME NEW k \in Register, NEW bit \in Bit
      PROVE  /\ W * k + bit \in 0 .. CPU_STATE_BITS - 1
             /\ s[W * k + bit] = r[k][bit]
  <2> DEFINE i == W * k + bit
  <2>1. k \in Nat /\ bit \in Nat /\ bit < W
    BY <1>1 DEF Register, Bit
  <2>2. W * k \in Nat /\ W * k <= 3 * W
    BY <1>1 DEF Register
  <2>3. i \div W = k /\ i % W = bit
    BY <1>1, <2>1, Division
  <2>4. i \in 0 .. CPU_STATE_BITS - 1 /\ i < 4 * W
    <3> DEFINE u == W * k
    <3>1. u \in Nat /\ u <= 3 * W
      BY <2>2
    <3> HIDE DEF u
    <3>2. u + bit \in 0 .. CPU_STATE_BITS - 1 /\ u + bit < 4 * W
      BY <1>1, <1>3, <2>1, <3>1
    <3> QED
      BY <3>2, Zenon DEF u
  <2> HIDE DEF i
  <2>5. At(i) = r[i \div W][i % W]
    <3> DEFINE x == r[i \div W][i % W]
    <3> HIDE DEF x
    <3>1. i \notin 4 * W .. 5 * W - 1 /\ i # 5 * W /\ i # 5 * W + 1 /\ i # 5 * W + 2
      BY <1>1, <1>3, <2>4
    <3> QED
      BY <2>4, <3>1 DEF x
  <2>6. s[i] = At(i)
    BY <1>2, <2>4
  <2> QED
    BY <2>3, <2>4, <2>5, <2>6, Zenon DEF i
<1>5. ASSUME NEW bit \in Bit
      PROVE  /\ 4 * W + bit \in 0 .. CPU_STATE_BITS - 1
             /\ s[4 * W + bit] = p[bit]
  <2> DEFINE i == 4 * W + bit
  <2>1. /\ i \in 0 .. CPU_STATE_BITS - 1 /\ i - 4 * W = bit
        /\ ~(i < 4 * W) /\ i \in 4 * W .. 5 * W - 1
        /\ i # 5 * W /\ i # 5 * W + 1 /\ i # 5 * W + 2
    BY <1>1, <1>3 DEF Bit
  <2> HIDE DEF i
  <2>2. At(i) = p[i - 4 * W]
    BY <2>1
  <2>3. s[i] = At(i)
    BY <1>2, <2>1
  <2> QED
    BY <2>1, <2>2, <2>3, Zenon DEF i
<1>6. ASSUME NEW bit \in Bit
      PROVE  /\ 5 * W + 3 + bit \in 0 .. CPU_STATE_BITS - 1
             /\ s[5 * W + 3 + bit] = o[bit]
  <2> DEFINE i == 5 * W + 3 + bit
  <2>1. /\ i \in 0 .. CPU_STATE_BITS - 1 /\ i - (5 * W + 3) = bit
        /\ ~(i < 4 * W) /\ i \notin 4 * W .. 5 * W - 1
        /\ i # 5 * W /\ i # 5 * W + 1 /\ i # 5 * W + 2
    BY <1>1, <1>3 DEF Bit
  <2> HIDE DEF i
  <2>2. At(i) = o[i - (5 * W + 3)]
    BY <2>1
  <2>3. s[i] = At(i)
    BY <1>2, <2>1
  <2> QED
    BY <2>1, <2>2, <2>3, Zenon DEF i
<1>7. /\ 5 * W \in 0 .. CPU_STATE_BITS - 1 /\ s[5 * W] = z
      /\ 5 * W + 1 \in 0 .. CPU_STATE_BITS - 1 /\ s[5 * W + 1] = c
      /\ 5 * W + 2 \in 0 .. CPU_STATE_BITS - 1 /\ s[5 * W + 2] = h
  <2>1. /\ 5 * W \in 0 .. CPU_STATE_BITS - 1 /\ 5 * W + 1 \in 0 .. CPU_STATE_BITS - 1
        /\ 5 * W + 2 \in 0 .. CPU_STATE_BITS - 1
    BY <1>1, <1>3
  <2>2. /\ ~(5 * W < 4 * W) /\ 5 * W \notin 4 * W .. 5 * W - 1
        /\ ~(5 * W + 1 < 4 * W) /\ 5 * W + 1 \notin 4 * W .. 5 * W - 1 /\ 5 * W + 1 # 5 * W
        /\ ~(5 * W + 2 < 4 * W) /\ 5 * W + 2 \notin 4 * W .. 5 * W - 1 /\ 5 * W + 2 # 5 * W
        /\ 5 * W + 2 # 5 * W + 1
    BY <1>1
  <2>3. At(5 * W) = z /\ At(5 * W + 1) = c /\ At(5 * W + 2) = h
    BY <2>2
  <2> HIDE DEF At
  <2> QED
    BY <1>2, <2>1, <2>3
<1> HIDE DEF At
<1>8. s \in StateBits
  <2>1. ASSUME NEW i \in 0 .. CPU_STATE_BITS - 1 PROVE s[i] \in BOOLEAN
    <3>1. CASE i < 4 * W
      <4> DEFINE k == i \div W
                 bit == i % W
                 q == k * W
      <4>1. k \in Nat /\ bit \in Nat /\ bit < W /\ i = W * k + bit
        BY <1>1
      <4> HIDE DEF k, bit
      <4>2. k \in Register
        <5>1. ASSUME k >= 4 PROVE FALSE
          <6>1. PICK e \in Nat : k = 4 + e
            <7>1. k - 4 \in Nat /\ k = 4 + (k - 4)
              BY <4>1, <5>1
            <7> QED
              BY <7>1
          <6>2. W * k = W * 4 + W * e /\ W * e \in Nat
            BY <1>1, <6>1
          <6> DEFINE f == W * e
          <6> HIDE DEF f
          <6>3. i = W * 4 + f + bit /\ f \in Nat
            BY <4>1, <6>2 DEF f
          <6> QED
            BY <1>1, <3>1, <4>1, <6>3
        <5> QED
          BY <4>1, <5>1 DEF Register
      <4>3. bit \in Bit
        BY <1>1, <4>1 DEF Bit
      <4>4. s[i] = r[k][bit]
        BY <1>4, <4>1, <4>2, <4>3, Zenon
      <4> QED
        BY <4>2, <4>3, <4>4 DEF Bits
    <3>2. CASE i \in 4 * W .. 5 * W - 1
      <4>1. i - 4 * W \in Bit /\ 4 * W + (i - 4 * W) = i
        BY <1>1, <3>2 DEF Bit
      <4>2. s[i] = p[i - 4 * W]
        BY <1>5, <4>1, Zenon
      <4> QED
        BY <4>1, <4>2 DEF Bits
    <3>3. CASE i \in 5 * W + 3 .. 6 * W + 2
      <4>1. i - (5 * W + 3) \in Bit /\ 5 * W + 3 + (i - (5 * W + 3)) = i
        BY <1>1, <3>3 DEF Bit
      <4>2. s[i] = o[i - (5 * W + 3)]
        BY <1>6, <4>1, Zenon
      <4> QED
        BY <4>1, <4>2 DEF Bits
    <3>4. \/ i < 4 * W \/ i \in 4 * W .. 5 * W - 1 \/ i \in 5 * W + 3 .. 6 * W + 2
          \/ i = 5 * W \/ i = 5 * W + 1 \/ i = 5 * W + 2
      BY <1>1, <1>3
    <3> QED
      BY <1>7, <3>1, <3>2, <3>3, <3>4
  <2> QED
    BY <1>2, <2>1 DEF StateBits
<1>9. \A x \in Bits : x = [bit \in Bit |-> x[bit]]
  BY DEF Bits
<1>10. \A k \in Register : WordAt(s, W * k) = r[k]
  BY <1>4, <1>9 DEF WordAt
<1>11. WordAt(s, 4 * W) = p /\ WordAt(s, 5 * W + 3) = o
  BY <1>5, <1>6, <1>9, Zenon DEF WordAt
<1> QED
  BY <1>7, <1>8, <1>10, <1>11, Zenon
     DEF s, PC_STATE_OFFSET, ZERO_STATE_OFFSET, CARRY_STATE_OFFSET, HALT_STATE_OFFSET,
     OUT_STATE_OFFSET

(* The host reads the number on the lines of a word.                        *)
LEMMA ReadByteIs ==
  ASSUME NEW s, NEW offset
  PROVE  read_byte(s, offset) = Number(WordAt(s, offset))
<1>1. [bit \in Bit |-> IF WordAt(s, offset)[bit] THEN 1 ELSE 0]
        = [bit \in Bit |-> IF s[offset + bit] THEN 1 ELSE 0]
  BY Zenon DEF WordAt
<1> QED
  BY <1>1, Zenon DEF read_byte, Number

LEMMA DecodedIs ==
  ASSUME NEW s
  PROVE  /\ \A r \in Register : Decoded(s).reg[r] = Number(WordAt(s, W * r))
         /\ Decoded(s).pc = Number(WordAt(s, PC_STATE_OFFSET))
         /\ Decoded(s).zero = s[ZERO_STATE_OFFSET] /\ Decoded(s).carry = s[CARRY_STATE_OFFSET]
         /\ Decoded(s).halt = s[HALT_STATE_OFFSET]
         /\ Decoded(s).out = Number(WordAt(s, OUT_STATE_OFFSET))
         /\ Decoded(s) = [reg |-> [r \in Register |-> Decoded(s).reg[r]], pc |-> Decoded(s).pc,
                          zero |-> Decoded(s).zero, carry |-> Decoded(s).carry,
                          halt |-> Decoded(s).halt, out |-> Decoded(s).out]
<1>1. \A r \in Register : REG_STATE_OFFSET + W * r = W * r
  BY WordAssumption DEF REG_STATE_OFFSET, Register
<1> DEFINE byte(offset) == read_byte(s, offset)
<1>2. Decoded(s) = [reg |-> [r \in Register |-> byte(REG_STATE_OFFSET + W * r)],
                    pc |-> byte(PC_STATE_OFFSET),
                    zero |-> s[ZERO_STATE_OFFSET], carry |-> s[CARRY_STATE_OFFSET],
                    halt |-> s[HALT_STATE_OFFSET], out |-> byte(OUT_STATE_OFFSET)]
  BY Zenon DEF Decoded, pc_of, output_of, halted
<1>3. \A offset : byte(offset) = Number(WordAt(s, offset))
  BY ReadByteIs
<1> HIDE DEF byte
<1>4. \A r \in Register : byte(REG_STATE_OFFSET + W * r) = Number(WordAt(s, W * r))
  BY <1>1, <1>3, Zenon
<1>5. /\ Decoded(s).reg = [r \in Register |-> byte(REG_STATE_OFFSET + W * r)]
      /\ Decoded(s).pc = byte(PC_STATE_OFFSET)
      /\ Decoded(s).zero = s[ZERO_STATE_OFFSET] /\ Decoded(s).carry = s[CARRY_STATE_OFFSET]
      /\ Decoded(s).halt = s[HALT_STATE_OFFSET] /\ Decoded(s).out = byte(OUT_STATE_OFFSET)
  BY <1>2
<1>6. \A r \in Register : Decoded(s).reg[r] = byte(REG_STATE_OFFSET + W * r)
  BY <1>5
<1>7. Decoded(s).reg = [r \in Register |-> Decoded(s).reg[r]]
  BY <1>5
<1>8. Decoded(s) = [reg |-> Decoded(s).reg, pc |-> Decoded(s).pc,
                    zero |-> Decoded(s).zero, carry |-> Decoded(s).carry,
                    halt |-> Decoded(s).halt, out |-> Decoded(s).out]
  BY <1>2, <1>5, Zenon
<1> QED
  BY <1>3, <1>4, <1>5, <1>6, <1>7, <1>8, Zenon

-----------------------------------------------------------------------------
(* The parts of a tick, as the instruction has them.                        *)
LEMMA OpcodeRange ==
  ASSUME NEW word \in Nat
  PROVE  /\ opcode(word) \in 0 .. 15
         /\ dst_selector(word) \in Register /\ src_selector(word) \in Register
BY DEF opcode, dst_selector, src_selector, Register

LEMMA RegistersAre ==
  ASSUME NEW s \in StateBits, NEW r \in Register
  PROVE  Registers(s)[r] = WordAt(s, W * r) /\ Registers(s)[r] \in Bits
<1>1. REG_STATE_OFFSET + W * r = W * r
  BY WordAssumption DEF REG_STATE_OFFSET, Register
<1>2. Registers(s)[r] = WordAt(s, REG_STATE_OFFSET + W * r)
  BY DEF Registers
<1>3. W * r \in StateWords
  BY DEF StateWords
<1> QED
  BY <1>1, <1>2, <1>3, StateIs

LEMMA OperandsAre ==
  ASSUME NEW s \in StateBits, NEW word \in Nat
  PROVE  /\ Dst(s, word) \in Bits
         /\ Number(Dst(s, word)) = Decoded(s).reg[dst_selector(word)]
         /\ Src(s, word) \in Bits
         /\ Number(Src(s, word)) = Decoded(s).reg[src_selector(word)]
<1> DEFINE i == dst_selector(word)
           j == src_selector(word)
<1>1. i \in Register /\ j \in Register
  BY OpcodeRange
<1>2. \A r \in Register : Registers(s)[r] \in Bits
  BY RegistersAre
<1>3. Dst(s, word) = Registers(s)[i] /\ Src(s, word) = Registers(s)[j]
  BY <1>2, SelectorBits, SelectIs DEF Dst, Src
<1>4. Number(Registers(s)[i]) = Decoded(s).reg[i] /\ Number(Registers(s)[j]) = Decoded(s).reg[j]
  <2> HIDE DEF i, j
  <2> QED
    BY <1>1, RegistersAre, DecodedIs
<1> QED
  BY <1>1, <1>2, <1>3, <1>4, Zenon

LEMMA OperationIs ==
  ASSUME NEW word \in Nat, NEW k \in 1 .. 15
  PROVE  /\ Operation(word)[k] = Is(word, k)
         /\ Operation(word)[k] \in BOOLEAN
         /\ Operation(word)[k] <=> opcode(word) = k
<1> DEFINE is(n) == Is(word, n)
<1>1. Operation(word) = <<is(1), is(2), is(3), is(4), is(5), is(6), is(7), is(8), is(9), is(10),
                          is(11), is(12), is(13), is(14), is(15)>>
  BY Zenon DEF Operation
<1>2. is(k) \in BOOLEAN /\ (is(k) <=> opcode(word) = k)
  <2>1. k \in 0 .. 15
    OBVIOUS
  <2> QED
    BY <2>1, OpcodeBits
<1>3. Operation(word)[k] = is(k)
  <2> HIDE DEF is
  <2>1. \/ k = 1 \/ k = 2 \/ k = 3 \/ k = 4 \/ k = 5 \/ k = 6 \/ k = 7 \/ k = 8 \/ k = 9
        \/ k = 10 \/ k = 11 \/ k = 12 \/ k = 13 \/ k = 14 \/ k = 15
    OBVIOUS
  <2> QED
    BY <1>1, <2>1
<1> QED
  BY <1>2, <1>3, Zenon

LEMMA EnableIs ==
  ASSUME NEW word \in Nat
  PROVE  Enable(word) \in BOOLEAN /\ (Enable(word) <=> Writes(word))
<1> DEFINE x == Operation(word)
           v == SubSeq(x, 1, 7)
<1>1. x \in Seq(BOOLEAN) /\ Len(x) = 15
  <2> DEFINE is(n) == Is(word, n)
  <2>1. \A n \in 1 .. 15 : is(n) \in BOOLEAN
    <3> TAKE n \in 1 .. 15
    <3>1. n \in 0 .. 15
      OBVIOUS
    <3> QED
      BY <3>1, OpcodeBits
  <2>2. x = <<is(1), is(2), is(3), is(4), is(5), is(6), is(7), is(8), is(9), is(10),
              is(11), is(12), is(13), is(14), is(15)>>
    BY Zenon DEF Operation
  <2> HIDE DEF is, x
  <2> QED
    BY <2>1, <2>2
<1> HIDE DEF x
<1>2. Len(v) = 7 /\ \A k \in 1 .. 7 : v[k] = x[k]
  <2>1. \A i \in 1 .. 7 : x[i] \in BOOLEAN
    <3> TAKE i \in 1 .. 7
    <3>1. i \in 1 .. 15
      OBVIOUS
    <3> QED
      BY <3>1, OperationIs, Zenon DEF x
  <2>2. 1 \in Int /\ 7 \in Int /\ 1 <= 7 /\ 7 - 1 + 1 = 7
    OBVIOUS
  <2>3. /\ Len(v) = (IF 1 <= 7 THEN 7 - 1 + 1 ELSE 0)
        /\ \A i \in 1 .. 7 - 1 + 1 : v[i] = x[1 + i - 1]
    <3> HIDE DEF x
    <3> QED
      BY <2>1, <2>2, SubSeqProperties
  <2>4. \A i \in 1 .. 7 : 1 + i - 1 = i
    OBVIOUS
  <2> HIDE DEF v
  <2> QED
    BY <2>2, <2>3, <2>4
<1>3. Enable(word) = reduce_or(v)
  BY Zenon DEF Enable, x
<1> HIDE DEF v
<1>4. \A k \in 1 .. 7 : v[k] \in BOOLEAN /\ (v[k] <=> opcode(word) = k)
  <2> TAKE k \in 1 .. 7
  <2>1. k \in 1 .. 15
    OBVIOUS
  <2>2. x[k] \in BOOLEAN /\ (x[k] <=> opcode(word) = k)
    BY <2>1, OperationIs DEF x
  <2> QED
    BY <1>2, <2>2
<1>5. /\ reduce_or(v) \in BOOLEAN
      /\ reduce_or(v) <=> \E k \in 1 .. 7 : v[k]
  <2>1. 7 \in Nat
    OBVIOUS
  <2> QED
    BY <1>2, <1>4, <2>1, ReduceOrIs, Zenon
<1>6. (\E k \in 1 .. 7 : opcode(word) = k) <=> opcode(word) \in 1 .. 7
  OBVIOUS
<1>7. reduce_or(v) <=> opcode(word) \in 1 .. 7
  BY <1>4, <1>5, <1>6
<1> QED
  BY <1>3, <1>5, <1>7, Zenon DEF Writes, LDI, XOR

(* The result.                                                              *)
LEMMA ResIs ==
  ASSUME NEW s \in StateBits, NEW word \in Nat
  PROVE  /\ Res(s, word) \in Bits
         /\ Number(Res(s, word)) = Result(Decoded(s), word)
<1> DEFINE d == Dst(s, word)
           t == Src(s, word)
           i == Wired(word)
           x == Operation(word)
           m == Decoded(s)
           a == m.reg[dst_selector(word)]
           b == m.reg[src_selector(word)]
           o == opcode(word)
<1>1. d \in Bits /\ Number(d) = a /\ t \in Bits /\ Number(t) = b
  BY OperandsAre
<1>2. i \in Bits /\ Number(i) = immediate_of(word)
  BY ImmediateIs
<1>3. o \in 0 .. 15 /\ o \in Nat
  BY OpcodeRange
<1>4. \A k \in 1 .. 7 : x[k] \in BOOLEAN /\ (x[k] <=> k = o)
  <2> TAKE k \in 1 .. 7
  <2>1. k \in 1 .. 15
    OBVIOUS
  <2>2. x[k] \in BOOLEAN /\ (x[k] <=> o = k)
    BY <2>1, OperationIs
  <2> QED
    BY <2>2
<1>5. Res(s, word) = result_word(x, d, t, i)
  BY Zenon DEF Res
<1> DEFINE sum == (a + b) % Size
           difference == (a - b) % Size
           conjunction == BitByBit(BothBits, a, b)
           disjunction == BitByBit(EitherBit, a, b)
           parity == BitByBit(DifferentBits, a, b)
           n == immediate_of(word)
<1>6. Result(m, word) =
        CASE o = LDI -> n [] o = MOV -> b [] o = ADD -> sum [] o = SUB -> difference
          [] o = AND -> conjunction [] o = OR -> disjunction [] o = XOR -> parity [] OTHER -> a
  BY Zenon DEF Result
<1>7. /\ Number(add_word(d, t, FALSE).sum) = sum
      /\ Number(sub_word(d, t).sum) = difference
  <2>1. a \in Nat /\ b \in Nat
    BY <1>1, NumberOf, SizeIs DEF Word
  <2>2. /\ Number(add_word(d, t, FALSE).sum) = (Number(d) + Number(t) + 0) % Size
        /\ Number(sub_word(d, t).sum) = (Number(d) - Number(t)) % Size
    <3> HIDE DEF d, t
    <3> QED
      BY <1>1, AddsModulo, SubtractsModulo
  <2>3. a + b + 0 = a + b
    BY <2>1
  <2> QED
    BY <1>1, <2>2, <2>3, Zenon
<1>8. /\ Number(and_word(d, t)) = conjunction
      /\ Number(or_word(d, t)) = disjunction
      /\ Number(xor_word(d, t)) = parity
  <2>1. /\ Number(and_word(d, t)) = BitByBit(BothBits, Number(d), Number(t))
        /\ Number(or_word(d, t)) = BitByBit(EitherBit, Number(d), Number(t))
        /\ Number(xor_word(d, t)) = BitByBit(DifferentBits, Number(d), Number(t))
    <3> HIDE DEF d, t
    <3> QED
      BY <1>1, BitwiseNumbers
  <2> QED
    BY <1>1, <2>1, Zenon
<1> HIDE DEF d, t, i, x, m, a, b, o, sum, difference, conjunction, disjunction, parity, n
<1>9. /\ result_word(x, d, t, i) \in Bits
      /\ result_word(x, d, t, i) = IF o \in 1 .. 7 THEN Candidate(o, d, t, i) ELSE d
  BY <1>1, <1>2, <1>3, <1>4, ResultWordIs
<1>10. CASE o \notin 1 .. 7
  <2>1. Result(m, word) = a
    <3>1. o # 1 /\ o # 2 /\ o # 3 /\ o # 4 /\ o # 5 /\ o # 6 /\ o # 7
      BY <1>10
    <3> QED
      BY <1>6, <3>1 DEF LDI, MOV, ADD, SUB, AND, OR, XOR
  <2>2. Res(s, word) = d
    BY <1>5, <1>9, <1>10, Zenon
  <2> QED
    BY <1>1, <2>1, <2>2, Zenon DEF m
<1>11. CASE o \in 1 .. 7
  <2>1. /\ Candidate(1, d, t, i) = i
        /\ Candidate(2, d, t, i) = t
        /\ Candidate(3, d, t, i) = add_word(d, t, FALSE).sum
        /\ Candidate(4, d, t, i) = sub_word(d, t).sum
        /\ Candidate(5, d, t, i) = and_word(d, t)
        /\ Candidate(6, d, t, i) = or_word(d, t)
        /\ Candidate(7, d, t, i) = xor_word(d, t)
    <3>1. d \in Bits /\ t \in Bits /\ i \in Bits
      BY <1>1, <1>2, Zenon
    <3>2. Candidate(1, d, t, i) = i /\ Candidate(2, d, t, i) = t
      BY DEF Candidate, LDI, MOV, ADD, SUB, AND, OR, XOR
    <3>3. Candidate(3, d, t, i) = add_word(d, t, FALSE).sum
      BY <3>1, CandidateIs
    <3>4. Candidate(4, d, t, i) = sub_word(d, t).sum
      BY <3>1, CandidateIs
    <3>5. Candidate(5, d, t, i) = and_word(d, t) /\ Candidate(6, d, t, i) = or_word(d, t)
          /\ Candidate(7, d, t, i) = xor_word(d, t)
      BY <3>1, CandidateIs
    <3> QED
      BY <3>2, <3>3, <3>4, <3>5, Zenon
  <2>2. Res(s, word) = Candidate(o, d, t, i)
    BY <1>5, <1>9, <1>11, Zenon
  <2>3. Number(i) = n
    BY <1>2, Zenon DEF n
  <2>4. /\ o = 1 => Result(m, word) = n
        /\ o = 2 => Result(m, word) = b
        /\ o = 3 => Result(m, word) = sum
        /\ o = 4 => Result(m, word) = difference
        /\ o = 5 => Result(m, word) = conjunction
        /\ o = 6 => Result(m, word) = disjunction
        /\ o = 7 => Result(m, word) = parity
    BY <1>6 DEF LDI, MOV, ADD, SUB, AND, OR, XOR
  <2>5. o = 1 \/ o = 2 \/ o = 3 \/ o = 4 \/ o = 5 \/ o = 6 \/ o = 7
    BY <1>11
  <2>6. Number(Candidate(o, d, t, i)) = Result(m, word)
    BY <1>1, <1>7, <1>8, <2>1, <2>3, <2>4, <2>5, Zenon
  <2> QED
    BY <1>5, <1>9, <2>2, <2>6, Zenon DEF m
<1> QED
  BY <1>5, <1>9, <1>10, <1>11, Zenon DEF m

LEMMA CarryNextIs ==
  ASSUME NEW s \in StateBits, NEW word \in Nat
  PROVE  CarryNext(s, word) \in BOOLEAN /\ CarryNext(s, word) = CarryAfter(Decoded(s), word)
<1> DEFINE m == Decoded(s)
           a == m.reg[dst_selector(word)]
           b == m.reg[src_selector(word)]
           o == opcode(word)
           old == s[CARRY_STATE_OFFSET]
           add == add_word(Dst(s, word), Src(s, word), FALSE).carry
           sub == sub_word(Dst(s, word), Src(s, word)).carry
           x == Operation(word)[SUB]
           y == Operation(word)[ADD]
<1>1. /\ Dst(s, word) \in Bits /\ Number(Dst(s, word)) = a
      /\ Src(s, word) \in Bits /\ Number(Src(s, word)) = b
  BY OperandsAre
<1>2. a \in Nat /\ b \in Nat
  BY <1>1, NumberOf, SizeIs DEF Word
<1>3. add \in BOOLEAN /\ add = (a + b >= Size)
  <2>1. add \in BOOLEAN /\ add = (Number(Dst(s, word)) + Number(Src(s, word)) + 0 >= Size)
    BY <1>1, AddsModulo
  <2>2. a + b + 0 = a + b
    BY <1>2
  <2> QED
    BY <1>1, <2>1, <2>2, Zenon
<1>4. sub \in BOOLEAN /\ sub = (a >= b)
  <2>1. sub \in BOOLEAN /\ sub = (Number(Dst(s, word)) >= Number(Src(s, word)))
    BY <1>1, SubtractsModulo
  <2> QED
    BY <1>1, <2>1, Zenon
<1>5. x \in BOOLEAN /\ (x <=> o = SUB) /\ y \in BOOLEAN /\ (y <=> o = ADD)
  <2>1. 3 \in 1 .. 15 /\ 4 \in 1 .. 15
    OBVIOUS
  <2> QED
    BY <2>1, OperationIs DEF SUB, ADD
<1>6. old \in BOOLEAN /\ m.carry = old
  BY StateIs, DecodedIs
<1>7. CarryNext(s, word) = mux(x, mux(y, old, add), sub)
  BY Zenon DEF CarryNext
<1>8. CarryAfter(m, word) = CASE o = ADD -> a + b >= Size [] o = SUB -> a >= b [] OTHER -> m.carry
  BY Zenon DEF CarryAfter
<1> HIDE DEF m, a, b, o, old, add, sub, x, y
<1>9. mux(y, old, add) = IF y THEN add ELSE old
  BY <1>3, <1>5, <1>6, MuxIs
<1>10. CarryNext(s, word) = IF x THEN sub ELSE IF y THEN add ELSE old
  <2> DEFINE inner == mux(y, old, add)
  <2>1. inner \in BOOLEAN
    BY <1>3, <1>5, <1>6, <1>9
  <2> HIDE DEF inner
  <2>2. mux(x, inner, sub) = IF x THEN sub ELSE inner
    BY <1>4, <1>5, <2>1, MuxIs
  <2> QED
    BY <1>7, <1>9, <2>2, Zenon DEF inner
<1>11. ~(ADD = SUB)
  BY DEF ADD, SUB
<1>12. CASE o = SUB
  <2>1. CarryAfter(m, word) = (a >= b)
    BY <1>8, <1>11, <1>12
  <2>2. CarryNext(s, word) = sub
    BY <1>5, <1>10, <1>12, Zenon
  <2> QED
    BY <1>4, <2>1, <2>2, Zenon DEF m
<1>13. CASE o = ADD
  <2>1. CarryAfter(m, word) = (a + b >= Size)
    BY <1>8, <1>11, <1>13
  <2>2. CarryNext(s, word) = add
    BY <1>5, <1>10, <1>11, <1>13, Zenon
  <2> QED
    BY <1>3, <2>1, <2>2, Zenon DEF m
<1>14. CASE o # ADD /\ o # SUB
  <2>1. CarryAfter(m, word) = m.carry
    BY <1>8, <1>14
  <2>2. CarryNext(s, word) = old
    BY <1>5, <1>10, <1>14, Zenon
  <2> QED
    BY <1>6, <2>1, <2>2, Zenon DEF m
<1> QED
  BY <1>12, <1>13, <1>14

LEMMA ZeroNextIs ==
  ASSUME NEW s \in StateBits, NEW word \in Nat
  PROVE  /\ ZeroNext(s, word) \in BOOLEAN
         /\ ZeroNext(s, word) =
              IF Writes(word) THEN Result(Decoded(s), word) = 0 ELSE Decoded(s).zero
<1> DEFINE e == Enable(word)
           z == IsZero(Res(s, word))
           old == s[ZERO_STATE_OFFSET]
<1>1. e \in BOOLEAN /\ (e <=> Writes(word))
  BY EnableIs
<1>2. z \in BOOLEAN /\ (z <=> Result(Decoded(s), word) = 0)
  <2> DEFINE r == Res(s, word)
  <2>1. r \in Bits /\ Number(r) = Result(Decoded(s), word)
    BY ResIs
  <2> HIDE DEF r
  <2>2. IsZero(r) \in BOOLEAN /\ (IsZero(r) <=> Number(r) = 0)
    BY <2>1, ZeroIs
  <2> QED
    BY <2>1, <2>2, Zenon DEF r
<1>3. old \in BOOLEAN /\ Decoded(s).zero = old
  BY StateIs, DecodedIs
<1>4. ZeroNext(s, word) = mux(e, old, z)
  BY Zenon DEF ZeroNext, zero_after
<1> HIDE DEF e, z, old
<1>5. mux(e, old, z) = IF e THEN z ELSE old
  BY <1>1, <1>2, <1>3, MuxIs
<1>6. (Result(Decoded(s), word) = 0) \in BOOLEAN
  OBVIOUS
<1>7. z = (Result(Decoded(s), word) = 0)
  BY <1>2, <1>6
<1>8. CASE e
  BY <1>1, <1>2, <1>4, <1>5, <1>7, <1>8, Zenon
<1>9. CASE ~e
  BY <1>1, <1>3, <1>4, <1>5, <1>9, Zenon
<1> QED
  BY <1>8, <1>9

LEMMA StopIs ==
  ASSUME NEW s \in StateBits, NEW word \in Nat
  PROVE  Stop(s, word) \in BOOLEAN /\ Stop(s, word) = Stops(Decoded(s), word)
<1> DEFINE x == Operation(word)[HLT]
           h == s[HALT_STATE_OFFSET]
<1>1. x \in BOOLEAN /\ (x <=> opcode(word) = HLT)
  <2>1. 15 \in 1 .. 15
    OBVIOUS
  <2> QED
    BY <2>1, OperationIs DEF HLT
<1>2. h \in BOOLEAN /\ Decoded(s).halt = h
  BY StateIs, DecodedIs
<1>3. Stop(s, word) = or(h, x)
  BY Zenon DEF Stop, stopped
<1>4. Stops(Decoded(s), word) = (Decoded(s).halt \/ opcode(word) = HLT)
  BY Zenon DEF Stops
<1> HIDE DEF x, h
<1>5. or(h, x) \in BOOLEAN /\ (or(h, x) <=> h \/ x)
  BY <1>1, <1>2 DEF or, not, nand
<1>6. Stops(Decoded(s), word) \in BOOLEAN
  BY <1>4
<1> QED
  BY <1>1, <1>2, <1>3, <1>4, <1>5, <1>6

LEMMA TakenIs ==
  ASSUME NEW s \in StateBits, NEW word \in Nat
  PROVE  Taken(s, word) \in BOOLEAN /\ (Taken(s, word) <=> Branches(Decoded(s), word))
<1> DEFINE x(k) == Operation(word)[k]
           z == s[ZERO_STATE_OFFSET]
           c == s[CARRY_STATE_OFFSET]
           o == opcode(word)
           v == <<x(JMP), and(x(JZ), z), and(x(JNZ), not(z)), and(x(JC), c), and(x(JNC), not(c))>>
<1>1. /\ x(JMP) \in BOOLEAN /\ (x(JMP) <=> o = JMP)
      /\ x(JZ) \in BOOLEAN /\ (x(JZ) <=> o = JZ)
      /\ x(JNZ) \in BOOLEAN /\ (x(JNZ) <=> o = JNZ)
      /\ x(JC) \in BOOLEAN /\ (x(JC) <=> o = JC)
      /\ x(JNC) \in BOOLEAN /\ (x(JNC) <=> o = JNC)
  <2>1. 8 \in 1 .. 15 /\ 9 \in 1 .. 15 /\ 10 \in 1 .. 15 /\ 11 \in 1 .. 15 /\ 12 \in 1 .. 15
    OBVIOUS
  <2>2. \A k \in 1 .. 15 : x(k) \in BOOLEAN /\ (x(k) <=> o = k)
    BY OperationIs
  <2> HIDE DEF x
  <2> QED
    BY <2>1, <2>2, Zenon DEF JMP, JZ, JNZ, JC, JNC
<1>2. /\ z \in BOOLEAN /\ Decoded(s).zero = z
      /\ c \in BOOLEAN /\ Decoded(s).carry = c
  BY StateIs, DecodedIs
<1>3. Taken(s, word) = reduce_or(v)
  BY Zenon DEF Taken, take_branch
<1> HIDE DEF x, z, c, o
<1>4. /\ and(x(JZ), z) \in BOOLEAN /\ (and(x(JZ), z) <=> x(JZ) /\ z)
      /\ and(x(JNZ), not(z)) \in BOOLEAN /\ (and(x(JNZ), not(z)) <=> x(JNZ) /\ ~z)
      /\ and(x(JC), c) \in BOOLEAN /\ (and(x(JC), c) <=> x(JC) /\ c)
      /\ and(x(JNC), not(c)) \in BOOLEAN /\ (and(x(JNC), not(c)) <=> x(JNC) /\ ~c)
  BY <1>1, <1>2 DEF and, not, nand
<1> DEFINE v1 == x(JMP)
           v2 == and(x(JZ), z)
           v3 == and(x(JNZ), not(z))
           v4 == and(x(JC), c)
           v5 == and(x(JNC), not(c))
<1>5. v = <<v1, v2, v3, v4, v5>>
  BY Zenon
<1> HIDE DEF v, v1, v2, v3, v4, v5
<1>6. /\ Len(v) = 5 /\ 5 \in Nat
      /\ v[1] = v1 /\ v[2] = v2 /\ v[3] = v3 /\ v[4] = v4 /\ v[5] = v5
      /\ \A k : k \in 1 .. 5 <=> k = 1 \/ k = 2 \/ k = 3 \/ k = 4 \/ k = 5
  BY <1>5
<1>7. \A k \in 1 .. 5 : v[k] \in BOOLEAN
  BY <1>1, <1>4, <1>6, Zenon DEF v1, v2, v3, v4, v5
<1>8. /\ reduce_or(v) \in BOOLEAN
      /\ reduce_or(v) <=> \E k \in 1 .. 5 : v[k]
  BY <1>6, <1>7, ReduceOrIs, Zenon
<1>9. (\E k \in 1 .. 5 : v[k]) <=> v1 \/ v2 \/ v3 \/ v4 \/ v5
  BY <1>6, Zenon
<1>10. Branches(Decoded(s), word) <=>
         \/ o = JMP \/ (o = JZ /\ Decoded(s).zero) \/ (o = JNZ /\ ~Decoded(s).zero)
         \/ (o = JC /\ Decoded(s).carry) \/ (o = JNC /\ ~Decoded(s).carry)
  BY Zenon DEF Branches, o
<1> QED
  BY <1>1, <1>2, <1>3, <1>4, <1>8, <1>9, <1>10, Zenon DEF v1, v2, v3, v4, v5

(* The adder with One on its second lines counts.                           *)
LEMMA OneIs == One \in Bits /\ Number(One) = 1 % Size
<1>1. One \in Bits
  BY DEF One, Bits
<1>2. ASSUME NEW i \in Bit PROVE (IF One[i] THEN 1 ELSE 0) = BitOf(1, i)
  <2>1. i \in Nat
    BY WordAssumption DEF Bit
  <2>2. One[i] <=> i = 0
    BY DEF One
  <2>3. CASE i = 0
    <3>1. (1 \div 1) % 2 = 1
      OBVIOUS
    <3>2. BitOf(1, 0) = 1
      BY <3>1, PowerZero, Zenon DEF BitOf
    <3> QED
      BY <2>2, <2>3, <3>2, Zenon
  <2>4. CASE i # 0
    <3> DEFINE p == 2 ^ (i - 1)
               q == 2 ^ i
    <3>1. i - 1 \in Nat /\ (i - 1) + 1 = i
      BY <2>1, <2>4
    <3>2. p \in Nat /\ p > 0
      BY <3>1, PowerIs
    <3>3. q = 2 * p
      <4>1. 2 ^ ((i - 1) + 1) = 2 * 2 ^ (i - 1)
        BY <3>1, PowerDoubles
      <4> QED
        BY <3>1, <4>1, Zenon
    <3> HIDE DEF p, q
    <3>4. q \in Nat /\ q > 1
      BY <3>2, <3>3
    <3>5. 1 \div q = 0
      <4>1. 1 \in Nat /\ 0 \in Nat /\ q > 0 /\ 1 < q /\ q * 0 + 1 = 1
        BY <3>4
      <4>2. (q * 0 + 1) \div q = 0
        BY <3>4, <4>1, Division
      <4> QED
        BY <4>1, <4>2, Zenon
    <3>6. 0 % 2 = 0
      OBVIOUS
    <3> QED
      BY <2>2, <2>4, <3>5, <3>6, Zenon DEF BitOf, q
  <2> QED
    BY <2>3, <2>4
<1>3. DigitsOf(One) = BitsOf(1)
  BY <1>2, Zenon DEF DigitsOf, BitsOf
<1>4. 1 \in Nat
  OBVIOUS
<1> QED
  BY <1>1, <1>3, <1>4, NumberOf, ValueOfBits, Zenon

LEMMA IncrementModulo ==
  ASSUME NEW n \in Nat, n > 0, NEW x \in 0 .. n - 1
  PROVE  (x + (1 % n)) % n = (x + 1) % n
<1>1. CASE n = 1
  BY <1>1
<1>2. CASE n > 1
  <2>1. 1 % n = 1
    <3>1. (n * 0 + 1) % n = 1 /\ n * 0 + 1 = 1
      BY <1>2, Division
    <3> QED
      BY <3>1, Zenon
  <2> QED
    BY <2>1, Zenon
<1> QED
  BY <1>1, <1>2

LEMMA PcNextIs ==
  ASSUME NEW s \in StateBits, NEW word \in Nat
  PROVE  /\ PcNext(s, word) \in Bits
         /\ Number(PcNext(s, word)) =
              IF Stops(Decoded(s), word) THEN Decoded(s).pc
              ELSE IF Branches(Decoded(s), word) THEN immediate_of(word)
              ELSE (Decoded(s).pc + 1) % Size
<1> DEFINE pc == WordAt(s, PC_STATE_OFFSET)
           inc == add_word(pc, One, FALSE).sum
           i == Wired(word)
           x == Stop(s, word)
           b == Taken(s, word)
           inner == mux_word(b, inc, i)
<1>1. pc \in Bits /\ Number(pc) = Decoded(s).pc
  <2>1. PC_STATE_OFFSET \in StateWords
    BY DEF StateWords
  <2> QED
    BY <2>1, StateIs, DecodedIs
<1>2. inc \in Bits /\ Number(inc) = (Number(pc) + 1) % Size
  <2> DEFINE n == Number(pc)
  <2>1. n \in 0 .. Size - 1
    BY NumberOf DEF Word
  <2>2. inc \in Bits /\ Number(inc) = (n + Number(One) + 0) % Size
    <3> HIDE DEF pc
    <3> QED
      BY <1>1, OneIs, AddsModulo
  <2> HIDE DEF n
  <2>3. Number(One) = 1 % Size /\ 1 % Size \in Nat
    BY OneIs, SizeIs
  <2>4. n + (1 % Size) + 0 = n + (1 % Size)
    BY <2>1, <2>3, SizeIs
  <2>5. (n + (1 % Size)) % Size = (n + 1) % Size
    BY <2>1, SizeIs, IncrementModulo
  <2> QED
    BY <2>2, <2>3, <2>4, <2>5, Zenon DEF n
<1>3. i \in Bits /\ Number(i) = immediate_of(word)
  BY ImmediateIs
<1>4. x \in BOOLEAN /\ x = Stops(Decoded(s), word)
  BY StopIs
<1>5. b \in BOOLEAN /\ (b <=> Branches(Decoded(s), word))
  BY TakenIs
<1>6. PcNext(s, word) = mux_word(x, inner, pc)
  BY Zenon DEF PcNext, next_pc
<1> HIDE DEF pc, inc, i, x, b
<1>7. inner = IF b THEN i ELSE inc
  BY <1>2, <1>3, <1>5, MuxWordIs
<1>8. inner \in Bits
  BY <1>2, <1>3, <1>7
<1> HIDE DEF inner
<1>9. mux_word(x, inner, pc) = IF x THEN pc ELSE inner
  BY <1>1, <1>4, <1>8, MuxWordIs
<1>10. CASE x
  BY <1>1, <1>4, <1>6, <1>9, <1>10, Zenon
<1>11. CASE ~x
  <2>1. PcNext(s, word) = inner
    BY <1>6, <1>9, <1>11, Zenon
  <2>2. ~Stops(Decoded(s), word)
    BY <1>4, <1>11, Zenon
  <2>3. Number(inner) = IF Branches(Decoded(s), word) THEN immediate_of(word)
                        ELSE (Decoded(s).pc + 1) % Size
    <3>1. CASE b
      BY <1>3, <1>5, <1>7, <3>1, Zenon
    <3>2. CASE ~b
      BY <1>1, <1>2, <1>5, <1>7, <3>2, Zenon
    <3> QED
      BY <3>1, <3>2
  <2> QED
    BY <1>8, <2>1, <2>2, <2>3, Zenon
<1> QED
  BY <1>10, <1>11

LEMMA OutNextIs ==
  ASSUME NEW s \in StateBits, NEW word \in Nat
  PROVE  /\ OutNext(s, word) \in Bits
         /\ Number(OutNext(s, word)) =
              IF opcode(word) = OUT THEN Decoded(s).reg[dst_selector(word)] ELSE Decoded(s).out
<1> DEFINE x == Operation(word)[OUT]
           old == WordAt(s, OUT_STATE_OFFSET)
           d == Dst(s, word)
<1>1. x \in BOOLEAN /\ (x <=> opcode(word) = OUT)
  <2>1. 13 \in 1 .. 15
    OBVIOUS
  <2> QED
    BY <2>1, OperationIs DEF OUT
<1>2. old \in Bits /\ Number(old) = Decoded(s).out
  <2>1. OUT_STATE_OFFSET \in StateWords
    BY DEF StateWords
  <2> QED
    BY <2>1, StateIs, DecodedIs
<1>3. d \in Bits /\ Number(d) = Decoded(s).reg[dst_selector(word)]
  BY OperandsAre
<1>4. OutNext(s, word) = mux_word(x, old, d)
  BY Zenon DEF OutNext
<1> HIDE DEF x, old, d
<1>5. mux_word(x, old, d) = IF x THEN d ELSE old
  BY <1>1, <1>2, <1>3, MuxWordIs
<1>6. CASE x
  BY <1>1, <1>3, <1>4, <1>5, <1>6, Zenon
<1>7. CASE ~x
  BY <1>1, <1>2, <1>4, <1>5, <1>7, Zenon
<1> QED
  BY <1>6, <1>7

LEMMA RegisterNextIs ==
  ASSUME NEW s \in StateBits, NEW word \in Nat, NEW r \in Register
  PROVE  /\ RegisterNext(s, word)[r] \in Bits
         /\ Number(RegisterNext(s, word)[r]) =
              IF Writes(word) /\ r = dst_selector(word) THEN Result(Decoded(s), word)
              ELSE Decoded(s).reg[r]
<1> DEFINE e == Enable(word)
           q == eq_const(InputBits(word, 5, 6), r)
           old == Registers(s)[r]
           new == Res(s, word)
           x == and(e, q)
<1>1. e \in BOOLEAN /\ (e <=> Writes(word))
  BY EnableIs
<1>2. q \in BOOLEAN /\ (q <=> r = dst_selector(word))
  BY SelectorBits, TwoBitsEqual
<1>3. old \in Bits /\ Number(old) = Decoded(s).reg[r]
  BY RegistersAre, DecodedIs
<1>4. new \in Bits /\ Number(new) = Result(Decoded(s), word)
  BY ResIs
<1>5. RegisterNext(s, word)[r] = mux_word(x, old, new)
  BY Zenon DEF RegisterNext
<1> HIDE DEF e, q, old, new
<1>6. x \in BOOLEAN /\ (x <=> e /\ q)
  BY <1>1, <1>2 DEF and, not, nand
<1> HIDE DEF x
<1>7. mux_word(x, old, new) = IF x THEN new ELSE old
  BY <1>3, <1>4, <1>6, MuxWordIs
<1>8. CASE x
  BY <1>1, <1>2, <1>4, <1>5, <1>6, <1>7, <1>8, Zenon
<1>9. CASE ~x
  BY <1>1, <1>2, <1>3, <1>5, <1>6, <1>7, <1>9, Zenon
<1> QED
  BY <1>8, <1>9

(* A tick of the gates is the instruction.                                  *)
LEMMA TickExecutes ==
  ASSUME NEW s \in StateBits, NEW word \in Nat
  PROVE  /\ tick(s, word) \in StateBits
         /\ Decoded(tick(s, word)) = Execute(Decoded(s), word)
<1> DEFINE r == RegisterNext(s, word)
           p == PcNext(s, word)
           z == ZeroNext(s, word)
           c == CarryNext(s, word)
           h == Stop(s, word)
           o == OutNext(s, word)
           t == Latches(r, p, z, c, h, o)
           m == Decoded(s)
           n == Execute(m, word)
<1>1. tick(s, word) = t
  BY TickIs
<1>2. \A k \in Register :
        /\ r[k] \in Bits
        /\ Number(r[k]) = IF Writes(word) /\ k = dst_selector(word) THEN Result(m, word)
                          ELSE m.reg[k]
  BY RegisterNextIs
<1>3. /\ p \in Bits
      /\ Number(p) = IF Stops(m, word) THEN m.pc
                     ELSE IF Branches(m, word) THEN immediate_of(word) ELSE (m.pc + 1) % Size
  BY PcNextIs
<1>4. z \in BOOLEAN /\ z = IF Writes(word) THEN Result(m, word) = 0 ELSE m.zero
  BY ZeroNextIs
<1>5. c \in BOOLEAN /\ c = CarryAfter(m, word)
  BY CarryNextIs
<1>6. h \in BOOLEAN /\ h = Stops(m, word)
  BY StopIs
<1>7. /\ o \in Bits
      /\ Number(o) = IF opcode(word) = OUT THEN m.reg[dst_selector(word)] ELSE m.out
  BY OutNextIs
<1>8. n = [reg |-> [k \in Register |->
                     IF Writes(word) /\ k = dst_selector(word) THEN Result(m, word) ELSE m.reg[k]],
           pc |-> IF Stops(m, word) THEN m.pc
                  ELSE IF Branches(m, word) THEN immediate_of(word) ELSE (m.pc + 1) % Size,
           zero |-> IF Writes(word) THEN Result(m, word) = 0 ELSE m.zero,
           carry |-> CarryAfter(m, word),
           halt |-> Stops(m, word),
           out |-> IF opcode(word) = OUT THEN m.reg[dst_selector(word)] ELSE m.out]
  BY Zenon DEF Execute
<1> HIDE DEF r, p, z, c, h, o, m, n
<1>9. /\ t \in StateBits
      /\ \A k \in Register : WordAt(t, W * k) = r[k]
      /\ WordAt(t, PC_STATE_OFFSET) = p /\ WordAt(t, OUT_STATE_OFFSET) = o
      /\ t[ZERO_STATE_OFFSET] = z /\ t[CARRY_STATE_OFFSET] = c /\ t[HALT_STATE_OFFSET] = h
  BY <1>2, <1>3, <1>4, <1>5, <1>6, <1>7, LatchesRead
<1> HIDE DEF t
<1> DEFINE d == Decoded(t)
<1>10. /\ \A k \in Register : d.reg[k] = Number(WordAt(t, W * k))
       /\ d.pc = Number(WordAt(t, PC_STATE_OFFSET))
       /\ d.zero = t[ZERO_STATE_OFFSET] /\ d.carry = t[CARRY_STATE_OFFSET]
       /\ d.halt = t[HALT_STATE_OFFSET] /\ d.out = Number(WordAt(t, OUT_STATE_OFFSET))
       /\ d = [reg |-> [k \in Register |-> d.reg[k]], pc |-> d.pc, zero |-> d.zero,
               carry |-> d.carry, halt |-> d.halt, out |-> d.out]
  BY DecodedIs
<1> HIDE DEF d
<1>11. /\ \A k \in Register :
            d.reg[k] = IF Writes(word) /\ k = dst_selector(word) THEN Result(m, word) ELSE m.reg[k]
       /\ d.pc = IF Stops(m, word) THEN m.pc
                 ELSE IF Branches(m, word) THEN immediate_of(word) ELSE (m.pc + 1) % Size
       /\ d.out = IF opcode(word) = OUT THEN m.reg[dst_selector(word)] ELSE m.out
  BY <1>2, <1>3, <1>7, <1>9, <1>10, Zenon
<1>12. d = n
  BY <1>4, <1>5, <1>6, <1>8, <1>9, <1>10, <1>11, Zenon
<1> QED
  BY <1>1, <1>9, <1>12, Zenon DEF d, n, m

LEMMA ResetIsBits == ResetLatches \in StateBits
BY DEF ResetLatches, StateBits

LEMMA InputsAreWords == Inputs \subseteq Nat
<1>1. 0 .. 256 * Size - 1 \subseteq Nat
  BY SizeIs
<1> QED
  BY <1>1, InputsAssumption

(* Every latch holds a truth value, whatever words were on the inputs.      *)
LEMMA LatchesAreBits == FreeRunning => []StateOK
<1>1. PowerOn => StateOK
  BY ResetIsBits DEF PowerOn, StateOK
<1>2. StateOK /\ [AnyTick]_state => StateOK'
  BY InputsAreWords, TickExecutes DEF StateOK, AnyTick
<1> QED
  BY <1>1, <1>2, PTL DEF FreeRunning

(* Whatever word is on the inputs of build_cpu's circuit, at every width,   *)
(* the gates do to the latches what the instruction does to the machine.    *)
THEOREM CircuitExecutes == FreeRunning => []TickIsExecute
<1>1. StateOK => TickIsExecute
  BY InputsAreWords, TickExecutes DEF StateOK, TickIsExecute
<1> QED
  BY <1>1, LatchesAreBits, PTL

(* Once the halt latch is set it stays set and the program counter keeps    *)
(* its value, at every tick, for every word width and every instruction.    *)
THEOREM HaltIsFinal == FreeRunning => HaltStays
<1>1. StateOK /\ [AnyTick]_state
        => [state[HALT_STATE_OFFSET] =>
              /\ state'[HALT_STATE_OFFSET]
              /\ WordAt(state', PC_STATE_OFFSET) = WordAt(state, PC_STATE_OFFSET)]_state
  <2> SUFFICES ASSUME StateOK, NEW word \in Inputs, state' = tick(state, word),
                      state[HALT_STATE_OFFSET]
               PROVE  /\ state'[HALT_STATE_OFFSET]
                      /\ WordAt(state', PC_STATE_OFFSET) = WordAt(state, PC_STATE_OFFSET)
    BY DEF AnyTick
  <2> DEFINE m == Decoded(state)
             n == Decoded(state')
  <2>1. state \in StateBits /\ state' \in StateBits /\ n = Execute(m, word)
    BY InputsAreWords, TickExecutes DEF StateOK
  <2>2. m.halt = state[HALT_STATE_OFFSET] /\ n.halt = state'[HALT_STATE_OFFSET]
    BY DecodedIs
  <2>3. /\ m.pc = Number(WordAt(state, PC_STATE_OFFSET))
        /\ n.pc = Number(WordAt(state', PC_STATE_OFFSET))
    BY DecodedIs
  <2> HIDE DEF m, n
  <2>4. Stops(m, word) = TRUE
    BY <2>2 DEF Stops
  <2>5. n.halt = TRUE /\ n.pc = m.pc
    BY <2>1, <2>4 DEF Execute
  <2>6. PC_STATE_OFFSET \in StateWords
    BY DEF StateWords
  <2>7. WordAt(state', PC_STATE_OFFSET) = WordAt(state, PC_STATE_OFFSET)
    BY <2>1, <2>3, <2>5, <2>6, StateIs, NumberInjective
  <2> QED
    BY <2>2, <2>5, <2>7
<1> QED
  BY <1>1, LatchesAreBits, PTL DEF FreeRunning, HaltStays

-----------------------------------------------------------------------------
(* The host on the circuit: its constants as MCCpuMachine.cfg gives them.   *)
OnCircuit ==
  /\ ResetState = ResetLatches
  /\ \A s, word : Tick(s, word) = tick(s, word)
  /\ \A s : Pc(s) = pc_of(s) /\ Halted(s) = halted(s) /\ Out(s) = output_of(s)

OfBits == cpu \in StateBits /\ path \in Seq(StateBits)

DecodedPath == [i \in DOMAIN path |-> Decoded(path[i])]

(* A machine without a one is the machine after reset.                      *)
LEMMA DecodedReset == Decoded(ResetLatches) = ResetCpu
<1> DEFINE s == ResetLatches
           d == Decoded(s)
<1>1. s \in StateBits
  BY ResetIsBits
<1>2. \A i \in 0 .. CPU_STATE_BITS - 1 : s[i] = FALSE
  BY DEF ResetLatches
<1>3. W \in Nat
  BY WordAssumption
<1> HIDE DEF s
<1>4. ASSUME NEW offset \in StateWords PROVE Number(WordAt(s, offset)) = 0
  <2> DEFINE l == WordAt(s, offset)
  <2>1. l \in Bits
    BY <1>1, StateIs
  <2>2. ASSUME NEW bit \in Bit PROVE ~l[bit]
    <3>1. offset + bit \in 0 .. CPU_STATE_BITS - 1
      <4>1. \A r \in Register : W * r \in 0 .. 3 * W
        BY <1>3 DEF Register
      <4>2. offset \in 0 .. 5 * W + 3
        BY <1>3, <4>1 DEF StateWords, PC_STATE_OFFSET, OUT_STATE_OFFSET
      <4> QED
        BY <1>3, <4>2 DEF Bit, CPU_STATE_BITS
    <3>2. l[bit] = s[offset + bit]
      BY DEF WordAt
    <3> QED
      BY <1>2, <3>1, <3>2, Zenon
  <2> HIDE DEF l
  <2> QED
    BY <2>1, <2>2, NumberZero DEF l
<1>5. /\ PC_STATE_OFFSET \in StateWords /\ OUT_STATE_OFFSET \in StateWords
      /\ \A r \in Register : W * r \in StateWords
  BY DEF StateWords
<1>6. /\ s[ZERO_STATE_OFFSET] = FALSE /\ s[CARRY_STATE_OFFSET] = FALSE
      /\ s[HALT_STATE_OFFSET] = FALSE
  <2>1. /\ ZERO_STATE_OFFSET \in 0 .. CPU_STATE_BITS - 1
        /\ CARRY_STATE_OFFSET \in 0 .. CPU_STATE_BITS - 1
        /\ HALT_STATE_OFFSET \in 0 .. CPU_STATE_BITS - 1
    BY <1>3 DEF ZERO_STATE_OFFSET, CARRY_STATE_OFFSET, HALT_STATE_OFFSET, CPU_STATE_BITS
  <2> QED
    BY <1>2, <2>1, Zenon
<1>7. /\ \A r \in Register : d.reg[r] = Number(WordAt(s, W * r))
      /\ d.pc = Number(WordAt(s, PC_STATE_OFFSET))
      /\ d.zero = s[ZERO_STATE_OFFSET] /\ d.carry = s[CARRY_STATE_OFFSET]
      /\ d.halt = s[HALT_STATE_OFFSET] /\ d.out = Number(WordAt(s, OUT_STATE_OFFSET))
      /\ d = [reg |-> [r \in Register |-> d.reg[r]], pc |-> d.pc, zero |-> d.zero,
              carry |-> d.carry, halt |-> d.halt, out |-> d.out]
  BY DecodedIs
<1> HIDE DEF d
<1>8. /\ \A r \in Register : d.reg[r] = 0
      /\ d.pc = 0 /\ d.zero = FALSE /\ d.carry = FALSE /\ d.halt = FALSE /\ d.out = 0
  BY <1>4, <1>5, <1>6, <1>7
<1> QED
  BY <1>7, <1>8, Zenon DEF ResetCpu, d, s

LEMMA DecodedSame ==
  ASSUME OnCircuit, NEW s
  PROVE  /\ Pc(s) = IsaPc(Decoded(s)) /\ Halted(s) = IsaHalted(Decoded(s))
         /\ Out(s) = IsaOut(Decoded(s))
<1>1. Pc(s) = pc_of(s) /\ Halted(s) = halted(s) /\ Out(s) = output_of(s)
  BY DEF OnCircuit
<1>2. /\ Decoded(s).pc = pc_of(s) /\ Decoded(s).halt = halted(s)
      /\ Decoded(s).out = output_of(s)
  BY DEF Decoded
<1> QED
  BY <1>1, <1>2, Zenon DEF IsaPc, IsaHalted, IsaOut

LEMMA FetchedIsWord ==
  ASSUME OnCircuit, Basis, Running
  PROVE  Fetched \in Nat
<1>1. call \in CallRecord
  BY SessionsAssumption DEF Basis, Calls
<1>2. call.program \in Seq(Nat)
  BY <1>1 DEF CallRecord
<1>3. Pc(cpu) \in Nat
  <2>1. Pc(cpu) = Number(WordAt(cpu, PC_STATE_OFFSET))
    BY ReadByteIs DEF OnCircuit, pc_of
  <2> QED
    BY <2>1, NumberOf, SizeIs DEF Word
<1> QED
  BY <1>2, <1>3 DEF Fetched, Fetch, HLT

(* Everything but the tick is the same for the host on instructions.        *)
LEMMA SameHost ==
  ASSUME OnCircuit
  PROVE  /\ OnIsa!StepHalts <=> StepHalts
         /\ OnIsa!StepFails <=> StepFails
         /\ OnIsa!StepTicks <=> StepTicks
         /\ UNCHANGED machine => UNCHANGED OnIsa!machine
         /\ \A s, word : OnIsa!Shown(word, Decoded(s)) = Shown(word, s)
         /\ \A r, c : OnIsa!Return(r, c) <=> Return(r, c)
         /\ \A c : OnIsa!Continue(c) <=> Continue(c)
         /\ \A kind : OnIsa!Pass(kind) <=> Pass(kind)
<1>1. IsaHalted(Decoded(cpu)) = Halted(cpu)
  BY DecodedSame, Zenon
<1>2. /\ OnIsa!StepHalts <=> StepHalts
      /\ OnIsa!StepFails <=> StepFails
      /\ OnIsa!StepTicks <=> StepTicks
  BY <1>1, Zenon DEF OnIsa!StepHalts, OnIsa!StepFails, OnIsa!StepTicks, StepHalts, StepFails,
     StepTicks
<1>3. UNCHANGED machine => UNCHANGED OnIsa!machine
  BY DEF machine, OnIsa!machine
<1>4. \A s, word : OnIsa!Shown(word, Decoded(s)) = Shown(word, s)
  BY DecodedSame, Zenon DEF OnIsa!Shown, OnIsa!opcode, OnIsa!OUT, Shown, opcode, OUT
<1>5. /\ \A r, c : OnIsa!Return(r, c) <=> Return(r, c)
      /\ \A c : OnIsa!Continue(c) <=> Continue(c)
  BY Zenon DEF OnIsa!Return, OnIsa!Continue, Return, Continue
<1>6. \A kind : OnIsa!Pass(kind) <=> Pass(kind)
  BY Zenon DEF OnIsa!Pass, OnIsa!callers, Pass, callers
<1> QED
  BY <1>2, <1>3, <1>4, <1>5, <1>6, Zenon

LEMMA SameFetch ==
  ASSUME OnCircuit
  PROVE  OnIsa!Fetched = Fetched
<1>1. IsaPc(Decoded(cpu)) = Pc(cpu)
  BY DecodedSame, Zenon
<1>2. OnIsa!Fetched = OnIsa!Fetch(call.program, Pc(cpu))
  BY <1>1, Zenon DEF OnIsa!Fetched
<1> QED
  BY <1>2, Zenon DEF OnIsa!Fetch, OnIsa!HLT, Fetched, Fetch, HLT

LEMMA AdvanceIsExecute ==
  ASSUME OnCircuit, Basis, Running, OfBits, Advance
  PROVE  OfBits' /\ OnIsa!Advance
<1> DEFINE next == Tick(cpu, Fetched)
           m == Decoded(cpu)
<1>1. /\ cpu' = next /\ ticks' = ticks + 1 /\ path' = Append(path, next)
      /\ shown' = shown \o Shown(Fetched, next)
  BY DEF Advance
<1>2. Fetched \in Nat
  BY FetchedIsWord
<1>3. next \in StateBits /\ Decoded(next) = Execute(m, Fetched)
  <2>1. next = tick(cpu, Fetched)
    BY Zenon DEF OnCircuit
  <2> QED
    BY <1>2, <2>1, TickExecutes DEF OfBits
<1> HIDE DEF next
<1>4. OfBits'
  BY <1>1, <1>3, AppendProperties DEF OfBits
<1>5. OnIsa!Fetched = Fetched
  BY SameFetch
<1>6. OnIsa!Shown(Fetched, Decoded(next)) = Shown(Fetched, next)
  BY SameHost, Zenon
<1>7. DecodedPath' = Append(DecodedPath, Decoded(next))
  <2>1. path \in Seq(StateBits) /\ Len(path) \in Nat /\ DOMAIN path = 1 .. Len(path)
    BY DEF OfBits
  <2>2. /\ path' \in Seq(StateBits) /\ Len(path') = Len(path) + 1
        /\ \A i \in 1 .. Len(path) : path'[i] = path[i]
        /\ path'[Len(path) + 1] = next
    BY <1>1, <1>3, <2>1, AppendProperties
  <2>3. DOMAIN path' = 1 .. Len(path) + 1
    BY <2>2
  <2> DEFINE D(s) == Decoded(s)
  <2>4. DecodedPath = [i \in 1 .. Len(path) |-> D(path[i])]
    BY <2>1, Zenon DEF DecodedPath
  <2>5. DecodedPath' = [i \in 1 .. Len(path) + 1 |-> D(path'[i])]
    BY <2>3, Zenon DEF DecodedPath
  <2> HIDE DEF D
  <2>6. Append(DecodedPath, D(next)) = [i \in 1 .. Len(path) + 1 |-> D(path'[i])]
    BY <2>1, <2>2, <2>4
  <2> QED
    BY <2>5, <2>6, Zenon DEF D
<1> QED
  BY <1>1, <1>3, <1>4, <1>5, <1>6, <1>7, Zenon DEF OnIsa!Advance, DecodedPath

(* Each action of the host on the circuit is that action on instructions.   *)
LEMMA OnIsaUnchanged ==
  ASSUME UNCHANGED machine
  PROVE  OfBits => OfBits'
BY DEF machine, OfBits

LEMMA StepOnIsa ==
  ASSUME OnCircuit, Basis, OfBits, Step
  PROVE  OfBits' /\ OnIsa!Step
<1>1. Running /\ call.kind = "step" /\ UNCHANGED <<OnIsa!callers, passes>>
  BY DEF Step, Running, callers, OnIsa!callers
<1>2. CASE StepHalts /\ UNCHANGED machine /\ Return("Ok", <<>>)
  BY <1>1, <1>2, OnIsaUnchanged, SameHost, Zenon DEF OnIsa!Step, Running
<1>3. CASE StepFails /\ UNCHANGED machine /\ Return("Vm", <<>>)
  BY <1>1, <1>3, OnIsaUnchanged, SameHost, Zenon DEF OnIsa!Step, Running
<1>4. CASE StepTicks /\ Advance /\ Return("Ok", Shown(Fetched, cpu'))
  <2> DEFINE x == Shown(Fetched, cpu')
             y == OnIsa!Shown(OnIsa!Fetched, Decoded(cpu'))
  <2>1. OfBits' /\ OnIsa!Advance
    BY <1>1, <1>4, AdvanceIsExecute
  <2>2. y = x
    BY SameHost, SameFetch, Zenon
  <2>3. OnIsa!Return("Ok", x)
    BY <1>4, SameHost, Zenon
  <2> HIDE DEF x
  <2>4. OnIsa!Return("Ok", y)
    BY <2>2, <2>3, Zenon
  <2> QED
    BY <1>1, <1>4, <2>1, <2>4, SameHost, Zenon DEF OnIsa!Step, Running
<1> QED
  BY <1>2, <1>3, <1>4 DEF Step

LEMMA HaltPassOnIsa ==
  ASSUME OnCircuit, Basis, OfBits, HaltPass
  PROVE  OfBits' /\ OnIsa!HaltPass
<1>1. Running /\ OnIsa!Pass("run_until_halt")
  BY SameHost, Zenon DEF HaltPass, Pass, Running
<1>2. CASE StepHalts /\ UNCHANGED machine /\ Return("Ok", outputs)
  BY <1>1, <1>2, OnIsaUnchanged, SameHost, Zenon DEF OnIsa!HaltPass
<1>3. CASE StepFails /\ UNCHANGED machine /\ Return("Vm", outputs)
  BY <1>1, <1>3, OnIsaUnchanged, SameHost, Zenon DEF OnIsa!HaltPass
<1>4. CASE StepTicks /\ Advance /\ Continue(outputs \o Shown(Fetched, cpu'))
  <2> DEFINE x == Shown(Fetched, cpu')
             y == OnIsa!Shown(OnIsa!Fetched, Decoded(cpu'))
  <2>1. OfBits' /\ OnIsa!Advance
    BY <1>1, <1>4, AdvanceIsExecute
  <2>2. y = x
    BY SameHost, SameFetch, Zenon
  <2>3. OnIsa!Continue(outputs \o x)
    BY <1>4, SameHost, Zenon
  <2> HIDE DEF x
  <2>4. OnIsa!Continue(outputs \o y)
    BY <2>2, <2>3, Zenon
  <2> QED
    BY <1>1, <1>4, <2>1, <2>4, SameHost, Zenon DEF OnIsa!HaltPass
<1> QED
  BY <1>2, <1>3, <1>4 DEF HaltPass

LEMMA OutputsPassOnIsa ==
  ASSUME OnCircuit, Basis, OfBits, OutputsPass
  PROVE  OfBits' /\ OnIsa!OutputsPass
<1>1. Running /\ OnIsa!Pass("run_until_outputs")
  BY SameHost, Zenon DEF OutputsPass, Pass, Running
<1>2. CASE StepHalts /\ UNCHANGED machine /\ Continue(outputs)
  BY <1>1, <1>2, OnIsaUnchanged, SameHost, Zenon DEF OnIsa!OutputsPass
<1>3. CASE StepFails /\ UNCHANGED machine /\ Return("Vm", outputs)
  BY <1>1, <1>3, OnIsaUnchanged, SameHost, Zenon DEF OnIsa!OutputsPass
<1>4. ASSUME StepTicks, Advance,
             IF Shown(Fetched, cpu') # <<>> /\ Enough(outputs \o Shown(Fetched, cpu'))
             THEN Return("Ok", outputs \o Shown(Fetched, cpu'))
             ELSE Continue(outputs \o Shown(Fetched, cpu'))
      PROVE  OfBits' /\ OnIsa!OutputsPass
  <2> DEFINE x == Shown(Fetched, cpu')
             y == OnIsa!Shown(OnIsa!Fetched, Decoded(cpu'))
  <2>1. OfBits' /\ OnIsa!Advance
    BY <1>1, <1>4, AdvanceIsExecute
  <2>2. y = x
    BY SameHost, SameFetch, Zenon
  <2>3. IF x # <<>> /\ OnIsa!Enough(outputs \o x) THEN OnIsa!Return("Ok", outputs \o x)
        ELSE OnIsa!Continue(outputs \o x)
    <3>1. OnIsa!Enough(outputs \o x) <=> Enough(outputs \o x)
      BY DEF OnIsa!Enough, Enough
    <3> HIDE DEF x
    <3> QED
      BY <1>4, <3>1, SameHost, Zenon DEF x
  <2> HIDE DEF x
  <2>4. IF y # <<>> /\ OnIsa!Enough(outputs \o y) THEN OnIsa!Return("Ok", outputs \o y)
        ELSE OnIsa!Continue(outputs \o y)
    BY <2>2, <2>3, Zenon
  <2> QED
    BY <1>1, <1>4, <2>1, <2>4, SameHost, Zenon DEF OnIsa!OutputsPass
<1> QED
  BY <1>2, <1>3, <1>4, Zenon DEF OutputsPass

LEMMA GiveUpOnIsa ==
  ASSUME OnCircuit, OfBits, NEW kind, GiveUp(kind)
  PROVE  OfBits' /\ OnIsa!GiveUp(kind)
<1>1. UNCHANGED <<OnIsa!machine, OnIsa!callers, passes>>
  BY SameHost DEF GiveUp, callers, OnIsa!callers
<1>2. /\ result = "running" /\ call.kind = kind /\ passes = call.limit
      /\ UNCHANGED machine /\ OnIsa!Return("TickLimit", outputs)
  BY SameHost, Zenon DEF GiveUp
<1> QED
  BY <1>1, <1>2, OnIsaUnchanged, Zenon DEF OnIsa!GiveUp

LEMMA CallOnIsa ==
  ASSUME OfBits, NEW c \in Calls, Call(c)
  PROVE  OfBits' /\ OnIsa!Call(c)
<1>1. path' = <<cpu>> /\ cpu' = cpu
  BY DEF Call
<1>2. OfBits'
  BY <1>1 DEF OfBits
<1>3. DecodedPath' = <<Decoded(cpu)>>
  <2> DEFINE D(s) == Decoded(s)
  <2>1. DecodedPath' = [i \in DOMAIN <<cpu>> |-> D(<<cpu>>[i])]
    BY <1>1, Zenon DEF DecodedPath
  <2> HIDE DEF D
  <2>2. [i \in DOMAIN <<cpu>> |-> D(<<cpu>>[i])] = <<D(cpu)>>
    OBVIOUS
  <2> QED
    BY <2>1, <2>2, Zenon DEF D
<1>4. Decoded(cpu)' = Decoded(cpu)
  BY <1>1
<1> QED
  BY <1>2, <1>3, <1>4 DEF Call, OnIsa!Call, OnIsa!MaxCalls, MaxCalls, DecodedPath

LEMMA NextOnIsa ==
  ASSUME OnCircuit, Inv, OfBits, [Next]_vars
  PROVE  OfBits' /\ [OnIsa!Next]_(OnIsa!vars)
<1>1. Basis
  BY DEF Inv
<1>2. CASE Step
  BY <1>1, <1>2, StepOnIsa DEF OnIsa!Next, OnIsa!Run
<1>3. CASE HaltPass
  BY <1>1, <1>3, HaltPassOnIsa DEF OnIsa!Next, OnIsa!Run
<1>4. CASE OutputsPass
  BY <1>1, <1>4, OutputsPassOnIsa DEF OnIsa!Next, OnIsa!Run
<1>5. CASE GiveUp("run_until_halt")
  BY <1>5, GiveUpOnIsa DEF OnIsa!Next, OnIsa!Run
<1>6. CASE GiveUp("run_until_outputs")
  BY <1>6, GiveUpOnIsa DEF OnIsa!Next, OnIsa!Run
<1>7. ASSUME NEW c \in Calls, Call(c) PROVE OfBits' /\ OnIsa!Next
  <2>1. c \in OnIsa!Calls
    BY DEF OnIsa!Calls, Calls
  <2> QED
    BY <1>7, <2>1, CallOnIsa DEF OnIsa!Next
<1>8. CASE UNCHANGED vars
  <2>1. OfBits'
    BY <1>8 DEF vars, machine, OfBits
  <2>2. UNCHANGED OnIsa!vars
    BY <1>8 DEF vars, machine, callers, OnIsa!vars, OnIsa!machine, OnIsa!callers
  <2> QED
    BY <2>1, <2>2
<1> QED
  BY <1>2, <1>3, <1>4, <1>5, <1>6, <1>7, <1>8 DEF Next, Run

LEMMA InitOnIsa ==
  ASSUME OnCircuit, Init
  PROVE  OfBits /\ OnIsa!Init
<1>1. cpu = ResetLatches /\ path = <<ResetLatches>>
  BY DEF OnCircuit, Init
<1>2. OfBits
  BY <1>1, ResetIsBits DEF OfBits
<1>3. DecodedPath = <<ResetCpu>> /\ Decoded(cpu) = ResetCpu
  <2> DEFINE D(s) == Decoded(s)
  <2>1. DecodedPath = [i \in DOMAIN <<cpu>> |-> D(<<cpu>>[i])]
    BY <1>1, Zenon DEF DecodedPath
  <2> HIDE DEF D
  <2>2. [i \in DOMAIN <<cpu>> |-> D(<<cpu>>[i])] = <<D(cpu)>>
    OBVIOUS
  <2> QED
    BY <1>1, <2>1, <2>2, DecodedReset, Zenon DEF D
<1> QED
  BY <1>2, <1>3 DEF Init, OnIsa!Init, Idle, OnIsa!Idle, DecodedPath

(* A host that ticks the gates of build_cpu shows its callers what a host   *)
(* that executes instructions shows, for words of every width, all calls    *)
(* and all programs: the CPU circuit implements the instruction set.        *)
THEOREM HostRunsInstructions ==
  ASSUME OnCircuit
  PROVE  Spec => ImplementsIsa
<1>1. Init => OfBits /\ OnIsa!Init
  BY InitOnIsa
<1>2. Inv /\ OfBits /\ [Next]_vars => OfBits' /\ [OnIsa!Next]_(OnIsa!vars)
  BY NextOnIsa
<1> QED
  BY <1>1, <1>2, Invariant, PTL DEF Spec, ImplementsIsa

-----------------------------------------------------------------------------
(* The words of the programs have the fields they are built from.           *)
LEMMA InstructionFields ==
  ASSUME NEW op \in 0 .. 15, NEW dst \in Register, NEW src \in Register, NEW imm \in Word
  PROVE  LET w == instruction(op, dst, src, imm)
         IN  /\ w \in Nat /\ opcode(w) = op /\ dst_selector(w) = dst
             /\ src_selector(w) = src /\ immediate_of(w) = imm
<1> DEFINE w == instruction(op, dst, src, imm)
<1>1. imm \in Nat /\ imm % Size = imm
  <2>1. Size \in Nat /\ Size > 0 /\ imm \in Nat /\ imm < Size
    BY SizeIs DEF Word
  <2> HIDE DEF Size
  <2>2. (Size * 0 + imm) % Size = imm
    BY <2>1, Division
  <2> QED
    BY <2>1, <2>2
<1>2. w = op + 16 * dst + 64 * src + 256 * imm
  <2>1. op % 16 = op /\ dst % 4 = dst /\ src % 4 = src
    BY DEF Register
  <2> QED
    BY <1>1, <2>1, Zenon DEF instruction
<1> HIDE DEF w
<1>3. w \in Nat /\ w % 16 = op /\ (w \div 16) % 4 = dst /\ (w \div 64) % 4 = src
      /\ w \div 256 = imm
  <2>1. op \in 0 .. 15 /\ dst \in 0 .. 3 /\ src \in 0 .. 3 /\ imm \in Nat
    BY <1>1 DEF Register
  <2> DEFINE low == src + 4 * imm
             middle == dst + 4 * low
  <2>2. w = op + 16 * middle /\ middle \in Nat /\ low \in Nat
    BY <1>2, <2>1
  <2>3. low % 4 = src /\ low \div 4 = imm
    BY <2>1
  <2>4. middle % 4 = dst /\ middle \div 4 = low
    <3> HIDE DEF low
    <3> QED
      BY <2>1, <2>2
  <2> HIDE DEF low, middle
  <2>5. w \in Nat /\ w % 16 = op /\ w \div 16 = middle
    BY <2>1, <2>2
  <2>6. w \div 64 = low
    BY <2>1, <2>2, <2>4, <2>5
  <2>7. w \div 256 = imm
    BY <2>1, <2>2, <2>3, <2>6, <2>5
  <2> QED
    BY <2>3, <2>4, <2>5, <2>6, <2>7
<1>4. immediate_of(w) = imm
  BY <1>1, <1>3 DEF immediate_of
<1> QED
  BY <1>3, <1>4 DEF opcode, dst_selector, src_selector, w

(* A running machine at a place, with these registers.                      *)
At(m, pc, x0, x1, x2, x3) ==
  /\ ~m.halt /\ m.pc = pc
  /\ m.reg[0] = x0 /\ m.reg[1] = x1 /\ m.reg[2] = x2 /\ m.reg[3] = x3

(* The address after this one, for addresses that have one.                 *)
LEMMA NextAddress ==
  ASSUME NEW pc \in Nat, pc + 1 < Size
  PROVE  (pc + 1) % Size = pc + 1
<1>1. Size \in Nat /\ Size > 0
  BY SizeIs
<1> DEFINE t == pc + 1
<1>2. t \in Nat /\ t < Size
  OBVIOUS
<1> HIDE DEF Size, t
<1>3. (Size * 0 + t) % Size = t
  BY <1>1, <1>2, Division
<1> QED
  BY <1>1, <1>2, <1>3 DEF t

(* What each kind of word of the programs does.                             *)
LEMMA ExecuteIs ==
  ASSUME NEW m, NEW w
  PROVE  /\ \A r \in Register :
              Execute(m, w).reg[r] =
                IF Writes(w) /\ r = dst_selector(w) THEN Result(m, w) ELSE m.reg[r]
         /\ Execute(m, w).pc = (IF Stops(m, w) THEN m.pc
                                ELSE IF Branches(m, w) THEN immediate_of(w)
                                ELSE (m.pc + 1) % Size)
         /\ Execute(m, w).zero = (IF Writes(w) THEN Result(m, w) = 0 ELSE m.zero)
         /\ Execute(m, w).carry = CarryAfter(m, w)
         /\ Execute(m, w).halt = Stops(m, w)
         /\ Execute(m, w).out = (IF opcode(w) = OUT THEN m.reg[dst_selector(w)] ELSE m.out)
BY DEF Execute

LEMMA Writing ==
  ASSUME NEW m, ~m.halt, m.pc \in Nat, m.pc + 1 < Size,
         NEW w, opcode(w) \in {LDI, MOV, ADD, SUB}
  PROVE  LET n == Execute(m, w)
         IN  /\ \A r \in Register :
                  n.reg[r] = IF r = dst_selector(w) THEN Result(m, w) ELSE m.reg[r]
             /\ n.pc = m.pc + 1 /\ ~n.halt /\ n.out = m.out
             /\ n.zero = (Result(m, w) = 0) /\ n.carry = CarryAfter(m, w)
             /\ opcode(w) # OUT
<1>1. /\ Writes(w) /\ ~Branches(m, w) /\ opcode(w) # OUT /\ opcode(w) # HLT
  BY DEF Writes, Branches, LDI, MOV, ADD, SUB, XOR, JMP, JZ, JNZ, JC, JNC, OUT, HLT
<1>2. ~Stops(m, w)
  BY <1>1 DEF Stops
<1>3. (m.pc + 1) % Size = m.pc + 1
  BY NextAddress
<1> QED
  BY <1>1, <1>2, <1>3, ExecuteIs, Zenon

LEMMA ResultIs ==
  ASSUME NEW m, NEW w
  PROVE  LET d == m.reg[dst_selector(w)]
             s == m.reg[src_selector(w)]
         IN  /\ opcode(w) = LDI => Result(m, w) = immediate_of(w)
             /\ opcode(w) = MOV => Result(m, w) = s
             /\ opcode(w) = ADD => Result(m, w) = (d + s) % Size
             /\ opcode(w) = SUB => Result(m, w) = (d - s) % Size
             /\ opcode(w) = SUB => CarryAfter(m, w) = (d >= s)
BY DEF Result, CarryAfter, LDI, MOV, ADD, SUB, AND, OR, XOR

LEMMA Branching ==
  ASSUME NEW m, ~m.halt, m.pc \in Nat, m.pc + 1 < Size,
         NEW w, opcode(w) \in {JMP, JZ, JNC}
  PROVE  LET n == Execute(m, w)
         IN  /\ \A r \in Register : n.reg[r] = m.reg[r]
             /\ n.pc = IF opcode(w) = JMP \/ (opcode(w) = JZ /\ m.zero)
                            \/ (opcode(w) = JNC /\ ~m.carry)
                       THEN immediate_of(w) ELSE m.pc + 1
             /\ ~n.halt /\ n.out = m.out /\ n.zero = m.zero /\ n.carry = m.carry
             /\ opcode(w) # OUT
<1>1. /\ ~Writes(w) /\ opcode(w) # OUT /\ opcode(w) # HLT
  BY DEF Writes, LDI, XOR, JMP, JZ, JNC, OUT, HLT
<1>2. ~Stops(m, w)
  BY <1>1 DEF Stops
<1>3. (m.pc + 1) % Size = m.pc + 1
  BY NextAddress
<1>4. Branches(m, w) <=> \/ opcode(w) = JMP \/ (opcode(w) = JZ /\ m.zero)
                         \/ (opcode(w) = JNC /\ ~m.carry)
  BY DEF Branches, JMP, JZ, JNZ, JC, JNC
<1>5. CarryAfter(m, w) = m.carry
  BY DEF CarryAfter, ADD, SUB, JMP, JZ, JNC
<1> QED
  BY <1>1, <1>2, <1>3, <1>4, <1>5, ExecuteIs, Zenon

LEMMA OutShows ==
  ASSUME NEW m, ~m.halt, m.pc \in Nat, m.pc + 1 < Size, NEW w, opcode(w) = OUT
  PROVE  LET n == Execute(m, w)
         IN  /\ \A r \in Register : n.reg[r] = m.reg[r]
             /\ n.pc = m.pc + 1 /\ ~n.halt /\ n.out = m.reg[dst_selector(w)]
<1>1. /\ ~Writes(w) /\ ~Branches(m, w) /\ opcode(w) # HLT
  BY DEF Writes, Branches, LDI, XOR, JMP, JZ, JNZ, JC, JNC, OUT, HLT
<1>2. ~Stops(m, w)
  BY <1>1 DEF Stops
<1>3. (m.pc + 1) % Size = m.pc + 1
  BY NextAddress
<1> QED
  BY <1>1, <1>2, <1>3, ExecuteIs

LEMMA Halting ==
  ASSUME NEW m, NEW w, opcode(w) = HLT
  PROVE  Execute(m, w).halt /\ opcode(w) # OUT
<1>1. opcode(w) # OUT
  BY DEF OUT, HLT
<1>2. Stops(m, w)
  BY DEF Stops
<1> QED
  BY <1>1, <1>2, ExecuteIs, Zenon

(* Each word of a program on a running machine.                             *)
Ready(m) == ~m.halt /\ m.pc \in Nat /\ m.pc + 1 < Size

Goes(m, n, pc, d, x) ==
  /\ ~n.halt /\ n.pc = pc
  /\ \A r \in Register : n.reg[r] = IF r = d THEN x ELSE m.reg[r]

LEMMA ZeroIsWord == 0 \in Word
BY SizeIs DEF Word

LEMMA DoLdi ==
  ASSUME NEW m, Ready(m), NEW d \in Register, NEW x \in Word
  PROVE  /\ Goes(m, Execute(m, ldi(d, x)), m.pc + 1, d, x)
         /\ opcode(ldi(d, x)) # OUT
<1> DEFINE w == ldi(d, x)
<1>1. opcode(w) = LDI /\ dst_selector(w) = d /\ immediate_of(w) = x
  <2>1. LDI \in 0 .. 15 /\ 0 \in Register
    BY DEF LDI, Register
  <2> QED
    BY <2>1, InstructionFields DEF ldi
<1> HIDE DEF w
<1>2. Result(m, w) = x
  BY <1>1, ResultIs, Zenon
<1> QED
  BY <1>1, <1>2, Writing DEF Ready, Goes, w

LEMMA BinaryFields ==
  ASSUME NEW op \in {MOV, ADD, SUB}, NEW d \in Register, NEW s \in Register
  PROVE  LET w == binary(op, d, s)
         IN  opcode(w) = op /\ dst_selector(w) = d /\ src_selector(w) = s
<1>1. op \in 0 .. 15
  BY DEF MOV, ADD, SUB
<1> QED
  BY <1>1, ZeroIsWord, InstructionFields DEF binary

LEMMA DoMov ==
  ASSUME NEW m, Ready(m), NEW d \in Register, NEW s \in Register
  PROVE  LET w == binary(MOV, d, s)
             n == Execute(m, w)
         IN  /\ Goes(m, n, m.pc + 1, d, m.reg[s])
             /\ n.zero = (m.reg[s] = 0) /\ opcode(w) # OUT
<1> DEFINE w == binary(MOV, d, s)
<1>1. opcode(w) = MOV /\ dst_selector(w) = d /\ src_selector(w) = s
  BY BinaryFields
<1> HIDE DEF w
<1>2. Result(m, w) = m.reg[s]
  BY <1>1, ResultIs, Zenon
<1> QED
  BY <1>1, <1>2, Writing DEF Ready, Goes, w

LEMMA DoAdd ==
  ASSUME NEW m, Ready(m), NEW d \in Register, NEW s \in Register
  PROVE  LET w == binary(ADD, d, s)
             n == Execute(m, w)
         IN  Goes(m, n, m.pc + 1, d, (m.reg[d] + m.reg[s]) % Size) /\ opcode(w) # OUT
<1> DEFINE w == binary(ADD, d, s)
           x == (m.reg[d] + m.reg[s]) % Size
<1>1. opcode(w) = ADD /\ dst_selector(w) = d /\ src_selector(w) = s
  BY BinaryFields
<1> HIDE DEF w
<1>2. Result(m, w) = x
  BY <1>1, ResultIs, Zenon
<1> HIDE DEF x
<1> QED
  BY <1>1, <1>2, Writing DEF Ready, Goes, w, x

LEMMA DoSub ==
  ASSUME NEW m, Ready(m), NEW d \in Register, NEW s \in Register
  PROVE  LET w == binary(SUB, d, s)
             n == Execute(m, w)
             x == (m.reg[d] - m.reg[s]) % Size
         IN  /\ Goes(m, n, m.pc + 1, d, x)
             /\ n.zero = (x = 0) /\ n.carry = (m.reg[d] >= m.reg[s]) /\ opcode(w) # OUT
<1> DEFINE w == binary(SUB, d, s)
           x == (m.reg[d] - m.reg[s]) % Size
<1>1. opcode(w) = SUB /\ dst_selector(w) = d /\ src_selector(w) = s
  BY BinaryFields
<1> HIDE DEF w
<1>2. Result(m, w) = x /\ CarryAfter(m, w) = (m.reg[d] >= m.reg[s])
  BY <1>1, ResultIs, Zenon
<1> HIDE DEF x
<1> QED
  BY <1>1, <1>2, Writing DEF Ready, Goes, w, x

LEMMA DoBranch ==
  ASSUME NEW m, Ready(m), NEW op \in {JMP, JZ, JNC}, NEW target \in Word
  PROVE  LET w == branch(op, target)
             n == Execute(m, w)
             taken == \/ op = JMP \/ (op = JZ /\ m.zero) \/ (op = JNC /\ ~m.carry)
         IN  /\ ~n.halt /\ \A r \in Register : n.reg[r] = m.reg[r]
             /\ taken => n.pc = target
             /\ ~taken => n.pc = m.pc + 1
             /\ n.carry = m.carry /\ opcode(w) # OUT
<1> DEFINE w == branch(op, target)
<1>1. opcode(w) = op /\ immediate_of(w) = target
  <2>1. op \in 0 .. 15 /\ 0 \in Register
    BY DEF JMP, JZ, JNC, Register
  <2> QED
    BY <2>1, InstructionFields DEF branch
<1> HIDE DEF w
<1> QED
  BY <1>1, Branching DEF Ready, w

LEMMA DoOut ==
  ASSUME NEW m, Ready(m), NEW d \in Register
  PROVE  LET w == output(d)
             n == Execute(m, w)
         IN  /\ ~n.halt /\ n.pc = m.pc + 1 /\ \A r \in Register : n.reg[r] = m.reg[r]
             /\ n.out = m.reg[d] /\ opcode(w) = OUT
<1> DEFINE w == output(d)
<1>1. opcode(w) = OUT /\ dst_selector(w) = d
  <2>1. OUT \in 0 .. 15 /\ 0 \in Register
    BY DEF OUT, Register
  <2> QED
    BY <2>1, ZeroIsWord, InstructionFields DEF output
<1> HIDE DEF w
<1> QED
  BY <1>1, OutShows DEF Ready, w

LEMMA DoHlt ==
  ASSUME NEW m
  PROVE  LET w == instruction(HLT, 0, 0, 0)
         IN  Execute(m, w).halt /\ opcode(w) # OUT
<1> DEFINE w == instruction(HLT, 0, 0, 0)
<1>1. opcode(w) = HLT
  <2>1. HLT \in 0 .. 15 /\ 0 \in Register
    BY DEF HLT, Register
  <2> QED
    BY <2>1, ZeroIsWord, InstructionFields
<1> HIDE DEF w
<1> QED
  BY <1>1, Halting DEF w

-----------------------------------------------------------------------------
(* The multiplication program: where it is after each of its ticks.         *)
Tells(w, n) == IF opcode(w) = OUT THEN <<n.out>> ELSE <<>>

LEMMA SizeIsEnough == ASSUME W >= 4 PROVE Size \in Nat /\ Size >= 16
<1> DEFINE S == {n \in Nat : n >= 4 /\ ~(2 ^ n >= 16)}
<1>1. ASSUME S # {} PROVE FALSE
  <2>1. S \in SUBSET Nat
    OBVIOUS
  <2> HIDE DEF S
  <2>2. PICK n \in S : \A k \in S : n <= k
    BY <1>1, <2>1, Least
  <2> USE DEF S
  <2>3. n \in Nat /\ n >= 4 /\ ~(2 ^ n >= 16)
    OBVIOUS
  <2>4. ASSUME n = 4 PROVE FALSE
    <3>1. 2 ^ n = 16
      BY <2>4, SmallPowers, Zenon
    <3>2. ~(16 >= 16)
      BY <2>3, <3>1, Zenon
    <3> QED
      BY <3>2
  <2>5. n - 1 \in Nat /\ n - 1 >= 4 /\ (n - 1) + 1 = n /\ ~(n <= n - 1)
    BY <2>3, <2>4
  <2>6. 2 ^ (n - 1) >= 16
    BY <2>2, <2>5
  <2>7. 2 ^ n = 2 * 2 ^ (n - 1) /\ 2 ^ (n - 1) \in Nat
    BY <2>5, PowerDoubles, PowerIs
  <2> DEFINE x == 2 ^ (n - 1)
             y == 2 ^ n
  <2>8. x \in Nat /\ x >= 16 /\ y = 2 * x
    BY <2>6, <2>7
  <2> HIDE DEF x, y
  <2>9. y >= 16
    BY <2>8
  <2> QED
    BY <2>3, <2>9 DEF y
<1>2. 2 ^ W >= 16
  BY <1>1, WordAssumption
<1> QED
  BY <1>2, SizeIs DEF Size

MulLoads(a, b, m, t) ==
  /\ ~m.halt /\ t \in 0 .. 3 /\ m.pc = t
  /\ t >= 1 => m.reg[0] = a
  /\ t >= 2 => m.reg[1] = b
  /\ t >= 3 => m.reg[2] = 0

(* In round k the accumulator holds k or, after the ADD, k + 1 times a.     *)
MulRound(a, b, k, m, t) ==
  /\ ~m.halt /\ k \in 0 .. b /\ m.reg[0] = a /\ m.reg[3] = 1
  /\ \/ /\ m.pc = 4 /\ t = 5 * k + 4
        /\ m.reg[1] = b - k /\ m.reg[2] = (a * k) % Size
     \/ /\ m.pc = 5 /\ t = 5 * k + 5 /\ m.zero = (k = b)
        /\ m.reg[1] = b - k /\ m.reg[2] = (a * k) % Size
     \/ /\ m.pc = 6 /\ t = 5 * k + 6 /\ k # b
        /\ m.reg[1] = b - k /\ m.reg[2] = (a * k) % Size
     \/ /\ m.pc = 7 /\ t = 5 * k + 7 /\ k # b
        /\ m.reg[1] = b - k /\ m.reg[2] = (a * (k + 1)) % Size
     \/ /\ m.pc = 8 /\ t = 5 * k + 8 /\ k # b
        /\ m.reg[1] = b - (k + 1) /\ m.reg[2] = (a * (k + 1)) % Size
     \/ /\ m.pc = 9 /\ t = 5 * k + 6 /\ k = b
        /\ m.reg[2] = (a * k) % Size

Multiplying(a, b, m, t, out) ==
  \/ MulLoads(a, b, m, t) /\ out = <<>>
  \/ (\E k \in 0 .. b : MulRound(a, b, k, m, t)) /\ out = <<>>
  \/ ~m.halt /\ m.pc = 10 /\ t = 5 * b + 7 /\ out = <<(a * b) % Size>>
  \/ m.halt /\ t = 5 * b + 8 /\ out = <<(a * b) % Size>>

LEMMA MulWords ==
  ASSUME NEW a, NEW b
  PROVE  LET p == multiplication(a, b)
         IN  /\ Fetch(p, 0) = ldi(0, a) /\ Fetch(p, 1) = ldi(1, b)
             /\ Fetch(p, 2) = ldi(2, 0) /\ Fetch(p, 3) = ldi(3, 1)
             /\ Fetch(p, 4) = binary(MOV, 1, 1) /\ Fetch(p, 5) = branch(JZ, 9)
             /\ Fetch(p, 6) = binary(ADD, 2, 0) /\ Fetch(p, 7) = binary(SUB, 1, 3)
             /\ Fetch(p, 8) = branch(JMP, 4) /\ Fetch(p, 9) = output(2)
             /\ Fetch(p, 10) = instruction(HLT, 0, 0, 0)
BY DEF multiplication, Fetch

(* Sums and differences of words, modulo their size.                        *)
LEMMA SmallModulo ==
  ASSUME NEW x \in Word PROVE x % Size = x
<1>1. Size \in Nat /\ Size > 0 /\ x \in Nat /\ x < Size
  BY SizeIs DEF Word
<1> HIDE DEF Size
<1>2. (Size * 0 + x) % Size = x
  BY <1>1, Division
<1> QED
  BY <1>1, <1>2

LEMMA ModuloIsWord ==
  ASSUME NEW x \in Int PROVE x % Size \in Word
<1>1. Size \in Nat /\ Size > 0
  BY SizeIs
<1> HIDE DEF Size
<1> QED
  BY <1>1 DEF Word

LEMMA ModuloAbsorbs ==
  ASSUME NEW x \in Nat, NEW y \in Nat
  PROVE  ((x % Size) + y) % Size = (x + y) % Size
<1>1. Size \in Nat /\ Size > 0
  BY SizeIs
<1> DEFINE q == x \div Size
           r == x % Size
           h == (r + y) \div Size
           t == (r + y) % Size
<1>2. x = Size * q + r /\ q \in Nat /\ r \in Nat
  <2> HIDE DEF Size
  <2> QED
    BY <1>1
<1> HIDE DEF q, r
<1>3. r + y = Size * h + t /\ h \in Nat /\ t \in Nat /\ t < Size
  <2>1. r + y \in Nat
    BY <1>2
  <2> HIDE DEF Size
  <2> QED
    BY <1>1, <2>1
<1> HIDE DEF h, t, Size
<1>4. Size * (q + h) = Size * q + Size * h
  BY <1>1, <1>2, <1>3
<1>5. x + y = Size * (q + h) + t /\ q + h \in Nat
  <2> DEFINE u == Size * q
             v == Size * h
  <2>1. u \in Nat /\ v \in Nat
    BY <1>1, <1>2, <1>3
  <2> DEFINE z == Size * (q + h)
  <2>2. x = u + r /\ r + y = v + t
    BY <1>2, <1>3
  <2>3. z = u + v
    BY <1>4
  <2>4. q \in Nat /\ h \in Nat /\ r \in Nat /\ t \in Nat
    BY <1>2, <1>3
  <2> HIDE DEF u, v, z
  <2>5. x + y = z + t /\ q + h \in Nat
    BY <2>1, <2>2, <2>3, <2>4
  <2> QED
    BY <2>5 DEF z
<1> DEFINE k == q + h
<1>6. (Size * k + t) % Size = t
  <2>1. k \in Nat
    BY <1>5
  <2> HIDE DEF k
  <2> QED
    BY <1>1, <1>3, <2>1, Division
<1>7. (x + y) % Size = t
  BY <1>5, <1>6
<1> QED
  BY <1>7 DEF t, r
LEMMA TellsNothing ==
  ASSUME NEW w, NEW n, opcode(w) # OUT, NEW S, NEW out \in Seq(S)
  PROVE  out \o Tells(w, n) = out
<1>1. Tells(w, n) = <<>>
  BY DEF Tells
<1> QED
  BY <1>1

LEMMA EmptyIsSeq == <<>> \in Seq(Word)
OBVIOUS

LEMMA MulLoadsStep ==
  ASSUME W >= 4, NEW a \in Word, NEW b \in Word, NEW m, NEW t, MulLoads(a, b, m, t),
         NEW w, w = Fetch(multiplication(a, b), m.pc)
  PROVE  LET n == Execute(m, w)
         IN  /\ opcode(w) # OUT
             /\ MulLoads(a, b, n, t + 1) \/ MulRound(a, b, 0, n, t + 1)
<1> DEFINE n == Execute(m, w)
<1>1. Size \in Nat /\ Size >= 16
  BY SizeIsEnough
<1>2. 0 \in Word /\ 1 \in Word
  BY <1>1 DEF Word
<1>3. Ready(m)
  <2> HIDE DEF Size
  <2> QED
    BY <1>1 DEF MulLoads, Ready
<1>4. 0 \in Register /\ 1 \in Register /\ 2 \in Register /\ 3 \in Register
  BY DEF Register
<1>5. CASE t = 0
  <2>1. w = ldi(0, a)
    BY <1>5, MulWords DEF MulLoads
  <2>2. Goes(m, n, m.pc + 1, 0, a) /\ opcode(w) # OUT
    BY <1>3, <1>4, <2>1, DoLdi
  <2> HIDE DEF n
  <2>3. MulLoads(a, b, n, t + 1)
    BY <1>4, <1>5, <2>2 DEF MulLoads, Goes
  <2> QED
    BY <2>2, <2>3 DEF n
<1>6. CASE t = 1
  <2>1. w = ldi(1, b)
    BY <1>6, MulWords DEF MulLoads
  <2>2. Goes(m, n, m.pc + 1, 1, b) /\ opcode(w) # OUT
    BY <1>3, <1>4, <2>1, DoLdi
  <2> HIDE DEF n
  <2>3. MulLoads(a, b, n, t + 1)
    BY <1>4, <1>6, <2>2 DEF MulLoads, Goes
  <2> QED
    BY <2>2, <2>3 DEF n
<1>7. CASE t = 2
  <2>1. w = ldi(2, 0)
    BY <1>7, MulWords DEF MulLoads
  <2>2. Goes(m, n, m.pc + 1, 2, 0) /\ opcode(w) # OUT
    BY <1>2, <1>3, <1>4, <2>1, DoLdi
  <2> HIDE DEF n
  <2>3. MulLoads(a, b, n, t + 1)
    BY <1>4, <1>7, <2>2 DEF MulLoads, Goes
  <2> QED
    BY <2>2, <2>3 DEF n
<1>8. CASE t = 3
  <2>1. w = ldi(3, 1)
    BY <1>8, MulWords DEF MulLoads
  <2>2. Goes(m, n, m.pc + 1, 3, 1) /\ opcode(w) # OUT
    BY <1>2, <1>3, <1>4, <2>1, DoLdi
  <2>3. a \in Nat /\ b \in Nat /\ (a * 0) % Size = 0
    <3>1. a \in Nat /\ b \in Nat
      BY <1>1 DEF Word
    <3>2. a * 0 = 0
      BY <3>1
    <3> QED
      BY <1>2, <3>1, <3>2, SmallModulo
  <2>4. m.pc = 3 /\ m.reg[0] = a /\ m.reg[1] = b /\ m.reg[2] = 0
    BY <1>8 DEF MulLoads
  <2> HIDE DEF n
  <2>5. ~n.halt /\ n.pc = 4 /\ n.reg[0] = a /\ n.reg[1] = b /\ n.reg[2] = 0 /\ n.reg[3] = 1
    BY <1>4, <2>2, <2>4 DEF Goes
  <2> DEFINE p == (a * 0) % Size
  <2>6. n.reg[2] = p
    BY <2>3, <2>5
  <2> HIDE DEF p
  <2>7. /\ ~n.halt /\ 0 \in 0 .. b /\ n.reg[0] = a /\ n.reg[3] = 1
        /\ n.pc = 4 /\ t + 1 = 5 * 0 + 4 /\ n.reg[1] = b - 0 /\ n.reg[2] = p
    BY <1>8, <2>3, <2>5, <2>6
  <2>8. MulRound(a, b, 0, n, t + 1)
    BY <2>7, Zenon DEF MulRound, p
  <2> QED
    BY <2>2, <2>8 DEF n
<1> QED
  BY <1>5, <1>6, <1>7, <1>8 DEF MulLoads
LEMMA MulNext ==
  ASSUME NEW a \in Word, NEW k \in Nat
  PROVE  (((a * k) % Size) + a) % Size = (a * (k + 1)) % Size
<1>1. a \in Nat
  BY SizeIs DEF Word
<1> DEFINE x == a * k
<1>2. x \in Nat /\ a * (k + 1) = x + a
  BY <1>1
<1> HIDE DEF x
<1>3. ((x % Size) + a) % Size = (x + a) % Size
  BY <1>1, <1>2, ModuloAbsorbs
<1> QED
  BY <1>2, <1>3 DEF x

LEMMA MulRoundStep ==
  ASSUME W >= 4, NEW a \in Word, NEW b \in Word, NEW m, NEW t, NEW k \in 0 .. b,
         MulRound(a, b, k, m, t), m.pc # 9, NEW w, w = Fetch(multiplication(a, b), m.pc)
  PROVE  LET n == Execute(m, w)
         IN  /\ opcode(w) # OUT
             /\ MulRound(a, b, k, n, t + 1) \/ (k # b /\ MulRound(a, b, k + 1, n, t + 1))
<1> DEFINE n == Execute(m, w)
           p == (a * k) % Size
           q == (a * (k + 1)) % Size
<1>1. Size \in Nat /\ Size >= 16
  BY SizeIsEnough
<1>2. /\ a \in Nat /\ b \in Nat /\ k \in Nat /\ k <= b /\ b < Size /\ p \in Word /\ q \in Word
  <2>1. a \in Nat /\ b \in Nat /\ k \in Nat /\ k <= b /\ b < Size
    <3> HIDE DEF Size
    <3> QED
      BY <1>1 DEF Word
  <2>2. a * k \in Int /\ a * (k + 1) \in Int
    BY <2>1
  <2> QED
    BY <2>1, <2>2, ModuloIsWord, Zenon
<1>3. 0 \in Register /\ 1 \in Register /\ 2 \in Register /\ 3 \in Register
  BY DEF Register
<1>4. 4 \in Word /\ 9 \in Word
  <2> HIDE DEF Size
  <2> QED
    BY <1>1 DEF Word
<1>5. (p + a) % Size = q
  BY <1>2, MulNext
<1> HIDE DEF n, p, q
<1>6. /\ ~m.halt /\ m.reg[0] = a /\ m.reg[3] = 1
      /\ \/ m.pc = 4 /\ t = 5 * k + 4 /\ m.reg[1] = b - k /\ m.reg[2] = p
         \/ m.pc = 5 /\ t = 5 * k + 5 /\ m.zero = (k = b) /\ m.reg[1] = b - k /\ m.reg[2] = p
         \/ m.pc = 6 /\ t = 5 * k + 6 /\ k # b /\ m.reg[1] = b - k /\ m.reg[2] = p
         \/ m.pc = 7 /\ t = 5 * k + 7 /\ k # b /\ m.reg[1] = b - k /\ m.reg[2] = q
         \/ m.pc = 8 /\ t = 5 * k + 8 /\ k # b /\ m.reg[1] = b - (k + 1) /\ m.reg[2] = q
  BY Zenon DEF MulRound, p, q
<1>7. Ready(m)
  <2> HIDE DEF Size
  <2> QED
    BY <1>1, <1>6 DEF Ready
<1>8. CASE m.pc = 4
  <2>1. w = binary(MOV, 1, 1)
    BY <1>8, MulWords
  <2>2. /\ Goes(m, n, m.pc + 1, 1, m.reg[1]) /\ n.zero = (m.reg[1] = 0) /\ opcode(w) # OUT
    BY <1>3, <1>7, <2>1, DoMov DEF n
  <2>3. /\ ~n.halt /\ n.reg[0] = a /\ n.reg[3] = 1 /\ n.pc = 5 /\ t + 1 = 5 * k + 5
        /\ n.reg[1] = b - k /\ n.reg[2] = p
    BY <1>2, <1>3, <1>6, <1>8, <2>2 DEF Goes
  <2>4. n.zero = (k = b)
    <3>1. (m.reg[1] = 0) <=> k = b
      BY <1>2, <1>6, <1>8
    <3> QED
      BY <2>2, <3>1
  <2>5. MulRound(a, b, k, n, t + 1)
    BY <2>3, <2>4, Zenon DEF MulRound, p
  <2> QED
    BY <2>2, <2>5 DEF n
<1>9. CASE m.pc = 5
  <2>1. w = branch(JZ, 9)
    BY <1>9, MulWords
  <2>2. /\ ~n.halt /\ \A r \in Register : n.reg[r] = m.reg[r]
        /\ m.zero => n.pc = 9
        /\ ~m.zero => n.pc = 6
        /\ opcode(w) # OUT
    <3>1. JZ # JMP /\ JZ # JNC /\ m.pc + 1 = 6
      BY <1>9 DEF JZ, JMP, JNC
    <3> QED
      BY <1>4, <1>7, <2>1, <3>1, DoBranch DEF n
  <2>3. ~n.halt /\ n.reg[0] = a /\ n.reg[3] = 1 /\ n.reg[1] = b - k /\ n.reg[2] = p
    BY <1>3, <1>6, <1>9, <2>2
  <2>4. t = 5 * k + 5 /\ t + 1 = 5 * k + 6 /\ m.zero = (k = b)
    BY <1>2, <1>6, <1>9
  <2>5. CASE k = b
    <3>1. n.pc = 9
      BY <2>2, <2>4, <2>5, Zenon
    <3>2. MulRound(a, b, k, n, t + 1)
      BY <2>3, <2>4, <2>5, <3>1, Zenon DEF MulRound, p
    <3> QED
      BY <2>2, <3>2 DEF n
  <2>6. CASE k # b
    <3>1. n.pc = 6
      BY <2>2, <2>4, <2>6, Zenon
    <3>2. MulRound(a, b, k, n, t + 1)
      BY <2>3, <2>4, <2>6, <3>1, Zenon DEF MulRound, p
    <3> QED
      BY <2>2, <3>2 DEF n
  <2> QED
    BY <2>5, <2>6
<1>10. CASE m.pc = 6
  <2>1. w = binary(ADD, 2, 0)
    BY <1>10, MulWords
  <2>2. Goes(m, n, m.pc + 1, 2, (m.reg[2] + m.reg[0]) % Size) /\ opcode(w) # OUT
    BY <1>3, <1>7, <2>1, DoAdd DEF n
  <2>3. m.reg[2] = p /\ m.reg[0] = a /\ k # b /\ t = 5 * k + 6 /\ m.reg[1] = b - k
    BY <1>6, <1>10
  <2>4. Goes(m, n, m.pc + 1, 2, q)
    BY <1>5, <2>2, <2>3, Zenon
  <2>5. /\ ~n.halt /\ n.reg[0] = a /\ n.reg[3] = 1 /\ n.pc = 7 /\ t + 1 = 5 * k + 7
        /\ n.reg[1] = b - k /\ n.reg[2] = q
    BY <1>2, <1>3, <1>6, <1>10, <2>3, <2>4 DEF Goes
  <2>6. MulRound(a, b, k, n, t + 1)
    BY <2>3, <2>5, Zenon DEF MulRound, q
  <2> QED
    BY <2>2, <2>6 DEF n
<1>11. CASE m.pc = 7
  <2>1. w = binary(SUB, 1, 3)
    BY <1>11, MulWords
  <2>2. Goes(m, n, m.pc + 1, 1, (m.reg[1] - m.reg[3]) % Size) /\ opcode(w) # OUT
    BY <1>3, <1>7, <2>1, DoSub DEF n
  <2>3. m.reg[2] = q /\ m.reg[3] = 1 /\ k # b /\ t = 5 * k + 7 /\ m.reg[1] = b - k
    BY <1>6, <1>11
  <2>4. (m.reg[1] - m.reg[3]) % Size = b - (k + 1)
    <3>1. m.reg[1] - m.reg[3] = b - (k + 1)
      BY <1>2, <2>3
    <3>2. b - (k + 1) \in Word
      <4> HIDE DEF Size
      <4> QED
        BY <1>2, <2>3, <1>1 DEF Word
    <3> QED
      BY <3>1, <3>2, SmallModulo, Zenon
  <2>5. Goes(m, n, m.pc + 1, 1, b - (k + 1))
    BY <2>2, <2>4, Zenon
  <2>6. /\ ~n.halt /\ n.reg[0] = a /\ n.reg[3] = 1 /\ n.pc = 8 /\ t + 1 = 5 * k + 8
        /\ n.reg[1] = b - (k + 1) /\ n.reg[2] = q
    BY <1>2, <1>3, <1>6, <1>11, <2>3, <2>5 DEF Goes
  <2>7. MulRound(a, b, k, n, t + 1)
    BY <2>3, <2>6, Zenon DEF MulRound, q
  <2> QED
    BY <2>2, <2>7 DEF n
<1>12. CASE m.pc = 8
  <2>1. w = branch(JMP, 4)
    BY <1>12, MulWords
  <2>2. /\ ~n.halt /\ \A r \in Register : n.reg[r] = m.reg[r]
        /\ n.pc = 4 /\ opcode(w) # OUT
    BY <1>4, <1>7, <2>1, DoBranch DEF n
  <2>3. /\ ~n.halt /\ n.reg[0] = a /\ n.reg[3] = 1 /\ n.pc = 4 /\ k # b
        /\ t + 1 = 5 * (k + 1) + 4 /\ n.reg[1] = b - (k + 1) /\ n.reg[2] = q
        /\ k + 1 \in 0 .. b
    BY <1>2, <1>3, <1>6, <1>12, <2>2
  <2>4. MulRound(a, b, k + 1, n, t + 1)
    BY <2>3, Zenon DEF MulRound, q
  <2> QED
    BY <2>2, <2>3, <2>4 DEF n
<1> QED
  BY <1>6, <1>8, <1>9, <1>10, <1>11, <1>12 DEF MulRound
(* A tick of the program that is running.                                   *)
LEMMA MulStep ==
  ASSUME W >= 4, NEW a \in Word, NEW b \in Word, NEW m, NEW t \in Nat, NEW out,
         Multiplying(a, b, m, t, out), ~m.halt,
         NEW w, w = Fetch(multiplication(a, b), m.pc)
  PROVE  LET n == Execute(m, w)
         IN  Multiplying(a, b, n, t + 1, out \o Tells(w, n))
<1> DEFINE n == Execute(m, w)
           c == (a * b) % Size
<1>1. b \in Nat /\ 0 \in 0 .. b /\ b \in 0 .. b
  BY SizeIs DEF Word
<1>2. CASE MulLoads(a, b, m, t) /\ out = <<>>
  <2>1. /\ opcode(w) # OUT
        /\ MulLoads(a, b, n, t + 1) \/ MulRound(a, b, 0, n, t + 1)
    BY <1>2, MulLoadsStep
  <2> HIDE DEF n
  <2>2. out \o Tells(w, n) = <<>>
    BY <1>2, <2>1, EmptyIsSeq, TellsNothing
  <2> QED
    BY <1>1, <2>1, <2>2, Zenon DEF Multiplying, n
<1>3. ASSUME NEW k \in 0 .. b, MulRound(a, b, k, m, t), m.pc # 9, out = <<>>
      PROVE  Multiplying(a, b, n, t + 1, out \o Tells(w, n))
  <2>1. /\ opcode(w) # OUT
        /\ MulRound(a, b, k, n, t + 1) \/ (k # b /\ MulRound(a, b, k + 1, n, t + 1))
    BY <1>3, MulRoundStep
  <2> HIDE DEF n
  <2>2. out \o Tells(w, n) = <<>>
    BY <1>3, <2>1, EmptyIsSeq, TellsNothing
  <2>3. k # b => k + 1 \in 0 .. b
    BY <1>1
  <2> QED
    BY <2>1, <2>2, <2>3, Zenon DEF Multiplying, n
<1>4. ASSUME NEW k \in 0 .. b, MulRound(a, b, k, m, t), m.pc = 9, out = <<>>
      PROVE  Multiplying(a, b, n, t + 1, out \o Tells(w, n))
  <2>1. k = b /\ t = 5 * b + 6 /\ m.reg[2] = c /\ ~m.halt
    <3> HIDE DEF c
    <3>1. k = b /\ t = 5 * k + 6 /\ m.reg[2] = (a * k) % Size /\ ~m.halt
      BY <1>4 DEF MulRound
    <3> QED
      BY <3>1, Zenon DEF c
  <2>2. w = output(2)
    BY <1>4, MulWords
  <2>3. Ready(m) /\ 2 \in Register
    <3>1. Size \in Nat /\ Size >= 16
      BY SizeIsEnough
    <3> HIDE DEF Size
    <3> QED
      BY <1>4, <2>1, <3>1 DEF Ready, Register
  <2>4. ~n.halt /\ n.pc = m.pc + 1 /\ n.out = m.reg[2] /\ opcode(w) = OUT
    BY <2>2, <2>3, DoOut
  <2> HIDE DEF n, c
  <2>5. out \o Tells(w, n) = <<c>>
    BY <1>4, <2>1, <2>4 DEF Tells
  <2>6. n.pc = 10 /\ t + 1 = 5 * b + 7
    BY <1>1, <1>4, <2>1, <2>4
  <2> QED
    BY <2>4, <2>5, <2>6, Zenon DEF Multiplying, n, c
<1>5. CASE ~m.halt /\ m.pc = 10 /\ t = 5 * b + 7 /\ out = <<c>>
  <2>1. w = instruction(HLT, 0, 0, 0)
    BY <1>5, MulWords
  <2>2. n.halt /\ opcode(w) # OUT
    BY <2>1, DoHlt
  <2>3. t + 1 = 5 * b + 8
    BY <1>1, <1>5
  <2> HIDE DEF n
  <2>4. <<c>> \in Seq({c})
    OBVIOUS
  <2>5. out \o Tells(w, n) = <<c>>
    BY <1>5, <2>2, <2>4, TellsNothing
  <2> QED
    BY <2>2, <2>3, <2>5, Zenon DEF Multiplying, n
<1> QED
  BY <1>2, <1>3, <1>4, <1>5, Zenon DEF Multiplying

(* It halts at one tick, and not before.                                    *)
LEMMA MulHalts ==
  ASSUME NEW a \in Word, NEW b \in Word, NEW m, NEW t \in Nat, NEW out,
         Multiplying(a, b, m, t, out)
  PROVE  /\ m.halt => t = TicksToMultiply(b) /\ out = <<(a * b) % Size>>
         /\ ~m.halt => t < TicksToMultiply(b)
<1>1. b \in Nat
  BY SizeIs DEF Word
<1>2. MulLoads(a, b, m, t) => ~m.halt /\ t < 5 * b + 8
  BY <1>1 DEF MulLoads
<1>3. ASSUME NEW k \in 0 .. b, MulRound(a, b, k, m, t) PROVE ~m.halt /\ t < 5 * b + 8
  <2>1. ~m.halt /\ t \in {5 * k + 4, 5 * k + 5} \cup {5 * b + 6}
                          \cup (IF k # b THEN {5 * k + 6, 5 * k + 7, 5 * k + 8} ELSE {})
    BY <1>3 DEF MulRound
  <2> QED
    BY <1>1, <2>1
<1> QED
  BY <1>1, <1>2, <1>3 DEF Multiplying, TicksToMultiply
-----------------------------------------------------------------------------
(* The program for the greatest common divisor.                             *)
LEMMA DividesIs ==
  ASSUME NEW d \in Nat, NEW x \in Nat
  PROVE  Divides(d, x) <=> \E q \in Nat : x = d * q
<1>1. ASSUME NEW q \in Nat, x = d * q PROVE \E p \in 0 .. x : x = d * p
  <2>1. CASE x = 0
    <3>1. d * 0 = 0
      OBVIOUS
    <3> QED
      BY <2>1, <3>1
  <2>2. CASE x # 0
    <3>1. d # 0
      <4>1. SUFFICES ASSUME d = 0 PROVE FALSE
        OBVIOUS
      <4>2. 0 * q = 0
        OBVIOUS
      <4> QED
        BY <1>1, <2>2, <4>1, <4>2
    <3> DEFINE c == d - 1
               z == c * q
    <3>2. c \in Nat /\ z \in Nat /\ d * q = q + z
      BY <3>1
    <3> HIDE DEF c, z
    <3>3. x = q + z
      BY <1>1, <3>2
    <3>4. q \in 0 .. x
      BY <3>2, <3>3
    <3> QED
      BY <1>1, <3>4
  <2> QED
    BY <2>1, <2>2
<1>2. 0 .. x \subseteq Nat
  OBVIOUS
<1> QED
  BY <1>1, <1>2 DEF Divides

LEMMA Distributes ==
  ASSUME NEW d \in Nat, NEW p \in Nat, NEW q \in Nat
  PROVE  /\ d * (p + q) = d * p + d * q
         /\ q <= p => d * (p - q) = d * p - d * q
         /\ d * p \in Nat /\ d * q \in Nat
         /\ p < q => d * p <= d * q
<1>1. d * (p + q) = d * p + d * q /\ d * (p - q) = d * p - d * q
  OBVIOUS
<1>2. d * p \in Nat /\ d * q \in Nat
  OBVIOUS
<1>3. ASSUME p < q PROVE d * p <= d * q
  <2> DEFINE r == q - p
             u == d * r
             v == d * p
             w == d * q
  <2>1. r \in Nat /\ u \in Nat /\ v \in Nat /\ w = v + u
    BY <1>3
  <2> HIDE DEF u, v, w
  <2>2. v <= w
    BY <2>1
  <2> QED
    BY <2>2 DEF v, w
<1> QED
  BY <1>1, <1>2, <1>3

(* Taking one number off the other leaves their common divisors.            *)
LEMMA DividesDifference ==
  ASSUME NEW d \in Nat, NEW x \in Nat, NEW y \in Nat, y < x
  PROVE  Divides(d, x) /\ Divides(d, y) <=> Divides(d, x - y) /\ Divides(d, y)
<1> DEFINE z == x - y
<1>1. z \in Nat /\ x = z + y
  OBVIOUS
<1> HIDE DEF z
<1>2. ASSUME NEW p \in Nat, NEW q \in Nat, z = d * p, y = d * q
      PROVE  Divides(d, x)
  <2> DEFINE u == d * (p + q)
  <2>1. u = d * p + d * q
    BY Distributes
  <2> HIDE DEF u
  <2>2. x = u
    BY <1>1, <1>2, <2>1
  <2>3. p + q \in Nat
    OBVIOUS
  <2> QED
    BY <2>2, <2>3, DividesIs DEF u
<1>3. ASSUME NEW p \in Nat, NEW q \in Nat, x = d * p, y = d * q
      PROVE  Divides(d, z)
  <2>1. q <= p
    <3>1. SUFFICES ASSUME p < q PROVE FALSE
      OBVIOUS
    <3>2. d * p <= d * q
      BY <3>1, Distributes
    <3> QED
      BY <1>3, <3>2
  <2> DEFINE u == d * (p - q)
  <2>2. u = d * p - d * q
    BY <2>1, Distributes
  <2> HIDE DEF u
  <2>3. z = u
    BY <1>1, <1>3, <2>2
  <2>4. p - q \in Nat
    BY <2>1
  <2> QED
    BY <1>1, <2>3, <2>4, DividesIs DEF u
<1>4. /\ Divides(d, x) <=> \E q \in Nat : x = d * q
      /\ Divides(d, y) <=> \E q \in Nat : y = d * q
      /\ Divides(d, z) <=> \E q \in Nat : z = d * q
  BY <1>1, DividesIs
<1>5. Divides(d, x) /\ Divides(d, y) <=> Divides(d, z) /\ Divides(d, y)
  BY <1>2, <1>3, <1>4, Zenon
<1> QED
  BY <1>5 DEF z
(* x and y stand for a and b: they have the same common divisors, and the   *)
(* larger of them has shrunk by one for every eight ticks.                  *)
Longest(a, b) == IF a < b THEN b ELSE a

Paired(a, b, x, y, s) ==
  /\ x \in Word /\ y \in Word /\ s \in Nat
  /\ (x = 0) <=> (a = 0)
  /\ (y = 0) <=> (b = 0)
  /\ \A d \in Nat : Divides(d, x) /\ Divides(d, y) <=> Divides(d, a) /\ Divides(d, b)
  /\ ((a = 0) <=> (b = 0)) =>
       \E h \in Nat : x <= h /\ y <= h /\ s + 8 * h <= 8 * Longest(a, b) + 2

(* A round of the loop that began after s ticks with x and y.               *)
DivRound(x, y, s, m, t) ==
  /\ ~m.halt
  /\ \/ /\ m.pc = 2 /\ t = s /\ m.reg[0] = x /\ m.reg[1] = y
     \/ /\ m.pc = 3 /\ t = s + 1 /\ m.reg[0] = x /\ m.reg[1] = y /\ m.reg[2] = x
     \/ /\ m.pc = 4 /\ t = s + 2 /\ m.reg[0] = x /\ m.reg[1] = y
        /\ m.reg[2] = (x - y) % Size /\ m.zero = (x = y) /\ m.carry = (x >= y)
     \/ /\ m.pc = 5 /\ t = s + 3 /\ m.reg[0] = x /\ m.reg[1] = y
        /\ m.reg[2] = (x - y) % Size /\ x # y /\ m.carry = (x >= y)
     \/ /\ m.pc = 6 /\ t = s + 4 /\ m.reg[1] = y /\ m.reg[2] = x - y /\ y < x
     \/ /\ m.pc = 7 /\ t = s + 5 /\ m.reg[0] = x - y /\ m.reg[1] = y /\ y < x
     \/ /\ m.pc = 8 /\ t = s + 4 /\ m.reg[0] = x /\ m.reg[1] = y /\ x < y
     \/ /\ m.pc = 9 /\ t = s + 5 /\ m.reg[0] = x /\ m.reg[2] = y /\ x < y
     \/ /\ m.pc = 10 /\ t = s + 6 /\ m.reg[0] = x /\ m.reg[2] = y - x /\ x < y
     \/ /\ m.pc = 11 /\ t = s + 7 /\ m.reg[0] = x /\ m.reg[1] = y - x /\ x < y
     \/ /\ m.pc = 12 /\ t = s + 3 /\ m.reg[0] = x /\ x = y

DivLoads(a, m, t) ==
  /\ ~m.halt /\ t \in 0 .. 1 /\ m.pc = t
  /\ t = 1 => m.reg[0] = a

Dividing(a, b, m, t, out) ==
  \/ DivLoads(a, m, t) /\ out = <<>>
  \/ /\ \E x \in Word, y \in Word, s \in Nat : Paired(a, b, x, y, s) /\ DivRound(x, y, s, m, t)
     /\ out = <<>>
  \/ \E x \in Word, s \in Nat :
       /\ Paired(a, b, x, x, s) /\ out = <<x>>
       /\ \/ ~m.halt /\ m.pc = 13 /\ t = s + 4
          \/ m.halt /\ t = s + 5

LEMMA DivWords ==
  ASSUME NEW a, NEW b
  PROVE  LET p == gcd(a, b)
         IN  /\ Fetch(p, 0) = ldi(0, a) /\ Fetch(p, 1) = ldi(1, b)
             /\ Fetch(p, 2) = binary(MOV, 2, 0) /\ Fetch(p, 3) = binary(SUB, 2, 1)
             /\ Fetch(p, 4) = branch(JZ, 12) /\ Fetch(p, 5) = branch(JNC, 8)
             /\ Fetch(p, 6) = binary(MOV, 0, 2) /\ Fetch(p, 7) = branch(JMP, 2)
             /\ Fetch(p, 8) = binary(MOV, 2, 1) /\ Fetch(p, 9) = binary(SUB, 2, 0)
             /\ Fetch(p, 10) = binary(MOV, 1, 2) /\ Fetch(p, 11) = branch(JMP, 2)
             /\ Fetch(p, 12) = output(0) /\ Fetch(p, 13) = instruction(HLT, 0, 0, 0)
BY DEF gcd, Fetch

(* The larger operand is replaced by the difference.                        *)
LEMMA PairedSmaller ==
  ASSUME NEW a \in Word, NEW b \in Word, NEW x, NEW y, NEW s, Paired(a, b, x, y, s), y < x,
         NEW r \in {6, 8}
  PROVE  Paired(a, b, x - y, y, s + r)
<1>1. Size \in Nat /\ Size > 0
  BY SizeIs
<1> DEFINE L == Longest(a, b)
           S == Size
<1>2. /\ x \in Nat /\ y \in Nat /\ s \in Nat /\ a \in Nat /\ b \in Nat /\ L \in Nat /\ x < S
      /\ y < S
  <2>1. x \in Word /\ y \in Word /\ s \in Nat /\ a \in Word /\ b \in Word
    BY DEF Paired
  <2> HIDE DEF S, L
  <2>2. /\ x \in Nat /\ y \in Nat /\ s \in Nat /\ a \in Nat /\ b \in Nat /\ x < S /\ y < S
    BY <1>1, <2>1 DEF Word, S
  <2>3. L \in Nat
    BY <2>2 DEF Longest, L
  <2> QED
    BY <2>2, <2>3
<1>3. /\ (x = 0) <=> (a = 0)
      /\ (y = 0) <=> (b = 0)
  BY DEF Paired
<1>4. x - y \in Word /\ y \in Word /\ s + r \in Nat
  <2> HIDE DEF S
  <2> QED
    BY <1>1, <1>2 DEF Word, S
<1>5. (x - y = 0) <=> (a = 0)
  BY <1>2, <1>3
<1>6. \A d \in Nat : Divides(d, x - y) /\ Divides(d, y) <=> Divides(d, a) /\ Divides(d, b)
  <2>1. \A d \in Nat : Divides(d, x) /\ Divides(d, y) <=> Divides(d, x - y) /\ Divides(d, y)
    BY <1>2, DividesDifference
  <2>2. \A d \in Nat : Divides(d, x) /\ Divides(d, y) <=> Divides(d, a) /\ Divides(d, b)
    BY DEF Paired
  <2> QED
    BY <2>1, <2>2, Zenon
<1>7. ASSUME (a = 0) <=> (b = 0)
      PROVE  \E h \in Nat : x - y <= h /\ y <= h /\ (s + r) + 8 * h <= 8 * L + 2
  <2>1. PICK h \in Nat : x <= h /\ y <= h /\ s + 8 * h <= 8 * L + 2
    BY <1>7 DEF Paired
  <2>2. y > 0 /\ h > 0
    BY <1>2, <1>3, <1>7, <2>1
  <2> HIDE DEF L
  <2>3. /\ h - 1 \in Nat /\ x - y <= h - 1 /\ y <= h - 1
        /\ (s + r) + 8 * (h - 1) <= 8 * L + 2
    BY <1>2, <2>1, <2>2
  <2> QED
    BY <2>3
<1> QED
  BY <1>3, <1>4, <1>5, <1>6, <1>7, Zenon DEF Paired

LEMMA PairedSwapped ==
  ASSUME NEW a \in Word, NEW b \in Word, NEW x, NEW y, NEW s, Paired(a, b, x, y, s)
  PROVE  Paired(b, a, y, x, s)
<1>1. Longest(b, a) = Longest(a, b)
  <2>1. a \in Nat /\ b \in Nat
    BY SizeIs DEF Word
  <2> QED
    BY <2>1 DEF Longest
<1>2. Longest(b, a) = Longest(a, b) /\ Paired(a, b, x, y, s)
  BY <1>1
<1> QED
  BY <1>2, Zenon DEF Paired
LEMMA DifferenceOfWords ==
  ASSUME NEW x \in Word, NEW y \in Word
  PROVE  /\ (x - y) % Size = 0 <=> x = y
         /\ y <= x => (x - y) % Size = x - y
<1>1. Size \in Nat /\ Size > 0 /\ x \in Nat /\ y \in Nat /\ x < Size /\ y < Size
  <2>1. Size \in Nat /\ Size > 0
    BY SizeIs
  <2> HIDE DEF Size
  <2> QED
    BY <2>1 DEF Word
<1>2. ASSUME y <= x PROVE (x - y) % Size = x - y
  <2>1. x - y \in Word
    <3> HIDE DEF Size
    <3> QED
      BY <1>1, <1>2 DEF Word
  <2> QED
    BY <2>1, SmallModulo
<1>3. ASSUME x < y PROVE (x - y) % Size # 0
  <2> DEFINE n == Size
             t == x - y
  <2>1. n \in Nat /\ n > 0 /\ t \in Int /\ -n < t /\ t < 0
    <3> HIDE DEF Size
    <3> QED
      BY <1>1, <1>3
  <2>2. t + n \in Word
    <3> HIDE DEF t
    <3>1. t + n \in 0 .. n - 1
      <4> HIDE DEF n
      <4> QED
        BY <2>1
    <3> QED
      BY <3>1, Zenon DEF Word, n
  <2> HIDE DEF t
  <2>3. (t + n) % n = t + n
    BY <2>2, SmallModulo
  <2> HIDE DEF n
  <2>4. (t + n) % n = t % n
    BY <2>1
  <2>5. t % n # 0
    BY <2>1, <2>3, <2>4
  <2> QED
    BY <2>5, Zenon DEF t, n
<1>4. x = y => (x - y) % Size = 0
  <2>1. x = y => x - y = 0
    BY <1>1
  <2> QED
    BY <1>1, <1>2, <2>1
<1> QED
  BY <1>1, <1>2, <1>3, <1>4

LEMMA DivRoundStep ==
  ASSUME W >= 4, NEW a, NEW b, NEW x \in Word, NEW y \in Word, NEW s \in Nat, NEW m, NEW t,
         DivRound(x, y, s, m, t), m.pc # 12, NEW w, w = Fetch(gcd(a, b), m.pc)
  PROVE  LET n == Execute(m, w)
         IN  /\ opcode(w) # OUT
             /\ \/ DivRound(x, y, s, n, t + 1)
                \/ y < x /\ DivRound(x - y, y, s + 6, n, t + 1)
                \/ x < y /\ DivRound(x, y - x, s + 8, n, t + 1)
<1> DEFINE n == Execute(m, w)
           e == (x - y) % Size
<1>1. Size \in Nat /\ Size >= 16
  BY SizeIsEnough
<1>2. x \in Nat /\ y \in Nat /\ 2 \in Word /\ 8 \in Word /\ 12 \in Word
  <2> HIDE DEF Size
  <2> QED
    BY <1>1 DEF Word
<1>3. 0 \in Register /\ 1 \in Register /\ 2 \in Register /\ 3 \in Register
  BY DEF Register
<1>4. /\ e = 0 <=> x = y
      /\ y <= x => e = x - y
  BY DifferenceOfWords
<1> HIDE DEF n, e
<1>5. /\ ~m.halt
      /\ \/ m.pc = 2 /\ t = s /\ m.reg[0] = x /\ m.reg[1] = y
         \/ m.pc = 3 /\ t = s + 1 /\ m.reg[0] = x /\ m.reg[1] = y /\ m.reg[2] = x
         \/ /\ m.pc = 4 /\ t = s + 2 /\ m.reg[0] = x /\ m.reg[1] = y
            /\ m.reg[2] = e /\ m.zero = (x = y) /\ m.carry = (x >= y)
         \/ /\ m.pc = 5 /\ t = s + 3 /\ m.reg[0] = x /\ m.reg[1] = y
            /\ m.reg[2] = e /\ x # y /\ m.carry = (x >= y)
         \/ m.pc = 6 /\ t = s + 4 /\ m.reg[1] = y /\ m.reg[2] = x - y /\ y < x
         \/ m.pc = 7 /\ t = s + 5 /\ m.reg[0] = x - y /\ m.reg[1] = y /\ y < x
         \/ m.pc = 8 /\ t = s + 4 /\ m.reg[0] = x /\ m.reg[1] = y /\ x < y
         \/ m.pc = 9 /\ t = s + 5 /\ m.reg[0] = x /\ m.reg[2] = y /\ x < y
         \/ m.pc = 10 /\ t = s + 6 /\ m.reg[0] = x /\ m.reg[2] = y - x /\ x < y
         \/ m.pc = 11 /\ t = s + 7 /\ m.reg[0] = x /\ m.reg[1] = y - x /\ x < y
  BY Zenon DEF DivRound, e
<1>6. Ready(m)
  <2> HIDE DEF Size
  <2> QED
    BY <1>1, <1>5 DEF Ready
<1>7. CASE m.pc = 2
  <2>1. w = binary(MOV, 2, 0)
    BY <1>7, DivWords
  <2>2. Goes(m, n, m.pc + 1, 2, m.reg[0]) /\ opcode(w) # OUT
    BY <1>3, <1>6, <2>1, DoMov DEF n
  <2>3. ~n.halt /\ n.pc = 3 /\ t + 1 = s + 1 /\ n.reg[0] = x /\ n.reg[1] = y /\ n.reg[2] = x
    BY <1>2, <1>3, <1>5, <1>7, <2>2 DEF Goes
  <2>4. DivRound(x, y, s, n, t + 1)
    BY <2>3, Zenon DEF DivRound
  <2> QED
    BY <2>2, <2>4 DEF n
<1>8. CASE m.pc = 3
  <2>1. w = binary(SUB, 2, 1)
    BY <1>8, DivWords
  <2>2. m.reg[0] = x /\ m.reg[1] = y /\ m.reg[2] = x /\ t = s + 1
    BY <1>5, <1>8
  <2>3. /\ Goes(m, n, m.pc + 1, 2, (m.reg[2] - m.reg[1]) % Size)
        /\ n.zero = ((m.reg[2] - m.reg[1]) % Size = 0)
        /\ n.carry = (m.reg[2] >= m.reg[1]) /\ opcode(w) # OUT
    BY <1>3, <1>6, <2>1, DoSub DEF n
  <2>4. /\ Goes(m, n, m.pc + 1, 2, e) /\ n.zero = (e = 0) /\ n.carry = (x >= y)
    BY <2>2, <2>3, Zenon DEF e
  <2>5. n.zero = (x = y)
    BY <1>4, <2>4
  <2>6. ~n.halt /\ n.pc = 4 /\ t + 1 = s + 2 /\ n.reg[0] = x /\ n.reg[1] = y /\ n.reg[2] = e
    BY <1>2, <1>3, <1>5, <1>8, <2>2, <2>4 DEF Goes
  <2>7. DivRound(x, y, s, n, t + 1)
    BY <2>4, <2>5, <2>6, Zenon DEF DivRound, e
  <2> QED
    BY <2>3, <2>7 DEF n
<1>9. CASE m.pc = 4
  <2>1. w = branch(JZ, 12)
    BY <1>9, DivWords
  <2>2. /\ ~n.halt /\ \A r \in Register : n.reg[r] = m.reg[r]
        /\ m.zero => n.pc = 12
        /\ ~m.zero => n.pc = 5
        /\ n.carry = m.carry /\ opcode(w) # OUT
    <3>1. JZ # JMP /\ JZ # JNC /\ m.pc + 1 = 5
      BY <1>9 DEF JZ, JMP, JNC
    <3> QED
      BY <1>2, <1>6, <2>1, <3>1, DoBranch DEF n
  <2>3. /\ t = s + 2 /\ m.reg[0] = x /\ m.reg[1] = y /\ m.reg[2] = e
        /\ m.zero = (x = y) /\ m.carry = (x >= y)
    BY <1>5, <1>9
  <2>4. /\ n.reg[0] = x /\ n.reg[1] = y /\ n.reg[2] = e /\ n.carry = (x >= y)
        /\ t + 1 = s + 3
    BY <1>3, <2>2, <2>3
  <2>5. CASE x = y
    <3>1. n.pc = 12
      BY <2>2, <2>3, <2>5, Zenon
    <3>2. DivRound(x, y, s, n, t + 1)
      BY <2>2, <2>4, <2>5, <3>1, Zenon DEF DivRound
    <3> QED
      BY <2>2, <3>2 DEF n
  <2>6. CASE x # y
    <3>1. n.pc = 5
      BY <2>2, <2>3, <2>6, Zenon
    <3>2. DivRound(x, y, s, n, t + 1)
      BY <2>2, <2>4, <2>6, <3>1, Zenon DEF DivRound, e
    <3> QED
      BY <2>2, <3>2 DEF n
  <2> QED
    BY <2>5, <2>6
<1>10. CASE m.pc = 5
  <2>1. w = branch(JNC, 8)
    BY <1>10, DivWords
  <2>2. /\ ~n.halt /\ \A r \in Register : n.reg[r] = m.reg[r]
        /\ ~m.carry => n.pc = 8
        /\ m.carry => n.pc = 6
        /\ opcode(w) # OUT
    <3>1. JNC # JMP /\ JNC # JZ /\ m.pc + 1 = 6
      BY <1>10 DEF JZ, JMP, JNC
    <3> QED
      BY <1>2, <1>6, <2>1, <3>1, DoBranch DEF n
  <2>3. /\ t = s + 3 /\ m.reg[0] = x /\ m.reg[1] = y /\ m.reg[2] = e /\ x # y
        /\ m.carry = (x >= y)
    BY <1>5, <1>10
  <2>4. n.reg[0] = x /\ n.reg[1] = y /\ n.reg[2] = e /\ t + 1 = s + 4
    BY <1>3, <2>2, <2>3
  <2>5. CASE y < x
    <3>1. n.pc = 6 /\ n.reg[2] = x - y
      <4>1. x >= y /\ y <= x
        BY <1>2, <2>5
      <4> QED
        BY <1>4, <2>2, <2>3, <2>4, <4>1, Zenon
    <3>2. DivRound(x, y, s, n, t + 1)
      BY <2>2, <2>4, <2>5, <3>1, Zenon DEF DivRound
    <3> QED
      BY <2>2, <3>2 DEF n
  <2>6. CASE x < y
    <3>1. n.pc = 8
      <4>1. ~(x >= y)
        BY <1>2, <2>6
      <4> QED
        BY <2>2, <2>3, <4>1, Zenon
    <3>2. DivRound(x, y, s, n, t + 1)
      BY <2>2, <2>4, <2>6, <3>1, Zenon DEF DivRound
    <3> QED
      BY <2>2, <3>2 DEF n
  <2> QED
    BY <1>2, <2>3, <2>5, <2>6
<1>11. CASE m.pc = 6
  <2>1. w = binary(MOV, 0, 2)
    BY <1>11, DivWords
  <2>2. Goes(m, n, m.pc + 1, 0, m.reg[2]) /\ opcode(w) # OUT
    BY <1>3, <1>6, <2>1, DoMov DEF n
  <2>3. ~n.halt /\ n.pc = 7 /\ t + 1 = s + 5 /\ n.reg[0] = x - y /\ n.reg[1] = y /\ y < x
    BY <1>2, <1>3, <1>5, <1>11, <2>2 DEF Goes
  <2>4. DivRound(x, y, s, n, t + 1)
    BY <2>3, Zenon DEF DivRound
  <2> QED
    BY <2>2, <2>4 DEF n
<1>12. CASE m.pc = 7
  <2>1. w = branch(JMP, 2)
    BY <1>12, DivWords
  <2>2. /\ ~n.halt /\ n.pc = 2 /\ \A r \in Register : n.reg[r] = m.reg[r]
        /\ opcode(w) # OUT
    BY <1>2, <1>6, <2>1, DoBranch DEF n
  <2>3. y < x /\ n.reg[0] = x - y /\ n.reg[1] = y /\ t + 1 = s + 6
    BY <1>2, <1>3, <1>5, <1>12, <2>2
  <2>4. DivRound(x - y, y, s + 6, n, t + 1)
    BY <2>2, <2>3, Zenon DEF DivRound
  <2> QED
    BY <2>2, <2>3, <2>4 DEF n
<1>13. CASE m.pc = 8
  <2>1. w = binary(MOV, 2, 1)
    BY <1>13, DivWords
  <2>2. Goes(m, n, m.pc + 1, 2, m.reg[1]) /\ opcode(w) # OUT
    BY <1>3, <1>6, <2>1, DoMov DEF n
  <2>3. ~n.halt /\ n.pc = 9 /\ t + 1 = s + 5 /\ n.reg[0] = x /\ n.reg[2] = y /\ x < y
    BY <1>2, <1>3, <1>5, <1>13, <2>2 DEF Goes
  <2>4. DivRound(x, y, s, n, t + 1)
    BY <2>3, Zenon DEF DivRound
  <2> QED
    BY <2>2, <2>4 DEF n
<1>14. CASE m.pc = 9
  <2>1. w = binary(SUB, 2, 0)
    BY <1>14, DivWords
  <2>2. m.reg[0] = x /\ m.reg[2] = y /\ t = s + 5 /\ x < y
    BY <1>5, <1>14
  <2>3. Goes(m, n, m.pc + 1, 2, (m.reg[2] - m.reg[0]) % Size) /\ opcode(w) # OUT
    BY <1>3, <1>6, <2>1, DoSub DEF n
  <2>4. (y - x) % Size = y - x
    <3>1. x <= y
      BY <1>2, <2>2
    <3> QED
      BY <3>1, DifferenceOfWords
  <2>5. Goes(m, n, m.pc + 1, 2, y - x)
    BY <2>2, <2>3, <2>4, Zenon
  <2>6. ~n.halt /\ n.pc = 10 /\ t + 1 = s + 6 /\ n.reg[0] = x /\ n.reg[2] = y - x
    BY <1>2, <1>3, <1>5, <1>14, <2>2, <2>5 DEF Goes
  <2>7. DivRound(x, y, s, n, t + 1)
    BY <2>2, <2>6, Zenon DEF DivRound
  <2> QED
    BY <2>3, <2>7 DEF n
<1>15. CASE m.pc = 10
  <2>1. w = binary(MOV, 1, 2)
    BY <1>15, DivWords
  <2>2. Goes(m, n, m.pc + 1, 1, m.reg[2]) /\ opcode(w) # OUT
    BY <1>3, <1>6, <2>1, DoMov DEF n
  <2>3. ~n.halt /\ n.pc = 11 /\ t + 1 = s + 7 /\ n.reg[0] = x /\ n.reg[1] = y - x /\ x < y
    BY <1>2, <1>3, <1>5, <1>15, <2>2 DEF Goes
  <2>4. DivRound(x, y, s, n, t + 1)
    BY <2>3, Zenon DEF DivRound
  <2> QED
    BY <2>2, <2>4 DEF n
<1>16. CASE m.pc = 11
  <2>1. w = branch(JMP, 2)
    BY <1>16, DivWords
  <2>2. /\ ~n.halt /\ n.pc = 2 /\ \A r \in Register : n.reg[r] = m.reg[r]
        /\ opcode(w) # OUT
    BY <1>2, <1>6, <2>1, DoBranch DEF n
  <2>3. x < y /\ n.reg[0] = x /\ n.reg[1] = y - x /\ t + 1 = s + 8
    BY <1>2, <1>3, <1>5, <1>16, <2>2
  <2>4. DivRound(x, y - x, s + 8, n, t + 1)
    BY <2>2, <2>3, Zenon DEF DivRound
  <2> QED
    BY <2>2, <2>3, <2>4 DEF n
<1> QED
  BY <1>5, <1>7, <1>8, <1>9, <1>10, <1>11, <1>12, <1>13, <1>14, <1>15, <1>16 DEF DivRound

LEMMA DivLoadsStep ==
  ASSUME W >= 4, NEW a \in Word, NEW b \in Word, NEW m, NEW t, DivLoads(a, m, t),
         NEW w, w = Fetch(gcd(a, b), m.pc)
  PROVE  LET n == Execute(m, w)
         IN  /\ opcode(w) # OUT
             /\ DivLoads(a, n, t + 1) \/ (Paired(a, b, a, b, 2) /\ DivRound(a, b, 2, n, t + 1))
<1> DEFINE n == Execute(m, w)
<1>1. Size \in Nat /\ Size >= 16
  BY SizeIsEnough
<1>2. Ready(m)
  <2> HIDE DEF Size
  <2> QED
    BY <1>1 DEF DivLoads, Ready
<1>3. 0 \in Register /\ 1 \in Register
  BY DEF Register
<1>4. CASE t = 0
  <2>1. w = ldi(0, a)
    BY <1>4, DivWords DEF DivLoads
  <2>2. Goes(m, n, m.pc + 1, 0, a) /\ opcode(w) # OUT
    BY <1>2, <1>3, <2>1, DoLdi
  <2> HIDE DEF n
  <2>3. DivLoads(a, n, t + 1)
    BY <1>3, <1>4, <2>2 DEF DivLoads, Goes
  <2> QED
    BY <2>2, <2>3 DEF n
<1>5. CASE t = 1
  <2>1. w = ldi(1, b)
    BY <1>5, DivWords DEF DivLoads
  <2>2. Goes(m, n, m.pc + 1, 1, b) /\ opcode(w) # OUT
    BY <1>2, <1>3, <2>1, DoLdi
  <2> HIDE DEF n
  <2>3. ~n.halt /\ n.pc = 2 /\ t + 1 = 2 /\ n.reg[0] = a /\ n.reg[1] = b
    BY <1>3, <1>5, <2>2 DEF DivLoads, Goes
  <2>4. DivRound(a, b, 2, n, t + 1)
    BY <2>3, Zenon DEF DivRound
  <2> DEFINE h == Longest(a, b)
  <2>5. h \in Nat /\ a <= h /\ b <= h
    <3>1. a \in Nat /\ b \in Nat
      BY <1>1 DEF Word
    <3> QED
      BY <3>1 DEF Longest
  <2> HIDE DEF h
  <2>6. 2 \in Nat /\ 2 + 8 * h <= 8 * h + 2
    BY <2>5
  <2>7. Paired(a, b, a, b, 2)
    BY <2>5, <2>6, Zenon DEF Paired, h
  <2> QED
    BY <2>2, <2>4, <2>7 DEF n
<1> QED
  BY <1>4, <1>5 DEF DivLoads

LEMMA DivStep ==
  ASSUME W >= 4, NEW a \in Word, NEW b \in Word, NEW m, NEW t \in Nat, NEW out,
         Dividing(a, b, m, t, out), ~m.halt, NEW w, w = Fetch(gcd(a, b), m.pc)
  PROVE  LET n == Execute(m, w)
         IN  Dividing(a, b, n, t + 1, out \o Tells(w, n))
<1> DEFINE n == Execute(m, w)
<1>1. 2 \in Nat
  OBVIOUS
<1>2. CASE DivLoads(a, m, t) /\ out = <<>>
  <2>1. /\ opcode(w) # OUT
        /\ DivLoads(a, n, t + 1) \/ (Paired(a, b, a, b, 2) /\ DivRound(a, b, 2, n, t + 1))
    BY <1>2, DivLoadsStep
  <2> HIDE DEF n
  <2>2. out \o Tells(w, n) = <<>>
    BY <1>2, <2>1, EmptyIsSeq, TellsNothing
  <2> QED
    BY <1>1, <2>1, <2>2, Zenon DEF Dividing, n
<1>3. ASSUME NEW x \in Word, NEW y \in Word, NEW s \in Nat, Paired(a, b, x, y, s),
             DivRound(x, y, s, m, t), m.pc # 12, out = <<>>
      PROVE  Dividing(a, b, n, t + 1, out \o Tells(w, n))
  <2>1. /\ opcode(w) # OUT
        /\ \/ DivRound(x, y, s, n, t + 1)
           \/ y < x /\ DivRound(x - y, y, s + 6, n, t + 1)
           \/ x < y /\ DivRound(x, y - x, s + 8, n, t + 1)
    BY <1>3, DivRoundStep
  <2> HIDE DEF n
  <2>2. out \o Tells(w, n) = <<>>
    BY <1>3, <2>1, EmptyIsSeq, TellsNothing
  <2>3. ASSUME NEW u, NEW v, NEW r, Paired(a, b, u, v, r), DivRound(u, v, r, n, t + 1)
        PROVE  Dividing(a, b, n, t + 1, out \o Tells(w, n))
    <3>1. u \in Word /\ v \in Word /\ r \in Nat
      BY <2>3 DEF Paired
    <3> QED
      BY <2>2, <2>3, <3>1, Zenon DEF Dividing
  <2>4. CASE y < x /\ DivRound(x - y, y, s + 6, n, t + 1)
    <3>1. Paired(a, b, x - y, y, s + 6)
      BY <1>3, <2>4, PairedSmaller
    <3> QED
      BY <2>3, <2>4, <3>1 DEF n
  <2>5. CASE x < y /\ DivRound(x, y - x, s + 8, n, t + 1)
    <3>1. Paired(b, a, y, x, s)
      BY <1>3, PairedSwapped
    <3>2. Paired(b, a, y - x, x, s + 8)
      BY <2>5, <3>1, PairedSmaller
    <3>3. Paired(a, b, x, y - x, s + 8)
      BY <3>2, PairedSwapped
    <3> QED
      BY <2>3, <2>5, <3>3 DEF n
  <2> QED
    BY <1>3, <2>1, <2>3, <2>4, <2>5 DEF n
<1>4. ASSUME NEW x \in Word, NEW y \in Word, NEW s \in Nat, Paired(a, b, x, y, s),
             DivRound(x, y, s, m, t), m.pc = 12, out = <<>>
      PROVE  Dividing(a, b, n, t + 1, out \o Tells(w, n))
  <2>1. x = y /\ t = s + 3 /\ m.reg[0] = x
    BY <1>4 DEF DivRound
  <2>2. w = output(0)
    BY <1>4, DivWords
  <2>3. Ready(m) /\ 0 \in Register
    <3>1. Size \in Nat /\ Size >= 16
      BY SizeIsEnough
    <3> HIDE DEF Size
    <3> QED
      BY <1>4, <3>1 DEF Ready, Register
  <2>4. ~n.halt /\ n.pc = m.pc + 1 /\ n.out = m.reg[0] /\ opcode(w) = OUT
    BY <2>2, <2>3, DoOut
  <2> HIDE DEF n
  <2>5. out \o Tells(w, n) = <<x>>
    BY <1>4, <2>1, <2>4 DEF Tells
  <2>6. n.pc = 13 /\ t + 1 = s + 4
    BY <1>4, <2>1, <2>4
  <2>7. Paired(a, b, x, x, s)
    BY <1>4, <2>1
  <2> QED
    BY <2>4, <2>5, <2>6, <2>7, Zenon DEF Dividing, n
<1>5. ASSUME NEW x \in Word, NEW s \in Nat, Paired(a, b, x, x, s), out = <<x>>,
             m.pc = 13, t = s + 4
      PROVE  Dividing(a, b, n, t + 1, out \o Tells(w, n))
  <2>1. w = instruction(HLT, 0, 0, 0)
    BY <1>5, DivWords
  <2>2. n.halt /\ opcode(w) # OUT
    BY <2>1, DoHlt
  <2>3. t + 1 = s + 5
    BY <1>5
  <2> HIDE DEF n
  <2>4. <<x>> \in Seq(Word)
    OBVIOUS
  <2>5. out \o Tells(w, n) = <<x>>
    BY <1>5, <2>2, <2>4, TellsNothing
  <2> QED
    BY <1>5, <2>2, <2>3, <2>5, Zenon DEF Dividing, n
<1> QED
  BY <1>2, <1>3, <1>4, <1>5, Zenon DEF Dividing

(* What it shows before it halts is the greatest common divisor, and with   *)
(* one operand zero it does not come to that.                               *)
LEMMA PairedEnds ==
  ASSUME NEW a \in Word, NEW b \in Word, NEW x, NEW s, Paired(a, b, x, x, s)
  PROVE  /\ (a = 0) <=> (b = 0)
         /\ IsGcd(x, a, b)
         /\ s + 5 <= TicksToDivide(a, b)
<1>1. (a = 0) <=> (b = 0)
  BY DEF Paired
<1>2. x \in Nat /\ s \in Nat /\ a \in Nat /\ b \in Nat /\ Word \subseteq Nat
  <2>1. Size \in Nat /\ Size > 0
    BY SizeIs
  <2> HIDE DEF Size
  <2> QED
    BY <2>1 DEF Paired, Word
<1>3. \A d \in Nat : Divides(d, x) /\ Divides(d, x) <=> Divides(d, a) /\ Divides(d, b)
  BY DEF Paired
<1>4. Divides(x, x)
  <2>1. x = x * 1 /\ 1 \in Nat
    BY <1>2
  <2> QED
    BY <1>2, <2>1, DividesIs
<1>5. IsGcd(x, a, b)
  BY <1>2, <1>3, <1>4, Zenon DEF IsGcd
<1>6. s + 5 <= TicksToDivide(a, b)
  <2> DEFINE L == Longest(a, b)
  <2>1. L \in Nat /\ TicksToDivide(a, b) = 8 * L + 7
    BY <1>2 DEF Longest, TicksToDivide
  <2>2. PICK h \in Nat : x <= h /\ s + 8 * h <= 8 * L + 2
    BY <1>1 DEF Paired
  <2> HIDE DEF L
  <2> QED
    BY <1>2, <2>1, <2>2
<1> QED
  BY <1>1, <1>5, <1>6

(* Its operands are both zero, or neither is.                               *)
Alike(a, b) == (a = 0) <=> (b = 0)

LEMMA DivHalts ==
  ASSUME NEW a \in Word, NEW b \in Word, NEW m, NEW t \in Nat, NEW out,
         Dividing(a, b, m, t, out)
  PROVE  /\ m.halt => Alike(a, b) /\ Len(out) = 1 /\ IsGcd(out[1], a, b)
         /\ Alike(a, b) => t <= TicksToDivide(a, b)
         /\ ~Alike(a, b) => out = <<>>
<1> DEFINE L == Longest(a, b)
           T == TicksToDivide(a, b)
<1>1. a \in Nat /\ b \in Nat /\ L \in Nat /\ T = 8 * L + 7
  <2>1. Size \in Nat /\ Size > 0
    BY SizeIs
  <2>2. a \in Nat /\ b \in Nat
    BY <2>1 DEF Word
  <2> QED
    BY <2>2 DEF Longest, TicksToDivide
<1>2. CASE DivLoads(a, m, t) /\ out = <<>>
  <2>1. ~m.halt /\ t \in 0 .. 1
    BY <1>2 DEF DivLoads
  <2> HIDE DEF L, T
  <2>2. t <= T
    BY <1>1, <2>1
  <2> QED
    BY <1>2, <2>1, <2>2 DEF T
<1>3. ASSUME NEW x \in Word, NEW y \in Word, NEW s \in Nat, Paired(a, b, x, y, s),
             DivRound(x, y, s, m, t)
      PROVE  ~m.halt /\ (Alike(a, b) => t <= T)
  <2>1. ~m.halt
    BY <1>3 DEF DivRound
  <2>2. ASSUME Alike(a, b) PROVE t <= T
    <3>1. x \in Nat /\ y \in Nat
      <4>1. Size \in Nat /\ Size > 0
        BY SizeIs
      <4> HIDE DEF Size
      <4> QED
        BY <4>1 DEF Word
    <3>2. PICK h \in Nat : x <= h /\ y <= h /\ s + 8 * h <= 8 * L + 2
      BY <1>3, <2>2 DEF Paired, Alike
    <3>3. t <= s + 4 \/ (t <= s + 7 /\ (x < y \/ y < x))
      BY <1>3, <3>1 DEF DivRound
    <3>4. (x < y \/ y < x) => h >= 1
      BY <3>1, <3>2
    <3> HIDE DEF L, T
    <3> QED
      BY <1>1, <3>2, <3>3, <3>4
  <2> QED
    BY <2>1, <2>2
<1>4. ASSUME NEW x \in Word, NEW s \in Nat, Paired(a, b, x, x, s), out = <<x>>,
             t <= s + 5
      PROVE  Alike(a, b) /\ t <= T /\ Len(out) = 1 /\ IsGcd(out[1], a, b)
  <2>1. Alike(a, b)
    BY <1>4, PairedEnds DEF Alike
  <2>2. IsGcd(x, a, b) /\ s + 5 <= T
    BY <1>4, PairedEnds
  <2>3. Len(out) = 1 /\ out[1] = x
    BY <1>4
  <2>4. IsGcd(out[1], a, b)
    BY <2>2, <2>3, Zenon
  <2> HIDE DEF L, T
  <2>5. t <= T
    BY <1>1, <1>4, <2>2
  <2> QED
    BY <2>1, <2>3, <2>4, <2>5 DEF T
<1> QED
  <2>1. CASE DivLoads(a, m, t) /\ out = <<>>
    BY <1>2, <2>1
  <2>2. CASE /\ \E x \in Word, y \in Word, s \in Nat :
                  Paired(a, b, x, y, s) /\ DivRound(x, y, s, m, t)
             /\ out = <<>>
    <3>1. ~m.halt /\ (Alike(a, b) => t <= T)
      BY <1>3, <2>2, Zenon
    <3> QED
      BY <2>2, <3>1, Zenon DEF T
  <2>3. CASE \E x \in Word, s \in Nat :
               /\ Paired(a, b, x, x, s) /\ out = <<x>>
               /\ \/ ~m.halt /\ m.pc = 13 /\ t = s + 4
                  \/ m.halt /\ t = s + 5
    <3>1. PICK x \in Word, s \in Nat :
            /\ Paired(a, b, x, x, s) /\ out = <<x>>
            /\ \/ ~m.halt /\ m.pc = 13 /\ t = s + 4
               \/ m.halt /\ t = s + 5
      BY <2>3, Zenon
    <3>2. t <= s + 5
      BY <3>1
    <3>3. Alike(a, b) /\ t <= T /\ Len(out) = 1 /\ IsGcd(out[1], a, b)
      BY <1>4, <3>1, <3>2, Zenon
    <3> QED
      BY <3>3, Zenon DEF T
  <2> QED
    BY <2>1, <2>2, <2>3, Zenon DEF Dividing

LEMMA DivUnlike ==
  ASSUME NEW a \in Word, NEW b \in Word, NEW m, NEW t \in Nat, NEW out,
         Dividing(a, b, m, t, out), ~Alike(a, b)
  PROVE  out = <<>>
BY DivHalts, SMTT(60)

-----------------------------------------------------------------------------
(* The Fibonacci program.  First, that there is such a sequence.            *)
FibUpTo(n, g) == g = [k \in 0 .. n |-> IF k < 2 THEN k ELSE g[k - 1] + g[k - 2]]

LEMMA FibValues ==
  ASSUME NEW n \in Nat, NEW g, FibUpTo(n, g)
  PROVE  \A k \in 0 .. n : g[k] = IF k < 2 THEN k ELSE g[k - 1] + g[k - 2]
<1> DEFINE f == [k \in 0 .. n |-> IF k < 2 THEN k ELSE g[k - 1] + g[k - 2]]
<1>1. g = f
  BY DEF FibUpTo
<1>2. ASSUME NEW k \in 0 .. n PROVE f[k] = IF k < 2 THEN k ELSE g[k - 1] + g[k - 2]
  OBVIOUS
<1> HIDE DEF f
<1> QED
  BY <1>1, <1>2, Zenon

LEMMA FibPrefixes == \A n \in Nat : \E g : FibUpTo(n, g)
<1> DEFINE S == {n \in Nat : ~ \E g : FibUpTo(n, g)}
<1>1. ASSUME S # {} PROVE FALSE
  <2>1. S \in SUBSET Nat
    OBVIOUS
  <2> HIDE DEF S
  <2>2. PICK n \in S : \A k \in S : n <= k
    BY <1>1, <2>1, Least
  <2> USE DEF S
  <2>3. n \in Nat /\ ~ \E g : FibUpTo(n, g)
    OBVIOUS
  <2>4. CASE n = 0
    <3> DEFINE g == [k \in 0 .. 0 |-> k]
    <3>1. g = [k \in 0 .. 0 |-> IF k < 2 THEN k ELSE g[k - 1] + g[k - 2]]
      OBVIOUS
    <3>2. FibUpTo(0, g)
      BY <3>1, Zenon DEF FibUpTo
    <3> QED
      BY <2>3, <2>4, <3>2
  <2>5. CASE n # 0
    <3>1. n - 1 \in Nat /\ ~(n <= n - 1)
      BY <2>3, <2>5
    <3>2. PICK g : FibUpTo(n - 1, g)
      BY <2>2, <3>1
    <3> DEFINE v == IF n < 2 THEN n ELSE g[n - 1] + g[n - 2]
               h == [k \in 0 .. n |-> IF k = n THEN v ELSE g[k]]
    <3>3. \A k \in 0 .. n - 1 : g[k] = IF k < 2 THEN k ELSE g[k - 1] + g[k - 2]
      BY <3>1, <3>2, FibValues
    <3>4. ASSUME NEW k \in 0 .. n PROVE h[k] = IF k < 2 THEN k ELSE h[k - 1] + h[k - 2]
      <4>1. ASSUME k >= 2 PROVE h[k - 1] = g[k - 1] /\ h[k - 2] = g[k - 2]
        <5>1. k - 1 \in 0 .. n /\ k - 2 \in 0 .. n /\ k - 1 # n /\ k - 2 # n
          BY <2>3, <4>1
        <5> QED
          BY <5>1
      <4>2. CASE k = n
        <5>1. h[k] = v
          BY <4>2
        <5>2. ~(k < 2) => k >= 2
          OBVIOUS
        <5> HIDE DEF h
        <5> QED
          BY <4>1, <4>2, <5>1, <5>2, Zenon
      <4>3. CASE k # n
        <5>1. h[k] = g[k] /\ k \in 0 .. n - 1
          BY <2>3, <4>3
        <5>2. ~(k < 2) => k >= 2
          OBVIOUS
        <5> HIDE DEF h
        <5> QED
          BY <3>3, <4>1, <5>1, <5>2, Zenon
      <4> QED
        BY <4>2, <4>3
    <3>5. h = [k \in 0 .. n |-> h[k]]
      OBVIOUS
    <3> HIDE DEF h
    <3>6. FibUpTo(n, h)
      BY <3>4, <3>5, Zenon DEF FibUpTo
    <3> QED
      BY <2>3, <3>6
  <2> QED
    BY <2>4, <2>5
<1> QED
  BY <1>1

LEMMA FibAgree ==
  ASSUME NEW n \in Nat, NEW m \in Nat, NEW g, NEW h, FibUpTo(n, g), FibUpTo(m, h)
  PROVE  \A k \in Nat : k <= n /\ k <= m => g[k] = h[k]
<1> DEFINE S == {k \in Nat : k <= n /\ k <= m /\ g[k] # h[k]}
<1>1. ASSUME S # {} PROVE FALSE
  <2>1. S \in SUBSET Nat
    OBVIOUS
  <2> HIDE DEF S
  <2>2. PICK k \in S : \A j \in S : k <= j
    BY <1>1, <2>1, Least
  <2> USE DEF S
  <2>3. k \in Nat /\ k <= n /\ k <= m /\ g[k] # h[k] /\ k \in 0 .. n /\ k \in 0 .. m
    OBVIOUS
  <2>4. /\ g[k] = IF k < 2 THEN k ELSE g[k - 1] + g[k - 2]
        /\ h[k] = IF k < 2 THEN k ELSE h[k - 1] + h[k - 2]
    BY <2>3, FibValues
  <2>5. ASSUME ~(k < 2) PROVE g[k - 1] = h[k - 1] /\ g[k - 2] = h[k - 2]
    <3>1. /\ k - 1 \in Nat /\ k - 1 <= n /\ k - 1 <= m /\ ~(k <= k - 1)
          /\ k - 2 \in Nat /\ k - 2 <= n /\ k - 2 <= m /\ ~(k <= k - 2)
      BY <2>3, <2>5
    <3> QED
      BY <2>2, <3>1
  <2> QED
    BY <2>3, <2>4, <2>5, Zenon
<1> QED
  BY <1>1

LEMMA FibIs == \A n \in Nat : Fib[n] = IF n < 2 THEN n ELSE Fib[n - 1] + Fib[n - 2]
<1> DEFINE P(n) == CHOOSE g : FibUpTo(n, g)
           f == [n \in Nat |-> P(n)[n]]
<1>1. \A n \in Nat : FibUpTo(n, P(n))
  BY FibPrefixes, Zenon
<1> HIDE DEF P
<1>2. ASSUME NEW n \in Nat PROVE f[n] = IF n < 2 THEN n ELSE f[n - 1] + f[n - 2]
  <2>1. n \in 0 .. n
    OBVIOUS
  <2>2. P(n)[n] = IF n < 2 THEN n ELSE P(n)[n - 1] + P(n)[n - 2]
    BY <1>1, <2>1, FibValues, Zenon
  <2>3. ASSUME ~(n < 2) PROVE P(n)[n - 1] = f[n - 1] /\ P(n)[n - 2] = f[n - 2]
    <3>1. /\ n - 1 \in Nat /\ n - 1 <= n /\ n - 1 <= n - 1
          /\ n - 2 \in Nat /\ n - 2 <= n /\ n - 2 <= n - 2
      BY <2>3
    <3>2. FibUpTo(n, P(n)) /\ FibUpTo(n - 1, P(n - 1)) /\ FibUpTo(n - 2, P(n - 2))
      BY <1>1, <3>1, Zenon
    <3>3. P(n)[n - 1] = P(n - 1)[n - 1] /\ P(n)[n - 2] = P(n - 2)[n - 2]
      BY <3>1, <3>2, FibAgree
    <3> QED
      BY <3>1, <3>3
  <2>4. f[n] = P(n)[n]
    OBVIOUS
  <2> HIDE DEF f
  <2> QED
    BY <2>2, <2>3, <2>4, Zenon
<1>3. f = [n \in Nat |-> f[n]]
  OBVIOUS
<1> DEFINE R(u) == u = [n \in Nat |-> IF n < 2 THEN n ELSE u[n - 1] + u[n - 2]]
<1> HIDE DEF f
<1>4. R(f)
  BY <1>2, <1>3, Zenon
<1>5. Fib = CHOOSE u : R(u)
  BY Zenon DEF Fib
<1>6. R(Fib)
  <2> HIDE DEF R
  <2> QED
    BY <1>4, <1>5, Zenon
<1> DEFINE e == [n \in Nat |-> IF n < 2 THEN n ELSE Fib[n - 1] + Fib[n - 2]]
<1>7. Fib = e
  BY <1>6, Zenon
<1>8. \A n \in Nat : e[n] = IF n < 2 THEN n ELSE Fib[n - 1] + Fib[n - 2]
  OBVIOUS
<1> HIDE DEF e
<1> QED
  BY <1>7, <1>8, Zenon

LEMMA FibIsNat == \A n \in Nat : Fib[n] \in Nat
<1> DEFINE S == {n \in Nat : Fib[n] \notin Nat}
<1>1. ASSUME S # {} PROVE FALSE
  <2>1. S \in SUBSET Nat
    OBVIOUS
  <2> HIDE DEF S
  <2>2. PICK n \in S : \A k \in S : n <= k
    BY <1>1, <2>1, Least
  <2> USE DEF S
  <2>3. n \in Nat /\ Fib[n] \notin Nat
    OBVIOUS
  <2>4. Fib[n] = IF n < 2 THEN n ELSE Fib[n - 1] + Fib[n - 2]
    BY <2>3, FibIs
  <2>5. ~(n < 2)
    BY <2>3, <2>4
  <2>6. n - 1 \in Nat /\ n - 2 \in Nat /\ ~(n <= n - 1) /\ ~(n <= n - 2)
    BY <2>3, <2>5
  <2>7. Fib[n - 1] \in Nat /\ Fib[n - 2] \in Nat
    BY <2>2, <2>6
  <2> QED
    BY <2>3, <2>4, <2>5, <2>7
<1> QED
  BY <1>1

(* The words that hold the sequence.                                        *)
FibWord(n) == Fib[n] % Size

FirstOf(n) == [i \in 1 .. n |-> Fib[i - 1] % Size]

LEMMA FibWordIs ==
  ASSUME W >= 4
  PROVE  /\ FibWord(0) = 0 /\ FibWord(1) = 1
         /\ \A n \in Nat : (FibWord(n) + FibWord(n + 1)) % Size = FibWord(n + 2)
<1>1. Size \in Nat /\ Size >= 16
  BY SizeIsEnough
<1>2. 0 \in Word /\ 1 \in Word
  <2> HIDE DEF Size
  <2> QED
    BY <1>1 DEF Word
<1>3. Fib[0] = 0 /\ Fib[1] = 1
  BY FibIs
<1>4. FibWord(0) = 0 /\ FibWord(1) = 1
  BY <1>2, <1>3, SmallModulo DEF FibWord
<1>5. ASSUME NEW n \in Nat PROVE (FibWord(n) + FibWord(n + 1)) % Size = FibWord(n + 2)
  <2> DEFINE x == Fib[n]
             y == Fib[n + 1]
             v == y % Size
  <2>1. x \in Nat /\ y \in Nat
    BY FibIsNat
  <2>2. Fib[n + 2] = y + x
    <3>1. n + 2 \in Nat /\ ~(n + 2 < 2) /\ (n + 2) - 1 = n + 1 /\ (n + 2) - 2 = n
      OBVIOUS
    <3>2. Fib[n + 2] = Fib[n + 1] + Fib[n]
      BY <3>1, FibIs, Zenon
    <3> QED
      BY <3>2
  <2> HIDE DEF x, y
  <2>3. v \in Nat
    <3> HIDE DEF Size
    <3> QED
      BY <1>1, <2>1
  <2>4. ((x % Size) + v) % Size = (x + v) % Size
    BY <2>1, <2>3, ModuloAbsorbs
  <2>5. x + v = v + x /\ y + x \in Nat
    BY <2>1, <2>3
  <2>6. (v + x) % Size = (y + x) % Size
    BY <2>1, ModuloAbsorbs
  <2>7. ((x % Size) + v) % Size = (y + x) % Size
    BY <2>4, <2>5, <2>6
  <2> QED
    BY <2>2, <2>7 DEF FibWord, x, y
<1> QED
  BY <1>4, <1>5

LEMMA FibWords ==
  LET p == fibonacci
  IN  /\ Fetch(p, 0) = ldi(0, 0) /\ Fetch(p, 1) = ldi(1, 1)
      /\ Fetch(p, 2) = output(0) /\ Fetch(p, 3) = binary(MOV, 2, 0)
      /\ Fetch(p, 4) = binary(ADD, 2, 1) /\ Fetch(p, 5) = binary(MOV, 0, 1)
      /\ Fetch(p, 6) = binary(MOV, 1, 2) /\ Fetch(p, 7) = branch(JMP, 2)
BY DEF fibonacci, Fetch

FibLoads(m, t) ==
  /\ ~m.halt /\ t \in 0 .. 1 /\ m.pc = t
  /\ t = 1 => m.reg[0] = 0

(* A round, after k rounds; f, g and h are the next three of the sequence.  *)
FibRound(k, f, g, h, m, t) ==
  /\ ~m.halt
  /\ \/ m.pc = 2 /\ t = 6 * k + 2 /\ m.reg[0] = f /\ m.reg[1] = g
     \/ m.pc = 3 /\ t = 6 * k + 3 /\ m.reg[0] = f /\ m.reg[1] = g
     \/ m.pc = 4 /\ t = 6 * k + 4 /\ m.reg[0] = f /\ m.reg[1] = g /\ m.reg[2] = f
     \/ m.pc = 5 /\ t = 6 * k + 5 /\ m.reg[0] = f /\ m.reg[1] = g /\ m.reg[2] = h
     \/ m.pc = 6 /\ t = 6 * k + 6 /\ m.reg[0] = g /\ m.reg[2] = h
     \/ m.pc = 7 /\ t = 6 * k + 7 /\ m.reg[0] = g /\ m.reg[1] = h

AfterRounds(k, m, t) == FibRound(k, FibWord(k), FibWord(k + 1), FibWord(k + 2), m, t)

Counting(m, t, out) ==
  \/ FibLoads(m, t) /\ out = <<>>
  \/ \E k \in Nat :
       AfterRounds(k, m, t) /\ out = FirstOf(IF m.pc = 2 THEN k ELSE k + 1)

LEMMA FibLoadsStep ==
  ASSUME W >= 4, NEW m, NEW t, FibLoads(m, t), NEW w, w = Fetch(fibonacci, m.pc)
  PROVE  LET n == Execute(m, w)
         IN  /\ opcode(w) # OUT
             /\ FibLoads(n, t + 1) \/ (AfterRounds(0, n, t + 1) /\ n.pc = 2)
<1> DEFINE n == Execute(m, w)
<1>1. Size \in Nat /\ Size >= 16
  BY SizeIsEnough
<1>2. Ready(m) /\ 0 \in Word /\ 1 \in Word
  <2> HIDE DEF Size
  <2> QED
    BY <1>1 DEF FibLoads, Ready, Word
<1>3. 0 \in Register /\ 1 \in Register
  BY DEF Register
<1>4. CASE t = 0
  <2>1. w = ldi(0, 0)
    BY <1>4, FibWords DEF FibLoads
  <2>2. Goes(m, n, m.pc + 1, 0, 0) /\ opcode(w) # OUT
    BY <1>2, <1>3, <2>1, DoLdi
  <2> HIDE DEF n
  <2>3. FibLoads(n, t + 1)
    BY <1>3, <1>4, <2>2 DEF FibLoads, Goes
  <2> QED
    BY <2>2, <2>3 DEF n
<1>5. CASE t = 1
  <2>1. w = ldi(1, 1)
    BY <1>5, FibWords DEF FibLoads
  <2>2. Goes(m, n, m.pc + 1, 1, 1) /\ opcode(w) # OUT
    BY <1>2, <1>3, <2>1, DoLdi
  <2> HIDE DEF n
  <2>3. ~n.halt /\ n.pc = 2 /\ t + 1 = 6 * 0 + 2 /\ n.reg[0] = 0 /\ n.reg[1] = 1
    BY <1>3, <1>5, <2>2 DEF FibLoads, Goes
  <2>4. FibWord(0) = 0 /\ FibWord(0 + 1) = 1
    BY FibWordIs
  <2>5. AfterRounds(0, n, t + 1)
    BY <2>3, <2>4, Zenon DEF FibRound, AfterRounds
  <2> QED
    BY <2>2, <2>3, <2>5 DEF n
<1> QED
  BY <1>4, <1>5 DEF FibLoads

LEMMA FibRoundStep ==
  ASSUME W >= 4, NEW k \in Nat, NEW f, NEW g, NEW h, (f + g) % Size = h,
         NEW m, NEW t, FibRound(k, f, g, h, m, t), NEW w, w = Fetch(fibonacci, m.pc)
  PROVE  LET n == Execute(m, w)
         IN  /\ m.pc = 2 => /\ opcode(w) = OUT /\ n.out = f /\ n.pc = 3 /\ t + 1 = 6 * k + 3
                            /\ FibRound(k, f, g, h, n, t + 1)
             /\ m.pc # 2 => /\ opcode(w) # OUT
                            /\ \/ n.pc # 2 /\ FibRound(k, f, g, h, n, t + 1)
                               \/ /\ ~n.halt /\ n.pc = 2 /\ t + 1 = 6 * (k + 1) + 2
                                  /\ n.reg[0] = g /\ n.reg[1] = h
<1> DEFINE n == Execute(m, w)
<1>1. Size \in Nat /\ Size >= 16
  BY SizeIsEnough
<1>2. 2 \in Word
  <2> HIDE DEF Size
  <2> QED
    BY <1>1 DEF Word
<1>3. 0 \in Register /\ 1 \in Register /\ 2 \in Register /\ 3 \in Register
  BY DEF Register
<1> HIDE DEF n
<1>4. /\ ~m.halt
      /\ \/ m.pc = 2 /\ t = 6 * k + 2 /\ m.reg[0] = f /\ m.reg[1] = g
         \/ m.pc = 3 /\ t = 6 * k + 3 /\ m.reg[0] = f /\ m.reg[1] = g
         \/ m.pc = 4 /\ t = 6 * k + 4 /\ m.reg[0] = f /\ m.reg[1] = g /\ m.reg[2] = f
         \/ m.pc = 5 /\ t = 6 * k + 5 /\ m.reg[0] = f /\ m.reg[1] = g /\ m.reg[2] = h
         \/ m.pc = 6 /\ t = 6 * k + 6 /\ m.reg[0] = g /\ m.reg[2] = h
         \/ m.pc = 7 /\ t = 6 * k + 7 /\ m.reg[0] = g /\ m.reg[1] = h
  BY Zenon DEF FibRound
<1>5. Ready(m)
  <2> HIDE DEF Size
  <2> QED
    BY <1>1, <1>4 DEF Ready
<1>6. CASE m.pc = 2
  <2>1. w = output(0)
    BY <1>6, FibWords
  <2>2. /\ ~n.halt /\ n.pc = m.pc + 1 /\ \A r \in Register : n.reg[r] = m.reg[r]
        /\ n.out = m.reg[0] /\ opcode(w) = OUT
    BY <1>3, <1>5, <2>1, DoOut DEF n
  <2>3. n.pc = 3 /\ t + 1 = 6 * k + 3 /\ n.reg[0] = f /\ n.reg[1] = g /\ n.out = f
    BY <1>3, <1>4, <1>6, <2>2
  <2>4. FibRound(k, f, g, h, n, t + 1)
    BY <2>2, <2>3, Zenon DEF FibRound
  <2> QED
    BY <1>6, <2>2, <2>3, <2>4 DEF n
<1>7. CASE m.pc = 3
  <2>1. w = binary(MOV, 2, 0)
    BY <1>7, FibWords
  <2>2. Goes(m, n, m.pc + 1, 2, m.reg[0]) /\ opcode(w) # OUT
    BY <1>3, <1>5, <2>1, DoMov DEF n
  <2>3. ~n.halt /\ n.pc = 4 /\ t + 1 = 6 * k + 4 /\ n.reg[0] = f /\ n.reg[1] = g /\ n.reg[2] = f
    BY <1>3, <1>4, <1>7, <2>2 DEF Goes
  <2>4. FibRound(k, f, g, h, n, t + 1)
    BY <2>3, Zenon DEF FibRound
  <2>5. m.pc # 2 /\ n.pc # 2
    BY <1>7, <2>3
  <2> QED
    BY <2>2, <2>4, <2>5 DEF n
<1>8. CASE m.pc = 4
  <2>1. w = binary(ADD, 2, 1)
    BY <1>8, FibWords
  <2>2. Goes(m, n, m.pc + 1, 2, (m.reg[2] + m.reg[1]) % Size) /\ opcode(w) # OUT
    BY <1>3, <1>5, <2>1, DoAdd DEF n
  <2>3. m.reg[0] = f /\ m.reg[1] = g /\ m.reg[2] = f /\ t = 6 * k + 4
    BY <1>4, <1>8
  <2>4. Goes(m, n, m.pc + 1, 2, h)
    BY <2>2, <2>3, Zenon
  <2>5. ~n.halt /\ n.pc = 5 /\ t + 1 = 6 * k + 5 /\ n.reg[0] = f /\ n.reg[1] = g /\ n.reg[2] = h
    BY <1>3, <1>8, <2>3, <2>4 DEF Goes
  <2>6. FibRound(k, f, g, h, n, t + 1)
    BY <2>5, Zenon DEF FibRound
  <2>7. m.pc # 2 /\ n.pc # 2
    BY <1>8, <2>5
  <2> QED
    BY <2>2, <2>6, <2>7 DEF n
<1>9. CASE m.pc = 5
  <2>1. w = binary(MOV, 0, 1)
    BY <1>9, FibWords
  <2>2. Goes(m, n, m.pc + 1, 0, m.reg[1]) /\ opcode(w) # OUT
    BY <1>3, <1>5, <2>1, DoMov DEF n
  <2>3. ~n.halt /\ n.pc = 6 /\ t + 1 = 6 * k + 6 /\ n.reg[0] = g /\ n.reg[2] = h
    BY <1>3, <1>4, <1>9, <2>2 DEF Goes
  <2>4. FibRound(k, f, g, h, n, t + 1)
    BY <2>3, Zenon DEF FibRound
  <2>5. m.pc # 2 /\ n.pc # 2
    BY <1>9, <2>3
  <2> QED
    BY <2>2, <2>4, <2>5 DEF n
<1>10. CASE m.pc = 6
  <2>1. w = binary(MOV, 1, 2)
    BY <1>10, FibWords
  <2>2. Goes(m, n, m.pc + 1, 1, m.reg[2]) /\ opcode(w) # OUT
    BY <1>3, <1>5, <2>1, DoMov DEF n
  <2>3. ~n.halt /\ n.pc = 7 /\ t + 1 = 6 * k + 7 /\ n.reg[0] = g /\ n.reg[1] = h
    BY <1>3, <1>4, <1>10, <2>2 DEF Goes
  <2>4. FibRound(k, f, g, h, n, t + 1)
    BY <2>3, Zenon DEF FibRound
  <2>5. m.pc # 2 /\ n.pc # 2
    BY <1>10, <2>3
  <2> QED
    BY <2>2, <2>4, <2>5 DEF n
<1>11. CASE m.pc = 7
  <2>1. w = branch(JMP, 2)
    BY <1>11, FibWords
  <2>2. /\ ~n.halt /\ n.pc = 2 /\ \A r \in Register : n.reg[r] = m.reg[r]
        /\ opcode(w) # OUT
    BY <1>2, <1>5, <2>1, DoBranch DEF n
  <2>3. n.reg[0] = g /\ n.reg[1] = h /\ t + 1 = 6 * (k + 1) + 2 /\ m.pc # 2
    BY <1>3, <1>4, <1>11, <2>2
  <2> QED
    BY <2>2, <2>3 DEF n
<1> QED
  BY <1>4, <1>6, <1>7, <1>8, <1>9, <1>10, <1>11

(* A tick of the program, and when it is an OUT.                            *)
LEMMA CountStep ==
  ASSUME W >= 4, NEW m, NEW t \in Nat, NEW out, Counting(m, t, out),
         NEW w, w = Fetch(fibonacci, m.pc)
  PROVE  /\ Counting(Execute(m, w), t + 1, out \o Tells(w, Execute(m, w)))
         /\ opcode(w) = OUT => t + 1 = 6 * (Len(out \o Tells(w, Execute(m, w))) - 1) + 3
<1> DEFINE n == Execute(m, w)
<1>1. CASE FibLoads(m, t) /\ out = <<>>
  <2>1. /\ opcode(w) # OUT
        /\ FibLoads(n, t + 1) \/ (AfterRounds(0, n, t + 1) /\ n.pc = 2)
    BY <1>1, FibLoadsStep
  <2> HIDE DEF n
  <2>2. out \o Tells(w, n) = <<>>
    BY <1>1, <2>1, EmptyIsSeq, TellsNothing
  <2>3. FirstOf(0) = <<>> /\ 0 \in Nat
    BY DEF FirstOf
  <2> QED
    BY <2>1, <2>2, <2>3, Zenon DEF Counting, n
<1>2. ASSUME NEW k \in Nat, AfterRounds(k, m, t), m.pc = 2, out = FirstOf(k)
      PROVE  LET more == out \o Tells(w, n)
             IN  /\ Counting(n, t + 1, more)
                 /\ opcode(w) = OUT => t + 1 = 6 * (Len(more) - 1) + 3
  <2> DEFINE f == FibWord(k)
  <2>1. (f + FibWord(k + 1)) % Size = FibWord(k + 2)
    BY FibWordIs
  <2>2. /\ opcode(w) = OUT /\ n.out = f /\ n.pc = 3 /\ t + 1 = 6 * k + 3
        /\ AfterRounds(k, n, t + 1)
    <3>1. FibRound(k, f, FibWord(k + 1), FibWord(k + 2), m, t)
      BY <1>2 DEF AfterRounds
    <3> QED
      BY <1>2, <2>1, <3>1, FibRoundStep DEF AfterRounds
  <2> HIDE DEF n
  <2>3. out \o Tells(w, n) = FirstOf(k + 1) /\ Len(FirstOf(k + 1)) = k + 1
    <3> DEFINE F(i) == Fib[i - 1] % Size
    <3>1. f = F(k + 1)
      <4>1. (k + 1) - 1 = k
        OBVIOUS
      <4> QED
        BY <4>1, Zenon DEF FibWord
    <3>2. FirstOf(k) = [i \in 1 .. k |-> F(i)] /\ FirstOf(k + 1) = [i \in 1 .. k + 1 |-> F(i)]
      BY Zenon DEF FirstOf
    <3>3. Tells(w, n) = <<f>>
      BY <2>2 DEF Tells
    <3> HIDE DEF F, f
    <3>4. [i \in 1 .. k |-> F(i)] \o <<F(k + 1)>> = [i \in 1 .. k + 1 |-> F(i)]
      OBVIOUS
    <3>5. Len([i \in 1 .. k + 1 |-> F(i)]) = k + 1
      OBVIOUS
    <3> QED
      BY <1>2, <3>1, <3>2, <3>3, <3>4, <3>5, Zenon
  <2>4. n.pc # 2
    BY <2>2
  <2>5. Counting(n, t + 1, out \o Tells(w, n))
    BY <2>2, <2>3, <2>4, Zenon DEF Counting
  <2>6. t + 1 = 6 * (Len(out \o Tells(w, n)) - 1) + 3
    <3>1. (k + 1) - 1 = k
      OBVIOUS
    <3> QED
      BY <2>2, <2>3, <3>1, Zenon
  <2> QED
    BY <2>5, <2>6 DEF n
<1>3. ASSUME NEW k \in Nat, AfterRounds(k, m, t), m.pc # 2, out = FirstOf(k + 1)
      PROVE  LET more == out \o Tells(w, n)
             IN  /\ Counting(n, t + 1, more)
                 /\ opcode(w) = OUT => t + 1 = 6 * (Len(more) - 1) + 3
  <2> DEFINE f == FibWord(k)
             g == FibWord(k + 1)
             h == FibWord(k + 2)
  <2>1. (f + g) % Size = h
    BY FibWordIs
  <2>2. FibRound(k, f, g, h, m, t)
    BY <1>3 DEF AfterRounds
  <2> HIDE DEF f, g, h
  <2>3. /\ opcode(w) # OUT
        /\ \/ n.pc # 2 /\ FibRound(k, f, g, h, n, t + 1)
           \/ /\ ~n.halt /\ n.pc = 2 /\ t + 1 = 6 * (k + 1) + 2
              /\ n.reg[0] = g /\ n.reg[1] = h
    BY <1>3, <2>1, <2>2, FibRoundStep
  <2> HIDE DEF n
  <2>4. out \o Tells(w, n) = FirstOf(k + 1)
    <3> DEFINE F(i) == Fib[i - 1] % Size
    <3>1. out = [i \in 1 .. k + 1 |-> F(i)]
      BY <1>3, Zenon DEF FirstOf
    <3> HIDE DEF F
    <3>2. [i \in 1 .. k + 1 |-> F(i)] \in Seq({F(i) : i \in 1 .. k + 1})
      <4> DEFINE S == {F(i) : i \in 1 .. k + 1}
      <4>1. \A i \in 1 .. k + 1 : F(i) \in S
        OBVIOUS
      <4> HIDE DEF S
      <4>2. k + 1 \in Nat
        OBVIOUS
      <4>3. [i \in 1 .. k + 1 |-> F(i)] \in Seq(S)
        BY <4>1, <4>2
      <4> QED
        BY <4>3 DEF S
    <3>3. out \in Seq({F(i) : i \in 1 .. k + 1})
      BY <3>1, <3>2, Zenon
    <3> QED
      BY <1>3, <2>3, <3>3, TellsNothing
  <2>5. CASE n.pc # 2 /\ FibRound(k, f, g, h, n, t + 1)
    <3>1. AfterRounds(k, n, t + 1)
      BY <2>5 DEF AfterRounds, f, g, h
    <3>2. Counting(n, t + 1, out \o Tells(w, n))
      BY <2>4, <2>5, <3>1, Zenon DEF Counting
    <3> QED
      BY <2>3, <3>2 DEF n
  <2>6. CASE /\ ~n.halt /\ n.pc = 2 /\ t + 1 = 6 * (k + 1) + 2
             /\ n.reg[0] = g /\ n.reg[1] = h
    <3>1. k + 1 \in Nat /\ (k + 1) + 1 = k + 2
      OBVIOUS
    <3>2. AfterRounds(k + 1, n, t + 1)
      BY <2>6, <3>1, Zenon DEF AfterRounds, FibRound, g, h
    <3>3. Counting(n, t + 1, out \o Tells(w, n))
      BY <2>4, <2>6, <3>1, <3>2, Zenon DEF Counting
    <3> QED
      BY <2>3, <3>3 DEF n
  <2> QED
    BY <2>3, <2>5, <2>6
<1> QED
  BY <1>1, <1>2, <1>3, Zenon DEF Counting

(* How many values there are after so many ticks.                           *)
LEMMA CountsInTime ==
  ASSUME NEW m, NEW t \in Nat, NEW out, Counting(m, t, out)
  PROVE  /\ ~m.halt /\ Len(out) \in Nat /\ out = FirstOf(Len(out))
         /\ \A c \in Nat : Len(out) < c => t < 6 * (c - 1) + 3
<1>1. ASSUME NEW k \in Nat PROVE Len(FirstOf(k)) = k
  BY DEF FirstOf
<1>2. CASE FibLoads(m, t) /\ out = <<>>
  <2>1. FirstOf(0) = <<>>
    BY DEF FirstOf
  <2> QED
    BY <1>2, <2>1 DEF FibLoads
<1>3. ASSUME NEW k \in Nat, AfterRounds(k, m, t), out = FirstOf(IF m.pc = 2 THEN k ELSE k + 1)
      PROVE  /\ ~m.halt /\ Len(out) \in Nat /\ out = FirstOf(Len(out))
             /\ \A c \in Nat : Len(out) < c => t < 6 * (c - 1) + 3
  <2> DEFINE l == IF m.pc = 2 THEN k ELSE k + 1
  <2>1. l \in Nat
    OBVIOUS
  <2>2. Len(out) = l
    BY <1>1, <1>3, <2>1
  <2>3. ~m.halt /\ (m.pc = 2 => t = 6 * k + 2) /\ t <= 6 * k + 7
    BY <1>3 DEF AfterRounds, FibRound
  <2> QED
    BY <1>3, <2>1, <2>2, <2>3
<1> QED
  BY <1>2, <1>3 DEF Counting
-----------------------------------------------------------------------------
(* The host that runs the programs, on the instruction set (its constants   *)
(* as MCRunner.cfg gives them) or on the circuit (as MCCpuMachine.cfg does).*)
OnInstructions ==
  /\ ResetState = ResetCpu
  /\ \A s, word : Tick(s, word) = Execute(s, word)
  /\ \A s : Pc(s) = s.pc /\ Halted(s) = s.halt /\ Out(s) = s.out

(* The machine that the host has before it, and what it must be like.       *)
Seen(s) == IF OnCircuit THEN Decoded(s) ELSE s

Sound(s) == OnCircuit => s \in StateBits

LEMMA SeenIs ==
  ASSUME OnCircuit \/ OnInstructions, NEW s
  PROVE  Pc(s) = Seen(s).pc /\ Halted(s) = Seen(s).halt /\ Out(s) = Seen(s).out
<1>1. CASE OnCircuit
  <2>1. Seen(s) = Decoded(s)
    BY <1>1 DEF Seen
  <2>2. /\ Pc(s) = Decoded(s).pc /\ Halted(s) = Decoded(s).halt /\ Out(s) = Decoded(s).out
    BY <1>1, DecodedSame DEF IsaPc, IsaHalted, IsaOut
  <2> QED
    BY <2>1, <2>2, Zenon
<1>2. CASE ~OnCircuit
  <2>1. Seen(s) = s
    BY <1>2 DEF Seen
  <2>2. Pc(s) = s.pc /\ Halted(s) = s.halt /\ Out(s) = s.out
    BY <1>2, Zenon DEF OnInstructions
  <2> QED
    BY <2>1, <2>2, Zenon
<1> QED
  BY <1>1, <1>2

LEMMA SeenReset ==
  ASSUME OnCircuit \/ OnInstructions
  PROVE  Sound(ResetState) /\ Seen(ResetState) = ResetCpu
<1>1. CASE OnCircuit
  <2>1. ResetState = ResetLatches
    BY <1>1, Zenon DEF OnCircuit
  <2> QED
    BY <1>1, <2>1, ResetIsBits, DecodedReset DEF Sound, Seen
<1>2. CASE ~OnCircuit
  BY <1>2, Zenon DEF OnInstructions, Sound, Seen
<1> QED
  BY <1>1, <1>2

LEMMA AdvanceSeen ==
  ASSUME OnCircuit \/ OnInstructions, Basis, Running, Sound(cpu), Advance
  PROVE  /\ Sound(cpu') /\ Seen(cpu') = Execute(Seen(cpu), Fetched)
         /\ Fetched = Fetch(call.program, Seen(cpu).pc)
         /\ Shown(Fetched, cpu') = Tells(Fetched, Seen(cpu'))
<1>1. cpu' = Tick(cpu, Fetched)
  BY DEF Advance
<1>2. Fetched = Fetch(call.program, Seen(cpu).pc)
  BY SeenIs, Zenon DEF Fetched
<1>3. Shown(Fetched, cpu') = Tells(Fetched, Seen(cpu'))
  BY SeenIs, Zenon DEF Shown, Tells
<1>4. CASE OnCircuit
  <2>1. Fetched \in Nat
    BY <1>4, FetchedIsWord
  <2>2. cpu' = tick(cpu, Fetched)
    BY <1>1, <1>4, Zenon DEF OnCircuit
  <2>3. cpu \in StateBits
    BY <1>4 DEF Sound
  <2>4. tick(cpu, Fetched) \in StateBits
    BY <2>1, <2>3, TickExecutes
  <2>5. Decoded(tick(cpu, Fetched)) = Execute(Decoded(cpu), Fetched)
    BY <2>1, <2>3, TickExecutes
  <2>6. Seen(cpu') = Decoded(cpu') /\ Seen(cpu) = Decoded(cpu)
    BY <1>4 DEF Seen
  <2>7. Sound(cpu')
    BY <2>2, <2>4, Zenon DEF Sound
  <2>8. Seen(cpu') = Execute(Seen(cpu), Fetched)
    BY <2>2, <2>5, <2>6, Zenon
  <2> QED
    BY <1>2, <1>3, <2>7, <2>8
<1>5. CASE ~OnCircuit
  <2>1. cpu' = Execute(cpu, Fetched)
    BY <1>1, <1>5, Zenon DEF OnInstructions
  <2>2. Seen(cpu') = cpu' /\ Seen(cpu) = cpu
    BY <1>5 DEF Seen
  <2>3. Sound(cpu')
    BY <1>5 DEF Sound
  <2>4. Seen(cpu') = Execute(Seen(cpu), Fetched)
    BY <2>1, <2>2, Zenon
  <2> QED
    BY <1>2, <1>3, <2>3, <2>4
<1> QED
  BY <1>4, <1>5

(* Where a run is: while it goes on, at a place of its program; once it has *)
(* ended, with the result that is claimed.                                  *)
MultiplyRun ==
  call.kind = "run_until_halt" =>
    \A a, b \in Word : call.program = multiplication(a, b) =>
      IF Running THEN Multiplying(a, b, Seen(cpu), passes, outputs)
      ELSE IF TicksToMultiply(b) < call.limit
           THEN result = "Ok" /\ outputs = <<(a * b) % Size>>
           ELSE result = "TickLimit"

DivideRun ==
  call.kind = "run_until_halt" =>
    \A a, b \in Word : call.program = gcd(a, b) =>
      IF Running THEN Dividing(a, b, Seen(cpu), passes, outputs)
      ELSE IF Alike(a, b)
           THEN /\ result = "Ok" => Len(outputs) = 1 /\ IsGcd(outputs[1], a, b)
                /\ TicksToDivide(a, b) < call.limit => result = "Ok"
           ELSE result = "TickLimit" /\ outputs = <<>>

CountRun ==
  call.kind = "run_until_outputs" /\ call.program = fibonacci /\ call.count > 0 =>
    IF Running THEN Counting(Seen(cpu), passes, outputs) /\ Len(outputs) < call.count
    ELSE IF 6 * (call.count - 1) + 3 <= call.limit
         THEN result = "Ok" /\ outputs = FirstOf(call.count)
         ELSE result = "TickLimit"

FirstRun ==
  /\ Sound(cpu)
  /\ calls = 0 => cpu = ResetState /\ ~Running
  /\ calls = 1 /\ fits => MultiplyRun /\ DivideRun /\ CountRun

LEMMA RunIsClaimed == FirstRun => ProgramsCompute
<1>1. SUFFICES ASSUME FirstRun PROVE ProgramsCompute
  OBVIOUS
<1>2. MultiplicationMultiplies
  BY <1>1, Zenon DEF FirstRun, MultiplyRun, MultiplicationMultiplies, FirstCall
<1>3. GcdDivides
  BY <1>1, Zenon DEF FirstRun, DivideRun, GcdDivides, FirstCall, Alike
<1>4. FibonacciCounts
  BY <1>1, Zenon DEF FirstRun, CountRun, FibonacciCounts, FirstCall, FirstOf
<1> QED
  BY <1>2, <1>3, <1>4 DEF ProgramsCompute

LEMMA FirstRunInit == ASSUME OnCircuit \/ OnInstructions, Init PROVE FirstRun
<1>1. cpu = ResetState /\ calls = 0 /\ result = "Ok"
  BY DEF Init
<1> QED
  BY <1>1, SeenReset DEF FirstRun, Running
LEMMA StartsRunning ==
  /\ \A a, b \in Word : /\ Multiplying(a, b, ResetCpu, 0, <<>>)
                        /\ Dividing(a, b, ResetCpu, 0, <<>>)
  /\ Counting(ResetCpu, 0, <<>>)
<1>1. ~ResetCpu.halt /\ ResetCpu.pc = 0
  BY DEF ResetCpu
<1>2. \A a, b \in Word : MulLoads(a, b, ResetCpu, 0)
  BY <1>1 DEF MulLoads
<1>3. \A a \in Word : DivLoads(a, ResetCpu, 0)
  BY <1>1 DEF DivLoads
<1>4. FibLoads(ResetCpu, 0)
  BY <1>1 DEF FibLoads
<1> QED
  BY <1>2, <1>3, <1>4, Zenon DEF Multiplying, Dividing, Counting

LEMMA CallRuns ==
  ASSUME OnCircuit \/ OnInstructions, Basis, FirstRun, NEW c \in Calls, Call(c)
  PROVE  FirstRun'
<1>1. /\ result # "running" /\ calls' = calls + 1 /\ call' = c /\ passes' = 0
      /\ outputs' = <<>> /\ result' = "running" /\ cpu' = cpu
  BY DEF Call
<1>2. calls \in Nat /\ c.count \in Nat
  <2>1. calls \in 0 .. MaxCalls /\ MaxCalls \in Nat /\ c \in CallRecord
    BY SessionsAssumption DEF Basis, TypeOK, MaxCalls, Calls
  <2> QED
    BY <2>1 DEF CallRecord
<1>3. Sound(cpu)' /\ calls' # 0
  BY <1>1, <1>2 DEF FirstRun, Sound
<1>4. ASSUME calls' = 1 PROVE (MultiplyRun /\ DivideRun /\ CountRun)'
  <2>1. calls = 0
    BY <1>1, <1>2, <1>4
  <2>2. Seen(cpu') = ResetCpu /\ Running'
    <3>1. cpu' = ResetState
      BY <1>1, <2>1 DEF FirstRun
    <3>2. Seen(ResetState) = ResetCpu
      BY SeenReset
    <3> QED
      BY <1>1, <3>1, <3>2 DEF Running
  <2>3. MultiplyRun'
    BY <1>1, <2>2, StartsRunning, Zenon DEF MultiplyRun
  <2>4. DivideRun'
    BY <1>1, <2>2, StartsRunning, Zenon DEF DivideRun
  <2>5. CountRun'
    <3>1. c.count > 0 => Len(<<>>) < c.count
      BY <1>2
    <3> QED
      BY <1>1, <2>2, <3>1, StartsRunning, Zenon DEF CountRun
  <2> QED
    BY <2>3, <2>4, <2>5
<1> QED
  BY <1>3, <1>4 DEF FirstRun

(* A pass of run_until_halt.                                                *)
LEMMA HaltPassRuns ==
  ASSUME OnCircuit \/ OnInstructions, W >= 4, Basis, FirstRun, HaltPass
  PROVE  FirstRun'
<1>1. /\ Running /\ call.kind = "run_until_halt" /\ passes < call.limit
      /\ passes' = passes + 1 /\ call' = call /\ calls' = calls /\ fits' = fits
  BY DEF HaltPass, Pass, callers, Running
<1>2. /\ passes \in Nat /\ call.limit \in Nat
  <2>1. call \in CallRecord /\ passes \in 0 .. call.limit
    BY <1>1, SessionsAssumption DEF Basis, TypeOK, Calls
  <2> QED
    BY <2>1 DEF CallRecord
<1>3. calls' # 0
  BY <1>1 DEF FirstRun
<1>4. CountRun'
  BY <1>1 DEF CountRun
<1>5. CASE StepHalts /\ UNCHANGED machine /\ Return("Ok", outputs)
  <2>1. cpu' = cpu /\ outputs' = outputs /\ result' = "Ok" /\ ~Running' /\ Seen(cpu).halt
    <3>1. cpu' = cpu /\ outputs' = outputs /\ result' = "Ok"
      BY <1>5 DEF machine, Return
    <3>2. Seen(cpu).halt
      BY <1>5, SeenIs, Zenon DEF StepHalts
    <3> QED
      BY <3>1, <3>2 DEF Running
  <2>2. Sound(cpu)'
    BY <2>1 DEF FirstRun, Sound
  <2>3. ASSUME calls = 1, fits PROVE MultiplyRun'
    <3>1. ASSUME NEW a \in Word, NEW b \in Word, call.program = multiplication(a, b)
          PROVE  TicksToMultiply(b) < call.limit /\ outputs = <<(a * b) % Size>>
      <4>1. Multiplying(a, b, Seen(cpu), passes, outputs)
        BY <1>1, <2>3, <3>1, Zenon DEF FirstRun, MultiplyRun
      <4>2. passes = TicksToMultiply(b) /\ outputs = <<(a * b) % Size>>
        BY <1>2, <2>1, <4>1, MulHalts
      <4> QED
        BY <1>1, <4>2, Zenon
    <3> QED
      BY <1>1, <2>1, <3>1, Zenon DEF MultiplyRun
  <2>4. ASSUME calls = 1, fits PROVE DivideRun'
    <3>1. ASSUME NEW a \in Word, NEW b \in Word, call.program = gcd(a, b)
          PROVE  Alike(a, b) /\ Len(outputs) = 1 /\ IsGcd(outputs[1], a, b)
      <4>1. Dividing(a, b, Seen(cpu), passes, outputs)
        BY <1>1, <2>4, <3>1, Zenon DEF FirstRun, DivideRun
      <4> QED
        BY <1>2, <2>1, <4>1, DivHalts
    <3> QED
      BY <1>1, <2>1, <3>1, Zenon DEF DivideRun
  <2> QED
    BY <1>1, <1>3, <1>4, <2>2, <2>3, <2>4 DEF FirstRun
<1>6. CASE StepFails /\ UNCHANGED machine /\ Return("Vm", outputs)
  <2>1. cpu' = cpu /\ ~fits
    BY <1>6 DEF StepFails, machine
  <2> QED
    BY <1>1, <1>3, <2>1 DEF FirstRun, Sound
<1>7. CASE StepTicks /\ Advance /\ Continue(outputs \o Shown(Fetched, cpu'))
  <2> DEFINE m == Seen(cpu)
             n == Seen(cpu')
             w == Fetched
  <2>1. /\ Sound(cpu') /\ n = Execute(m, w) /\ w = Fetch(call.program, m.pc)
        /\ Shown(Fetched, cpu') = Tells(w, n)
    BY <1>1, <1>7, AdvanceSeen DEF FirstRun
  <2>2. outputs' = outputs \o Tells(w, n) /\ Running'
    BY <1>1, <1>7, <2>1 DEF Continue, Running
  <2>3. ~m.halt
    BY <1>7, SeenIs, Zenon DEF StepTicks
  <2> HIDE DEF m, n, w
  <2>4. ASSUME calls = 1, fits PROVE MultiplyRun'
    <3>1. ASSUME NEW a \in Word, NEW b \in Word, call.program = multiplication(a, b)
          PROVE  Multiplying(a, b, n, passes + 1, outputs \o Tells(w, n))
      <4>1. Multiplying(a, b, m, passes, outputs)
        BY <1>1, <2>4, <3>1, Zenon DEF FirstRun, MultiplyRun, m
      <4> QED
        BY <1>2, <2>1, <2>3, <3>1, <4>1, MulStep
    <3> QED
      BY <1>1, <2>2, <3>1, Zenon DEF MultiplyRun, n
  <2>5. ASSUME calls = 1, fits PROVE DivideRun'
    <3>1. ASSUME NEW a \in Word, NEW b \in Word, call.program = gcd(a, b)
          PROVE  Dividing(a, b, n, passes + 1, outputs \o Tells(w, n))
      <4>1. Dividing(a, b, m, passes, outputs)
        BY <1>1, <2>5, <3>1, Zenon DEF FirstRun, DivideRun, m
      <4> QED
        BY <1>2, <2>1, <2>3, <3>1, <4>1, DivStep
    <3> QED
      BY <1>1, <2>2, <3>1, Zenon DEF DivideRun, n
  <2> QED
    BY <1>1, <1>3, <1>4, <2>1, <2>4, <2>5 DEF FirstRun
<1> QED
  BY <1>5, <1>6, <1>7 DEF HaltPass
(* A pass of run_until_outputs.                                             *)
LEMMA OutputsPassRuns ==
  ASSUME OnCircuit \/ OnInstructions, W >= 4, Basis, FirstRun, OutputsPass
  PROVE  FirstRun'
<1>1. /\ Running /\ call.kind = "run_until_outputs" /\ passes < call.limit
      /\ passes' = passes + 1 /\ call' = call /\ calls' = calls /\ fits' = fits
  BY DEF OutputsPass, Pass, callers, Running
<1>2. /\ passes \in Nat /\ call.limit \in Nat /\ call.count \in Nat
  <2>1. call \in CallRecord /\ passes \in 0 .. call.limit
    BY <1>1, SessionsAssumption DEF Basis, TypeOK, Calls
  <2> QED
    BY <2>1 DEF CallRecord
<1>3. calls' # 0
  BY <1>1 DEF FirstRun
<1>4. MultiplyRun' /\ DivideRun'
  BY <1>1 DEF MultiplyRun, DivideRun
<1> DEFINE asked == calls = 1 /\ fits /\ call.program = fibonacci /\ call.count > 0
<1>5. ASSUME asked PROVE Counting(Seen(cpu), passes, outputs) /\ Len(outputs) < call.count
  BY <1>1, <1>5, Zenon DEF FirstRun, CountRun
<1>6. CASE StepHalts /\ UNCHANGED machine /\ Continue(outputs)
  <2>1. cpu' = cpu /\ Seen(cpu).halt
    <3>1. cpu' = cpu
      BY <1>6 DEF machine
    <3>2. Seen(cpu).halt
      BY <1>6, SeenIs, Zenon DEF StepHalts
    <3> QED
      BY <3>1, <3>2
  <2>2. ~asked
    <3>1. ASSUME asked PROVE FALSE
      BY <1>2, <1>5, <2>1, <3>1, CountsInTime
    <3> QED
      BY <3>1
  <2> QED
    BY <1>1, <1>3, <1>4, <2>1, <2>2 DEF FirstRun, Sound, CountRun
<1>7. CASE StepFails /\ UNCHANGED machine /\ Return("Vm", outputs)
  <2>1. cpu' = cpu /\ ~fits
    BY <1>7 DEF StepFails, machine
  <2> QED
    BY <1>1, <1>3, <2>1 DEF FirstRun, Sound
<1>8. ASSUME StepTicks, Advance,
             IF Shown(Fetched, cpu') # <<>> /\ Enough(outputs \o Shown(Fetched, cpu'))
             THEN Return("Ok", outputs \o Shown(Fetched, cpu'))
             ELSE Continue(outputs \o Shown(Fetched, cpu'))
      PROVE  FirstRun'
  <2> DEFINE m == Seen(cpu)
             n == Seen(cpu')
             w == Fetched
             more == outputs \o Tells(w, n)
  <2>1. /\ Sound(cpu') /\ n = Execute(m, w) /\ w = Fetch(call.program, m.pc)
        /\ Shown(Fetched, cpu') = Tells(w, n)
    BY <1>1, <1>8, AdvanceSeen DEF FirstRun
  <2>2. IF Tells(w, n) # <<>> /\ Len(more) = call.count
        THEN outputs' = more /\ result' = "Ok"
        ELSE outputs' = more /\ result' = "running"
    <3>1. IF Tells(w, n) # <<>> /\ Enough(more) THEN Return("Ok", more) ELSE Continue(more)
      <4> HIDE DEF w, n
      <4> QED
        BY <1>8, <2>1, Zenon
    <3> HIDE DEF more, w, n
    <3> QED
      BY <1>1, <3>1 DEF Enough, Return, Continue, Running
  <2> HIDE DEF m, n, w
  <2>3. ASSUME asked PROVE CountRun'
    <3>1. Counting(m, passes, outputs) /\ Len(outputs) < call.count
      BY <1>5, <2>3 DEF m
    <3> HIDE DEF more, asked
    <3>2. w = Fetch(fibonacci, m.pc)
      BY <2>1, <2>3 DEF asked
    <3>3. /\ Counting(n, passes + 1, more)
          /\ opcode(w) = OUT => passes + 1 = 6 * (Len(more) - 1) + 3
      <4>1. /\ Counting(Execute(m, w), passes + 1, outputs \o Tells(w, Execute(m, w)))
            /\ opcode(w) = OUT =>
                 passes + 1 = 6 * (Len(outputs \o Tells(w, Execute(m, w))) - 1) + 3
        <5>1. passes \in Nat /\ Counting(m, passes, outputs)
          BY <1>2, <3>1
        <5> QED
          BY <3>2, <5>1, CountStep, Zenon
      <4>2. n = Execute(m, w)
        BY <2>1
      <4> QED
        BY <4>1, <4>2, Zenon DEF more
    <3>4. /\ Len(outputs) \in Nat /\ outputs = FirstOf(Len(outputs))
          /\ Len(more) \in Nat /\ more = FirstOf(Len(more))
      <4>1. passes + 1 \in Nat
        BY <1>2
      <4> QED
        BY <1>2, <3>1, <3>3, <4>1, CountsInTime
    <3>5. opcode(w) = OUT => Len(more) = Len(outputs) + 1 /\ Tells(w, n) # <<>>
      <4>1. IsSeq(outputs)
        BY DEF Basis
      <4>2. opcode(w) = OUT => Tells(w, n) = <<n.out>>
        BY DEF Tells
      <4> DEFINE o == n.out
      <4> HIDE DEF o
      <4>3. IsSeq(<<o>>) /\ Len(<<o>>) = 1 /\ <<o>> # <<>>
        BY SeqSmall
      <4>4. Len(outputs \o <<o>>) = Len(outputs) + 1
        BY <4>1, <4>3, SeqConcat
      <4>5. opcode(w) = OUT => Tells(w, n) = <<o>>
        BY <4>2 DEF o
      <4> QED
        BY <4>3, <4>4, <4>5, Zenon DEF more
    <3>6. opcode(w) # OUT => more = outputs /\ Tells(w, n) = <<>>
      <4>1. PICK S : outputs \in Seq(S)
        BY DEF Basis, IsSeq
      <4>2. opcode(w) # OUT => Tells(w, n) = <<>>
        BY DEF Tells
      <4> QED
        BY <4>1, <4>2, TellsNothing DEF more
    <3> HIDE DEF more
    <3>7. CASE opcode(w) = OUT /\ Len(more) = call.count
      <4>1. outputs' = more /\ result' = "Ok"
        BY <2>2, <3>5, <3>7
      <4>2. 6 * (call.count - 1) + 3 <= call.limit
        BY <1>1, <1>2, <3>3, <3>7
      <4>3. more = FirstOf(call.count)
        BY <3>4, <3>7, Zenon
      <4> QED
        BY <1>1, <4>1, <4>2, <4>3 DEF CountRun, Running
    <3>8. CASE ~(opcode(w) = OUT /\ Len(more) = call.count)
      <4>1. outputs' = more /\ result' = "running"
        BY <2>2, <3>6, <3>8
      <4>2. Len(more) < call.count
        BY <1>2, <3>1, <3>4, <3>5, <3>6, <3>8
      <4> QED
        BY <1>1, <3>3, <4>1, <4>2 DEF CountRun, Running, n
    <3> QED
      BY <3>7, <3>8
  <2>4. ASSUME calls = 1, fits PROVE CountRun'
    <3>1. CASE asked
      BY <2>3, <3>1
    <3>2. CASE ~asked
      BY <1>1, <2>4, <3>2 DEF CountRun
    <3> QED
      BY <3>1, <3>2
  <2> QED
    BY <1>1, <1>3, <1>4, <2>1, <2>4 DEF FirstRun
<1> QED
  BY <1>6, <1>7, <1>8, Zenon DEF OutputsPass

(* The end of a loop at its limit.                                          *)
LEMMA GiveUpRuns ==
  ASSUME Basis, FirstRun, NEW kind, GiveUp(kind)
  PROVE  FirstRun'
<1>1. /\ Running /\ passes = call.limit /\ cpu' = cpu /\ call' = call /\ calls' = calls
      /\ fits' = fits /\ outputs' = outputs /\ result' = "TickLimit" /\ ~Running'
  BY DEF GiveUp, callers, machine, Return, Running
<1>2. call.limit \in Nat /\ passes \in Nat /\ call.count \in Nat
  <2>1. call \in CallRecord /\ passes \in 0 .. call.limit
    BY <1>1, SessionsAssumption DEF Basis, TypeOK, Calls
  <2> QED
    BY <2>1 DEF CallRecord
<1>3. ASSUME MultiplyRun PROVE MultiplyRun'
  <2>1. ASSUME call.kind = "run_until_halt", NEW a \in Word, NEW b \in Word,
               call.program = multiplication(a, b)
        PROVE  ~(TicksToMultiply(b) < call.limit)
    <3>1. Multiplying(a, b, Seen(cpu), passes, outputs)
      BY <1>1, <1>3, <2>1, Zenon DEF MultiplyRun
    <3>2. b \in Nat
      BY SizeIs DEF Word
    <3>3. passes <= TicksToMultiply(b)
      BY <1>2, <3>1, <3>2, MulHalts DEF TicksToMultiply
    <3>4. TicksToMultiply(b) \in Nat
      BY <3>2 DEF TicksToMultiply
    <3> QED
      BY <1>1, <1>2, <3>3, <3>4
  <2> QED
    BY <1>1, <2>1, Zenon DEF MultiplyRun
<1>4. ASSUME DivideRun PROVE DivideRun'
  <2>1. ASSUME call.kind = "run_until_halt", NEW a \in Word, NEW b \in Word,
               call.program = gcd(a, b)
        PROVE  IF Alike(a, b) THEN ~(TicksToDivide(a, b) < call.limit) ELSE outputs = <<>>
    <3>1. Dividing(a, b, Seen(cpu), passes, outputs)
      BY <1>1, <1>4, <2>1, Zenon DEF DivideRun
    <3>2. TicksToDivide(a, b) \in Nat
      <4>1. a \in Nat /\ b \in Nat
        BY SizeIs DEF Word
      <4> QED
        BY <4>1 DEF TicksToDivide
    <3>3. Alike(a, b) => passes <= TicksToDivide(a, b)
      BY <1>2, <3>1, DivHalts
    <3>4. ~Alike(a, b) => outputs = <<>>
      BY <1>2, <3>1, DivUnlike
    <3> QED
      BY <1>1, <1>2, <3>2, <3>3, <3>4
  <2>2. "TickLimit" # "Ok"
    OBVIOUS
  <2> QED
    BY <1>1, <2>1, <2>2, Zenon DEF DivideRun
<1>5. ASSUME CountRun PROVE CountRun'
  <2>1. ASSUME call.kind = "run_until_outputs", call.program = fibonacci, call.count > 0
        PROVE  ~(6 * (call.count - 1) + 3 <= call.limit)
    <3>1. Counting(Seen(cpu), passes, outputs) /\ Len(outputs) < call.count
      BY <1>1, <1>5, <2>1, Zenon DEF CountRun
    <3>2. passes < 6 * (call.count - 1) + 3
      BY <1>2, <3>1, CountsInTime
    <3> QED
      BY <1>1, <1>2, <3>2
  <2> QED
    BY <1>1, <2>1, Zenon DEF CountRun
<1>6. Sound(cpu)'
  BY <1>1 DEF FirstRun, Sound
<1> QED
  BY <1>1, <1>3, <1>4, <1>5, <1>6 DEF FirstRun

(* step is not a run; but it ticks.                                         *)
LEMMA StepRuns ==
  ASSUME OnCircuit \/ OnInstructions, Basis, FirstRun, Step
  PROVE  FirstRun'
<1>1. Running /\ call.kind = "step" /\ call' = call /\ calls' = calls /\ fits' = fits
  BY DEF Step, callers, Running
<1>2. Sound(cpu)'
  <2>1. CASE UNCHANGED machine
    BY <2>1 DEF FirstRun, Sound, machine
  <2>2. CASE Advance
    BY <1>1, <2>2, AdvanceSeen DEF FirstRun
  <2> QED
    BY <2>1, <2>2 DEF Step
<1> QED
  BY <1>1, <1>2 DEF FirstRun, MultiplyRun, DivideRun, CountRun

LEMMA FirstRunKept ==
  ASSUME OnCircuit \/ OnInstructions, W >= 4, Inv, FirstRun, [Next]_vars
  PROVE  FirstRun'
<1>1. Basis
  BY DEF Inv
<1>2. CASE Step
  BY <1>1, <1>2, StepRuns
<1>3. CASE HaltPass
  BY <1>1, <1>3, HaltPassRuns
<1>4. CASE OutputsPass
  BY <1>1, <1>4, OutputsPassRuns
<1>5. ASSUME NEW kind, GiveUp(kind) PROVE FirstRun'
  BY <1>1, <1>5, GiveUpRuns
<1>6. ASSUME NEW c \in Calls, Call(c) PROVE FirstRun'
  BY <1>1, <1>6, CallRuns
<1>7. CASE UNCHANGED vars
  BY <1>7 DEF vars, machine, callers, FirstRun, Sound, Running, MultiplyRun, DivideRun, CountRun
<1> QED
  BY <1>2, <1>3, <1>4, <1>5, <1>6, <1>7 DEF Next, Run

(* The programs of programs.rs compute what they are for, at every width    *)
(* that has room for their addresses, for all operands and limits: run by   *)
(* the host on the instruction set, and run by it on the gates of build_cpu.*)
THEOREM ProgramsAreCorrect ==
  ASSUME OnCircuit \/ OnInstructions, W >= 4
  PROVE  Spec => []ProgramsCompute
<1>1. Init => FirstRun
  BY FirstRunInit
<1>2. Inv /\ FirstRun /\ [Next]_vars => FirstRun'
  BY FirstRunKept
<1>3. FirstRun => ProgramsCompute
  BY RunIsClaimed
<1>4. Spec => []Inv
  BY Invariant
<1> QED
  BY <1>1, <1>2, <1>3, <1>4, PTL DEF Spec
=============================================================================
