---------------------------- MODULE ClientProofs ----------------------------
(***************************************************************************)
(* Proofs about the two callers of the encoder that a client meets.  The    *)
(* Builder, for any number of builders, gates and handles: the notes of a   *)
(* client and the gates of a builder agree, each gate under a signal of its *)
(* own, because the push that would leave the u32 range panics.  The browser*)
(* bindings, for any circuit, byte size and arrays: a page that compiles,   *)
(* describes and steps runs the synchronous machine of its netlist.         *)
(***************************************************************************)
EXTENDS Builder, Wasm, NetlistRulesProofs

-----------------------------------------------------------------------------
(* The inductive invariant.                                                 *)

Shape == meant = [b \in Builders |-> meant[b]]

Unmade == \A b \in Builders : phase[b] = "unmade" => gates[b] = <<>> /\ DOMAIN meant[b] = {}

Owned == \A h \in handles : phase[h.owner] # "unmade"

(* Every signal of b is a u32.                                              *)
InRange(b) == 1 + input_count[b] + Len(gates[b]) <= MAX_U32

NotesAgree(b) ==
  /\ InRange(b)
  /\ DOMAIN meant[b] = 2 + input_count[b] .. 1 + input_count[b] + Len(gates[b])
  /\ careful[b] => \A i \in DOMAIN gates[b] : gates[b][i] = meant[b][1 + input_count[b] + i]

Answered(b) == answer[b] = "Ok" => phase[b] = "finished"

Notes == \A b \in Builders : NotesAgree(b) /\ Answered(b)

Inv == TypeOK /\ Shape /\ Unmade /\ Owned /\ HandlesHold /\ Notes

-----------------------------------------------------------------------------
(* Numbers.                                                                 *)

LEMMA MaxU32 == MAX_U32 \in Nat
BY MaxU32IsNat

LEMMA ModRange ==
  ASSUME NEW m \in Nat, NEW n \in Nat
  PROVE  n % (m + 1) \in 0 .. m /\ (n <= m => n % (m + 1) = n)
OBVIOUS

LEMMA CastExact ==
  ASSUME NEW n \in Nat, n <= MAX_U32
  PROVE  AsU32(n) = n
BY MaxU32, ModRange DEF AsU32

(* The next signal follows the others.                                      *)
LEMMA NextSignal ==
  ASSUME TypeOK, NEW b \in Builders
  PROVE  /\ Len(gates[b]) \in Nat /\ input_count[b] \in Nat
         /\ InRange(b) => /\ AsU32(Len(gates[b])) = Len(gates[b])
                          /\ PushedSignal(b) = 2 + input_count[b] + Len(gates[b])
<1>1. Len(gates[b]) \in Nat /\ input_count[b] \in Nat
  BY LenProperties, MaxU32 DEF TypeOK
<1>2. ASSUME InRange(b) PROVE AsU32(Len(gates[b])) = Len(gates[b])
  <2>1. Len(gates[b]) <= MAX_U32
    BY <1>1, <1>2, MaxU32 DEF InRange
  <2> QED
    BY <1>1, <2>1, CastExact
<1> QED
  BY <1>1, <1>2 DEF PushedSignal

LEMMA SignalsDiffer ==
  ASSUME NEW c \in Nat, NEW n \in Nat, NEW k \in 1 .. n, NEW i \in 1 .. n, i # k
  PROVE  1 + c + i # 1 + c + k /\ 1 + c + i \in 2 + c .. 1 + c + n
OBVIOUS

(* Appending a gate, and replacing one.                                     *)
LEMMA Appended ==
  ASSUME NEW s \in Seq(NetlistGate), NEW g \in NetlistGate
  PROVE  /\ Append(s, g) \in Seq(NetlistGate)
         /\ Len(Append(s, g)) = Len(s) + 1
         /\ DOMAIN s = 1 .. Len(s) /\ DOMAIN Append(s, g) = 1 .. Len(s) + 1
         /\ \A i \in 1 .. Len(s) : Append(s, g)[i] = s[i]
         /\ Append(s, g)[Len(s) + 1] = g
         /\ Len(s) \in Nat
OBVIOUS

LEMMA Replaced ==
  ASSUME NEW s \in Seq(NetlistGate), NEW g \in NetlistGate, NEW k \in 1 .. Len(s)
  PROVE  /\ [s EXCEPT ![k] = g] \in Seq(NetlistGate)
         /\ Len([s EXCEPT ![k] = g]) = Len(s)
         /\ DOMAIN s = 1 .. Len(s) /\ DOMAIN [s EXCEPT ![k] = g] = 1 .. Len(s)
         /\ \A i \in 1 .. Len(s) : [s EXCEPT ![k] = g][i] = IF i = k THEN g ELSE s[i]
         /\ Len(s) \in Nat
OBVIOUS

LEMMA GateTypes ==
  /\ \A a, b \in 0 .. MAX_U32 : Nand(a, b) \in NetlistGate /\ Nand(a, b).op = "nand"
  /\ \A d \in 0 .. MAX_U32 : Latch(d) \in NetlistGate /\ Latch(d).op = "latch"
BY DEF Nand, Latch, NetlistGate

-----------------------------------------------------------------------------
LEMMA InitInv == Init => Inv
<1> SUFFICES ASSUME Init PROVE Inv
  OBVIOUS
<1>1. <<>> \in Seq(NetlistGate) /\ <<>> \in Seq(0 .. MAX_U32) /\ Len(<<>>) = 0
      /\ DOMAIN <<>> = {} /\ 0 \in 0 .. MAX_U32
  BY MaxU32
<1>2. TypeOK
  BY <1>1 DEF Init, TypeOK, BuildErrors
<1>3. Shape /\ Unmade /\ Owned /\ HandlesHold
  BY <1>1 DEF Init, Shape, Unmade, Owned, HandlesHold
<1>4. ASSUME NEW b \in Builders PROVE NotesAgree(b) /\ Answered(b)
  <2>1. gates[b] = <<>> /\ meant[b] = <<>> /\ input_count[b] = 0 /\ answer[b] = "none"
    BY DEF Init
  <2>2. DOMAIN meant[b] = 2 + input_count[b] .. 1 + input_count[b] + Len(gates[b])
    BY <1>1, <2>1
  <2>3. InRange(b)
    BY <1>1, <2>1, LimitsAssumption DEF InRange
  <2> QED
    BY <1>1, <2>1, <2>2, <2>3 DEF NotesAgree, Answered
<1> QED
  BY <1>2, <1>3, <1>4 DEF Inv, Notes

-----------------------------------------------------------------------------
LEMMA NewKeeps ==
  ASSUME Inv, NEW b \in Builders, NEW n \in InputCounts, New(b, n)
  PROVE  Inv'
<1> USE DEF Inv
<1>1. n \in 0 .. MAX_U32
  BY ArgumentsAreU32
<1>2. /\ phase[b] = "unmade" /\ phase'[b] \in {"refused", "open"}
      /\ \A c \in Builders : c # b => phase'[c] = phase[c] /\ input_count'[c] = input_count[c]
      /\ phase' \in [Builders -> {"unmade", "open", "refused", "finished"}]
      /\ input_count' \in [Builders -> 0 .. MAX_U32]
      /\ result' \in BuildErrors \cup {"Ok", "panic"}
      /\ UNCHANGED <<gates, handles, outputs, answer, meant, careful>>
  BY <1>1 DEF New, TypeOK, BuildErrors
<1>3. TypeOK'
  BY <1>2 DEF TypeOK
<1>4. Shape' /\ Unmade'
  BY <1>2 DEF Shape, Unmade
<1>5. \A h \in handles : h.owner # b /\ h.owner \in Builders
  BY <1>2 DEF Owned, TypeOK, LatchHandle
<1>6. Owned' /\ HandlesHold'
  BY <1>2, <1>5 DEF Owned, HandlesHold
<1>7. ASSUME NEW c \in Builders PROVE NotesAgree(c)' /\ Answered(c)'
  <2>1. CASE c # b
    BY <1>2, <2>1 DEF NotesAgree, Answered, InRange, Notes
  <2>2. CASE c = b
    <3>1. gates[b] = <<>> /\ DOMAIN meant[b] = {} /\ Len(gates[b]) = 0 /\ DOMAIN gates[b] = {}
      BY <1>2 DEF Unmade
    <3>2. input_count'[b] \in Nat
      BY <1>2, MaxU32
    <3>3. 2 + input_count'[b] .. 1 + input_count'[b] + 0 = {}
      BY <3>2
    <3>4. answer[b] # "Ok"
      BY <1>2 DEF Notes, Answered
    <3>5. 1 + input_count'[b] + 0 <= MAX_U32
      <4>1. CASE input_count' = input_count
        BY <3>1, <3>2, <4>1 DEF Notes, NotesAgree, InRange
      <4>2. CASE input_count' = [input_count EXCEPT ![b] = n] /\ ~(2 + n - 1 > MAX_U24)
        <5>1. input_count'[b] = n /\ n \in Nat
          BY <1>1, <4>2, MaxU32 DEF TypeOK
        <5> QED
          BY <4>2, <5>1, LimitsAssumption
      <4> QED
        BY <4>1, <4>2 DEF New
    <3> QED
      BY <1>2, <2>2, <3>1, <3>3, <3>4, <3>5 DEF NotesAgree, Answered, InRange
  <2> QED
    BY <2>1, <2>2
<1> QED
  BY <1>3, <1>4, <1>6, <1>7 DEF Notes

(* A gate pushed, and the handle of a latch given out with it.              *)
LEMMA PushKeeps ==
  ASSUME Inv, NEW b \in Builders, NEW gate \in NetlistGate, NEW kept \in BOOLEAN,
         push_gate(b, gate, kept), UNCHANGED outputs,
         \/ UNCHANGED handles
         \/ gate.op = "latch" /\ handles' = handles \cup {Handle(b)}
  PROVE  Inv'
<1> USE DEF Inv
<1> DEFINE n == Len(gates[b])
           signal == PushedSignal(b)
<1>1. /\ gates \in [Builders -> Seq(NetlistGate)] /\ gates[b] \in Seq(NetlistGate)
      /\ meant = [c \in Builders |-> meant[c]]
      /\ careful \in [Builders -> BOOLEAN]
  BY DEF TypeOK, Shape
<1>2. /\ n \in Nat /\ input_count[b] \in Nat /\ InRange(b)
      /\ signal = 2 + input_count[b] + n /\ signal <= MAX_U32 /\ signal \in 0 .. MAX_U32
  <2>1. InRange(b) /\ signal <= MAX_U32
    BY DEF Notes, NotesAgree, push_gate
  <2>2. n \in Nat /\ input_count[b] \in Nat /\ signal = 2 + input_count[b] + n
    BY <2>1, NextSignal
  <2> HIDE DEF n, signal
  <2> QED
    BY <2>1, <2>2, MaxU32
<1>3. /\ phase[b] = "open" /\ phase' = phase /\ input_count' = input_count /\ answer' = answer
      /\ gates' = [gates EXCEPT ![b] = Append(gates[b], gate)]
      /\ meant' = [meant EXCEPT ![b] = Noted(meant[b], signal, gate)]
      /\ careful' = [careful EXCEPT ![b] = careful[b] /\ kept]
      /\ result' = "Ok"
  BY DEF push_gate, args
<1>4. /\ \A c \in Builders : c # b => /\ gates'[c] = gates[c] /\ meant'[c] = meant[c]
                                      /\ careful'[c] = careful[c]
      /\ gates'[b] = Append(gates[b], gate)
      /\ meant'[b] = Noted(meant[b], signal, gate)
      /\ careful'[b] = (careful[b] /\ kept)
      /\ meant' = [c \in Builders |-> meant'[c]]
  BY <1>1, <1>3
<1>5. /\ gates'[b] \in Seq(NetlistGate) /\ Len(gates'[b]) = n + 1
      /\ DOMAIN gates[b] = 1 .. n /\ DOMAIN gates'[b] = 1 .. n + 1
      /\ \A i \in 1 .. n : gates'[b][i] = gates[b][i]
      /\ gates'[b][n + 1] = gate
  BY <1>1, <1>4, Appended
<1>7. \A h \in handles' : \/ h \in handles
                          \/ /\ h = [gate_index |-> n, q |-> signal, owner |-> b]
                             /\ gate.op = "latch"
  BY DEF Handle
<1> HIDE DEF n, signal
<1>6. /\ DOMAIN meant'[b] = DOMAIN meant[b] \cup {signal}
      /\ meant'[b][signal] = gate
      /\ \A s \in DOMAIN meant[b] : s # signal => meant'[b][s] = meant[b][s]
  <2> DEFINE old == meant[b]
             new == Noted(old, signal, gate)
  <2>1. meant'[b] = new
    BY <1>4
  <2> HIDE DEF old
  <2>2. /\ DOMAIN new = DOMAIN old \cup {signal}
        /\ new[signal] = gate
        /\ \A s \in DOMAIN old : s # signal => new[s] = old[s]
    BY DEF Noted
  <2> QED
    BY <2>1, <2>2 DEF old
<1>8. TypeOK'
  <2>1. gates' \in [Builders -> Seq(NetlistGate)] /\ careful' \in [Builders -> BOOLEAN]
    BY <1>1, <1>3, <1>5
  <2>2. handles' \subseteq LatchHandle
    BY <1>2, <1>7 DEF TypeOK, LatchHandle
  <2>3. ASSUME NEW c \in Builders
        PROVE  /\ DOMAIN meant'[c] \subseteq 0 .. MAX_U32
               /\ \A s \in DOMAIN meant'[c] : meant'[c][s] \in NetlistGate
    <3>1. /\ DOMAIN meant[c] \subseteq 0 .. MAX_U32
          /\ \A s \in DOMAIN meant[c] : meant[c][s] \in NetlistGate
      BY DEF TypeOK
    <3>2. CASE c # b
      BY <1>4, <3>1, <3>2
    <3>3. CASE c = b
      <4>1. DOMAIN meant'[b] \subseteq 0 .. MAX_U32
        BY <1>2, <1>6, <3>1, <3>3
      <4>2. ASSUME NEW s \in DOMAIN meant'[b] PROVE meant'[b][s] \in NetlistGate
        <5>1. s = signal \/ (s \in DOMAIN meant[b] /\ s # signal)
          BY <1>6
        <5>2. CASE s = signal
          BY <1>6, <5>2
        <5>3. CASE s \in DOMAIN meant[b] /\ s # signal
          BY <1>6, <3>1, <3>3, <5>3
        <5> QED
          BY <5>1, <5>2, <5>3
      <4> QED
        BY <3>3, <4>1, <4>2
    <3> QED
      BY <3>2, <3>3
  <2> QED
    BY <1>3, <2>1, <2>2, <2>3 DEF TypeOK
<1>9. Shape' /\ Unmade'
  BY <1>3, <1>4 DEF Shape, Unmade
<1>10. ASSUME NEW h \in handles'
       PROVE  /\ phase'[h.owner] # "unmade"
              /\ h.gate_index < Len(gates'[h.owner])
              /\ gates'[h.owner][h.gate_index + 1].op = "latch"
              /\ h.q = 2 + input_count'[h.owner] + h.gate_index
  <2>1. CASE h \in handles
    <3>1. /\ phase[h.owner] # "unmade" /\ h.gate_index < Len(gates[h.owner])
          /\ gates[h.owner][h.gate_index + 1].op = "latch"
          /\ h.q = 2 + input_count[h.owner] + h.gate_index
          /\ h.owner \in Builders /\ h.gate_index \in Nat
      BY <2>1 DEF Owned, HandlesHold, TypeOK, LatchHandle
    <3>2. CASE h.owner = b
      <4>1. h.gate_index + 1 \in 1 .. n /\ h.gate_index < n + 1
        BY <1>2, <3>1, <3>2 DEF n
      <4> QED
        BY <1>3, <1>5, <3>1, <3>2, <4>1
    <3>3. CASE h.owner # b
      BY <1>3, <1>4, <3>1, <3>3
    <3> QED
      BY <3>2, <3>3
  <2>2. CASE /\ h = [gate_index |-> n, q |-> signal, owner |-> b]
             /\ gate.op = "latch"
    <3>1. h.gate_index = n /\ h.q = signal /\ h.owner = b /\ gates'[b][n + 1].op = "latch"
      BY <1>5, <2>2
    <3> QED
      BY <1>2, <1>3, <1>5, <3>1
  <2> QED
    BY <1>7, <2>1, <2>2
<1>11. Owned' /\ HandlesHold'
  BY <1>10 DEF Owned, HandlesHold
<1>12. ASSUME NEW c \in Builders PROVE NotesAgree(c)' /\ Answered(c)'
  <2>1. CASE c # b
    BY <1>3, <1>4, <2>1 DEF Notes, NotesAgree, Answered, InRange
  <2>2. CASE c = b
    <3>1. answer'[b] # "Ok"
      BY <1>3 DEF Notes, Answered
    <3>2. /\ InRange(b)'
          /\ DOMAIN meant'[b] = 2 + input_count[b] .. 1 + input_count[b] + (n + 1)
          /\ careful'[b] => \A i \in 1 .. n + 1 :
                              gates'[b][i] = meant'[b][1 + input_count[b] + i]
      <4>1. signal = 2 + input_count[b] + n /\ InRange(b)'
        <5>1. 1 + input_count[b] + (n + 1) <= MAX_U32
          BY <1>2, MaxU32
        <5>2. input_count'[b] = input_count[b] /\ Len(gates'[b]) = n + 1
          BY <1>3, <1>5
        <5> QED
          BY <1>2, <5>1, <5>2 DEF InRange
      <4>2. DOMAIN meant[b] = 2 + input_count[b] .. 1 + input_count[b] + n
        BY DEF Notes, NotesAgree, n
      <4>3. DOMAIN meant'[b] = 2 + input_count[b] .. 1 + input_count[b] + (n + 1)
        BY <1>2, <1>6, <4>1, <4>2
      <4>4. ASSUME careful'[b], NEW i \in 1 .. n + 1
            PROVE  gates'[b][i] = meant'[b][1 + input_count[b] + i]
        <5>1. CASE i = n + 1
          <6>1. 1 + input_count[b] + i = signal
            BY <1>2, <4>1, <5>1
          <6> QED
            BY <1>5, <1>6, <5>1, <6>1
        <5>2. CASE i # n + 1
          <6>1. i \in 1 .. n /\ 1 + input_count[b] + i # signal
                /\ 1 + input_count[b] + i \in DOMAIN meant[b]
            BY <1>2, <4>1, <4>2, <5>2
          <6>2. gates[b][i] = meant[b][1 + input_count[b] + i]
            BY <1>4, <1>5, <4>1, <4>4, <6>1 DEF Notes, NotesAgree
          <6> QED
            BY <1>5, <1>6, <6>1, <6>2
        <5> QED
          BY <5>1, <5>2
      <4> QED
        BY <4>1, <4>3, <4>4
    <3> QED
      BY <1>3, <1>5, <2>2, <3>1, <3>2 DEF NotesAgree, Answered
  <2> QED
    BY <2>1, <2>2
<1> QED
  BY <1>8, <1>9, <1>11, <1>12 DEF Notes

LEMMA NandKeeps ==
  ASSUME Inv, NEW b \in Builders, NEW wire \in Wires, nand(b, wire)
  PROVE  Inv'
<1>1. Nand(wire[1], wire[2]) \in NetlistGate
  BY ArgumentsAreU32, GateTypes
<1>2. ({wire[1], wire[2]} \subseteq Known(b)) \in BOOLEAN
  OBVIOUS
<1>3. UNCHANGED outputs /\ UNCHANGED handles
  BY DEF nand, push_gate, args
<1> QED
  BY <1>1, <1>2, <1>3, PushKeeps DEF nand

LEMMA LatchKeeps ==
  ASSUME Inv, NEW b \in Builders, NEW d \in Inputs, latch(b, d)
  PROVE  Inv'
<1>1. Latch(d) \in NetlistGate /\ Latch(d).op = "latch"
  BY ArgumentsAreU32, GateTypes
<1>2. (d \in Known(b) /\ LatchesOnly(b)) \in BOOLEAN
  OBVIOUS
<1>3. UNCHANGED outputs /\ handles' = handles \cup {Handle(b)}
  BY DEF latch, push_gate, args
<1> QED
  BY <1>1, <1>2, <1>3, PushKeeps DEF latch

-----------------------------------------------------------------------------
(* A latch rewired, by a handle of its own builder or of another.           *)
LEMMA SetLatchKeeps ==
  ASSUME Inv, NEW b \in Builders, NEW handle \in handles, NEW d \in Inputs,
         SetLatch(b, handle, d)
  PROVE  Inv'
<1> USE DEF Inv
<1> DEFINE k == handle.gate_index + 1
           own == Noted(meant[b], handle.q, Latch(d))
<1>1. /\ gates \in [Builders -> Seq(NetlistGate)] /\ gates[b] \in Seq(NetlistGate)
      /\ meant = [c \in Builders |-> meant[c]]
      /\ careful \in [Builders -> BOOLEAN]
      /\ Latch(d) \in NetlistGate /\ Latch(d).op = "latch"
      /\ handle.gate_index \in Nat /\ handle.q \in 0 .. MAX_U32
      /\ Len(gates[b]) \in Nat /\ input_count[b] \in Nat
  BY ArgumentsAreU32, GateTypes, NextSignal DEF TypeOK, Shape, LatchHandle
<1>2. /\ phase[b] = "open" /\ phase' = phase /\ UNCHANGED <<input_count, outputs>>
      /\ UNCHANGED <<handles, answer>>
      /\ gates' = [gates EXCEPT ![b] = [gates[b] EXCEPT ![k] = Latch(d)]]
      /\ handle.owner = b => meant' = [meant EXCEPT ![b] = own]
      /\ handle.owner # b => meant' = meant
      /\ careful' = [careful EXCEPT ![b] = careful[b] /\ handle.owner = b /\ d \in Known(b)]
      /\ result' = "Ok"
  BY DEF SetLatch, args
<1>3. k \in 1 .. Len(gates[b]) /\ gates[b][k].op = "latch"
  BY <1>1 DEF SetLatch, LatchAtIndex
<1>4. /\ \A c \in Builders : c # b => /\ gates'[c] = gates[c] /\ meant'[c] = meant[c]
                                      /\ careful'[c] = careful[c]
      /\ gates'[b] = [gates[b] EXCEPT ![k] = Latch(d)]
      /\ handle.owner = b => meant'[b] = own
      /\ handle.owner # b => meant'[b] = meant[b] /\ ~careful'[b]
      /\ careful'[b] => careful[b]
      /\ careful' \in [Builders -> BOOLEAN]
      /\ meant' = [c \in Builders |-> meant'[c]]
  BY <1>1, <1>2
<1>5. /\ DOMAIN own = DOMAIN meant[b] \cup {handle.q}
      /\ own[handle.q] = Latch(d)
      /\ \A s \in DOMAIN meant[b] : s # handle.q => own[s] = meant[b][s]
  BY DEF Noted
<1> HIDE DEF k, own
<1>6. /\ gates'[b] \in Seq(NetlistGate) /\ Len(gates'[b]) = Len(gates[b])
      /\ DOMAIN gates[b] = 1 .. Len(gates[b]) /\ DOMAIN gates'[b] = 1 .. Len(gates[b])
      /\ \A i \in 1 .. Len(gates[b]) :
           gates'[b][i] = IF i = k THEN Latch(d) ELSE gates[b][i]
  BY <1>1, <1>3, <1>4, Replaced
<1>7. gates' \in [Builders -> Seq(NetlistGate)]
  BY <1>1, <1>2, <1>4, <1>6
<1>8. ASSUME NEW c \in Builders
      PROVE  /\ DOMAIN meant'[c] \subseteq 0 .. MAX_U32
             /\ \A s \in DOMAIN meant'[c] : meant'[c][s] \in NetlistGate
  <2>1. /\ DOMAIN meant[c] \subseteq 0 .. MAX_U32
        /\ \A s \in DOMAIN meant[c] : meant[c][s] \in NetlistGate
    BY DEF TypeOK
  <2>2. CASE c # b \/ handle.owner # b
    BY <1>4, <2>1, <2>2
  <2>3. CASE c = b /\ handle.owner = b
    <3>1. DOMAIN own \subseteq 0 .. MAX_U32
      BY <1>1, <1>5, <2>1, <2>3
    <3>2. ASSUME NEW s \in DOMAIN own PROVE own[s] \in NetlistGate
      <4>1. s = handle.q \/ (s \in DOMAIN meant[b] /\ s # handle.q)
        BY <1>5
      <4>2. CASE s = handle.q
        BY <1>1, <1>5, <4>2
      <4>3. CASE s \in DOMAIN meant[b] /\ s # handle.q
        BY <1>5, <2>1, <2>3, <4>3
      <4> QED
        BY <4>1, <4>2, <4>3
    <3> QED
      BY <1>4, <2>3, <3>1, <3>2
  <2> QED
    BY <2>2, <2>3
<1>9. TypeOK'
  BY <1>2, <1>4, <1>7, <1>8 DEF TypeOK
<1>10. Shape' /\ Unmade' /\ Owned'
  BY <1>2, <1>4 DEF Shape, Unmade, Owned
<1>11. ASSUME NEW h \in handles
       PROVE  /\ h.gate_index < Len(gates'[h.owner])
              /\ gates'[h.owner][h.gate_index + 1].op = "latch"
  <2>1. /\ h.gate_index < Len(gates[h.owner])
        /\ gates[h.owner][h.gate_index + 1].op = "latch"
        /\ h.owner \in Builders /\ h.gate_index \in Nat
    BY DEF HandlesHold, TypeOK, LatchHandle
  <2>2. CASE h.owner # b
    BY <1>4, <2>1, <2>2
  <2>3. CASE h.owner = b
    <3>1. h.gate_index + 1 \in 1 .. Len(gates[b])
      BY <1>1, <2>1, <2>3
    <3> QED
      BY <1>1, <1>6, <2>1, <2>3, <3>1
  <2> QED
    BY <2>2, <2>3
<1>12. HandlesHold'
  BY <1>2, <1>11 DEF HandlesHold
<1>13. ASSUME NEW c \in Builders PROVE NotesAgree(c)' /\ Answered(c)'
  <2>1. CASE c # b
    BY <1>2, <1>4, <2>1 DEF Notes, NotesAgree, Answered, InRange
  <2>2. CASE c = b
    <3>1. answer'[b] # "Ok"
      BY <1>2 DEF Notes, Answered
    <3>2. /\ InRange(b)'
          /\ DOMAIN meant'[b] = 2 + input_count[b] .. 1 + input_count[b] + Len(gates[b])
          /\ careful'[b] => \A i \in 1 .. Len(gates[b]) :
                              gates'[b][i] = meant'[b][1 + input_count[b] + i]
      <4>1. InRange(b) /\ InRange(b)'
        BY <1>2, <1>6 DEF InRange, Notes, NotesAgree
      <4>2. DOMAIN meant[b] = 2 + input_count[b] .. 1 + input_count[b] + Len(gates[b])
        BY DEF Notes, NotesAgree
      <4>3. CASE handle.owner # b
        BY <1>4, <4>1, <4>2, <4>3
      <4>4. CASE handle.owner = b
        <5>1. handle.q = 1 + input_count[b] + k
          <6>1. handle.q = 2 + input_count[b] + handle.gate_index
            BY <4>4 DEF HandlesHold
          <6>2. input_count[b] \in Nat /\ handle.gate_index \in Nat
            BY <1>1
          <6> QED
            BY <6>1, <6>2 DEF k
        <5>2. handle.q \in DOMAIN meant[b]
          BY <1>1, <1>3, <4>2, <5>1
        <5>3. DOMAIN own = DOMAIN meant[b]
          BY <1>5, <5>2
        <5>4. ASSUME careful'[b], NEW i \in 1 .. Len(gates[b])
              PROVE  gates'[b][i] = own[1 + input_count[b] + i]
          <6>1. CASE i = k
            BY <1>5, <1>6, <5>1, <6>1
          <6>2. CASE i # k
            <7>1. 1 + input_count[b] + i # handle.q /\ 1 + input_count[b] + i \in DOMAIN meant[b]
              BY <1>1, <1>3, <4>2, <5>1, <6>2, SignalsDiffer
            <7>2. gates[b][i] = meant[b][1 + input_count[b] + i]
              BY <1>4, <1>6, <4>1, <5>4 DEF Notes, NotesAgree
            <7> QED
              BY <1>5, <1>6, <6>2, <7>1, <7>2
          <6> QED
            BY <6>1, <6>2
        <5> QED
          BY <1>4, <4>1, <4>2, <4>4, <5>3, <5>4
      <4> QED
        BY <4>3, <4>4
    <3> QED
      BY <1>2, <1>6, <2>2, <3>1, <3>2 DEF NotesAgree, Answered
  <2> QED
    BY <2>1, <2>2
<1> QED
  BY <1>9, <1>10, <1>12, <1>13 DEF Notes

LEMMA RefuseHandleKeeps ==
  ASSUME Inv, NEW b \in Builders, NEW handle \in handles, RefuseHandle(b, handle)
  PROVE  Inv'
<1> USE DEF Inv
<1>1. /\ UNCHANGED <<phase, input_count, outputs, gates, handles, answer, meant, careful>>
      /\ result' = "InvalidLatchHandle"
  BY DEF RefuseHandle, args
<1>2. TypeOK'
  BY <1>1 DEF TypeOK, BuildErrors
<1>3. Shape' /\ Unmade' /\ Owned' /\ HandlesHold'
  BY <1>1 DEF Shape, Unmade, Owned, HandlesHold
<1>4. Notes'
  BY <1>1 DEF Notes, NotesAgree, Answered, InRange
<1> QED
  BY <1>2, <1>3, <1>4

LEMMA PanicKeeps ==
  ASSUME Inv, NEW b \in Builders, PushPanics(b)
  PROVE  Inv'
<1> USE DEF Inv
<1>1. /\ UNCHANGED <<phase, input_count, outputs, gates, handles, answer, meant, careful>>
      /\ result' = "panic"
  BY DEF PushPanics, args
<1>2. TypeOK'
  BY <1>1 DEF TypeOK, BuildErrors
<1>3. Shape' /\ Unmade' /\ Owned' /\ HandlesHold'
  BY <1>1 DEF Shape, Unmade, Owned, HandlesHold
<1>4. Notes'
  BY <1>1 DEF Notes, NotesAgree, Answered, InRange
<1> QED
  BY <1>2, <1>3, <1>4

-----------------------------------------------------------------------------
LEMMA MappedErrors ==
  ASSUME NEW e
  PROVE  /\ map_compile_error(e) \in BuildErrors \cup {"Ok"}
         /\ map_compile_error(e) = "Ok" => e = "none"
BY DEF map_compile_error, BuildErrors

(* finish answers with one of its errors, or with Ok.                       *)
LEMMA FinishAnswers ==
  ASSUME NEW b \in Builders, NEW outs
  PROVE  Finish(b, outs) \in BuildErrors \cup {"Ok"}
BY MappedErrors DEF Finish, BuildErrors

LEMMA FinishKeeps ==
  ASSUME Inv, NEW b \in Builders, NEW outs \in OutputLists, finish(b, outs)
  PROVE  Inv'
<1> USE DEF Inv
<1> DEFINE r == Finish(b, outs)
<1>1. r \in BuildErrors \cup {"Ok"}
  BY FinishAnswers
<1>2. /\ phase' = [phase EXCEPT ![b] = "finished"]
      /\ outputs' = [outputs EXCEPT ![b] = outs]
      /\ answer' = [answer EXCEPT ![b] = r] /\ result' = r
      /\ UNCHANGED <<input_count, gates, handles, meant, careful>>
  BY DEF finish
<1> HIDE DEF r
<1>3. TypeOK'
  BY <1>1, <1>2, ArgumentsAreU32 DEF TypeOK
<1>4. Shape' /\ Unmade' /\ Owned' /\ HandlesHold'
  BY <1>2 DEF Shape, Unmade, Owned, HandlesHold, TypeOK
<1>5. ASSUME NEW c \in Builders PROVE NotesAgree(c)' /\ Answered(c)'
  <2>1. NotesAgree(c)'
    BY <1>2 DEF Notes, NotesAgree, InRange
  <2>2. Answered(c)'
    BY <1>1, <1>2 DEF Notes, Answered, TypeOK
  <2> QED
    BY <2>1, <2>2
<1> QED
  BY <1>3, <1>4, <1>5 DEF Notes

-----------------------------------------------------------------------------
LEMMA StepInv == Inv /\ [Next]_vars => Inv'
<1> SUFFICES ASSUME Inv, [Next]_vars PROVE Inv'
  OBVIOUS
<1>1. CASE UNCHANGED vars
  BY <1>1 DEF vars, Inv, TypeOK, Shape, Unmade, Owned, HandlesHold, Notes, NotesAgree,
              Answered, InRange
<1>2. ASSUME NEW b \in Builders, NEW n \in InputCounts, New(b, n) PROVE Inv'
  BY <1>2, NewKeeps
<1>3. ASSUME NEW b \in Builders, NEW wire \in Wires, nand(b, wire) PROVE Inv'
  BY <1>3, NandKeeps
<1>4. ASSUME NEW b \in Builders, NEW d \in Inputs, latch(b, d) PROVE Inv'
  BY <1>4, LatchKeeps
<1>5. ASSUME NEW b \in Builders, NEW handle \in handles, NEW d \in Inputs,
             set_latch_d(b, handle, d)
      PROVE  Inv'
  BY <1>5, SetLatchKeeps, RefuseHandleKeeps DEF set_latch_d
<1>6. ASSUME NEW b \in Builders, NEW outs \in OutputLists, finish(b, outs) PROVE Inv'
  BY <1>6, FinishKeeps
<1>7. ASSUME NEW b \in Builders, PushPanics(b) PROVE Inv'
  BY <1>7, PanicKeeps
<1> QED
  BY <1>1, <1>2, <1>3, <1>4, <1>5, <1>6, <1>7 DEF Next

(* What the notes of a client and the gates of its builder have in common   *)
(* at every moment, and what an answer of finish says about them.           *)
THEOREM Invariant == Spec => []Inv
<1> QED
  BY InitInv, StepInv, PTL DEF Spec

LEMMA TypeCorrect == Spec => []TypeOK
<1>1. Inv => TypeOK
  BY DEF Inv
<1> QED
  BY <1>1, Invariant, PTL

(* A handle names the latch it was given out for, however many calls on     *)
(* whichever builders follow.                                               *)
THEOREM HandlesStay == Spec => []HandlesHold
<1>1. Inv => HandlesHold
  BY DEF Inv
<1> QED
  BY <1>1, Invariant, PTL

(* However many gates are pushed, and whatever panics are caught: every gate*)
(* has a signal of its own, the one its call returned, although push_gate   *)
(* (line 130) asks for no more than that the sum is a u32.                  *)
THEOREM OwnSignals == Spec => []SignalsAreTheirOwn
<1>1. ASSUME Inv PROVE SignalsAreTheirOwn
  <2> SUFFICES ASSUME NEW b \in Builders
               PROVE  /\ DOMAIN meant[b] = {2 + input_count[b] + i : i \in 0 .. Len(gates[b]) - 1}
                      /\ DOMAIN meant[b] \subseteq 0 .. MAX_U32
    BY DEF SignalsAreTheirOwn
  <2>1. /\ DOMAIN meant[b] = 2 + input_count[b] .. 1 + input_count[b] + Len(gates[b])
        /\ DOMAIN meant[b] \subseteq 0 .. MAX_U32
    BY <1>1 DEF Inv, Notes, NotesAgree, TypeOK
  <2>2. Len(gates[b]) \in Nat /\ input_count[b] \in Nat
    BY <1>1, NextSignal DEF Inv
  <2>3. ASSUME NEW c \in Nat, NEW n \in Nat
        PROVE  2 + c .. 1 + c + n = {2 + c + i : i \in 0 .. n - 1}
    <3>1. ASSUME NEW x \in 2 + c .. 1 + c + n PROVE \E i \in 0 .. n - 1 : x = 2 + c + i
      <4>1. x - 2 - c \in 0 .. n - 1 /\ x = 2 + c + (x - 2 - c)
        OBVIOUS
      <4> QED
        BY <4>1
    <3> QED
      BY <3>1
  <2> QED
    BY <2>1, <2>2, <2>3
<1> QED
  BY <1>1, Invariant, PTL

(* If finish returns bytes, they are the bytes of the gates the client asked*)
(* for under the signals it was handed.                                     *)
THEOREM BuiltAsMeant == Spec => []BuildsWhatWasMeant
<1>1. ASSUME Inv PROVE BuildsWhatWasMeant
  BY <1>1 DEF Inv, Notes, NotesAgree, BuildsWhatWasMeant
<1> QED
  BY <1>1, Invariant, PTL

-----------------------------------------------------------------------------
(* The answer of finish stays what Finish says of the gates: a builder that *)
(* is finished is not touched again.                                        *)
AnswerHolds == \A b \in Builders : phase[b] = "finished" => answer[b] = Finish(b, outputs[b])

LEMMA SameAnswer ==
  ASSUME NEW b \in Builders, phase[b] = "finished", answer[b] = Finish(b, outputs[b]),
         gates'[b] = gates[b], input_count'[b] = input_count[b],
         outputs'[b] = outputs[b], answer'[b] = answer[b]
  PROVE  answer'[b] = Finish(b, outputs[b])'
BY DEF Finish, LatchAfterNand, NetlistOf

LEMMA OnlyOpenTouched ==
  ASSUME TypeOK, [Next]_vars, NEW b \in Builders, phase[b] = "finished"
  PROVE  /\ gates'[b] = gates[b] /\ input_count'[b] = input_count[b]
         /\ outputs'[b] = outputs[b] /\ answer'[b] = answer[b]
<1>1. /\ phase \in [Builders -> {"unmade", "open", "refused", "finished"}]
      /\ DOMAIN input_count = Builders /\ DOMAIN gates = Builders
      /\ DOMAIN outputs = Builders /\ DOMAIN answer = Builders
  BY DEF TypeOK
<1>2. CASE UNCHANGED vars
  BY <1>2 DEF vars, args
<1>3. ASSUME NEW c \in Builders, NEW n \in InputCounts, New(c, n) PROVE b # c
  BY <1>3 DEF New
<1>4. ASSUME NEW c \in Builders, NEW g, NEW k, push_gate(c, g, k) PROVE b # c
  BY <1>4 DEF push_gate
<1>5. ASSUME NEW c \in Builders, NEW n \in InputCounts, New(c, n)
      PROVE  input_count'[b] = input_count[b] /\ gates' = gates /\ outputs' = outputs
             /\ answer' = answer
  BY <1>1, <1>3, <1>5 DEF New
<1>6. ASSUME NEW c \in Builders, NEW g, NEW k, push_gate(c, g, k)
      PROVE  gates'[b] = gates[b] /\ input_count' = input_count /\ outputs' = outputs
             /\ answer' = answer
  <2>1. gates' = [gates EXCEPT ![c] = Append(@, g)] /\ b # c
    BY <1>4, <1>6 DEF push_gate
  <2>2. gates'[b] = gates[b]
    BY <1>1, <2>1
  <2> QED
    BY <1>6, <2>2 DEF push_gate, args
<1>7. ASSUME NEW c \in Builders, NEW h \in handles, NEW d \in Inputs, SetLatch(c, h, d)
      PROVE  gates'[b] = gates[b] /\ input_count' = input_count /\ outputs' = outputs
             /\ answer' = answer
  <2>1. b # c /\ gates' = [gates EXCEPT ![c] = [@ EXCEPT ![h.gate_index + 1] = Latch(d)]]
    BY <1>7 DEF SetLatch
  <2>2. gates'[b] = gates[b]
    BY <1>1, <2>1
  <2> QED
    BY <1>7, <2>2 DEF SetLatch, args
<1>8. ASSUME NEW c \in Builders, NEW h \in handles, RefuseHandle(c, h)
      PROVE  gates' = gates /\ input_count' = input_count /\ outputs' = outputs
             /\ answer' = answer
  BY <1>8 DEF RefuseHandle, args
<1>9. ASSUME NEW c \in Builders, NEW outs \in OutputLists, finish(c, outs)
      PROVE  gates' = gates /\ input_count' = input_count /\ outputs'[b] = outputs[b]
             /\ answer'[b] = answer[b]
  <2>1. b # c
    BY <1>9 DEF finish
  <2> QED
    BY <1>1, <1>9, <2>1 DEF finish
<1>10. ASSUME NEW c \in Builders, PushPanics(c)
       PROVE  gates' = gates /\ input_count' = input_count /\ outputs' = outputs
              /\ answer' = answer
  BY <1>10 DEF PushPanics, args
<1> QED
  BY <1>2, <1>5, <1>6, <1>7, <1>8, <1>9, <1>10 DEF Next, nand, latch, set_latch_d

LEMMA AnswerStep == TypeOK /\ AnswerHolds /\ [Next]_vars => AnswerHolds'
<1> SUFFICES ASSUME TypeOK, AnswerHolds, [Next]_vars,
                    NEW b \in Builders, phase'[b] = "finished"
             PROVE  answer'[b] = Finish(b, outputs[b])'
  BY DEF AnswerHolds
<1>1. CASE phase[b] = "finished"
  <2>1. answer[b] = Finish(b, outputs[b])
    BY <1>1 DEF AnswerHolds
  <2> QED
    BY <1>1, <2>1, OnlyOpenTouched, SameAnswer
<1>2. CASE phase[b] # "finished"
  <2>1. phase'[b] # phase[b] /\ phase \in [Builders -> {"unmade", "open", "refused", "finished"}]
    BY <1>2 DEF TypeOK
  <2>2. phase' # phase
    BY <2>1
  <2>3. PICK c \in Builders : \/ \E n \in InputCounts : New(c, n)
                              \/ \E outs \in OutputLists : finish(c, outs)
    BY <2>2 DEF Next, vars, nand, latch, push_gate, PushPanics, set_latch_d, SetLatch, RefuseHandle
  <2>4. ASSUME NEW n \in InputCounts, New(c, n) PROVE FALSE
    BY <2>1, <2>4 DEF New
  <2>5. PICK outs \in OutputLists : finish(c, outs)
    BY <2>3, <2>4
  <2>6. b = c
    BY <2>1, <2>5 DEF finish
  <2>7. /\ answer'[b] = Finish(b, outs) /\ outputs'[b] = outs
        /\ gates' = gates /\ input_count' = input_count
    BY <2>5, <2>6 DEF finish, TypeOK
  <2> QED
    BY <2>7 DEF Finish, LatchAfterNand, NetlistOf
<1> QED
  BY <1>1, <1>2

(* The names of the errors.                                                 *)
LEMMA ErrorNames ==
  ASSUME NEW n \in Netlist
  PROVE  EncodeError(n) \in {"none", "CountOverflow", "SignalSpaceExhausted", "InvalidOutput",
                             "InvalidNandReference", "NonCanonicalLatchOrder",
                             "InvalidLatchReference", "BodyTooLarge"}
BY DEF EncodeError, CountsError, GateError

LEMMA MappedToOk ==
  ASSUME NEW n \in Netlist
  PROVE  /\ map_compile_error(EncodeError(n)) # "InvalidNetlist"
         /\ map_compile_error(EncodeError(n)) = "Ok" <=> EncodeError(n) = "none"
BY ErrorNames DEF map_compile_error

(* Its own checks refuse nothing that has an encoding.                      *)
LEMMA OwnChecks ==
  ASSUME TypeOK, NEW b \in Builders, InRange(b), NEW outs \in Seq(0 .. MAX_U32),
         Encodable(NetlistOf(b, outs))
  PROVE  Finish(b, outs) = map_compile_error(EncodeError(NetlistOf(b, outs)))
<1> DEFINE n == NetlistOf(b, outs)
           total == 2 + input_count[b] + AsU32(Len(gates[b]))
<1>1. /\ n \in Netlist /\ n.gates = gates[b] /\ n.outputs = outs
      /\ n.input_count = input_count[b]
  BY DEF NetlistOf, Netlist, TypeOK
<1>2. /\ Len(gates[b]) \in Nat /\ input_count[b] \in Nat
      /\ DOMAIN outs = 1 .. Len(outs) /\ gates[b] \in Seq(NetlistGate)
      /\ \A i \in DOMAIN gates[b] : i \in Nat /\ gates[b][i] \in NetlistGate
  BY <1>1, NetlistFields
<1>3. SignalCount(n) - 1 <= MAX_U24 /\ SignalCount(n) = 2 + input_count[b] + Len(gates[b])
  BY <1>1 DEF Encodable, SignalCount
<1>4. /\ \A k \in DOMAIN outs : outs[k] < SignalCount(n)
      /\ LatchesFirst(gates[b])
  BY <1>1, ValidParts DEF Encodable
<1>6. total = SignalCount(n)
  BY <1>3, NextSignal
<1>7. ~(total > MAX_U32) /\ ~(total - 1 > MAX_U24)
  BY <1>2, <1>3, <1>6, MaxU32IsNat
<1>8. ASSUME NEW k \in DOMAIN outs PROVE ~(outs[k] >= total)
  <2>1. outs[k] \in Nat /\ outs[k] < SignalCount(n) /\ SignalCount(n) \in Nat
    BY <1>1, <1>4, NetlistFields, MaxU32IsNat
  <2> HIDE DEF n, total
  <2> QED
    BY <1>6, <2>1
<1>9. ~LatchAfterNand(b)
  BY <1>2, <1>4, GateOps DEF LatchesFirst, LatchAfterNand
<1> HIDE DEF n
<1> QED
  BY <1>7, <1>8, <1>9 DEF Finish, n

(* finish accepts exactly the circuits that have an encoding (line 146):    *)
(* its own checks refuse no more than encode_netlist does.                  *)
THEOREM FinishExact == Spec => []FinishIsExact
<1>1. Init => AnswerHolds
  BY DEF Init, AnswerHolds
<1>2. Inv /\ AnswerHolds => FinishIsExact
  <2> SUFFICES ASSUME Inv, AnswerHolds, NEW b \in Builders, phase[b] = "finished"
               PROVE  /\ answer[b] = "Ok" <=> Encodable(NetlistOf(b, outputs[b]))
                      /\ answer[b] # "InvalidNetlist"
    BY DEF FinishIsExact
  <2> DEFINE n == NetlistOf(b, outputs[b])
  <2>1. n \in Netlist /\ outputs[b] \in Seq(0 .. MAX_U32) /\ TypeOK /\ InRange(b)
    BY DEF NetlistOf, Netlist, Inv, TypeOK, Notes, NotesAgree
  <2>2. answer[b] \in {"TooManySignals", "InvalidSignal", "NonCanonicalLatchOrder",
                       map_compile_error(EncodeError(n))}
    BY DEF AnswerHolds, Finish
  <2>3. Encodable(n) => answer[b] = map_compile_error(EncodeError(n))
    BY <2>1, OwnChecks DEF AnswerHolds
  <2>4. EncodeError(n) = "none" <=> Encodable(n)
    BY <2>1, RulesAreExact
  <2>5. /\ map_compile_error(EncodeError(n)) # "InvalidNetlist"
        /\ map_compile_error(EncodeError(n)) = "Ok" <=> EncodeError(n) = "none"
    BY <2>1, MappedToOk
  <2> HIDE DEF n
  <2>6. answer[b] = "Ok" <=> Encodable(n)
    BY <2>2, <2>3, <2>4, <2>5
  <2>7. answer[b] # "InvalidNetlist"
    BY <2>2, <2>5
  <2> QED
    BY <2>6, <2>7 DEF n
<1> QED
  BY <1>1, <1>2, AnswerStep, TypeCorrect, Invariant, PTL DEF Spec

-----------------------------------------------------------------------------

(* What a call may do to the gates of b.                                    *)
Kept(b) ==
  /\ Len(gates'[b]) >= Len(gates[b])
  /\ \A i \in DOMAIN gates[b] :
       gates'[b][i] # gates[b][i] => gates[b][i].op = "latch" /\ gates'[b][i].op = "latch"

LEMMA SameGatesKept ==
  ASSUME TypeOK, NEW b \in Builders, gates'[b] = gates[b]
  PROVE  Kept(b)
BY NextSignal DEF Kept

LEMMA PushKept ==
  ASSUME TypeOK, NEW b \in Builders, NEW gate \in NetlistGate, NEW kept,
         push_gate(b, gate, kept), NEW c \in Builders
  PROVE  Kept(c)
<1>1. gates \in [Builders -> Seq(NetlistGate)] /\ gates' = [gates EXCEPT ![b] = Append(gates[b], gate)]
  BY DEF push_gate, TypeOK
<1>2. CASE c # b
  BY <1>1, <1>2, SameGatesKept
<1>3. CASE c = b
  <2>1. gates'[b] = Append(gates[b], gate) /\ gates[b] \in Seq(NetlistGate)
    BY <1>1
  <2> QED
    BY <1>3, <2>1, Appended DEF Kept
<1> QED
  BY <1>2, <1>3

LEMMA SetLatchKept ==
  ASSUME TypeOK, NEW b \in Builders, NEW handle \in handles, NEW d \in Inputs,
         SetLatch(b, handle, d), NEW c \in Builders
  PROVE  Kept(c)
<1> DEFINE k == handle.gate_index + 1
<1>1. /\ gates \in [Builders -> Seq(NetlistGate)] /\ handle.gate_index \in Nat
      /\ gates' = [gates EXCEPT ![b] = [gates[b] EXCEPT ![k] = Latch(d)]]
      /\ gates[b][k].op = "latch" /\ handle.gate_index < Len(gates[b])
      /\ Latch(d) \in NetlistGate /\ Latch(d).op = "latch"
  BY ArgumentsAreU32, GateTypes DEF SetLatch, LatchAtIndex, TypeOK, LatchHandle
<1>2. k \in 1 .. Len(gates[b])
  BY <1>1, NextSignal
<1> HIDE DEF k
<1>3. CASE c # b
  BY <1>1, <1>3, SameGatesKept
<1>4. CASE c = b
  <2>1. gates'[b] = [gates[b] EXCEPT ![k] = Latch(d)] /\ gates[b] \in Seq(NetlistGate)
    BY <1>1
  <2>2. /\ Len(gates'[b]) = Len(gates[b]) /\ Len(gates[b]) \in Nat
        /\ DOMAIN gates[b] = 1 .. Len(gates[b])
        /\ \A i \in 1 .. Len(gates[b]) :
             gates'[b][i] = IF i = k THEN Latch(d) ELSE gates[b][i]
    BY <1>1, <1>2, <2>1, Replaced
  <2> QED
    BY <1>1, <1>4, <2>2 DEF Kept
<1> QED
  BY <1>3, <1>4

(* No call, with whichever handle, takes a gate away, moves one or touches  *)
(* a NAND: a stray handle can at most rewire a latch (line 81).             *)
THEOREM GatesAreKept == Spec => GatesStay
<1>1. ASSUME TypeOK, [Next]_vars, NEW c \in Builders PROVE Kept(c)
  <2>1. CASE UNCHANGED gates
    BY <1>1, <2>1, SameGatesKept
  <2>2. ASSUME NEW b \in Builders, NEW wire \in Wires, nand(b, wire) PROVE Kept(c)
    <3>1. Nand(wire[1], wire[2]) \in NetlistGate
      BY ArgumentsAreU32, GateTypes
    <3> QED
      BY <1>1, <2>2, <3>1, PushKept DEF nand
  <2>3. ASSUME NEW b \in Builders, NEW d \in Inputs, latch(b, d) PROVE Kept(c)
    <3>1. Latch(d) \in NetlistGate
      BY ArgumentsAreU32, GateTypes
    <3> QED
      BY <1>1, <2>3, <3>1, PushKept DEF latch
  <2>4. ASSUME NEW b \in Builders, NEW handle \in handles, NEW d \in Inputs,
               SetLatch(b, handle, d)
        PROVE  Kept(c)
    BY <1>1, <2>4, SetLatchKept
  <2> QED
    BY <1>1, <2>1, <2>2, <2>3, <2>4 DEF Next, vars, New, PushPanics, set_latch_d, RefuseHandle, finish
<1>2. TypeOK /\ [Next]_vars => [\A b \in Builders : Kept(b)]_vars
  BY <1>1
<1>3. Spec => [][\A b \in Builders : Kept(b)]_vars
  BY <1>2, TypeCorrect, PTL DEF Spec
<1> QED
  BY <1>3 DEF GatesStay, Kept

-----------------------------------------------------------------------------
(* A careful client.  What it knows are the signals there are, so           *)
(* that a gate it asks for reads nothing later; a latch it wires    *)
(* afterwards reads a signal of the circuit.                                *)

Within(g, own, all) == IF g.op = "nand" THEN g.a < own /\ g.b < own ELSE g.d < all

Wired(b) ==
  careful[b] =>
    /\ LatchesFirst(gates[b])
    /\ \A i \in DOMAIN gates[b] :
         Within(gates[b][i], 1 + input_count[b] + i, 2 + input_count[b] + Len(gates[b]))

Wiring == \A b \in Builders : Wired(b)

LEMMA KnownSignals ==
  ASSUME Inv, NEW b \in Builders
  PROVE  Known(b) = 0 .. 1 + input_count[b] + Len(gates[b])
<1>1. DOMAIN meant[b] = 2 + input_count[b] .. 1 + input_count[b] + Len(gates[b])
  BY DEF Inv, Notes, NotesAgree
<1>2. Len(gates[b]) \in Nat /\ input_count[b] \in Nat
  BY NextSignal DEF Inv
<1> QED
  BY <1>1, <1>2 DEF Known

LEMMA SameWired ==
  ASSUME NEW b \in Builders, Wired(b), gates'[b] = gates[b], careful'[b] = careful[b],
         input_count'[b] = input_count[b]
  PROVE  Wired(b)'
BY DEF Wired

LEMMA PushWired ==
  ASSUME Inv, Wiring, NEW b \in Builders, NEW g \in NetlistGate, NEW kept \in BOOLEAN,
         push_gate(b, g, kept),
         kept => IF g.op = "nand" THEN g.a \in Known(b) /\ g.b \in Known(b)
                 ELSE g.d \in Known(b) /\ LatchesOnly(b)
  PROVE  Wiring'
<1> DEFINE n == Len(gates[b])
<1>1. /\ gates \in [Builders -> Seq(NetlistGate)] /\ gates[b] \in Seq(NetlistGate)
      /\ careful \in [Builders -> BOOLEAN]
      /\ n \in Nat /\ input_count[b] \in Nat
  BY NextSignal DEF Inv, TypeOK
<1>2. /\ input_count' = input_count
      /\ gates' = [gates EXCEPT ![b] = Append(gates[b], g)]
      /\ careful' = [careful EXCEPT ![b] = careful[b] /\ kept]
  BY DEF push_gate, args
<1>3. /\ \A c \in Builders : c # b => gates'[c] = gates[c] /\ careful'[c] = careful[c]
      /\ gates'[b] = Append(gates[b], g)
      /\ careful'[b] = (careful[b] /\ kept)
  BY <1>1, <1>2
<1>4. /\ Len(gates'[b]) = n + 1
      /\ DOMAIN gates[b] = 1 .. n /\ DOMAIN gates'[b] = 1 .. n + 1
      /\ \A i \in 1 .. n : gates'[b][i] = gates[b][i]
      /\ gates'[b][n + 1] = g
  BY <1>1, <1>3, Appended
<1> HIDE DEF n
<1>6. ASSUME careful'[b]
      PROVE  /\ LatchesFirst(gates'[b])
             /\ \A i \in 1 .. n + 1 :
                  Within(gates'[b][i], 1 + input_count[b] + i, 2 + input_count[b] + (n + 1))
  <2>1. careful[b] /\ kept
    BY <1>3, <1>6
  <2>2. /\ LatchesFirst(gates[b])
        /\ \A i \in 1 .. n : Within(gates[b][i], 1 + input_count[b] + i, 2 + input_count[b] + n)
    BY <1>4, <2>1 DEF Wiring, Wired, n
  <2>3. Known(b) = 0 .. 1 + input_count[b] + n
    BY KnownSignals DEF n
  <2>4. ASSUME NEW x \in Known(b) PROVE x < 1 + input_count[b] + (n + 1) /\ x < 2 + input_count[b] + (n + 1)
    BY <1>1, <2>3
  <2>5. Within(g, 1 + input_count[b] + (n + 1), 2 + input_count[b] + (n + 1))
    BY <2>1, <2>4 DEF Within
  <2>6. ASSUME NEW i \in 1 .. n
        PROVE  Within(gates'[b][i], 1 + input_count[b] + i, 2 + input_count[b] + (n + 1))
    <3>1. gates[b][i] \in NetlistGate /\ gates'[b][i] = gates[b][i]
      BY <1>1, <1>4
    <3>2. gates[b][i].op # "nand" => gates[b][i].d \in Nat
      BY <3>1, GateOps, MaxU32
    <3>3. ASSUME NEW d \in Nat, d < 2 + input_count[b] + n PROVE d < 2 + input_count[b] + (n + 1)
      BY <1>1, <3>3
    <3> QED
      BY <2>2, <3>1, <3>2, <3>3 DEF Within
  <2>7. \A i \in 1 .. n + 1 : i \in 1 .. n \/ i = n + 1
    BY <1>1
  <2>8. LatchesFirst(gates'[b])
    <3> SUFFICES ASSUME NEW i \in 1 .. n + 1, NEW j \in 1 .. n + 1, i < j,
                        gates'[b][j].op = "latch"
                 PROVE  gates'[b][i].op = "latch"
      BY <1>4 DEF LatchesFirst
    <3>1. i \in 1 .. n /\ gates'[b][i] = gates[b][i]
      BY <1>1, <1>4
    <3>2. CASE j = n + 1
      <4>1. g.op # "nand"
        BY <1>4, <3>2, GateOps
      <4> QED
        BY <1>4, <2>1, <3>1, <4>1 DEF LatchesOnly
    <3>3. CASE j \in 1 .. n
      BY <1>4, <2>2, <3>1, <3>3 DEF LatchesFirst
    <3> QED
      BY <2>7, <3>2, <3>3
  <2> QED
    BY <1>4, <2>5, <2>6, <2>7, <2>8
<1>7. Wired(b)'
  BY <1>2, <1>4, <1>6 DEF Wired
<1>8. ASSUME NEW c \in Builders, c # b PROVE Wired(c)'
  BY <1>2, <1>3, <1>8, SameWired DEF Wiring
<1> QED
  BY <1>7, <1>8 DEF Wiring

LEMMA SetLatchWired ==
  ASSUME Inv, Wiring, NEW b \in Builders, NEW handle \in handles, NEW d \in Inputs,
         SetLatch(b, handle, d)
  PROVE  Wiring'
<1> DEFINE k == handle.gate_index + 1
           n == Len(gates[b])
<1>1. /\ gates \in [Builders -> Seq(NetlistGate)] /\ gates[b] \in Seq(NetlistGate)
      /\ careful \in [Builders -> BOOLEAN] /\ handle.gate_index \in Nat
      /\ Latch(d) \in NetlistGate /\ Latch(d).op = "latch" /\ Latch(d).d = d
      /\ n \in Nat /\ input_count[b] \in Nat
  BY ArgumentsAreU32, GateTypes, NextSignal DEF Inv, TypeOK, LatchHandle, Latch
<1>2. /\ gates' = [gates EXCEPT ![b] = [gates[b] EXCEPT ![k] = Latch(d)]]
      /\ careful' = [careful EXCEPT ![b] = careful[b] /\ handle.owner = b /\ d \in Known(b)]
      /\ input_count' = input_count
  BY DEF SetLatch, args
<1>3. k \in 1 .. n /\ gates[b][k].op = "latch"
  BY <1>1 DEF SetLatch, LatchAtIndex
<1>4. /\ \A c \in Builders : c # b => gates'[c] = gates[c] /\ careful'[c] = careful[c]
      /\ gates'[b] = [gates[b] EXCEPT ![k] = Latch(d)]
      /\ careful'[b] => careful[b] /\ d \in Known(b)
  BY <1>1, <1>2
<1> HIDE DEF k
<1>5. /\ Len(gates'[b]) = n /\ DOMAIN gates[b] = 1 .. n /\ DOMAIN gates'[b] = 1 .. n
      /\ \A i \in 1 .. n : gates'[b][i] = IF i = k THEN Latch(d) ELSE gates[b][i]
  BY <1>1, <1>3, <1>4, Replaced
<1> HIDE DEF n
<1>6. ASSUME careful'[b]
      PROVE  /\ LatchesFirst(gates'[b])
             /\ \A i \in 1 .. n :
                  Within(gates'[b][i], 1 + input_count[b] + i, 2 + input_count[b] + n)
  <2>1. careful[b] /\ d \in Known(b)
    BY <1>4, <1>6
  <2>2. /\ LatchesFirst(gates[b])
        /\ \A i \in 1 .. n : Within(gates[b][i], 1 + input_count[b] + i, 2 + input_count[b] + n)
    BY <1>5, <2>1 DEF Wiring, Wired, n
  <2>3. d < 2 + input_count[b] + n
    <3>1. d \in 0 .. 1 + input_count[b] + n
      BY <2>1, KnownSignals DEF n
    <3> QED
      BY <1>1, <3>1
  <2>4. \A i \in 1 .. n : gates'[b][i].op = gates[b][i].op
    BY <1>1, <1>3, <1>5
  <2>5. LatchesFirst(gates'[b])
    BY <1>5, <2>2, <2>4 DEF LatchesFirst
  <2>6. ASSUME NEW i \in 1 .. n
        PROVE  Within(gates'[b][i], 1 + input_count[b] + i, 2 + input_count[b] + n)
    BY <1>1, <1>5, <2>2, <2>3 DEF Within
  <2> QED
    BY <2>5, <2>6
<1>7. Wired(b)'
  BY <1>2, <1>5, <1>6 DEF Wired
<1>8. ASSUME NEW c \in Builders, c # b PROVE Wired(c)'
  BY <1>2, <1>4, <1>8, SameWired DEF Wiring
<1> QED
  BY <1>7, <1>8 DEF Wiring

LEMMA NewWired ==
  ASSUME Inv, Wiring, NEW b \in Builders, NEW n \in InputCounts, New(b, n)
  PROVE  Wiring'
<1>1. /\ phase[b] = "unmade" /\ UNCHANGED <<gates, careful>>
      /\ \A c \in Builders : c # b => input_count'[c] = input_count[c]
  BY DEF New, Inv, TypeOK
<1>2. gates[b] = <<>>
  BY <1>1 DEF Inv, Unmade
<1>3. Wired(b)'
  <2>1. DOMAIN <<>> = {}
    OBVIOUS
  <2> QED
    BY <1>1, <1>2, <2>1 DEF Wired, LatchesFirst
<1>4. ASSUME NEW c \in Builders, c # b PROVE Wired(c)'
  BY <1>1, <1>4, SameWired DEF Wiring
<1> QED
  BY <1>1, <1>3, <1>4 DEF Wiring

LEMMA WiringStep == Inv /\ Wiring /\ [Next]_vars => Wiring'
<1> SUFFICES ASSUME Inv, Wiring, [Next]_vars PROVE Wiring'
  OBVIOUS
<1>1. CASE UNCHANGED <<gates, careful, input_count>>
  BY <1>1, SameWired DEF Wiring
<1>2. ASSUME NEW b \in Builders, NEW n \in InputCounts, New(b, n) PROVE Wiring'
  BY <1>2, NewWired
<1>3. ASSUME NEW b \in Builders, NEW wire \in Wires, nand(b, wire) PROVE Wiring'
  <2> DEFINE kept == {wire[1], wire[2]} \subseteq Known(b)
  <2>1. /\ Nand(wire[1], wire[2]) \in NetlistGate /\ Nand(wire[1], wire[2]).op = "nand"
        /\ Nand(wire[1], wire[2]).a = wire[1] /\ Nand(wire[1], wire[2]).b = wire[2]
    BY ArgumentsAreU32, GateTypes DEF Nand
  <2>2. kept \in BOOLEAN /\ (kept => wire[1] \in Known(b) /\ wire[2] \in Known(b))
    OBVIOUS
  <2>3. push_gate(b, Nand(wire[1], wire[2]), kept)
    BY <1>3 DEF nand
  <2> HIDE DEF kept
  <2> QED
    BY <2>1, <2>2, <2>3, PushWired
<1>4. ASSUME NEW b \in Builders, NEW d \in Inputs, latch(b, d) PROVE Wiring'
  <2> DEFINE kept == d \in Known(b) /\ LatchesOnly(b)
  <2>1. Latch(d) \in NetlistGate /\ Latch(d).op # "nand" /\ Latch(d).d = d
    BY ArgumentsAreU32, GateTypes DEF Latch
  <2>2. kept \in BOOLEAN /\ (kept => d \in Known(b) /\ LatchesOnly(b))
    OBVIOUS
  <2>3. push_gate(b, Latch(d), kept)
    BY <1>4 DEF latch
  <2> HIDE DEF kept
  <2> QED
    BY <2>1, <2>2, <2>3, PushWired
<1>5. ASSUME NEW b \in Builders, NEW handle \in handles, NEW d \in Inputs,
             SetLatch(b, handle, d)
      PROVE  Wiring'
  BY <1>5, SetLatchWired
<1>6. ASSUME NEW b \in Builders, NEW handle, RefuseHandle(b, handle)
      PROVE  UNCHANGED <<gates, careful, input_count>>
  BY <1>6 DEF RefuseHandle, args
<1>7. ASSUME NEW b \in Builders, NEW outs, finish(b, outs)
      PROVE  UNCHANGED <<gates, careful, input_count>>
  BY <1>7 DEF finish
<1>8. ASSUME NEW b \in Builders, PushPanics(b)
      PROVE  UNCHANGED <<gates, careful, input_count>>
  BY <1>8 DEF PushPanics, args
<1> QED
  BY <1>1, <1>2, <1>3, <1>4, <1>5, <1>6, <1>7, <1>8 DEF Next, vars, args, set_latch_d

(* Then the only complaints left are those about sizes.                     *)
LEMMA CarefulAnswer ==
  ASSUME Inv, Wiring, NEW b \in Builders, careful[b],
         \A k \in DOMAIN outputs[b] : outputs[b][k] \in Known(b)
  PROVE  Finish(b, outputs[b]) \in {"Ok", "TooManySignals", "BodyTooLarge"}
<1> DEFINE n == NetlistOf(b, outputs[b])
           total == 2 + input_count[b] + AsU32(Len(gates[b]))
<1>1. /\ n \in Netlist /\ n.gates = gates[b] /\ n.outputs = outputs[b]
      /\ n.input_count = input_count[b]
  BY DEF NetlistOf, Netlist, Inv, TypeOK
<1>2. /\ Len(gates[b]) \in Nat /\ input_count[b] \in Nat /\ DOMAIN gates[b] = 1 .. Len(gates[b])
      /\ SignalCount(n) = 2 + input_count[b] + Len(gates[b])
      /\ \A i \in DOMAIN gates[b] : gates[b][i] \in NetlistGate
  BY <1>1, NetlistFields DEF SignalCount
<1>3. total = SignalCount(n) /\ total \in Nat
  <2>1. AsU32(Len(gates[b])) = Len(gates[b])
    BY NextSignal DEF Inv, Notes, NotesAgree
  <2> QED
    BY <1>2, <2>1
<1>4. CASE total > MAX_U32 \/ total - 1 > MAX_U24
  BY <1>4 DEF Finish
<1>5. CASE ~(total > MAX_U32) /\ ~(total - 1 > MAX_U24)
  <2>2. /\ LatchesFirst(gates[b])
        /\ \A i \in DOMAIN gates[b] :
             Within(gates[b][i], 1 + input_count[b] + i, 2 + input_count[b] + Len(gates[b]))
    BY DEF Wiring, Wired
  <2>3. ASSUME NEW k \in DOMAIN outputs[b] PROVE ~(outputs[b][k] >= total)
    <3>1. outputs[b][k] \in 0 .. 1 + input_count[b] + Len(gates[b])
      BY KnownSignals
    <3> QED
      BY <1>2, <1>3, <3>1
  <2>4. ~LatchAfterNand(b)
    <3>1. ASSUME NEW i \in DOMAIN gates[b], NEW j \in DOMAIN gates[b], i < j,
                 gates[b][i].op = "nand", gates[b][j].op = "latch"
          PROVE  FALSE
      BY <2>2, <3>1 DEF LatchesFirst
    <3> QED
      BY <3>1 DEF LatchAfterNand
  <2>5. CountsError(n) \in {"none", "CountOverflow"}
    <3>1. ~(SignalCount(n) - 1 > MAX_U24) /\ ~ \E k \in DOMAIN n.outputs : n.outputs[k] >= SignalCount(n)
      BY <1>1, <1>3, <1>5, <2>3
    <3> HIDE DEF n
    <3> QED
      BY <3>1 DEF CountsError
  <2>6. BadGates(n) = {}
    <3>1. \A i \in DOMAIN n.gates : ReadsWell(n, i)
      BY <1>1, <1>2, <2>2 DEF Within, ReadsWell
    <3> QED
      BY <1>1, <2>2, <3>1, GatesFit
  <2>7. EncodeError(n) \in {"none", "CountOverflow", "BodyTooLarge"}
    <3> HIDE DEF n
    <3> QED
      BY <2>5, <2>6 DEF EncodeError
  <2>8. Finish(b, outputs[b]) = map_compile_error(EncodeError(n))
    BY <1>5, <2>3, <2>4 DEF Finish
  <2> HIDE DEF n
  <2> QED
    BY <2>7, <2>8 DEF map_compile_error
<1> QED
  BY <1>4, <1>5

(* A client that makes its latches first, wires only what it was handed and *)
(* uses every handle with the builder that gave it out is refused only for  *)
(* size (lines 80 to 147).                                                  *)
THEOREM CarefulSucceeds == Spec => []CarefulBuildSucceeds
<1>1. Init => Wiring
  <2> SUFFICES ASSUME Init, NEW b \in Builders PROVE Wired(b)
    BY DEF Wiring
  <2>1. gates[b] = <<>> /\ DOMAIN <<>> = {}
    BY DEF Init
  <2> QED
    BY <2>1 DEF Wired, LatchesFirst
<1>2. Init => AnswerHolds
  BY DEF Init, AnswerHolds
<1>3. Inv /\ Wiring /\ AnswerHolds => CarefulBuildSucceeds
  BY CarefulAnswer DEF AnswerHolds, CarefulBuildSucceeds
<1> QED
  BY <1>1, <1>2, <1>3, WiringStep, AnswerStep, TypeCorrect, Invariant, PTL DEF Spec

-----------------------------------------------------------------------------
(* The browser bindings.  Bytes and their arithmetic first.                 *)

LEMMA BitBytes ==
  ASSUME NEW n \in Nat
  PROVE  bit_bytes(n) \in Nat /\ n <= ByteBits * bit_bytes(n)
<1> DEFINE m == n + ByteBits - 1
           q == m \div ByteBits
<1>1. ByteBits \in Nat /\ ByteBits > 0 /\ m \in Nat
  BY ByteBitsAssumption
<1>2. q \in Nat /\ m % ByteBits \in Nat /\ m % ByteBits < ByteBits
      /\ m = ByteBits * q + (m % ByteBits)
  <2> HIDE DEF m
  <2> QED
    BY <1>1
<1>3. ByteBits * q \in Nat
  BY <1>1, <1>2
<1>4. n <= ByteBits * q
  <2> HIDE DEF q
  <2>1. n + ByteBits - 1 = ByteBits * q + (m % ByteBits)
    BY <1>2 DEF m
  <2> DEFINE p == ByteBits * q
             r == m % ByteBits
  <2>2. p \in Nat /\ r \in Nat /\ r < ByteBits /\ n + ByteBits - 1 = p + r
    BY <1>2, <1>3, <2>1
  <2> HIDE DEF p, r
  <2> QED
    BY <1>1, <2>2 DEF p
<1> QED
  BY <1>2, <1>4 DEF bit_bytes

(* Joined arrays come apart where they were joined.                         *)
LEMMA TakenApart ==
  ASSUME NEW n \in Nat, NEW m \in Nat, NEW A \in SUBSET (0 .. n - 1), NEW S \in SUBSET Nat
  PROVE  LET array == joined([bytes |-> bit_bytes(n), ones |-> A], [bytes |-> m, ones |-> S])
         IN  /\ Before(array, bit_bytes(n)).ones = A
             /\ After(array, bit_bytes(n)).ones = S
             /\ After(array, bit_bytes(n)).bytes = m
<1> DEFINE ob == bit_bytes(n)
           w == ByteBits * ob
           shifted == {w + i : i \in S}
           array == joined([bytes |-> ob, ones |-> A], [bytes |-> m, ones |-> S])
<1>1. ob \in Nat /\ w \in Nat /\ n <= w
  BY BitBytes, ByteBitsAssumption
<1>2. array.bytes = ob + m /\ array.ones = A \cup shifted
  BY DEF joined
<1>3. /\ Before(array, ob).ones = {i \in array.ones : i < w}
      /\ After(array, ob).ones = {i - w : i \in {j \in array.ones : j >= w}}
      /\ After(array, ob).bytes = array.bytes - ob
  BY DEF Before, After
<1> HIDE DEF ob, w, array
<1>4. \A i \in A : i \in Nat /\ i < w /\ ~(i >= w)
  BY <1>1
<1>5. \A i \in S : w + i \in Nat /\ w + i >= w /\ ~(w + i < w) /\ (w + i) - w = i
  BY <1>1
<1>10. \A x \in shifted : x >= w /\ ~(x < w) /\ x - w \in S
  <2>1. ASSUME NEW x \in shifted PROVE x >= w /\ ~(x < w) /\ x - w \in S
    <3>1. PICK i \in S : x = w + i
      OBVIOUS
    <3>2. w + i >= w /\ ~(w + i < w) /\ (w + i) - w = i
      BY <1>5
    <3> QED
      BY <3>1, <3>2, Zenon
  <2> QED
    BY <2>1
<1>11. \A x \in S : w + x \in shifted
  BY Zenon
<1> HIDE DEF shifted
<1>6. {i \in A \cup shifted : i < w} = A
  BY <1>4, <1>10
<1>7. {j \in A \cup shifted : j >= w} = shifted
  BY <1>4, <1>10
<1>8. {i - w : i \in shifted} = S
  <2>1. ASSUME NEW x \in S PROVE \E i \in shifted : x = i - w
    <3> DEFINE y == w + x
    <3>1. y \in shifted
      BY <1>11, Zenon
    <3>2. x = y - w
      BY <1>5, Zenon
    <3> HIDE DEF y
    <3> QED
      BY <3>1, <3>2, Zenon
  <2> QED
    BY <1>10, <2>1
<1>9. (ob + m) - ob = m
  BY <1>1
<1> QED
  <2>1. Before(array, ob).ones = {i \in A \cup shifted : i < w}
    BY <1>2, <1>3, Zenon
  <2>2. After(array, ob).ones = {i - w : i \in {j \in A \cup shifted : j >= w}}
    BY <1>2, <1>3, Zenon
  <2>3. After(array, ob).ones = {i - w : i \in shifted}
    BY <2>2, <1>7, Zenon
  <2>4. After(array, ob).bytes = (ob + m) - ob
    BY <1>2, <1>3, Zenon
  <2>5. Before(array, ob).ones = A
    BY <2>1, <1>6, Zenon
  <2>6. After(array, ob).ones = S
    BY <2>3, <1>8, Zenon
  <2>7. After(array, ob).bytes = m
    BY <2>4, <1>9, Zenon
  <2> QED
    BY <2>5, <2>6, <2>7, Zenon DEF array, ob

-----------------------------------------------------------------------------
(* A valid circuit settles: gate after gate, each reads earlier signals.    *)

SettledUpTo(c, in, st, v, k) ==
  /\ v \subseteq 0 .. GateSignal(c, k) - 1
  /\ 0 \notin v
  /\ 1 \in v
  /\ \A i \in 0 .. c.input_count - 1 : 2 + i \in v <=> i \in in
  /\ \A i \in 0 .. k - 1 : GateSettled(c, st, v, i)

LEMMA GateFields ==
  ASSUME NEW c, Valid(c), NEW i \in 0 .. Len(c.gates) - 1
  PROVE  /\ c.input_count \in Nat /\ Len(c.gates) \in Nat /\ i \in Nat
         /\ GateSignal(c, i) = 2 + c.input_count + i
         /\ c.gates[i + 1].op # "latch" =>
              /\ c.gates[i + 1].a \in Nat /\ c.gates[i + 1].b \in Nat
              /\ c.gates[i + 1].a < GateSignal(c, i) /\ c.gates[i + 1].b < GateSignal(c, i)
<1>1. c.input_count \in Nat /\ c.gates \in Seq(Gate)
  BY DEF Valid, Circuit
<1>2. Len(c.gates) \in Nat /\ i \in Nat /\ i + 1 \in 1 .. Len(c.gates)
  BY <1>1, LenProperties
<1>3. c.gates[i + 1] \in Gate
  BY <1>1, <1>2, ElementOfSeq
<1>4. ValidGate(c, i)
  BY DEF Valid
<1> QED
  BY <1>1, <1>2, <1>3, <1>4 DEF Gate, ValidGate, GateSignal

LEMMA SettlesOn ==
  ASSUME NEW c, Valid(c), NEW in, NEW st, NEW k \in 0 .. Len(c.gates) - 1,
         NEW v, SettledUpTo(c, in, st, v, k)
  PROVE  \E w : SettledUpTo(c, in, st, w, k + 1)
<1> DEFINE g == c.gates[k + 1]
           s == GateSignal(c, k)
           value == IF g.op = "latch" THEN k \in st ELSE ~(g.a \in v /\ g.b \in v)
           w == IF value THEN v \cup {s} ELSE v
<1>1. /\ c.input_count \in Nat /\ Len(c.gates) \in Nat /\ k \in Nat
      /\ s = 2 + c.input_count + k
      /\ g.op # "latch" => g.a \in Nat /\ g.b \in Nat /\ g.a < s /\ g.b < s
  BY GateFields
<1>2. v \subseteq 0 .. s - 1
  BY DEF SettledUpTo
<1>3. s \notin v /\ s \in Nat /\ GateSignal(c, k + 1) = s + 1
  <2>1. GateSignal(c, k + 1) = 2 + c.input_count + (k + 1)
    BY DEF GateSignal
  <2> HIDE DEF s
  <2> DEFINE ic == c.input_count
  <2>4. ic \in Nat /\ k \in Nat /\ s = 2 + ic + k
    BY <1>1
  <2> HIDE DEF ic
  <2>5. s \in Nat /\ 2 + ic + (k + 1) = s + 1
    BY ONLY <2>4
  <2>2. s \in Nat /\ 2 + c.input_count + (k + 1) = s + 1
    BY <2>5, Zenon DEF ic
  <2>3. s \notin 0 .. s - 1
    BY <2>2
  <2> QED
    BY <1>2, <2>1, <2>2, <2>3
<1>4. (s \in w <=> value) /\ \A x : x # s => (x \in w <=> x \in v)
  <2> HIDE DEF s, value
  <2> QED
    BY <1>3
<1>5. w \subseteq 0 .. GateSignal(c, k + 1) - 1
  <2> HIDE DEF s, value
  <2>1. v \subseteq 0 .. s /\ s \in 0 .. s /\ s + 1 - 1 = s
    BY <1>2, <1>3
  <2> QED
    BY <1>3, <2>1
<1> HIDE DEF s, w
<1>6. GateSettled(c, st, w, k)
  <2>1. ASSUME g.op # "latch" PROVE (g.a \in w <=> g.a \in v) /\ (g.b \in w <=> g.b \in v)
    <3>1. g.a \in Nat /\ g.b \in Nat /\ g.a < s /\ g.b < s
      BY <1>1, <2>1
    <3> HIDE DEF g, value
    <3>2. g.a # s /\ g.b # s
      BY <1>3, <3>1
    <3> QED
      BY <1>4, <3>2
  <2> QED
    BY <1>4, <2>1 DEF GateSettled, s
<1>7. ASSUME NEW i \in 0 .. k - 1 PROVE GateSettled(c, st, w, i)
  <2>1. i \in 0 .. Len(c.gates) - 1 /\ i < k /\ i \in Nat
    BY <1>1
  <2>2. /\ GateSignal(c, i) = 2 + c.input_count + i
        /\ c.gates[i + 1].op # "latch" =>
             /\ c.gates[i + 1].a \in Nat /\ c.gates[i + 1].b \in Nat
             /\ c.gates[i + 1].a < GateSignal(c, i) /\ c.gates[i + 1].b < GateSignal(c, i)
    BY <2>1, GateFields
  <2>3. GateSignal(c, i) \in Nat /\ GateSignal(c, i) < s
    BY <1>1, <2>1, <2>2
  <2>4. GateSignal(c, i) # s
    BY <1>3, <2>3
  <2>5. c.gates[i + 1].op # "latch" => c.gates[i + 1].a # s /\ c.gates[i + 1].b # s
    BY <1>3, <2>2, <2>3
  <2>6. GateSettled(c, st, v, i)
    BY DEF SettledUpTo
  <2> QED
    BY <1>4, <2>4, <2>5, <2>6 DEF GateSettled
<1>8. 0 \notin w /\ 1 \in w
  <2>1. 0 # s /\ 1 # s
    BY <1>1
  <2> QED
    BY <1>4, <2>1 DEF SettledUpTo
<1>9. ASSUME NEW i \in 0 .. c.input_count - 1 PROVE 2 + i \in w <=> i \in in
  <2>1. 2 + i # s
    BY <1>1
  <2> QED
    BY <1>4, <2>1 DEF SettledUpTo
<1>10. \A i \in 0 .. (k + 1) - 1 : i \in 0 .. k - 1 \/ i = k
  BY <1>1
<1> QED
  BY <1>5, <1>6, <1>7, <1>8, <1>9, <1>10 DEF SettledUpTo

LEMMA Settles ==
  ASSUME NEW c, Valid(c), NEW in, NEW st
  PROVE  \E v \in SUBSET Signals(c) : Settled(c, in, st, v)
<1> DEFINE S == {k \in 0 .. Len(c.gates) : ~ \E v : SettledUpTo(c, in, st, v, k)}
<1>1. c.input_count \in Nat /\ Len(c.gates) \in Nat
  BY LenProperties DEF Valid, Circuit
<1>2. S = {}
  <2> SUFFICES ASSUME S # {} PROVE FALSE
    OBVIOUS
  <2>1. S \in SUBSET Nat
    BY <1>1
  <2>2. PICK k \in S : \A j \in S : k <= j
    BY <2>1, Least
  <2>3. CASE k = 0
    <3> DEFINE v == {1} \cup {2 + i : i \in (0 .. c.input_count - 1) \cap in}
    <3>1. v \subseteq 0 .. GateSignal(c, 0) - 1
      BY <1>1 DEF GateSignal
    <3>2. 0 \notin v /\ 1 \in v
      BY <1>1
    <3>3. \A i \in 0 .. c.input_count - 1 : 2 + i \in v <=> i \in in
      BY <1>1
    <3>4. \A i \in 0 .. 0 - 1 : FALSE
      OBVIOUS
    <3>5. SettledUpTo(c, in, st, v, 0)
      <4> HIDE DEF v
      <4> QED
        BY <3>1, <3>2, <3>3, <3>4 DEF SettledUpTo
    <3> QED
      BY <2>2, <2>3, <3>5
  <2>4. CASE k # 0
    <3>1. /\ k - 1 \in 0 .. Len(c.gates) - 1 /\ k - 1 \in 0 .. Len(c.gates)
          /\ ~(k <= k - 1) /\ k - 1 + 1 = k
      BY <1>1, <2>2, <2>4
    <3>2. k - 1 \notin S
      BY <2>2, <3>1
    <3>3. PICK v : SettledUpTo(c, in, st, v, k - 1)
      BY <3>1, <3>2
    <3>4. \E w : SettledUpTo(c, in, st, w, k - 1 + 1)
      BY <3>1, <3>3, SettlesOn
    <3> QED
      BY <2>2, <3>1, <3>4
  <2> QED
    BY <2>3, <2>4
<1>3. Len(c.gates) \in 0 .. Len(c.gates)
  BY <1>1
<1>4. PICK v : SettledUpTo(c, in, st, v, Len(c.gates))
  BY <1>2, <1>3
<1>5. v \in SUBSET Signals(c) /\ Settled(c, in, st, v)
  BY <1>4 DEF SettledUpTo, Settled, Signals, signal_count, GateSignal
<1> QED
  BY <1>5

-----------------------------------------------------------------------------
(* What the page holds.                                                     *)

Described(f) == metadata = Description(f)

PageInv ==
  /\ netlist \in Netlists
  /\ bytes = Absent \/ (EncodeError(netlist) = "none" /\ bytes = Encoded(netlist))
  /\ metadata # <<>> =>
       EncodeError(netlist) = "none" /\ bytes = Encoded(netlist) /\ Described(bytes)
  /\ reply \notin {"parse", "incomplete"}
  /\ stepped => /\ metadata # <<>>
                /\ state.bytes = bit_bytes(Denoted(netlist).latch_count)
                /\ reply \in {"Ok", "InputLength"}

LEMMA Present == ASSUME NEW n PROVE Encoded(n) # Absent
<1>1. Encoded(n).header_bytes = 28 /\ Absent.header_bytes = 0
  BY DEF Encoded, Absent, HEADER_LEN
<1> QED
  BY <1>1

(* What every call finds when it parses the bytes.                          *)
LEMMA ReadsBack ==
  ASSUME NEW n \in Netlist, EncodeError(n) = "none"
  PROVE  /\ WellFormed(Encoded(n)) /\ Reading(Encoded(n)) = Denoted(n)
         /\ Valid(Denoted(n)) /\ ~Incomplete(Encoded(n))
         /\ Encoded(n).input_count = n.input_count
         /\ Encoded(n).output_count = Len(n.outputs)
         /\ Encoded(n).latch_count = Denoted(n).latch_count
<1>1. Encodable(n)
  BY RulesAreExact
<1>2. WellFormed(Encoded(n)) /\ Reading(Encoded(n)) = Denoted(n)
  BY <1>1, EncodedReads
<1>3. /\ Encoded(n).input_count = n.input_count
      /\ Encoded(n).output_count = Len(n.outputs)
      /\ Encoded(n).latch_count = Denoted(n).latch_count
  BY DEF Encoded
<1>4. ASSUME NEW k \in 0 .. Len(n.outputs) - 1, output_signal(Encoded(n), k) = None
      PROVE  FALSE
  <2>1. /\ k + 1 \in 1 .. Len(n.outputs) /\ k + 1 - 1 = k
        /\ n.outputs[k + 1] \in Nat
    BY NetlistFields, MaxU32IsNat
  <2>2. Reading(Encoded(n)).outputs = [j \in 1 .. Len(n.outputs) |-> output_signal(Encoded(n), j - 1)]
    BY <1>3 DEF Reading
  <2>3. Reading(Encoded(n)).outputs[k + 1] = output_signal(Encoded(n), k + 1 - 1)
    BY <2>1, <2>2
  <2>4. Reading(Encoded(n)).outputs = n.outputs
    BY <1>2, DenotedFields
  <2> QED
    BY <1>4, <2>1, <2>3, <2>4 DEF None
<1>5. ~Incomplete(Encoded(n))
  BY <1>3, <1>4 DEF Incomplete
<1> QED
  BY <1>1, <1>2, <1>3, <1>5 DEF Encodable

LEMMA PageErrors ==
  ASSUME NEW n \in Netlist
  PROVE  EncodeError(n) \notin {"parse", "incomplete"}
BY ErrorNames

LEMMA LoadsInv == PageLoads => PageInv
<1> SUFFICES ASSUME PageLoads PROVE PageInv
  OBVIOUS
<1>1. /\ netlist \in Netlists /\ bytes = Absent /\ metadata = <<>>
      /\ reply = "none" /\ stepped = FALSE
  BY DEF PageLoads
<1> QED
  BY <1>1 DEF PageInv

LEMMA EncodeKeepsPage == PageInv /\ encode_circuit_graph_json => PageInv'
<1> SUFFICES ASSUME PageInv, encode_circuit_graph_json PROVE PageInv'
  OBVIOUS
<1>1. /\ bytes = Absent /\ UNCHANGED <<netlist, metadata, state, shown, stepped>>
      /\ netlist \in Netlists /\ netlist \in Netlist
  BY WasmAssumption DEF PageInv, encode_circuit_graph_json
<1>2. metadata = <<>> /\ ~stepped
  BY <1>1, Present DEF PageInv
<1>3. CASE EncodeError(netlist) = "none"
  <2>1. bytes' = Encoded(netlist) /\ reply' = "Ok"
    BY <1>3 DEF encode_circuit_graph_json
  <2> QED
    BY <1>1, <1>2, <1>3, <2>1 DEF PageInv
<1>4. CASE EncodeError(netlist) # "none"
  <2>1. bytes' = bytes /\ reply' = EncodeError(netlist)
    BY <1>4 DEF encode_circuit_graph_json
  <2> QED
    BY <1>1, <1>2, <2>1, PageErrors DEF PageInv
<1> QED
  BY <1>3, <1>4

LEMMA ParseKeepsPage == PageInv /\ parse_circuit_json => PageInv'
<1> SUFFICES ASSUME PageInv, parse_circuit_json PROVE PageInv'
  OBVIOUS
<1>1. /\ metadata = <<>> /\ netlist \in Netlist /\ netlist \in Netlists
      /\ EncodeError(netlist) = "none" /\ bytes = Encoded(netlist)
      /\ UNCHANGED <<netlist, bytes, state, shown, stepped>>
  BY WasmAssumption DEF PageInv, parse_circuit_json
<1>2. WellFormed(bytes) /\ ~Incomplete(bytes)
  BY <1>1, ReadsBack
<1>3. metadata' = Description(bytes) /\ reply' = "Ok"
  BY <1>2 DEF parse_circuit_json
<1>4. ~stepped
  BY <1>1 DEF PageInv
<1> QED
  BY <1>1, <1>3, <1>4 DEF PageInv, Described

(* A step of the page, taken apart.                                         *)
LEMMA StepOfPage ==
  ASSUME PageInv, NEW input \in InputArrays, step_circuit_bytes(input)
  PROVE  LET c == Denoted(netlist)
         IN  /\ Valid(c) /\ netlist \in Netlist
             /\ UNCHANGED <<netlist, bytes, metadata>> /\ metadata # <<>>
             /\ LengthError(c, input) # "none" =>
                  reply' = LengthError(c, input) /\ UNCHANGED <<state, shown, stepped>>
             /\ LengthError(c, input) = "none" =>
                  /\ reply' = "Ok" /\ stepped'
                  /\ state'.bytes = bit_bytes(c.latch_count)
                  /\ \E v \in SUBSET Signals(c) :
                       /\ Settled(c, input.ones, state.ones, v)
                       /\ shown'.ones = OutputBits(c, v)
                       /\ state'.ones = NextLatches(c, v)
<1> DEFINE c == Denoted(netlist)
           length == bit_bytes(metadata.header.output_count)
<1>1. /\ metadata # <<>> /\ netlist \in Netlist /\ EncodeError(netlist) = "none"
      /\ bytes = Encoded(netlist) /\ metadata = Description(bytes)
      /\ UNCHANGED <<netlist, bytes, metadata>>
  BY WasmAssumption DEF PageInv, Described, step_circuit_bytes
<1>2. WellFormed(bytes) /\ Reading(bytes) = c /\ Valid(c) /\ bytes.output_count = Len(netlist.outputs)
  BY <1>1, ReadsBack
<1>3. metadata.header.output_count = Len(c.outputs)
  <2>1. Description(bytes).header.output_count = bytes.output_count
    BY DEF Description
  <2> QED
    BY <1>1, <1>2, <2>1, DenotedFields
<1>4. ASSUME LengthError(c, input) # "none"
      PROVE  reply' = LengthError(c, input) /\ UNCHANGED <<state, shown, stepped>>
  BY <1>2, <1>4 DEF step_circuit_bytes
<1>5. ASSUME LengthError(c, input) = "none"
      PROVE  /\ shown' = Before(Stepped(c, input), bit_bytes(Len(c.outputs)))
             /\ state' = After(Stepped(c, input), bit_bytes(Len(c.outputs)))
             /\ reply' = "Ok" /\ stepped'
  BY <1>2, <1>3, <1>5 DEF step_circuit_bytes
<1> DEFINE v == Settling(c, input)
<1>6. v \in SUBSET Signals(c) /\ Settled(c, input.ones, state.ones, v)
  BY <1>2, Settles DEF Settling
<1>7. c.latch_count \in Nat /\ Len(c.outputs) \in Nat
  BY <1>1, DenotedFields, NetlistFields
<1> HIDE DEF c, v
<1>8. /\ OutputBits(c, v) \in SUBSET (0 .. Len(c.outputs) - 1)
      /\ NextLatches(c, v) \in SUBSET Nat
      /\ bit_bytes(c.latch_count) \in Nat
  <2>1. OutputBits(c, v) \in SUBSET (0 .. Len(c.outputs) - 1)
    BY DEF OutputBits
  <2>2. NextLatches(c, v) \subseteq 0 .. c.latch_count - 1 /\ 0 .. c.latch_count - 1 \subseteq Nat
    BY <1>7 DEF NextLatches
  <2> HIDE DEF length
  <2>3. bit_bytes(c.latch_count) \in Nat
    BY <1>7, BitBytes
  <2> QED
    BY <2>1, <2>2, <2>3
<1>9. Stepped(c, input)
        = joined([bytes |-> bit_bytes(Len(c.outputs)), ones |-> OutputBits(c, v)],
                 [bytes |-> bit_bytes(c.latch_count), ones |-> NextLatches(c, v)])
  BY DEF Stepped, StateBytes, v
<1>10. /\ Before(Stepped(c, input), bit_bytes(Len(c.outputs))).ones = OutputBits(c, v)
       /\ After(Stepped(c, input), bit_bytes(Len(c.outputs))).ones = NextLatches(c, v)
       /\ After(Stepped(c, input), bit_bytes(Len(c.outputs))).bytes = bit_bytes(c.latch_count)
  BY <1>7, <1>8, <1>9, TakenApart
<1>11. ASSUME LengthError(c, input) = "none"
       PROVE  /\ reply' = "Ok" /\ stepped'
              /\ state'.bytes = bit_bytes(c.latch_count)
              /\ Settled(c, input.ones, state.ones, v)
              /\ shown'.ones = OutputBits(c, v)
              /\ state'.ones = NextLatches(c, v)
  BY <1>5, <1>6, <1>10, <1>11
<1> QED
  BY <1>1, <1>2, <1>4, <1>6, <1>11 DEF c

LEMMA StepKeepsPage ==
  ASSUME PageInv, NEW input \in InputArrays, step_circuit_bytes(input)
  PROVE  PageInv'
<1> DEFINE c == Denoted(netlist)
<1>1. /\ UNCHANGED <<netlist, bytes, metadata>> /\ metadata # <<>>
      /\ LengthError(c, input) # "none" =>
           reply' = LengthError(c, input) /\ UNCHANGED <<state, shown, stepped>>
      /\ LengthError(c, input) = "none" =>
           reply' = "Ok" /\ stepped' /\ state'.bytes = bit_bytes(c.latch_count)
  BY StepOfPage
<1>2. stepped => state.bytes = bit_bytes(c.latch_count)
  BY DEF PageInv
<1>3. LengthError(c, input) \in {"none", "InputLength", "StateLength"}
      /\ (stepped => LengthError(c, input) # "StateLength")
  BY <1>2 DEF LengthError
<1>4. /\ reply' \notin {"parse", "incomplete"}
      /\ stepped' => /\ state'.bytes = bit_bytes(c.latch_count)
                     /\ reply' \in {"Ok", "InputLength"}
  <2> HIDE DEF c
  <2>1. CASE LengthError(c, input) = "none"
    BY <1>1, <2>1
  <2>2. CASE LengthError(c, input) # "none"
    BY <1>1, <1>2, <1>3, <2>2
  <2> QED
    BY <2>1, <2>2
<1> QED
  BY <1>1, <1>4 DEF PageInv, Described

LEMMA PageStep == PageInv /\ [PageCalls]_pageVars => PageInv'
<1> SUFFICES ASSUME PageInv, [PageCalls]_pageVars PROVE PageInv'
  OBVIOUS
<1>1. CASE UNCHANGED pageVars
  BY <1>1 DEF pageVars, PageInv, Described
<1>2. CASE encode_circuit_graph_json
  BY <1>2, EncodeKeepsPage
<1>3. CASE parse_circuit_json
  BY <1>3, ParseKeepsPage
<1>4. ASSUME NEW input \in InputArrays, step_circuit_bytes(input) PROVE PageInv'
  BY <1>4, StepKeepsPage
<1> QED
  BY <1>1, <1>2, <1>3, <1>4 DEF PageCalls

(* What the page holds are the bytes of its netlist, their description and  *)
(* a state of the right length.                                             *)
THEOREM PageInvariant == Page => []PageInv
BY LoadsInv, PageStep, PTL DEF Page

(* Bytes that the bindings gave out are described in full, gate for gate as *)
(* they were compiled, and never refused afterwards (line 45).              *)
THEOREM DescribedInFull == Page => []DescribesWhatWasCompiled
<1>1. ASSUME PageInv PROVE DescribesWhatWasCompiled
  <2> SUFFICES ASSUME metadata # <<>>
               PROVE  /\ [input_count |-> metadata.header.input_count,
                          outputs |-> metadata.outputs, gates |-> metadata.gates] = netlist
                      /\ metadata.header.latch_count = Denoted(netlist).latch_count
                      /\ metadata.signal_count = SignalCount(netlist)
    BY <1>1 DEF PageInv, DescribesWhatWasCompiled
  <2>1. /\ netlist \in Netlist /\ EncodeError(netlist) = "none"
        /\ bytes = Encoded(netlist) /\ metadata = Description(bytes)
    BY <1>1, WasmAssumption DEF PageInv, Described
  <2>2. /\ Reading(bytes) = Denoted(netlist)
        /\ bytes.input_count = netlist.input_count
        /\ bytes.latch_count = Denoted(netlist).latch_count
    BY <2>1, ReadsBack
  <2>3. /\ metadata.header.input_count = bytes.input_count
        /\ metadata.header.latch_count = bytes.latch_count
        /\ metadata.outputs = Reading(bytes).outputs
        /\ metadata.gates = Reading(bytes).gates
        /\ metadata.signal_count = signal_count(Reading(bytes))
    BY <2>1 DEF Description
  <2>4. /\ Denoted(netlist).outputs = netlist.outputs
        /\ Denoted(netlist).gates = netlist.gates
        /\ signal_count(Denoted(netlist)) = SignalCount(netlist)
    BY <2>1, DenotedFields
  <2>5. netlist = [input_count |-> netlist.input_count, outputs |-> netlist.outputs,
                   gates |-> netlist.gates]
    BY <2>1 DEF Netlist
  <2>6. /\ metadata.header.input_count = netlist.input_count
        /\ metadata.outputs = netlist.outputs /\ metadata.gates = netlist.gates
    BY <2>2, <2>3, <2>4
  <2> QED
    BY <2>2, <2>3, <2>4, <2>5, <2>6
<1> QED
  BY <1>1, PageInvariant, PTL

(* Only the inputs that the page chooses are refused once a step has been   *)
(* made: the state that came back has the length the next call asks for.    *)
THEOREM StatesComeBack == Page => []StateComesBack
<1>1. PageInv => StateComesBack
  BY DEF PageInv, StateComesBack
<1> QED
  BY <1>1, PageInvariant, PTL

-----------------------------------------------------------------------------
(* A step that succeeds is a tick; no other call changes what the machine   *)
(* shows.                                                                   *)
LEMMA StepIsTick ==
  ASSUME PageInv, NEW input \in InputArrays, step_circuit_bytes(input)
  PROVE  Synchronous!Next \/ UNCHANGED Synchronous!vars
<1> DEFINE c == Denoted(netlist)
<1>1. /\ Valid(c) /\ netlist' = netlist
      /\ LengthError(c, input) # "none" => UNCHANGED <<state, shown>>
      /\ LengthError(c, input) = "none" =>
           \E v \in SUBSET Signals(c) :
             /\ Settled(c, input.ones, state.ones, v)
             /\ shown'.ones = OutputBits(c, v)
             /\ state'.ones = NextLatches(c, v)
  BY StepOfPage
<1>2. CASE LengthError(c, input) # "none"
  BY <1>1, <1>2 DEF Synchronous!vars
<1>3. CASE LengthError(c, input) = "none"
  <2> DEFINE in == input.ones \cap (0 .. c.input_count - 1)
  <2>1. PICK v \in SUBSET Signals(c) : /\ Settled(c, input.ones, state.ones, v)
                                       /\ shown'.ones = OutputBits(c, v)
                                       /\ state'.ones = NextLatches(c, v)
    BY <1>1, <1>3
  <2>2. Settled(c, in, state.ones, v)
    BY <2>1 DEF Settled
  <2>3. v \in SUBSET Synchronous!Signals(c)
    BY <2>1 DEF Signals, signal_count, Synchronous!Signals, Synchronous!signal_count
  <2>4. Synchronous!Settled(c, in, state.ones, v)
    BY <2>2 DEF Settled, GateSettled, GateSignal, Synchronous!Settled,
                Synchronous!GateSettled, Synchronous!GateSignal
  <2>5. /\ shown'.ones = Synchronous!OutputBits(c, v)
        /\ state'.ones = Synchronous!NextLatches(c, v)
    BY <2>1 DEF OutputBits, NextLatches, Synchronous!OutputBits, Synchronous!NextLatches
  <2>6. Denoted(netlist)' = c
    BY <1>1
  <2>7. in \in SUBSET (0 .. c.input_count - 1)
    OBVIOUS
  <2> HIDE DEF in
  <2>8. Synchronous!Tick(in)
    BY <2>3, <2>4, <2>5, <2>6 DEF Synchronous!Tick
  <2> QED
    BY <2>7, <2>8 DEF Synchronous!Next
<1> QED
  BY <1>2, <1>3

(* A page that carries the state from step to step sees the synchronous     *)
(* machine of its netlist, although every call compiles nothing anew,       *)
(* parses the bytes again and hands both results back in one array          *)
(* (lines 68 to 79).                                                        *)
THEOREM PageRefinement == Page => ImplementsMachine
<1>1. PageLoads => Synchronous!Init
  BY WasmAssumption DEF PageLoads, Synchronous!Init, Buffer
<1>2. PageInv /\ [PageCalls]_pageVars => [Synchronous!Next]_Synchronous!vars
  <2> SUFFICES ASSUME PageInv, [PageCalls]_pageVars
               PROVE  Synchronous!Next \/ UNCHANGED Synchronous!vars
    OBVIOUS
  <2>1. CASE UNCHANGED pageVars
    BY <2>1 DEF pageVars, Synchronous!vars
  <2>2. CASE encode_circuit_graph_json
    BY <2>2 DEF encode_circuit_graph_json, Synchronous!vars
  <2>3. CASE parse_circuit_json
    BY <2>3 DEF parse_circuit_json, Synchronous!vars
  <2>4. ASSUME NEW input \in InputArrays, step_circuit_bytes(input)
        PROVE  Synchronous!Next \/ UNCHANGED Synchronous!vars
    BY <2>4, StepIsTick
  <2> QED
    BY <2>1, <2>2, <2>3, <2>4 DEF PageCalls
<1> QED
  BY <1>1, <1>2, PageInvariant, PTL DEF Page, ImplementsMachine, Synchronous!Spec

=============================================================================
