---------------------------- MODULE CircuitGraph ----------------------------
(***************************************************************************)
(* The graphs encode_circuit_graph of nandry-compiler takes, and what it    *)
(* promises to make of them.  A node identifier is a number that stands for *)
(* its place in the order of strings, so 0 is the empty string.  A graph    *)
(* lists nodes and connections; the promise sees only the sets of them, so  *)
(* it cannot depend on the order of a list.                                 *)
(***************************************************************************)
EXTENDS Tsol, FiniteSets

Kinds == {"INPUT", "OUTPUT", "NAND", "LATCH"}

output_port(kind) == CASE kind = "LATCH" -> "q"
                       [] kind = "OUTPUT" -> "none"
                       [] OTHER -> "out"

input_ports(kind) == CASE kind = "NAND" -> {"a", "b"}
                       [] kind = "LATCH" -> {"d"}
                       [] kind = "OUTPUT" -> {"in"}
                       [] kind = "INPUT" -> {}

EmptyId == 0

Ports == {"a", "b", "d", "in", "out", "q", "none"}

(* nodes and connections are sequences, as the JSON that carries them.      *)
Node(id, kind) == [id |-> id, kind |-> kind]
Connection(from, out, to, in) ==
  [from |-> from, from_port |-> out, to |-> to, to_port |-> in]

Graph == [nodes : Seq([id : Nat, kind : Kinds]),
          connections : Seq([from : Nat, from_port : Ports, to : Nat, to_port : Ports])]

-----------------------------------------------------------------------------
(* The promise.  Elements of a set of numbers in ascending order.           *)
Elements(s) == {s[i] : i \in DOMAIN s}

Ascending(S) ==
  [i \in 1 .. Cardinality(S) |-> CHOOSE n \in S : Cardinality({m \in S : m < n}) = i - 1]

Ids(g) == {n.id : n \in Elements(g.nodes)}
OfKind(g, kind) == {n.id : n \in {m \in Elements(g.nodes) : m.kind = kind}}

Drives(g, from, to, port) ==
  \E c \in Elements(g.connections) : c.from = from /\ c.to = to /\ c.to_port = port

(* Every node named once, every connection from an output port to an input  *)
(* port, every input port driven by one connection, something to read and   *)
(* something to show.                                                       *)
Wired(g) ==
  /\ Cardinality(Ids(g)) = Len(g.nodes)
  /\ EmptyId \notin Ids(g)
  /\ \A c \in Elements(g.connections) :
       /\ \E n \in Elements(g.nodes) : n.id = c.from /\ output_port(n.kind) = c.from_port
       /\ \E n \in Elements(g.nodes) : n.id = c.to /\ c.to_port \in input_ports(n.kind)
       /\ c.from_port # "none"
  /\ \A n \in Elements(g.nodes) : \A p \in input_ports(n.kind) :
       Cardinality({i \in DOMAIN g.connections :
                      g.connections[i].to = n.id /\ g.connections[i].to_port = p}) = 1
  /\ OfKind(g, "INPUT") # {}
  /\ OfKind(g, "OUTPUT") # {}

(* The NANDs a NAND reads directly.                                         *)
Reads(g, n) == {m \in OfKind(g, "NAND") : \E p \in {"a", "b"} : Drives(g, m, n, p)}

(* No set of NANDs in which each reads another of the set: no loop that     *)
(* passes only through NANDs.                                               *)
Acyclic(g) ==
  \A S \in (SUBSET OfKind(g, "NAND")) \ {{}} : \E n \in S : Reads(g, n) \cap S = {}

(* The orders in which every NAND comes after those it reads, and the       *)
(* lexicographically least of them.                                         *)
Topological(g, s) ==
  /\ \A i, j \in DOMAIN s : i # j => s[i] # s[j]
  /\ \A i \in DOMAIN s : Reads(g, s[i]) \subseteq {s[j] : j \in 1 .. i - 1}

LexLeq(s, t) ==
  s = t \/ \E i \in DOMAIN s : s[i] < t[i] /\ \A j \in 1 .. i - 1 : s[j] = t[j]

Orders(g) ==
  LET N == OfKind(g, "NAND")
  IN  {s \in [1 .. Cardinality(N) -> N] : Topological(g, s)}

NandOrder(g) == CHOOSE s \in Orders(g) : \A t \in Orders(g) : LexLeq(s, t)

(* What the graph itself computes.  val is the set of nodes whose output    *)
(* shows one, in the bits of the inputs and the states of the latches that  *)
(* are one.                                                                 *)
Shows(g, val, to, port) == \E n \in val : Drives(g, n, to, port)

GraphSettled(g, in, st, val) ==
  /\ val \cap OfKind(g, "INPUT") = in
  /\ val \cap OfKind(g, "LATCH") = st
  /\ \A n \in OfKind(g, "NAND") :
       n \in val <=> ~(Shows(g, val, n, "a") /\ Shows(g, val, n, "b"))

-----------------------------------------------------------------------------
(* The circuit a graph stands for: inputs, latches and outputs by ascending *)
(* identifier, latch records before NAND records.                           *)
SignalOrder(g) == Ascending(OfKind(g, "INPUT")) \o Ascending(OfKind(g, "LATCH")) \o NandOrder(g)

SourceSignal(g, to, port) ==
  LET order == SignalOrder(g)
  IN  1 + CHOOSE i \in DOMAIN order : Drives(g, order[i], to, port)

CanonicalCircuit(g) ==
  LET outputs == Ascending(OfKind(g, "OUTPUT"))
      latches == Ascending(OfKind(g, "LATCH"))
      nands == NandOrder(g)
  IN  [input_count |-> Cardinality(OfKind(g, "INPUT")),
       latch_count |-> Len(latches),
       outputs |-> [k \in DOMAIN outputs |-> SourceSignal(g, outputs[k], "in")],
       gates |-> [l \in DOMAIN latches |-> Latch(SourceSignal(g, latches[l], "d"))]
                 \o [i \in DOMAIN nands |-> Nand(SourceSignal(g, nands[i], "a"),
                                                 SourceSignal(g, nands[i], "b"))]]

=============================================================================
