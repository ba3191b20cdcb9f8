------------------------ MODULE GraphCompilerProofs -------------------------
(***************************************************************************)
(* Proofs about encode_circuit_graph, for every set of graphs and all       *)
(* limits: which graphs it refuses, that its bytes depend on the graph and  *)
(* not on how it is listed, and that the circuit computes what the graph    *)
(* says.                                                                    *)
(***************************************************************************)
EXTENDS GraphCompiler, FiniteSetTheorems, SequenceTheorems, WellFoundedInduction, TLAPS

-----------------------------------------------------------------------------
(* The least of some natural numbers: induction without a predicate.        *)
LEMMA LeastExists ==
  ASSUME NEW S \in SUBSET Nat, S # {}
  PROVE  \E m \in S : \A k \in S : m <= k
<1> DEFINE R == OpToRel(<, Nat)
<1>1. IsWellFoundedOn(R, Nat)
  BY NatLessThanWellFounded
<1>2. \A x, y \in Nat : <<y, x>> \in R <=> y < x
  BY DEF OpToRel
<1> HIDE DEF R
<1>3. PICK x \in S : \A y \in S : ~ (<<y, x>> \in R)
  BY <1>1, WFMin
<1>4. ASSUME NEW y \in S PROVE x <= y
  <2>1. x \in Nat /\ y \in Nat
    OBVIOUS
  <2>2. ~(y < x)
    BY <1>2, <1>3, <2>1
  <2> QED
    BY <2>1, <2>2
<1> QED
  BY <1>4

LEMMA LeastIs ==
  ASSUME NEW S \in SUBSET Nat, S # {}
  PROVE  Least(S) \in S /\ \A m \in S : Least(S) <= m
<1>1. \E n \in S : \A m \in S : n <= m
  BY LeastExists
<1> QED
  BY <1>1 DEF Least

(* The loop that returns at its first error returns an error if there is    *)
(* one, and only an error that one of its passes found.                     *)
LEMMA FirstErrorIs ==
  ASSUME NEW n \in Nat, NEW errors, DOMAIN errors = 1 .. n
  PROVE  /\ FirstError(errors) = "none" <=> \A k \in 1 .. n : errors[k] = "none"
         /\ FirstError(errors) # "none" => \E k \in 1 .. n : errors[k] = FirstError(errors)
<1> DEFINE Bad == {k \in 1 .. n : errors[k] # "none"}
           First(k) == errors[k] # "none" /\ \A j \in 1 .. k - 1 : errors[j] = "none"
<1>1. CASE Bad = {}
  BY <1>1 DEF FirstError
<1>2. CASE Bad # {}
  <2>1. Bad \in SUBSET Nat
    OBVIOUS
  <2>2. PICK m \in Bad : \A k \in Bad : m <= k
    BY <1>2, <2>1, LeastExists
  <2>3. m \in DOMAIN errors /\ First(m)
    <3>1. ASSUME NEW j \in 1 .. m - 1 PROVE errors[j] = "none"
      <4>1. j \in 1 .. n /\ ~(m <= j)
        OBVIOUS
      <4> QED
        BY <2>2, <4>1
    <3> QED
      BY <3>1
  <2>4. FirstError(errors) = errors[CHOOSE k \in DOMAIN errors : First(k)]
    BY <2>3 DEF FirstError
  <2>5. (CHOOSE k \in DOMAIN errors : First(k)) \in {k \in DOMAIN errors : First(k)}
    BY <2>3
  <2> QED
    BY <2>3, <2>4, <2>5
<1> QED
  BY <1>1, <1>2

-----------------------------------------------------------------------------
(* The elements of a finite set of numbers in ascending order: each once.   *)
(* The rank of an element is the number of those below it.                  *)
Below(S, x) == {m \in S : m < x}

LEMMA RankInRange ==
  ASSUME NEW S \in SUBSET Nat, IsFiniteSet(S), NEW x \in S
  PROVE  /\ Cardinality(S) \in Nat
         /\ IsFiniteSet(Below(S, x))
         /\ Cardinality(Below(S, x)) \in 0 .. Cardinality(S) - 1
<1>1. Below(S, x) \subseteq S /\ x \notin Below(S, x)
  BY DEF Below
<1>2. IsFiniteSet(Below(S, x)) /\ Cardinality(Below(S, x)) <= Cardinality(S)
  BY <1>1, FS_Subset
<1>3. Cardinality(Below(S, x)) # Cardinality(S)
  BY <1>1, FS_Subset
<1>4. Cardinality(Below(S, x)) \in Nat /\ Cardinality(S) \in Nat
  BY <1>2, FS_CardinalityType
<1> QED
  BY <1>2, <1>3, <1>4

LEMMA RankInjective ==
  ASSUME NEW S \in SUBSET Nat, IsFiniteSet(S), NEW x \in S, NEW y \in S,
         Cardinality(Below(S, x)) = Cardinality(Below(S, y))
  PROVE  x = y
<1>1. ASSUME NEW u \in S, NEW v \in S, u < v
      PROVE  Cardinality(Below(S, u)) # Cardinality(Below(S, v))
  <2>1. u \in Nat /\ v \in Nat /\ \A m \in Nat : m < u => m < v
    BY <1>1
  <2>2. Below(S, u) \subseteq Below(S, v) /\ u \in Below(S, v)
    BY <1>1, <2>1 DEF Below
  <2>3. u \notin Below(S, u)
    BY <2>1 DEF Below
  <2>4. IsFiniteSet(Below(S, v))
    BY RankInRange
  <2> QED
    BY <2>2, <2>3, <2>4, FS_Subset
<1>2. x \in Nat /\ y \in Nat
  OBVIOUS
<1>3. ~(x < y) /\ ~(y < x)
  BY <1>1
<1> QED
  BY <1>2, <1>3

LEMMA RankSurjective ==
  ASSUME NEW S \in SUBSET Nat, IsFiniteSet(S), NEW i \in 1 .. Cardinality(S)
  PROVE  \E x \in S : Cardinality(Below(S, x)) = i - 1
<1> DEFINE rank == [x \in S |-> Cardinality(Below(S, x)) + 1]
           n == Cardinality(S)
<1>1. n \in Nat
  BY FS_CardinalityType
<1>2. \A x \in S : rank[x] = Cardinality(Below(S, x)) + 1 /\ Cardinality(Below(S, x)) \in 0 .. n - 1
  BY RankInRange
<1> HIDE DEF n
<1>3. rank \in [S -> 1 .. n]
  BY <1>1, <1>2
<1>4. \A x, y \in S : rank[x] = rank[y] => x = y
  <2>1. ASSUME NEW x \in S, NEW y \in S, rank[x] = rank[y] PROVE x = y
    <3>1. Cardinality(Below(S, x)) = Cardinality(Below(S, y))
      BY <1>1, <1>2, <2>1
    <3> QED
      BY <3>1, RankInjective
  <2> QED
    BY <2>1
<1> HIDE DEF rank
<1>5. rank \in Injection(S, 1 .. n)
  BY <1>3, <1>4 DEF Injection, IsInjective
<1>6. IsFiniteSet(1 .. n) /\ Cardinality(1 .. n) = n
  BY <1>1, FS_Interval
<1>7. rank \in Surjection(S, 1 .. n)
  BY <1>5, <1>6, FS_Injection DEF n
<1>8. PICK x \in S : rank[x] = i
  BY <1>7 DEF Surjection, n
<1>9. i \in Int /\ Cardinality(Below(S, x)) \in Int
  BY <1>1, <1>2
<1> QED
  BY <1>2, <1>8, <1>9

(* A sequence that lists a set: each element at one place.                  *)
Lists(s, S) ==
  /\ s \in Seq(S)
  /\ \A i, j \in 1 .. Len(s) : s[i] = s[j] => i = j
  /\ \A x \in S : \E i \in 1 .. Len(s) : s[i] = x

LEMMA AscendingLists ==
  ASSUME NEW S \in SUBSET Nat, IsFiniteSet(S)
  PROVE  Lists(Ascending(S), S) /\ Len(Ascending(S)) = Cardinality(S)
<1> DEFINE n == Cardinality(S)
           A == Ascending(S)
           element(i) == CHOOSE x \in S : Cardinality(Below(S, x)) = i - 1
<1>1. n \in Nat
  BY FS_CardinalityType
<1>2. A = [i \in 1 .. n |-> element(i)]
  BY DEF Ascending, Below
<1> HIDE DEF A
<1>3. ASSUME NEW i \in 1 .. n
      PROVE  A[i] \in S /\ Cardinality(Below(S, A[i])) = i - 1
  <2>1. \E x \in S : Cardinality(Below(S, x)) = i - 1
    BY RankSurjective
  <2>2. element(i) \in S /\ Cardinality(Below(S, element(i))) = i - 1
    BY <2>1
  <2> HIDE DEF element, n
  <2> QED
    BY <1>2, <2>2
<1> HIDE DEF element
<1>4. A \in Seq(S) /\ Len(A) = n
  <2>1. A \in [1 .. n -> S]
    BY <1>2, <1>3
  <2> QED
    BY <1>1, <2>1
<1>5. \A i, j \in 1 .. n : A[i] = A[j] => i = j
  <2>1. ASSUME NEW i \in 1 .. n, NEW j \in 1 .. n, A[i] = A[j] PROVE i = j
    <3>1. i - 1 = j - 1
      BY <1>3, <2>1
    <3> HIDE DEF n
    <3> QED
      BY <1>1, <3>1
  <2> QED
    BY <2>1
<1>6. ASSUME NEW x \in S PROVE \E i \in 1 .. n : A[i] = x
  <2> DEFINE r == Cardinality(Below(S, x))
  <2>1. r \in 0 .. n - 1
    BY RankInRange
  <2> HIDE DEF r, n
  <2>2. r + 1 \in 1 .. n /\ (r + 1) - 1 = r
    BY <1>1, <2>1
  <2>3. Cardinality(Below(S, A[r + 1])) = r /\ A[r + 1] \in S
    BY <1>3, <2>2
  <2>4. A[r + 1] = x
    <3>1. Cardinality(Below(S, A[r + 1])) = Cardinality(Below(S, x)) /\ A[r + 1] \in S
      BY <2>3 DEF r
    <3>2. \A a \in S : Cardinality(Below(S, a)) = Cardinality(Below(S, x)) => a = x
      BY RankInjective
    <3> QED
      BY <3>1, <3>2
  <2> QED
    BY <2>2, <2>4
<1> QED
  BY <1>4, <1>5, <1>6 DEF Lists, A, n

-----------------------------------------------------------------------------
(* The NANDs, those that one of them reads, and what a sequence has before  *)
(* its place i.                                                             *)
Nands == node_ids("NAND")
NandsRead(n) == Sources(n) \cap Nands
Before(s, i) == {s[j] : j \in 1 .. i - 1}

(* What each phase leaves behind.  Every node is in the map, and no name is *)
(* given twice.                                                             *)
NodesOK ==
  /\ \A i, j \in DOMAIN graph.nodes : graph.nodes[i].id = graph.nodes[j].id => i = j
  /\ EmptyId \notin Ids(graph)
  /\ DOMAIN nodes = Ids(graph)
  /\ \A k \in DOMAIN graph.nodes : nodes[graph.nodes[k].id] = graph.nodes[k].kind

(* A connection that runs from an output port to an input port.             *)
ConnectionOK(c) ==
  /\ c.from \in DOMAIN nodes /\ c.to \in DOMAIN nodes
  /\ output_port(nodes[c.from]) = c.from_port /\ c.from_port # "none"
  /\ c.to_port \in input_ports(nodes[c.to])

(* Every connection is sound and in the map, and no port is driven twice.   *)
DriversOK ==
  /\ \A c \in Elements(graph.connections) : ConnectionOK(c)
  /\ \A i, j \in DOMAIN graph.connections :
       Target(graph.connections[i]) = Target(graph.connections[j]) => i = j
  /\ DOMAIN drivers = {Target(c) : c \in Elements(graph.connections)}
  /\ \A c \in Elements(graph.connections) : drivers[Target(c)] = c.from

PortsDriven ==
  /\ node_ids("INPUT") # {} /\ node_ids("OUTPUT") # {}
  /\ \A id \in DOMAIN nodes : \A p \in input_ports(nodes[id]) : <<id, p>> \in DOMAIN drivers

(* Every NAND of s comes after those it reads, and is the least of those    *)
(* that could have come at its place.                                       *)
Greedy(s) ==
  \A i \in 1 .. Len(s) :
    /\ NandsRead(s[i]) \subseteq Before(s, i)
    /\ \A m \in Nands \ Before(s, i) : NandsRead(m) \subseteq Before(s, i) => s[i] <= m

(* The sort: its bookkeeping, and the order so far.                         *)
SortOK ==
  /\ DOMAIN dependencies = Nands /\ DOMAIN dependents = Nands
  /\ \A n \in Nands : dependents[n] = {m \in Nands : n \in Sources(m)}
  /\ \A n \in Nands : dependencies[n] = Pending(n)
  /\ ready = {n \in Nands \ Elements(ordered) : Pending(n) = {}}
  /\ ordered \in Seq(Nands)
  /\ \A i, j \in 1 .. Len(ordered) : ordered[i] = ordered[j] => i = j
  /\ Greedy(ordered)

(* Every NAND has its place, and every signal a number a record can hold.   *)
OrderOK == Elements(ordered) = Nands /\ GraphSignals - 1 <= MAX_U24

BodySize == LATCH_LEN * Cardinality(node_ids("LATCH"))
              + NAND_LEN * Cardinality(node_ids("NAND"))

(* The inductive invariant: what the phases before pc have established.     *)
IInv ==
  /\ TypeOK
  /\ pc = "nodes" => drivers = Empty
  /\ pc \notin {"nodes", "failed"} => NodesOK
  /\ pc \notin {"nodes", "connections", "failed"} => DriversOK
  /\ pc \in {"order", "sort", "number", "done"} => PortsDriven
  /\ pc \in {"nodes", "connections", "drivers", "order"} => ordered = <<>>
  /\ pc \in {"sort", "number", "done"} => SortOK
  /\ pc \in {"number", "done"} => OrderOK
  /\ pc = "done" => signals = NewSignals /\ circuit = NewCircuit
  /\ pc # "failed" => error = "none"
  /\ RefusesExactly

-----------------------------------------------------------------------------
(* What the phases have read off the graph.                                 *)
LEMMA GraphFields ==
  ASSUME NEW g \in Graph
  PROVE  /\ Len(g.nodes) \in Nat /\ DOMAIN g.nodes = 1 .. Len(g.nodes)
         /\ \A k \in 1 .. Len(g.nodes) : g.nodes[k].id \in Nat /\ g.nodes[k].kind \in Kinds
         /\ Len(g.connections) \in Nat /\ DOMAIN g.connections = 1 .. Len(g.connections)
         /\ \A k \in 1 .. Len(g.connections) :
              /\ g.connections[k].from \in Nat /\ g.connections[k].from_port \in Ports
              /\ g.connections[k].to \in Nat /\ g.connections[k].to_port \in Ports
<1>1. /\ g.nodes \in Seq([id : Nat, kind : Kinds])
      /\ g.connections \in Seq([from : Nat, from_port : Ports, to : Nat, to_port : Ports])
  BY DEF Graph
<1>2. ASSUME NEW k \in 1 .. Len(g.nodes) PROVE g.nodes[k] \in [id : Nat, kind : Kinds]
  BY <1>1, ElementOfSeq
<1>3. ASSUME NEW k \in 1 .. Len(g.connections)
      PROVE  g.connections[k] \in [from : Nat, from_port : Ports, to : Nat, to_port : Ports]
  BY <1>1, ElementOfSeq
<1> QED
  BY <1>1, <1>2, <1>3

(* The set of identifiers is as large as the list is long exactly when no   *)
(* identifier is listed twice.                                              *)
LEMMA IdsCounted ==
  ASSUME NEW g \in Graph
  PROVE  /\ IsFiniteSet(Ids(g)) /\ Ids(g) \subseteq Nat
         /\ Cardinality(Ids(g)) = Len(g.nodes)
              <=> \A i, j \in DOMAIN g.nodes : g.nodes[i].id = g.nodes[j].id => i = j
<1> DEFINE D == 1 .. Len(g.nodes)
           f == [k \in D |-> g.nodes[k].id]
<1>1. Len(g.nodes) \in Nat /\ DOMAIN g.nodes = D /\ \A k \in D : g.nodes[k].id \in Nat
  BY GraphFields
<1>2. Ids(g) = {g.nodes[k].id : k \in D}
  BY <1>1 DEF Ids, Elements
<1>3. IsFiniteSet(D) /\ Cardinality(D) = Len(g.nodes)
  BY <1>1, FS_Interval
<1> HIDE DEF D
<1>4. f \in Surjection(D, Ids(g))
  BY <1>2 DEF Surjection
<1>5. IsFiniteSet(Ids(g)) /\ (Cardinality(Ids(g)) = Len(g.nodes) <=> f \in Injection(D, Ids(g)))
  BY <1>3, <1>4, FS_Surjection
<1>6. f \in Injection(D, Ids(g)) <=> \A i, j \in D : g.nodes[i].id = g.nodes[j].id => i = j
  <2>1. f \in [D -> Ids(g)]
    BY <1>2
  <2> QED
    BY <2>1 DEF Injection, IsInjective
<1> QED
  BY <1>1, <1>2, <1>5, <1>6

(* The nodes of a kind are those the map gives that kind.                   *)
LEMMA NodesByKind ==
  ASSUME graph \in Graph, NodesOK
  PROVE  /\ \A kind : node_ids(kind) = OfKind(graph, kind)
         /\ \A n \in Elements(graph.nodes) : n.id \in DOMAIN nodes /\ nodes[n.id] = n.kind
         /\ \A id \in DOMAIN nodes :
              /\ \E n \in Elements(graph.nodes) : n.id = id /\ n.kind = nodes[id]
              /\ nodes[id] \in Kinds
         /\ \A kind : IsFiniteSet(node_ids(kind)) /\ node_ids(kind) \in SUBSET Nat
<1>1. \A n \in Elements(graph.nodes) : n.id \in DOMAIN nodes /\ nodes[n.id] = n.kind
  BY DEF NodesOK, Elements, Ids
<1>2. \A id \in DOMAIN nodes : \E n \in Elements(graph.nodes) : n.id = id /\ n.kind = nodes[id]
  BY <1>1 DEF NodesOK, Ids
<1>3. \A n \in Elements(graph.nodes) : n.kind \in Kinds
  BY GraphFields DEF Elements
<1>4. ASSUME NEW kind PROVE node_ids(kind) = OfKind(graph, kind)
  BY <1>1, <1>2 DEF node_ids, OfKind
<1>5. IsFiniteSet(Ids(graph)) /\ Ids(graph) \subseteq Nat
  BY IdsCounted
<1>6. ASSUME NEW kind PROVE IsFiniteSet(node_ids(kind)) /\ node_ids(kind) \in SUBSET Nat
  <2>1. node_ids(kind) \subseteq Ids(graph)
    BY DEF node_ids, NodesOK
  <2> QED
    BY <1>5, <2>1, FS_Subset
<1> QED
  BY <1>1, <1>2, <1>3, <1>4, <1>6

(* The connections into a port are those the map has there.                 *)
LEMMA DriversByPort ==
  ASSUME DriversOK
  PROVE  /\ \A f, to, p : Drives(graph, f, to, p)
                            <=> <<to, p>> \in DOMAIN drivers /\ drivers[<<to, p>>] = f
         /\ \A t \in DOMAIN drivers :
              /\ drivers[t] \in DOMAIN nodes
              /\ output_port(nodes[drivers[t]]) # "none"
<1>1. ASSUME NEW t \in DOMAIN drivers
      PROVE  \E c \in Elements(graph.connections) : Target(c) = t /\ drivers[t] = c.from
  BY DEF DriversOK
<1>2. ASSUME NEW f, NEW to, NEW p
      PROVE  Drives(graph, f, to, p) <=> <<to, p>> \in DOMAIN drivers /\ drivers[<<to, p>>] = f
  <2>1. ASSUME NEW c \in Elements(graph.connections)
        PROVE  Target(c) = <<to, p>> <=> c.to = to /\ c.to_port = p
    BY DEF Target
  <2>2. \A c \in Elements(graph.connections) : Target(c) \in DOMAIN drivers /\ drivers[Target(c)] = c.from
    BY DEF DriversOK
  <2> QED
    BY <1>1, <2>1, <2>2 DEF Drives
<1>3. ASSUME NEW t \in DOMAIN drivers
      PROVE  drivers[t] \in DOMAIN nodes /\ output_port(nodes[drivers[t]]) # "none"
  BY <1>1 DEF DriversOK, ConnectionOK
<1> QED
  BY <1>2, <1>3

-----------------------------------------------------------------------------
(* The three phases of checks together accept exactly the wired graphs.     *)
LEMMA ReadsAll ==
  ASSUME graph \in Graph, NodesOK, DriversOK, PortsDriven
  PROVE  Wired(graph)
<1>1. Cardinality(Ids(graph)) = Len(graph.nodes) /\ EmptyId \notin Ids(graph)
  BY IdsCounted DEF NodesOK
<1>2. ASSUME NEW c \in Elements(graph.connections)
      PROVE  /\ \E n \in Elements(graph.nodes) : n.id = c.from /\ output_port(n.kind) = c.from_port
             /\ \E n \in Elements(graph.nodes) : n.id = c.to /\ c.to_port \in input_ports(n.kind)
             /\ c.from_port # "none"
  <2>1. ConnectionOK(c)
    BY DEF DriversOK
  <2> QED
    BY <2>1, NodesByKind DEF ConnectionOK
<1>3. ASSUME NEW n \in Elements(graph.nodes), NEW p \in input_ports(n.kind)
      PROVE  Cardinality({i \in DOMAIN graph.connections :
                            graph.connections[i].to = n.id /\ graph.connections[i].to_port = p}) = 1
  <2> DEFINE I == {i \in DOMAIN graph.connections :
                     graph.connections[i].to = n.id /\ graph.connections[i].to_port = p}
  <2>1. n.id \in DOMAIN nodes /\ nodes[n.id] = n.kind
    BY NodesByKind
  <2>2. <<n.id, p>> \in DOMAIN drivers
    BY <2>1 DEF PortsDriven
  <2>3. PICK i \in DOMAIN graph.connections : Target(graph.connections[i]) = <<n.id, p>>
    BY <2>2 DEF DriversOK, Elements
  <2>4. i \in I
    BY <2>3 DEF Target
  <2>5. ASSUME NEW j \in I PROVE j = i
    <3>1. Target(graph.connections[j]) = <<n.id, p>>
      BY DEF Target
    <3> QED
      BY <2>3, <3>1 DEF DriversOK
  <2>6. I = {i}
    BY <2>4, <2>5
  <2> QED
    BY <2>6, FS_Singleton
<1>4. OfKind(graph, "INPUT") # {} /\ OfKind(graph, "OUTPUT") # {}
  BY NodesByKind DEF PortsDriven
<1> QED
  BY <1>1, <1>2, <1>3, <1>4 DEF Wired

LEMMA WiredConnections ==
  ASSUME graph \in Graph, Wired(graph), NodesOK
  PROVE  /\ \A c \in Elements(graph.connections) : ConnectionOK(c)
         /\ \A i, j \in DOMAIN graph.connections :
              Target(graph.connections[i]) = Target(graph.connections[j]) => i = j
<1>1. ASSUME NEW c \in Elements(graph.connections) PROVE ConnectionOK(c)
  <2>1. PICK n \in Elements(graph.nodes) : n.id = c.from /\ output_port(n.kind) = c.from_port
    BY DEF Wired
  <2>2. PICK m \in Elements(graph.nodes) : m.id = c.to /\ c.to_port \in input_ports(m.kind)
    BY DEF Wired
  <2>3. c.from_port # "none"
    BY DEF Wired
  <2> QED
    BY <2>1, <2>2, <2>3, NodesByKind DEF ConnectionOK
<1>2. ASSUME NEW i \in DOMAIN graph.connections, NEW j \in DOMAIN graph.connections,
             Target(graph.connections[i]) = Target(graph.connections[j])
      PROVE  i = j
  <2> DEFINE c == graph.connections[i]
  <2>1. c \in Elements(graph.connections)
    BY DEF Elements
  <2>2. PICK m \in Elements(graph.nodes) : m.id = c.to /\ c.to_port \in input_ports(m.kind)
    BY <2>1 DEF Wired
  <2> DEFINE I == {k \in DOMAIN graph.connections :
                     graph.connections[k].to = m.id /\ graph.connections[k].to_port = c.to_port}
  <2>3. Cardinality(I) = 1
    BY <2>2 DEF Wired
  <2>4. i \in I /\ j \in I
    BY <1>2, <2>2 DEF Target
  <2>5. IsFiniteSet(I)
    <3>1. IsFiniteSet(DOMAIN graph.connections)
      BY GraphFields, FS_Interval
    <3>2. I \subseteq DOMAIN graph.connections
      OBVIOUS
    <3> QED
      BY <3>1, <3>2, FS_Subset
  <2> HIDE DEF I
  <2> QED
    BY <2>3, <2>4, <2>5, FS_Singleton
<1> QED
  BY <1>1, <1>2

LEMMA WiredPorts ==
  ASSUME graph \in Graph, Wired(graph), NodesOK, DriversOK
  PROVE  PortsDriven
<1>1. node_ids("INPUT") # {} /\ node_ids("OUTPUT") # {}
  BY NodesByKind DEF Wired
<1>2. ASSUME NEW id \in DOMAIN nodes, NEW p \in input_ports(nodes[id])
      PROVE  <<id, p>> \in DOMAIN drivers
  <2>1. PICK n \in Elements(graph.nodes) : n.id = id /\ n.kind = nodes[id]
    BY NodesByKind
  <2> DEFINE I == {i \in DOMAIN graph.connections :
                     graph.connections[i].to = n.id /\ graph.connections[i].to_port = p}
  <2>2. Cardinality(I) = 1
    BY <2>1 DEF Wired
  <2>3. I # {}
    <3> HIDE DEF I
    <3> QED
      BY <2>2, FS_EmptySet
  <2>4. PICK i \in I : TRUE
    BY <2>3
  <2>5. graph.connections[i] \in Elements(graph.connections) /\ Target(graph.connections[i]) = <<id, p>>
    BY <2>1 DEF Elements, Target
  <2> QED
    BY <2>5 DEF DriversOK
<1> QED
  BY <1>1, <1>2 DEF PortsDriven

-----------------------------------------------------------------------------
(* The invariant, phase by phase.                                           *)
LEMMA InitInv == Init => IInv
<1> SUFFICES ASSUME Init PROVE IInv
  OBVIOUS
<1>1. graph \in Graph
  BY GraphsAssumption DEF Init
<1>2. DOMAIN Empty = {}
  BY DEF Empty
<1>3. circuit \in Circuit
  <2>1. <<>> \in Seq(Nat) /\ <<>> \in Seq(Gate)
    BY EmptySeq
  <2> QED
    BY <2>1 DEF Init, Circuit
<1>4. Elements(ordered) = {}
  BY DEF Init, Elements
<1>5. TypeOK
  BY <1>1, <1>2, <1>3, <1>4 DEF Init, TypeOK
<1>6. RefusesExactly
  BY DEF Init, RefusesExactly
<1> QED
  BY <1>5, <1>6 DEF Init, IInv

LEMMA FailKeeps ==
  ASSUME IInv, NEW e \in Errors, Fail(e),
         ~Wired(graph) \/ ~Acyclic(graph) \/ ~Fits(graph),
         e = "CombinationalCycle" => Wired(graph) /\ ~Acyclic(graph)
  PROVE  IInv'
<1>1. /\ pc' = "failed" /\ error' = e
      /\ UNCHANGED <<graph, nodes, drivers, dependencies, dependents, ready, ordered, circuit>>
  BY DEF Fail, maps, sort
<1>2. TypeOK'
  BY <1>1 DEF IInv, TypeOK
<1>3. /\ Wired(graph)' = Wired(graph) /\ Acyclic(graph)' = Acyclic(graph)
      /\ Fits(graph)' = Fits(graph)
  BY <1>1
<1>4. RefusesExactly'
  BY <1>1, <1>3 DEF RefusesExactly
<1> QED
  BY <1>1, <1>2, <1>4 DEF IInv

LEMMA CollectNodesInv == ASSUME IInv, CollectNodes PROVE IInv'
<1> DEFINE n == Len(graph.nodes)
           errors == NodeErrors
<1>1. graph \in Graph /\ pc = "nodes"
  BY DEF IInv, TypeOK, CollectNodes
<1>2. n \in Nat /\ DOMAIN graph.nodes = 1 .. n /\ DOMAIN errors = 1 .. n
  BY <1>1, GraphFields DEF NodeErrors
<1>3. ASSUME NEW k \in 1 .. n
      PROVE  errors[k] = IF graph.nodes[k].id = EmptyId THEN "EmptyNodeId"
                         ELSE IF \E j \in 1 .. k - 1 : graph.nodes[j].id = graph.nodes[k].id
                         THEN "DuplicateNode" ELSE "none"
  BY <1>2 DEF NodeErrors
<1> HIDE DEF n, errors
<1>4. /\ FirstError(errors) = "none" <=> \A k \in 1 .. n : errors[k] = "none"
      /\ FirstError(errors) # "none" => \E k \in 1 .. n : errors[k] = FirstError(errors)
  BY <1>2, FirstErrorIs
<1>5. CASE FirstError(errors) # "none"
  <2>1. PICK k \in 1 .. n : errors[k] = FirstError(errors)
    BY <1>4, <1>5
  <2>2. errors[k] \in {"EmptyNodeId", "DuplicateNode"}
    BY <1>3, <1>5, <2>1
  <2>3. Fail(errors[k])
    BY <1>5, <2>1 DEF CollectNodes, errors
  <2>4. ~Wired(graph)
    <3>1. SUFFICES ASSUME Wired(graph) PROVE FALSE
      OBVIOUS
    <3>2. graph.nodes[k].id # EmptyId
      BY <1>2, <3>1 DEF Wired, Ids, Elements
    <3>3. \A i, j \in 1 .. n : graph.nodes[i].id = graph.nodes[j].id => i = j
      BY <1>1, <1>2, <3>1, IdsCounted DEF Wired
    <3>4. \A j \in 1 .. k - 1 : j \in 1 .. n /\ j # k
      BY <1>2
    <3>5. errors[k] = "none"
      BY <1>3, <3>2, <3>3, <3>4
    <3> QED
      BY <2>2, <3>5
  <2>5. errors[k] \in Errors /\ errors[k] # "CombinationalCycle"
    BY <2>2 DEF Errors
  <2> QED
    BY <2>3, <2>4, <2>5, FailKeeps
<1>6. CASE FirstError(errors) = "none"
  <2>1. /\ nodes' = [id \in Ids(graph) |->
                       graph.nodes[CHOOSE k \in DOMAIN graph.nodes : graph.nodes[k].id = id].kind]
        /\ pc' = "connections"
        /\ UNCHANGED <<graph, drivers, dependencies, dependents, ready, ordered, circuit, error>>
    BY <1>6 DEF CollectNodes, errors, sort
  <2>2. \A k \in 1 .. n : errors[k] = "none"
    BY <1>4, <1>6
  <2>3. ASSUME NEW i \in 1 .. n, NEW j \in 1 .. n, graph.nodes[i].id = graph.nodes[j].id
        PROVE  i = j
    <3>1. i \in Int /\ j \in Int
      OBVIOUS
    <3>2. ~(i < j)
      <4>1. SUFFICES ASSUME i < j PROVE FALSE
        OBVIOUS
      <4>2. i \in 1 .. j - 1
        BY <4>1
      <4> QED
        BY <1>3, <2>2, <2>3, <4>2
    <3>3. ~(j < i)
      <4>1. SUFFICES ASSUME j < i PROVE FALSE
        OBVIOUS
      <4>2. j \in 1 .. i - 1
        BY <4>1
      <4> QED
        BY <1>3, <2>2, <2>3, <4>2
    <3> QED
      BY <3>1, <3>2, <3>3
  <2>4. ASSUME NEW k \in 1 .. n
        PROVE  /\ graph.nodes[k].id \in Ids(graph)
               /\ nodes'[graph.nodes[k].id] = graph.nodes[k].kind
               /\ graph.nodes[k].kind \in Kinds /\ graph.nodes[k].id # EmptyId
    <3> DEFINE id == graph.nodes[k].id
               c == CHOOSE j \in DOMAIN graph.nodes : graph.nodes[j].id = id
    <3>1. id \in Ids(graph)
      BY <1>2 DEF Ids, Elements
    <3>2. c \in DOMAIN graph.nodes /\ graph.nodes[c].id = id
      BY <1>2
    <3>3. nodes'[id] = graph.nodes[c].kind
      BY <2>1, <3>1
    <3> HIDE DEF c
    <3>4. c = k
      BY <1>2, <2>3, <3>2
    <3>5. graph.nodes[k].kind \in Kinds
      BY <1>1, GraphFields DEF n
    <3>6. id # EmptyId
      BY <1>3, <2>2
    <3> QED
      BY <3>1, <3>3, <3>4, <3>5, <3>6
  <2>5. \A id \in Ids(graph) : \E k \in 1 .. n : graph.nodes[k].id = id
    BY <1>2 DEF Ids, Elements
  <2>6. NodesOK'
    <3>1. DOMAIN nodes' = Ids(graph)
      BY <2>1
    <3>2. EmptyId \notin Ids(graph)
      BY <2>4, <2>5
    <3>3. graph' = graph /\ DOMAIN graph.nodes = 1 .. n
      BY <1>2, <2>1
    <3>4. \A k \in 1 .. n : nodes'[graph.nodes[k].id] = graph.nodes[k].kind
      BY <2>4
    <3> QED
      BY <2>3, <3>1, <3>2, <3>3, <3>4 DEF NodesOK
  <2>7. TypeOK'
    <3>1. \A id \in DOMAIN nodes' : nodes'[id] \in Kinds
      <4>1. DOMAIN nodes' = Ids(graph)
        BY <2>1
      <4> QED
        BY <2>4, <2>5, <4>1
    <3>2. drivers' = Empty /\ DOMAIN Empty = {}
      BY <1>1, <2>1 DEF IInv, Empty
    <3> QED
      BY <2>1, <3>1, <3>2 DEF IInv, TypeOK
  <2>8. RefusesExactly'
    BY <1>1, <2>1 DEF RefusesExactly, IInv
  <2> QED
    BY <1>1, <2>1, <2>6, <2>7, <2>8 DEF IInv
<1> QED
  BY <1>5, <1>6

LEMMA CollectConnectionsInv == ASSUME IInv, CollectConnections PROVE IInv'
<1> DEFINE n == Len(graph.connections)
           errors == ConnectionErrors
           C(k) == graph.connections[k]
<1>1. graph \in Graph /\ pc = "connections" /\ NodesOK
  BY DEF IInv, TypeOK, CollectConnections
<1>2. n \in Nat /\ DOMAIN graph.connections = 1 .. n /\ DOMAIN errors = 1 .. n
  BY <1>1, GraphFields DEF ConnectionErrors
<1>3. ASSUME NEW k \in 1 .. n
      PROVE  errors[k] = IF {C(k).from, C(k).to} \ DOMAIN nodes # {} THEN "UnknownNode"
                         ELSE IF InvalidSource(C(k)) THEN "InvalidSourcePort"
                         ELSE IF C(k).to_port \notin input_ports(nodes[C(k).to]) THEN "InvalidTargetPort"
                         ELSE IF \E j \in 1 .. k - 1 : Target(C(j)) = Target(C(k))
                         THEN "MultipleDrivers"
                         ELSE "none"
  BY <1>2 DEF ConnectionErrors
<1> HIDE DEF n, errors
<1>4. /\ FirstError(errors) = "none" <=> \A k \in 1 .. n : errors[k] = "none"
      /\ FirstError(errors) # "none" => \E k \in 1 .. n : errors[k] = FirstError(errors)
  BY <1>2, FirstErrorIs
<1>5. ASSUME NEW k \in 1 .. n
      PROVE  errors[k] = "none"
               <=> ConnectionOK(C(k)) /\ \A j \in 1 .. k - 1 : Target(C(j)) # Target(C(k))
  BY <1>3 DEF ConnectionOK, InvalidSource
<1>6. CASE FirstError(errors) # "none"
  <2>1. PICK k \in 1 .. n : errors[k] = FirstError(errors)
    BY <1>4, <1>6
  <2>2. errors[k] \in {"UnknownNode", "InvalidSourcePort", "InvalidTargetPort", "MultipleDrivers"}
    BY <1>3, <1>6, <2>1
  <2>3. Fail(errors[k])
    BY <1>6, <2>1 DEF CollectConnections, errors
  <2>4. ~Wired(graph)
    <3>1. SUFFICES ASSUME Wired(graph) PROVE FALSE
      OBVIOUS
    <3>2. ConnectionOK(C(k))
      BY <1>1, <1>2, <3>1, WiredConnections DEF Elements
    <3>3. \A j \in 1 .. k - 1 : j \in 1 .. n /\ j # k
      BY <1>2
    <3>4. \A j \in 1 .. k - 1 : Target(C(j)) # Target(C(k))
      BY <1>1, <1>2, <3>1, <3>3, WiredConnections
    <3> QED
      BY <1>5, <1>6, <2>1, <3>2, <3>4
  <2>5. errors[k] \in Errors /\ errors[k] # "CombinationalCycle"
    BY <2>2 DEF Errors
  <2> QED
    BY <2>3, <2>4, <2>5, FailKeeps
<1>7. CASE FirstError(errors) = "none"
  <2>1. /\ drivers' = [t \in {Target(c) : c \in Elements(graph.connections)} |->
                         (CHOOSE c \in Elements(graph.connections) : Target(c) = t).from]
        /\ pc' = "drivers"
        /\ UNCHANGED <<graph, nodes, dependencies, dependents, ready, ordered, circuit, error>>
    BY <1>7 DEF CollectConnections, errors, sort
  <2>2. \A k \in 1 .. n :
          ConnectionOK(C(k)) /\ \A j \in 1 .. k - 1 : Target(C(j)) # Target(C(k))
    BY <1>4, <1>5, <1>7
  <2>3. ASSUME NEW i \in 1 .. n, NEW j \in 1 .. n, Target(C(i)) = Target(C(j))
        PROVE  i = j
    <3>1. i \in Int /\ j \in Int
      OBVIOUS
    <3>2. i < j => i \in 1 .. j - 1
      OBVIOUS
    <3>3. j < i => j \in 1 .. i - 1
      OBVIOUS
    <3> HIDE DEF C
    <3> QED
      BY <2>2, <2>3, <3>1, <3>2, <3>3
  <2>4. ASSUME NEW c \in Elements(graph.connections)
        PROVE  drivers'[Target(c)] = c.from /\ ConnectionOK(c)
    <3> DEFINE d == CHOOSE d \in Elements(graph.connections) : Target(d) = Target(c)
    <3>1. d \in Elements(graph.connections) /\ Target(d) = Target(c)
      OBVIOUS
    <3>2. drivers'[Target(c)] = d.from
      BY <2>1
    <3> HIDE DEF d
    <3>3. \A e \in Elements(graph.connections) : \E k \in 1 .. n : e = C(k)
      BY <1>2 DEF Elements
    <3>4. d = c
      BY <2>3, <3>1, <3>3
    <3> QED
      BY <2>2, <3>2, <3>3, <3>4
  <2>5. DriversOK'
    <3>1. \A c : Target(c)' = Target(c)
      BY DEF Target
    <3>2. \A c \in Elements(graph.connections) : ConnectionOK(c)'
      BY <2>1, <2>4 DEF ConnectionOK
    <3>3. DOMAIN drivers' = {Target(c) : c \in Elements(graph.connections)}
      BY <2>1
    <3> QED
      BY <1>2, <2>1, <2>3, <2>4, <3>2, <3>3 DEF DriversOK, Target
  <2>6. NodesOK'
    BY <1>1, <2>1 DEF NodesOK
  <2>7. TypeOK'
    <3>1. \A t \in DOMAIN drivers' : drivers'[t] \in DOMAIN nodes
      <4>1. DOMAIN drivers' = {Target(c) : c \in Elements(graph.connections)}
        BY <2>1
      <4>2. \A c \in Elements(graph.connections) : drivers'[Target(c)] \in DOMAIN nodes
        BY <2>4 DEF ConnectionOK
      <4> QED
        BY <4>1, <4>2
    <3> QED
      BY <2>1, <3>1 DEF IInv, TypeOK
  <2>8. RefusesExactly'
    BY <1>1, <2>1 DEF RefusesExactly, IInv
  <2> QED
    BY <1>1, <2>1, <2>5, <2>6, <2>7, <2>8 DEF IInv
<1> QED
  BY <1>6, <1>7

LEMMA CheckDriversInv == ASSUME IInv, CheckDrivers PROVE IInv'
<1>1. graph \in Graph /\ pc = "drivers" /\ NodesOK /\ DriversOK
  BY DEF IInv, TypeOK, CheckDrivers
<1>2. CASE ~PortsDriven
  <2>1. ~Wired(graph)
    BY <1>1, <1>2, WiredPorts
  <2>2. PICK e \in {"EmptyInputs", "EmptyOutputs", "MissingDriver"} : Fail(e)
    BY <1>2 DEF PortsDriven, CheckDrivers
  <2>3. e \in Errors /\ e # "CombinationalCycle"
    BY DEF Errors
  <2> QED
    BY <2>1, <2>2, <2>3, FailKeeps
<1>3. CASE PortsDriven
  <2>1. /\ pc' = "order"
        /\ UNCHANGED <<graph, nodes, drivers, dependencies, dependents, ready, ordered, circuit, error>>
    BY <1>3 DEF CheckDrivers, PortsDriven, maps, sort
  <2>2. TypeOK' /\ NodesOK' /\ RefusesExactly'
    BY <1>1, <2>1 DEF IInv, TypeOK, NodesOK, RefusesExactly
  <2>3. DriversOK'
    BY <1>1, <2>1 DEF DriversOK, ConnectionOK
  <2>4. PortsDriven'
    BY <1>3, <2>1 DEF PortsDriven, node_ids
  <2> QED
    BY <1>1, <2>1, <2>2, <2>3, <2>4 DEF IInv
<1> QED
  BY <1>2, <1>3

-----------------------------------------------------------------------------
(* The sort.                                                                *)
LEMMA MapsKept ==
  ASSUME UNCHANGED <<graph, nodes, drivers>>, NodesOK, DriversOK, PortsDriven
  PROVE  /\ NodesOK' /\ DriversOK' /\ PortsDriven'
         /\ \A kind : node_ids(kind)' = node_ids(kind)
         /\ Nands' = Nands
         /\ \A n : Sources(n)' = Sources(n) /\ NandsRead(n)' = NandsRead(n)
<1>1. NodesOK'
  BY DEF NodesOK
<1>2. DriversOK'
  BY DEF DriversOK, ConnectionOK
<1>3. PortsDriven'
  BY DEF PortsDriven, node_ids
<1>4. \A kind : node_ids(kind)' = node_ids(kind)
  BY DEF node_ids
<1>5. Nands' = Nands
  BY <1>4 DEF Nands
<1>6. \A n : Sources(n)' = Sources(n)
  BY DEF Sources
<1>7. \A n : NandsRead(n)' = NandsRead(n)
  BY <1>5, <1>6 DEF NandsRead
<1> QED
  BY <1>1, <1>2, <1>3, <1>4, <1>5, <1>6, <1>7

LEMMA StartOrderInv == ASSUME IInv, StartOrder PROVE IInv'
<1>1. graph \in Graph /\ pc = "order" /\ NodesOK /\ DriversOK /\ PortsDriven /\ ordered = <<>>
  BY DEF IInv, TypeOK, StartOrder
<1>2. /\ pc' = "sort"
      /\ dependencies' = [n \in Nands |-> NandsRead(n)]
      /\ dependents' = [n \in Nands |-> {m \in Nands : n \in NandsRead(m)}]
      /\ ready' = {n \in Nands : NandsRead(n) = {}}
      /\ UNCHANGED <<graph, nodes, drivers, ordered, signals, circuit, error>>
  BY DEF StartOrder, Nands, NandsRead, maps
<1>3. /\ NodesOK' /\ DriversOK' /\ PortsDriven' /\ Nands' = Nands
      /\ \A n : Sources(n)' = Sources(n) /\ NandsRead(n)' = NandsRead(n)
  BY <1>1, <1>2, MapsKept
<1>4. Elements(ordered) = {} /\ Len(ordered) = 0 /\ ordered \in Seq(Nands)
  BY <1>1 DEF Elements
<1>5. \A n : Pending(n)' = NandsRead(n)
  <2>1. \A n : Pending(n)' = NandsRead(n)' \ Elements(ordered)'
    BY DEF Pending, NandsRead, Nands
  <2>2. Elements(ordered)' = {}
    BY <1>2, <1>4
  <2> QED
    BY <1>3, <2>1, <2>2
<1>6. SortOK'
  <2>1. DOMAIN dependencies' = Nands /\ DOMAIN dependents' = Nands
    BY <1>2
  <2>2. \A n \in Nands : dependents'[n] = {m \in Nands : n \in Sources(m)}
    BY <1>2 DEF NandsRead
  <2>3. \A n \in Nands : dependencies'[n] = Pending(n)'
    BY <1>2, <1>5
  <2>4. ready' = {n \in Nands \ Elements(ordered)' : Pending(n)' = {}}
    BY <1>2, <1>4, <1>5
  <2>5. Greedy(ordered)'
    BY <1>2, <1>4 DEF Greedy
  <2> QED
    BY <1>2, <1>3, <1>4, <2>1, <2>2, <2>3, <2>4, <2>5 DEF SortOK
<1>7. TypeOK'
  <2>1. DOMAIN dependencies' = Nands /\ DOMAIN dependents' = Nands /\ ready' \subseteq Nands
    BY <1>2
  <2>2. Elements(ordered)' = {}
    BY <1>2, <1>4
  <2> QED
    BY <1>2, <2>1, <2>2 DEF IInv, TypeOK
<1>8. RefusesExactly'
  BY <1>1, <1>2 DEF RefusesExactly, IInv
<1> QED
  BY <1>1, <1>2, <1>3, <1>6, <1>7, <1>8 DEF IInv

(* What PopFirst takes and leaves, for any sort that is sound so far.       *)
LEMMA BeforeAppended ==
  ASSUME NEW S, NEW s \in Seq(S), NEW x \in S
  PROVE  /\ Append(s, x) \in Seq(S) /\ Len(Append(s, x)) = Len(s) + 1
         /\ Len(s) \in Nat
         /\ \A i \in 1 .. Len(s) : Append(s, x)[i] = s[i]
         /\ Append(s, x)[Len(s) + 1] = x
         /\ Elements(Append(s, x)) = Elements(s) \cup {x}
         /\ Before(Append(s, x), Len(s) + 1) = Elements(s)
         /\ \A i \in 1 .. Len(s) : Before(Append(s, x), i) = Before(s, i)
<1> DEFINE t == Append(s, x)
           n == Len(s)
<1>1. n \in Nat /\ t \in Seq(S) /\ Len(t) = n + 1 /\ DOMAIN s = 1 .. n /\ DOMAIN t = 1 .. n + 1
  OBVIOUS
<1>2. \A i \in 1 .. n : t[i] = s[i]
  OBVIOUS
<1>3. t[n + 1] = x
  OBVIOUS
<1> HIDE DEF t, n
<1>4. 1 .. n + 1 = (1 .. n) \cup {n + 1} /\ (n + 1) - 1 = n
  BY <1>1
<1>5. Elements(t) = Elements(s) \cup {x}
  BY <1>1, <1>2, <1>3, <1>4 DEF Elements
<1>6. Before(t, n + 1) = Elements(s)
  BY <1>1, <1>2, <1>4 DEF Before, Elements
<1>7. ASSUME NEW i \in 1 .. n PROVE Before(t, i) = Before(s, i)
  <2>1. \A j \in 1 .. i - 1 : j \in 1 .. n
    BY <1>1
  <2> QED
    BY <1>2, <2>1 DEF Before
<1> QED
  BY <1>1, <1>2, <1>3, <1>5, <1>6, <1>7 DEF t, n

LEMMA OrderedReads ==
  ASSUME SortOK
  PROVE  \A n \in Elements(ordered) : n \in Nands /\ NandsRead(n) \subseteq Elements(ordered)
<1> SUFFICES ASSUME NEW n \in Elements(ordered)
             PROVE  n \in Nands /\ NandsRead(n) \subseteq Elements(ordered)
  OBVIOUS
<1>1. ordered \in Seq(Nands) /\ DOMAIN ordered = 1 .. Len(ordered) /\ Len(ordered) \in Nat
  BY DEF SortOK
<1>2. PICK i \in 1 .. Len(ordered) : n = ordered[i]
  BY <1>1 DEF Elements
<1>3. NandsRead(n) \subseteq Before(ordered, i)
  BY <1>2 DEF SortOK, Greedy
<1>4. \A j \in 1 .. i - 1 : j \in 1 .. Len(ordered)
  BY <1>1
<1>5. Before(ordered, i) \subseteq Elements(ordered)
  BY <1>1, <1>4 DEF Before, Elements
<1>6. n \in Nands
  BY <1>1, <1>2, ElementOfSeq
<1> QED
  BY <1>3, <1>5, <1>6

LEMMA PopFirstInv == ASSUME IInv, PopFirst PROVE IInv'
<1> DEFINE node == Least(ready)
           E == Elements(ordered)
<1>1. /\ graph \in Graph /\ pc = "sort" /\ NodesOK /\ DriversOK /\ PortsDriven /\ SortOK
      /\ ready # {}
  BY DEF IInv, TypeOK, PopFirst
<1>2. /\ ordered' = Append(ordered, node)
      /\ dependencies' = [n \in DOMAIN dependencies |->
                            IF n \in dependents[node] THEN dependencies[n] \ {node}
                                                      ELSE dependencies[n]]
      /\ ready' = (ready \ {node})
                    \cup {n \in dependents[node] : dependencies[n] \ {node} = {}}
      /\ UNCHANGED <<graph, pc, nodes, drivers, dependents, signals, circuit, error>>
  BY DEF PopFirst, Released, maps
<1>3. /\ NodesOK' /\ DriversOK' /\ PortsDriven' /\ Nands' = Nands
      /\ \A n : Sources(n)' = Sources(n) /\ NandsRead(n)' = NandsRead(n)
  BY <1>1, <1>2, MapsKept
<1>4. Nands \in SUBSET Nat
  BY <1>1, NodesByKind DEF Nands
<1>5. ready = {n \in Nands \ E : Pending(n) = {}}
  BY <1>1 DEF SortOK
<1>6. /\ node \in Nands /\ node \notin E /\ Pending(node) = {}
      /\ \A m \in ready : node <= m
  <2>1. ready \in SUBSET Nat
    BY <1>4, <1>5
  <2>2. node \in ready /\ \A m \in ready : node <= m
    BY <1>1, <2>1, LeastIs
  <2> HIDE DEF node, E
  <2> QED
    BY <1>5, <2>2
<1> HIDE DEF node
<1>7. \A n : Pending(n) = NandsRead(n) \ E
  BY DEF Pending, NandsRead, Nands
<1>8. ordered \in Seq(Nands) /\ Elements(ordered') = E \cup {node}
  BY <1>1, <1>2, <1>6, BeforeAppended DEF SortOK
<1>9. \A n : Pending(n)' = Pending(n) \ {node}
  <2>1. \A n : Pending(n)' = NandsRead(n)' \ Elements(ordered')
    BY DEF Pending, NandsRead, Nands
  <2> QED
    BY <1>3, <1>7, <1>8, <2>1
<1>10. \A n \in E : n \in Nands /\ NandsRead(n) \subseteq E
  BY <1>1, OrderedReads
<1> HIDE DEF E
<1>11. dependents[node] = {m \in Nands : node \in NandsRead(m)}
  BY <1>1, <1>6 DEF SortOK, NandsRead
<1>12. \A n \in Nands : dependencies'[n] = Pending(n)'
  <2>1. \A n \in Nands : dependencies[n] = Pending(n) /\ n \in DOMAIN dependencies
    BY <1>1 DEF SortOK
  <2>2. ASSUME NEW n \in Nands PROVE dependencies'[n] = Pending(n) \ {node}
    <3>1. CASE n \in dependents[node]
      BY <1>2, <2>1, <3>1
    <3>2. CASE n \notin dependents[node]
      <4>1. node \notin Pending(n)
        BY <1>7, <1>11, <3>2
      <4> QED
        BY <1>2, <2>1, <3>2, <4>1
    <3> QED
      BY <3>1, <3>2
  <2> QED
    BY <1>9, <2>2
<1>13. ready' = {n \in Nands \ Elements(ordered') : Pending(n)' = {}}
  <2>1. \A n \in dependents[node] : n \in Nands /\ dependencies[n] = Pending(n)
    BY <1>1, <1>11 DEF SortOK
  <2>2. ASSUME NEW n \in ready'
        PROVE  n \in Nands /\ n \notin Elements(ordered') /\ Pending(n)' = {}
    <3>1. CASE n \in ready \ {node}
      BY <1>5, <1>8, <1>9, <3>1
    <3>2. CASE n \in dependents[node] /\ dependencies[n] \ {node} = {}
      <4>1. n \in Nands /\ node \in NandsRead(n)
        BY <1>11, <3>2
      <4>2. n \notin E
        BY <1>6, <1>10, <4>1
      <4>3. n # node
        BY <1>6, <1>7, <4>1
      <4> QED
        BY <1>8, <1>9, <2>1, <3>2, <4>1, <4>2, <4>3
    <3> QED
      BY <1>2, <3>1, <3>2
  <2>3. ASSUME NEW n \in Nands, n \notin Elements(ordered'), Pending(n)' = {}
        PROVE  n \in ready'
    <3>1. n \notin E /\ n # node
      BY <1>8, <2>3
    <3>2. CASE Pending(n) = {}
      BY <1>2, <1>5, <3>1, <3>2
    <3>3. CASE Pending(n) # {}
      <4>1. Pending(n) = {node}
        BY <1>9, <2>3, <3>3
      <4>2. n \in dependents[node]
        BY <1>7, <1>11, <4>1
      <4>3. dependencies[n] \ {node} = {}
        BY <2>1, <4>1, <4>2
      <4> QED
        BY <1>2, <4>2, <4>3
    <3> QED
      BY <3>2, <3>3
  <2> QED
    BY <2>2, <2>3
<1>14. Greedy(ordered)'
  <2> DEFINE n == Len(ordered)
  <2>1. /\ n \in Nat /\ Len(ordered') = n + 1
        /\ \A i \in 1 .. n : ordered'[i] = ordered[i] /\ Before(ordered', i) = Before(ordered, i)
        /\ ordered'[n + 1] = node /\ Before(ordered', n + 1) = E
    BY <1>2, <1>6, <1>8, BeforeAppended DEF E
  <2>2. Greedy(ordered)
    BY <1>1 DEF SortOK
  <2> HIDE DEF n
  <2>3. ASSUME NEW i \in 1 .. n + 1
        PROVE  /\ NandsRead(ordered'[i]) \subseteq Before(ordered', i)
               /\ \A m \in Nands \ Before(ordered', i) :
                    NandsRead(m) \subseteq Before(ordered', i) => ordered'[i] <= m
    <3>1. CASE i \in 1 .. n
      <4>1. ordered'[i] = ordered[i] /\ Before(ordered', i) = Before(ordered, i)
        BY <2>1, <3>1
      <4>2. i \in 1 .. Len(ordered)
        BY <3>1 DEF n
      <4> QED
        BY <2>2, <4>1, <4>2 DEF Greedy
    <3>2. CASE i = n + 1
      <4>1. NandsRead(node) \subseteq E
        BY <1>6, <1>7
      <4>2. ASSUME NEW m \in Nands \ E, NandsRead(m) \subseteq E PROVE node <= m
        <5>1. m \in ready
          BY <1>5, <1>7, <4>2
        <5> QED
          BY <1>6, <5>1
      <4>3. ordered'[i] = node /\ Before(ordered', i) = E
        BY <2>1, <3>2
      <4> QED
        BY <4>1, <4>2, <4>3
    <3> QED
      BY <2>1, <3>1, <3>2
  <2>4. Len(ordered') = n + 1 /\ nodes' = nodes /\ drivers' = drivers
    BY <1>2, <2>1
  <2> QED
    BY <2>3, <2>4 DEF Greedy, Before, NandsRead, Sources, Nands, node_ids
<1>15. ordered' \in Seq(Nands) /\ \A i, j \in 1 .. Len(ordered') : ordered'[i] = ordered'[j] => i = j
  <2> DEFINE n == Len(ordered)
  <2>1. /\ n \in Nat /\ Len(ordered') = n + 1 /\ ordered' \in Seq(Nands)
        /\ \A i \in 1 .. n : ordered'[i] = ordered[i]
        /\ ordered'[n + 1] = node
    BY <1>2, <1>6, <1>8, BeforeAppended
  <2>2. \A i \in 1 .. n : ordered[i] # node
    BY <1>6, <1>8 DEF E, Elements
  <2>3. \A i, j \in 1 .. n : ordered[i] = ordered[j] => i = j
    BY <1>1 DEF SortOK
  <2> HIDE DEF n
  <2>4. ASSUME NEW i \in 1 .. n + 1, NEW j \in 1 .. n + 1, ordered'[i] = ordered'[j]
        PROVE  i = j
    <3>1. (i \in 1 .. n \/ i = n + 1) /\ (j \in 1 .. n \/ j = n + 1)
      BY <2>1
    <3> QED
      BY <2>1, <2>2, <2>3, <2>4, <3>1
  <2> QED
    BY <2>1, <2>4
<1>16. /\ DOMAIN dependencies' = Nands /\ DOMAIN dependents' = Nands
       /\ \A n \in Nands : dependents'[n] = {m \in Nands : n \in Sources(m)}
  BY <1>1, <1>2 DEF SortOK
<1>17. SortOK'
  BY <1>3, <1>12, <1>13, <1>14, <1>15, <1>16 DEF SortOK
<1>18. TypeOK'
  <2>1. ready' \subseteq Nands
    BY <1>13
  <2>2. Elements(ordered') \subseteq Nands
    BY <1>6, <1>8, <1>10
  <2> QED
    BY <1>2, <1>16, <2>1, <2>2 DEF IInv, TypeOK
<1>19. RefusesExactly'
  BY <1>1, <1>2 DEF RefusesExactly, IInv
<1> QED
  BY <1>1, <1>2, <1>3, <1>17, <1>18, <1>19 DEF IInv

(* A sort that is as long as there are NANDs has them all, and one that has *)
(* them all is as long.                                                     *)
LEMMA OrderedAll ==
  ASSUME graph \in Graph, NodesOK, SortOK
  PROVE  /\ Elements(ordered) = Nands <=> Len(ordered) = Cardinality(Nands)
         /\ Elements(ordered) = Nands => Lists(ordered, Nands)
<1> DEFINE D == 1 .. Len(ordered)
<1>1. /\ ordered \in Seq(Nands) /\ Len(ordered) \in Nat /\ DOMAIN ordered = D
      /\ \A i, j \in D : ordered[i] = ordered[j] => i = j
  BY DEF SortOK
<1>2. IsFiniteSet(D) /\ Cardinality(D) = Len(ordered)
  BY <1>1, FS_Interval
<1>3. IsFiniteSet(Nands)
  BY NodesByKind DEF Nands
<1> HIDE DEF D
<1>4. ordered \in [D -> Nands]
  BY <1>1 DEF D
<1>5. ordered \in Injection(D, Nands)
  BY <1>1, <1>4 DEF Injection, IsInjective
<1>6. Cardinality(D) = Cardinality(Nands) <=> ordered \in Surjection(D, Nands)
  BY <1>3, <1>5, FS_Injection
<1>7. ordered \in Surjection(D, Nands) <=> Elements(ordered) = Nands
  BY <1>1, <1>4 DEF Surjection, Elements
<1>8. ASSUME Elements(ordered) = Nands PROVE Lists(ordered, Nands)
  BY <1>1, <1>8 DEF Lists, D, Elements
<1> QED
  BY <1>2, <1>6, <1>7, <1>8

(* What a NAND reads in the graph is what the maps say.                     *)
LEMMA ReadsByMap ==
  ASSUME graph \in Graph, NodesOK, DriversOK
  PROVE  Nands = OfKind(graph, "NAND") /\ \A n : Reads(graph, n) = NandsRead(n)
<1>1. Nands = OfKind(graph, "NAND")
  BY NodesByKind DEF Nands
<1>2. ASSUME NEW n, NEW m PROVE (\E p \in {"a", "b"} : Drives(graph, m, n, p)) <=> m \in Sources(n)
  BY DriversByPort DEF Sources
<1> QED
  BY <1>1, <1>2 DEF Reads, NandsRead

(* When nothing is ready although NANDs are left, each of those reads       *)
(* another of them.                                                         *)
LEMMA LoopLeft ==
  ASSUME graph \in Graph, NodesOK, DriversOK, SortOK, ready = {}, Elements(ordered) # Nands
  PROVE  ~Acyclic(graph)
<1> DEFINE S == Nands \ Elements(ordered)
<1>1. Elements(ordered) \subseteq Nands
  BY OrderedReads
<1>2. S # {} /\ S \subseteq OfKind(graph, "NAND")
  BY <1>1, ReadsByMap
<1>3. ASSUME NEW n \in S PROVE Reads(graph, n) \cap S # {}
  <2>1. Pending(n) # {}
    BY DEF SortOK
  <2>2. Pending(n) \subseteq NandsRead(n) /\ Pending(n) \subseteq S
    BY DEF Pending, NandsRead, Nands
  <2> QED
    BY <2>1, <2>2, ReadsByMap
<1> HIDE DEF S
<1> QED
  BY <1>2, <1>3 DEF Acyclic

(* A sort that has them all shows that there is no loop: of every set of    *)
(* NANDs the one that comes first reads none of the set.                    *)
LEMMA NoLoopLeft ==
  ASSUME graph \in Graph, NodesOK, DriversOK, SortOK, Elements(ordered) = Nands
  PROVE  Acyclic(graph)
<1> SUFFICES ASSUME NEW S \in SUBSET OfKind(graph, "NAND"), S # {}
             PROVE  \E n \in S : Reads(graph, n) \cap S = {}
  BY DEF Acyclic
<1> DEFINE P == {i \in 1 .. Len(ordered) : ordered[i] \in S}
<1>1. S \subseteq Nands /\ Len(ordered) \in Nat /\ Greedy(ordered)
  BY ReadsByMap DEF SortOK
<1>2. \A n \in Nands : \E i \in 1 .. Len(ordered) : ordered[i] = n
  BY OrderedAll DEF Lists
<1>3. P # {} /\ P \in SUBSET Nat
  BY <1>1, <1>2
<1>4. PICK i \in P : \A j \in P : i <= j
  BY <1>3, LeastExists
<1>5. Reads(graph, ordered[i]) \subseteq Before(ordered, i)
  BY <1>1, ReadsByMap DEF Greedy
<1>6. ASSUME NEW j \in 1 .. i - 1 PROVE ordered[j] \notin S
  <2>1. j \in 1 .. Len(ordered) /\ ~(i <= j)
    BY <1>1
  <2> QED
    BY <1>4, <2>1
<1>7. Before(ordered, i) \cap S = {}
  BY <1>6 DEF Before
<1> QED
  BY <1>5, <1>7

(* The sizes, of the graph and of the maps that were read from it.          *)
LEMMA SizesOfGraph ==
  ASSUME graph \in Graph, NodesOK
  PROVE  /\ \A kind : Cardinality(node_ids(kind)) \in Nat
         /\ GraphSignals \in Nat
         /\ Fits(graph)
              <=> /\ GraphSignals - 1 <= MAX_U24
                  /\ Cardinality(node_ids("OUTPUT")) <= MAX_U32
                  /\ BodySize <= MAX_U32
                  /\ HEADER_LEN + 3 * Cardinality(node_ids("OUTPUT")) + BodySize <= USIZE_MAX
<1>1. \A kind : node_ids(kind) = OfKind(graph, kind) /\ IsFiniteSet(node_ids(kind))
  BY NodesByKind
<1>2. \A kind : Cardinality(node_ids(kind)) \in Nat
  BY <1>1, FS_CardinalityType
<1>3. GraphSignals \in Nat
  BY <1>2 DEF GraphSignals
<1>4. GraphSignals - 1 = 1 + Cardinality(node_ids("INPUT")) + Cardinality(node_ids("LATCH"))
                           + Cardinality(node_ids("NAND"))
  BY <1>2 DEF GraphSignals
<1> QED
  BY <1>1, <1>2, <1>3, <1>4 DEF Fits, BodySize

LEMMA EndOrderInv == ASSUME IInv, EndOrder PROVE IInv'
<1>1. /\ graph \in Graph /\ pc = "sort" /\ NodesOK /\ DriversOK /\ PortsDriven /\ SortOK
      /\ ready = {}
  BY DEF IInv, TypeOK, EndOrder, SortOver
<1>2. Wired(graph)
  BY <1>1, ReadsAll
<1>3. Len(ordered) = Cardinality(node_ids("NAND")) <=> Elements(ordered) = Nands
  BY <1>1, OrderedAll DEF Nands
<1>4. GraphSignals \in Nat
  BY <1>1, SizesOfGraph
<1>5. CASE Elements(ordered) # Nands
  <2>1. ~Acyclic(graph)
    BY <1>1, <1>5, LoopLeft
  <2>2. Fail("CombinationalCycle")
    BY <1>3, <1>5 DEF EndOrder
  <2>3. "CombinationalCycle" \in Errors
    BY DEF Errors
  <2> QED
    BY <1>2, <2>1, <2>2, <2>3, FailKeeps
<1>6. CASE Elements(ordered) = Nands /\ GraphSignals - 1 > MAX_U24
  <2>1. PICK e \in {"CountOverflow", "SignalSpaceExhausted"} : Fail(e)
    BY <1>3, <1>6 DEF EndOrder
  <2>2. e \in Errors /\ e # "CombinationalCycle"
    BY DEF Errors
  <2>3. ~(GraphSignals - 1 <= MAX_U24)
    BY <1>4, <1>6, LimitsAssumption
  <2>4. ~Fits(graph)
    BY <1>1, <2>3, SizesOfGraph
  <2> QED
    BY <2>1, <2>2, <2>4, FailKeeps
<1>7. CASE Elements(ordered) = Nands /\ ~(GraphSignals - 1 > MAX_U24)
  <2>1. ~(GraphSignals > MAX_U32) /\ GraphSignals - 1 <= MAX_U24
    BY <1>4, <1>7, LimitsAssumption
  <2>2. /\ pc' = "number"
        /\ UNCHANGED <<graph, nodes, drivers, dependencies, dependents, ready, ordered, circuit, error>>
    BY <1>3, <1>7, <2>1 DEF EndOrder, Fail, maps, sort
  <2>3. /\ NodesOK' /\ DriversOK' /\ PortsDriven' /\ Nands' = Nands
        /\ \A kind : node_ids(kind)' = node_ids(kind)
        /\ \A n : Sources(n)' = Sources(n) /\ NandsRead(n)' = NandsRead(n)
    BY <1>1, <2>2, MapsKept
  <2>4. SortOK'
    <3>1. \A n : Pending(n)' = Pending(n)
      BY <2>2 DEF Pending, Sources, node_ids
    <3>2. Greedy(ordered)'
      BY <1>1, <2>2 DEF SortOK, Greedy, NandsRead, Nands, Sources, node_ids
    <3> QED
      BY <1>1, <2>2, <2>3, <3>1, <3>2 DEF SortOK
  <2>5. OrderOK'
    <3>1. GraphSignals' = GraphSignals
      BY <2>3 DEF GraphSignals
    <3>2. Elements(ordered)' = Elements(ordered)
      BY <2>2
    <3> QED
      BY <1>7, <2>1, <2>3, <3>1, <3>2 DEF OrderOK
  <2>6. TypeOK' /\ RefusesExactly'
    BY <1>1, <2>2 DEF IInv, TypeOK, RefusesExactly
  <2> QED
    BY <1>1, <2>2, <2>3, <2>4, <2>5, <2>6 DEF IInv
<1> QED
  BY <1>5, <1>6, <1>7

-----------------------------------------------------------------------------
(* The numbering.                                                           *)
Sourced == node_ids("INPUT") \cup node_ids("LATCH") \cup Nands

InputTotal == Cardinality(node_ids("INPUT"))
LatchTotal == Cardinality(node_ids("LATCH"))
NandTotal == Cardinality(Nands)

Joined(s, t) == s \o t

IsList(s) == \E S : s \in Seq(S)

LEMMA ListIsList == ASSUME NEW S, NEW s, Lists(s, S) PROVE IsList(s) /\ s \in Seq(S)
BY DEF Lists, IsList

LEMMA JoinedAt ==
  ASSUME NEW s, IsList(s), NEW t, IsList(t)
  PROVE  /\ Len(s) \in Nat /\ Len(t) \in Nat /\ Len(Joined(s, t)) = Len(s) + Len(t)
         /\ \A i \in 1 .. Len(s) : Joined(s, t)[i] = s[i]
         /\ \A i \in 1 .. Len(t) : Joined(s, t)[Len(s) + i] = t[i]
<1> DEFINE st == s \o t
           m == Len(s)
           n == Len(t)
<1>1. PICK S, T : s \in Seq(S) /\ t \in Seq(T)
  BY DEF IsList
<1>2. s \in Seq(S \cup T) /\ t \in Seq(S \cup T) /\ m \in Nat /\ n \in Nat
  BY <1>1, SeqMonotonic
<1>3. Len(st) = m + n /\ \A i \in 1 .. m + n : st[i] = IF i <= m THEN s[i] ELSE t[i - m]
  BY <1>2, ConcatProperties
<1> HIDE DEF st, m, n
<1>4. \A i \in 1 .. m : st[i] = s[i]
  BY <1>2, <1>3
<1>5. \A i \in 1 .. n : st[m + i] = t[i]
  <2>1. ASSUME NEW i \in 1 .. n PROVE st[m + i] = t[i]
    <3>1. m + i \in 1 .. m + n /\ ~(m + i <= m) /\ (m + i) - m = i
      BY <1>2
    <3> QED
      BY <1>3, <3>1
  <2> QED
    BY <2>1
<1> QED
  BY <1>2, <1>3, <1>4, <1>5 DEF st, m, n, Joined

LEMMA ListsJoined ==
  ASSUME NEW S, NEW T, \A x \in S : x \notin T, NEW s, Lists(s, S), NEW t, Lists(t, T)
  PROVE  Lists(Joined(s, t), S \cup T)
<1> DEFINE st == Joined(s, t)
           m == Len(s)
           n == Len(t)
<1>1. /\ m \in Nat /\ n \in Nat /\ Len(st) = m + n
      /\ \A i \in 1 .. m : st[i] = s[i]
      /\ \A i \in 1 .. n : st[m + i] = t[i]
  BY ListIsList, JoinedAt
<1>7. st \in Seq(S \cup T)
  <2>1. s \in Seq(S \cup T) /\ t \in Seq(S \cup T)
    BY ListIsList, SeqMonotonic
  <2> QED
    BY <2>1, ConcatProperties DEF Joined
<1>2. /\ \A i \in 1 .. m : s[i] \in S
      /\ \A i, j \in 1 .. m : s[i] = s[j] => i = j
      /\ \A x \in S : \E i \in 1 .. m : s[i] = x
  BY ElementOfSeq DEF Lists
<1>3. /\ \A i \in 1 .. n : t[i] \in T
      /\ \A i, j \in 1 .. n : t[i] = t[j] => i = j
      /\ \A x \in T : \E i \in 1 .. n : t[i] = x
  BY ElementOfSeq DEF Lists
<1> HIDE DEF st, m, n
<1>4. ASSUME NEW i \in 1 .. m + n
      PROVE  \/ i \in 1 .. m /\ st[i] = s[i] /\ st[i] \in S
             \/ i - m \in 1 .. n /\ st[i] = t[i - m] /\ st[i] \in T
  <2>1. CASE i \in 1 .. m
    BY <1>1, <1>2, <2>1
  <2>2. CASE i \notin 1 .. m
    <3>1. i - m \in 1 .. n /\ m + (i - m) = i
      BY <1>1, <2>2
    <3> QED
      BY <1>1, <1>3, <3>1
  <2> QED
    BY <2>1, <2>2
<1>5. ASSUME NEW i \in 1 .. m + n, NEW j \in 1 .. m + n, st[i] = st[j] PROVE i = j
  <2>1. CASE st[i] \in S
    <3>1. st[i] \notin T
      BY <2>1
    <3>2. i \in 1 .. m /\ j \in 1 .. m /\ s[i] = s[j]
      BY <1>4, <1>5, <3>1
    <3> QED
      BY <1>2, <3>2
  <2>2. CASE st[i] \notin S
    <3>1. i - m \in 1 .. n /\ j - m \in 1 .. n /\ t[i - m] = t[j - m]
      BY <1>4, <1>5, <2>2
    <3>2. i - m = j - m
      BY <1>3, <3>1
    <3> QED
      BY <1>1, <3>2
  <2> QED
    BY <2>1, <2>2
<1>6. ASSUME NEW x \in S \cup T PROVE \E i \in 1 .. m + n : st[i] = x
  <2>1. \A i \in 1 .. m : i \in 1 .. m + n
    BY <1>1
  <2>2. \A i \in 1 .. n : m + i \in 1 .. m + n
    BY <1>1
  <2> QED
    BY <1>1, <1>2, <1>3, <2>1, <2>2
<1> QED
  BY <1>1, <1>5, <1>6, <1>7 DEF Lists, st

(* The place of an element in a list is the one the code looks up.          *)
LEMMA PlaceInList ==
  ASSUME NEW S, NEW s, Lists(s, S), NEW i \in 1 .. Len(s)
  PROVE  DOMAIN s = 1 .. Len(s) /\ (CHOOSE j \in DOMAIN s : s[j] = s[i]) = i
<1>1. s \in Seq(S) /\ DOMAIN s = 1 .. Len(s)
  BY DEF Lists
<1> DEFINE c == CHOOSE j \in DOMAIN s : s[j] = s[i]
<1>2. c \in 1 .. Len(s) /\ s[c] = s[i]
  BY <1>1
<1> HIDE DEF c
<1>3. c = i
  BY <1>2 DEF Lists
<1> QED
  BY <1>1, <1>3 DEF c

LEMMA ListElements ==
  ASSUME NEW S, NEW s, Lists(s, S)
  PROVE  Elements(s) = S /\ DOMAIN s = 1 .. Len(s) /\ Len(s) \in Nat
<1>1. s \in Seq(S) /\ DOMAIN s = 1 .. Len(s) /\ Len(s) \in Nat
  BY DEF Lists
<1>2. \A i \in 1 .. Len(s) : s[i] \in S
  BY <1>1, ElementOfSeq
<1> QED
  BY <1>1, <1>2 DEF Lists, Elements

(* By ascending identifier, the nodes of a kind.                            *)
LEMMA KindListed ==
  ASSUME graph \in Graph, NodesOK, NEW kind
  PROVE  /\ Lists(Ascending(node_ids(kind)), node_ids(kind))
         /\ Len(Ascending(node_ids(kind))) = Cardinality(node_ids(kind))
         /\ Cardinality(node_ids(kind)) \in Nat
BY NodesByKind, AscendingLists, FS_CardinalityType

(* When the sort has every NAND: what stands where.                         *)
Sorted ==
  /\ graph \in Graph /\ NodesOK /\ DriversOK /\ PortsDriven /\ SortOK
  /\ Elements(ordered) = Nands

LEMMA NumberedAt ==
  ASSUME Sorted
  PROVE  /\ InputTotal \in Nat /\ LatchTotal \in Nat /\ NandTotal \in Nat
         /\ Lists(Numbered, Sourced)
         /\ Len(Numbered) = InputTotal + LatchTotal + NandTotal
         /\ Len(ordered) = NandTotal
         /\ \A i \in 1 .. InputTotal : Numbered[i] = Ascending(node_ids("INPUT"))[i]
         /\ \A l \in 1 .. LatchTotal :
              Numbered[InputTotal + l] = Ascending(node_ids("LATCH"))[l]
         /\ \A k \in 1 .. NandTotal : Numbered[InputTotal + LatchTotal + k] = ordered[k]
<1> DEFINE A == Ascending(node_ids("INPUT"))
           B == Ascending(node_ids("LATCH"))
<1>1. Lists(A, node_ids("INPUT")) /\ Len(A) = InputTotal /\ InputTotal \in Nat
  BY KindListed DEF Sorted, InputTotal
<1>2. Lists(B, node_ids("LATCH")) /\ Len(B) = LatchTotal /\ LatchTotal \in Nat
  BY KindListed DEF Sorted, LatchTotal
<1>3. Lists(ordered, Nands) /\ Len(ordered) = NandTotal /\ NandTotal \in Nat
  BY OrderedAll, KindListed DEF Sorted, NandTotal, Nands
<1>4. /\ \A x \in node_ids("INPUT") : x \notin node_ids("LATCH")
      /\ \A x \in node_ids("INPUT") \cup node_ids("LATCH") : x \notin Nands
  BY DEF node_ids, Nands
<1>5. Numbered = (A \o B) \o ordered
  BY DEF Numbered
<1> HIDE DEF A, B
<1> DEFINE AB == Joined(A, B)
<1>6. /\ Lists(AB, node_ids("INPUT") \cup node_ids("LATCH"))
      /\ Len(AB) = InputTotal + LatchTotal
      /\ \A i \in 1 .. InputTotal : AB[i] = A[i]
      /\ \A l \in 1 .. LatchTotal : AB[InputTotal + l] = B[l]
  <2>1. Lists(A, node_ids("INPUT")) /\ Lists(B, node_ids("LATCH"))
    BY <1>1, <1>2
  <2>2. Lists(AB, node_ids("INPUT") \cup node_ids("LATCH"))
    BY <1>4, <2>1, ListsJoined
  <2>3. /\ Len(AB) = Len(A) + Len(B)
        /\ \A i \in 1 .. Len(A) : AB[i] = A[i]
        /\ \A l \in 1 .. Len(B) : AB[Len(A) + l] = B[l]
    BY <2>1, ListIsList, JoinedAt
  <2> HIDE DEF AB
  <2> QED
    BY <1>1, <1>2, <2>2, <2>3
<1> HIDE DEF AB
<1>7. /\ Lists(Joined(AB, ordered), Sourced)
      /\ Len(Joined(AB, ordered)) = InputTotal + LatchTotal + NandTotal
      /\ \A i \in 1 .. InputTotal + LatchTotal : Joined(AB, ordered)[i] = AB[i]
      /\ \A k \in 1 .. NandTotal : Joined(AB, ordered)[InputTotal + LatchTotal + k] = ordered[k]
  <2> DEFINE ABC == Joined(AB, ordered)
             S == node_ids("INPUT") \cup node_ids("LATCH")
  <2>1. Lists(AB, S) /\ Lists(ordered, Nands) /\ \A x \in S : x \notin Nands
    BY <1>3, <1>4, <1>6
  <2> HIDE DEF S
  <2>2. Lists(ABC, S \cup Nands)
    BY <2>1, ListsJoined
  <2>9. /\ Len(ABC) = Len(AB) + Len(ordered)
        /\ \A i \in 1 .. Len(AB) : ABC[i] = AB[i]
        /\ \A k \in 1 .. Len(ordered) : ABC[Len(AB) + k] = ordered[k]
    BY <2>1, ListIsList, JoinedAt
  <2> HIDE DEF ABC
  <2>3. S \cup Nands = Sourced
    BY DEF S, Sourced
  <2>4. Lists(ABC, Sourced)
    BY <2>2, <2>3
  <2>5. Len(AB) = InputTotal + LatchTotal /\ Len(ordered) = NandTotal
    BY <1>3, <1>6
  <2>6. /\ Len(ABC) = InputTotal + LatchTotal + NandTotal
        /\ \A i \in 1 .. InputTotal + LatchTotal : ABC[i] = AB[i]
        /\ \A k \in 1 .. NandTotal : ABC[InputTotal + LatchTotal + k] = ordered[k]
    BY <2>5, <2>9
  <2> QED
    BY <2>4, <2>6 DEF ABC
<1>8. Numbered = Joined(AB, ordered)
  BY <1>5 DEF AB, Joined
<1>9. /\ \A i \in 1 .. InputTotal : i \in 1 .. InputTotal + LatchTotal
      /\ \A l \in 1 .. LatchTotal : InputTotal + l \in 1 .. InputTotal + LatchTotal
  BY <1>1, <1>2
<1> QED
  BY <1>1, <1>2, <1>3, <1>6, <1>7, <1>8, <1>9 DEF A, B

LEMMA SignalAt ==
  ASSUME Sorted
  PROVE  /\ DOMAIN NewSignals = Sourced
         /\ \A i \in 1 .. Len(Numbered) : Numbered[i] \in Sourced /\ NewSignals[Numbered[i]] = 1 + i
<1>1. Lists(Numbered, Sourced)
  BY NumberedAt
<1>2. Elements(Numbered) = Sourced /\ DOMAIN Numbered = 1 .. Len(Numbered)
  BY <1>1, ListElements
<1>3. NewSignals = [id \in Sourced |-> 1 + CHOOSE i \in DOMAIN Numbered : Numbered[i] = id]
  BY <1>2 DEF NewSignals
<1>4. ASSUME NEW i \in 1 .. Len(Numbered)
      PROVE  Numbered[i] \in Sourced /\ NewSignals[Numbered[i]] = 1 + i
  <2>1. Numbered[i] \in Sourced
    BY <1>2 DEF Elements
  <2>2. (CHOOSE j \in DOMAIN Numbered : Numbered[j] = Numbered[i]) = i
    BY <1>1, PlaceInList
  <2> QED
    BY <1>3, <2>1, <2>2
<1> QED
  BY <1>3, <1>4

(* Every source has a signal, and the source of a NAND one that is lower    *)
(* than the NAND's own.                                                     *)
LEMMA SourceNumbered ==
  ASSUME Sorted, NEW t \in DOMAIN drivers
  PROVE  drivers[t] \in Sourced /\ \E i \in 1 .. Len(Numbered) : Numbered[i] = drivers[t]
<1>1. drivers[t] \in DOMAIN nodes /\ output_port(nodes[drivers[t]]) # "none"
  BY DriversByPort DEF Sorted
<1>2. nodes[drivers[t]] \in Kinds
  BY <1>1, NodesByKind DEF Sorted
<1>3. drivers[t] \in Sourced
  BY <1>1, <1>2 DEF output_port, Kinds, Sourced, node_ids, Nands
<1> QED
  BY <1>3, NumberedAt DEF Lists

LEMMA PortHasSource ==
  ASSUME Sorted, NEW id, NEW p,
         \/ id \in Nands /\ p \in {"a", "b"}
         \/ id \in node_ids("LATCH") /\ p = "d"
         \/ id \in node_ids("OUTPUT") /\ p = "in"
  PROVE  <<id, p>> \in DOMAIN drivers
<1>1. id \in DOMAIN nodes /\ p \in input_ports(nodes[id])
  BY DEF Nands, node_ids, input_ports
<1> QED
  BY <1>1 DEF Sorted, PortsDriven

LEMMA SourceSignalRange ==
  ASSUME Sorted, NEW id, NEW p, <<id, p>> \in DOMAIN drivers
  PROVE  source_signal(id, p) \in 2 .. 1 + InputTotal + LatchTotal + NandTotal
<1>1. PICK i \in 1 .. Len(Numbered) : Numbered[i] = drivers[<<id, p>>]
  BY SourceNumbered
<1>2. source_signal(id, p) = 1 + i
  BY <1>1, SignalAt DEF source_signal
<1>3. /\ Len(Numbered) = InputTotal + LatchTotal + NandTotal
      /\ InputTotal \in Nat /\ LatchTotal \in Nat /\ NandTotal \in Nat
  BY NumberedAt
<1> QED
  BY <1>2, <1>3

LEMMA PortSignal ==
  ASSUME Sorted, NEW id, NEW p,
         \/ id \in Nands /\ p \in {"a", "b"}
         \/ id \in node_ids("LATCH") /\ p = "d"
         \/ id \in node_ids("OUTPUT") /\ p = "in"
  PROVE  /\ source_signal(id, p) \in Nat
         /\ source_signal(id, p) < 2 + InputTotal + (LatchTotal + NandTotal)
<1>1. source_signal(id, p) \in 2 .. 1 + InputTotal + LatchTotal + NandTotal
  <2>1. <<id, p>> \in DOMAIN drivers
    BY PortHasSource
  <2> QED
    BY <2>1, SourceSignalRange
<1>2. /\ InputTotal \in Nat /\ LatchTotal \in Nat /\ NandTotal \in Nat
  BY NumberedAt
<1> QED
  BY <1>1, <1>2

LEMMA NandSourceLower ==
  ASSUME Sorted, NEW k \in 1 .. NandTotal, NEW p \in {"a", "b"}
  PROVE  source_signal(ordered[k], p) \in 2 .. InputTotal + LatchTotal + k
<1> DEFINE n == ordered[k]
           s == drivers[<<n, p>>]
<1>1. /\ InputTotal \in Nat /\ LatchTotal \in Nat /\ NandTotal \in Nat
      /\ Len(ordered) = NandTotal /\ Len(Numbered) = InputTotal + LatchTotal + NandTotal
  BY NumberedAt
<1>2. n \in Nands
  BY <1>1, ElementOfSeq DEF Sorted, SortOK
<1> HIDE DEF n
<1>3. <<n, p>> \in DOMAIN drivers
  BY <1>2, PortHasSource
<1>4. s \in Sourced /\ s \in Sources(n)
  BY <1>3, SourceNumbered DEF Sources
<1>5. source_signal(n, p) = NewSignals[s]
  BY DEF source_signal
<1> HIDE DEF s
<1>6. CASE s \in node_ids("INPUT")
  <2>1. PICK i \in 1 .. InputTotal : Ascending(node_ids("INPUT"))[i] = s
    BY <1>6, KindListed DEF Sorted, Lists, InputTotal
  <2>2. Numbered[i] = s /\ i \in 1 .. Len(Numbered)
    BY <1>1, <2>1, NumberedAt
  <2>3. NewSignals[s] = 1 + i
    BY <2>2, SignalAt
  <2> QED
    BY <1>1, <1>5, <2>3 DEF n
<1>7. CASE s \in node_ids("LATCH")
  <2>1. PICK l \in 1 .. LatchTotal : Ascending(node_ids("LATCH"))[l] = s
    BY <1>7, KindListed DEF Sorted, Lists, LatchTotal
  <2>2. Numbered[InputTotal + l] = s /\ InputTotal + l \in 1 .. Len(Numbered)
    BY <1>1, <2>1, NumberedAt
  <2>3. NewSignals[s] = 1 + (InputTotal + l)
    BY <2>2, SignalAt
  <2> QED
    BY <1>1, <1>5, <2>3 DEF n
<1>8. CASE s \in Nands
  <2>1. s \in Before(ordered, k)
    <3>1. s \in NandsRead(n)
      BY <1>4, <1>8 DEF NandsRead
    <3> QED
      BY <1>1, <3>1 DEF Sorted, SortOK, Greedy, n
  <2>2. PICK j \in 1 .. k - 1 : s = ordered[j]
    BY <2>1 DEF Before
  <2>3. j \in 1 .. NandTotal /\ InputTotal + LatchTotal + j \in 1 .. Len(Numbered)
    BY <1>1
  <2>4. Numbered[InputTotal + LatchTotal + j] = s
    BY <2>2, <2>3, NumberedAt
  <2>5. NewSignals[s] = 1 + (InputTotal + LatchTotal + j)
    BY <2>3, <2>4, SignalAt
  <2> QED
    BY <1>1, <1>5, <2>5 DEF n
<1> QED
  BY <1>4, <1>6, <1>7, <1>8 DEF Sourced

-----------------------------------------------------------------------------
(* The circuit, field by field.                                             *)
OutputList == Ascending(node_ids("OUTPUT"))
LatchList == Ascending(node_ids("LATCH"))

LatchRecords == [l \in DOMAIN LatchList |-> Latch(source_signal(LatchList[l], "d"))]
NandRecords ==
  [k \in DOMAIN ordered |-> Nand(source_signal(ordered[k], "a"), source_signal(ordered[k], "b"))]

LEMMA CircuitFields ==
  /\ NewCircuit.input_count = InputTotal
  /\ NewCircuit.latch_count = Len(LatchList)
  /\ NewCircuit.outputs = [k \in DOMAIN OutputList |-> source_signal(OutputList[k], "in")]
  /\ NewCircuit.gates = Joined(LatchRecords, NandRecords)
  /\ NewCircuit = [input_count |-> NewCircuit.input_count, latch_count |-> NewCircuit.latch_count,
                   outputs |-> NewCircuit.outputs, gates |-> NewCircuit.gates]
BY DEF NewCircuit, InputTotal, LatchList, OutputList, LatchRecords, NandRecords, Joined

LEMMA RecordsAreGates ==
  ASSUME Sorted
  PROVE  /\ LatchRecords \in Seq(Gate) /\ Len(LatchRecords) = LatchTotal
         /\ \A l \in 1 .. LatchTotal : LatchRecords[l] = Latch(source_signal(LatchList[l], "d"))
         /\ NandRecords \in Seq(Gate) /\ Len(NandRecords) = NandTotal
         /\ \A k \in 1 .. NandTotal :
              NandRecords[k] = Nand(source_signal(ordered[k], "a"), source_signal(ordered[k], "b"))
<1>1. /\ LatchTotal \in Nat /\ Lists(LatchList, node_ids("LATCH")) /\ Len(LatchList) = LatchTotal
      /\ DOMAIN LatchList = 1 .. LatchTotal
  BY KindListed, ListElements DEF Sorted, LatchList, LatchTotal
<1>2. /\ NandTotal \in Nat /\ Len(ordered) = NandTotal /\ DOMAIN ordered = 1 .. NandTotal
      /\ ordered \in Seq(Nands)
  BY NumberedAt DEF Sorted, SortOK
<1>3. /\ InputTotal \in Nat /\ LatchTotal \in Nat /\ NandTotal \in Nat
  BY NumberedAt
<1>4. ASSUME NEW l \in 1 .. LatchTotal
      PROVE  Latch(source_signal(LatchList[l], "d")) \in Gate
  <2>1. LatchList[l] \in node_ids("LATCH")
    BY <1>1, ListIsList, ElementOfSeq
  <2>2. source_signal(LatchList[l], "d") \in Nat
    BY <2>1, PortSignal
  <2> QED
    BY <2>2 DEF Latch, Gate
<1>5. ASSUME NEW k \in 1 .. NandTotal
      PROVE  Nand(source_signal(ordered[k], "a"), source_signal(ordered[k], "b")) \in Gate
  <2>1. ordered[k] \in Nands
    BY <1>2, ElementOfSeq
  <2>2. source_signal(ordered[k], "a") \in Nat /\ source_signal(ordered[k], "b") \in Nat
    BY <2>1, PortSignal
  <2> QED
    BY <2>2 DEF Nand, Gate
<1>6. /\ LatchRecords \in [1 .. LatchTotal -> Gate]
      /\ NandRecords \in [1 .. NandTotal -> Gate]
  BY <1>1, <1>2, <1>4, <1>5 DEF LatchRecords, NandRecords
<1>7. /\ LatchRecords \in Seq(Gate) /\ Len(LatchRecords) = LatchTotal
      /\ NandRecords \in Seq(Gate) /\ Len(NandRecords) = NandTotal
  BY <1>3, <1>6
<1> QED
  BY <1>1, <1>2, <1>7 DEF LatchRecords, NandRecords

LEMMA CircuitAt ==
  ASSUME Sorted
  PROVE  /\ NewCircuit \in Circuit
         /\ NewCircuit.input_count = InputTotal /\ NewCircuit.latch_count = LatchTotal
         /\ Len(NewCircuit.gates) = LatchTotal + NandTotal
         /\ \A l \in 1 .. LatchTotal :
              NewCircuit.gates[l] = Latch(source_signal(LatchList[l], "d"))
         /\ \A k \in 1 .. NandTotal :
              NewCircuit.gates[LatchTotal + k]
                = Nand(source_signal(ordered[k], "a"), source_signal(ordered[k], "b"))
         /\ Len(NewCircuit.outputs) = Len(OutputList)
         /\ \A k \in 1 .. Len(OutputList) :
              /\ OutputList[k] \in node_ids("OUTPUT")
              /\ NewCircuit.outputs[k] = source_signal(OutputList[k], "in")
<1>1. /\ InputTotal \in Nat /\ LatchTotal \in Nat /\ NandTotal \in Nat
  BY NumberedAt
<1>2. /\ Lists(OutputList, node_ids("OUTPUT")) /\ Len(OutputList) \in Nat
      /\ DOMAIN OutputList = 1 .. Len(OutputList)
      /\ Len(LatchList) = LatchTotal
  BY KindListed, ListElements DEF Sorted, OutputList, LatchList, LatchTotal
<1>3. \A k \in 1 .. Len(OutputList) : OutputList[k] \in node_ids("OUTPUT")
  BY <1>2, ListIsList, ElementOfSeq
<1>4. /\ Len(Joined(LatchRecords, NandRecords)) = LatchTotal + NandTotal
      /\ \A l \in 1 .. LatchTotal : Joined(LatchRecords, NandRecords)[l] = LatchRecords[l]
      /\ \A k \in 1 .. NandTotal :
           Joined(LatchRecords, NandRecords)[LatchTotal + k] = NandRecords[k]
  <2>1. IsList(LatchRecords) /\ IsList(NandRecords)
    BY RecordsAreGates DEF IsList
  <2>2. Len(LatchRecords) = LatchTotal /\ Len(NandRecords) = NandTotal
    BY RecordsAreGates
  <2> DEFINE all == Joined(LatchRecords, NandRecords)
  <2>3. /\ Len(all) = Len(LatchRecords) + Len(NandRecords)
        /\ \A l \in 1 .. Len(LatchRecords) : all[l] = LatchRecords[l]
        /\ \A k \in 1 .. Len(NandRecords) : all[Len(LatchRecords) + k] = NandRecords[k]
    BY <2>1, JoinedAt
  <2> HIDE DEF all
  <2>4. /\ Len(all) = LatchTotal + NandTotal
        /\ \A l \in 1 .. LatchTotal : all[l] = LatchRecords[l]
        /\ \A k \in 1 .. NandTotal : all[LatchTotal + k] = NandRecords[k]
    BY <2>2, <2>3
  <2> QED
    BY <2>4 DEF all
<1>5. Joined(LatchRecords, NandRecords) \in Seq(Gate)
  BY RecordsAreGates, ConcatProperties DEF Joined
<1>6. NewCircuit.outputs \in [1 .. Len(OutputList) -> Nat]
  <2>1. ASSUME NEW k \in 1 .. Len(OutputList) PROVE source_signal(OutputList[k], "in") \in Nat
    BY <1>3, PortSignal
  <2> QED
    BY <1>2, <2>1, CircuitFields
<1>7. NewCircuit.outputs \in Seq(Nat) /\ Len(NewCircuit.outputs) = Len(OutputList)
  BY <1>2, <1>6
<1>8. \A k \in 1 .. Len(OutputList) : NewCircuit.outputs[k] = source_signal(OutputList[k], "in")
  BY <1>2, CircuitFields
<1>9. NewCircuit.gates = Joined(LatchRecords, NandRecords)
  BY CircuitFields
<1>10. NewCircuit.input_count = InputTotal /\ NewCircuit.latch_count = LatchTotal
  BY <1>2, CircuitFields
<1>11. NewCircuit \in Circuit
  BY <1>1, <1>5, <1>7, <1>9, <1>10, CircuitFields DEF Circuit
<1> QED
  BY <1>3, <1>4, <1>7, <1>8, <1>9, <1>10, <1>11, RecordsAreGates

(* The netlist breaks no rule about references.                             *)
LEMMA CircuitValid ==
  ASSUME Sorted
  PROVE  Valid(NewCircuit)
<1> DEFINE c == NewCircuit
<1>1. /\ InputTotal \in Nat /\ LatchTotal \in Nat /\ NandTotal \in Nat
      /\ Len(ordered) = NandTotal /\ Len(LatchList) = LatchTotal
  BY NumberedAt, KindListed DEF Sorted, LatchList, LatchTotal
<1>2. /\ c \in Circuit /\ c.input_count = InputTotal /\ c.latch_count = LatchTotal
      /\ Len(c.gates) = LatchTotal + NandTotal /\ Len(c.outputs) = Len(OutputList)
  BY CircuitAt
<1>3. signal_count(c) = 2 + InputTotal + (LatchTotal + NandTotal)
  BY <1>2 DEF signal_count
<1>4. ValidOutputs(c)
  <2> SUFFICES ASSUME NEW k \in 1 .. Len(OutputList) PROVE c.outputs[k] < signal_count(c)
    BY <1>2 DEF ValidOutputs
  <2>1. OutputList[k] \in node_ids("OUTPUT") /\ c.outputs[k] = source_signal(OutputList[k], "in")
    BY CircuitAt
  <2>2. source_signal(OutputList[k], "in") < 2 + InputTotal + (LatchTotal + NandTotal)
    BY <2>1, PortSignal
  <2> QED
    BY <1>3, <2>1, <2>2
<1>5. ASSUME NEW i \in 0 .. LatchTotal + NandTotal - 1 PROVE ValidGate(c, i)
  <2>1. CASE i < LatchTotal
    <3>1. i + 1 \in 1 .. LatchTotal
      BY <1>1, <2>1
    <3>2. c.gates[i + 1] = Latch(source_signal(LatchList[i + 1], "d"))
      BY <3>1, CircuitAt
    <3>3. LatchList[i + 1] \in node_ids("LATCH")
      <4>1. LatchList \in Seq(node_ids("LATCH"))
        BY KindListed, ListIsList DEF Sorted, LatchList
      <4> QED
        BY <1>1, <3>1, <4>1, ElementOfSeq
    <3>4. source_signal(LatchList[i + 1], "d") < 2 + InputTotal + (LatchTotal + NandTotal)
      BY <3>3, PortSignal
    <3>5. c.gates[i + 1].op = "latch" /\ c.gates[i + 1].d = source_signal(LatchList[i + 1], "d")
      BY <3>2 DEF Latch
    <3>6. c.gates[i + 1].d < signal_count(c)
      BY <1>3, <3>4, <3>5
    <3> HIDE DEF c
    <3> QED
      BY <1>2, <2>1, <3>5, <3>6 DEF ValidGate
  <2>2. CASE ~(i < LatchTotal)
    <3> DEFINE k == (i + 1) - LatchTotal
    <3>1. k \in 1 .. NandTotal /\ LatchTotal + k = i + 1
      BY <1>1, <2>2
    <3> HIDE DEF k
    <3>2. c.gates[i + 1] = Nand(source_signal(ordered[k], "a"), source_signal(ordered[k], "b"))
      BY <3>1, CircuitAt
    <3>3. /\ source_signal(ordered[k], "a") \in 2 .. InputTotal + LatchTotal + k
          /\ source_signal(ordered[k], "b") \in 2 .. InputTotal + LatchTotal + k
      BY <3>1, NandSourceLower
    <3>4. /\ c.gates[i + 1].op = "nand" /\ c.gates[i + 1].a = source_signal(ordered[k], "a")
          /\ c.gates[i + 1].b = source_signal(ordered[k], "b")
      BY <3>2 DEF Nand
    <3>5. InputTotal + LatchTotal + k < GateSignal(c, i)
      BY <1>1, <1>2, <3>1 DEF GateSignal
    <3>6. GateSignal(c, i) \in Nat /\ k \in Nat
      BY <1>1, <1>2, <3>1 DEF GateSignal
    <3>7. c.gates[i + 1].a < GateSignal(c, i) /\ c.gates[i + 1].b < GateSignal(c, i)
      BY <1>1, <3>3, <3>4, <3>5, <3>6
    <3>8. i >= LatchTotal
      BY <1>1, <2>2
    <3> HIDE DEF c
    <3> QED
      BY <1>2, <3>4, <3>7, <3>8 DEF ValidGate
  <2> QED
    BY <2>1, <2>2
<1>6. c.latch_count <= Len(c.gates)
  BY <1>1, <1>2
<1> HIDE DEF c
<1>7. \A i \in 0 .. Len(c.gates) - 1 : ValidGate(c, i)
  BY <1>1, <1>2, <1>5
<1>8. Valid(c)
  BY <1>2, <1>4, <1>6, <1>7 DEF Valid
<1> QED
  BY <1>8 DEF c

(* So encode_netlist finds no gate to refuse, and refuses for the count of  *)
(* outputs or for the lengths if at all.                                    *)
LEMMA NoBadGates ==
  ASSUME Sorted
  PROVE  BadGates(NewCircuit) = {}
<1> DEFINE c == NewCircuit
<1>1. Valid(c) /\ Len(c.gates) \in Nat /\ c.latch_count \in Nat /\ c.input_count \in Nat
  BY CircuitValid, CircuitAt, NumberedAt
<1> HIDE DEF c
<1>2. ASSUME NEW index \in 0 .. Len(c.gates) - 1
      PROVE  GateError(c, index, SawNand(c, index)) = "none"
  <2>1. ValidGate(c, index)
    BY <1>1 DEF Valid
  <2>2. SignalCount(c) = signal_count(c)
    BY DEF SignalCount, signal_count
  <2>3. c.gates[index + 1] \in Gate
    <3>1. c.gates \in Seq(Gate) /\ index + 1 \in 1 .. Len(c.gates)
      BY <1>1 DEF Valid, Circuit
    <3> QED
      BY <3>1, ElementOfSeq
  <2>4. CASE c.gates[index + 1].op = "latch"
    <3>1. index < c.latch_count /\ c.gates[index + 1].d < SignalCount(c)
      BY <2>1, <2>2, <2>4 DEF ValidGate
    <3>2. ASSUME NEW i \in 1 .. index, c.gates[i].op = "nand" PROVE FALSE
      <4>1. i - 1 \in 0 .. Len(c.gates) - 1 /\ i - 1 < c.latch_count /\ (i - 1) + 1 = i
        BY <1>1, <3>1
      <4>2. ValidGate(c, i - 1)
        BY <1>1, <4>1 DEF Valid
      <4>3. i - 1 >= c.latch_count
        BY <3>2, <4>1, <4>2 DEF ValidGate
      <4> QED
        BY <1>1, <4>1, <4>3
    <3>3. ~SawNand(c, index)
      BY <3>2 DEF SawNand
    <3>4. SignalCount(c) \in Nat
      BY <1>1 DEF SignalCount
    <3>5. c.gates[index + 1].d \in Nat
      BY <2>3, <2>4 DEF Gate
    <3>6. ~(c.gates[index + 1].d >= SignalCount(c))
      BY <3>1, <3>4, <3>5
    <3> QED
      BY <2>4, <3>3, <3>6 DEF GateError
  <2>5. CASE c.gates[index + 1].op # "latch"
    <3>1. c.gates[index + 1].op = "nand" /\ c.gates[index + 1].a \in Nat
          /\ c.gates[index + 1].b \in Nat
      BY <2>3, <2>5 DEF Gate
    <3>2. /\ c.gates[index + 1].a < 2 + c.input_count + index
          /\ c.gates[index + 1].b < 2 + c.input_count + index
      BY <2>1, <2>5 DEF ValidGate, GateSignal
    <3>3. 2 + c.input_count + index \in Nat
      BY <1>1
    <3>4. /\ ~(c.gates[index + 1].a >= 2 + c.input_count + index)
          /\ ~(c.gates[index + 1].b >= 2 + c.input_count + index)
      BY <3>1, <3>2, <3>3
    <3> QED
      BY <3>1, <3>4 DEF GateError
  <2> QED
    BY <2>4, <2>5
<1> QED
  BY <1>2 DEF BadGates, c

LEMMA CircuitSizes ==
  ASSUME Sorted
  PROVE  /\ Len(NewCircuit.outputs) = Cardinality(node_ids("OUTPUT"))
         /\ SignalCount(NewCircuit) = GraphSignals
         /\ BodyLen(NewCircuit) = BodySize
<1> DEFINE c == NewCircuit
<1>1. /\ InputTotal \in Nat /\ LatchTotal \in Nat /\ NandTotal \in Nat
      /\ c.input_count = InputTotal /\ c.latch_count = LatchTotal
      /\ Len(c.gates) = LatchTotal + NandTotal
      /\ Len(c.outputs) = Len(OutputList) /\ c \in Circuit
  BY NumberedAt, CircuitAt
<1>2. Len(OutputList) = Cardinality(node_ids("OUTPUT"))
  BY KindListed DEF OutputList, Sorted
<1>3. /\ \A l \in 1 .. LatchTotal : c.gates[l].op = "latch"
      /\ \A k \in 1 .. NandTotal : c.gates[LatchTotal + k].op = "nand"
  <2>1. ASSUME NEW l \in 1 .. LatchTotal PROVE c.gates[l].op = "latch"
    <3>1. c.gates[l] = Latch(source_signal(LatchList[l], "d"))
      BY CircuitAt
    <3> QED
      BY <3>1 DEF Latch
  <2>2. ASSUME NEW k \in 1 .. NandTotal PROVE c.gates[LatchTotal + k].op = "nand"
    <3>1. c.gates[LatchTotal + k]
            = Nand(source_signal(ordered[k], "a"), source_signal(ordered[k], "b"))
      BY CircuitAt
    <3> QED
      BY <3>1 DEF Nand
  <2> QED
    BY <2>1, <2>2
<1>4. DOMAIN c.gates = 1 .. LatchTotal + NandTotal
  <2>1. c.gates \in Seq(Gate)
    BY <1>1 DEF Circuit
  <2> QED
    BY <1>1, <2>1
<1> HIDE DEF c
<1>5. {i \in DOMAIN c.gates : c.gates[i].op = "latch"} = 1 .. LatchTotal
  <2>1. ASSUME NEW i \in DOMAIN c.gates, ~(i <= LatchTotal) PROVE c.gates[i].op # "latch"
    <3>1. i - LatchTotal \in 1 .. NandTotal /\ LatchTotal + (i - LatchTotal) = i
      BY <1>1, <1>4, <2>1
    <3> QED
      BY <1>3, <3>1
  <2>2. \A i \in 1 .. LatchTotal : i \in DOMAIN c.gates
    BY <1>1, <1>4
  <2>3. \A i \in DOMAIN c.gates : i <= LatchTotal => i \in 1 .. LatchTotal
    BY <1>1, <1>4
  <2> QED
    BY <1>3, <2>1, <2>2, <2>3
<1>6. Denoted(c).latch_count = LatchTotal
  <2>1. Cardinality(1 .. LatchTotal) = LatchTotal
    BY <1>1, FS_Interval
  <2> QED
    BY <1>5, <2>1 DEF Denoted
<1>7. BodyLen(c) = LATCH_LEN * LatchTotal + NAND_LEN * NandTotal
  BY <1>1, <1>6 DEF BodyLen, LATCH_LEN, NAND_LEN
<1>8. SignalCount(c) = GraphSignals
  BY <1>1 DEF SignalCount, GraphSignals, InputTotal, LatchTotal, NandTotal, Nands
<1> QED
  BY <1>1, <1>2, <1>7, <1>8 DEF BodySize, LatchTotal, NandTotal, Nands, c

LEMMA NumberedEncodes ==
  ASSUME Sorted, GraphSignals - 1 <= MAX_U24
  PROVE  /\ EncodeError(NewCircuit) \in {"none", "CountOverflow", "BodyTooLarge"}
         /\ EncodeError(NewCircuit) = "none" <=> Fits(graph)
<1> DEFINE c == NewCircuit
           o == Cardinality(node_ids("OUTPUT"))
<1>1. /\ Len(c.outputs) = o /\ SignalCount(c) = GraphSignals /\ BodyLen(c) = BodySize
      /\ BadGates(c) = {}
  BY CircuitSizes, NoBadGates
<1>2. /\ GraphSignals \in Nat /\ o \in Nat
      /\ Fits(graph) <=> /\ o <= MAX_U32 /\ BodySize <= MAX_U32
                         /\ HEADER_LEN + 3 * o + BodySize <= USIZE_MAX
  BY SizesOfGraph DEF Sorted
<1>3. Len(c.gates) \in Nat /\ c.input_count \in Nat /\ Len(c.gates) <= SignalCount(c)
  <2>1. Len(c.gates) \in Nat /\ c.input_count \in Nat
    BY CircuitAt, NumberedAt
  <2> QED
    BY <2>1 DEF SignalCount
<1>4. ~(\E k \in DOMAIN c.outputs : c.outputs[k] >= SignalCount(c))
  <2>1. Valid(c) /\ signal_count(c) = SignalCount(c) /\ SignalCount(c) \in Nat
    BY <1>1, <1>2, CircuitValid DEF signal_count, SignalCount
  <2> HIDE DEF c
  <2>2. c.outputs \in Seq(Nat) /\ DOMAIN c.outputs = 1 .. Len(c.outputs)
    BY <2>1 DEF Valid, Circuit
  <2>3. ASSUME NEW k \in DOMAIN c.outputs PROVE ~(c.outputs[k] >= SignalCount(c))
    <3>1. c.outputs[k] \in Nat
      BY <2>2, ElementOfSeq
    <3>2. c.outputs[k] < SignalCount(c)
      BY <2>1, <2>2 DEF Valid, ValidOutputs
    <3> QED
      BY <2>1, <3>1, <3>2
  <2> QED
    BY <2>3
<1> HIDE DEF c, o
<1>5. BodySize \in Nat
  <2>1. \A kind : Cardinality(node_ids(kind)) \in Nat
    BY SizesOfGraph DEF Sorted
  <2> QED
    BY <2>1 DEF BodySize, LATCH_LEN, NAND_LEN
<1>6. CountsError(c) = IF o > MAX_U32 THEN "CountOverflow" ELSE "none"
  <2>1. ~(Len(c.gates) > MAX_U32) /\ ~(SignalCount(c) > MAX_U32) /\ ~(SignalCount(c) - 1 > MAX_U24)
    BY <1>1, <1>2, <1>3, LimitsAssumption
  <2> QED
    BY <1>1, <1>4, <2>1 DEF CountsError
<1>7. TooLarge(c, BodyLen(c))
        <=> BodySize > MAX_U32 \/ HEADER_LEN + 3 * o + BodySize > USIZE_MAX
  BY <1>1 DEF TooLarge
<1>8. EncodeError(c) = IF o > MAX_U32 THEN "CountOverflow"
                       ELSE IF TooLarge(c, BodyLen(c)) THEN "BodyTooLarge" ELSE "none"
  BY <1>1, <1>6 DEF EncodeError
<1>9. Fits(graph) <=> ~(o > MAX_U32) /\ ~TooLarge(c, BodyLen(c))
  <2>1. HEADER_LEN + 3 * o + BodySize \in Nat
    BY <1>2, <1>5 DEF HEADER_LEN
  <2> QED
    BY <1>2, <1>5, <1>7, <2>1, LimitsAssumption
<1>10. /\ EncodeError(c) \in {"none", "CountOverflow", "BodyTooLarge"}
       /\ EncodeError(c) = "none" <=> Fits(graph)
  BY <1>8, <1>9
<1> QED
  BY <1>10 DEF c

LEMMA NumberInv == ASSUME IInv, Number PROVE IInv'
<1>1. /\ graph \in Graph /\ pc = "number" /\ NodesOK /\ DriversOK /\ PortsDriven /\ SortOK
      /\ OrderOK /\ error = "none"
  BY DEF IInv, TypeOK, Number
<1>2. Sorted
  BY <1>1 DEF Sorted, OrderOK
<1>3. Unnumbered = {}
  <2>1. Elements(Numbered) = Sourced
    BY <1>2, NumberedAt, ListElements
  <2> QED
    BY <1>2, <2>1, SourceNumbered DEF Unnumbered
<1>4. Valid(NewCircuit)
  BY <1>2, CircuitValid
<1>f. /\ EncodeError(NewCircuit) \in {"none", "CountOverflow", "BodyTooLarge"}
      /\ EncodeError(NewCircuit) = "none" <=> Fits(graph)
  BY <1>1, <1>2, NumberedEncodes DEF OrderOK
<1>g. CASE EncodeError(NewCircuit) # "none"
  <2>1. Fail(EncodeError(NewCircuit))
    BY <1>3, <1>g DEF Number
  <2>2. EncodeError(NewCircuit) \in Errors /\ EncodeError(NewCircuit) # "CombinationalCycle"
    BY <1>f, <1>g DEF Errors
  <2>3. ~Fits(graph)
    BY <1>f, <1>g
  <2> QED
    BY <2>1, <2>2, <2>3, FailKeeps
<1>h. CASE EncodeError(NewCircuit) = "none"
  <2>1. /\ signals' = NewSignals /\ circuit' = NewCircuit /\ pc' = "done"
        /\ UNCHANGED <<graph, nodes, drivers, dependencies, dependents, ready, ordered, error>>
    BY <1>3, <1>h DEF Number, maps, sort
  <2>2. /\ NodesOK' /\ DriversOK' /\ PortsDriven' /\ Nands' = Nands
        /\ \A kind : node_ids(kind)' = node_ids(kind)
        /\ \A n : Sources(n)' = Sources(n) /\ NandsRead(n)' = NandsRead(n)
    BY <1>1, <2>1, MapsKept
  <2>3. SortOK'
    <3>1. \A n : Pending(n)' = Pending(n)
      BY <2>1 DEF Pending, Sources, node_ids
    <3>2. Greedy(ordered)'
      BY <1>1, <2>1 DEF SortOK, Greedy, NandsRead, Nands, Sources, node_ids
    <3> QED
      BY <1>1, <2>1, <2>2, <3>1, <3>2 DEF SortOK
  <2>4. OrderOK'
    <3>1. GraphSignals' = GraphSignals /\ Elements(ordered)' = Elements(ordered)
      BY <2>1, <2>2 DEF GraphSignals
    <3> QED
      BY <1>1, <2>2, <3>1 DEF OrderOK
  <2>5. NewSignals' = NewSignals /\ NewCircuit' = NewCircuit
    <3>1. nodes' = nodes /\ drivers' = drivers /\ ordered' = ordered
      BY <2>1
    <3>2. Numbered' = Numbered
      BY <3>1 DEF Numbered, node_ids
    <3>3. NewSignals' = NewSignals
      BY <3>2 DEF NewSignals
    <3> QED
      BY <3>1, <3>3 DEF NewCircuit, source_signal, node_ids
  <2>6. TypeOK'
    <3>1. NewCircuit \in Circuit
      BY <1>4 DEF Valid
    <3> QED
      BY <2>1, <3>1 DEF IInv, TypeOK
  <2>7. RefusesExactly'
    <3>1. Wired(graph) /\ Acyclic(graph) /\ Fits(graph)
      BY <1>2, <1>f, <1>h, ReadsAll, NoLoopLeft DEF Sorted
    <3> QED
      BY <1>1, <2>1, <3>1 DEF RefusesExactly
  <2> QED
    BY <1>1, <2>1, <2>2, <2>3, <2>4, <2>5, <2>6, <2>7 DEF IInv
<1> QED
  BY <1>f, <1>g, <1>h

LEMMA StutterInv == ASSUME IInv, UNCHANGED vars PROVE IInv'
<1>1. UNCHANGED <<graph, pc, nodes, drivers, dependencies, dependents, ready, ordered, signals,
                  circuit, error>>
  BY DEF vars, maps, sort
<1>2. \A kind : node_ids(kind)' = node_ids(kind)
  BY <1>1 DEF node_ids
<1>3. Nands' = Nands /\ GraphSignals' = GraphSignals
  BY <1>2 DEF Nands, GraphSignals
<1>4. TypeOK' /\ RefusesExactly'
  BY <1>1, <1>3 DEF IInv, TypeOK, RefusesExactly
<1>5. (NodesOK => NodesOK') /\ (OrderOK => OrderOK')
  BY <1>1, <1>3 DEF NodesOK, OrderOK
<1>6. DriversOK => DriversOK'
  BY <1>1 DEF DriversOK, ConnectionOK
<1>7. PortsDriven => PortsDriven'
  BY <1>1, <1>2 DEF PortsDriven
<1>8. SortOK => SortOK'
  <2>1. \A n : Pending(n)' = Pending(n) /\ Sources(n)' = Sources(n)
    BY <1>1 DEF Pending, Sources, node_ids
  <2>2. Greedy(ordered) => Greedy(ordered)'
    BY <1>1 DEF Greedy, NandsRead, Nands, Sources, node_ids
  <2> QED
    BY <1>1, <1>3, <2>1, <2>2 DEF SortOK
<1>9. NewSignals' = NewSignals /\ NewCircuit' = NewCircuit
  <2>1. Numbered' = Numbered
    BY <1>1 DEF Numbered, node_ids
  <2>2. NewSignals' = NewSignals
    BY <2>1 DEF NewSignals
  <2> QED
    BY <1>1, <2>2 DEF NewCircuit, source_signal, node_ids
<1> QED
  BY <1>1, <1>4, <1>5, <1>6, <1>7, <1>8, <1>9 DEF IInv

LEMMA StepInv == IInv /\ [Next]_vars => IInv'
BY CollectNodesInv, CollectConnectionsInv, CheckDriversInv, StartOrderInv, PopFirstInv,
   EndOrderInv, NumberInv, StutterInv DEF Next

-----------------------------------------------------------------------------
(* At every moment of a compilation the maps, the sort and the numbering are*)
(* what the phases so far have to leave behind, for all graphs.             *)
THEOREM Invariant == Spec => []IInv
BY InitInv, StepInv, PTL DEF Spec

(* Every variable keeps its type, only errors a graph can deserve are       *)
(* returned, and the bookkeeping of the sort is what it stands for.         *)
THEOREM BookkeepingHolds == Spec => []Inv
<1>1. ASSUME IInv PROVE Inv
  <2>1. TypeOK
    BY <1>1 DEF IInv
  <2>2. SortBookkeeping
    BY <1>1 DEF IInv, SortOK, SortBookkeeping
  <2> QED
    BY <2>1, <2>2 DEF Inv
<1>2. IInv => Inv
  BY <1>1
<1> QED
  BY Invariant, <1>2, PTL

(* A graph is refused exactly when it is not wired, has a loop of NANDs or  *)
(* does not fit, and the error that names a loop means one.                 *)
THEOREM RefusalsAreExact == Spec => []RefusesExactly
<1>1. IInv => RefusesExactly
  BY DEF IInv
<1> QED
  BY Invariant, <1>1, PTL

-----------------------------------------------------------------------------
(* That the bytes do not depend on how the graph is listed.  Two orders of  *)
(* the NANDs, each at most the other, are the same.                         *)
LEMMA LexAntisymmetric ==
  ASSUME NEW n \in Nat, NEW s \in [1 .. n -> Nat], NEW t \in [1 .. n -> Nat],
         LexLeq(s, t), LexLeq(t, s)
  PROVE  s = t
<1> SUFFICES ASSUME s # t PROVE FALSE
  OBVIOUS
<1>1. PICK i \in 1 .. n : s[i] < t[i] /\ \A k \in 1 .. i - 1 : s[k] = t[k]
  BY DEF LexLeq
<1>2. PICK j \in 1 .. n : t[j] < s[j] /\ \A k \in 1 .. j - 1 : t[k] = s[k]
  BY DEF LexLeq
<1>3. /\ i \in Nat /\ j \in Nat
      /\ s[i] \in Nat /\ t[i] \in Nat /\ s[j] \in Nat /\ t[j] \in Nat
  OBVIOUS
<1>4. i < j => i \in 1 .. j - 1
  BY <1>3
<1>5. j < i => j \in 1 .. i - 1
  BY <1>3
<1> QED
  BY <1>1, <1>2, <1>3, <1>4, <1>5

LEMMA OrderIsLeast ==
  ASSUME Sorted
  PROVE  NandOrder(graph) = ordered
<1> DEFINE n == NandTotal
           O == Orders(graph)
<1>1. /\ n \in Nat /\ Len(ordered) = n /\ DOMAIN ordered = 1 .. n
      /\ ordered \in [1 .. n -> Nands]
      /\ \A i, j \in 1 .. n : ordered[i] = ordered[j] => i = j
      /\ Greedy(ordered) /\ Nands \in SUBSET Nat
  BY NumberedAt, NodesByKind DEF Sorted, SortOK, Nands
<1>2. /\ Nands = OfKind(graph, "NAND")
      /\ \A m : Reads(graph, m) = NandsRead(m)
  BY ReadsByMap DEF Sorted
<1>3. O = {s \in [1 .. n -> Nands] : Topological(graph, s)}
  BY <1>2 DEF Orders, NandTotal
<1> HIDE DEF n, O
<1>4. ASSUME NEW s \in [1 .. n -> Nands]
      PROVE  Topological(graph, s)
               <=> /\ \A i, j \in 1 .. n : s[i] = s[j] => i = j
                   /\ \A i \in 1 .. n : NandsRead(s[i]) \subseteq Before(s, i)
  <2>1. DOMAIN s = 1 .. n
    OBVIOUS
  <2> QED
    BY <1>2, <2>1 DEF Topological, Before
<1>5. ordered \in O
  BY <1>1, <1>3, <1>4 DEF Greedy
<1>6. ASSUME NEW t \in O, t # ordered PROVE LexLeq(ordered, t)
  <2> DEFINE D == {i \in 1 .. n : ordered[i] # t[i]}
  <2>1. /\ t \in [1 .. n -> Nands]
        /\ \A i, j \in 1 .. n : t[i] = t[j] => i = j
        /\ \A i \in 1 .. n : NandsRead(t[i]) \subseteq Before(t, i)
    BY <1>3, <1>4
  <2>2. D # {} /\ D \in SUBSET Nat
    BY <1>1, <1>6, <2>1
  <2>3. PICK i \in D : \A j \in D : i <= j
    BY <2>2, LeastExists
  <2>4. ASSUME NEW j \in 1 .. i - 1 PROVE ordered[j] = t[j] /\ j \in 1 .. n /\ j # i
    <3>1. j \in 1 .. n /\ ~(i <= j) /\ j # i
      BY <1>1
    <3> QED
      BY <2>3, <3>1
  <2>5. i \in 1 .. n /\ ordered[i] # t[i]
    BY <2>3
  <2> HIDE DEF D
  <2>6. Before(t, i) = Before(ordered, i)
    BY <2>4 DEF Before
  <2>7. t[i] \in Nands \ Before(ordered, i) /\ NandsRead(t[i]) \subseteq Before(ordered, i)
    <3>1. t[i] \in Nands
      BY <2>1, <2>5
    <3>2. \A j \in 1 .. i - 1 : t[j] # t[i]
      BY <2>1, <2>4, <2>5
    <3>3. t[i] \notin Before(t, i)
      BY <3>2 DEF Before
    <3> QED
      BY <2>1, <2>5, <2>6, <3>1, <3>3
  <2>8. ordered[i] <= t[i]
    BY <1>1, <2>5, <2>7 DEF Greedy
  <2>9. ordered[i] \in Nat /\ t[i] \in Nat
    BY <1>1, <2>1, <2>5
  <2>10. ordered[i] < t[i]
    BY <2>5, <2>8, <2>9
  <2> QED
    BY <1>1, <2>4, <2>5, <2>10 DEF LexLeq
<1>7. \A t \in O : LexLeq(ordered, t)
  <2>1. LexLeq(ordered, ordered)
    BY DEF LexLeq
  <2> QED
    BY <1>6, <2>1
<1>8. ASSUME NEW s \in O, \A t \in O : LexLeq(s, t) PROVE s = ordered
  <2>1. s \in [1 .. n -> Nat] /\ ordered \in [1 .. n -> Nat]
    BY <1>1, <1>3
  <2> QED
    BY <1>1, <1>5, <1>7, <1>8, <2>1, LexAntisymmetric
<1> DEFINE c == CHOOSE s \in O : \A t \in O : LexLeq(s, t)
<1>9. c \in O /\ \A t \in O : LexLeq(c, t)
  BY <1>5, <1>7
<1>10. NandOrder(graph) = c
  BY DEF NandOrder, O
<1> HIDE DEF c
<1> QED
  BY <1>8, <1>9, <1>10

LEMMA SourceSignalIs ==
  ASSUME Sorted, SignalOrder(graph) = Numbered, NEW to, NEW p, <<to, p>> \in DOMAIN drivers
  PROVE  SourceSignal(graph, to, p) = source_signal(to, p)
<1>1. PICK i \in 1 .. Len(Numbered) : Numbered[i] = drivers[<<to, p>>]
  BY SourceNumbered
<1>2. source_signal(to, p) = 1 + i
  BY <1>1, SignalAt DEF source_signal
<1>3. DOMAIN Numbered = 1 .. Len(Numbered) /\ Lists(Numbered, Sourced)
  BY NumberedAt, ListElements
<1>4. \A j \in 1 .. Len(Numbered) : Drives(graph, Numbered[j], to, p) <=> j = i
  <2>1. \A j \in 1 .. Len(Numbered) : Drives(graph, Numbered[j], to, p) <=> Numbered[j] = drivers[<<to, p>>]
    BY DriversByPort DEF Sorted
  <2> QED
    BY <1>1, <1>3, <2>1 DEF Lists
<1> DEFINE c == CHOOSE j \in DOMAIN Numbered : Drives(graph, Numbered[j], to, p)
<1>5. c \in 1 .. Len(Numbered) /\ Drives(graph, Numbered[c], to, p)
  BY <1>3, <1>4
<1>6. SourceSignal(graph, to, p) = 1 + c
  BY DEF SourceSignal
<1> HIDE DEF c
<1> QED
  BY <1>2, <1>4, <1>5, <1>6

LEMMA CircuitIsCanonical ==
  ASSUME Sorted
  PROVE  NewCircuit = CanonicalCircuit(graph)
<1>1. NandOrder(graph) = ordered
  BY OrderIsLeast
<1>2. \A kind : OfKind(graph, kind) = node_ids(kind)
  BY NodesByKind DEF Sorted
<1>3. SignalOrder(graph) = Numbered
  BY <1>1, <1>2 DEF SignalOrder, Numbered
<1>4. /\ DOMAIN OutputList = 1 .. Len(OutputList) /\ OutputList \in Seq(node_ids("OUTPUT"))
      /\ DOMAIN LatchList = 1 .. Len(LatchList) /\ LatchList \in Seq(node_ids("LATCH"))
      /\ DOMAIN ordered = 1 .. Len(ordered) /\ ordered \in Seq(Nands)
  BY KindListed, ListElements, ListIsList DEF Sorted, SortOK, OutputList, LatchList
<1>5. ASSUME NEW k \in DOMAIN OutputList
      PROVE  SourceSignal(graph, OutputList[k], "in") = source_signal(OutputList[k], "in")
  <2>1. OutputList[k] \in node_ids("OUTPUT")
    BY <1>4, ElementOfSeq
  <2>2. <<OutputList[k], "in">> \in DOMAIN drivers
    BY <2>1, PortHasSource
  <2> QED
    BY <1>3, <2>2, SourceSignalIs
<1>6. ASSUME NEW l \in DOMAIN LatchList
      PROVE  SourceSignal(graph, LatchList[l], "d") = source_signal(LatchList[l], "d")
  <2>1. LatchList[l] \in node_ids("LATCH")
    BY <1>4, ElementOfSeq
  <2>2. <<LatchList[l], "d">> \in DOMAIN drivers
    BY <2>1, PortHasSource
  <2> QED
    BY <1>3, <2>2, SourceSignalIs
<1>7. ASSUME NEW k \in DOMAIN ordered
      PROVE  /\ SourceSignal(graph, ordered[k], "a") = source_signal(ordered[k], "a")
             /\ SourceSignal(graph, ordered[k], "b") = source_signal(ordered[k], "b")
  <2>1. ordered[k] \in Nands
    BY <1>4, ElementOfSeq
  <2>2. <<ordered[k], "a">> \in DOMAIN drivers /\ <<ordered[k], "b">> \in DOMAIN drivers
    BY <2>1, PortHasSource
  <2> QED
    BY <1>3, <2>2, SourceSignalIs
<1>8. [k \in DOMAIN OutputList |-> SourceSignal(graph, OutputList[k], "in")]
        = [k \in DOMAIN OutputList |-> source_signal(OutputList[k], "in")]
  BY <1>5
<1>9. [l \in DOMAIN LatchList |-> Latch(SourceSignal(graph, LatchList[l], "d"))] = LatchRecords
  BY <1>6 DEF LatchRecords
<1>10. [k \in DOMAIN ordered |-> Nand(SourceSignal(graph, ordered[k], "a"),
                                      SourceSignal(graph, ordered[k], "b"))] = NandRecords
  BY <1>7 DEF NandRecords
<1>11. CanonicalCircuit(graph)
         = [input_count |-> InputTotal,
            latch_count |-> Len(LatchList),
            outputs |-> [k \in DOMAIN OutputList |-> SourceSignal(graph, OutputList[k], "in")],
            gates |-> [l \in DOMAIN LatchList |-> Latch(SourceSignal(graph, LatchList[l], "d"))]
                      \o [k \in DOMAIN ordered |-> Nand(SourceSignal(graph, ordered[k], "a"),
                                                        SourceSignal(graph, ordered[k], "b"))]]
  <2>1. /\ Ascending(OfKind(graph, "OUTPUT")) = OutputList
        /\ Ascending(OfKind(graph, "LATCH")) = LatchList
        /\ Cardinality(OfKind(graph, "INPUT")) = InputTotal
    BY <1>2 DEF OutputList, LatchList, InputTotal
  <2> QED
    BY <1>1, <2>1, Zenon DEF CanonicalCircuit
<1>12. NewCircuit
         = [input_count |-> InputTotal,
            latch_count |-> Len(LatchList),
            outputs |-> [k \in DOMAIN OutputList |-> source_signal(OutputList[k], "in")],
            gates |-> LatchRecords \o NandRecords]
  BY DEF NewCircuit, OutputList, LatchList, InputTotal, LatchRecords, NandRecords
<1> QED
  BY <1>8, <1>9, <1>10, <1>11, <1>12

LEMMA DoneIsSorted ==
  ASSUME IInv, pc = "done"
  PROVE  Sorted /\ signals = NewSignals /\ circuit = NewCircuit
BY DEF IInv, TypeOK, Sorted, OrderOK

(* What is compiled depends on the sets of nodes and connections only, and  *)
(* its NANDs are in the lexicographically least topological order.          *)
THEOREM BytesAreCanonical == Spec => []IsCanonical
<1>1. ASSUME IInv, pc = "done" PROVE circuit = CanonicalCircuit(graph)
  BY <1>1, DoneIsSorted, CircuitIsCanonical
<1>2. IInv => IsCanonical
  BY <1>1 DEF IsCanonical
<1> QED
  BY Invariant, <1>2, PTL

-----------------------------------------------------------------------------
(* That the circuit computes what the graph says.  The signals that show    *)
(* one when the nodes of val do.                                            *)
Shown(val) == {1} \cup {NewSignals[n] : n \in val}

LEMMA SignalShown ==
  ASSUME Sorted, NEW val \in SUBSET Sourced, NEW i \in 1 .. Len(Numbered)
  PROVE  1 + i \in Shown(val) <=> Numbered[i] \in val
<1>1. Len(Numbered) \in Nat /\ Lists(Numbered, Sourced)
  BY NumberedAt, ListElements
<1>2. NewSignals[Numbered[i]] = 1 + i /\ 1 + i # 1
  BY <1>1, SignalAt
<1>3. ASSUME NEW n \in val, NewSignals[n] = 1 + i PROVE n = Numbered[i]
  <2>1. PICK j \in 1 .. Len(Numbered) : Numbered[j] = n
    BY <1>1 DEF Lists
  <2>2. NewSignals[n] = 1 + j
    BY <2>1, SignalAt
  <2>3. j = i
    BY <1>1, <1>3, <2>2
  <2> QED
    BY <2>1, <2>3
<1> QED
  BY <1>2, <1>3 DEF Shown

LEMMA ConstantsShown ==
  ASSUME Sorted, NEW val \in SUBSET Sourced
  PROVE  0 \notin Shown(val) /\ 1 \in Shown(val)
<1>1. Len(Numbered) \in Nat /\ Lists(Numbered, Sourced)
  BY NumberedAt, ListElements
<1>2. ASSUME NEW n \in val PROVE NewSignals[n] # 0
  <2>1. PICK j \in 1 .. Len(Numbered) : Numbered[j] = n
    BY <1>1 DEF Lists
  <2>2. NewSignals[n] = 1 + j
    BY <2>1, SignalAt
  <2> QED
    BY <1>1, <2>2
<1> QED
  BY <1>2 DEF Shown

LEMMA SourceShown ==
  ASSUME Sorted, NEW val \in SUBSET Sourced, NEW id, NEW p, <<id, p>> \in DOMAIN drivers
  PROVE  source_signal(id, p) \in Shown(val) <=> Shows(graph, val, id, p)
<1>1. PICK i \in 1 .. Len(Numbered) : Numbered[i] = drivers[<<id, p>>]
  BY SourceNumbered
<1>2. source_signal(id, p) = 1 + i
  BY <1>1, SignalAt DEF source_signal
<1>3. 1 + i \in Shown(val) <=> drivers[<<id, p>>] \in val
  BY <1>1, SignalShown
<1>4. Shows(graph, val, id, p) <=> drivers[<<id, p>>] \in val
  BY DriversByPort DEF Sorted, Shows
<1> QED
  BY <1>2, <1>3, <1>4

LEMMA PositionAt ==
  ASSUME graph \in Graph, NodesOK, NEW kind, NEW S
  PROVE  /\ Positions(kind, S) \subseteq 0 .. Cardinality(node_ids(kind)) - 1
         /\ \A i \in 0 .. Cardinality(node_ids(kind)) - 1 :
              i \in Positions(kind, S) <=> Ascending(node_ids(kind))[i + 1] \in S
<1> DEFINE A == Ascending(node_ids(kind))
           n == Cardinality(node_ids(kind))
<1>1. n \in Nat /\ Len(A) = n /\ DOMAIN A = 1 .. n
  BY KindListed, ListElements
<1>2. Positions(kind, S) = {i - 1 : i \in {k \in DOMAIN A : A[k] \in S}}
  BY DEF Positions
<1> HIDE DEF A, n
<1>3. ASSUME NEW i \in 0 .. n - 1 PROVE i \in Positions(kind, S) <=> A[i + 1] \in S
  <2>1. i + 1 \in 1 .. n /\ (i + 1) - 1 = i
    BY <1>1
  <2>2. \A k \in 1 .. n : k - 1 = i => k = i + 1
    BY <1>1
  <2> QED
    BY <1>1, <1>2, <2>1, <2>2
<1>4. \A k \in 1 .. n : k - 1 \in 0 .. n - 1
  BY <1>1
<1>5. Positions(kind, S) \subseteq 0 .. n - 1
  BY <1>1, <1>2, <1>4
<1> QED
  BY <1>3, <1>5 DEF A, n

(* Inputs and latches show what they are given, whatever the NANDs do.      *)
LEMMA InputsSettle ==
  ASSUME Sorted, NEW val \in SUBSET Sourced, NEW i \in 0 .. InputTotal - 1
  PROVE  2 + i \in Shown(val) <=> i \in Positions("INPUT", val \cap node_ids("INPUT"))
<1>1. /\ InputTotal \in Nat /\ LatchTotal \in Nat /\ NandTotal \in Nat
      /\ Len(Numbered) = InputTotal + LatchTotal + NandTotal
  BY NumberedAt
<1>2. i + 1 \in 1 .. InputTotal /\ i + 1 \in 1 .. Len(Numbered) /\ 1 + (i + 1) = 2 + i
  BY <1>1
<1>3. Numbered[i + 1] = Ascending(node_ids("INPUT"))[i + 1]
  BY <1>2, NumberedAt
<1>4. Ascending(node_ids("INPUT"))[i + 1] \in node_ids("INPUT")
  BY <1>2, KindListed, ListIsList, ElementOfSeq DEF Sorted, InputTotal
<1>5. 2 + i \in Shown(val) <=> Numbered[i + 1] \in val
  BY <1>2, SignalShown
<1>6. i \in Positions("INPUT", val \cap node_ids("INPUT"))
        <=> Ascending(node_ids("INPUT"))[i + 1] \in val \cap node_ids("INPUT")
  BY PositionAt DEF Sorted, InputTotal
<1> QED
  BY <1>3, <1>4, <1>5, <1>6

LEMMA LatchListAt ==
  ASSUME Sorted, NEW l \in 0 .. LatchTotal - 1
  PROVE  /\ l + 1 \in 1 .. LatchTotal
         /\ LatchList[l + 1] \in node_ids("LATCH")
         /\ Numbered[InputTotal + (l + 1)] = LatchList[l + 1]
         /\ InputTotal + (l + 1) \in 1 .. Len(Numbered)
         /\ NewCircuit.gates[l + 1] = Latch(source_signal(LatchList[l + 1], "d"))
         /\ \A S : l \in Positions("LATCH", S) <=> LatchList[l + 1] \in S
<1>1. /\ InputTotal \in Nat /\ LatchTotal \in Nat /\ NandTotal \in Nat
      /\ Len(Numbered) = InputTotal + LatchTotal + NandTotal
  BY NumberedAt
<1>2. l + 1 \in 1 .. LatchTotal /\ InputTotal + (l + 1) \in 1 .. Len(Numbered)
  BY <1>1
<1>3. Numbered[InputTotal + (l + 1)] = LatchList[l + 1]
  BY <1>2, NumberedAt DEF LatchList
<1>4. LatchList[l + 1] \in node_ids("LATCH")
  BY <1>2, KindListed, ListIsList, ElementOfSeq DEF Sorted, LatchTotal, LatchList
<1>5. NewCircuit.gates[l + 1] = Latch(source_signal(LatchList[l + 1], "d"))
  BY <1>2, CircuitAt
<1>6. ASSUME NEW S PROVE l \in Positions("LATCH", S) <=> LatchList[l + 1] \in S
  BY PositionAt DEF Sorted, LatchTotal, LatchList
<1> QED
  BY <1>2, <1>3, <1>4, <1>5, <1>6

LEMMA LatchesSettle ==
  ASSUME Sorted, NEW val \in SUBSET Sourced, NEW l \in 0 .. LatchTotal - 1
  PROVE  GateSettled(NewCircuit, Positions("LATCH", val \cap node_ids("LATCH")), Shown(val), l)
<1> DEFINE c == NewCircuit
<1>1. InputTotal \in Nat /\ c.input_count = InputTotal
  BY NumberedAt, CircuitAt
<1>2. GateSignal(c, l) = 1 + (InputTotal + (l + 1))
  BY <1>1 DEF GateSignal
<1>3. GateSignal(c, l) \in Shown(val) <=> LatchList[l + 1] \in val
  BY <1>2, LatchListAt, SignalShown
<1>4. c.gates[l + 1].op = "latch"
  <2>1. c.gates[l + 1] = Latch(source_signal(LatchList[l + 1], "d"))
    BY LatchListAt
  <2> HIDE DEF c
  <2> QED
    BY <2>1 DEF Latch
<1>5. l \in Positions("LATCH", val \cap node_ids("LATCH")) <=> LatchList[l + 1] \in val
  BY LatchListAt
<1> HIDE DEF c
<1>6. GateSettled(c, Positions("LATCH", val \cap node_ids("LATCH")), Shown(val), l)
  BY <1>3, <1>4, <1>5 DEF GateSettled
<1> QED
  BY <1>6 DEF c

(* A NAND record is satisfied when the NAND of the graph is.                *)
LEMMA NandsSettle ==
  ASSUME Sorted, NEW val \in SUBSET Sourced, NEW st, NEW k \in 1 .. NandTotal
  PROVE  GateSettled(NewCircuit, st, Shown(val), LatchTotal + (k - 1))
           <=> (ordered[k] \in val
                  <=> ~(Shows(graph, val, ordered[k], "a") /\ Shows(graph, val, ordered[k], "b")))
<1> DEFINE c == NewCircuit
           i == LatchTotal + (k - 1)
           n == ordered[k]
<1>1. /\ InputTotal \in Nat /\ LatchTotal \in Nat /\ NandTotal \in Nat
      /\ Len(Numbered) = InputTotal + LatchTotal + NandTotal /\ Len(ordered) = NandTotal
      /\ c.input_count = InputTotal
  BY NumberedAt, CircuitAt
<1>2. /\ i + 1 = LatchTotal + k
      /\ GateSignal(c, i) = 1 + (InputTotal + LatchTotal + k)
      /\ InputTotal + LatchTotal + k \in 1 .. Len(Numbered)
  BY <1>1 DEF GateSignal
<1> HIDE DEF i
<1>3. GateSignal(c, i) \in Shown(val) <=> n \in val
  <2>1. Numbered[InputTotal + LatchTotal + k] = n
    BY NumberedAt
  <2> QED
    BY <1>2, <2>1, SignalShown
<1>4. c.gates[i + 1] = Nand(source_signal(n, "a"), source_signal(n, "b"))
  BY <1>2, CircuitAt
<1>5. n \in Nands
  BY <1>1, ElementOfSeq DEF Sorted, SortOK
<1> HIDE DEF n, c
<1>6. <<n, "a">> \in DOMAIN drivers /\ <<n, "b">> \in DOMAIN drivers
  BY <1>5, PortHasSource
<1>7. /\ source_signal(n, "a") \in Shown(val) <=> Shows(graph, val, n, "a")
      /\ source_signal(n, "b") \in Shown(val) <=> Shows(graph, val, n, "b")
  BY <1>6, SourceShown
<1>8. /\ c.gates[i + 1].op # "latch" /\ c.gates[i + 1].a = source_signal(n, "a")
      /\ c.gates[i + 1].b = source_signal(n, "b")
  BY <1>4 DEF Nand
<1>9. GateSettled(c, st, Shown(val), i)
        <=> (n \in val <=> ~(Shows(graph, val, n, "a") /\ Shows(graph, val, n, "b")))
  BY <1>3, <1>7, <1>8 DEF GateSettled
<1> QED
  BY <1>9 DEF c, i, n

LEMMA SameSettled ==
  ASSUME Sorted, NEW val \in SUBSET Sourced
  PROVE  GraphSettled(graph, val \cap node_ids("INPUT"), val \cap node_ids("LATCH"), val)
           <=> Settled(NewCircuit, Positions("INPUT", val \cap node_ids("INPUT")),
                       Positions("LATCH", val \cap node_ids("LATCH")), Shown(val))
<1> DEFINE c == NewCircuit
           st == Positions("LATCH", val \cap node_ids("LATCH"))
           Good(n) == n \in val <=> ~(Shows(graph, val, n, "a") /\ Shows(graph, val, n, "b"))
<1>1. /\ LatchTotal \in Nat /\ NandTotal \in Nat /\ Len(ordered) = NandTotal
      /\ c.input_count = InputTotal /\ Len(c.gates) = LatchTotal + NandTotal
  BY NumberedAt, CircuitAt
<1>2. \A kind : OfKind(graph, kind) = node_ids(kind)
  BY NodesByKind DEF Sorted
<1>3. GraphSettled(graph, val \cap node_ids("INPUT"), val \cap node_ids("LATCH"), val)
        <=> \A n \in Nands : Good(n)
  BY <1>2 DEF GraphSettled, Nands
<1>4. Lists(ordered, Nands)
  BY OrderedAll DEF Sorted
<1>5. (\A n \in Nands : Good(n)) <=> \A k \in 1 .. NandTotal : Good(ordered[k])
  <2> HIDE DEF Good
  <2>1. \A k \in 1 .. NandTotal : ordered[k] \in Nands
    BY <1>1, <1>4, ListIsList, ElementOfSeq
  <2>2. \A n \in Nands : \E k \in 1 .. NandTotal : ordered[k] = n
    BY <1>1, <1>4 DEF Lists
  <2> QED
    BY <2>1, <2>2
<1>6. \A k \in 1 .. NandTotal :
        GateSettled(c, st, Shown(val), LatchTotal + (k - 1)) <=> Good(ordered[k])
  BY NandsSettle
<1>7. \A l \in 0 .. LatchTotal - 1 : GateSettled(c, st, Shown(val), l)
  BY LatchesSettle
<1>8. \A i \in 0 .. InputTotal - 1 :
        2 + i \in Shown(val) <=> i \in Positions("INPUT", val \cap node_ids("INPUT"))
  BY InputsSettle
<1> HIDE DEF c, st, Good
<1>9. (\A i \in 0 .. Len(c.gates) - 1 : GateSettled(c, st, Shown(val), i))
        <=> \A k \in 1 .. NandTotal : GateSettled(c, st, Shown(val), LatchTotal + (k - 1))
  <2>1. \A k \in 1 .. NandTotal : LatchTotal + (k - 1) \in 0 .. Len(c.gates) - 1
    BY <1>1
  <2>2. ASSUME NEW i \in 0 .. Len(c.gates) - 1, i \notin 0 .. LatchTotal - 1
        PROVE  \E k \in 1 .. NandTotal : i = LatchTotal + (k - 1)
    <3>1. (i + 1) - LatchTotal \in 1 .. NandTotal /\ i = LatchTotal + (((i + 1) - LatchTotal) - 1)
      BY <1>1, <2>2
    <3> QED
      BY <3>1
  <2> QED
    BY <1>7, <2>1, <2>2
<1>10. Settled(c, Positions("INPUT", val \cap node_ids("INPUT")), st, Shown(val))
         <=> \A i \in 0 .. Len(c.gates) - 1 : GateSettled(c, st, Shown(val), i)
  BY <1>1, <1>8, ConstantsShown DEF Settled
<1> QED
  BY <1>3, <1>5, <1>6, <1>9, <1>10 DEF c, st

LEMMA SameLatches ==
  ASSUME Sorted, NEW val \in SUBSET Sourced
  PROVE  NextLatches(NewCircuit, Shown(val))
           = Positions("LATCH", {l \in node_ids("LATCH") : Shows(graph, val, l, "d")})
<1> DEFINE c == NewCircuit
           S == {l \in node_ids("LATCH") : Shows(graph, val, l, "d")}
<1>1. c.latch_count = LatchTotal
  BY CircuitAt
<1>2. ASSUME NEW l \in 0 .. LatchTotal - 1
      PROVE  c.gates[l + 1].d \in Shown(val) <=> l \in Positions("LATCH", S)
  <2>1. c.gates[l + 1].d = source_signal(LatchList[l + 1], "d")
    <3>1. c.gates[l + 1] = Latch(source_signal(LatchList[l + 1], "d"))
      BY LatchListAt
    <3> HIDE DEF c
    <3> QED
      BY <3>1 DEF Latch
  <2>2. LatchList[l + 1] \in node_ids("LATCH") /\ <<LatchList[l + 1], "d">> \in DOMAIN drivers
    BY LatchListAt, PortHasSource
  <2>3. source_signal(LatchList[l + 1], "d") \in Shown(val)
          <=> Shows(graph, val, LatchList[l + 1], "d")
    BY <2>2, SourceShown
  <2>4. l \in Positions("LATCH", S) <=> LatchList[l + 1] \in S
    BY LatchListAt
  <2> QED
    BY <2>1, <2>2, <2>3, <2>4
<1>3. Positions("LATCH", S) \subseteq 0 .. LatchTotal - 1
  BY PositionAt DEF Sorted, LatchTotal
<1> HIDE DEF c, S
<1>4. NextLatches(c, Shown(val)) = Positions("LATCH", S)
  BY <1>1, <1>2, <1>3 DEF NextLatches
<1> QED
  BY <1>4 DEF c, S

LEMMA SameOutputs ==
  ASSUME Sorted, NEW val \in SUBSET Sourced
  PROVE  OutputBits(NewCircuit, Shown(val))
           = Positions("OUTPUT", {o \in node_ids("OUTPUT") : Shows(graph, val, o, "in")})
<1> DEFINE c == NewCircuit
           S == {o \in node_ids("OUTPUT") : Shows(graph, val, o, "in")}
           n == Len(OutputList)
<1>1. Len(c.outputs) = n
  BY CircuitAt
<1>2. n = Cardinality(node_ids("OUTPUT")) /\ n \in Nat
  BY KindListed DEF Sorted, OutputList
<1>3. ASSUME NEW k \in 0 .. n - 1
      PROVE  c.outputs[k + 1] \in Shown(val) <=> k \in Positions("OUTPUT", S)
  <2>1. k + 1 \in 1 .. n
    BY <1>2
  <2>2. OutputList[k + 1] \in node_ids("OUTPUT") /\ c.outputs[k + 1] = source_signal(OutputList[k + 1], "in")
    BY <2>1, CircuitAt
  <2>3. <<OutputList[k + 1], "in">> \in DOMAIN drivers
    BY <2>2, PortHasSource
  <2>4. source_signal(OutputList[k + 1], "in") \in Shown(val)
          <=> Shows(graph, val, OutputList[k + 1], "in")
    BY <2>3, SourceShown
  <2>5. k \in Positions("OUTPUT", S) <=> OutputList[k + 1] \in S
    BY <1>2, PositionAt DEF Sorted, OutputList
  <2> QED
    BY <2>2, <2>4, <2>5
<1>4. Positions("OUTPUT", S) \subseteq 0 .. n - 1
  BY <1>2, PositionAt DEF Sorted
<1> HIDE DEF c, S, n
<1>5. OutputBits(c, Shown(val)) = Positions("OUTPUT", S)
  BY <1>1, <1>3, <1>4 DEF OutputBits
<1> QED
  BY <1>5 DEF c, S

(* The circuit is the machine the graph describes: under the numbering they *)
(* have the same settled valuations, next latches and outputs.              *)
THEOREM CompilesTheMachine == Spec => []SameMachine
<1>1. ASSUME IInv, pc = "done", NEW val \in SUBSET (DOMAIN signals)
      PROVE  LET in == val \cap node_ids("INPUT")
                 st == val \cap node_ids("LATCH")
                 v == {1} \cup {signals[n] : n \in val}
             IN  /\ GraphSettled(graph, in, st, val)
                      <=> Settled(circuit, Positions("INPUT", in), Positions("LATCH", st), v)
                 /\ NextLatches(circuit, v)
                      = Positions("LATCH", {l \in node_ids("LATCH") : Shows(graph, val, l, "d")})
                 /\ OutputBits(circuit, v)
                      = Positions("OUTPUT", {o \in node_ids("OUTPUT") : Shows(graph, val, o, "in")})
  <2>1. Sorted /\ signals = NewSignals /\ circuit = NewCircuit
    BY <1>1, DoneIsSorted
  <2>2. val \in SUBSET Sourced
    BY <2>1, SignalAt
  <2>3. Shown(val) = {1} \cup {signals[n] : n \in val}
    BY <2>1 DEF Shown
  <2> QED
    BY <2>1, <2>2, <2>3, SameSettled, SameLatches, SameOutputs
<1>2. IInv => SameMachine
  BY <1>1, Zenon DEF SameMachine
<1> QED
  BY Invariant, <1>2, PTL

=============================================================================
