---------------------------- MODULE GraphCompiler ---------------------------
(***************************************************************************)
(* encode_circuit_graph of nandry-compiler, phase by phase: the two maps it *)
(* builds from the lists, the checks, the topological sort of the NANDs     *)
(* (one step per NAND it takes from the ready set), the numbering of the    *)
(* signals, and encode_netlist.                                             *)
(***************************************************************************)
EXTENDS CircuitGraph, NetlistRules

CONSTANT Graphs    \* the graphs that may be compiled

ASSUME GraphsAssumption == Graphs \subseteq Graph

VARIABLES
  graph,          \* the argument
  pc,             \* "nodes", "connections", "drivers", "order", "sort", "number",
                  \* "done", "failed"
  nodes,          \* identifier -> kind
  drivers,        \* <<identifier, port>> -> identifier of the source
  dependencies,   \* NAND -> NANDs it reads that are not in ordered yet
  dependents,     \* NAND -> NANDs that read it
  ready,
  ordered,
  signals,        \* identifier -> signal
  circuit,        \* the netlist handed to encode_netlist
  error

maps == <<nodes, drivers>>
sort == <<dependencies, dependents, ready, ordered>>
vars == <<graph, pc, maps, sort, signals, circuit, error>>

Empty == [x \in {} |-> x]

Init ==
  /\ graph \in Graphs
  /\ pc = "nodes"
  /\ nodes = Empty
  /\ drivers = Empty
  /\ dependencies = Empty
  /\ dependents = Empty
  /\ ready = {}
  /\ ordered = <<>>
  /\ signals = Empty
  /\ circuit = [input_count |-> 0, latch_count |-> 0, outputs |-> <<>>, gates |-> <<>>]
  /\ error = "none"

Fail(e) ==
  /\ pc' = "failed"
  /\ error' = e
  /\ UNCHANGED <<graph, maps, sort, signals, circuit>>

(* A loop that returns at its first error.                                  *)
FirstError(errors) ==
  IF \E k \in DOMAIN errors : errors[k] # "none"
  THEN errors[CHOOSE k \in DOMAIN errors :
                errors[k] # "none" /\ \A j \in 1 .. k - 1 : errors[j] = "none"]
  ELSE "none"

-----------------------------------------------------------------------------
NodeErrors ==
  [k \in DOMAIN graph.nodes |->
     IF graph.nodes[k].id = EmptyId THEN "EmptyNodeId"
     ELSE IF \E j \in 1 .. k - 1 : graph.nodes[j].id = graph.nodes[k].id THEN "DuplicateNode"
     ELSE "none"]

CollectNodes ==
  /\ pc = "nodes"
  /\ IF FirstError(NodeErrors) # "none" THEN Fail(FirstError(NodeErrors))
     ELSE /\ nodes' = [id \in Ids(graph) |->
                         graph.nodes[CHOOSE k \in DOMAIN graph.nodes : graph.nodes[k].id = id].kind]
          /\ pc' = "connections"
          /\ UNCHANGED <<graph, drivers, sort, signals, circuit, error>>

Target(c) == <<c.to, c.to_port>>

InvalidSource(c) == \/ output_port(nodes[c.from]) = "none"
                    \/ output_port(nodes[c.from]) # c.from_port

ConnectionErrors ==
  [k \in DOMAIN graph.connections |->
     LET c == graph.connections[k]
     IN  IF {c.from, c.to} \ DOMAIN nodes # {} THEN "UnknownNode"
         ELSE IF InvalidSource(c) THEN "InvalidSourcePort"
         ELSE IF c.to_port \notin input_ports(nodes[c.to]) THEN "InvalidTargetPort"
         ELSE IF \E j \in 1 .. k - 1 : Target(graph.connections[j]) = Target(c)
         THEN "MultipleDrivers"
         ELSE "none"]

CollectConnections ==
  /\ pc = "connections"
  /\ IF FirstError(ConnectionErrors) # "none" THEN Fail(FirstError(ConnectionErrors))
     ELSE /\ drivers' = [t \in {Target(c) : c \in Elements(graph.connections)} |->
                           (CHOOSE c \in Elements(graph.connections) : Target(c) = t).from]
          /\ pc' = "drivers"
          /\ UNCHANGED <<graph, nodes, sort, signals, circuit, error>>

node_ids(kind) == {id \in DOMAIN nodes : nodes[id] = kind}

CheckDrivers ==
  /\ pc = "drivers"
  /\ IF node_ids("INPUT") = {} THEN Fail("EmptyInputs")
     ELSE IF node_ids("OUTPUT") = {} THEN Fail("EmptyOutputs")
     ELSE IF \E id \in DOMAIN nodes : \E p \in input_ports(nodes[id]) :
               <<id, p>> \notin DOMAIN drivers THEN Fail("MissingDriver")
     ELSE /\ pc' = "order"
          /\ UNCHANGED <<graph, maps, sort, signals, circuit, error>>

-----------------------------------------------------------------------------
(* topological_nand_order.                                                  *)

(* Slip: the second port is forgotten.                                      *)
FirstSource(n) == {drivers[t] : t \in {<<n, "a">>} \cap DOMAIN drivers}

Sources(n) == {drivers[t] : t \in {<<n, "a">>, <<n, "b">>} \cap DOMAIN drivers}

StartOrder ==
  /\ pc = "order"
  /\ LET nand == node_ids("NAND")
         reads == [n \in nand |-> Sources(n) \cap nand]
     IN  /\ dependencies' = reads
         /\ dependents' = [n \in nand |-> {m \in nand : n \in reads[m]}]
         /\ ready' = {n \in nand : reads[n] = {}}
  /\ pc' = "sort"
  /\ UNCHANGED <<graph, maps, ordered, signals, circuit, error>>

(* Slip: pop_last.                                                          *)
Greatest(S) == CHOOSE n \in S : \A m \in S : n >= m

Least(S) == CHOOSE n \in S : \A m \in S : n <= m

(* Slip: a dependent is ready as soon as one of its sources is ordered.     *)
Dependents(node) == dependents[node]

(* The dependents that wait for nothing once node is removed.               *)
Released(node) == {n \in dependents[node] : dependencies[n] \ {node} = {}}

PopFirst ==
  /\ pc = "sort"
  /\ ready # {}
  /\ LET node == Least(ready)
     IN  /\ ordered' = Append(ordered, node)
         /\ dependencies' = [n \in DOMAIN dependencies |->
                               IF n \in dependents[node] THEN dependencies[n] \ {node}
                                                         ELSE dependencies[n]]
         /\ ready' = (ready \ {node}) \cup Released(node)
  /\ UNCHANGED <<graph, pc, maps, dependents, signals, circuit, error>>

(* The sort is over; a NAND left out lies on a loop or behind one.  The     *)
(* counts must fit before signals get their numbers.                        *)
GraphSignals == 2 + Cardinality(node_ids("INPUT")) + Cardinality(node_ids("LATCH"))
                  + Cardinality(node_ids("NAND"))

(* Slip: the loop waits until every NAND is ordered.                        *)
AllOrdered == Len(ordered) = Cardinality(node_ids("NAND"))

SortOver == ready = {}

EndOrder ==
  /\ pc = "sort"
  /\ SortOver
  /\ IF Len(ordered) # Cardinality(node_ids("NAND")) THEN Fail("CombinationalCycle")
     ELSE IF GraphSignals > MAX_U32 THEN Fail("CountOverflow")
     ELSE IF GraphSignals - 1 > MAX_U24 THEN Fail("SignalSpaceExhausted")
     ELSE /\ pc' = "number"
          /\ UNCHANGED <<graph, maps, sort, signals, circuit, error>>

-----------------------------------------------------------------------------
(* Slip: the NANDs are numbered before the latches.                         *)
NandsFirst == Ascending(node_ids("INPUT")) \o ordered \o Ascending(node_ids("LATCH"))

(* Signals are numbered inputs first, then latches, then the NANDs in the   *)
(* order of the sort, and every port becomes the signal of its source.      *)
Numbered == Ascending(node_ids("INPUT")) \o Ascending(node_ids("LATCH")) \o ordered

NewSignals ==
  [id \in Elements(Numbered) |-> 1 + CHOOSE i \in DOMAIN Numbered : Numbered[i] = id]

source_signal(to, port) == NewSignals[drivers[<<to, port>>]]

NewCircuit ==
  LET outputs == Ascending(node_ids("OUTPUT"))
      latches == Ascending(node_ids("LATCH"))
  IN  [input_count |-> Cardinality(node_ids("INPUT")),
       latch_count |-> Len(latches),
       outputs |-> [k \in DOMAIN outputs |-> source_signal(outputs[k], "in")],
       gates |-> [l \in DOMAIN latches |-> Latch(source_signal(latches[l], "d"))]
                 \o [i \in DOMAIN ordered |-> Nand(source_signal(ordered[i], "a"),
                                                   source_signal(ordered[i], "b"))]]

(* The sources that get no signal.                                          *)
Unnumbered ==
  {t \in DOMAIN drivers : drivers[t] \notin Elements(Numbered)}

(* The netlist goes through encode_netlist, which has errors of its own     *)
(* (module NetlistRules; loop by loop in module Encoder).                   *)
Number ==
  /\ pc = "number"
  /\ IF Unnumbered # {} THEN Fail("MissingSignal")
     ELSE IF EncodeError(NewCircuit) # "none" THEN Fail(EncodeError(NewCircuit))
     ELSE /\ signals' = NewSignals
          /\ circuit' = NewCircuit
          /\ pc' = "done"
          /\ UNCHANGED <<graph, maps, sort, error>>

Next == \/ CollectNodes \/ CollectConnections \/ CheckDrivers
        \/ StartOrder \/ PopFirst \/ EndOrder \/ Number

Spec == Init /\ [][Next]_vars /\ WF_vars(Next)

-----------------------------------------------------------------------------
(* Properties.                                                              *)

Errors == {"EmptyNodeId", "DuplicateNode", "UnknownNode", "InvalidSourcePort",
           "InvalidTargetPort", "MultipleDrivers", "EmptyInputs", "EmptyOutputs",
           "MissingDriver", "CombinationalCycle", "CountOverflow", "SignalSpaceExhausted",
           "BodyTooLarge"}

(* Every variable keeps its type, and of the errors of CompileError only    *)
(* those a graph can deserve are returned: the ones that would mean the     *)
(* compiler numbered the graph wrongly (MissingSignal, and the references   *)
(* and the latch order of encode_netlist) are not.                          *)
TypeOK ==
  /\ graph \in Graph
  /\ pc \in {"nodes", "connections", "drivers", "order", "sort", "number", "done", "failed"}
  /\ \A id \in DOMAIN nodes : nodes[id] \in Kinds
  /\ \A t \in DOMAIN drivers : drivers[t] \in DOMAIN nodes
  /\ DOMAIN dependencies = DOMAIN dependents
  /\ ready \subseteq DOMAIN dependencies
  /\ Elements(ordered) \subseteq DOMAIN dependencies
  /\ circuit \in Circuit
  /\ error \in Errors \cup {"none"}

(* The bookkeeping of the sort: dependencies holds exactly the reads that   *)
(* are not ordered yet, and ready exactly the NANDs that wait for nothing,  *)
(* although both are only touched where a popped NAND points (a NAND that   *)
(* reads one source on both ports counts it once).                          *)
Pending(n) == (Sources(n) \cap node_ids("NAND")) \ Elements(ordered)

SortBookkeeping ==
  pc = "sort" =>
    /\ \A n \in DOMAIN dependencies : dependencies[n] = Pending(n)
    /\ ready = {n \in DOMAIN dependencies \ Elements(ordered) : Pending(n) = {}}

(* Both, for every moment of a run: the maps, the sort, and what is returned.*)
Inv == TypeOK /\ SortBookkeeping

(* The bytes depend on the graph and not on how it is listed: the netlist   *)
(* is the one CircuitGraph derives from the sets of nodes and connections,  *)
(* and its NANDs are in the lexicographically least topological order.      *)
IsCanonical == pc = "done" => circuit = CanonicalCircuit(graph)

(* The sizes of the file a graph becomes.                                   *)
Fits(g) ==
  LET latches == Cardinality(OfKind(g, "LATCH"))
      nands == Cardinality(OfKind(g, "NAND"))
      outputs == Cardinality(OfKind(g, "OUTPUT"))
      body == LATCH_LEN * latches + NAND_LEN * nands
  IN  /\ 1 + Cardinality(OfKind(g, "INPUT")) + latches + nands <= MAX_U24
      /\ outputs <= MAX_U32
      /\ body <= MAX_U32
      /\ HEADER_LEN + 3 * outputs + body <= USIZE_MAX

(* A graph is refused exactly when it is not wired, has a loop of NANDs     *)
(* with no latch on it, or its file would not fit; CombinationalCycle means *)
(* a loop.                                                                  *)
RefusesExactly ==
  /\ pc = "done" => Wired(graph) /\ Acyclic(graph) /\ Fits(graph)
  /\ pc = "failed" => ~Wired(graph) \/ ~Acyclic(graph) \/ ~Fits(graph)
  /\ error = "CombinationalCycle" => Wired(graph) /\ ~Acyclic(graph)

(* The circuit computes what the graph says: under the numbering, the       *)
(* settled valuations of the circuit are those of the graph, and its latches*)
(* and outputs take the values of the nodes that drive them.                *)
Positions(kind, S) == {i - 1 : i \in {k \in DOMAIN Ascending(node_ids(kind)) :
                                        Ascending(node_ids(kind))[k] \in S}}

SameMachine ==
  pc = "done" =>
    \A val \in SUBSET (DOMAIN signals) :
      LET in == val \cap node_ids("INPUT")
          st == val \cap node_ids("LATCH")
          v == {1} \cup {signals[n] : n \in val}
      IN  /\ GraphSettled(graph, in, st, val)
               <=> Settled(circuit, Positions("INPUT", in), Positions("LATCH", st), v)
          /\ NextLatches(circuit, v)
               = Positions("LATCH", {l \in node_ids("LATCH") : Shows(graph, val, l, "d")})
          /\ OutputBits(circuit, v)
               = Positions("OUTPUT", {o \in node_ids("OUTPUT") : Shows(graph, val, o, "in")})

(* docs/tsol-v1.md:90 fixes the port of a source as `out`: a graph that     *)
(* compiles uses no other, and one that uses no other is not refused for a  *)
(* source port unless an OUTPUT node is the source.  A latch is wired by q. *)
SourcePortsAreOut ==
  /\ pc = "done" => \A c \in Elements(graph.connections) : c.from_port = "out"
  /\ error = "InvalidSourcePort" =>
       \E c \in Elements(graph.connections) :
         c.from_port # "out" \/ c.from \in node_ids("OUTPUT")

(* The compiler returns: the sort runs out of ready NANDs.                  *)
CompileEnds == <>(pc \in {"done", "failed"})

=============================================================================
