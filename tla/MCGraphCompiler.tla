-------------------------- MODULE MCGraphCompiler ---------------------------
(***************************************************************************)
(* GraphCompiler on: every way to wire five ports of three NANDs whose      *)
(* identifiers order them before the input; ways to wire two NANDs with a   *)
(* latch between them in the order, and two inputs; one graph listed in     *)
(* every order of its nodes and two of its connections; graphs one edit     *)
(* away from a sound one; and inputs, outputs and gates in numbers around   *)
(* the limits of the counts and of the lengths.                             *)
(***************************************************************************)
EXTENDS GraphCompiler, SequencesExt

GraphOf(ns, cs) == [nodes |-> ns, connections |-> cs]

(* kinds[id] is the kind of id; sources[k] drives the port ports[k].        *)
WiredGraph(kinds, ports, sources) ==
  GraphOf([i \in DOMAIN kinds |-> Node(i, kinds[i])],
          [k \in DOMAIN ports |->
             Connection(sources[k], output_port(kinds[sources[k]]), ports[k][1], ports[k][2])])

ThreeNands == <<"NAND", "NAND", "NAND", "INPUT", "OUTPUT">>
ThreeNandPorts == << <<1, "a">>, <<1, "b">>, <<2, "a">>, <<2, "b">>,
                     <<3, "a">>, <<3, "b">>, <<5, "in">> >>

Loops ==
  {WiredGraph(ThreeNands, ThreeNandPorts, w \o <<4, 2>>) : w \in [1 .. 5 -> 1 .. 4]}

WithLatch == <<"NAND", "LATCH", "NAND", "INPUT", "INPUT", "OUTPUT", "OUTPUT">>
WithLatchPorts == << <<1, "a">>, <<3, "b">>, <<1, "b">>, <<3, "a">>, <<2, "d">>,
                     <<6, "in">>, <<7, "in">> >>

Latched ==
  {WiredGraph(WithLatch, WithLatchPorts, <<a, b>> \o w \o <<2, 3>>) :
     a \in {2, 3}, b \in {1, 5}, w \in [1 .. 3 -> 1 .. 5]}

(* Sound graphs: in the first 3 reads 1 on both ports, which reads the latch*)
(* and an input; in the second 1 reads 3, and 2 reads 3, out of order.      *)
Sound == WiredGraph(WithLatch, WithLatchPorts, <<2, 1, 4, 1, 3, 2, 3>>)
Backwards == WiredGraph(ThreeNands, ThreeNandPorts, <<3, 4, 4, 3, 4, 4, 1>>)

Permuted(s, p) == [i \in DOMAIN s |-> s[p[i]]]
BothWays(n) == {[i \in 1 .. n |-> i], [i \in 1 .. n |-> n + 1 - i]}

Relisted(g) ==
  {GraphOf(Permuted(g.nodes, p), Permuted(g.connections, q)) :
     p \in Permutations(DOMAIN g.nodes), q \in BothWays(Len(g.connections))}

Edited(g) ==
  {[g EXCEPT !.nodes = RemoveAt(@, i)] : i \in DOMAIN g.nodes}
  \cup {[g EXCEPT !.connections = RemoveAt(@, i)] : i \in DOMAIN g.connections}
  \cup {[g EXCEPT !.nodes = Append(@, Node(id, kind))] : id \in {0, 1, 4, 9}, kind \in Kinds}
  \cup {[g EXCEPT !.nodes[i] = Node(@.id, kind)] : i \in DOMAIN g.nodes, kind \in Kinds}
  \cup {[g EXCEPT !.connections = Append(@, Connection(f, o, t, p))] :
          f \in {1, 4, 6}, o \in {"out", "q", "none"}, t \in {1, 2, 4, 8},
          p \in {"a", "d", "out"}}
  \cup {[g EXCEPT !.connections[i] = Connection(f, o, @.to, @.to_port)] :
          i \in DOMAIN g.connections, f \in 1 .. 8, o \in {"out", "q", "none"}}
  \cup {GraphOf(<<>>, <<>>)}

(* i inputs, l latches, n NANDs and o outputs, everything driven by input 1.*)
Sized(i, l, n, o) ==
  LET kinds == [k \in 1 .. i + l + n + o |->
                  CASE k <= i -> "INPUT"
                    [] k > i /\ k <= i + l -> "LATCH"
                    [] k > i + l /\ k <= i + l + n -> "NAND"
                    [] OTHER -> "OUTPUT"]
      ports == [k \in 1 .. l |-> <<i + k, "d">>]
               \o [k \in 1 .. n |-> <<i + l + k, "a">>] \o [k \in 1 .. n |-> <<i + l + k, "b">>]
               \o [k \in 1 .. o |-> <<i + l + n + k, "in">>]
  IN  WiredGraph(kinds, ports, [k \in DOMAIN ports |-> 1])

(* On both sides of MAX_U24, MAX_U32 and USIZE_MAX.                         *)
Sizes == {Sized(i, 0, 0, 1) : i \in {4, 5, 6, 22, 23}}
         \cup {Sized(1, l, 3, 1) : l \in {0, 1, 2}}
         \cup {Sized(1, 0, n, o) : n \in {0, 1}, o \in 23 .. 25}

MCGraphs == Sizes \cup Loops \cup Latched \cup Relisted(Backwards)
            \cup Edited(Sound) \cup Edited(Backwards)

=============================================================================
