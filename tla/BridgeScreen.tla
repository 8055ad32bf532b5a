----------------------------- MODULE BridgeScreen -----------------------------
(* Which outages may join a batch: N1ConnectivityScreen (pf_screen.hpp),   *)
(* what the assembler makes of it (p_buildConnectivityScreen and prepare,  *)
(* pf_batch_ca_assembler.hpp), and the complete probe that it replaces     *)
(* (setContingency with checkLoneBus, checkAndTransferSlack and            *)
(* detectIslands of pf_factory_module.cpp).                                *)
(*                                                                         *)
(* The screen finds the bridges of the graph of buses and circuits in one  *)
(* depth-first walk that keeps its own stack.  The walk is modelled step   *)
(* by step, and so is the union-find count of the components that are left *)
(* without an outage, which the constructor of the table waits for.        *)
(***************************************************************************)
EXTENDS Integers, Sequences, FiniteSets

CONSTANTS
  NBus,      \* buses of the largest network
  Networks   \* isolated buses, circuits, and has the reference bus a generator?

Bus == 0 .. (NBus - 1)

ASSUME ScreenAssumption ==
  /\ NBus \in Nat
  /\ Networks \subseteq [isolated : SUBSET Bus, refHasGen : BOOLEAN,
                         line : Seq([u : Bus, v : Bus, on : BOOLEAN])]

VARIABLES
  net,
  pc,           \* "build", "merge", "counted", "walk" or "done"
  scanned,      \* the circuits looked at so far
  keys,         \* the circuit behind each edge of the screen
  edges,        \* p_from and p_to
  outage,       \* the argument of componentsWithout; 0 is the code's -1
  forest,       \* root, the union-find of componentsWithout
  merged,       \* the edges that have had their turn in it
  base,         \* the base components found by the walk
  discovery, low, parentVertex, parentEdge, bridge, clock,
  root,         \* the root loop
  stack,        \* frames, the top one last
  lineIsBridge  \* p_lineIsBridge: the circuits it knows, and its answer

graphVars == <<net, scanned, keys, edges>>
unionVars == <<outage, forest, merged>>
walkVars == <<base, discovery, low, parentVertex, parentEdge, bridge, clock, root, stack>>
vars == <<graphVars, pc, unionVars, walkVars, lineIsBridge>>

ActiveBus == {b \in Bus : b \notin net.isolated}
N == Cardinality(ActiveBus)
ScreenIndex(b) == Cardinality({c \in ActiveBus : c < b})

Vertex == 0 .. (N - 1)
Edge == DOMAIN edges

Singletons == [v \in Vertex |-> v]

Init ==
  /\ net \in Networks
  /\ pc = "build" /\ scanned = 0 /\ keys = <<>> /\ edges = <<>>
  /\ outage = 0 /\ forest = Singletons /\ merged = 0
  /\ base = 0 /\ clock = 0 /\ root = 0 /\ stack = <<>>
  /\ discovery = [v \in Vertex |-> -1] /\ low = [v \in Vertex |-> -1]
  /\ parentVertex = [v \in Vertex |-> -1] /\ parentEdge = [v \in Vertex |-> 0]
  /\ bridge = {}
  /\ lineIsBridge = [l \in {} |-> FALSE]

-----------------------------------------------------------------------------
(* Plausible bugs, for the mutants. *)

(* The walk does not go back to the vertex it came from. *)
CameFromVertex(u, e) == parentVertex[u] \in {edges[e].u, edges[e].v}

(* The shortcut is used whatever the base looks like. *)
AuthoritativeAlways(components) == TRUE

(* The frame stays at its edge. *)
AdvancedNot(e) == stack

-----------------------------------------------------------------------------
(* p_buildConnectivityScreen up to the walk: the buses that are not        *)
(* isolated are numbered anew, and the circuits in service between two of  *)
(* them become edges.                                                      *)
InScreen(l) ==
  /\ net.line[l].on
  /\ net.line[l].u \in ActiveBus /\ net.line[l].v \in ActiveBus

AddEdge ==
  LET l == scanned + 1
  IN  /\ pc = "build" /\ scanned < Len(net.line) /\ InScreen(l)
      /\ keys' = Append(keys, l)
      /\ edges' = Append(edges, [u |-> ScreenIndex(net.line[l].u),
                                 v |-> ScreenIndex(net.line[l].v)])
      /\ scanned' = l
      /\ UNCHANGED <<net, pc, unionVars, walkVars, lineIsBridge>>

SkipCircuit ==
  /\ pc = "build" /\ scanned < Len(net.line) /\ ~InScreen(scanned + 1)
  /\ scanned' = scanned + 1
  /\ UNCHANGED <<net, keys, edges, pc, unionVars, walkVars, lineIsBridge>>

-----------------------------------------------------------------------------
(* componentsWithout: union-find.  The table asks for the base case, the   *)
(* tests for every outage as well.  Path halving moves entries nearer to   *)
(* their root and is left out.                                             *)

StartCount ==
  /\ pc = "build" /\ scanned = Len(net.line)
  /\ pc' = "merge"
  /\ outage' \in {0} \cup Edge
  /\ UNCHANGED <<graphVars, forest, merged, walkVars, lineIsBridge>>

Find(r, x) == LET f[y \in DOMAIN r] == IF r[y] = y THEN y ELSE f[r[y]] IN f[x]

Merge(r, edge) == [r EXCEPT ![Find(r, edge.u)] = Find(r, edge.v)]

Roots(r) == Cardinality({v \in DOMAIN r : Find(r, v) = v})

Counts(e) == e # outage

MergeEdge ==
  LET e == merged + 1
  IN  /\ pc = "merge" /\ merged < Len(edges)
      /\ forest' = IF Counts(e) THEN Merge(forest, edges[e]) ELSE forest
      /\ merged' = e
      /\ UNCHANGED <<graphVars, pc, outage, walkVars, lineIsBridge>>

Merged ==
  /\ pc = "merge" /\ merged = Len(edges)
  /\ pc' = IF outage = 0 THEN "walk" ELSE "counted"
  /\ UNCHANGED <<graphVars, unionVars, walkVars, lineIsBridge>>

-----------------------------------------------------------------------------
(* screenAllBranchOutages.  The tests call it on any graph, so the walk is *)
(* made here also if the base is not connected.                            *)

(* graph[u], the edges at u without loops.  The list is in the order of    *)
(* the edges, so that a frame's place in it is the last edge it has taken. *)
Graph(u) ==
  {e \in Edge : edges[e].u # edges[e].v /\ u \in {edges[e].u, edges[e].v}}

To(u, e) == IF edges[e].u = u THEN edges[e].v ELSE edges[e].u

Rest(frame) == {e \in Graph(frame.vertex) : e > frame.taken}

Discover(v) ==
  /\ discovery' = [discovery EXCEPT ![v] = clock]
  /\ low' = [low EXCEPT ![v] = clock]
  /\ clock' = clock + 1

SkipRoot ==
  /\ pc = "walk" /\ stack = <<>> /\ root < N /\ discovery[root] >= 0
  /\ root' = root + 1
  /\ UNCHANGED <<graphVars, unionVars, pc, base, discovery, low, parentVertex, parentEdge,
                 bridge, clock, stack, lineIsBridge>>

NewRoot ==
  /\ pc = "walk" /\ stack = <<>> /\ root < N /\ discovery[root] < 0
  /\ base' = base + 1
  /\ Discover(root)
  /\ stack' = <<[vertex |-> root, taken |-> 0]>>
  /\ root' = root + 1
  /\ UNCHANGED <<graphVars, unionVars, pc, parentVertex, parentEdge, bridge, lineIsBridge>>

(* The edge was used to come here: its id tells, as a parallel circuit has *)
(* the same ends.                                                          *)
CameFrom(u, e) == e = parentEdge[u]

Top == stack[Len(stack)]

Advanced(e) == [stack EXCEPT ![Len(stack)].taken = e]

WalkEdge(e) ==
  LET u == Top.vertex
      w == To(u, e)
  IN  /\ pc = "walk" /\ stack # <<>>
      /\ e \in Rest(Top) /\ \A f \in Rest(Top) : e <= f
      /\ \/ /\ CameFrom(u, e)
            /\ stack' = Advanced(e)
            /\ UNCHANGED <<discovery, low, clock, parentVertex, parentEdge>>
         \/ /\ ~CameFrom(u, e) /\ discovery[w] < 0
            /\ parentVertex' = [parentVertex EXCEPT ![w] = u]
            /\ parentEdge' = [parentEdge EXCEPT ![w] = e]
            /\ Discover(w)
            /\ stack' = Append(Advanced(e), [vertex |-> w, taken |-> 0])
         \/ /\ ~CameFrom(u, e) /\ discovery[w] >= 0
            /\ low' = [low EXCEPT ![u] = IF discovery[w] < @ THEN discovery[w] ELSE @]
            /\ stack' = Advanced(e)
            /\ UNCHANGED <<discovery, clock, parentVertex, parentEdge>>
      /\ UNCHANGED <<graphVars, unionVars, pc, base, bridge, root, lineIsBridge>>

Pop ==
  LET u == Top.vertex
      p == parentVertex[u]
  IN  /\ pc = "walk" /\ stack # <<>> /\ Rest(Top) = {}
      /\ stack' = SubSeq(stack, 1, Len(stack) - 1)
      /\ IF p >= 0
         THEN /\ low' = [low EXCEPT ![p] = IF low[u] < @ THEN low[u] ELSE @]
              /\ bridge' = IF low[u] > discovery[p] THEN bridge \cup {parentEdge[u]}
                           ELSE bridge
         ELSE UNCHANGED <<low, bridge>>
      /\ UNCHANGED <<graphVars, unionVars, pc, base, discovery, parentVertex, parentEdge,
                     clock, root, lineIsBridge>>

(* What screenAllBranchOutages returns for edge e. *)
OutageComponents(e) == base + (IF e \in bridge THEN 1 ELSE 0)

(* The shortcut is authoritative only for a connected base. *)
Authoritative(components) == components = 1

Tabulate ==
  LET components == Roots(forest)
  IN  /\ pc = "walk" /\ stack = <<>> /\ root = N
      /\ pc' = "done"
      /\ lineIsBridge' =
           IF Authoritative(components)
           THEN [l \in {keys[e] : e \in Edge} |->
                   \E e \in Edge : keys[e] = l /\ OutageComponents(e) > components]
           ELSE lineIsBridge
      /\ UNCHANGED <<graphVars, unionVars, walkVars>>

Next ==
  \/ AddEdge \/ SkipCircuit \/ StartCount \/ MergeEdge \/ Merged
  \/ SkipRoot \/ NewRoot \/ (\E e \in Edge : WalkEdge(e)) \/ Pop \/ Tabulate
  \/ pc \in {"counted", "done"} /\ UNCHANGED vars

Spec == Init /\ [][Next]_vars

(* It is a sequential computation that nothing blocks. *)
FairSpec == Spec /\ WF_vars(Next)

-----------------------------------------------------------------------------
(* The complete probe of the outage of circuit l. *)

On(l, m) == net.line[m].on /\ m # l

(* checkLoneBus: no circuit in service at the bus, to whatever bus. *)
LoneBus(l) ==
  {b \in ActiveBus :
     \A m \in DOMAIN net.line : On(l, m) => b \notin {net.line[m].u, net.line[m].v}}

(* detectIslands on the buses that are left: from each the buses that a    *)
(* breadth-first search comes to, which are those in every set that has it *)
(* and all neighbours of its members.                                      *)
Islands(l) ==
  LET left == ActiveBus \ LoneBus(l)
      Joins(m, a, b) == On(l, m) /\ {net.line[m].u, net.line[m].v} = {a, b}
      Near(S) == {b \in left : \E m \in DOMAIN net.line : \E a \in S : Joins(m, a, b)}
      From(b) == {c \in left : \A S \in SUBSET left : b \in S /\ Near(S) \subseteq S => c \in S}
  IN  {From(b) : b \in left}

(* The signature of the buses returns to the base one unless the reference *)
(* moves, or cannot, because it has no generator.                          *)
Probe(l) == LoneBus(l) = {} /\ Cardinality(Islands(l)) <= 1 /\ net.refHasGen

(* prepare for an event that takes one circuit out. *)
Eligible(l) == IF l \in DOMAIN lineIsBridge THEN ~lineIsBridge[l] ELSE Probe(l)

-----------------------------------------------------------------------------
(* The components of the graph with the edges in es: two vertices are in   *)
(* one if no division of the vertices that none of the edges crosses has   *)
(* them on different sides.                                                *)
Crosses(e, S) == ~(edges[e].u \in S <=> edges[e].v \in S)

Joined(es, a, b) ==
  \A S \in SUBSET Vertex : a \in S /\ b \notin S => \E e \in es : Crosses(e, S)

Component(es, a) == {b \in Vertex : Joined(es, a, b)}

Components(es) == {Component(es, a) : a \in Vertex}

(* For every circuit, parallel ones and loops included, and for connected  *)
(* and disconnected networks, the walk and union-find both count the       *)
(* components that are left without it.                                    *)
ScreenIsExact ==
  /\ pc \in {"counted", "walk"} =>
       Roots(forest) = Cardinality(Components(Edge \ {outage}))
  /\ pc = "done" =>
       \A e \in Edge : OutageComponents(e) = Cardinality(Components(Edge \ {e}))

(* The shortcut lets the same outages into the batch as the probe it       *)
(* replaces, if the reference bus of the base has a generator in service.  *)
(* If it has none the probe would have moved the reference or given up.    *)
(* A bus that is the only one and has a circuit to itself is lone for the  *)
(* probe; the screen does not look for lone buses.                         *)
ShortcutIsProbe ==
  pc = "done" /\ net.refHasGen /\ N > 1 =>
    \A l \in DOMAIN net.line : net.line[l].on => (Eligible(l) <=> Probe(l))

(* Merging, and the walk without recursion, come to their end. *)
Terminates == <>(pc \in {"counted", "done"})

=============================================================================
