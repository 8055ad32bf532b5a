-------------------------- MODULE BridgeScreenProofs --------------------------
(* Proofs about BridgeScreen, for any set of networks: union-find and the  *)
(* depth-first walk both count the components that are left without a      *)
(* circuit, and the table made of them admits what the probe admits.       *)
(*                                                                         *)
(* The invariant of the walk follows Tarjan: stack and parents make a tree *)
(* (PathInv, ParentInv, TreeInv), what is finished has no edge to what is  *)
(* not known (DoneInv), low is at most what any edge seen reaches (LowInv) *)
(* and is reached by an edge around the parent's (WitnessInv).  With a low *)
(* point above the parent the edge is a cut, without it is none.           *)
(***************************************************************************)
EXTENDS BridgeScreen, SequenceTheorems, FiniteSetTheorems, NaturalsInduction,
        WellFoundedInduction, TLAPS

Frame == [vertex : Vertex, taken : Nat]

TypeInv ==
  /\ net \in Networks
  /\ pc \in {"build", "merge", "counted", "walk", "done"}
  /\ scanned \in 0 .. Len(net.line)
  /\ keys \in Seq(Nat) /\ edges \in Seq([u : Vertex, v : Vertex])
  /\ Len(keys) = Len(edges)
  /\ outage \in Nat /\ merged \in 0 .. Len(edges)
  /\ forest \in [Vertex -> Vertex]
  /\ base \in Nat /\ clock \in Nat /\ root \in 0 .. N
  /\ discovery \in [Vertex -> Int] /\ low \in [Vertex -> Int]
  /\ parentVertex \in [Vertex -> Vertex \cup {-1}] /\ parentEdge \in [Vertex -> Nat]
  /\ bridge \subseteq Edge
  /\ stack \in Seq(Frame)

(* The edges are the circuits of the screen among those looked at, in      *)
(* their order.                                                            *)
KeyInv ==
  /\ \A e \in Edge :
       /\ keys[e] \in 1 .. scanned /\ InScreen(keys[e])
       /\ edges[e].u = ScreenIndex(net.line[keys[e]].u)
       /\ edges[e].v = ScreenIndex(net.line[keys[e]].v)
  /\ \A e, f \in Edge : e < f => keys[e] < keys[f]
  /\ \A l \in 1 .. scanned : InScreen(l) => \E e \in Edge : keys[e] = l
  /\ pc # "build" => scanned = Len(net.line)

(* Each vertex of the forest r has the root that rt says, and is no farther*)
(* from it than rank says.                                                 *)
IsForest(r, rt, rank) ==
  \A v \in Vertex :
    /\ r[rt[v]] = rt[v] /\ rt[r[v]] = rt[v]
    /\ r[v] = v => rt[v] = v
    /\ r[v] # v => rank[r[v]] < rank[v]

Taken == {e \in 1 .. merged : e # outage}

(* The forest has joined the ends of the edges taken so far, and nothing   *)
(* that these edges do not join.                                           *)
UnionInv ==
  /\ pc = "build" => merged = 0
  /\ pc \in {"counted", "walk", "done"} => merged = Len(edges)
  /\ pc \in {"walk", "done"} => outage = 0
  /\ \E rt \in [Vertex -> Vertex], rank \in [Vertex -> Nat] :
       /\ IsForest(forest, rt, rank)
       /\ \A e \in Taken : rt[edges[e].u] = rt[edges[e].v]
       /\ \A v \in Vertex : Joined(Taken, v, rt[v])

-----------------------------------------------------------------------------
(* Vertices: known, on the stack, finished; roots of a tree and their      *)
(* descendants.  Edges: those that led to a vertex.                        *)
Known == {v \in Vertex : discovery[v] >= 0}
Place == 1 .. Len(stack)
At(k) == stack[k].vertex
When(k) == discovery[stack[k].vertex]
Open == {stack[k].vertex : k \in Place}
Finished == Known \ Open
TreeRoots == {v \in Known : parentVertex[v] = -1}
Child == {v \in Known : parentVertex[v] # -1}
TreeEdges(from, to) ==
  {parentEdge[v] : v \in {w \in Child : from < discovery[w] /\ discovery[w] <= to}}
Tree == {parentEdge[v] : v \in Child}

(* The edge's ends come apart without it.                                  *)
Cut(e) == ~Joined(Edge \ {e}, edges[e].u, edges[e].v)

(* Before the walk nothing of it is there, and no table before its end.    *)
FreshInv ==
  /\ pc \notin {"walk", "done"} =>
       /\ Known = {} /\ stack = <<>> /\ root = 0 /\ base = 0 /\ bridge = {}
  /\ pc = "done" => root = N /\ stack = <<>>
  /\ pc # "done" => lineIsBridge = [l \in {} |-> FALSE]

(* Times of discovery are past and differ.                                 *)
ClockInv ==
  /\ \A v \in Known : discovery[v] < clock
  /\ \A v, w \in Known : discovery[v] = discovery[w] => v = w

(* The root loop leaves no vertex behind, and base counts its trees.       *)
RootsInv ==
  /\ \A v \in Vertex : v < root => v \in Known
  /\ base = Cardinality(TreeRoots)

(* The stack is a path down the tree, in the order of discovery.           *)
PathInv ==
  /\ \A k \in Place : At(k) \in Known
  /\ \A k \in Place : IF k = 1 THEN At(k) \in TreeRoots
                               ELSE parentVertex[At(k)] = At(k - 1)
  /\ \A j, k \in Place : j < k => When(j) < When(k)

(* parentEdge joins a vertex to its parent, which was known before it.     *)
ParentInv ==
  /\ \A v \in Child :
       /\ parentVertex[v] \in Known
       /\ discovery[parentVertex[v]] < discovery[v]
       /\ parentEdge[v] \in Graph(v) /\ To(v, parentEdge[v]) = parentVertex[v]
  /\ \A v \in Vertex : v \notin Child => parentEdge[v] = 0 /\ parentVertex[v] = -1

(* The edges that a frame has taken lead to known vertices.                *)
ScanInv ==
  \A k \in Place : \A e \in Graph(At(k)) : e <= stack[k].taken => To(At(k), e) \in Known

(* So do all edges of a finished vertex, and none of them leads to a vertex*)
(* that was found after a later frame.                                     *)
DoneInv ==
  \A v \in Finished : \A e \in Graph(v) :
    /\ To(v, e) \in Known
    /\ \A k \in Place : discovery[v] < When(k) => discovery[To(v, e)] < When(k)

(* What was found since a frame is joined to its vertex by tree edges of   *)
(* that time.                                                              *)
TreeInv ==
  \A k \in Place : \A v \in Known :
    When(k) <= discovery[v] => Joined(TreeEdges(When(k), discovery[v]), At(k), v)

(* Every known vertex is joined to a root by tree edges.                   *)
SpanInv == \A v \in Known : \E r \in TreeRoots : Joined(Tree, r, v)

(* No edge leads from one tree to a later one.                             *)
ApartInv ==
  \A r \in TreeRoots : \A v \in Known : \A e \in Graph(v) :
    discovery[v] < discovery[r] => /\ To(v, e) \in Known
                                   /\ discovery[To(v, e)] < discovery[r]

(* v was found since frame k and before the next one.                      *)
InSegment(v, k) == /\ When(k) <= discovery[v]
                   /\ \A j \in Place : k < j => discovery[v] < When(j)

(* The walk has looked at edge e from v, which is in the segment of k.     *)
Seen(v, e, k) == \/ v \in Finished
                 \/ v = At(k) /\ e <= stack[k].taken /\ e # parentEdge[v]

(* low is no higher than what an edge that was seen reaches below the frame.*)
LowInv ==
  \A k \in Place : \A v \in Known : \A e \in Graph(v) :
    InSegment(v, k) /\ Seen(v, e, k) /\ discovery[To(v, e)] < When(k) =>
      low[At(k)] <= discovery[To(v, e)]

Reaches(k, w, e) == /\ When(k) <= discovery[w] /\ e # parentEdge[At(k)]
                    /\ To(w, e) \in Known /\ low[At(k)] = discovery[To(w, e)]

(* If low is below the frame, an edge other than the one to the parent     *)
(* reaches it.                                                             *)
WitnessInv ==
  \A k \in Place :
    \/ low[At(k)] = When(k)
    \/ /\ low[At(k)] < When(k)
       /\ \E w \in Known : \E e \in Graph(w) : Reaches(k, w, e)

(* Of the edges to finished vertices, the bridges are the cuts.            *)
BridgeInv ==
  /\ \A e \in bridge : \E v \in Finished \cap Child : parentEdge[v] = e
  /\ \A v \in Finished \cap Child : parentEdge[v] \in bridge <=> Cut(parentEdge[v])

WalkInv ==
  /\ ClockInv /\ RootsInv /\ PathInv /\ ParentInv /\ ScanInv /\ DoneInv
  /\ TreeInv /\ SpanInv /\ ApartInv /\ LowInv /\ WitnessInv /\ BridgeInv

(* The table says for each circuit of the screen whether the count goes up.*)
TableInv ==
  pc = "done" => lineIsBridge = IF Roots(forest) = 1
           THEN [l \in {keys[e] : e \in Edge} |->
                   \E e \in Edge : keys[e] = l /\ OutageComponents(e) > Roots(forest)]
           ELSE [l \in {} |-> FALSE]

IInv == TypeInv /\ KeyInv /\ UnionInv /\ FreshInv /\ WalkInv /\ TableInv

-----------------------------------------------------------------------------
(* Vertices and edges.                                                     *)

GraphType == edges \in Seq([u : Vertex, v : Vertex])

(* What a division of the vertices has to do with the edges. *)
LEMMA EdgeEnds ==
  ASSUME GraphType, NEW e \in Edge
  PROVE  edges[e].u \in Vertex /\ edges[e].v \in Vertex /\ e \in Nat \ {0}
<1>1. Edge = 1 .. Len(edges) /\ Len(edges) \in Nat
  BY DEF GraphType, Edge
<1>2. e \in Nat \ {0} /\ e \in 1 .. Len(edges)
  BY <1>1
<1>3. edges[e] \in [u : Vertex, v : Vertex]
  BY <1>2, ElementOfSeq DEF GraphType
<1> QED
  BY <1>2, <1>3

(* An edge at a vertex has the vertex and another one as its ends.         *)
LEMMA GraphOf ==
  ASSUME GraphType, NEW w \in Vertex, NEW e \in Graph(w)
  PROVE  /\ e \in Edge /\ To(w, e) \in Vertex /\ To(w, e) # w
         /\ e \in Graph(To(w, e)) /\ To(To(w, e), e) = w
         /\ {edges[e].u, edges[e].v} = {w, To(w, e)}
<1>1. e \in Edge /\ edges[e].u # edges[e].v /\ w \in {edges[e].u, edges[e].v}
  BY DEF Graph
<1>2. edges[e].u \in Vertex /\ edges[e].v \in Vertex
  BY <1>1, EdgeEnds
<1> QED
  BY <1>1, <1>2 DEF Graph, To

(* Every vertex is joined to itself.                                       *)
LEMMA JoinedSelf ==
  ASSUME NEW es, NEW a PROVE Joined(es, a, a)
  BY DEF Joined

(* Being joined is symmetric.                                              *)
LEMMA JoinedBack ==
  ASSUME GraphType, NEW es \in SUBSET Edge, NEW a \in Vertex, NEW b \in Vertex,
         Joined(es, a, b)
  PROVE  Joined(es, b, a)
<1> SUFFICES ASSUME NEW S \in SUBSET Vertex, b \in S, a \notin S
             PROVE  \E e \in es : Crosses(e, S)
  BY DEF Joined
<1>1. PICK e \in es : Crosses(e, Vertex \ S)
  BY DEF Joined
<1>2. edges[e].u \in Vertex /\ edges[e].v \in Vertex
  BY EdgeEnds
<1>3. Crosses(e, S)
  BY <1>1, <1>2 DEF Crosses
<1> QED
  BY <1>3

(* Being joined is transitive.                                             *)
LEMMA JoinedOn ==
  ASSUME NEW es, NEW a, NEW b, NEW c, Joined(es, a, b), Joined(es, b, c)
  PROVE  Joined(es, a, c)
  BY DEF Joined

(* More edges do not take apart what is joined.                            *)
LEMMA JoinedMore ==
  ASSUME NEW es, NEW fs, es \subseteq fs, NEW a, NEW b, Joined(es, a, b)
  PROVE  Joined(fs, a, b)
  BY DEF Joined

(* The ends of an edge are joined by it.                                   *)
LEMMA JoinedEnds ==
  ASSUME NEW es, NEW e \in es
  PROVE  Joined(es, edges[e].u, edges[e].v) /\ Joined(es, edges[e].v, edges[e].u)
  BY DEF Joined, Crosses

(* The same, seen from one of its ends.                                    *)
LEMMA JoinedEdge ==
  ASSUME NEW es, NEW w \in Vertex, NEW e \in Graph(w), e \in es
  PROVE  Joined(es, w, To(w, e)) /\ Joined(es, To(w, e), w)
<1>1. w \in {edges[e].u, edges[e].v}
  BY DEF Graph
<1> QED
  BY <1>1, JoinedEnds DEF To

(* What is not joined is divided by a set that no edge crosses.            *)
LEMMA NotJoined ==
  ASSUME NEW es, NEW S \in SUBSET Vertex, NEW a \in S, NEW b, b \notin S,
         \A e \in es : ~Crosses(e, S)
  PROVE  ~Joined(es, a, b)
  BY DEF Joined

(* The edges at a vertex depend on nothing but the graph.                  *)
LEMMA GraphStays ==
  ASSUME UNCHANGED <<net, edges>>
  PROVE  /\ N' = N /\ Vertex' = Vertex /\ Edge' = Edge
         /\ \A w : Graph(w)' = Graph(w)
         /\ \A w, e : To(w, e)' = To(w, e)
         /\ \A es, a, b : Joined(es, a, b)' <=> Joined(es, a, b)
         /\ \A e : Cut(e)' <=> Cut(e)
         /\ Frame' = Frame
<1>1. N' = N /\ Vertex' = Vertex /\ Edge' = Edge
  BY DEF N, ActiveBus, Vertex, Edge
<1>2. \A w : Graph(w)' = Graph(w)
  BY <1>1 DEF Graph
<1>3. \A w, e : To(w, e)' = To(w, e)
  BY DEF To
<1>4. \A es, a, b : Joined(es, a, b)' <=> Joined(es, a, b)
  BY <1>1 DEF Joined, Crosses
<1>5. \A e : Cut(e)' <=> Cut(e)
  BY <1>1, <1>4 DEF Cut
<1> QED
  BY <1>1, <1>2, <1>3, <1>4, <1>5 DEF Frame

-----------------------------------------------------------------------------
(* Components.                                                             *)

(* No edge leaves a component.                                             *)
LEMMA ComponentClosed ==
  ASSUME GraphType, NEW es \in SUBSET Edge, NEW x \in Vertex
  PROVE  /\ x \in Component(es, x) /\ Component(es, x) \subseteq Vertex
         /\ \A f \in es : ~Crosses(f, Component(es, x))
<1>1. x \in Component(es, x) /\ Component(es, x) \subseteq Vertex
  BY JoinedSelf DEF Component
<1>2. ASSUME NEW f \in es PROVE ~Crosses(f, Component(es, x))
  <2>1. edges[f].u \in Vertex /\ edges[f].v \in Vertex
    BY EdgeEnds
  <2>2. edges[f].u \in Component(es, x) => edges[f].v \in Component(es, x)
    BY <2>1, JoinedEnds, JoinedOn DEF Component
  <2>3. edges[f].v \in Component(es, x) => edges[f].u \in Component(es, x)
    BY <2>1, JoinedEnds, JoinedOn DEF Component
  <2> QED
    BY <2>2, <2>3 DEF Crosses
<1> QED
  BY <1>1, <1>2

(* The components of two joined vertices are the same.                     *)
LEMMA ComponentSame ==
  ASSUME GraphType, NEW es \in SUBSET Edge, NEW x \in Vertex,
         NEW y \in Component(es, x)
  PROVE  Component(es, y) = Component(es, x)
<1>1. y \in Vertex /\ Joined(es, x, y) /\ Joined(es, y, x)
  BY JoinedBack DEF Component
<1>2. \A z : Joined(es, x, z) <=> Joined(es, y, z)
  BY <1>1, JoinedOn
<1> QED
  BY <1>2 DEF Component

(* The vertices are finitely many.                                         *)
LEMMA VerticesFinite ==
  ASSUME net \in Networks
  PROVE  /\ IsFiniteSet(ActiveBus) /\ N \in Nat /\ IsFiniteSet(Vertex)
         /\ Cardinality(Vertex) = N
<1>1. NBus \in Nat /\ 0 \in Int /\ NBus - 1 \in Int
  BY ScreenAssumption
<1>2. IsFiniteSet(Bus)
  BY <1>1, FS_Interval DEF Bus
<1>3. IsFiniteSet(ActiveBus)
  BY <1>2, FS_Subset DEF ActiveBus
<1>4. N \in Nat
  BY <1>3, FS_CardinalityType DEF N
<1>5. 0 \in Int /\ N - 1 \in Int
  BY <1>4
<1>6. IsFiniteSet(0 .. (N - 1)) /\ Cardinality(0 .. (N - 1)) = IF 0 > N - 1 THEN 0 ELSE N - 1 - 0 + 1
  BY <1>5, FS_Interval
<1> QED
  BY <1>3, <1>4, <1>6 DEF Vertex

(* There are finitely many components.                                     *)
LEMMA ComponentsFinite ==
  ASSUME IsFiniteSet(Vertex), NEW es, NEW V \in SUBSET Vertex
  PROVE  IsFiniteSet({Component(es, x) : x \in V})
<1> DEFINE C == {Component(es, x) : x \in V}
           f == [x \in V |-> Component(es, x)]
<1>1. f \in Surjection(V, C)
  BY DEF Surjection
<1>2. IsFiniteSet(V)
  BY FS_Subset
<1> HIDE DEF f
<1>3. IsFiniteSet(C)
  BY <1>1, <1>2, FS_Surjection
<1> QED
  BY <1>3

(* Without an edge whose ends stay together the parts are the same.        *)
LEMMA NoCutKeeps ==
  ASSUME GraphType, NEW e \in Edge, ~Cut(e)
  PROVE  Components(Edge \ {e}) = Components(Edge)
<1> DEFINE rest == Edge \ {e}
<1>1. /\ Joined(rest, edges[e].u, edges[e].v)
      /\ Joined(rest, edges[e].v, edges[e].u)
  BY EdgeEnds, JoinedBack DEF Cut
<1>2. ASSUME NEW a \in Vertex, NEW b \in Vertex, Joined(Edge, a, b)
      PROVE  Joined(rest, a, b)
  <2> SUFFICES ASSUME NEW S \in SUBSET Vertex, a \in S, b \notin S
               PROVE  \E f \in rest : Crosses(f, S)
    BY DEF Joined
  <2>1. PICK f \in Edge : Crosses(f, S)
    BY <1>2 DEF Joined
  <2>2. CASE f # e
    BY <2>1, <2>2
  <2>3. CASE f = e
    BY <2>1, <2>3, <1>1 DEF Joined, Crosses
  <2> QED
    BY <2>2, <2>3
<1>3. ASSUME NEW a \in Vertex, NEW b \in Vertex, Joined(rest, a, b)
      PROVE  Joined(Edge, a, b)
  BY <1>3, JoinedMore
<1>4. \A a \in Vertex : Component(rest, a) = Component(Edge, a)
  BY <1>2, <1>3 DEF Component
<1> QED
  BY <1>4 DEF Components

(* Without an edge whose ends come apart, one part becomes two.            *)
LEMMA CutSplits ==
  ASSUME GraphType, IsFiniteSet(Vertex), NEW e \in Edge, Cut(e)
  PROVE  /\ IsFiniteSet(Components(Edge))
         /\ Cardinality(Components(Edge \ {e})) = Cardinality(Components(Edge)) + 1
<1> DEFINE rest == Edge \ {e}
           a == edges[e].u
           b == edges[e].v
           A == Component(rest, a)
           B == Component(rest, b)
           V == Vertex \ (A \cup B)
           R == {Component(rest, x) : x \in V}
<1>1. a \in Vertex /\ b \in Vertex /\ ~Joined(rest, a, b)
  BY EdgeEnds DEF Cut
<1>2. /\ a \in A /\ A \subseteq Vertex /\ \A f \in rest : ~Crosses(f, A)
      /\ b \in B /\ B \subseteq Vertex /\ \A f \in rest : ~Crosses(f, B)
  BY <1>1, ComponentClosed
<1>3. A \cap B = {}
  <2> SUFFICES ASSUME NEW x \in A, x \in B PROVE FALSE
    OBVIOUS
  <2>1. Component(rest, x) = A /\ Component(rest, x) = B
    BY <1>1, ComponentSame
  <2> QED
    BY <2>1, <1>1, <1>2 DEF Component
<1>4. \A f \in Edge : ~Crosses(f, A \cup B)
  BY <1>2 DEF Crosses
<1>5. ASSUME NEW x \in V
      PROVE  /\ Component(Edge, x) = Component(rest, x)
             /\ x \in Component(rest, x)
  <2> DEFINE S == Component(rest, x)
  <2>1. x \in Vertex /\ x \in S /\ S \subseteq Vertex /\ \A f \in rest : ~Crosses(f, S)
    BY ComponentClosed
  <2>2. a \notin S /\ b \notin S
    <3>1. a \in S => Component(rest, a) = S
      BY <2>1, ComponentSame
    <3>2. b \in S => Component(rest, b) = S
      BY <2>1, ComponentSame
    <3> QED
      BY <3>1, <3>2, <2>1
  <2>3. \A f \in Edge : ~Crosses(f, S)
    BY <2>1, <2>2 DEF Crosses
  <2>4. \A y \in Vertex : Joined(Edge, x, y) => y \in S
    BY <2>1, <2>3, NotJoined
  <2>5. \A y \in S : Joined(Edge, x, y)
    BY JoinedMore DEF Component
  <2> QED
    BY <2>1, <2>4, <2>5 DEF Component
<1>6. ASSUME NEW x \in A \cup B
      PROVE  Component(Edge, x) = A \cup B
  <2>1. x \in Vertex
    BY <1>2
  <2>2. \A y \in Vertex : Joined(Edge, x, y) => y \in A \cup B
    BY <1>2, <1>4, NotJoined
  <2>3. \A y \in A : Joined(Edge, a, y) /\ Joined(Edge, y, a)
    BY <1>1, <1>2, JoinedMore, JoinedBack DEF Component
  <2>4. \A y \in B : Joined(Edge, b, y) /\ Joined(Edge, y, b)
    BY <1>1, <1>2, JoinedMore, JoinedBack DEF Component
  <2>5. Joined(Edge, a, b) /\ Joined(Edge, b, a)
    BY JoinedEnds
  <2>6. \A y \in A \cup B : Joined(Edge, x, y)
    BY <2>3, <2>4, <2>5, JoinedOn
  <2> QED
    BY <2>2, <2>6, <1>2 DEF Component
<1>7. ASSUME NEW x \in A \cup B
      PROVE  Component(rest, x) \in {A, B}
  BY <1>1, <1>7, ComponentSame
<1>8. Components(rest) = (R \cup {A}) \cup {B}
  <2>1. A \in Components(rest) /\ B \in Components(rest) /\ R \subseteq Components(rest)
    BY <1>1 DEF Components
  <2>2. \A x \in Vertex : Component(rest, x) \in (R \cup {A}) \cup {B}
    BY <1>7
  <2> QED
    BY <2>1, <2>2 DEF Components
<1>9. Components(Edge) = R \cup {A \cup B}
  <2>1. A \cup B \in Components(Edge)
    BY <1>1, <1>2, <1>6 DEF Components
  <2>2. R \subseteq Components(Edge)
    BY <1>5 DEF Components
  <2>3. \A x \in Vertex : Component(Edge, x) \in R \cup {A \cup B}
    BY <1>5, <1>6
  <2> QED
    BY <2>1, <2>2, <2>3 DEF Components
<1>10. A # B /\ A \notin R /\ B \notin R /\ A \cup B \notin R
  BY <1>2, <1>3, <1>5
<1>11. IsFiniteSet(R)
  BY ComponentsFinite
<1> HIDE DEF R, A, B
<1>12. IsFiniteSet(R \cup {A \cup B})
       /\ Cardinality(R \cup {A \cup B}) = Cardinality(R) + 1
  BY <1>10, <1>11, FS_AddElement
<1>13. IsFiniteSet(R \cup {A}) /\ Cardinality(R \cup {A}) = Cardinality(R) + 1
  BY <1>10, <1>11, FS_AddElement
<1>14. Cardinality((R \cup {A}) \cup {B}) = Cardinality(R \cup {A}) + 1
  BY <1>10, <1>13, FS_AddElement
<1>15. Cardinality(R) \in Nat
  BY <1>11, FS_CardinalityType
<1> QED
  BY <1>8, <1>9, <1>12, <1>13, <1>14, <1>15

(* A set that has one member of each part counts the parts.                *)
LEMMA OneOfEach ==
  ASSUME IsFiniteSet(Vertex), NEW es, NEW V \in SUBSET Vertex,
         \A x \in Vertex : \E r \in V : Component(es, x) = Component(es, r),
         \A r, s \in V : Component(es, r) = Component(es, s) => r = s
  PROVE  Cardinality(V) = Cardinality(Components(es))
<1> DEFINE f == [x \in V |-> Component(es, x)]
<1>1. f \in Bijection(V, Components(es))
  <2>1. f \in [V -> Components(es)]
    BY DEF Components
  <2>2. \A c \in Components(es) : \E r \in V : f[r] = c
    BY DEF Components
  <2>3. \A r, s \in V : f[r] = f[s] => r = s
    OBVIOUS
  <2> HIDE DEF f
  <2> QED
    BY <2>1, <2>2, <2>3 DEF Bijection, Injection, Surjection, IsInjective
<1>2. IsFiniteSet(V)
  BY FS_Subset
<1>3. ExistsBijection(V, Components(es))
  BY <1>1 DEF ExistsBijection
<1> QED
  BY <1>2, <1>3, FS_Bijection

-----------------------------------------------------------------------------
(* Union-find.                                                             *)

(* The entry of least rank in a set. *)
LEMMA LeastRank ==
  ASSUME NEW rank \in [Vertex -> Nat], NEW V \in SUBSET Vertex, V # {}
  PROVE  \E v \in V : \A w \in V : rank[v] <= rank[w]
<1> DEFINE T == {rank[v] : v \in V}
<1>1. T \subseteq Nat /\ T # {}
  OBVIOUS
<1>2. \E t \in T : \A s \in T : <<s, t>> \notin OpToRel(<, Nat)
  BY <1>1, NatLessThanWellFounded, WFMin
<1>3. PICK t \in T : \A s \in T : ~(s < t)
  BY <1>1, <1>2 DEF OpToRel
<1>4. PICK v \in V : t = rank[v]
  OBVIOUS
<1>5. \A w \in V : rank[w] \in T /\ rank[w] \in Nat
  OBVIOUS
<1>6. \A w \in V : rank[v] <= rank[w]
  BY <1>3, <1>4, <1>5
<1> QED
  BY <1>6

(* Find follows the forest to the root.                                    *)
LEMMA FindIsRoot ==
  ASSUME NEW r \in [Vertex -> Vertex], NEW rt \in [Vertex -> Vertex],
         NEW rank \in [Vertex -> Nat], IsForest(r, rt, rank), NEW x \in Vertex
  PROVE  Find(r, x) = rt[x]
<1> DEFINE F == CHOOSE f : f = [y \in DOMAIN r |-> IF r[y] = y THEN y ELSE f[r[y]]]
           bad == {v \in Vertex : F[v] # rt[v]}
<1>1. Find(r, x) = F[x]
  BY DEF Find
<1>2. rt = [y \in DOMAIN r |-> IF r[y] = y THEN y ELSE rt[r[y]]]
  BY DEF IsForest
<1>3. F = [y \in DOMAIN r |-> IF r[y] = y THEN y ELSE F[r[y]]]
  BY <1>2
<1> HIDE DEF F
<1>4. bad = {}
  <2> SUFFICES ASSUME bad # {} PROVE FALSE
    OBVIOUS
  <2>1. PICK v \in bad : \A w \in bad : rank[v] <= rank[w]
    BY LeastRank
  <2>2. F[v] = IF r[v] = v THEN v ELSE F[r[v]]
    BY <1>3
  <2>3. CASE r[v] = v
    BY <2>2, <2>3 DEF IsForest
  <2>4. CASE r[v] # v
    <3>1. rank[r[v]] < rank[v] /\ rt[r[v]] = rt[v] /\ r[v] \in Vertex
      BY <2>4 DEF IsForest
    <3>2. r[v] \notin bad
      BY <3>1, <2>1
    <3> QED
      BY <3>1, <3>2, <2>2, <2>4
  <2> QED
    BY <2>3, <2>4
<1> QED
  BY <1>1, <1>4

(* Merging two trees makes one of them. *)
LEMMA MergeIsForest ==
  ASSUME NEW r \in [Vertex -> Vertex], NEW rt \in [Vertex -> Vertex],
         NEW rank \in [Vertex -> Nat], IsForest(r, rt, rank),
         NEW edge, edge.u \in Vertex, edge.v \in Vertex
  PROVE  /\ Merge(r, edge) \in [Vertex -> Vertex]
         /\ \E both \in [Vertex -> Vertex], far \in [Vertex -> Nat] :
              /\ IsForest(Merge(r, edge), both, far)
              /\ \A w \in Vertex : both[w] = IF rt[w] = rt[edge.u] THEN rt[edge.v]
                                             ELSE rt[w]
<1> DEFINE a == rt[edge.u]
           b == rt[edge.v]
           both == [w \in Vertex |-> IF rt[w] = a THEN b ELSE rt[w]]
           far == [w \in Vertex |-> IF rt[w] = a /\ a # b THEN rank[w] + rank[b] + 1
                                    ELSE rank[w]]
           m == Merge(r, edge)
<1>1. m = [r EXCEPT ![a] = b] /\ a \in Vertex /\ b \in Vertex
  BY FindIsRoot DEF Merge
<1>2. m \in [Vertex -> Vertex] /\ both \in [Vertex -> Vertex] /\ far \in [Vertex -> Nat]
  BY <1>1
<1>3. rt[a] = a /\ rt[b] = b
  BY <1>1 DEF IsForest
<1>4. \A w \in Vertex : m[w] = IF w = a THEN b ELSE r[w]
  BY <1>1
<1>5. \A w \in Vertex : both[w] = IF rt[w] = a THEN b ELSE rt[w]
  OBVIOUS
<1>6. \A w \in Vertex : far[w] = IF rt[w] = a /\ a # b THEN rank[w] + rank[b] + 1
                                  ELSE rank[w]
  OBVIOUS
<1> HIDE DEF m, both, far
<1>7. ASSUME NEW w \in Vertex
      PROVE  /\ m[both[w]] = both[w] /\ both[m[w]] = both[w]
             /\ m[w] = w => both[w] = w
             /\ m[w] # w => far[m[w]] < far[w]
  <2>0. /\ r[rt[w]] = rt[w] /\ rt[r[w]] = rt[w]
        /\ r[w] = w => rt[w] = w
        /\ r[w] # w => rank[r[w]] < rank[w]
        /\ r[w] \in Vertex /\ rt[w] \in Vertex /\ rank[w] \in Nat /\ rank[b] \in Nat
        /\ r[b] = b /\ r[a] = a
    BY <1>1 DEF IsForest
  <2>1. m[both[w]] = both[w]
    BY <2>0, <1>1, <1>4, <1>5
  <2>2. both[m[w]] = both[w]
    BY <2>0, <1>1, <1>3, <1>4, <1>5
  <2>3. m[w] = w => both[w] = w
    BY <2>0, <1>1, <1>3, <1>4, <1>5
  <2>4. m[w] # w => far[m[w]] < far[w]
    <3>1. CASE w = a
      <4>1. m[w] # w => a # b /\ far[w] = rank[w] + rank[b] + 1 /\ m[w] = b
        BY <3>1, <1>1, <1>3, <1>4, <1>6
      <4>2. a # b => far[b] = rank[b]
        BY <1>1, <1>3, <1>6
      <4> QED
        BY <4>1, <4>2, <2>0
    <3>2. CASE w # a
      <4>1. m[w] = r[w] /\ rt[r[w]] = rt[w]
        BY <3>2, <1>4, <2>0
      <4>2. rank[r[w]] \in Nat
        BY <2>0
      <4> QED
        BY <4>1, <4>2, <2>0, <1>6
    <3> QED
      BY <3>1, <3>2
  <2> QED
    BY <2>1, <2>2, <2>3, <2>4
<1>8. IsForest(m, both, far)
  BY <1>7 DEF IsForest
<1> QED
  BY <1>2, <1>5, <1>8 DEF m

(* What the count of roots counts. *)
LEMMA RootsCount ==
  ASSUME IsFiniteSet(Vertex), GraphType, NEW es \in SUBSET Edge,
         NEW r \in [Vertex -> Vertex], NEW rt \in [Vertex -> Vertex],
         NEW rank \in [Vertex -> Nat], IsForest(r, rt, rank),
         \A e \in es : rt[edges[e].u] = rt[edges[e].v],
         \A v \in Vertex : Joined(es, v, rt[v])
  PROVE  Roots(r) = Cardinality(Components(es))
<1> DEFINE V == {v \in Vertex : rt[v] = v}
<1>1. \A x \in Vertex : rt[x] \in V /\ Component(es, x) = Component(es, rt[x])
  <2> SUFFICES ASSUME NEW x \in Vertex
               PROVE  rt[x] \in V /\ Component(es, x) = Component(es, rt[x])
    OBVIOUS
  <2>1. rt[x] \in Component(es, x)
    BY DEF Component
  <2>2. rt[x] \in V
    BY DEF IsForest
  <2> QED
    BY <2>1, <2>2, ComponentSame
<1>2. ASSUME NEW v \in V, NEW w \in V, Component(es, v) = Component(es, w)
      PROVE  v = w
  <2> DEFINE S == {x \in Vertex : rt[x] = v}
  <2>1. Joined(es, w, v)
    BY <1>2, ComponentClosed DEF Component
  <2>2. \A e \in es : ~Crosses(e, S)
    BY EdgeEnds DEF Crosses
  <2>3. Joined(es, v, w)
    BY <2>1, JoinedBack
  <2>4. w \in S
    BY <2>2, <2>3, NotJoined
  <2> QED
    BY <2>4
<1>3. V \subseteq Vertex
  OBVIOUS
<1>4. \A x \in Vertex : \E s \in V : Component(es, x) = Component(es, s)
  BY <1>1
<1>5. Cardinality(V) = Cardinality(Components(es))
  BY <1>2, <1>3, <1>4, OneOfEach
<1>6. {v \in DOMAIN r : Find(r, v) = v} = V
  BY FindIsRoot
<1> QED
  BY <1>5, <1>6 DEF Roots

-----------------------------------------------------------------------------
(* The beginning.                                                          *)

(* What the assumption says of a network.                                  *)
LEMMA NetworkType ==
  ASSUME net \in Networks
  PROVE  /\ net.isolated \in SUBSET Bus /\ net.refHasGen \in BOOLEAN
         /\ net.line \in Seq([u : Bus, v : Bus, on : BOOLEAN])
         /\ Len(net.line) \in Nat /\ DOMAIN net.line = 1 .. Len(net.line)
         /\ \A l \in DOMAIN net.line : /\ net.line[l].u \in Bus /\ net.line[l].v \in Bus
                                       /\ net.line[l].on \in BOOLEAN
         /\ \A b \in Bus : b \in Nat
<1>1. net \in [isolated : SUBSET Bus, refHasGen : BOOLEAN,
               line : Seq([u : Bus, v : Bus, on : BOOLEAN])]
  BY ScreenAssumption
<1>2. /\ net.isolated \in SUBSET Bus /\ net.refHasGen \in BOOLEAN
      /\ net.line \in Seq([u : Bus, v : Bus, on : BOOLEAN])
  BY <1>1
<1>3. Len(net.line) \in Nat /\ DOMAIN net.line = 1 .. Len(net.line)
  BY <1>2
<1>4. \A l \in DOMAIN net.line : net.line[l] \in [u : Bus, v : Bus, on : BOOLEAN]
  BY <1>2, <1>3, ElementOfSeq
<1>5. \A b \in Bus : b \in Nat
  BY ScreenAssumption DEF Bus
<1> QED
  BY <1>2, <1>3, <1>4, <1>5

(* The new numbers of the buses are 0 to N - 1, in the order of the buses. *)
LEMMA IndexInVertex ==
  ASSUME net \in Networks, NEW b \in ActiveBus
  PROVE  /\ ScreenIndex(b) \in Vertex
         /\ \A c \in ActiveBus : b < c => ScreenIndex(b) < ScreenIndex(c)
<1> DEFINE Below(c) == {d \in ActiveBus : d < c}
<1>1. IsFiniteSet(ActiveBus) /\ N \in Nat /\ \A c \in ActiveBus : c \in Nat
  BY VerticesFinite, NetworkType DEF ActiveBus
<1>2. ASSUME NEW c \in ActiveBus
      PROVE  /\ IsFiniteSet(Below(c)) /\ Cardinality(Below(c)) \in Nat
             /\ Cardinality(Below(c)) <= N /\ Cardinality(Below(c)) # N
  <2>1. Below(c) \in SUBSET ActiveBus /\ Below(c) # ActiveBus
    BY <1>1
  <2> HIDE DEF Below
  <2> QED
    BY <2>1, <1>1, FS_Subset, FS_CardinalityType DEF N
<1>3. ScreenIndex(b) \in Vertex
  BY <1>1, <1>2 DEF ScreenIndex, Vertex
<1>4. ASSUME NEW c \in ActiveBus, b < c PROVE ScreenIndex(b) < ScreenIndex(c)
  <2>1. Below(b) \in SUBSET Below(c) /\ b \in Below(c) /\ b \notin Below(b)
    BY <1>1, <1>4
  <2>2. Cardinality(Below(b)) <= Cardinality(Below(c)) /\ Cardinality(Below(b)) # Cardinality(Below(c))
    <3> HIDE DEF Below
    <3> QED
      BY <1>2, <2>1, FS_Subset
  <2> QED
    BY <1>2, <2>2 DEF ScreenIndex
<1> QED
  BY <1>3, <1>4

(* The type invariant makes the edges a graph.                             *)
LEMMA TypeIsGraph ==
  ASSUME TypeInv
  PROVE  /\ GraphType /\ IsFiniteSet(Vertex) /\ N \in Nat
         /\ Len(edges) \in Nat /\ Edge = 1 .. Len(edges) /\ Len(keys) = Len(edges)
         /\ Edge \subseteq Nat
<1>1. GraphType /\ IsFiniteSet(Vertex) /\ N \in Nat
  BY VerticesFinite DEF TypeInv, GraphType
<1>2. Len(edges) \in Nat /\ Edge = 1 .. Len(edges)
  BY DEF TypeInv, Edge
<1> QED
  BY <1>1, <1>2 DEF TypeInv

(* With no vertex known the invariant of the walk is there. *)
LEMMA WalkNotBegun ==
  ASSUME Known = {}, stack = <<>>, base = 0, bridge = {}, root = 0, N \in Nat,
         \A v \in Vertex : parentEdge[v] = 0 /\ parentVertex[v] = -1
  PROVE  WalkInv
<1>1. Place = {}
  BY DEF Place
<1>2. TreeRoots = {} /\ Finished = {} /\ Child = {}
  BY DEF TreeRoots, Finished, Child
<1>3. Cardinality(TreeRoots) = 0
  BY <1>2, FS_EmptySet
<1>4. \A v \in Vertex : ~(v < 0)
  BY DEF Vertex
<1>5. ClockInv /\ RootsInv
  BY <1>3, <1>4 DEF ClockInv, RootsInv
<1>6. PathInv /\ ScanInv /\ TreeInv /\ LowInv /\ WitnessInv
  BY <1>1 DEF PathInv, ScanInv, TreeInv, LowInv, WitnessInv
<1>7. ParentInv /\ DoneInv /\ SpanInv /\ ApartInv /\ BridgeInv
  BY <1>2 DEF ParentInv, DoneInv, SpanInv, ApartInv, BridgeInv
<1> QED
  BY <1>5, <1>6, <1>7 DEF WalkInv

(* The same after a step. *)
LEMMA WalkNotBegunYet ==
  ASSUME TypeInv, FreshInv, ParentInv, pc \notin {"walk", "done"},
         UNCHANGED <<net, walkVars>>
  PROVE  WalkInv'
<1>1. Place' = {} /\ Known' = {} /\ Vertex' = Vertex
  BY DEF Place, Known, FreshInv, walkVars, Vertex, N, ActiveBus
<1>2. TreeRoots' = {} /\ Finished' = {} /\ Child' = {}
  BY <1>1 DEF TreeRoots, Finished, Child
<1>3. Cardinality(TreeRoots') = 0
  BY <1>2, FS_EmptySet
<1>4. \A v \in Vertex : ~(v < 0)
  BY TypeIsGraph DEF Vertex
<1>5. ClockInv' /\ RootsInv'
  BY <1>1, <1>3, <1>4 DEF ClockInv, RootsInv, FreshInv, walkVars
<1>6. PathInv' /\ ScanInv' /\ TreeInv' /\ LowInv' /\ WitnessInv'
  BY <1>1 DEF PathInv, ScanInv, TreeInv, LowInv, WitnessInv
<1>7. \A v \in Vertex : parentEdge[v] = 0 /\ parentVertex[v] = -1
  BY DEF ParentInv, Child, FreshInv
<1>8. ParentInv' /\ DoneInv' /\ SpanInv' /\ ApartInv' /\ BridgeInv'
  BY <1>1, <1>2, <1>7 DEF ParentInv, DoneInv, SpanInv, ApartInv, BridgeInv, FreshInv, walkVars
<1> QED
  BY <1>5, <1>6, <1>8 DEF WalkInv

(* The invariant holds when the assembler is constructed.                  *)
LEMMA InitIsFresh == Init => IInv
<1> SUFFICES ASSUME Init PROVE IInv
  OBVIOUS
<1>1. net \in Networks
  BY DEF Init
<1>2. N \in Nat /\ IsFiniteSet(Vertex) /\ Len(net.line) \in Nat
  BY <1>1, VerticesFinite, NetworkType
<1>3. TypeInv
  BY <1>1, <1>2 DEF Init, TypeInv, Singletons, Edge
<1>4. KeyInv
  BY DEF Init, KeyInv, Edge
<1>5. UnionInv
  <2> DEFINE rt == [v \in Vertex |-> v]
             rank == [v \in Vertex |-> 0]
  <2>1. rt \in [Vertex -> Vertex] /\ rank \in [Vertex -> Nat]
    OBVIOUS
  <2>2. IsForest(forest, rt, rank)
    BY DEF Init, Singletons, IsForest
  <2>3. Taken = {}
    BY DEF Taken, Init
  <2>4. \A v \in Vertex : Joined(Taken, v, rt[v])
    BY JoinedSelf
  <2> HIDE DEF rt, rank
  <2>5. \E r \in [Vertex -> Vertex], d \in [Vertex -> Nat] :
          /\ IsForest(forest, r, d)
          /\ \A e \in Taken : r[edges[e].u] = r[edges[e].v]
          /\ \A v \in Vertex : Joined(Taken, v, r[v])
    BY <2>1, <2>2, <2>3, <2>4
  <2> QED
    BY <2>5 DEF UnionInv, Init
<1>6. Known = {}
  BY DEF Known, Init
<1>7. WalkInv
  BY <1>2, <1>6, WalkNotBegun DEF Init
<1>8. FreshInv /\ TableInv
  BY <1>6 DEF FreshInv, TableInv, Init
<1> QED
  BY <1>3, <1>4, <1>5, <1>7, <1>8 DEF IInv

-----------------------------------------------------------------------------
(* Making the graph and the forest.                                        *)

(* The forest stays what it is while nothing is merged. *)
LEMMA UnionStays ==
  ASSUME UnionInv, UNCHANGED <<net, edges, forest, merged>>, Taken' = Taken,
         pc' = "build" => merged = 0,
         pc' \in {"counted", "walk", "done"} => merged = Len(edges),
         pc' \in {"walk", "done"} => outage' = 0
  PROVE  UnionInv'
<1>1. /\ Vertex' = Vertex
      /\ \A es, a, b : Joined(es, a, b)' <=> Joined(es, a, b)
  BY GraphStays
<1>2. PICK rt \in [Vertex -> Vertex], rank \in [Vertex -> Nat] :
        /\ IsForest(forest, rt, rank)
        /\ \A e \in Taken : rt[edges[e].u] = rt[edges[e].v]
        /\ \A v \in Vertex : Joined(Taken, v, rt[v])
  BY DEF UnionInv
<1>3. IsForest(forest, rt, rank)'
  BY <1>1, <1>2 DEF IsForest
<1>4. \A v \in Vertex : Joined(Taken, v, rt[v])'
  BY <1>1, <1>2
<1>5. \A e \in Taken' : rt[edges'[e].u] = rt[edges'[e].v]
  BY <1>2
<1> QED
  BY <1>1, <1>3, <1>4, <1>5 DEF UnionInv

(* A circuit in service between two active buses becomes an edge.          *)
LEMMA AddEdgeStep ==
  ASSUME IInv, AddEdge
  PROVE  IInv'
<1>0. /\ TypeInv /\ KeyInv /\ UnionInv /\ FreshInv /\ ParentInv /\ TableInv
      /\ pc = "build" /\ UNCHANGED <<net, pc, unionVars, walkVars, lineIsBridge>>
      /\ scanned < Len(net.line) /\ InScreen(scanned + 1) /\ scanned' = scanned + 1
      /\ keys' = Append(keys, scanned + 1)
      /\ edges' = Append(edges, [u |-> ScreenIndex(net.line[scanned + 1].u),
                                 v |-> ScreenIndex(net.line[scanned + 1].v)])
  BY DEF IInv, WalkInv, AddEdge
<1>1. /\ net' = net /\ N' = N /\ Vertex' = Vertex /\ ActiveBus' = ActiveBus /\ Frame' = Frame
      /\ Known' = Known
      /\ \A b : ScreenIndex(b)' = ScreenIndex(b) /\ \A l : InScreen(l)' <=> InScreen(l)
  BY <1>0 DEF N, Vertex, ActiveBus, ScreenIndex, InScreen, Frame, Known, walkVars
<1> DEFINE l == scanned + 1
           new == [u |-> ScreenIndex(net.line[l].u), v |-> ScreenIndex(net.line[l].v)]
           n == Len(edges)
<1>2. /\ l \in Nat /\ l \in 1 .. Len(net.line) /\ Len(net.line) \in Nat /\ InScreen(l)
      /\ scanned \in Nat
  BY <1>0, NetworkType DEF TypeInv
<1>3. new \in [u : Vertex, v : Vertex]
  BY <1>2, <1>0, IndexInVertex DEF InScreen, TypeInv
<1>4. n \in Nat /\ Edge = 1 .. n /\ Len(keys) = n
  BY <1>0, TypeIsGraph
<1>5. /\ edges' = Append(edges, new) /\ edges' \in Seq([u : Vertex, v : Vertex])
      /\ Len(edges') = n + 1 /\ edges'[n + 1] = new
      /\ \A e \in 1 .. n : edges'[e] = edges[e]
  BY <1>0, <1>3, AppendProperties DEF TypeInv
<1>6. /\ keys' = Append(keys, l) /\ keys' \in Seq(Nat) /\ Len(keys') = n + 1
      /\ keys'[n + 1] = l
      /\ \A e \in 1 .. n : keys'[e] = keys[e]
  BY <1>0, <1>2, <1>4, AppendProperties DEF TypeInv
<1>7. Edge' = 1 .. (n + 1)
  BY <1>4, <1>5 DEF Edge
<1> HIDE DEF new
<1>8. TypeInv'
  <2>1. bridge' \subseteq Edge' /\ merged' \in 0 .. Len(edges')
    <3>1. bridge' = bridge /\ merged' = merged
      BY <1>0 DEF walkVars, unionVars
    <3>2. bridge \subseteq 1 .. n /\ merged \in 0 .. n
      BY <1>0, <1>4 DEF TypeInv
    <3> QED
      BY <3>1, <3>2, <1>4, <1>5, <1>7
  <2>2. scanned' \in 0 .. Len(net'.line)
    BY <1>0, <1>1, <1>2
  <2> QED
    BY <1>0, <1>1, <1>5, <1>6, <2>1, <2>2 DEF TypeInv, walkVars, unionVars
<1>9. KeyInv'
  <2>1. \A e \in 1 .. n : keys[e] \in 1 .. scanned /\ InScreen(keys[e])
    BY <1>0, <1>4 DEF KeyInv
  <2>2. ASSUME NEW e \in Edge'
        PROVE  /\ keys'[e] \in 1 .. scanned' /\ InScreen(keys[e])'
               /\ edges'[e].u = ScreenIndex(net.line[keys[e]].u)'
               /\ edges'[e].v = ScreenIndex(net.line[keys[e]].v)'
    <3>0. PICK m : m = keys'[e]
      OBVIOUS
    <3>1. CASE e = n + 1
      <4>1. m = l /\ edges'[e] = new /\ scanned' = l
        BY <1>0, <3>0, <3>1, <1>5, <1>6
      <4>2. new.u = ScreenIndex(net.line[m].u) /\ new.v = ScreenIndex(net.line[m].v)
        BY <4>1 DEF new
      <4>3. InScreen(m)' /\ m \in 1 .. scanned'
        BY <4>1, <1>1, <1>2
      <4>4. /\ edges'[e].u = ScreenIndex(net.line[m].u)'
            /\ edges'[e].v = ScreenIndex(net.line[m].v)'
        BY <4>1, <4>2, <1>1
      <4> QED
        BY <4>3, <4>4, <3>0
    <3>2. CASE e \in 1 .. n
      <4>1. m = keys[e] /\ edges'[e] = edges[e] /\ scanned' = scanned + 1
        BY <1>0, <3>0, <3>2, <1>5, <1>6
      <4>2. /\ edges[e].u = ScreenIndex(net.line[m].u)
            /\ edges[e].v = ScreenIndex(net.line[m].v)
        BY <4>1, <3>2, <1>0, <1>4 DEF KeyInv
      <4>3. InScreen(m)' /\ m \in 1 .. scanned'
        BY <4>1, <2>1, <3>2, <1>1, <1>2
      <4>4. /\ edges'[e].u = ScreenIndex(net.line[m].u)'
            /\ edges'[e].v = ScreenIndex(net.line[m].v)'
        BY <4>1, <4>2, <1>1
      <4> QED
        BY <4>3, <4>4, <3>0
    <3> QED
      BY <3>1, <3>2, <1>4, <1>7
  <2>3. ASSUME NEW e \in Edge', NEW f \in Edge', e < f
        PROVE  keys'[e] < keys'[f]
    <3>1. CASE f = n + 1
      BY <2>1, <2>3, <3>1, <1>2, <1>4, <1>6, <1>7
    <3>2. CASE f \in 1 .. n
      BY <2>3, <3>2, <1>0, <1>4, <1>6, <1>7 DEF KeyInv
    <3> QED
      BY <3>1, <3>2, <1>4, <1>7
  <2>4. ASSUME NEW k \in 1 .. scanned', InScreen(k)'
        PROVE  \E e \in Edge' : keys'[e] = k
    <3>1. CASE k = l
      <4>1. n + 1 \in Edge'
        BY <1>4, <1>7
      <4> QED
        BY <3>1, <4>1, <1>6
    <3>2. CASE k \in 1 .. scanned
      <4>1. InScreen(k)
        BY <2>4, <1>1
      <4>2. PICK e \in Edge : keys[e] = k
        BY <4>1, <3>2, <1>0 DEF KeyInv
      <4>3. e \in Edge' /\ e \in 1 .. n
        BY <1>4, <1>7
      <4>4. keys'[e] = keys[e]
        BY <4>3, <1>6
      <4> QED
        BY <4>2, <4>3, <4>4
    <3>3. scanned' = scanned + 1 /\ scanned \in Nat
      BY <1>0, <1>2
    <3>4. k = l \/ k \in 1 .. scanned
      BY <3>3
    <3> QED
      BY <3>1, <3>2, <3>4
  <2>5. pc' = "build"
    BY <1>0
  <2> QED
    BY <2>2, <2>3, <2>4, <2>5 DEF KeyInv
<1>10. UnionInv'
  <2>1. merged' = 0 /\ merged = 0 /\ forest' = forest /\ outage' = outage
    BY <1>0 DEF UnionInv, unionVars
  <2>2. Taken = {} /\ Taken' = {}
    BY <2>1 DEF Taken
  <2>3. PICK rt \in [Vertex -> Vertex], rank \in [Vertex -> Nat] :
          /\ IsForest(forest, rt, rank)
          /\ \A v \in Vertex : Joined({}, v, rt[v])
    BY <2>2, <1>0 DEF UnionInv
  <2>4. \A v \in Vertex : Joined({}, v, rt[v])'
    BY <2>3, <1>1 DEF Joined
  <2>5. IsForest(forest, rt, rank)'
    BY <2>1, <2>3, <1>1 DEF IsForest
  <2> QED
    BY <2>1, <2>2, <2>4, <2>5, <1>0, <1>1 DEF UnionInv
<1>11. FreshInv' /\ TableInv'
  BY <1>0, <1>1 DEF FreshInv, TableInv, walkVars
<1>12. WalkInv'
  BY <1>0, WalkNotBegunYet
<1> QED
  BY <1>8, <1>9, <1>10, <1>11, <1>12 DEF IInv

(* Any other circuit is passed over.                                       *)
LEMMA SkipCircuitStep ==
  ASSUME IInv, SkipCircuit
  PROVE  IInv'
<1>0. /\ TypeInv /\ KeyInv /\ UnionInv /\ FreshInv /\ ParentInv /\ TableInv /\ pc = "build"
      /\ UNCHANGED <<net, keys, edges, pc, unionVars, walkVars, lineIsBridge>>
      /\ scanned < Len(net.line) /\ ~InScreen(scanned + 1) /\ scanned' = scanned + 1
  BY DEF IInv, WalkInv, SkipCircuit
<1>1. /\ N' = N /\ Vertex' = Vertex /\ Edge' = Edge /\ Frame' = Frame /\ Known' = Known
      /\ \A b : ScreenIndex(b)' = ScreenIndex(b) /\ \A l : InScreen(l)' <=> InScreen(l)
      /\ \A es, a, b : Joined(es, a, b)' <=> Joined(es, a, b)
  BY <1>0, GraphStays DEF N, Vertex, ActiveBus, ScreenIndex, InScreen, Known, walkVars
<1>2. scanned \in Nat /\ Len(net.line) \in Nat /\ scanned' \in 0 .. Len(net.line)
  BY <1>0, NetworkType DEF TypeInv
<1>3. TypeInv'
  BY <1>0, <1>1, <1>2 DEF TypeInv, walkVars, unionVars
<1>4. KeyInv'
  <2>1. \A e \in Edge : keys[e] \in 1 .. scanned'
    BY <1>0, <1>2 DEF KeyInv
  <2>2. \A l \in 1 .. scanned' : InScreen(l) => l \in 1 .. scanned
    BY <1>0, <1>2
  <2> QED
    BY <2>1, <2>2, <1>0, <1>1 DEF KeyInv
<1>5. UnionInv'
  <2>1. Taken' = Taken /\ merged = 0 /\ UNCHANGED <<net, edges, forest, merged>>
    BY <1>0 DEF Taken, unionVars, UnionInv
  <2> QED
    BY <2>1, <1>0, UnionStays
<1>6. FreshInv' /\ TableInv'
  BY <1>0, <1>1 DEF FreshInv, TableInv, walkVars
<1>7. WalkInv'
  BY <1>0, WalkNotBegunYet
<1> QED
  BY <1>3, <1>4, <1>5, <1>6, <1>7 DEF IInv

(* componentsWithout starts on the graph that is complete.                 *)
LEMMA StartCountStep ==
  ASSUME IInv, StartCount
  PROVE  IInv'
<1>0. /\ TypeInv /\ KeyInv /\ UnionInv /\ FreshInv /\ ParentInv /\ TableInv /\ pc = "build"
      /\ pc' = "merge" /\ scanned = Len(net.line) /\ outage' \in {0} \cup Edge
      /\ UNCHANGED <<graphVars, forest, merged, walkVars, lineIsBridge>>
  BY DEF IInv, WalkInv, StartCount
<1>1. /\ N' = N /\ Vertex' = Vertex /\ Edge' = Edge /\ Frame' = Frame /\ Known' = Known
      /\ \A b : ScreenIndex(b)' = ScreenIndex(b) /\ \A l : InScreen(l)' <=> InScreen(l)
      /\ \A es, a, b : Joined(es, a, b)' <=> Joined(es, a, b)
  BY <1>0, GraphStays DEF N, Vertex, ActiveBus, ScreenIndex, InScreen, Known, walkVars, graphVars
<1>2. outage' \in Nat
  BY <1>0, TypeIsGraph
<1>3. TypeInv'
  BY <1>0, <1>1, <1>2 DEF TypeInv, walkVars, graphVars
<1>4. KeyInv'
  BY <1>0, <1>1 DEF KeyInv, graphVars
<1>5. UnionInv'
  <2>1. Taken' = Taken /\ merged = 0
    BY <1>0 DEF Taken, UnionInv
  <2> QED
    BY <2>1, <1>0, UnionStays DEF graphVars
<1>6. FreshInv' /\ TableInv'
  BY <1>0, <1>1 DEF FreshInv, TableInv, walkVars
<1>7. WalkInv'
  BY <1>0, WalkNotBegunYet DEF graphVars
<1> QED
  BY <1>3, <1>4, <1>5, <1>6, <1>7 DEF IInv

(* p_merge joins the trees of the two ends of an edge.                     *)
LEMMA MergeEdgeStep ==
  ASSUME IInv, MergeEdge
  PROVE  IInv'
<1>0. /\ TypeInv /\ KeyInv /\ UnionInv /\ FreshInv /\ ParentInv /\ TableInv /\ pc = "merge"
      /\ UNCHANGED <<graphVars, pc, outage, walkVars, lineIsBridge>>
      /\ merged < Len(edges) /\ merged' = merged + 1
      /\ forest' = IF Counts(merged + 1) THEN Merge(forest, edges[merged + 1]) ELSE forest
  BY DEF IInv, WalkInv, MergeEdge
<1>1. /\ N' = N /\ Vertex' = Vertex /\ Edge' = Edge /\ Frame' = Frame /\ Known' = Known
      /\ \A b : ScreenIndex(b)' = ScreenIndex(b) /\ \A l : InScreen(l)' <=> InScreen(l)
      /\ \A es, a, b : Joined(es, a, b)' <=> Joined(es, a, b)
  BY <1>0, GraphStays DEF N, Vertex, ActiveBus, ScreenIndex, InScreen, Known, walkVars, graphVars
<1> DEFINE e == merged + 1
<1>2. /\ e \in Edge /\ merged \in Nat /\ merged' = e /\ e \in 1 .. Len(edges)
      /\ edges[e].u \in Vertex /\ edges[e].v \in Vertex
  <2>0. merged \in 0 .. Len(edges) /\ Edge = 1 .. Len(edges) /\ Len(edges) \in Nat
    BY <1>0, TypeIsGraph DEF TypeInv
  <2>1. merged \in Nat /\ e \in Edge /\ e \in 1 .. Len(edges)
    BY <1>0, <2>0
  <2> QED
    BY <2>1, <1>0, TypeIsGraph, EdgeEnds
<1>3. PICK rt \in [Vertex -> Vertex], rank \in [Vertex -> Nat] :
        /\ IsForest(forest, rt, rank)
        /\ \A f \in Taken : rt[edges[f].u] = rt[edges[f].v]
        /\ \A v \in Vertex : Joined(Taken, v, rt[v])
  BY <1>0 DEF UnionInv
<1>4. forest \in [Vertex -> Vertex] /\ GraphType /\ Taken \subseteq Edge /\ Taken' \subseteq Edge
  <2>1. GraphType /\ Edge = 1 .. Len(edges) /\ Len(edges) \in Nat
    BY <1>0, TypeIsGraph
  <2>2. forest \in [Vertex -> Vertex] /\ merged \in 0 .. Len(edges)
    BY <1>0 DEF TypeInv
  <2>3. merged' = e /\ e \in 1 .. Len(edges)
    BY <1>2
  <2>4. Taken \subseteq Edge /\ Taken' \subseteq Edge
    BY <2>1, <2>2, <2>3 DEF Taken
  <2> QED
    BY <2>1, <2>2, <2>4
<1>5. Taken' = IF e = outage THEN Taken ELSE Taken \cup {e}
  BY <1>0, <1>2 DEF Taken
<1>6. /\ forest' \in [Vertex -> Vertex]
      /\ \E both \in [Vertex -> Vertex], far \in [Vertex -> Nat] :
           /\ IsForest(forest', both, far)
           /\ \A f \in Taken' : both[edges[f].u] = both[edges[f].v]
           /\ \A v \in Vertex : Joined(Taken', v, both[v])
  <2>1. CASE e = outage
    BY <2>1, <1>0, <1>3, <1>4, <1>5 DEF Counts
  <2>2. CASE e # outage
    <3>1. forest' = Merge(forest, edges[e])
      BY <1>0, <2>2 DEF Counts
    <3>0. PICK edge : edge = edges[e] /\ edge.u \in Vertex /\ edge.v \in Vertex
      BY <1>2
    <3>a. /\ Merge(forest, edge) \in [Vertex -> Vertex]
          /\ \E both \in [Vertex -> Vertex], far \in [Vertex -> Nat] :
              /\ IsForest(Merge(forest, edge), both, far)
              /\ \A w \in Vertex : both[w] = IF rt[w] = rt[edge.u] THEN rt[edge.v]
                                             ELSE rt[w]
      <4>1. IsForest(forest, rt, rank) /\ forest \in [Vertex -> Vertex]
        BY <1>3, <1>4
      <4>2. rt \in [Vertex -> Vertex] /\ rank \in [Vertex -> Nat]
        OBVIOUS
      <4>3. edge.u \in Vertex /\ edge.v \in Vertex
        BY <3>0
      <4> QED
        BY <4>1, <4>2, <4>3, MergeIsForest
    <3>2. PICK both \in [Vertex -> Vertex], far \in [Vertex -> Nat] :
             /\ IsForest(forest', both, far)
             /\ \A w \in Vertex : both[w] = IF rt[w] = rt[edges[e].u] THEN rt[edges[e].v]
                                            ELSE rt[w]
      BY <3>0, <3>1, <3>a
    <3>3. forest' \in [Vertex -> Vertex]
      BY <3>0, <3>1, <3>a
    <3>4. \A f \in Taken' : both[edges[f].u] = both[edges[f].v]
      <4> SUFFICES ASSUME NEW f \in Taken' PROVE both[edges[f].u] = both[edges[f].v]
        OBVIOUS
      <4>1. edges[f].u \in Vertex /\ edges[f].v \in Vertex
        BY <1>4, EdgeEnds
      <4>2. f = e \/ rt[edges[f].u] = rt[edges[f].v]
        BY <1>3, <1>5
      <4> QED
        BY <4>1, <4>2, <3>2
    <3>5. \A v \in Vertex : Joined(Taken', v, both[v])
      <4> SUFFICES ASSUME NEW v \in Vertex PROVE Joined(Taken', v, both[v])
        OBVIOUS
      <4>1. \A w \in Vertex : Joined(Taken', w, rt[w])
        BY <1>3, <1>5, <2>2, JoinedMore
      <4>2. CASE rt[v] # rt[edges[e].u]
        BY <4>1, <4>2, <3>2
      <4>3. CASE rt[v] = rt[edges[e].u]
        <5>1. both[v] = rt[edges[e].v] /\ rt[v] \in Vertex
          BY <4>3, <3>2
        <5>2. Joined(Taken', v, rt[edges[e].u])
          BY <4>1, <4>3
        <5>3. Joined(Taken', edges[e].u, rt[edges[e].u])
          BY <4>1, <1>2
        <5>4. Joined(Taken', rt[edges[e].u], edges[e].u)
          BY <5>3, <1>2, <1>4, JoinedBack
        <5>5. Joined(Taken', edges[e].u, edges[e].v)
          BY <1>5, <2>2, JoinedEnds
        <5>6. Joined(Taken', edges[e].v, rt[edges[e].v])
          BY <4>1, <1>2
        <5> QED
          BY <5>1, <5>2, <5>4, <5>5, <5>6, JoinedOn
      <4> QED
        BY <4>2, <4>3
    <3> QED
      BY <3>2, <3>3, <3>4, <3>5
  <2> QED
    BY <2>1, <2>2
<1>7. TypeInv'
  <2>1. merged' \in 0 .. Len(edges')
    BY <1>0, <1>2, TypeIsGraph DEF graphVars
  <2> QED
    BY <2>1, <1>0, <1>1, <1>6 DEF TypeInv, walkVars, graphVars
<1>8. KeyInv'
  BY <1>0, <1>1 DEF KeyInv, graphVars
<1>9. UnionInv'
  <2>1. PICK both \in [Vertex -> Vertex], far \in [Vertex -> Nat] :
           /\ IsForest(forest', both, far)
           /\ \A f \in Taken' : both[edges[f].u] = both[edges[f].v]
           /\ \A v \in Vertex : Joined(Taken', v, both[v])
    BY <1>6
  <2>2. IsForest(forest, both, far)'
    BY <2>1, <1>1 DEF IsForest
  <2>3. \A v \in Vertex : Joined(Taken, v, both[v])'
    BY <2>1, <1>1
  <2>4. edges' = edges
    BY <1>0 DEF graphVars
  <2> QED
    BY <2>1, <2>2, <2>3, <2>4, <1>0, <1>1 DEF UnionInv
<1>10. FreshInv' /\ TableInv'
  BY <1>0, <1>1 DEF FreshInv, TableInv, walkVars
<1>11. WalkInv'
  BY <1>0, WalkNotBegunYet DEF graphVars
<1> QED
  BY <1>7, <1>8, <1>9, <1>10, <1>11 DEF IInv

(* When all edges have had their turn the count is there.                  *)
LEMMA MergedStep ==
  ASSUME IInv, Merged
  PROVE  IInv'
<1>0. /\ TypeInv /\ KeyInv /\ UnionInv /\ FreshInv /\ ParentInv /\ TableInv /\ pc = "merge"
      /\ UNCHANGED <<graphVars, unionVars, walkVars, lineIsBridge>>
      /\ pc' \in {"walk", "counted"} /\ (pc' = "walk" => outage = 0) /\ merged = Len(edges)
  BY DEF IInv, WalkInv, Merged
<1>1. /\ N' = N /\ Vertex' = Vertex /\ Edge' = Edge /\ Frame' = Frame /\ Known' = Known
      /\ \A b : ScreenIndex(b)' = ScreenIndex(b) /\ \A l : InScreen(l)' <=> InScreen(l)
      /\ \A es, a, b : Joined(es, a, b)' <=> Joined(es, a, b)
  BY <1>0, GraphStays DEF N, Vertex, ActiveBus, ScreenIndex, InScreen, Known, walkVars, graphVars
<1>2. TypeInv'
  BY <1>0, <1>1 DEF TypeInv, walkVars, graphVars, unionVars
<1>3. KeyInv'
  BY <1>0, <1>1 DEF KeyInv, graphVars
<1>4. UnionInv'
  <2>1. Taken' = Taken /\ UNCHANGED <<net, edges, forest, merged, outage>>
    BY <1>0 DEF Taken, unionVars, graphVars
  <2> QED
    BY <2>1, <1>0, UnionStays
<1>5. FreshInv' /\ TableInv'
  BY <1>0, <1>1 DEF FreshInv, TableInv, walkVars
<1>6. WalkInv'
  BY <1>0, WalkNotBegunYet DEF graphVars
<1> QED
  BY <1>2, <1>3, <1>4, <1>5, <1>6 DEF IInv

-----------------------------------------------------------------------------
(* The root loop.                                                          *)

(* The walk leaves the graph and the forest alone. *)
LEMMA GraphPart ==
  ASSUME KeyInv, UnionInv, pc = "walk", pc' \in {"walk", "done"},
         UNCHANGED <<graphVars, unionVars>>
  PROVE  KeyInv' /\ UnionInv'
<1>1. UNCHANGED <<net, scanned, keys, edges, outage, forest, merged>>
  BY DEF graphVars, unionVars
<1>2. /\ \A b : ScreenIndex(b)' = ScreenIndex(b) /\ \A l : InScreen(l)' <=> InScreen(l)
      /\ Edge' = Edge
  BY <1>1 DEF ScreenIndex, InScreen, ActiveBus, Edge
<1>3. KeyInv'
  BY <1>1, <1>2 DEF KeyInv
<1>4. Taken' = Taken
  BY <1>1 DEF Taken
<1>5. merged = Len(edges) /\ outage = 0
  BY DEF UnionInv
<1>6. UnionInv'
  BY <1>1, <1>4, <1>5, UnionStays
<1> QED
  BY <1>3, <1>6

(* Where the walk does not move. *)
LEMMA WalkStays ==
  ASSUME WalkInv, TypeInv, UNCHANGED <<net, edges, base, discovery, low, parentVertex,
           parentEdge, bridge, clock, stack>>,
         \A v \in Vertex : v < root' => v \in Known
  PROVE  WalkInv'
<1>1. /\ Vertex' = Vertex /\ Edge' = Edge
      /\ \A w : Graph(w)' = Graph(w)
      /\ \A w, e : To(w, e)' = To(w, e)
      /\ \A es, a, b : Joined(es, a, b)' <=> Joined(es, a, b)
      /\ \A e : Cut(e)' <=> Cut(e)
  BY GraphStays
<1>2. /\ Known' = Known /\ Place' = Place /\ Open' = Open /\ Finished' = Finished
      /\ TreeRoots' = TreeRoots /\ Child' = Child /\ Tree' = Tree
      /\ \A k : At(k)' = At(k) /\ When(k)' = When(k)
      /\ \A from, to : TreeEdges(from, to)' = TreeEdges(from, to)
  BY <1>1 DEF Known, Place, Open, Finished, TreeRoots, Child, Tree, At, When, TreeEdges
<1>3. ClockInv' /\ RootsInv' /\ PathInv' /\ ParentInv'
  BY <1>1, <1>2 DEF WalkInv, ClockInv, RootsInv, PathInv, ParentInv
<1>4. ScanInv' /\ DoneInv' /\ SpanInv' /\ ApartInv'
  BY <1>1, <1>2 DEF WalkInv, ScanInv, DoneInv, SpanInv, ApartInv
<1>5. TreeInv'
  BY <1>1, <1>2 DEF WalkInv, TreeInv
<1>6. LowInv'
  BY <1>1, <1>2 DEF WalkInv, LowInv, InSegment, Seen
<1>7. WitnessInv'
  BY <1>1, <1>2 DEF WalkInv, WitnessInv, Reaches
<1>8. BridgeInv'
  BY <1>1, <1>2 DEF WalkInv, BridgeInv
<1> QED
  BY <1>3, <1>4, <1>5, <1>6, <1>7, <1>8 DEF WalkInv

(* The root loop passes a vertex that is known.                            *)
LEMMA SkipRootStep ==
  ASSUME IInv, SkipRoot
  PROVE  IInv'
<1>0. /\ TypeInv /\ KeyInv /\ UnionInv /\ FreshInv /\ WalkInv /\ TableInv
      /\ pc = "walk" /\ pc' = "walk" /\ root < N /\ discovery[root] >= 0 /\ root' = root + 1
      /\ UNCHANGED <<graphVars, unionVars, base, discovery, low, parentVertex, parentEdge,
                     bridge, clock, stack, lineIsBridge>>
  BY DEF IInv, SkipRoot
<1>1. /\ N' = N /\ Vertex' = Vertex /\ Edge' = Edge /\ Frame' = Frame
      /\ UNCHANGED <<net, edges>>
  BY <1>0, GraphStays DEF graphVars
<1>2. N \in Nat /\ root \in 0 .. N /\ root' \in 0 .. N
  BY <1>0, TypeIsGraph DEF TypeInv
<1>3. TypeInv'
  BY <1>0, <1>1, <1>2 DEF TypeInv, graphVars, unionVars
<1>4. KeyInv' /\ UnionInv'
  BY <1>0, GraphPart
<1>5. FreshInv' /\ TableInv'
  BY <1>0 DEF FreshInv, TableInv
<1>6. \A v \in Vertex : v < root' => v \in Known
  <2>1. \A v \in Vertex : v < root' => v < root \/ v = root
    BY <1>0, <1>2 DEF Vertex
  <2>2. \A v \in Vertex : v < root => v \in Known
    BY <1>0 DEF WalkInv, RootsInv
  <2> QED
    BY <2>1, <2>2, <1>0 DEF Known
<1>7. WalkInv'
  BY <1>0, <1>1, <1>6, WalkStays
<1> QED
  BY <1>3, <1>4, <1>5, <1>7 DEF IInv

(* The root loop starts a tree at a vertex that is not.                    *)
LEMMA NewRootStep ==
  ASSUME IInv, NewRoot
  PROVE  IInv'
<1>0. /\ TypeInv /\ KeyInv /\ UnionInv /\ FreshInv /\ TableInv
      /\ pc = "walk" /\ pc' = "walk" /\ stack = <<>> /\ root < N /\ discovery[root] < 0
      /\ base' = base + 1 /\ root' = root + 1 /\ clock' = clock + 1
      /\ discovery' = [discovery EXCEPT ![root] = clock]
      /\ low' = [low EXCEPT ![root] = clock]
      /\ stack' = <<[vertex |-> root, taken |-> 0]>>
      /\ UNCHANGED <<graphVars, unionVars, parentVertex, parentEdge, bridge, lineIsBridge>>
  BY DEF IInv, NewRoot, Discover
<1>w. /\ ClockInv /\ RootsInv /\ PathInv /\ ParentInv /\ ScanInv /\ DoneInv
      /\ TreeInv /\ SpanInv /\ ApartInv /\ LowInv /\ WitnessInv /\ BridgeInv
  BY DEF IInv, WalkInv
<1>1. /\ N' = N /\ Vertex' = Vertex /\ Edge' = Edge /\ Frame' = Frame
      /\ UNCHANGED <<net, edges>>
      /\ \A w : Graph(w)' = Graph(w)
      /\ \A w, e : To(w, e)' = To(w, e)
      /\ \A es, a, b : Joined(es, a, b)' <=> Joined(es, a, b)
      /\ \A e : Cut(e)' <=> Cut(e)
  BY <1>0, GraphStays DEF graphVars
<1>2. N \in Nat /\ root \in 0 .. N /\ root' \in 0 .. N /\ root \in Vertex /\ clock \in Nat
      /\ GraphType /\ Edge \subseteq Nat \ {0} /\ IsFiniteSet(Vertex)
      /\ discovery \in [Vertex -> Int] /\ low \in [Vertex -> Int]
  <2>1. root \in 0 .. N /\ N \in Nat /\ root < N /\ Edge = 1 .. Len(edges)
        /\ Len(edges) \in Nat
    BY <1>0, TypeIsGraph DEF TypeInv
  <2>2. root \in Vertex
    BY <2>1 DEF Vertex
  <2> QED
    BY <2>1, <2>2, <1>0, TypeIsGraph DEF TypeInv
<1>r. PICK r \in Vertex : r = root
  BY <1>2
<1>3. TypeInv'
  <2>1. [vertex |-> root, taken |-> 0] \in Frame
    BY <1>2 DEF Frame
  <2>2. stack' \in Seq(Frame) /\ base' \in Nat /\ clock' \in Nat
    BY <2>1, <1>0, <1>2 DEF TypeInv
  <2>3. discovery' \in [Vertex -> Int] /\ low' \in [Vertex -> Int]
    BY <1>0, <1>2
  <2>4. root' \in 0 .. N
    BY <1>2
  <2> QED
    BY <2>2, <2>3, <2>4, <1>0, <1>1 DEF TypeInv, graphVars, unionVars
<1>4. KeyInv' /\ UnionInv'
  BY <1>0, GraphPart
<1>5. FreshInv' /\ TableInv'
  BY <1>0 DEF FreshInv, TableInv
<1>6. /\ r \notin Known /\ Known' = Known \cup {r} /\ discovery'[r] = clock /\ low'[r] = clock
      /\ \A v \in Vertex : v # r => discovery'[v] = discovery[v]
      /\ \A v \in Known : v \in Vertex /\ v # r /\ discovery[v] \in Nat /\ discovery[v] < clock
  BY <1>0, <1>1, <1>2, <1>r, <1>w DEF Known, ClockInv
<1>b. \A v \in Known : discovery'[v] = discovery[v] /\ discovery'[v] < clock
  BY <1>6
<1>7. /\ Place = {} /\ Finished = Known /\ Place' = {1} /\ At(1)' = r /\ When(1)' = clock
      /\ stack'[1].taken = 0 /\ Finished' = Known
  <2>1. Place = {} /\ Place' = {1} /\ At(1)' = r /\ stack'[1].taken = 0 /\ When(1)' = clock
    BY <1>0, <1>r, <1>6 DEF Place, At, When
  <2> QED
    BY <2>1, <1>0, <1>r, <1>6 DEF Finished, Open
<1>8. /\ TreeRoots' = TreeRoots \cup {r} /\ r \notin TreeRoots
      /\ Child' = Child /\ Tree' = Tree /\ Child \subseteq Known /\ TreeRoots \subseteq Known
  <2>1. parentVertex[r] = -1
    BY <1>6, <1>w DEF ParentInv, Child
  <2> QED
    BY <2>1, <1>0, <1>6 DEF TreeRoots, Child, Tree
<1>9. ClockInv'
  <2>1. \A v \in Known' : discovery'[v] < clock'
    BY <1>0, <1>2, <1>6, <1>b
  <2>2. \A v, w \in Known' : discovery'[v] = discovery'[w] => v = w
    BY <1>2, <1>6, <1>b, <1>w DEF ClockInv
  <2> QED
    BY <2>1, <2>2 DEF ClockInv
<1>10. RootsInv'
  <2>1. \A v \in Vertex : v < root' => v < root \/ v = root
    BY <1>0, <1>2 DEF Vertex
  <2>2. \A v \in Vertex : v < root => v \in Known
    BY <1>w DEF RootsInv
  <2>3. IsFiniteSet(TreeRoots)
    BY <1>2, FS_Subset DEF TreeRoots, Known
  <2>4. Cardinality(TreeRoots') = Cardinality(TreeRoots) + 1
    BY <2>3, <1>8, FS_AddElement
  <2>5. base' = Cardinality(TreeRoots')
    BY <2>4, <1>0, <1>w DEF RootsInv
  <2> QED
    BY <2>1, <2>2, <2>5, <1>1, <1>6, <1>r DEF RootsInv
<1>11. PathInv'
  BY <1>6, <1>7, <1>8 DEF PathInv
<1>12. ParentInv'
  BY <1>0, <1>w, <1>1, <1>6, <1>8 DEF ParentInv
<1>13. ScanInv'
  BY <1>1, <1>2, <1>7 DEF ScanInv, Graph
<1>14. \A v \in Known : \A e \in Graph(v) : To(v, e) \in Known
  BY <1>w, <1>7 DEF DoneInv
<1>15. DoneInv'
  BY <1>1, <1>6, <1>7, <1>14 DEF DoneInv
<1>16. TreeInv'
  <2> SUFFICES ASSUME NEW v \in Known', clock <= discovery'[v]
               PROVE  Joined(TreeEdges(When(1), discovery[v]), At(1), v)'
    BY <1>7 DEF TreeInv
  <2>1. v = r
    BY <1>2, <1>6, <1>b
  <2> QED
    BY <2>1, <1>1, <1>7, JoinedSelf
<1>17. SpanInv'
  <2>1. \A v \in Known : \E s \in TreeRoots : Joined(Tree, s, v)'
    BY <1>w, <1>1, <1>8 DEF SpanInv
  <2>2. Joined(Tree, r, r)'
    BY <1>1, JoinedSelf
  <2> QED
    BY <2>1, <2>2, <1>1, <1>6, <1>8 DEF SpanInv
<1>18. ApartInv'
  <2> SUFFICES ASSUME NEW s \in TreeRoots', NEW v \in Known', NEW e \in Graph(v),
                      discovery'[v] < discovery'[s]
               PROVE  To(v, e) \in Known' /\ discovery'[To(v, e)] < discovery'[s]
    BY <1>1 DEF ApartInv
  <2>1. v \in Known
    BY <1>2, <1>6, <1>8, <1>b
  <2>2. To(v, e) \in Known
    BY <2>1, <1>14
  <2>3. CASE s = r
    BY <2>1, <2>2, <2>3, <1>6
  <2>4. CASE s \in TreeRoots
    BY <2>1, <2>2, <2>4, <1>6, <1>8, <1>w DEF ApartInv
  <2> QED
    BY <2>3, <2>4, <1>8
<1>19. LowInv'
  <2> SUFFICES ASSUME NEW v \in Known', NEW e \in Graph(v), InSegment(v, 1)', Seen(v, e, 1)'
               PROVE  FALSE
    BY <1>1, <1>7 DEF LowInv
  <2>1. v \in Finished' \/ (v = r /\ e <= 0)
    BY <1>7 DEF Seen
  <2>2. clock <= discovery'[v]
    BY <1>7 DEF InSegment
  <2>3. e \in Nat \ {0}
    BY <1>2 DEF Graph
  <2>4. CASE v \in Known
    BY <2>2, <2>4, <1>2, <1>6, <1>b
  <2>5. CASE v = r /\ e <= 0
    BY <2>3, <2>5
  <2> QED
    BY <2>1, <2>4, <2>5, <1>7
<1>20. WitnessInv'
  BY <1>6, <1>7 DEF WitnessInv
<1>21. BridgeInv'
  BY <1>0, <1>w, <1>1, <1>7, <1>8 DEF BridgeInv
<1>22. WalkInv'
  BY <1>9, <1>10, <1>11, <1>12, <1>13, <1>15, <1>16, <1>17, <1>18, <1>19, <1>20, <1>21
     DEF WalkInv
<1> QED
  BY <1>3, <1>4, <1>5, <1>22 DEF IInv

-----------------------------------------------------------------------------
(* The top of the stack.                                                   *)

(* The frame on top of the stack, and the places below it. *)
LEMMA TopFacts ==
  ASSUME IInv, stack # <<>>
  PROVE  /\ Len(stack) \in Nat \ {0} /\ Len(stack) \in Place /\ Place = 1 .. Len(stack)
         /\ Top = stack[Len(stack)] /\ Top \in Frame
         /\ At(Len(stack)) = Top.vertex /\ Top.vertex \in Vertex /\ Top.vertex \in Known
         /\ When(Len(stack)) = discovery[Top.vertex]
         /\ \A k \in Place : /\ stack[k] \in Frame /\ At(k) \in Vertex /\ At(k) \in Known
                             /\ When(k) \in Nat
         /\ \A k \in Place : k # Len(stack) => /\ k < Len(stack) /\ When(k) < When(Len(stack))
                                               /\ At(k) # At(Len(stack))
<1>1. /\ stack \in Seq(Frame) /\ PathInv /\ discovery \in [Vertex -> Int]
  BY DEF IInv, TypeInv, WalkInv
<1>2. Len(stack) \in Nat \ {0} /\ Place = 1 .. Len(stack)
  BY <1>1 DEF Place
<1>3. \A k \in Place : stack[k] \in Frame
  BY <1>1, <1>2, ElementOfSeq
<1>4. \A k \in Place : At(k) \in Vertex /\ At(k) \in Known /\ When(k) \in Nat
  BY <1>1, <1>3 DEF At, When, PathInv, Known, Frame
<1>5. Len(stack) \in Place /\ Top = stack[Len(stack)] /\ At(Len(stack)) = Top.vertex
  BY <1>2 DEF Top, At
<1>6. When(Len(stack)) = discovery[Top.vertex]
  BY <1>5 DEF When
<1>7. ASSUME NEW k \in Place, k # Len(stack)
      PROVE  /\ k < Len(stack) /\ When(k) < When(Len(stack)) /\ At(k) # At(Len(stack))
  <2>1. k < Len(stack)
    BY <1>2, <1>7
  <2>2. When(k) < When(Len(stack))
    BY <2>1, <1>1, <1>5 DEF PathInv
  <2>3. When(k) \in Nat /\ When(Len(stack)) \in Nat
    BY <1>4, <1>5
  <2> QED
    BY <2>1, <2>2, <2>3 DEF At, When
<1> QED
  BY <1>2, <1>3, <1>4, <1>5, <1>6, <1>7

(* The parts of the invariant of the walk. *)
LEMMA Parts ==
  ASSUME IInv
  PROVE  /\ TypeInv /\ KeyInv /\ UnionInv /\ FreshInv /\ TableInv
         /\ ClockInv /\ RootsInv /\ PathInv /\ ParentInv /\ ScanInv /\ DoneInv
         /\ TreeInv /\ SpanInv /\ ApartInv /\ LowInv /\ WitnessInv /\ BridgeInv
         /\ GraphType /\ IsFiniteSet(Vertex) /\ N \in Nat /\ Edge \subseteq Nat \ {0}
         /\ discovery \in [Vertex -> Int] /\ low \in [Vertex -> Int] /\ clock \in Nat
         /\ parentVertex \in [Vertex -> Vertex \cup {-1}] /\ parentEdge \in [Vertex -> Nat]
         /\ stack \in Seq(Frame)
<1>1. TypeInv
  BY DEF IInv
<1>2. Edge \subseteq Nat \ {0}
  BY <1>1, TypeIsGraph
<1> QED
  BY <1>1, <1>2, TypeIsGraph DEF IInv, WalkInv, TypeInv

(* The edge that the walk looks at next. *)
LEMMA NextEdge ==
  ASSUME IInv, stack # <<>>, NEW e \in Rest(Top), \A f \in Rest(Top) : e <= f
  PROVE  /\ e \in Graph(Top.vertex) /\ e \in Edge /\ e \in Nat \ {0}
         /\ To(Top.vertex, e) \in Vertex /\ To(Top.vertex, e) # Top.vertex
         /\ \A f \in Graph(Top.vertex) : f <= e => f = e \/ f <= Top.taken
<1>1. e \in Graph(Top.vertex) /\ Top.vertex \in Vertex /\ Top \in Frame
  BY TopFacts DEF Rest
<1>2. e \in Edge /\ e \in Nat \ {0}
  BY <1>1, Parts DEF Graph
<1>3. To(Top.vertex, e) \in Vertex /\ To(Top.vertex, e) # Top.vertex
  BY <1>1, Parts, GraphOf
<1>4. ASSUME NEW f \in Graph(Top.vertex), f <= e, ~(f <= Top.taken)
      PROVE  f = e
  <2>1. f \in Nat /\ Top.taken \in Nat
    BY <1>1, Parts DEF Graph, Frame
  <2>2. f \in Rest(Top)
    BY <2>1, <1>4 DEF Rest
  <2> QED
    BY <2>1, <2>2, <1>2, <1>4
<1> QED
  BY <1>1, <1>2, <1>3, <1>4

(* A frame that has moved on is where it was. *)
LEMMA AdvancedFrames ==
  ASSUME IInv, stack # <<>>, NEW e \in Nat
  PROVE  /\ Advanced(e) \in Seq(Frame) /\ Len(Advanced(e)) = Len(stack)
         /\ \A k \in Place : /\ Advanced(e)[k].vertex = stack[k].vertex
                             /\ k # Len(stack) => Advanced(e)[k].taken = stack[k].taken
         /\ Advanced(e)[Len(stack)].taken = e
<1>1. /\ stack \in Seq(Frame) /\ Len(stack) \in Place /\ Place = 1 .. Len(stack)
      /\ Len(stack) \in Nat \ {0}
  BY Parts, TopFacts
<1>2. \A k \in Place : stack[k] \in Frame
  BY TopFacts
<1> DEFINE top == [stack[Len(stack)] EXCEPT !.taken = e]
<1>3. top \in Frame /\ top.taken = e /\ top.vertex = stack[Len(stack)].vertex
  BY <1>1, <1>2 DEF Frame
<1>4. Advanced(e) = [stack EXCEPT ![Len(stack)] = top]
  BY DEF Advanced
<1> HIDE DEF top
<1>5. Advanced(e) \in Seq(Frame) /\ Len(Advanced(e)) = Len(stack)
  BY <1>1, <1>3, <1>4
<1>6. \A k \in Place : Advanced(e)[k] = IF k = Len(stack) THEN top ELSE stack[k]
  BY <1>1, <1>4
<1> QED
  BY <1>1, <1>3, <1>5, <1>6

-----------------------------------------------------------------------------
(* Edges to vertices that are known.                                       *)

(* The walk has looked at an edge and stays at its vertex: what remains of *)
(* the invariant is what concerns low.                                     *)
LEMMA AdvanceKeeps ==
  ASSUME IInv, pc = "walk", pc' = "walk", stack # <<>>, NEW e \in Rest(Top),
         \A f \in Rest(Top) : e <= f, To(Top.vertex, e) \in Known,
         stack' = Advanced(e), low' \in [Vertex -> Int],
         UNCHANGED <<graphVars, unionVars, base, discovery, clock, parentVertex, parentEdge,
                     bridge, root, lineIsBridge>>,
         LowInv', WitnessInv'
  PROVE  IInv'
<1>0. /\ TypeInv /\ KeyInv /\ UnionInv /\ FreshInv /\ TableInv
      /\ ClockInv /\ RootsInv /\ PathInv /\ ParentInv /\ ScanInv /\ DoneInv
      /\ TreeInv /\ SpanInv /\ ApartInv /\ BridgeInv
      /\ GraphType /\ Edge \subseteq Nat \ {0}
  BY Parts
<1>1. /\ N' = N /\ Vertex' = Vertex /\ Edge' = Edge /\ Frame' = Frame
      /\ UNCHANGED <<net, edges>>
      /\ \A w : Graph(w)' = Graph(w)
      /\ \A w, f : To(w, f)' = To(w, f)
      /\ \A es, a, b : Joined(es, a, b)' <=> Joined(es, a, b)
      /\ \A f : Cut(f)' <=> Cut(f)
  BY GraphStays DEF graphVars
<1>2. /\ Len(stack) \in Place /\ Place = 1 .. Len(stack) /\ At(Len(stack)) = Top.vertex
      /\ e \in Graph(Top.vertex) /\ e \in Nat
      /\ \A f \in Graph(Top.vertex) : f <= e => f = e \/ f <= stack[Len(stack)].taken
  BY TopFacts, NextEdge
<1>3. /\ stack' \in Seq(Frame) /\ Len(stack') = Len(stack) /\ stack' # <<>>
      /\ \A k \in Place : /\ stack'[k].vertex = stack[k].vertex
                          /\ k # Len(stack) => stack'[k].taken = stack[k].taken
      /\ stack'[Len(stack)].taken = e
  <2>1. Len(stack) \in Nat \ {0}
    BY TopFacts
  <2> QED
    BY <2>1, <1>2, AdvancedFrames
<1>4. /\ Place' = Place /\ \A k \in Place : At(k)' = At(k) /\ When(k)' = When(k)
      /\ Known' = Known /\ TreeRoots' = TreeRoots /\ Child' = Child /\ Tree' = Tree
      /\ \A from, to : TreeEdges(from, to)' = TreeEdges(from, to)
  BY <1>1, <1>3 DEF Place, At, When, Known, TreeRoots, Child, Tree, TreeEdges
<1>5. Open' = Open /\ Finished' = Finished
  <2>1. Open' = Open
    BY <1>3, <1>4 DEF Open
  <2> QED
    BY <2>1, <1>4 DEF Finished
<1>6. TypeInv'
  BY <1>0, <1>1, <1>3 DEF TypeInv, graphVars, unionVars
<1>7. KeyInv' /\ UnionInv'
  BY <1>0, GraphPart
<1>8. FreshInv' /\ TableInv'
  BY <1>0 DEF FreshInv, TableInv
<1>9. ClockInv' /\ RootsInv' /\ PathInv' /\ ParentInv'
  <2>1. ClockInv' /\ RootsInv'
    BY <1>0, <1>1, <1>4 DEF ClockInv, RootsInv
  <2>2. PathInv'
    <3>1. \A k \in Place : k # 1 => k - 1 \in Place
      BY <1>2
    <3> QED
      BY <3>1, <1>0, <1>4 DEF PathInv
  <2>3. ParentInv'
    BY <1>0, <1>1, <1>4 DEF ParentInv
  <2> QED
    BY <2>1, <2>2, <2>3
<1>10. ScanInv'
  <2> SUFFICES ASSUME NEW k \in Place, NEW f \in Graph(At(k)), f <= stack'[k].taken
               PROVE  To(At(k), f) \in Known
    BY <1>1, <1>4 DEF ScanInv
  <2>1. CASE k = Len(stack)
    BY <2>1, <1>0, <1>2, <1>3 DEF ScanInv
  <2>2. CASE k # Len(stack)
    BY <2>2, <1>0, <1>3 DEF ScanInv
  <2> QED
    BY <2>1, <2>2
<1>11. DoneInv' /\ TreeInv' /\ SpanInv' /\ ApartInv'
  <2>1. DoneInv'
    BY <1>0, <1>1, <1>4, <1>5 DEF DoneInv
  <2>2. TreeInv'
    BY <1>0, <1>1, <1>4 DEF TreeInv
  <2>3. SpanInv' /\ ApartInv'
    BY <1>0, <1>1, <1>4 DEF SpanInv, ApartInv
  <2> QED
    BY <2>1, <2>2, <2>3
<1>12. BridgeInv'
  BY <1>0, <1>1, <1>4, <1>5 DEF BridgeInv
<1> QED
  BY <1>6, <1>7, <1>8, <1>9, <1>10, <1>11, <1>12 DEF IInv, WalkInv

(* The edge that led to the vertex is passed over.                         *)
LEMMA CameFromStep ==
  ASSUME IInv, pc = "walk", pc' = "walk", stack # <<>>, NEW e \in Rest(Top),
         \A f \in Rest(Top) : e <= f, e = parentEdge[Top.vertex], stack' = Advanced(e),
         UNCHANGED <<graphVars, unionVars, base, discovery, low, clock, parentVertex,
                     parentEdge, bridge, root, lineIsBridge>>
  PROVE  IInv'
<1> DEFINE n == Len(stack)
           u == Top.vertex
<1>0. /\ ParentInv /\ LowInv /\ WitnessInv /\ low' \in [Vertex -> Int]
      /\ UNCHANGED <<net, edges>>
  BY Parts DEF graphVars
<1>1. /\ n \in Place /\ Place = 1 .. n /\ At(n) = u /\ u \in Vertex /\ u \in Known
      /\ e \in Graph(u) /\ e \in Nat \ {0}
      /\ \A f \in Graph(u) : f <= e => f = e \/ f <= stack[n].taken
  BY TopFacts, NextEdge
<1>2. To(u, e) \in Known
  <2>1. u \in Child
    BY <1>0, <1>1 DEF ParentInv
  <2> QED
    BY <2>1, <1>0 DEF ParentInv
<1>3. /\ Vertex' = Vertex /\ \A w : Graph(w)' = Graph(w)
      /\ \A w, f : To(w, f)' = To(w, f)
  BY <1>0, GraphStays
<1>4. /\ Len(stack') = n
      /\ \A k \in Place : /\ stack'[k].vertex = stack[k].vertex
                          /\ k # n => stack'[k].taken = stack[k].taken
      /\ stack'[n].taken = e
  BY <1>1, AdvancedFrames
<1>5. /\ Place' = Place /\ Known' = Known
      /\ \A k \in Place : At(k)' = At(k) /\ When(k)' = When(k)
  BY <1>3, <1>4 DEF Place, At, When, Known
<1>6. Finished' = Finished
  BY <1>4, <1>5 DEF Finished, Open
<1>7. ASSUME NEW k \in Place, NEW v \in Known, NEW f \in Graph(v), Seen(v, f, k)'
      PROVE  Seen(v, f, k)
  <2>1. v \in Finished \/ (v = At(k) /\ f <= stack'[k].taken /\ f # parentEdge[v])
    BY <1>5, <1>6, <1>7 DEF Seen
  <2>2. CASE k # n
    BY <2>1, <2>2, <1>4 DEF Seen
  <2>3. CASE k = n
    BY <2>1, <2>3, <1>1, <1>4 DEF Seen
  <2> QED
    BY <2>2, <2>3
<1>8. LowInv'
  <2> SUFFICES ASSUME NEW k \in Place, NEW v \in Known, NEW f \in Graph(v),
                      InSegment(v, k)', Seen(v, f, k)', discovery[To(v, f)] < When(k)
               PROVE  low[At(k)] <= discovery[To(v, f)]
    BY <1>3, <1>5 DEF LowInv
  <2>1. InSegment(v, k)
    BY <1>5 DEF InSegment
  <2> QED
    BY <2>1, <1>7, <1>0 DEF LowInv
<1>9. WitnessInv'
  BY <1>0, <1>3, <1>5 DEF WitnessInv, Reaches
<1> QED
  BY <1>0, <1>2, <1>8, <1>9, AdvanceKeeps

(* An edge to a vertex that is known lowers low.                           *)
LEMMA BackEdgeStep ==
  ASSUME IInv, pc = "walk", pc' = "walk", stack # <<>>, NEW e \in Rest(Top),
         \A f \in Rest(Top) : e <= f, e # parentEdge[Top.vertex],
         discovery[To(Top.vertex, e)] >= 0, stack' = Advanced(e),
         low' = [low EXCEPT ![Top.vertex] = IF discovery[To(Top.vertex, e)] < @
                                            THEN discovery[To(Top.vertex, e)] ELSE @],
         UNCHANGED <<graphVars, unionVars, base, discovery, clock, parentVertex,
                     parentEdge, bridge, root, lineIsBridge>>
  PROVE  IInv'
<1> DEFINE n == Len(stack)
           u == Top.vertex
           w == To(u, e)
<1>0. /\ ParentInv /\ LowInv /\ WitnessInv /\ low \in [Vertex -> Int]
      /\ discovery \in [Vertex -> Int] /\ UNCHANGED <<net, edges>>
  BY Parts DEF graphVars
<1>1. /\ n \in Place /\ Place = 1 .. n /\ At(n) = u /\ u \in Vertex /\ u \in Known
      /\ e \in Graph(u) /\ e \in Nat \ {0} /\ w \in Vertex /\ When(n) = discovery[u]
      /\ \A f \in Graph(u) : f <= e => f = e \/ f <= stack[n].taken
  BY TopFacts, NextEdge
<1>2. w \in Known
  BY <1>1 DEF Known
<1>3. /\ Vertex' = Vertex /\ \A v : Graph(v)' = Graph(v)
      /\ \A v, f : To(v, f)' = To(v, f)
  BY <1>0, GraphStays
<1>4. /\ Len(stack') = n
      /\ \A k \in Place : /\ stack'[k].vertex = stack[k].vertex
                          /\ k # n => stack'[k].taken = stack[k].taken
      /\ stack'[n].taken = e
  BY <1>1, AdvancedFrames
<1>5. /\ Place' = Place /\ Known' = Known
      /\ \A k \in Place : At(k)' = At(k) /\ When(k)' = When(k)
  BY <1>3, <1>4 DEF Place, At, When, Known
<1>6. Finished' = Finished
  BY <1>4, <1>5 DEF Finished, Open
<1>7. /\ low' \in [Vertex -> Int] /\ \A v \in Vertex : v # u => low'[v] = low[v]
      /\ low'[u] <= low[u] /\ low'[u] <= discovery[w]
      /\ low'[u] = low[u] \/ low'[u] = discovery[w]
      /\ low[u] \in Int /\ discovery[w] \in Int /\ low'[u] \in Int
  BY <1>0, <1>1
<1>8. /\ \A k \in Place : k # n => low'[At(k)] = low[At(k)]
      /\ \A k \in Place : When(k) \in Nat
  BY <1>1, <1>7, TopFacts
<1> HIDE DEF w
<1>9. LowInv'
  <2> SUFFICES ASSUME NEW k \in Place, NEW v \in Known, NEW f \in Graph(v),
                      InSegment(v, k)', Seen(v, f, k)', discovery[To(v, f)] < When(k)
               PROVE  low'[At(k)] <= discovery[To(v, f)]
    BY <1>3, <1>5 DEF LowInv
  <2>1. InSegment(v, k)
    BY <1>5 DEF InSegment
  <2>2. v \in Finished \/ (v = At(k) /\ f <= stack'[k].taken /\ f # parentEdge[v])
    BY <1>5, <1>6 DEF Seen
  <2>3. Seen(v, f, k) => low[At(k)] <= discovery[To(v, f)]
    BY <2>1, <1>0 DEF LowInv
  <2>4. CASE k # n
    BY <2>2, <2>3, <2>4, <1>4, <1>8 DEF Seen
  <2>5. CASE k = n
    <3>1. Seen(v, f, n) \/ (v = u /\ f = e)
      BY <2>2, <2>5, <1>1, <1>4 DEF Seen
    <3>2. CASE v = u /\ f = e
      BY <3>2, <2>5, <1>1, <1>7 DEF w
    <3>3. CASE Seen(v, f, n)
      <4>1. low[u] <= discovery[To(v, f)]
        BY <3>3, <2>3, <2>5, <1>1
      <4>2. discovery[To(v, f)] \in Int
        <5>1. v \in Vertex /\ GraphType
          BY Parts DEF Known
        <5>2. To(v, f) \in Vertex
          BY <5>1, GraphOf
        <5> QED
          BY <5>2, <1>0
      <4> QED
        BY <4>1, <4>2, <2>5, <1>1, <1>7
    <3> QED
      BY <3>1, <3>2, <3>3
  <2> QED
    BY <2>4, <2>5
<1>10. WitnessInv'
  <2> SUFFICES ASSUME NEW k \in Place
               PROVE  \/ low'[At(k)] = When(k)
                      \/ /\ low'[At(k)] < When(k)
                         /\ \E x \in Known : \E f \in Graph(x) : Reaches(k, x, f)'
    BY <1>3, <1>5 DEF WitnessInv
  <2>1. \A x, f : Reaches(k, x, f) /\ low'[At(k)] = low[At(k)] => Reaches(k, x, f)'
    BY <1>3, <1>5 DEF Reaches
  <2>2. CASE low'[At(k)] = low[At(k)]
    BY <2>1, <2>2, <1>0 DEF WitnessInv
  <2>3. CASE low'[At(k)] # low[At(k)]
    <3>1. k = n /\ low'[u] = discovery[w] /\ discovery[w] < low[u]
      BY <2>3, <1>1, <1>7, <1>8
    <3>2. low[u] <= When(n)
      BY <1>0, <1>1, <1>7, <1>8 DEF WitnessInv
    <3>3. PICK x \in Known : x = u
      BY <1>1
    <3>4. When(k) <= discovery[x] /\ e # parentEdge[At(k)]
      BY <3>1, <3>3, <1>1, <1>8
    <3>5. To(x, e) \in Known /\ low'[At(k)] = discovery[To(x, e)] /\ e \in Graph(x)
      BY <3>1, <3>3, <1>1, <1>2 DEF w
    <3>6. Reaches(k, x, e)'
      BY <3>4, <3>5, <1>3, <1>5 DEF Reaches
    <3>7. low'[At(k)] < When(k)
      BY <3>1, <3>2, <1>1, <1>7, <1>8
    <3> QED
      BY <3>5, <3>6, <3>7
  <2> QED
    BY <2>2, <2>3
<1> QED
  BY <1>2, <1>7, <1>9, <1>10, AdvanceKeeps DEF w

-----------------------------------------------------------------------------
(* Edges to new vertices.                                                  *)

(* An edge to a vertex that is new: the walk goes on from there.           *)
LEMMA PushStep ==
  ASSUME IInv, pc = "walk", pc' = "walk", stack # <<>>, NEW e \in Rest(Top),
         \A f \in Rest(Top) : e <= f, discovery[To(Top.vertex, e)] < 0,
         parentVertex' = [parentVertex EXCEPT ![To(Top.vertex, e)] = Top.vertex],
         parentEdge' = [parentEdge EXCEPT ![To(Top.vertex, e)] = e],
         discovery' = [discovery EXCEPT ![To(Top.vertex, e)] = clock],
         low' = [low EXCEPT ![To(Top.vertex, e)] = clock], clock' = clock + 1,
         stack' = Append(Advanced(e), [vertex |-> To(Top.vertex, e), taken |-> 0]),
         UNCHANGED <<graphVars, unionVars, base, bridge, root, lineIsBridge>>
  PROVE  IInv'
<1>0. /\ TypeInv /\ KeyInv /\ UnionInv /\ FreshInv /\ TableInv
      /\ ClockInv /\ RootsInv /\ PathInv /\ ParentInv /\ ScanInv /\ DoneInv
      /\ TreeInv /\ SpanInv /\ ApartInv /\ LowInv /\ WitnessInv /\ BridgeInv
      /\ GraphType /\ Edge \subseteq Nat \ {0} /\ N \in Nat
      /\ discovery \in [Vertex -> Int] /\ low \in [Vertex -> Int] /\ clock \in Nat
      /\ parentVertex \in [Vertex -> Vertex \cup {-1}] /\ parentEdge \in [Vertex -> Nat]
  BY Parts
<1>1. /\ N' = N /\ Vertex' = Vertex /\ Edge' = Edge /\ Frame' = Frame
      /\ UNCHANGED <<net, edges>>
      /\ \A x : Graph(x)' = Graph(x)
      /\ \A x, f : To(x, f)' = To(x, f)
      /\ \A es, a, b : Joined(es, a, b)' <=> Joined(es, a, b)
      /\ \A f : Cut(f)' <=> Cut(f)
  BY GraphStays DEF graphVars
<1>n. PICK n \in Nat \ {0} : n = Len(stack)
  BY TopFacts
<1>u. PICK u \in Vertex : u = Top.vertex
  BY TopFacts
<1>c. PICK c \in Vertex : c = To(u, e)
  BY <1>u, NextEdge
<1>2. /\ n \in Place /\ Place = 1 .. n /\ At(n) = u /\ u \in Known
      /\ e \in Graph(u) /\ e \in Edge /\ e \in Nat \ {0} /\ When(n) = discovery[u] /\ c # u
      /\ \A f \in Graph(u) : f <= e => f = e \/ f <= stack[n].taken
      /\ \A k \in Place : At(k) \in Vertex /\ At(k) \in Known /\ When(k) \in Nat
      /\ \A k \in Place : k # n => When(k) < When(n) /\ At(k) # u
  BY <1>n, <1>u, <1>c, TopFacts, NextEdge
<1>3. /\ discovery[c] < 0
      /\ parentVertex' = [parentVertex EXCEPT ![c] = u]
      /\ parentEdge' = [parentEdge EXCEPT ![c] = e]
      /\ discovery' = [discovery EXCEPT ![c] = clock]
      /\ low' = [low EXCEPT ![c] = clock] /\ clock' = clock + 1
      /\ stack' = Append(Advanced(e), [vertex |-> c, taken |-> 0])
  BY <1>u, <1>c
<1>4. /\ c \notin Known /\ Known' = Known \cup {c}
      /\ discovery'[c] = clock /\ low'[c] = clock /\ parentVertex'[c] = u /\ parentEdge'[c] = e
      /\ \A v \in Vertex : v # c => /\ discovery'[v] = discovery[v] /\ low'[v] = low[v]
                                    /\ parentVertex'[v] = parentVertex[v]
                                    /\ parentEdge'[v] = parentEdge[v]
      /\ \A v \in Known : v \in Vertex /\ v # c /\ discovery[v] \in Nat /\ discovery[v] < clock
  BY <1>0, <1>1, <1>3 DEF Known, ClockInv
<1>5. \A v \in Known : /\ discovery'[v] = discovery[v] /\ low'[v] = low[v]
                       /\ parentVertex'[v] = parentVertex[v] /\ parentEdge'[v] = parentEdge[v]
  BY <1>4
<1>6. /\ stack' \in Seq(Frame) /\ Len(stack') = n + 1
      /\ \A k \in Place : stack'[k].vertex = stack[k].vertex
      /\ \A k \in Place : k # n => stack'[k].taken = stack[k].taken
      /\ stack'[n].taken = e /\ stack'[n + 1].vertex = c /\ stack'[n + 1].taken = 0
  <2>1. /\ Advanced(e) \in Seq(Frame) /\ Len(Advanced(e)) = n
        /\ \A k \in Place : /\ Advanced(e)[k].vertex = stack[k].vertex
                            /\ k # n => Advanced(e)[k].taken = stack[k].taken
        /\ Advanced(e)[n].taken = e
    BY <1>n, <1>2, AdvancedFrames
  <2>2. [vertex |-> c, taken |-> 0] \in Frame
    BY DEF Frame
  <2>3. /\ stack' \in Seq(Frame) /\ Len(stack') = n + 1
        /\ \A k \in 1 .. n : stack'[k] = Advanced(e)[k]
        /\ stack'[n + 1] = [vertex |-> c, taken |-> 0]
    BY <2>1, <2>2, <1>3
  <2> QED
    BY <2>1, <2>3, <1>2
<1>7. /\ Place' = 1 .. (n + 1) /\ Place' = Place \cup {n + 1} /\ n + 1 \notin Place
      /\ \A k \in Place : At(k)' = At(k) /\ When(k)' = When(k)
      /\ At(n + 1)' = c /\ When(n + 1)' = clock
  <2>1. Place' = 1 .. (n + 1) /\ Place' = Place \cup {n + 1} /\ n + 1 \notin Place
    BY <1>2, <1>6 DEF Place
  <2>2. \A k \in Place : At(k)' = At(k) /\ When(k)' = When(k)
    BY <1>2, <1>5, <1>6 DEF At, When
  <2>3. At(n + 1)' = c /\ When(n + 1)' = clock
    BY <1>4, <1>6, <1>n DEF At, When
  <2> QED
    BY <2>1, <2>2, <2>3
<1>8. Open' = Open \cup {c} /\ Finished' = Finished
  <2>1. Open' = {stack'[k].vertex : k \in Place \cup {n + 1}}
    BY <1>7 DEF Open
  <2>2. \A k \in Place : stack'[k].vertex = stack[k].vertex
    BY <1>6
  <2>3. {stack'[k].vertex : k \in Place} = Open
    BY <2>2 DEF Open
  <2>4. stack'[n + 1].vertex = c
    BY <1>6
  <2>5. {stack'[k].vertex : k \in Place \cup {n + 1}}
          = {stack'[k].vertex : k \in Place} \cup {stack'[n + 1].vertex}
    OBVIOUS
  <2>6. Open' = Open \cup {c}
    BY <2>1, <2>3, <2>4, <2>5
  <2> QED
    BY <2>6, <1>4 DEF Finished
<1>9. /\ Child' = Child \cup {c} /\ c \notin Child /\ Child \subseteq Known
      /\ TreeRoots' = TreeRoots /\ TreeRoots \subseteq Known
  <2>1. u # -1
    BY <1>0 DEF Vertex
  <2>2. Child' = Child \cup {c}
    BY <2>1, <1>4, <1>5 DEF Child
  <2>3. TreeRoots' = TreeRoots
    BY <2>1, <1>4, <1>5 DEF TreeRoots
  <2> QED
    BY <2>2, <2>3, <1>4 DEF Child, TreeRoots
<1>10. Tree' = Tree \cup {e}
  <2>1. Tree' = {parentEdge'[v] : v \in Child \cup {c}}
    BY <1>9 DEF Tree
  <2>2. \A v \in Child : parentEdge'[v] = parentEdge[v]
    BY <1>5, <1>9
  <2>3. {parentEdge'[v] : v \in Child} = Tree
    BY <2>2 DEF Tree
  <2>4. {parentEdge'[v] : v \in Child \cup {c}} = {parentEdge'[v] : v \in Child} \cup {parentEdge'[c]}
    OBVIOUS
  <2> QED
    BY <2>1, <2>3, <2>4, <1>4
<1>11. e \in Graph(c) /\ To(c, e) = u
  BY <1>0, <1>2, <1>c, GraphOf
<1>12. TypeInv'
  <2>1. /\ discovery' \in [Vertex -> Int] /\ low' \in [Vertex -> Int] /\ clock' \in Nat
        /\ parentVertex' \in [Vertex -> Vertex \cup {-1}] /\ parentEdge' \in [Vertex -> Nat]
    BY <1>0, <1>2, <1>3
  <2> QED
    BY <2>1, <1>0, <1>1, <1>6 DEF TypeInv, graphVars, unionVars
<1>13. KeyInv' /\ UnionInv'
  BY <1>0, GraphPart
<1>14. FreshInv' /\ TableInv'
  BY <1>0 DEF FreshInv, TableInv
<1>15. ClockInv'
  <2>1. \A v \in Known' : discovery'[v] < clock'
    BY <1>0, <1>3, <1>4, <1>5
  <2>2. \A v, w \in Known' : discovery'[v] = discovery'[w] => v = w
    BY <1>0, <1>4, <1>5 DEF ClockInv
  <2> QED
    BY <2>1, <2>2 DEF ClockInv
<1>16. RootsInv'
  BY <1>0, <1>1, <1>4, <1>9 DEF RootsInv
<1>17. PathInv'
  <2>1. \A k \in Place' : At(k)' \in Known'
    BY <1>2, <1>4, <1>7
  <2>2. ASSUME NEW k \in Place'
        PROVE  IF k = 1 THEN At(k)' \in TreeRoots' ELSE parentVertex'[At(k)'] = At(k - 1)'
    <3>1. CASE k = n + 1
      <4>1. At(k)' = c /\ k # 1
        BY <3>1, <1>7
      <4>2. At(k - 1)' = u
        BY <3>1, <1>2, <1>7
      <4> QED
        BY <4>1, <4>2, <1>4
    <3>2. CASE k \in Place
      <4>1. k # 1 => k - 1 \in Place
        BY <3>2, <1>2
      <4> QED
        BY <3>2, <4>1, <1>0, <1>2, <1>5, <1>7, <1>9 DEF PathInv
    <3> QED
      BY <3>1, <3>2, <1>7
  <2>3. ASSUME NEW j \in Place', NEW k \in Place', j < k
        PROVE  When(j)' < When(k)'
    <3>1. j \in Place
      BY <2>3, <1>2, <1>7
    <3>2. CASE k = n + 1
      <4>1. When(j)' = When(j) /\ When(j) < clock
        BY <3>1, <1>2, <1>4, <1>7 DEF When, At
      <4> QED
        BY <4>1, <3>2, <1>7
    <3>3. CASE k \in Place
      BY <2>3, <3>1, <3>3, <1>0, <1>7 DEF PathInv
    <3> QED
      BY <3>2, <3>3, <1>7
  <2> QED
    BY <2>1, <2>2, <2>3 DEF PathInv
<1>18. ParentInv'
  <2>1. ASSUME NEW v \in Child'
        PROVE  /\ parentVertex'[v] \in Known'
               /\ discovery'[parentVertex'[v]] < discovery'[v]
               /\ parentEdge'[v] \in Graph(v) /\ To(v, parentEdge'[v]) = parentVertex'[v]
    <3>1. CASE v = c
      BY <3>1, <1>2, <1>4, <1>5, <1>11
    <3>2. CASE v \in Child
      BY <3>2, <1>0, <1>4, <1>5, <1>9 DEF ParentInv
    <3> QED
      BY <3>1, <3>2, <1>9
  <2>2. \A v \in Vertex : v \notin Child' => parentEdge'[v] = 0 /\ parentVertex'[v] = -1
    BY <1>0, <1>4, <1>9 DEF ParentInv
  <2> QED
    BY <2>1, <2>2, <1>1 DEF ParentInv
<1>19. ScanInv'
  <2> SUFFICES ASSUME NEW k \in Place', NEW f \in Graph(At(k)'), f <= stack'[k].taken
               PROVE  To(At(k)', f) \in Known'
    BY <1>1 DEF ScanInv
  <2>1. CASE k = n + 1
    <3>1. f \in Nat \ {0} /\ f <= 0
      BY <2>1, <1>0, <1>6 DEF Graph
    <3> QED
      BY <3>1
  <2>2. CASE k = n
    <3>1. f \in Graph(u) /\ At(k)' = u /\ (f = e \/ f <= stack[n].taken)
      BY <2>2, <1>2, <1>6, <1>7
    <3>2. f <= stack[n].taken => To(u, f) \in Known
      BY <3>1, <1>0, <1>2 DEF ScanInv
    <3> QED
      BY <3>1, <3>2, <1>4, <1>c
  <2>3. CASE k \in Place /\ k # n
    BY <2>3, <1>0, <1>4, <1>6, <1>7 DEF ScanInv
  <2> QED
    BY <2>1, <2>2, <2>3, <1>7
<1>20. DoneInv'
  <2> SUFFICES ASSUME NEW v \in Finished, NEW f \in Graph(v)
               PROVE  /\ To(v, f) \in Known'
                      /\ \A k \in Place' : discovery'[v] < When(k)' =>
                                             discovery'[To(v, f)] < When(k)'
    BY <1>1, <1>8 DEF DoneInv
  <2>1. v \in Known /\ To(v, f) \in Known
    BY <1>0 DEF DoneInv, Finished
  <2>2. ASSUME NEW k \in Place', discovery'[v] < When(k)'
        PROVE  discovery'[To(v, f)] < When(k)'
    <3>1. CASE k = n + 1
      BY <3>1, <2>1, <1>4, <1>5, <1>7
    <3>2. CASE k \in Place
      BY <3>2, <2>1, <2>2, <1>0, <1>5, <1>7 DEF DoneInv
    <3> QED
      BY <3>1, <3>2, <1>7
  <2> QED
    BY <2>1, <2>2, <1>4
<1>21. ASSUME NEW from, NEW to \in Int, to < clock
       PROVE  TreeEdges(from, to)' = TreeEdges(from, to)
  <2> DEFINE A == {w \in Child : from < discovery[w] /\ discovery[w] <= to}
             B == {w \in Child' : from < discovery'[w] /\ discovery'[w] <= to}
  <2>1. \A w \in Child : w \in A <=> w \in B
    BY <1>5, <1>9
  <2>2. c \notin B
    BY <1>4, <1>21, <1>0
  <2>3. A = B
    BY <2>1, <2>2, <1>9
  <2>4. \A w \in A : parentEdge'[w] = parentEdge[w]
    BY <1>5, <1>9
  <2>5. TreeEdges(from, to) = {parentEdge[v] : v \in A} /\ TreeEdges(from, to)' = {parentEdge'[v] : v \in B}
    BY DEF TreeEdges
  <2> HIDE DEF A, B
  <2> QED
    BY <2>3, <2>4, <2>5
<1>22. TreeInv'
  <2> SUFFICES ASSUME NEW k \in Place', NEW v \in Known', When(k)' <= discovery'[v]
               PROVE  Joined(TreeEdges(When(k), discovery[v])', At(k)', v)
    BY <1>1 DEF TreeInv
  <2>1. CASE v # c
    <3>1. v \in Known /\ discovery'[v] = discovery[v] /\ discovery[v] \in Int /\ discovery[v] < clock
      BY <2>1, <1>4, <1>5
    <3>2. k \in Place
      <4>1. CASE k = n + 1
        <5>1. When(k)' = clock
          BY <4>1, <1>7
        <5>2. clock <= discovery[v]
          BY <5>1, <3>1
        <5> QED
          BY <5>2, <3>1, <1>0
      <4> QED
        BY <4>1, <1>7
    <3>3. Joined(TreeEdges(When(k), discovery[v]), At(k), v)
      BY <3>1, <3>2, <1>0, <1>7 DEF TreeInv
    <3>4. TreeEdges(When(k), discovery[v])' = TreeEdges(When(k), discovery[v])
      <4> DEFINE from == When(k)
      <4>1. PICK to \in Int : to = discovery[v] /\ to < clock
        BY <3>1
      <4>2. PICK fr \in Nat : fr = When(k)
        BY <3>2, <1>2
      <4>3. TreeEdges(fr, to)' = TreeEdges(fr, to)
        BY <4>1, <1>21
      <4> QED
        BY <4>1, <4>2, <4>3, <3>1, <3>2, <1>7 DEF TreeEdges
    <3> QED
      BY <3>2, <3>3, <3>4, <1>7
  <2>2. CASE v = c /\ k = n + 1
    BY <2>2, <1>7, JoinedSelf
  <2>3. CASE v = c /\ k \in Place
    <3>1. PICK from \in Nat : from = When(k)
      BY <2>3, <1>2
    <3>2. PICK to \in Nat : to = discovery[u] /\ to < clock
      BY <1>2, <1>4
    <3>3. from <= to
      BY <2>3, <3>1, <3>2, <1>2
    <3>4. Joined(TreeEdges(from, to), At(k), u)
      BY <2>3, <3>1, <3>2, <3>3, <1>0, <1>2 DEF TreeInv
    <3>5. TreeEdges(from, to) \subseteq TreeEdges(When(k), discovery[v])'
      <4> SUFFICES ASSUME NEW w \in Child, from < discovery[w], discovery[w] <= to
                   PROVE  parentEdge[w] \in TreeEdges(When(k), discovery[v])'
        BY DEF TreeEdges
      <4>1. w \in Child' /\ discovery'[w] = discovery[w] /\ parentEdge'[w] = parentEdge[w]
            /\ discovery[w] \in Nat
        BY <1>4, <1>5, <1>9
      <4>2. When(k)' < discovery'[w] /\ discovery'[w] <= discovery'[v]
        BY <4>1, <2>3, <3>1, <3>2, <1>4, <1>7, <1>0
      <4> QED
        BY <4>1, <4>2 DEF TreeEdges
    <3>6. e \in TreeEdges(When(k), discovery[v])'
      <4>1. When(k)' < discovery'[c] /\ discovery'[c] <= discovery'[v] /\ c \in Child'
        BY <2>3, <3>1, <3>2, <3>3, <1>4, <1>7, <1>9, <1>0
      <4> QED
        BY <4>1, <1>4 DEF TreeEdges
    <3>7. Joined(TreeEdges(When(k), discovery[v])', At(k), u)
      BY <3>4, <3>5, JoinedMore
    <3>8. Joined(TreeEdges(When(k), discovery[v])', u, c)
      BY <3>6, <1>2, <1>c, JoinedEdge
    <3> QED
      BY <2>3, <3>7, <3>8, <1>7, JoinedOn
  <2> QED
    BY <2>1, <2>2, <2>3, <1>7
<1>23. SpanInv'
  <2>1. ASSUME NEW v \in Known
        PROVE  \E r \in TreeRoots : Joined(Tree', r, v)
    <3>1. PICK r \in TreeRoots : Joined(Tree, r, v)
      BY <1>0 DEF SpanInv
    <3>2. Tree \subseteq Tree'
      BY <1>10
    <3> QED
      BY <3>1, <3>2, JoinedMore
  <2>2. \E r \in TreeRoots : Joined(Tree', r, c)
    <3>1. PICK r \in TreeRoots : Joined(Tree', r, u)
      BY <2>1, <1>2
    <3>2. Joined(Tree', u, c)
      BY <1>2, <1>c, <1>10, JoinedEdge
    <3> QED
      BY <3>1, <3>2, JoinedOn
  <2> QED
    BY <2>1, <2>2, <1>1, <1>4, <1>9 DEF SpanInv
<1>24. ApartInv'
  <2> SUFFICES ASSUME NEW r \in TreeRoots, NEW v \in Known', NEW f \in Graph(v),
                      discovery'[v] < discovery'[r]
               PROVE  To(v, f) \in Known' /\ discovery'[To(v, f)] < discovery'[r]
    BY <1>1, <1>9 DEF ApartInv
  <2>1. r \in Known /\ discovery'[r] = discovery[r] /\ discovery[r] < clock
    BY <1>4, <1>5, <1>9
  <2>2. v \in Known /\ discovery'[v] = discovery[v]
    BY <2>1, <1>0, <1>4, <1>5
  <2>3. To(v, f) \in Known /\ discovery[To(v, f)] < discovery[r]
    BY <2>1, <2>2, <1>0 DEF ApartInv
  <2> QED
    BY <2>1, <2>3, <1>4, <1>5
<1>25. LowInv'
  <2> SUFFICES ASSUME NEW k \in Place', NEW v \in Known', NEW f \in Graph(v),
                      InSegment(v, k)', Seen(v, f, k)', discovery'[To(v, f)] < When(k)'
               PROVE  low'[At(k)'] <= discovery'[To(v, f)]
    BY <1>1 DEF LowInv
  <2>1. \/ v \in Finished
        \/ v = At(k)' /\ f <= stack'[k].taken /\ f # parentEdge'[v]
    BY <1>8 DEF Seen
  <2>2. f \in Nat \ {0} /\ To(v, f) \in Vertex /\ v \in Vertex
    BY <1>0, <1>1, GraphOf DEF Graph, Known
  <2>3. When(k)' <= discovery'[v] /\ \A j \in Place' : k < j => discovery'[v] < When(j)'
    BY DEF InSegment
  <2>4. CASE k = n + 1
    <3>1. v = c
      BY <2>3, <2>4, <1>0, <1>4, <1>5, <1>7
    <3>2. v \notin Finished
      BY <3>1, <1>4 DEF Finished
    <3> QED
      BY <2>1, <2>2, <2>4, <3>2, <1>6
  <2>5. CASE k \in Place
    <3>1. v \in Known /\ discovery'[v] = discovery[v]
      <4>1. discovery'[v] < clock
        BY <2>3, <2>5, <1>2, <1>7
      <4> QED
        BY <4>1, <1>0, <1>4, <1>5
    <3>2. InSegment(v, k)
      BY <2>3, <2>5, <3>1, <1>7 DEF InSegment
    <3>3. To(v, f) # c /\ discovery'[To(v, f)] = discovery[To(v, f)]
      <4>1. When(k) < clock
        BY <2>5, <1>2, <1>4 DEF When, At
      <4>2. When(k)' = When(k) /\ When(k) \in Nat
        BY <2>5, <1>2, <1>7
      <4>3. discovery'[To(v, f)] < When(k)
        BY <4>2
      <4>4. discovery'[To(v, f)] # clock
        BY <4>1, <4>2, <4>3, <1>0
      <4>5. To(v, f) # c
        BY <4>4, <1>4
      <4> QED
        BY <4>5, <2>2, <1>4
    <3>4. Seen(v, f, k)
      <4>1. CASE v \in Finished
        BY <4>1 DEF Seen
      <4>2. CASE v = At(k)' /\ f <= stack'[k].taken /\ f # parentEdge'[v] /\ k # n
        BY <4>2, <2>5, <3>1, <1>5, <1>6, <1>7 DEF Seen
      <4>3. CASE v = At(k)' /\ f <= stack'[k].taken /\ f # parentEdge'[v] /\ k = n
        <5>1. v = u /\ f <= e /\ f # e
          BY <4>3, <3>3, <1>2, <1>6, <1>7, <1>c
        <5> QED
          BY <5>1, <4>3, <3>1, <1>2, <1>5 DEF Seen
      <4> QED
        BY <2>1, <4>1, <4>2, <4>3
    <3>5. low[At(k)] <= discovery[To(v, f)]
      BY <2>5, <3>1, <3>2, <3>3, <3>4, <1>0, <1>7 DEF LowInv
    <3> QED
      BY <2>5, <3>3, <3>5, <1>2, <1>5, <1>7
  <2> QED
    BY <2>4, <2>5, <1>7
<1>26. WitnessInv'
  <2> SUFFICES ASSUME NEW k \in Place'
               PROVE  \/ low'[At(k)'] = When(k)'
                      \/ /\ low'[At(k)'] < When(k)'
                         /\ \E x \in Known' : \E f \in Graph(x) : Reaches(k, x, f)'
    BY <1>1 DEF WitnessInv
  <2>1. CASE k = n + 1
    BY <2>1, <1>4, <1>7
  <2>2. CASE k \in Place
    <3>1. low'[At(k)'] = low[At(k)] /\ When(k)' = When(k)
      BY <2>2, <1>2, <1>5, <1>7
    <3>2. ASSUME NEW x \in Known, NEW f \in Graph(x), Reaches(k, x, f)
          PROVE  Reaches(k, x, f)'
      BY <2>2, <3>1, <3>2, <1>1, <1>2, <1>4, <1>5, <1>7 DEF Reaches
    <3> QED
      BY <2>2, <3>1, <3>2, <1>0, <1>4 DEF WitnessInv
  <2> QED
    BY <2>1, <2>2, <1>7
<1>27. BridgeInv'
  <2>1. Finished' \cap Child' = Finished \cap Child
    BY <1>4, <1>8, <1>9 DEF Finished
  <2>2. \A v \in Finished \cap Child : parentEdge'[v] = parentEdge[v]
    BY <1>5, <1>9
  <2>3. \A f \in bridge' : \E v \in Finished' \cap Child' : parentEdge'[v] = f
    BY <2>1, <2>2, <1>0 DEF BridgeInv
  <2>4. \A v \in Finished' \cap Child' : parentEdge'[v] \in bridge' <=> Cut(parentEdge'[v])
    BY <2>1, <2>2, <1>0 DEF BridgeInv
  <2>5. \A v : Cut(parentEdge[v])' <=> Cut(parentEdge'[v])
    BY <1>1 DEF Cut, Joined, Crosses
  <2> QED
    BY <2>3, <2>4, <2>5 DEF BridgeInv
<1> QED
  BY <1>12, <1>13, <1>14, <1>15, <1>16, <1>17, <1>18, <1>19, <1>20, <1>22, <1>23, <1>24,
     <1>25, <1>26, <1>27 DEF IInv, WalkInv

(* The walk takes an edge, in one of the three ways of the code.           *)
LEMMA WalkEdgeStep ==
  ASSUME IInv, NEW e \in Edge, WalkEdge(e)
  PROVE  IInv'
<1>0. /\ pc = "walk" /\ pc' = "walk" /\ stack # <<>>
      /\ e \in Rest(Top) /\ \A f \in Rest(Top) : e <= f
      /\ UNCHANGED <<graphVars, unionVars, base, bridge, root, lineIsBridge>>
  BY DEF WalkEdge
<1>1. CASE /\ CameFrom(Top.vertex, e) /\ stack' = Advanced(e)
           /\ UNCHANGED <<discovery, low, clock, parentVertex, parentEdge>>
  BY <1>0, <1>1, CameFromStep DEF CameFrom
<1>2. CASE /\ discovery[To(Top.vertex, e)] < 0
           /\ parentVertex' = [parentVertex EXCEPT ![To(Top.vertex, e)] = Top.vertex]
           /\ parentEdge' = [parentEdge EXCEPT ![To(Top.vertex, e)] = e]
           /\ Discover(To(Top.vertex, e))
           /\ stack' = Append(Advanced(e), [vertex |-> To(Top.vertex, e), taken |-> 0])
  BY <1>0, <1>2, PushStep DEF Discover
<1>3. CASE /\ ~CameFrom(Top.vertex, e) /\ discovery[To(Top.vertex, e)] >= 0
           /\ low' = [low EXCEPT ![Top.vertex] = IF discovery[To(Top.vertex, e)] < @
                                                 THEN discovery[To(Top.vertex, e)] ELSE @]
           /\ stack' = Advanced(e)
           /\ UNCHANGED <<discovery, clock, parentVertex, parentEdge>>
  BY <1>0, <1>3, BackEdgeStep DEF CameFrom
<1> QED
  BY <1>1, <1>2, <1>3 DEF WalkEdge

-----------------------------------------------------------------------------
(* What low tells of an edge.                                              *)

(* A tree edge leads to one child.                                         *)
LEMMA OneChildPerEdge ==
  ASSUME IInv, NEW v \in Child, NEW x \in Child, parentEdge[v] = parentEdge[x]
  PROVE  v = x
<1>1. /\ GraphType /\ ParentInv /\ discovery \in [Vertex -> Int]
      /\ parentVertex \in [Vertex -> Vertex \cup {-1}]
  BY Parts
<1>2. v \in Vertex /\ x \in Vertex /\ parentEdge[v] \in Graph(v) /\ parentEdge[x] \in Graph(x)
  BY <1>1 DEF Child, Known, ParentInv
<1>3. /\ parentVertex[v] = To(v, parentEdge[v]) /\ parentVertex[x] = To(x, parentEdge[x])
      /\ discovery[parentVertex[v]] < discovery[v] /\ discovery[parentVertex[x]] < discovery[x]
      /\ parentVertex[v] \in Vertex /\ parentVertex[x] \in Vertex
  BY <1>1 DEF ParentInv, Known
<1>4. {edges[parentEdge[v]].u, edges[parentEdge[v]].v} = {v, parentVertex[v]}
  BY <1>1, <1>2, <1>3, GraphOf
<1>5. {edges[parentEdge[x]].u, edges[parentEdge[x]].v} = {x, parentVertex[x]}
  BY <1>1, <1>2, <1>3, GraphOf
<1>6. {v, parentVertex[v]} = {x, parentVertex[x]}
  BY <1>4, <1>5
<1> SUFFICES ASSUME v # x PROVE FALSE
  OBVIOUS
<1>7. v = parentVertex[x] /\ x = parentVertex[v]
  BY <1>6
<1>8. discovery[v] \in Int /\ discovery[x] \in Int
  BY <1>1, <1>2
<1> QED
  BY <1>3, <1>7, <1>8

(* What a finished frame tells of the edge that led to its vertex.         *)
LEMMA PopView ==
  ASSUME IInv, stack # <<>>, Rest(Top) = {}, parentVertex[Top.vertex] >= 0
  PROVE  /\ Top.vertex \in Child /\ Len(stack) > 1 /\ Len(stack) - 1 \in Place
         /\ At(Len(stack) - 1) = parentVertex[Top.vertex]
         /\ parentEdge[Top.vertex] \in Graph(Top.vertex)
         /\ To(Top.vertex, parentEdge[Top.vertex]) = parentVertex[Top.vertex]
         /\ \A f \in Graph(Top.vertex) : f <= Top.taken /\ To(Top.vertex, f) \in Known
<1>1. /\ PathInv /\ ParentInv /\ ScanInv /\ Edge \subseteq Nat \ {0}
  BY Parts
<1>2. /\ Len(stack) \in Nat \ {0} /\ Len(stack) \in Place /\ Place = 1 .. Len(stack)
      /\ Top = stack[Len(stack)] /\ Top \in Frame
      /\ At(Len(stack)) = Top.vertex /\ Top.vertex \in Vertex /\ Top.vertex \in Known
  BY TopFacts
<1>3. Top.vertex \in Child
  BY <1>2 DEF Child
<1>4. Len(stack) # 1
  BY <1>1, <1>2, <1>3 DEF PathInv, TreeRoots, Child
<1>5. ASSUME NEW f \in Graph(Top.vertex)
      PROVE  f <= Top.taken
  <2>1. f \notin Rest(Top)
    OBVIOUS
  <2>2. f \in Nat /\ Top.taken \in Nat
    BY <1>1, <1>2 DEF Graph, Frame
  <2> QED
    BY <2>1, <2>2 DEF Rest
<1>6. \A f \in Graph(Top.vertex) : To(Top.vertex, f) \in Known
  BY <1>1, <1>2, <1>5 DEF ScanInv
<1>7. At(Len(stack) - 1) = parentVertex[Top.vertex]
  BY <1>1, <1>2, <1>4 DEF PathInv
<1>8. Len(stack) > 1 /\ Len(stack) - 1 \in Place
  <2>1. PICK n \in Nat \ {0} : n = Len(stack) /\ Place = 1 .. n
    BY <1>2
  <2>2. n # 1
    BY <2>1, <1>4
  <2> QED
    BY <2>1, <2>2
<1>9. /\ parentEdge[Top.vertex] \in Graph(Top.vertex)
      /\ To(Top.vertex, parentEdge[Top.vertex]) = parentVertex[Top.vertex]
  BY <1>1, <1>3 DEF ParentInv
<1> QED
  BY <1>3, <1>5, <1>6, <1>7, <1>8, <1>9

(* If low does not reach the parent the edge is a cut: what was found after*)
(* the vertex has no other edge to what was found before it.               *)
LEMMA HighIsCut ==
  ASSUME IInv, stack # <<>>, Rest(Top) = {}, parentVertex[Top.vertex] >= 0,
         low[Top.vertex] > discovery[parentVertex[Top.vertex]]
  PROVE  Cut(parentEdge[Top.vertex])
<1>0. /\ GraphType /\ DoneInv /\ LowInv /\ ClockInv
      /\ discovery \in [Vertex -> Int] /\ low \in [Vertex -> Int]
  BY Parts
<1>n. PICK n \in Place : n = Len(stack) /\ n - 1 \in Place
  BY TopFacts, PopView
<1>u. PICK u \in Known : u = Top.vertex /\ u \in Vertex
  BY TopFacts
<1>p. PICK p \in Known : p = parentVertex[u] /\ p \in Vertex
  BY <1>u, Parts, PopView DEF ParentInv, Known
<1>g. PICK g \in Graph(u) : g = parentEdge[u] /\ To(u, g) = p
  BY <1>u, <1>p, PopView
<1>1. /\ Place = 1 .. n /\ n \in Nat /\ At(n) = u /\ At(n - 1) = p
      /\ When(n) = discovery[u] /\ When(n - 1) = discovery[p]
      /\ discovery[p] < discovery[u] /\ discovery[p] \in Nat /\ discovery[u] \in Nat
      /\ \A k \in Place : When(k) <= When(n - 1) \/ k = n
      /\ \A f \in Graph(u) : f <= stack[n].taken /\ To(u, f) \in Known
  <2>1. /\ Place = 1 .. n /\ n \in Nat /\ At(n) = u /\ At(n - 1) = p
        /\ \A k \in Place : When(k) \in Nat
    BY <1>n, <1>u, <1>p, TopFacts, PopView
  <2>2. When(n) = discovery[u] /\ When(n - 1) = discovery[p]
    BY <2>1 DEF When, At
  <2>3. \A j, k \in Place : j < k => When(j) < When(k)
    BY Parts DEF PathInv
  <2>4. \A k \in Place : k < n - 1 \/ k = n - 1 \/ k = n
    BY <2>1
  <2>5. \A k \in Place : When(k) <= When(n - 1) \/ k = n
    BY <2>1, <2>3, <2>4, <1>n
  <2>6. When(n - 1) < When(n)
    BY <2>1, <2>3, <1>n
  <2>7. \A f \in Graph(u) : f <= stack[n].taken /\ To(u, f) \in Known
    BY <1>n, <1>u, PopView, TopFacts
  <2> QED
    BY <2>1, <2>2, <2>5, <2>6, <2>7, <1>n
<1>2. low[u] > discovery[p]
  BY <1>u, <1>p
<1> DEFINE S == {w \in Known : discovery[u] <= discovery[w]}
<1>3. ASSUME NEW x \in S, NEW f \in Graph(x), To(x, f) \notin S, f # g
      PROVE  FALSE
  <2>1. x \in Known /\ x \in Vertex /\ discovery[x] \in Int /\ discovery[u] <= discovery[x]
    BY <1>0 DEF Known
  <2>2. Seen(x, f, n) /\ To(x, f) \in Known
    <3>1. CASE x = u
      BY <3>1, <1>1, <1>3, <1>g DEF Seen
    <3>2. CASE x # u
      <4>1. x \notin Open
        <5> SUFFICES ASSUME NEW k \in Place, x = At(k) PROVE FALSE
          BY DEF Open, At
        <5>1. When(k) = discovery[x]
          BY DEF When, At
        <5>2. k # n
          BY <3>2, <1>1
        <5> QED
          BY <5>1, <5>2, <2>1, <1>1
      <4>2. x \in Finished
        BY <4>1, <2>1 DEF Finished
      <4> QED
        BY <4>2, <1>0 DEF Seen, DoneInv
    <3> QED
      BY <3>1, <3>2
  <2>3. PICK y \in Known : y = To(x, f)
    BY <2>2
  <2>4. discovery[y] < discovery[u] /\ discovery[y] \in Int /\ y \in Vertex
    BY <1>0, <1>1, <1>3, <2>3 DEF Known
  <2>5. InSegment(x, n)
    BY <2>1, <1>1 DEF InSegment
  <2>6. low[u] <= discovery[y]
    BY <2>1, <2>2, <2>3, <2>4, <2>5, <1>0, <1>1 DEF LowInv
  <2>7. discovery[p] < discovery[y]
    BY <2>4, <2>6, <1>0, <1>1, <1>2, <1>u
  <2>8. y \notin Open
    <3> SUFFICES ASSUME NEW k \in Place, y = At(k) PROVE FALSE
      BY DEF Open, At
    <3>1. When(k) = discovery[y]
      BY DEF When, At
    <3> QED
      BY <3>1, <2>4, <2>7, <1>1
  <2>9. y \in Finished
    BY <2>8 DEF Finished
  <2>10. f \in Graph(y) /\ To(y, f) = x
    BY <1>0, <2>1, <2>3, GraphOf
  <2>11. discovery[x] < When(n)
    BY <2>4, <2>9, <2>10, <1>0, <1>1 DEF DoneInv
  <2> QED
    BY <2>1, <2>11, <1>1
<1>4. u \in S /\ p \notin S /\ S \in SUBSET Vertex
  BY <1>1 DEF Known
<1> HIDE DEF S
<1>5. ASSUME NEW f \in Edge \ {g}, Crosses(f, S)
      PROVE  FALSE
  <2>1. edges[f].u \in Vertex /\ edges[f].v \in Vertex /\ edges[f].u # edges[f].v
    BY <1>0, <1>5, EdgeEnds DEF Crosses
  <2>2. /\ f \in Graph(edges[f].u) /\ To(edges[f].u, f) = edges[f].v
        /\ f \in Graph(edges[f].v) /\ To(edges[f].v, f) = edges[f].u
    BY <2>1 DEF Graph, To
  <2>3. CASE edges[f].u \in S /\ edges[f].v \notin S
    BY <2>2, <2>3, <1>3
  <2>4. CASE edges[f].v \in S /\ edges[f].u \notin S
    BY <2>2, <2>4, <1>3
  <2> QED
    BY <2>3, <2>4, <1>5 DEF Crosses
<1>6. {edges[g].u, edges[g].v} = {u, p} /\ g \in Edge
  <2>1. {edges[g].u, edges[g].v} = {u, To(u, g)} /\ g \in Edge
    BY <1>0, <1>u, GraphOf, Zenon
  <2> QED
    BY <2>1, <1>g
<1>7. ~Joined(Edge \ {g}, u, p)
  BY <1>4, <1>5, NotJoined
<1>8. ~Joined(Edge \ {g}, p, u)
  BY <1>7, <1>0, <1>p, <1>u, JoinedBack
<1>9. Cut(g)
  BY <1>6, <1>7, <1>8 DEF Cut
<1> QED
  BY <1>9, <1>g, <1>u

(* If it does the edge is not: the edge that lowered low goes around it.   *)
LEMMA LowIsNoCut ==
  ASSUME IInv, stack # <<>>, Rest(Top) = {}, parentVertex[Top.vertex] >= 0,
         low[Top.vertex] <= discovery[parentVertex[Top.vertex]]
  PROVE  ~Cut(parentEdge[Top.vertex])
<1>0. /\ GraphType /\ WitnessInv /\ TreeInv /\ ApartInv /\ PathInv
      /\ discovery \in [Vertex -> Int] /\ low \in [Vertex -> Int]
  BY Parts
<1>n. PICK n \in Place : n = Len(stack) /\ n - 1 \in Place
  BY TopFacts, PopView
<1>u. PICK u \in Child : u = Top.vertex /\ u \in Vertex /\ u \in Known
  BY TopFacts, PopView
<1>p. PICK p \in Known : p = parentVertex[u] /\ p \in Vertex
  BY <1>u, Parts, PopView DEF ParentInv, Known
<1>g. PICK g \in Graph(u) : g = parentEdge[u] /\ To(u, g) = p /\ g \in Edge
  BY <1>u, <1>p, PopView DEF Graph
<1> DEFINE rest == Edge \ {g}
<1>1. /\ 1 \in Place /\ At(n) = u /\ At(1) \in TreeRoots /\ At(1) \in Vertex /\ At(1) \in Known
      /\ When(n) = discovery[u] /\ When(1) = discovery[At(1)] /\ When(1) <= discovery[p]
      /\ discovery[p] < discovery[u] /\ discovery[p] \in Nat /\ discovery[u] \in Nat
      /\ When(1) \in Nat
  <2>1. /\ Place = 1 .. n /\ n \in Nat /\ At(n) = u /\ At(n - 1) = p
        /\ \A k \in Place : When(k) \in Nat
        /\ \A k \in Place : At(k) \in Vertex /\ At(k) \in Known
    BY <1>n, <1>u, <1>p, TopFacts, PopView
  <2>2. 1 \in Place /\ (1 = n - 1 \/ 1 < n - 1)
    BY <2>1, <1>n
  <2>3. \A j, k \in Place : j < k => When(j) < When(k)
    BY Parts DEF PathInv
  <2>4. When(1) <= When(n - 1) /\ When(n - 1) < When(n)
    BY <2>1, <2>2, <2>3, <1>n
  <2>5. When(n) = discovery[u] /\ When(n - 1) = discovery[p] /\ When(1) = discovery[At(1)]
    BY <2>1 DEF When, At
  <2>6. At(1) \in TreeRoots
    BY <2>2, <1>0 DEF PathInv
  <2> QED
    BY <2>1, <2>2, <2>4, <2>5, <2>6, <1>n
<1>2. low[u] <= discovery[p] /\ low[u] \in Int /\ low[u] < When(n)
  BY <1>0, <1>1, <1>u, <1>p
<1>3. PICK w \in Known : \E f \in Graph(w) : Reaches(n, w, f)
  BY <1>0, <1>1, <1>2 DEF WitnessInv
<1>4. PICK f \in Graph(w) : Reaches(n, w, f)
  BY <1>3
<1>5. PICK y \in Known : y = To(w, f)
  BY <1>4 DEF Reaches
<1>6. /\ w \in Vertex /\ y \in Vertex /\ discovery[w] \in Nat /\ discovery[y] \in Nat
      /\ discovery[u] <= discovery[w] /\ f # g /\ discovery[y] <= discovery[p]
      /\ f \in Edge /\ f \in Graph(y) /\ To(y, f) = w
  <2>1. w \in Vertex /\ y \in Vertex /\ discovery[w] \in Nat /\ discovery[y] \in Nat
    BY <1>0 DEF Known
  <2> QED
    BY <2>1, <1>0, <1>1, <1>2, <1>4, <1>5, <1>g, GraphOf DEF Reaches
<1>7. ASSUME NEW from, NEW to \in Int, from = discovery[u] \/ to < discovery[u], from \in Nat
      PROVE  TreeEdges(from, to) \subseteq rest
  <2> SUFFICES ASSUME NEW v \in Child, from < discovery[v], discovery[v] <= to
               PROVE  parentEdge[v] \in rest
    BY DEF TreeEdges
  <2>1. parentEdge[v] \in Edge
    BY Parts DEF ParentInv, Graph
  <2>2. discovery[v] \in Int
    BY <1>0 DEF Child, Known
  <2>3. v # u
    BY <2>2, <1>7, <1>1
  <2> QED
    BY <2>1, <2>3, <1>g, <1>u, OneChildPerEdge
<1>8. Joined(rest, u, w)
  <2>1. Joined(TreeEdges(When(n), discovery[w]), At(n), w)
    BY <1>0, <1>1, <1>6 DEF TreeInv
  <2>2. TreeEdges(When(n), discovery[w]) \subseteq rest
    BY <1>1, <1>6, <1>7
  <2> QED
    BY <2>1, <2>2, <1>1, JoinedMore
<1>9. Joined(rest, w, y)
  BY <1>5, <1>6, JoinedEdge
<1>10. When(1) <= discovery[y]
  <2>1. SUFFICES ASSUME discovery[y] < discovery[At(1)] PROVE FALSE
    BY <1>1, <1>6
  <2>2. discovery[w] < discovery[At(1)]
    BY <2>1, <1>0, <1>1, <1>6 DEF ApartInv
  <2> QED
    BY <2>2, <1>1, <1>6
<1>11. ASSUME NEW x \in Known, When(1) <= discovery[x], discovery[x] <= discovery[p]
       PROVE  Joined(rest, At(1), x)
  <2>1. Joined(TreeEdges(When(1), discovery[x]), At(1), x)
    BY <1>0, <1>1, <1>11 DEF TreeInv
  <2>2. discovery[x] \in Int /\ discovery[x] < discovery[u]
    BY <1>0, <1>1, <1>11 DEF Known
  <2>3. TreeEdges(When(1), discovery[x]) \subseteq rest
    BY <2>2, <1>1, <1>7
  <2> QED
    BY <2>1, <2>3, JoinedMore
<1>12. Joined(rest, At(1), p) /\ Joined(rest, At(1), y)
  <2>1. p \in Known /\ y \in Known /\ discovery[p] <= discovery[p]
    BY <1>1
  <2> HIDE DEF rest
  <2>2. Joined(rest, At(1), p)
    BY <2>1, <1>1, <1>11
  <2>3. Joined(rest, At(1), y)
    BY <2>1, <1>6, <1>10, <1>11
  <2> QED
    BY <2>2, <2>3
<1>13. Joined(rest, y, At(1))
  BY <1>0, <1>1, <1>6, <1>12, JoinedBack
<1>14. Joined(rest, u, p)
  BY <1>8, <1>9, <1>12, <1>13, JoinedOn
<1>15. Joined(rest, p, u)
  BY <1>0, <1>p, <1>u, <1>14, JoinedBack
<1>16. {edges[g].u, edges[g].v} = {u, p}
  <2>1. {edges[g].u, edges[g].v} = {u, To(u, g)}
    BY <1>0, <1>u, GraphOf, Zenon
  <2> QED
    BY <2>1, <1>g
<1>17. ~Cut(g)
  BY <1>14, <1>15, <1>16 DEF Cut
<1> QED
  BY <1>17, <1>g, <1>u

-----------------------------------------------------------------------------
(* The end of a vertex and of the walk.                                    *)

(* What the stack without its top frame leaves.                            *)
LEMMA PopFrames ==
  ASSUME IInv, stack # <<>>, stack' = SubSeq(stack, 1, Len(stack) - 1),
         UNCHANGED <<net, edges, discovery, parentVertex, parentEdge>>
  PROVE  /\ stack' \in Seq(Frame)
         /\ Place' = 1 .. (Len(stack) - 1) /\ Place' \subseteq Place
         /\ Place = Place' \cup {Len(stack)} /\ Len(stack) \notin Place'
         /\ \A k \in Place' : stack'[k] = stack[k] /\ At(k)' = At(k) /\ When(k)' = When(k)
         /\ Known' = Known /\ TreeRoots' = TreeRoots /\ Child' = Child /\ Tree' = Tree
         /\ \A from, to : TreeEdges(from, to)' = TreeEdges(from, to)
         /\ Finished' = Finished \cup {Top.vertex} /\ Top.vertex \notin Finished
<1>1. /\ Vertex' = Vertex
  BY GraphStays
<1>n. PICK n \in Nat \ {0} : n = Len(stack)
  BY TopFacts
<1>2. /\ stack \in Seq(Frame) /\ n \in Place /\ Place = 1 .. n /\ At(n) = Top.vertex
      /\ Top.vertex \in Known /\ \A k \in Place : k # n => At(k) # Top.vertex
  BY <1>n, Parts, TopFacts
<1>3. /\ stack' \in Seq(Frame) /\ Len(stack') = n - 1
      /\ \A k \in 1 .. (n - 1) : stack'[k] = stack[k]
  BY <1>n, <1>2
<1>4. /\ Place' = 1 .. (n - 1) /\ Place' \subseteq Place /\ Place = Place' \cup {n} /\ n \notin Place'
  BY <1>2, <1>3 DEF Place
<1>5. \A k \in Place' : stack'[k] = stack[k] /\ At(k)' = At(k) /\ When(k)' = When(k)
  BY <1>3, <1>4 DEF At, When
<1>6. /\ Known' = Known /\ TreeRoots' = TreeRoots /\ Child' = Child /\ Tree' = Tree
      /\ \A from, to : TreeEdges(from, to)' = TreeEdges(from, to)
  BY <1>1 DEF Known, TreeRoots, Child, Tree, TreeEdges
<1>7. Open' = Open \ {Top.vertex} /\ Top.vertex \in Open
  <2>1. \A k \in Place' : stack'[k].vertex = stack[k].vertex /\ stack[k].vertex # Top.vertex
    BY <1>2, <1>4, <1>5 DEF At
  <2>2. Open' = {stack[k].vertex : k \in Place'}
    BY <2>1 DEF Open
  <2>3. Open = {stack[k].vertex : k \in Place'} \cup {stack[n].vertex}
    BY <1>4 DEF Open
  <2>4. stack[n].vertex = Top.vertex
    BY <1>2 DEF At
  <2> QED
    BY <2>1, <2>2, <2>3, <2>4
<1>8. Finished' = Finished \cup {Top.vertex} /\ Top.vertex \notin Finished
  BY <1>2, <1>6, <1>7 DEF Finished
<1> QED
  BY <1>n, <1>3, <1>4, <1>5, <1>6, <1>8

(* A frame without edges left is taken from the stack.                     *)
LEMMA PopStep ==
  ASSUME IInv, Pop
  PROVE  IInv'
<1> DEFINE p == parentVertex[Top.vertex]
<1>0. /\ TypeInv /\ KeyInv /\ UnionInv /\ FreshInv /\ TableInv
      /\ ClockInv /\ RootsInv /\ PathInv /\ ParentInv /\ ScanInv /\ DoneInv
      /\ TreeInv /\ SpanInv /\ ApartInv /\ LowInv /\ WitnessInv /\ BridgeInv
      /\ GraphType /\ Edge \subseteq Nat \ {0} /\ N \in Nat
      /\ discovery \in [Vertex -> Int] /\ low \in [Vertex -> Int]
      /\ parentVertex \in [Vertex -> Vertex \cup {-1}]
  BY Parts
<1>a. /\ pc = "walk" /\ pc' = "walk" /\ stack # <<>> /\ Rest(Top) = {}
      /\ stack' = SubSeq(stack, 1, Len(stack) - 1)
      /\ \/ /\ p >= 0
            /\ low' = [low EXCEPT ![p] = IF low[Top.vertex] < @ THEN low[Top.vertex] ELSE @]
            /\ bridge' = IF low[Top.vertex] > discovery[p]
                         THEN bridge \cup {parentEdge[Top.vertex]} ELSE bridge
         \/ ~(p >= 0) /\ UNCHANGED <<low, bridge>>
      /\ UNCHANGED <<graphVars, unionVars, base, discovery, parentVertex, parentEdge,
                     clock, root, lineIsBridge>>
  BY DEF Pop
<1>1. /\ N' = N /\ Vertex' = Vertex /\ Edge' = Edge /\ Frame' = Frame
      /\ UNCHANGED <<net, edges>>
      /\ \A x : Graph(x)' = Graph(x)
      /\ \A x, f : To(x, f)' = To(x, f)
      /\ \A es, a, b : Joined(es, a, b)' <=> Joined(es, a, b)
      /\ \A f : Cut(f)' <=> Cut(f)
  BY <1>a, GraphStays DEF graphVars
<1>n. PICK n \in Nat \ {0} : n = Len(stack)
  BY <1>a, TopFacts
<1>u. PICK u \in Vertex : u = Top.vertex
  BY <1>a, TopFacts
<1>2. /\ n \in Place /\ Place = 1 .. n /\ At(n) = u /\ u \in Known /\ When(n) = discovery[u]
      /\ \A k \in Place : /\ At(k) \in Vertex /\ At(k) \in Known /\ When(k) \in Nat
                          /\ k # n => When(k) < When(n) /\ At(k) # u
  BY <1>a, <1>n, <1>u, TopFacts
<1>3. /\ stack' \in Seq(Frame)
      /\ Place' = 1 .. (n - 1) /\ Place' \subseteq Place /\ n \notin Place'
      /\ \A k \in Place' : stack'[k] = stack[k] /\ At(k)' = At(k) /\ When(k)' = When(k)
      /\ Known' = Known /\ TreeRoots' = TreeRoots /\ Child' = Child /\ Tree' = Tree
      /\ \A from, to : TreeEdges(from, to)' = TreeEdges(from, to)
      /\ Finished' = Finished \cup {u} /\ u \notin Finished
  BY <1>a, <1>1, <1>n, <1>u, PopFrames
<1>4. KeyInv' /\ UnionInv'
  BY <1>0, <1>a, GraphPart
<1>5. FreshInv' /\ TableInv'
  BY <1>0, <1>a DEF FreshInv, TableInv
<1>6. ClockInv' /\ RootsInv' /\ ParentInv' /\ SpanInv' /\ ApartInv'
  <2>1. ClockInv' /\ RootsInv'
    BY <1>0, <1>a, <1>1, <1>3 DEF ClockInv, RootsInv
  <2>2. ParentInv'
    BY <1>0, <1>a, <1>1, <1>3 DEF ParentInv
  <2>3. SpanInv' /\ ApartInv'
    BY <1>0, <1>a, <1>1, <1>3 DEF SpanInv, ApartInv
  <2> QED
    BY <2>1, <2>2, <2>3
<1>7. PathInv'
  <2>1. \A k \in Place' : k # 1 => k - 1 \in Place'
    BY <1>3
  <2> QED
    BY <2>1, <1>0, <1>a, <1>3 DEF PathInv
<1>8. ScanInv'
  BY <1>0, <1>1, <1>3 DEF ScanInv
<1>9. TreeInv'
  BY <1>0, <1>a, <1>1, <1>3 DEF TreeInv
<1>10. \A f \in Graph(u) : To(u, f) \in Known /\ f <= stack[n].taken
  <2>1. Top = stack[n]
    BY <1>n DEF Top
  <2>2. ASSUME NEW f \in Graph(u) PROVE f <= Top.taken
    <3>1. f \notin Rest(Top) /\ f \in Nat /\ Top.taken \in Nat
      BY <1>a, <1>0, TopFacts DEF Graph, Frame
    <3> QED
      BY <3>1, <1>u DEF Rest
  <2> QED
    BY <2>1, <2>2, <1>0, <1>2 DEF ScanInv
<1>11. DoneInv'
  <2> SUFFICES ASSUME NEW v \in Finished', NEW f \in Graph(v)
               PROVE  /\ To(v, f) \in Known
                      /\ \A k \in Place' : discovery[v] < When(k) =>
                                             discovery[To(v, f)] < When(k)
    BY <1>a, <1>1, <1>3 DEF DoneInv
  <2>1. CASE v = u
    <3>1. \A k \in Place' : ~(discovery[v] < When(k))
      BY <2>1, <1>2, <1>3
    <3> QED
      BY <2>1, <3>1, <1>10
  <2>2. CASE v \in Finished
    BY <2>2, <1>0, <1>3 DEF DoneInv
  <2> QED
    BY <2>1, <2>2, <1>3
<1>12. CASE ~(p >= 0)
  <2>1. UNCHANGED <<low, bridge>>
    BY <1>12, <1>a
  <2>2. n = 1 /\ Place' = {} /\ u \notin Child
    <3>1. parentVertex[u] = -1
      BY <1>12, <1>0, <1>u DEF Vertex
    <3>2. n = 1
      <4>1. n # 1 => n - 1 \in Place /\ parentVertex[At(n)] = At(n - 1)
        BY <1>0, <1>2 DEF PathInv
      <4>2. \A k \in Place : At(k) # -1
        BY <1>0, <1>2 DEF Vertex
      <4> QED
        BY <3>1, <4>1, <4>2, <1>2
    <3> QED
      BY <3>1, <3>2, <1>3 DEF Child
  <2>3. TypeInv'
    BY <2>1, <1>0, <1>a, <1>1, <1>3 DEF TypeInv, graphVars, unionVars
  <2>4. LowInv' /\ WitnessInv'
    BY <2>2 DEF LowInv, WitnessInv
  <2>5. BridgeInv'
    <3>1. Finished' \cap Child' = Finished \cap Child
      BY <2>2, <1>3
    <3>2. \A v : Cut(parentEdge[v])' <=> Cut(parentEdge[v])
      BY <1>a, <1>1 DEF Cut, Joined, Crosses
    <3> QED
      BY <3>1, <3>2, <2>1, <1>0, <1>a DEF BridgeInv
  <2> QED
    BY <2>3, <2>4, <2>5, <1>4, <1>5, <1>6, <1>7, <1>8, <1>9, <1>11 DEF IInv, WalkInv
<1>13. CASE p >= 0
  <2>p. PICK q \in Vertex : q = p /\ q \in Known
    <3>1. Top.vertex \in Child
      BY <1>13, <1>a, PopView
    <3> QED
      BY <3>1, <1>0 DEF ParentInv, Known
  <2>1. /\ u \in Child /\ n - 1 \in Place /\ n - 1 \in Place' /\ At(n - 1) = q
        /\ When(n - 1) = discovery[q] /\ \A k \in Place' : k <= n - 1
        /\ parentVertex[u] = q /\ parentEdge[u] \in Graph(u) /\ To(u, parentEdge[u]) = q
    <3>1. /\ u \in Child /\ n - 1 \in Place /\ At(n - 1) = q /\ n > 1
          /\ parentVertex[u] = q /\ parentEdge[u] \in Graph(u) /\ To(u, parentEdge[u]) = q
      BY <1>13, <1>a, <1>n, <1>u, <2>p, PopView
    <3>2. n - 1 \in Place' /\ \A k \in Place' : k <= n - 1
      BY <3>1, <1>3
    <3>3. When(n - 1) = discovery[q]
      BY <3>1 DEF When, At
    <3> QED
      BY <3>1, <3>2, <3>3
  <2>2. /\ low' = [low EXCEPT ![q] = IF low[u] < @ THEN low[u] ELSE @]
        /\ bridge' = IF low[u] > discovery[q] THEN bridge \cup {parentEdge[u]} ELSE bridge
    BY <1>13, <1>a, <1>u, <2>p
  <2>3. /\ low' \in [Vertex -> Int] /\ \A v \in Vertex : v # q => low'[v] = low[v]
        /\ low'[q] <= low[q] /\ low'[q] <= low[u] /\ (low'[q] = low[q] \/ low'[q] = low[u])
        /\ low[q] \in Int /\ low[u] \in Int /\ low'[q] \in Int
    BY <2>2, <1>0
  <2>4. \A k \in Place' : k # n - 1 => low'[At(k)] = low[At(k)]
    <3> SUFFICES ASSUME NEW k \in Place', k # n - 1
                 PROVE  low'[At(k)] = low[At(k)]
      OBVIOUS
    <3>1. k < n - 1 /\ k \in Place
      BY <1>3, <2>1
    <3>2. When(k) < When(n - 1)
      BY <3>1, <2>1, <1>0 DEF PathInv
    <3>3. At(k) # q /\ At(k) \in Vertex
      BY <3>1, <3>2, <2>1, <1>2 DEF When, At
    <3> QED
      BY <3>3, <2>3
  <2>5. TypeInv'
    <3>1. parentEdge[u] \in Edge
      BY <2>1 DEF Graph
    <3>2. bridge' \subseteq Edge
      BY <3>1, <2>2, <1>0 DEF TypeInv
    <3> QED
      BY <3>2, <2>3, <1>0, <1>a, <1>1, <1>3 DEF TypeInv, graphVars, unionVars
  <2>6. LowInv'
    <3> SUFFICES ASSUME NEW k \in Place', NEW v \in Known, NEW f \in Graph(v),
                        InSegment(v, k)', Seen(v, f, k)', discovery[To(v, f)] < When(k)
                 PROVE  low'[At(k)] <= discovery[To(v, f)]
      BY <1>a, <1>1, <1>3 DEF LowInv
    <3>1. /\ When(k) <= discovery[v] /\ k \in Place
          /\ \A j \in Place' : k < j => discovery[v] < When(j)
      BY <1>a, <1>3 DEF InSegment
    <3>2. \/ v \in Finished \/ v = u
          \/ v = At(k) /\ f <= stack[k].taken /\ f # parentEdge[v]
      BY <1>a, <1>3 DEF Seen
    <3>3. /\ v \in Vertex /\ To(v, f) \in Vertex /\ discovery[v] \in Int
          /\ discovery[To(v, f)] \in Int
      BY <1>0, GraphOf DEF Known
    <3>4. CASE v # u /\ (k # n - 1 \/ discovery[v] < When(n))
      <4>1. InSegment(v, k)
        <5> SUFFICES ASSUME NEW j \in Place, k < j PROVE discovery[v] < When(j)
          BY <3>1 DEF InSegment
        <5>1. CASE j # n
          <6>1. j \in Place'
            BY <5>1, <1>2, <1>3
          <6> QED
            BY <6>1, <3>1
        <5>2. CASE j = n /\ k = n - 1
          BY <5>2, <3>4
        <5>3. CASE j = n /\ k # n - 1
          <6>1. k < n - 1
            BY <5>3, <2>1, <3>1, <1>3, <1>2
          <6>2. discovery[v] < When(n - 1) /\ When(n - 1) < When(n)
            BY <6>1, <3>1, <2>1, <1>2
          <6> QED
            BY <6>2, <5>3, <3>3, <2>1, <1>2
        <5> QED
          BY <5>1, <5>2, <5>3
      <4>2. Seen(v, f, k)
        BY <3>2, <3>4 DEF Seen
      <4>3. low[At(k)] <= discovery[To(v, f)]
        BY <4>1, <4>2, <3>1, <1>0 DEF LowInv
      <4>4. low'[At(k)] <= low[At(k)] /\ low'[At(k)] \in Int /\ low[At(k)] \in Int
        <5>1. CASE k = n - 1
          BY <5>1, <2>1, <2>3
        <5>2. CASE k # n - 1
          <6>1. At(k) \in Vertex /\ low'[At(k)] = low[At(k)]
            BY <5>2, <3>1, <2>4, <1>2
          <6>2. low[At(k)] \in Int
            BY <6>1, <1>0
          <6> QED
            BY <6>1, <6>2
        <5> QED
          BY <5>1, <5>2
      <4> QED
        BY <4>3, <4>4, <3>3
    <3>5. CASE k = n - 1 /\ (v = u \/ ~(discovery[v] < When(n)))
      <4>1. When(n) <= discovery[v] /\ When(n - 1) < When(n) /\ When(n - 1) \in Nat /\ When(n) \in Nat
        BY <3>5, <3>3, <2>1, <1>2
      <4>2. InSegment(v, n)
        BY <4>1, <1>2 DEF InSegment
      <4>3. Seen(v, f, n)
        <5>1. CASE v \in Finished
          BY <5>1 DEF Seen
        <5>2. CASE v = u
          <6>1. f # parentEdge[u]
            BY <5>2, <3>5, <2>1, <4>1
          <6> QED
            BY <6>1, <5>2, <1>2, <1>10 DEF Seen
        <5>3. CASE v = At(k) /\ f <= stack[k].taken /\ f # parentEdge[v]
          BY <5>3, <4>1, <3>5, <2>1
        <5> QED
          BY <5>1, <5>2, <5>3, <3>2
      <4>4. discovery[To(v, f)] < When(n)
        BY <4>1, <3>3, <3>5
      <4>5. low[u] <= discovery[To(v, f)]
        BY <4>2, <4>3, <4>4, <1>0, <1>2 DEF LowInv
      <4> QED
        BY <4>5, <3>3, <3>5, <2>1, <2>3
    <3>6. CASE v = u /\ k # n - 1
      <4>1. k < n - 1
        BY <3>6, <2>1, <3>1, <1>2
      <4>2. discovery[u] < When(n - 1) /\ When(n - 1) < When(n)
        BY <4>1, <3>1, <3>6, <2>1, <1>2
      <4> QED
        BY <4>2, <3>3, <3>6, <2>1, <1>2
    <3> QED
      BY <3>4, <3>5, <3>6
  <2>7. WitnessInv'
    <3> SUFFICES ASSUME NEW k \in Place'
                 PROVE  \/ low'[At(k)] = When(k)
                        \/ /\ low'[At(k)] < When(k)
                           /\ \E x \in Known : \E f \in Graph(x) : Reaches(k, x, f)'
      BY <1>1, <1>3 DEF WitnessInv
    <3>1. k \in Place
      BY <1>3
    <3>2. CASE low'[At(k)] = low[At(k)]
      <4>1. \A x, f : Reaches(k, x, f) => Reaches(k, x, f)'
        BY <3>2, <1>a, <1>1, <1>3 DEF Reaches
      <4> QED
        BY <3>1, <3>2, <4>1, <1>0 DEF WitnessInv
    <3>3. CASE low'[At(k)] # low[At(k)]
      <4>1. k = n - 1 /\ low'[q] = low[u] /\ low[u] < low[q]
        <5>1. k = n - 1
          BY <3>3, <2>4
        <5>2. low'[q] # low[q]
          BY <5>1, <3>3, <2>1
        <5> QED
          BY <5>1, <5>2, <2>3
      <4>2. low[q] <= When(n - 1) /\ When(n - 1) < When(n) /\ When(n - 1) \in Nat /\ When(n) \in Nat
        <5>1. low[q] = When(n - 1) \/ low[q] < When(n - 1)
          BY <2>1, <1>0 DEF WitnessInv
        <5> QED
          BY <5>1, <2>1, <2>3, <1>2
      <4>3. low[u] < When(n)
        BY <4>1, <4>2, <2>3
      <4>4. PICK x \in Known : \E f \in Graph(x) : Reaches(n, x, f)
        <5>1. low[At(n)] # When(n)
          BY <4>3, <2>3, <1>2
        <5> QED
          BY <5>1, <1>0, <1>2 DEF WitnessInv
      <4>5. PICK f \in Graph(x) : Reaches(n, x, f)
        BY <4>4
      <4>6. /\ When(n) <= discovery[x] /\ To(x, f) \in Known /\ low[u] = discovery[To(x, f)]
            /\ x \in Vertex /\ discovery[x] \in Int
        BY <4>5, <1>0, <1>2 DEF Reaches, Known
      <4>7. f # parentEdge[q]
        <5> SUFFICES ASSUME f = parentEdge[q] PROVE FALSE
          OBVIOUS
        <5>1. q \in Child
          <6>1. f \in Nat \ {0}
            BY <1>0 DEF Graph
          <6> QED
            BY <6>1, <2>p, <1>0 DEF ParentInv
        <5>2. /\ f \in Graph(q) /\ To(q, f) \in Vertex /\ To(q, f) = parentVertex[q]
              /\ discovery[To(q, f)] < discovery[q]
          BY <5>1, <2>p, <1>0, GraphOf DEF ParentInv
        <5>3. x = q \/ x = To(q, f)
          BY <5>2 DEF Graph, To
        <5> QED
          BY <5>2, <5>3, <4>2, <4>6, <2>1, <1>0
      <4>8. Reaches(k, x, f)'
        <5>1. When(k) <= discovery[x] /\ f # parentEdge[At(k)]
          BY <4>1, <4>2, <4>6, <4>7, <2>1
        <5>2. low'[At(k)] = discovery[To(x, f)]
          BY <4>1, <4>6, <2>1
        <5> QED
          BY <5>1, <5>2, <4>6, <1>a, <1>1, <1>3 DEF Reaches
      <4>9. low'[At(k)] < When(k)
        BY <4>1, <4>2, <2>1, <2>3
      <4> QED
        BY <4>8, <4>9
    <3> QED
      BY <3>2, <3>3
  <2>8. BridgeInv'
    <3>1. Finished' \cap Child' = (Finished \cap Child) \cup {u}
      BY <2>1, <1>3
    <3>2. \A v : Cut(parentEdge[v])' <=> Cut(parentEdge[v])
      BY <1>a, <1>1 DEF Cut, Joined, Crosses
    <3>3. \A v \in Finished \cap Child : parentEdge[v] # parentEdge[u]
      BY <2>1, <1>3, OneChildPerEdge
    <3>4. parentEdge[u] \notin bridge
      BY <3>3, <1>0 DEF BridgeInv
    <3>5. low[u] > discovery[q] <=> Cut(parentEdge[u])
      <4>1. low[u] > discovery[q] => Cut(parentEdge[u])
        BY <1>13, <1>a, <1>u, <2>p, HighIsCut
      <4>2. low[u] <= discovery[q] => ~Cut(parentEdge[u])
        BY <1>13, <1>a, <1>u, <2>p, LowIsNoCut
      <4>3. low[u] \in Int /\ discovery[q] \in Int
        BY <1>0
      <4> QED
        BY <4>1, <4>2, <4>3
    <3>6. parentEdge[u] \in bridge' <=> Cut(parentEdge[u])
      BY <3>4, <3>5, <2>2
    <3>7. \A v \in Finished \cap Child : parentEdge[v] \in bridge' <=> Cut(parentEdge[v])
      BY <3>3, <2>2, <1>0 DEF BridgeInv
    <3>8. \A f \in bridge' : \E v \in (Finished \cap Child) \cup {u} : parentEdge[v] = f
      BY <2>2, <1>0 DEF BridgeInv
    <3> QED
      BY <3>1, <3>2, <3>6, <3>7, <3>8, <1>a DEF BridgeInv
  <2> QED
    BY <2>5, <2>6, <2>7, <2>8, <1>4, <1>5, <1>6, <1>7, <1>8, <1>9, <1>11 DEF IInv, WalkInv
<1> QED
  BY <1>12, <1>13

(* The table is made when the walk is over.                                *)
LEMMA TabulateStep ==
  ASSUME IInv, Tabulate
  PROVE  IInv'
<1>0. /\ TypeInv /\ KeyInv /\ UnionInv /\ FreshInv /\ TableInv /\ WalkInv /\ RootsInv
      /\ pc = "walk" /\ pc' = "done" /\ stack = <<>> /\ root = N
      /\ lineIsBridge' = IF Roots(forest) = 1
           THEN [l \in {keys[e] : e \in Edge} |->
                   \E e \in Edge : keys[e] = l /\ OutageComponents(e) > Roots(forest)]
           ELSE lineIsBridge
      /\ UNCHANGED <<graphVars, unionVars, walkVars>>
  BY DEF IInv, WalkInv, Tabulate, Authoritative
<1>1. /\ N' = N /\ Vertex' = Vertex /\ Edge' = Edge /\ Frame' = Frame
      /\ UNCHANGED <<net, edges, keys, forest, base, bridge, root, stack, discovery, low,
                     parentVertex, parentEdge, clock>>
  BY <1>0, GraphStays DEF graphVars, unionVars, walkVars
<1>2. TypeInv'
  BY <1>0, <1>1 DEF TypeInv, graphVars, unionVars
<1>3. KeyInv' /\ UnionInv'
  BY <1>0, GraphPart
<1>4. FreshInv'
  BY <1>0, <1>1 DEF FreshInv
<1>5. WalkInv'
  <2>1. \A v \in Vertex : v < root' => v \in Known
    BY <1>0, <1>1 DEF RootsInv
  <2> QED
    BY <2>1, <1>0, <1>1, WalkStays
<1>6. TableInv'
  <2>1. lineIsBridge = [l \in {} |-> FALSE]
    BY <1>0 DEF FreshInv
  <2>2. Roots(forest)' = Roots(forest) /\ \A e : OutageComponents(e)' = OutageComponents(e)
    BY <1>1 DEF Roots, OutageComponents, Find
  <2>3. CASE Roots(forest) = 1
    <3>1. lineIsBridge' =
            [l \in {keys[e] : e \in Edge} |->
               \E e \in Edge : keys[e] = l /\ OutageComponents(e) > Roots(forest)]
      BY <2>3, <1>0
    <3> QED
      BY <3>1, <2>2, <2>3, <1>1 DEF TableInv
  <2>4. CASE Roots(forest) # 1
    BY <2>1, <2>2, <2>4, <1>0 DEF TableInv
  <2> QED
    BY <2>3, <2>4
<1> QED
  BY <1>2, <1>3, <1>4, <1>5, <1>6 DEF IInv

-----------------------------------------------------------------------------
(* The counts.                                                             *)

(* Whatever the network, the graph is that of its circuits, the forest is a*)
(* union-find of the edges taken, and the walk has found, of what is       *)
(* finished, the bridges and no other edge.                                *)
THEOREM Inductive == Spec => []IInv
<1>1. Init => IInv
  BY InitIsFresh
<1>2. IInv /\ [Next]_vars => IInv'
  <2> SUFFICES ASSUME IInv, [Next]_vars PROVE IInv'
    OBVIOUS
  <2>1. CASE AddEdge
    BY <2>1, AddEdgeStep
  <2>2. CASE SkipCircuit
    BY <2>2, SkipCircuitStep
  <2>3. CASE StartCount
    BY <2>3, StartCountStep
  <2>4. CASE MergeEdge
    BY <2>4, MergeEdgeStep
  <2>5. CASE Merged
    BY <2>5, MergedStep
  <2>6. CASE SkipRoot
    BY <2>6, SkipRootStep
  <2>7. CASE NewRoot
    BY <2>7, NewRootStep
  <2>8. CASE \E e \in Edge : WalkEdge(e)
    BY <2>8, WalkEdgeStep
  <2>9. CASE Pop
    BY <2>9, PopStep
  <2>10. CASE Tabulate
    BY <2>10, TabulateStep
  <2>11. CASE UNCHANGED vars
    <3>1. UNCHANGED <<net, scanned, keys, edges, pc, outage, forest, merged, base, discovery,
                      low, parentVertex, parentEdge, bridge, clock, root, stack,
                      lineIsBridge>>
      BY <2>11 DEF vars, graphVars, unionVars, walkVars
    <3>2. /\ N' = N /\ Vertex' = Vertex /\ Edge' = Edge /\ Frame' = Frame
          /\ \A b : ScreenIndex(b)' = ScreenIndex(b) /\ \A l : InScreen(l)' <=> InScreen(l)
      BY <3>1, GraphStays DEF ScreenIndex, InScreen, ActiveBus
    <3>3. TypeInv' /\ KeyInv' /\ FreshInv'
      BY <3>1, <3>2 DEF IInv, TypeInv, KeyInv, FreshInv, Known
    <3>4. UnionInv'
      <4>1. Taken' = Taken
        BY <3>1 DEF Taken
      <4> QED
        BY <4>1, <3>1, UnionStays DEF IInv, UnionInv
    <3>5. WalkInv'
      <4>1. \A v \in Vertex : v < root' => v \in Known
        BY <3>1, Parts DEF RootsInv
      <4> QED
        BY <4>1, <3>1, WalkStays DEF IInv
    <3>6. TableInv'
      BY <3>1, <3>2 DEF IInv, TableInv, Roots, OutageComponents, Find
    <3> QED
      BY <3>3, <3>4, <3>5, <3>6 DEF IInv
  <2> QED
    BY <2>1, <2>2, <2>3, <2>4, <2>5, <2>6, <2>7, <2>8, <2>9, <2>10, <2>11 DEF Next
<1> QED
  BY <1>1, <1>2, PTL DEF Spec

(* When all edges have had their turn the forest counts the parts.         *)
LEMMA ForestCounts ==
  ASSUME IInv, pc \in {"counted", "walk", "done"}
  PROVE  Roots(forest) = Cardinality(Components(Edge \ {outage}))
<1>1. /\ GraphType /\ IsFiniteSet(Vertex) /\ forest \in [Vertex -> Vertex] /\ UnionInv
  BY Parts DEF TypeInv
<1>2. merged = Len(edges) /\ Taken = Edge \ {outage}
  BY <1>1, Parts, TypeIsGraph DEF UnionInv, Taken
<1>3. PICK rt \in [Vertex -> Vertex], rank \in [Vertex -> Nat] :
        /\ IsForest(forest, rt, rank)
        /\ \A e \in Taken : rt[edges[e].u] = rt[edges[e].v]
        /\ \A v \in Vertex : Joined(Taken, v, rt[v])
  BY <1>1 DEF UnionInv
<1> DEFINE es == Edge \ {outage}
<1>4. /\ es \in SUBSET Edge /\ \A e \in es : rt[edges[e].u] = rt[edges[e].v]
      /\ \A v \in Vertex : Joined(es, v, rt[v])
  BY <1>2, <1>3
<1> HIDE DEF es
<1>5. Roots(forest) = Cardinality(Components(es))
  BY <1>1, <1>3, <1>4, RootsCount
<1> QED
  BY <1>5 DEF es

(* At the end of the walk all vertices are finished, and each is joined by *)
(* tree edges to a root.  Two roots are never joined.                      *)
LEMMA WalkEnds ==
  ASSUME IInv, pc = "done"
  PROVE  /\ Known = Vertex /\ Finished = Vertex /\ Tree \subseteq Edge
         /\ \A v \in Vertex : \E r \in TreeRoots : Joined(Tree, r, v)
         /\ \A r, s \in TreeRoots : Joined(Edge, r, s) => r = s
<1>1. /\ root = N /\ stack = <<>> /\ RootsInv /\ SpanInv /\ ApartInv /\ ClockInv /\ ParentInv
      /\ GraphType /\ N \in Nat /\ discovery \in [Vertex -> Int] /\ TreeRoots \subseteq Known
  BY Parts DEF FreshInv, TreeRoots
<1>2. Known = Vertex
  <2>1. \A v \in Vertex : v < N
    BY <1>1 DEF Vertex
  <2> QED
    BY <2>1, <1>1 DEF RootsInv, Known
<1>3. Finished = Vertex
  BY <1>1, <1>2 DEF Finished, Open, Place
<1>4. Tree \subseteq Edge
  BY <1>1 DEF Tree, ParentInv, Graph
<1>5. ASSUME NEW r \in TreeRoots, NEW s \in TreeRoots, discovery[r] < discovery[s],
             Joined(Edge, r, s)
      PROVE  FALSE
  <2> DEFINE S == {v \in Vertex : discovery[v] < discovery[s]}
  <2>1. r \in S /\ s \notin S /\ S \in SUBSET Vertex
    BY <1>1, <1>2, <1>5
  <2>2. \A v \in S : \A e \in Graph(v) : To(v, e) \in S
    BY <1>1, <1>2 DEF ApartInv
  <2> HIDE DEF S
  <2>3. ASSUME NEW e \in Edge, Crosses(e, S) PROVE FALSE
    <3>1. edges[e].u \in Vertex /\ edges[e].v \in Vertex /\ edges[e].u # edges[e].v
      BY <1>1, <2>3, EdgeEnds DEF Crosses
    <3>2. /\ e \in Graph(edges[e].u) /\ To(edges[e].u, e) = edges[e].v
          /\ e \in Graph(edges[e].v) /\ To(edges[e].v, e) = edges[e].u
      BY <3>1 DEF Graph, To
    <3> QED
      BY <3>2, <2>2, <2>3 DEF Crosses
  <2> QED
    BY <2>1, <2>3, <1>5, NotJoined
<1>6. ASSUME NEW r \in TreeRoots, NEW s \in TreeRoots, Joined(Edge, r, s)
      PROVE  r = s
  <2>1. r \in Vertex /\ s \in Vertex /\ discovery[r] \in Int /\ discovery[s] \in Int
    BY <1>1, <1>2
  <2>2. Joined(Edge, s, r)
    BY <2>1, <1>1, <1>6, JoinedBack
  <2>3. ~(discovery[r] < discovery[s]) /\ ~(discovery[s] < discovery[r])
    BY <2>2, <1>5, <1>6
  <2>4. discovery[r] = discovery[s]
    BY <2>1, <2>3
  <2> QED
    BY <2>1, <2>4, <1>1, <1>2 DEF ClockInv
<1> QED
  BY <1>1, <1>2, <1>3, <1>4, <1>6 DEF SpanInv

(* The roots of the walk count the parts of the base.                      *)
LEMMA BaseCounts ==
  ASSUME IInv, pc = "done"
  PROVE  base = Cardinality(Components(Edge))
<1>1. /\ GraphType /\ IsFiniteSet(Vertex) /\ base = Cardinality(TreeRoots)
  BY Parts DEF RootsInv
<1>2. /\ Known = Vertex /\ Tree \subseteq Edge /\ TreeRoots \in SUBSET Vertex
      /\ \A v \in Vertex : \E r \in TreeRoots : Joined(Tree, r, v)
      /\ \A r, s \in TreeRoots : Joined(Edge, r, s) => r = s
  BY WalkEnds DEF TreeRoots
<1>3. ASSUME NEW x \in Vertex
      PROVE  \E r \in TreeRoots : Component(Edge, x) = Component(Edge, r)
  <2>1. PICK r \in TreeRoots : Joined(Tree, r, x)
    BY <1>2
  <2>2. r \in Vertex /\ x \in Component(Edge, r)
    BY <2>1, <1>2, JoinedMore DEF Component
  <2> QED
    BY <2>2, <1>1, ComponentSame
<1>4. ASSUME NEW r \in TreeRoots, NEW s \in TreeRoots, Component(Edge, r) = Component(Edge, s)
      PROVE  r = s
  <2>1. s \in Component(Edge, r)
    BY <1>1, <1>2, <1>4, ComponentClosed
  <2> QED
    BY <2>1, <1>2 DEF Component
<1> QED
  BY <1>1, <1>2, <1>3, <1>4, OneOfEach

(* The edges that the walk calls bridges are the cuts.                     *)
LEMMA BridgesAreCuts ==
  ASSUME IInv, pc = "done", NEW e \in Edge
  PROVE  e \in bridge <=> Cut(e)
<1>1. GraphType /\ BridgeInv
  BY Parts
<1>2. /\ Known = Vertex /\ Finished = Vertex /\ Tree \subseteq Edge
      /\ TreeRoots \in SUBSET Vertex /\ Child \in SUBSET Vertex
      /\ \A v \in Vertex : \E r \in TreeRoots : Joined(Tree, r, v)
      /\ \A r, s \in TreeRoots : Joined(Edge, r, s) => r = s
  BY WalkEnds DEF TreeRoots, Child
<1>3. CASE e \in Tree
  <2>1. PICK v \in Child : e = parentEdge[v]
    BY <1>3 DEF Tree
  <2> QED
    BY <2>1, <1>1, <1>2 DEF BridgeInv
<1>4. CASE e \notin Tree
  <2>1. e \notin bridge
    BY <1>4, <1>1 DEF BridgeInv, Tree
  <2>2. Tree \subseteq Edge \ {e}
    BY <1>2, <1>4
  <2>3. PICK a \in Vertex, b \in Vertex : a = edges[e].u /\ b = edges[e].v
    BY <1>1, EdgeEnds
  <2>4. PICK r \in TreeRoots : Joined(Tree, r, a)
    BY <1>2
  <2>5. PICK s \in TreeRoots : Joined(Tree, s, b)
    BY <1>2
  <2>6. /\ Joined(Edge, r, a) /\ Joined(Edge, s, b) /\ Joined(Edge, a, b)
        /\ Joined(Edge \ {e}, r, a) /\ Joined(Edge \ {e}, s, b)
    BY <2>2, <2>3, <2>4, <2>5, <1>2, JoinedMore, JoinedEnds
  <2>7. Joined(Edge, b, s) /\ Joined(Edge \ {e}, a, r)
    BY <2>6, <1>1, <1>2, JoinedBack
  <2>8. r = s
    BY <2>6, <2>7, <1>2, JoinedOn
  <2>9. Joined(Edge \ {e}, a, b)
    BY <2>6, <2>7, <2>8, JoinedOn
  <2> QED
    BY <2>1, <2>3, <2>9 DEF Cut
<1> QED
  BY <1>3, <1>4

(* The invariant gives the counts.                                         *)
LEMMA Exact == IInv => ScreenIsExact
<1> SUFFICES ASSUME IInv PROVE ScreenIsExact
  OBVIOUS
<1>1. pc \in {"counted", "walk"} => Roots(forest) = Cardinality(Components(Edge \ {outage}))
  BY ForestCounts
<1>2. ASSUME pc = "done", NEW e \in Edge
      PROVE  OutageComponents(e) = Cardinality(Components(Edge \ {e}))
  <2>1. GraphType /\ IsFiniteSet(Vertex) /\ base = Cardinality(Components(Edge)) /\ base \in Nat
    BY <1>2, Parts, BaseCounts DEF TypeInv
  <2>2. CASE Cut(e)
    BY <2>1, <2>2, <1>2, BridgesAreCuts, CutSplits DEF OutageComponents
  <2>3. CASE ~Cut(e)
    BY <2>1, <2>3, <1>2, BridgesAreCuts, NoCutKeeps DEF OutageComponents
  <2> QED
    BY <2>2, <2>3
<1> QED
  BY <1>1, <1>2 DEF ScreenIsExact

(* For every network and every outage, componentsWithout and               *)
(* screenAllBranchOutages count the components that are left.              *)
THEOREM ScreenIsExactHolds == Spec => []ScreenIsExact
BY Inductive, Exact, PTL

-----------------------------------------------------------------------------
(* The probe.                                                              *)

(* No two buses have the same new number.                                  *)
LEMMA IndexOnce ==
  ASSUME net \in Networks, NEW a \in ActiveBus, NEW b \in ActiveBus,
         ScreenIndex(a) = ScreenIndex(b)
  PROVE  a = b
<1>1. a \in Nat /\ b \in Nat
  BY NetworkType DEF ActiveBus
<1>2. ScreenIndex(a) \in Int /\ ScreenIndex(b) \in Int
  BY IndexInVertex, VerticesFinite DEF Vertex
<1>3. ~(a < b)
  BY <1>2, IndexInVertex
<1>4. ~(b < a)
  BY <1>2, IndexInVertex
<1> QED
  BY <1>1, <1>3, <1>4

(* The edges are the circuits that both ends and their status let in.      *)
LEMMA EdgeIsCircuit ==
  ASSUME IInv, pc = "done", NEW e \in Edge
  PROVE  /\ \A f \in Edge :
              LET m == keys[f] IN
              /\ m \in DOMAIN net.line /\ net.line[m].on
              /\ net.line[m].u \in ActiveBus /\ net.line[m].v \in ActiveBus
              /\ edges[f].u = ScreenIndex(net.line[m].u)
              /\ edges[f].v = ScreenIndex(net.line[m].v)
              /\ m = keys[e] => f = e
         /\ \A m \in DOMAIN net.line :
              net.line[m].on /\ net.line[m].u \in ActiveBus /\ net.line[m].v \in ActiveBus =>
                \E f \in Edge : keys[f] = m
<1>1. /\ KeyInv /\ net \in Networks /\ Edge \subseteq Nat
  BY Parts DEF TypeInv
<1>2. scanned = Len(net.line) /\ DOMAIN net.line = 1 .. Len(net.line) /\ Len(net.line) \in Nat
  BY <1>1, NetworkType DEF KeyInv
<1>3. ASSUME NEW f \in Edge, keys[f] = keys[e] PROVE f = e
  <2>1. keys[f] \in Nat /\ keys[e] \in Nat
    BY <1>1, <1>2 DEF KeyInv
  <2>2. ~(f < e) /\ ~(e < f)
    BY <1>1, <1>3, <2>1 DEF KeyInv
  <2> QED
    BY <2>2, <1>1
<1> QED
  BY <1>1, <1>2, <1>3 DEF KeyInv, InScreen

(* Without a cut the probe finds no lone bus and one island.               *)
LEMMA NoCutProbe ==
  ASSUME IInv, pc = "done", N > 1, NEW e \in Edge,
         \A a, b \in Vertex : Joined(Edge \ {e}, a, b)
  PROVE  LoneBus(keys[e]) = {} /\ Cardinality(Islands(keys[e])) <= 1
<1> DEFINE l == keys[e]
<1>1. /\ GraphType /\ net \in Networks /\ IsFiniteSet(ActiveBus) /\ N = Cardinality(ActiveBus)
      /\ \A b \in ActiveBus : b \in Bus /\ ScreenIndex(b) \in Vertex
      /\ N \in Nat
  BY Parts, VerticesFinite, IndexInVertex DEF TypeInv, N, ActiveBus
<1>2. /\ \A f \in Edge :
              /\ keys[f] \in DOMAIN net.line /\ net.line[keys[f]].on
              /\ net.line[keys[f]].u \in ActiveBus /\ net.line[keys[f]].v \in ActiveBus
              /\ edges[f].u = ScreenIndex(net.line[keys[f]].u)
              /\ edges[f].v = ScreenIndex(net.line[keys[f]].v)
              /\ keys[f] = l => f = e
  BY EdgeIsCircuit
(* A set of buses that has one of them and not another is left by a circuit.*)
<1>3. ASSUME NEW S \in SUBSET ActiveBus, NEW b \in S, NEW c \in ActiveBus, c \notin S
      PROVE  \E m \in DOMAIN net.line :
               /\ On(l, m) /\ net.line[m].u \in ActiveBus /\ net.line[m].v \in ActiveBus
               /\ ~(net.line[m].u \in S <=> net.line[m].v \in S)
  <2> DEFINE T == {ScreenIndex(a) : a \in S}
  <2>1. \A a \in ActiveBus : ScreenIndex(a) \in T <=> a \in S
    BY <1>1, IndexOnce
  <2>2. T \in SUBSET Vertex /\ ScreenIndex(b) \in T /\ ScreenIndex(c) \notin T
    BY <1>1, <1>3, <2>1
  <2> HIDE DEF T
  <2>3. Joined(Edge \ {e}, ScreenIndex(b), ScreenIndex(c))
    BY <1>1, <1>3
  <2>4. PICK f \in Edge : f # e /\ Crosses(f, T)
    BY <2>2, <2>3 DEF Joined
  <2>5. /\ net.line[keys[f]].u \in ActiveBus /\ net.line[keys[f]].v \in ActiveBus
        /\ ~(net.line[keys[f]].u \in S <=> net.line[keys[f]].v \in S)
    <3>1. /\ net.line[keys[f]].u \in ActiveBus /\ net.line[keys[f]].v \in ActiveBus
          /\ edges[f].u = ScreenIndex(net.line[keys[f]].u)
          /\ edges[f].v = ScreenIndex(net.line[keys[f]].v)
      BY <1>2
    <3>2. ~(edges[f].u \in T <=> edges[f].v \in T)
      BY <2>4 DEF Crosses
    <3> QED
      BY <2>1, <3>1, <3>2
  <2>6. On(l, keys[f]) /\ keys[f] \in DOMAIN net.line
    BY <2>4, <1>2 DEF On
  <2> QED
    BY <2>5, <2>6
<1>4. ASSUME NEW b \in LoneBus(l) PROVE FALSE
  <2>1. b \in ActiveBus
    BY DEF LoneBus
  <2>2. PICK c \in ActiveBus : c # b
    <3>1. ActiveBus # {b}
      <4>1. Cardinality({b}) = 1
        BY FS_Singleton
      <4> QED
        BY <4>1, <1>1
    <3> QED
      BY <3>1, <2>1
  <2>3. PICK m \in DOMAIN net.line : On(l, m) /\ ~(net.line[m].u \in {b} <=> net.line[m].v \in {b})
    <3>1. {b} \in SUBSET ActiveBus /\ b \in {b} /\ c \notin {b}
      BY <2>1, <2>2
    <3> QED
      BY <3>1, <1>3
  <2> QED
    BY <2>3 DEF LoneBus
<1> DEFINE left == ActiveBus \ LoneBus(l)
           Joins(m, a, b) == On(l, m) /\ {net.line[m].u, net.line[m].v} = {a, b}
           Near(S) == {b \in left : \E m \in DOMAIN net.line : \E a \in S : Joins(m, a, b)}
           From(b) == {c \in left : \A S \in SUBSET left : b \in S /\ Near(S) \subseteq S => c \in S}
<1>5. left = ActiveBus
  BY <1>4
<1>6. ASSUME NEW b \in left, NEW c \in left, NEW S \in SUBSET left, b \in S, Near(S) \subseteq S
      PROVE  c \in S
  <2> SUFFICES ASSUME c \notin S PROVE FALSE
    OBVIOUS
  <2>1. PICK m \in DOMAIN net.line :
          /\ On(l, m) /\ net.line[m].u \in ActiveBus /\ net.line[m].v \in ActiveBus
          /\ ~(net.line[m].u \in S <=> net.line[m].v \in S)
    BY <1>3, <1>5, <1>6
  <2>2. CASE net.line[m].u \in S /\ net.line[m].v \notin S
    <3>1. Joins(m, net.line[m].u, net.line[m].v)
      BY <2>1
    <3>2. net.line[m].v \in Near(S)
      BY <2>1, <2>2, <3>1, <1>5
    <3> QED
      BY <2>2, <3>2, <1>6
  <2>3. CASE net.line[m].v \in S /\ net.line[m].u \notin S
    <3>1. Joins(m, net.line[m].v, net.line[m].u)
      BY <2>1
    <3>2. net.line[m].u \in Near(S)
      BY <2>1, <2>3, <3>1, <1>5
    <3> QED
      BY <2>3, <3>2, <1>6
  <2> QED
    BY <2>1, <2>2, <2>3
<1>7. \A b \in left : From(b) = left
  BY <1>6
<1>8. Islands(l) = {From(b) : b \in left}
  BY DEF Islands
<1>9. Islands(l) \in SUBSET {left}
  <2> HIDE DEF From, left
  <2> QED
    BY <1>7, <1>8
<1>10. Cardinality(Islands(l)) <= 1
  <2> HIDE DEF left, From, Near, Joins, l
  <2>1. IsFiniteSet({left}) /\ Cardinality({left}) = 1
    BY FS_Singleton
  <2> QED
    BY <2>1, <1>9, FS_Subset
<1> QED
  BY <1>4, <1>10

(* With one the two ends of the circuit are on different islands.          *)
LEMMA CutProbe ==
  ASSUME IInv, pc = "done", NEW e \in Edge, Cut(e)
  PROVE  ~Probe(keys[e])
<1> DEFINE l == keys[e]
<1> SUFFICES ASSUME LoneBus(l) = {}, Cardinality(Islands(l)) <= 1 PROVE FALSE
  BY DEF Probe
<1>1. /\ GraphType /\ net \in Networks /\ IsFiniteSet(ActiveBus)
      /\ \A b \in ActiveBus : b \in Bus /\ ScreenIndex(b) \in Vertex
  BY Parts, VerticesFinite, IndexInVertex DEF TypeInv, ActiveBus
<1>2. /\ \A f \in Edge :
              /\ keys[f] \in DOMAIN net.line /\ net.line[keys[f]].on
              /\ net.line[keys[f]].u \in ActiveBus /\ net.line[keys[f]].v \in ActiveBus
              /\ edges[f].u = ScreenIndex(net.line[keys[f]].u)
              /\ edges[f].v = ScreenIndex(net.line[keys[f]].v)
      /\ \A m \in DOMAIN net.line :
              net.line[m].on /\ net.line[m].u \in ActiveBus /\ net.line[m].v \in ActiveBus =>
                \E f \in Edge : keys[f] = m
  BY EdgeIsCircuit
<1>3. PICK a \in ActiveBus, b \in ActiveBus :
         edges[e].u = ScreenIndex(a) /\ edges[e].v = ScreenIndex(b)
  BY <1>2
<1>4. PICK T \in SUBSET Vertex : /\ ScreenIndex(a) \in T /\ ScreenIndex(b) \notin T
                                 /\ \A f \in Edge \ {e} : ~Crosses(f, T)
  BY <1>3 DEF Cut, Joined
<1> DEFINE left == ActiveBus \ LoneBus(l)
           Joins(m, x, y) == On(l, m) /\ {net.line[m].u, net.line[m].v} = {x, y}
           Near(S) == {y \in left : \E m \in DOMAIN net.line : \E x \in S : Joins(m, x, y)}
           From(x) == {c \in left : \A S \in SUBSET left : x \in S /\ Near(S) \subseteq S => c \in S}
           S0 == {x \in left : ScreenIndex(x) \in T}
<1>5. left = ActiveBus /\ a \in S0 /\ b \in left /\ b \notin S0 /\ S0 \in SUBSET left
  BY <1>4
<1>6. ASSUME NEW y \in Near(S0) PROVE y \in S0
  <2>1. PICK m \in DOMAIN net.line, x \in S0 : Joins(m, x, y)
    OBVIOUS
  <2>2. /\ net.line[m].on /\ m # l /\ x \in ActiveBus /\ y \in ActiveBus
        /\ \/ net.line[m].u = x /\ net.line[m].v = y
           \/ net.line[m].v = x /\ net.line[m].u = y
    BY <2>1 DEF On
  <2>3. PICK f \in Edge : keys[f] = m
    BY <2>2, <1>2
  <2>4. f # e
    BY <2>2, <2>3
  <2>5. ~Crosses(f, T)
    BY <2>4, <1>4
  <2>6. \/ edges[f].u = ScreenIndex(x) /\ edges[f].v = ScreenIndex(y)
        \/ edges[f].v = ScreenIndex(x) /\ edges[f].u = ScreenIndex(y)
    BY <2>2, <2>3, <1>2
  <2>7. ScreenIndex(x) \in T
    OBVIOUS
  <2>8. ScreenIndex(y) \in T
    BY <2>5, <2>6, <2>7 DEF Crosses
  <2> QED
    BY <2>8
<1>7. b \notin From(a) /\ b \in From(b) /\ a \in left
  BY <1>5, <1>6
<1>8. Islands(l) = {From(x) : x \in left}
  BY DEF Islands
<1>9. From(a) # From(b) /\ From(a) \in Islands(l) /\ From(b) \in Islands(l)
  <2> HIDE DEF From, left, l
  <2> QED
    BY <1>5, <1>7, <1>8
<1>10. IsFiniteSet(Islands(l))
  <2>1. Islands(l) \in SUBSET SUBSET ActiveBus
    BY <1>8
  <2>2. IsFiniteSet(SUBSET ActiveBus)
    BY <1>1, FS_SUBSET
  <2> QED
    BY <2>1, <2>2, FS_Subset
<1> HIDE DEF From, left, l, Joins, Near, S0
<1>11. Cardinality({From(a)}) = 1 /\ {From(a)} \in SUBSET Islands(l) /\ {From(a)} # Islands(l)
  BY <1>9, FS_Singleton
<1>12. Cardinality(Islands(l)) \in Nat /\ Cardinality(Islands(l)) # 1 /\ Cardinality(Islands(l)) >= 1
  BY <1>10, <1>11, FS_Subset, FS_CardinalityType
<1> QED
  BY <1>12

(* The invariant makes the table agree with the probe.                     *)
LEMMA Shortcut == IInv => ShortcutIsProbe
<1> SUFFICES ASSUME IInv, pc = "done", net.refHasGen, N > 1,
                    NEW l \in DOMAIN net.line, net.line[l].on
             PROVE  Eligible(l) <=> Probe(l)
  BY DEF ShortcutIsProbe
<1>1. /\ TableInv /\ UnionInv /\ GraphType /\ IsFiniteSet(Vertex)
  BY Parts
<1>2. CASE l \notin DOMAIN lineIsBridge
  BY <1>2 DEF Eligible
<1>3. CASE l \in DOMAIN lineIsBridge
  <2>1. Roots(forest) = 1
    BY <1>1, <1>3 DEF TableInv
  <2>2. lineIsBridge = [m \in {keys[e] : e \in Edge} |->
                          \E e \in Edge : keys[e] = m /\ OutageComponents(e) > 1]
    BY <1>1, <2>1 DEF TableInv
  <2>3. PICK e \in Edge : keys[e] = l
    BY <2>2, <1>3
  <2>4. \A f \in Edge : keys[f] = l => f = e
    BY <2>3, EdgeIsCircuit
  <2>5. lineIsBridge[l] <=> OutageComponents(e) > 1
    BY <2>2, <2>3, <2>4
  <2>6. Cardinality(Components(Edge)) = 1
    <3>1. Edge \ {outage} = Edge
      BY <1>1, Parts DEF UnionInv
    <3> QED
      BY <3>1, <2>1, ForestCounts
  <2>7. base = 1
    BY <2>6, BaseCounts
  <2>8. lineIsBridge[l] <=> Cut(e)
    BY <2>5, <2>7, BridgesAreCuts DEF OutageComponents
  <2>9. CASE Cut(e)
    <3>1. ~Eligible(l)
      BY <2>8, <2>9, <1>3 DEF Eligible
    <3>2. ~Probe(l)
      BY <2>3, <2>9, CutProbe
    <3> QED
      BY <3>1, <3>2
  <2>10. CASE ~Cut(e)
    <3>1. Eligible(l)
      BY <2>8, <2>10, <1>3 DEF Eligible
    <3>2. Components(Edge \ {e}) = Components(Edge)
      BY <2>10, <1>1, NoCutKeeps
    <3>3. PICK X : Components(Edge) = {X}
      <4>1. IsFiniteSet(Components(Edge))
        BY <1>1, ComponentsFinite DEF Components
      <4> QED
        BY <4>1, <2>6, FS_Singleton
    <3>4. ASSUME NEW a \in Vertex, NEW b \in Vertex
          PROVE  Joined(Edge \ {e}, a, b)
      <4>1. Component(Edge \ {e}, a) = X /\ Component(Edge \ {e}, b) = X
        BY <3>2, <3>3 DEF Components
      <4>2. b \in Component(Edge \ {e}, b)
        BY <1>1, ComponentClosed
      <4> QED
        BY <4>1, <4>2 DEF Component
    <3>5. Probe(l)
      BY <3>4, <2>3, NoCutProbe DEF Probe
    <3> QED
      BY <3>1, <3>5
  <2> QED
    BY <2>9, <2>10
<1> QED
  BY <1>2, <1>3

(* For every network, prepare admits by the table the same outages as it   *)
(* would by setContingency, if the base has a generator at its reference.  *)
THEOREM ShortcutIsProbeHolds == Spec => []ShortcutIsProbe
BY Inductive, Shortcut, PTL

=============================================================================
