--------------------------- MODULE FlatOutputProofs ---------------------------
(***************************************************************************)
(* What becomes of the cells, for any number of ranks, cases, pieces of a  *)
(* block and executions, wherever the earlier executions were killed: the  *)
(* file that an execution leaves has every block once, in order, whole,    *)
(* and what else may be in it is of one kind.  First come lemmas about     *)
(* sequences of cells; then an invariant of places, types and part files   *)
(* (IInv); then, one after the other, the parts of the invariant of the    *)
(* cells (CellInv) for the three ways into the file, each with the lemma   *)
(* that every step keeps it.  Cells are typed by the executions they can   *)
(* be of.                                                                  *)
(***************************************************************************)
EXTENDS FlatOutput, SequenceTheorems, FiniteSetTheorems, WellFoundedInduction, TLAPS

Cells(R) == [run : R, rank : Nat, case : Int, piece : Nat]

(* The rows of rank r in the executions in R. *)
Rows(R, r) == [run : R, rank : {r}, case : Nat, piece : 1 .. Pieces]

(* A cell of a block. *)
CellOf(e, r, c, p) == [run |-> e, rank |-> r, case |-> c, piece |-> p]

(* A block is Pieces cells. *)
LEMMA BlockIs ==
  ASSUME NEW e \in Nat, NEW r \in Nat, NEW c \in Nat
  PROVE  /\ Block(e, r, c) \in Seq(Cells({e}))
         /\ Block(e, r, c) \in Seq(Rows({e}, r))
         /\ Len(Block(e, r, c)) = Pieces /\ Pieces \in Nat \ {0}
         /\ DOMAIN Block(e, r, c) = 1 .. Pieces
         /\ \A p \in 1 .. Pieces : Block(e, r, c)[p] = CellOf(e, r, c, p)
<1>1. Pieces \in Nat \ {0}
  BY FlatAssumption
<1>2. /\ DOMAIN Block(e, r, c) = 1 .. Pieces
      /\ \A p \in 1 .. Pieces : Block(e, r, c)[p] = CellOf(e, r, c, p)
  BY DEF Block, CellOf
<1>3. Block(e, r, c) \in [1 .. Pieces -> Cells({e})]
  BY <1>1 DEF Block, Cells
<1>4. Block(e, r, c) \in Seq(Cells({e}))
  BY <1>1, <1>3, SeqDef
<1>6. Block(e, r, c) \in Seq(Rows({e}, r))
  <2>1. Block(e, r, c) \in [1 .. Pieces -> Rows({e}, r)]
    BY <1>1 DEF Block, Rows
  <2> QED
    BY <1>1, <2>1, SeqDef
<1>5. 1 .. Len(Block(e, r, c)) = 1 .. Pieces /\ Len(Block(e, r, c)) \in Nat
  BY <1>2, <1>4, LenProperties
<1> QED
  BY <1>1, <1>2, <1>4, <1>5, <1>6

(* What a concatenation has at each place. *)
LEMMA Concat ==
  ASSUME NEW S, NEW s \in Seq(S), NEW t \in Seq(S)
  PROVE  /\ s \o t \in Seq(S) /\ Len(s) \in Nat /\ Len(t) \in Nat
         /\ Len(s \o t) = Len(s) + Len(t)
         /\ DOMAIN s = 1 .. Len(s) /\ DOMAIN t = 1 .. Len(t)
         /\ DOMAIN (s \o t) = 1 .. (Len(s) + Len(t))
         /\ \A i \in 1 .. Len(s) : (s \o t)[i] = s[i]
         /\ \A i \in 1 .. Len(t) : (s \o t)[Len(s) + i] = t[i]
         /\ \A i \in 1 .. (Len(s) + Len(t)) :
              ~(i <= Len(s)) => i - Len(s) \in 1 .. Len(t) /\ (s \o t)[i] = t[i - Len(s)]
<1>1. /\ s \o t \in Seq(S) /\ Len(s) \in Nat /\ Len(t) \in Nat
      /\ DOMAIN s = 1 .. Len(s) /\ DOMAIN t = 1 .. Len(t)
      /\ Len(s \o t) = Len(s) + Len(t)
  BY ConcatProperties, LenProperties
<1>2. DOMAIN (s \o t) = 1 .. (Len(s) + Len(t))
  BY <1>1, LenProperties
<1>3. \A i \in 1 .. Len(s) + Len(t) : (s \o t)[i] = IF i <= Len(s) THEN s[i] ELSE t[i - Len(s)]
  BY ConcatProperties
<1>4. ASSUME NEW i \in 1 .. Len(s) PROVE (s \o t)[i] = s[i]
  BY <1>1, <1>3
<1>5. ASSUME NEW i \in 1 .. Len(t) PROVE (s \o t)[Len(s) + i] = t[i]
  <2>1. Len(s) + i \in 1 .. Len(s) + Len(t) /\ ~(Len(s) + i <= Len(s)) /\ (Len(s) + i) - Len(s) = i
    BY <1>1
  <2> QED
    BY <1>3, <2>1
<1>6. ASSUME NEW i \in 1 .. Len(s) + Len(t), ~(i <= Len(s))
      PROVE  i - Len(s) \in 1 .. Len(t) /\ (s \o t)[i] = t[i - Len(s)]
  BY <1>1, <1>3, <1>6
<1> QED
  BY <1>1, <1>2, <1>4, <1>5, <1>6

(* A sequence is its first n elements and the others. *)
LEMMA SplitAt ==
  ASSUME NEW S, NEW s \in Seq(S), NEW n \in Nat, n <= Len(s)
  PROVE  /\ SubSeq(s, 1, n) \in Seq(S) /\ Len(SubSeq(s, 1, n)) = n
         /\ SubSeq(s, n + 1, Len(s)) \in Seq(S)
         /\ Len(SubSeq(s, n + 1, Len(s))) = Len(s) - n
         /\ s = SubSeq(s, 1, n) \o SubSeq(s, n + 1, Len(s))
<1> DEFINE t == SubSeq(s, 1, n)
           u == SubSeq(s, n + 1, Len(s))
<1>1. Len(s) \in Nat /\ \A i \in 1 .. Len(s) : s[i] \in S
  BY LenProperties, ElementOfSeq
<1>2. /\ t \in Seq(S) /\ Len(t) = n
      /\ \A i \in 1 .. n : t[i] = s[i]
  <2>1. 1 \in Int /\ n \in Int /\ \A i \in 1 .. n : s[i] \in S
    BY <1>1
  <2>2. /\ t \in Seq(S) /\ Len(t) = IF 1 <= n THEN n - 1 + 1 ELSE 0
        /\ \A i \in 1 .. n - 1 + 1 : t[i] = s[1 + i - 1]
    BY <2>1, SubSeqProperties
  <2> HIDE DEF t
  <2>3. \A i \in 1 .. n : i \in 1 .. n - 1 + 1 /\ 1 + i - 1 = i
    OBVIOUS
  <2> QED
    BY <2>2, <2>3
<1>3. /\ u \in Seq(S) /\ Len(u) = Len(s) - n
      /\ \A i \in 1 .. (Len(s) - n) : u[i] = s[n + i]
  <2>1. n + 1 \in Int /\ Len(s) \in Int /\ \A i \in (n + 1) .. Len(s) : s[i] \in S
    BY <1>1
  <2>2. /\ u \in Seq(S) /\ Len(u) = IF n + 1 <= Len(s) THEN Len(s) - (n + 1) + 1 ELSE 0
        /\ \A i \in 1 .. Len(s) - (n + 1) + 1 : u[i] = s[(n + 1) + i - 1]
    BY <2>1, SubSeqProperties
  <2> HIDE DEF u
  <2>3. \A i \in 1 .. (Len(s) - n) : i \in 1 .. Len(s) - (n + 1) + 1 /\ (n + 1) + i - 1 = n + i
    BY <1>1
  <2> QED
    BY <1>1, <2>2, <2>3
<1> HIDE DEF t, u
<1>4. /\ t \o u \in Seq(S) /\ Len(t \o u) = Len(s)
      /\ \A i \in 1 .. n : (t \o u)[i] = t[i]
      /\ \A i \in 1 .. Len(s) :
           ~(i <= n) => i - n \in 1 .. Len(u) /\ (t \o u)[i] = u[i - n]
  <2>1. n + Len(u) = Len(s)
    BY <1>1, <1>3
  <2> QED
    BY <1>2, <1>3, <2>1, Concat
<1>5. ASSUME NEW i \in 1 .. Len(s) PROVE s[i] = (t \o u)[i]
  <2>1. CASE i <= n
    BY <1>2, <1>4, <2>1
  <2>2. CASE ~(i <= n)
    <3>1. i - n \in 1 .. (Len(s) - n) /\ n + (i - n) = i
      BY <1>1, <2>2
    <3> QED
      BY <1>3, <1>4, <2>2, <3>1
  <2> QED
    BY <2>1, <2>2
<1>6. s = t \o u
  BY <1>4, <1>5, SeqEqual
<1> QED
  BY <1>2, <1>3, <1>6 DEF t, u

(* Conveys, cell by cell. *)
LEMMA ConveysIs ==
  ASSUME NEW e \in Nat, NEW r \in Nat, NEW s, NEW W \in Seq(Nat)
  PROVE  Conveys(e, s, r, W) <=>
           /\ \A i \in Own(e, s, r) :
                \E m \in DOMAIN W : \E p \in 1 .. Pieces : s[i] = CellOf(e, r, W[m], p)
           /\ \A m \in DOMAIN W : \A p \in 1 .. Pieces :
                \E i \in Own(e, s, r) : s[i] = CellOf(e, r, W[m], p)
           /\ \A m, n \in DOMAIN W : m # n => W[m] # W[n]
           /\ \A i, j \in Own(e, s, r) : i < j => Before(W, s[i], s[j])
<1>0. \A m \in DOMAIN W : W[m] \in Nat
  BY ElementOfSeq, LenProperties
<1>1. \A m \in DOMAIN W : \A p \in 1 .. Pieces : Block(e, r, W[m])[p] = CellOf(e, r, W[m], p)
  BY <1>0, BlockIs
<1>2. \A X, Y : X = Y <=> X \subseteq Y /\ Y \subseteq X
  BY SMT
<1> DEFINE A == {s[i] : i \in Own(e, s, r)}
           B == {Block(e, r, W[m])[p] : m \in DOMAIN W, p \in 1 .. Pieces}
           Once == \A m, n \in DOMAIN W : m # n => W[m] # W[n]
           InOrder == \A i, j \in Own(e, s, r) : i < j => Before(W, s[i], s[j])
<1>3. Conveys(e, s, r, W) <=> A = B /\ Once /\ InOrder
  BY DEF Conveys
<1>4. A \subseteq B <=>
        \A i \in Own(e, s, r) :
          \E m \in DOMAIN W : \E p \in 1 .. Pieces : s[i] = CellOf(e, r, W[m], p)
  <2>1. \A x : x \in B <=> \E m \in DOMAIN W : \E p \in 1 .. Pieces : x = CellOf(e, r, W[m], p)
    BY <1>1
  <2>2. \A x : x \in A <=> \E i \in Own(e, s, r) : x = s[i]
    OBVIOUS
  <2> HIDE DEF A, B
  <2>3. A \subseteq B <=> \A i \in Own(e, s, r) : s[i] \in B
    BY <2>2
  <2> QED
    BY <2>1, <2>3
<1>5. B \subseteq A <=>
        \A m \in DOMAIN W : \A p \in 1 .. Pieces :
          \E i \in Own(e, s, r) : s[i] = CellOf(e, r, W[m], p)
  <2>1. \A x : x \in B <=> \E m \in DOMAIN W : \E p \in 1 .. Pieces : x = CellOf(e, r, W[m], p)
    BY <1>1
  <2>2. \A x : x \in A <=> \E i \in Own(e, s, r) : x = s[i]
    OBVIOUS
  <2> HIDE DEF A, B
  <2>3. B \subseteq A <=>
          \A m \in DOMAIN W : \A p \in 1 .. Pieces : CellOf(e, r, W[m], p) \in A
    BY <2>1
  <2> QED
    BY <2>2, <2>3
<1> HIDE DEF A, B
<1>6. A = B <=> A \subseteq B /\ B \subseteq A
  BY <1>2
<1> QED
  BY <1>3, <1>4, <1>5, <1>6

(* Cells put elsewhere in the same order, among others that are not of r. *)
LEMMA Embedded ==
  ASSUME NEW e \in Nat, NEW r \in Nat, NEW W \in Seq(Nat), NEW s, NEW v,
         DOMAIN s \subseteq Int, DOMAIN v \subseteq Int,
         NEW f \in [DOMAIN s -> DOMAIN v],
         \A i, j \in DOMAIN s : i < j => f[i] < f[j],
         \A i \in DOMAIN s : v[f[i]] = s[i],
         \A k \in Own(e, v, r) : \E i \in DOMAIN s : k = f[i],
         Conveys(e, s, r, W)
  PROVE  Conveys(e, v, r, W)
<1>1. /\ \A i \in Own(e, s, r) :
           \E m \in DOMAIN W : \E p \in 1 .. Pieces : s[i] = CellOf(e, r, W[m], p)
      /\ \A m \in DOMAIN W : \A p \in 1 .. Pieces :
           \E i \in Own(e, s, r) : s[i] = CellOf(e, r, W[m], p)
      /\ \A m, n \in DOMAIN W : m # n => W[m] # W[n]
      /\ \A i, j \in Own(e, s, r) : i < j => Before(W, s[i], s[j])
  BY ConveysIs
<1>2. \A i \in DOMAIN s : i \in Own(e, s, r) <=> f[i] \in Own(e, v, r)
  BY DEF Own
<1>3. \A k \in Own(e, v, r) : \E i \in Own(e, s, r) : k = f[i] /\ v[k] = s[i]
  BY <1>2
<1>4. \A k \in Own(e, v, r) :
        \E m \in DOMAIN W : \E p \in 1 .. Pieces : v[k] = CellOf(e, r, W[m], p)
  <2> SUFFICES ASSUME NEW k \in Own(e, v, r)
      PROVE  \E m \in DOMAIN W : \E p \in 1 .. Pieces : v[k] = CellOf(e, r, W[m], p)
    OBVIOUS
  <2>1. PICK i \in Own(e, s, r) : k = f[i] /\ v[k] = s[i]
    BY <1>3
  <2>2. PICK m \in DOMAIN W, p \in 1 .. Pieces : s[i] = CellOf(e, r, W[m], p)
    BY <1>1
  <2> QED
    BY <2>1, <2>2
<1>5. ASSUME NEW m \in DOMAIN W, NEW p \in 1 .. Pieces
      PROVE  \E k \in Own(e, v, r) : v[k] = CellOf(e, r, W[m], p)
  <2>1. PICK i \in Own(e, s, r) : s[i] = CellOf(e, r, W[m], p)
    BY <1>1
  <2>2. i \in DOMAIN s
    BY DEF Own
  <2> QED
    BY <1>2, <2>1, <2>2
<1>6. ASSUME NEW k \in Own(e, v, r), NEW l \in Own(e, v, r), k < l
      PROVE  Before(W, v[k], v[l])
  <2>1. PICK i \in Own(e, s, r) : k = f[i] /\ v[k] = s[i]
    BY <1>3
  <2>2. PICK j \in Own(e, s, r) : l = f[j] /\ v[l] = s[j]
    BY <1>3
  <2>3. i \in DOMAIN s /\ j \in DOMAIN s /\ i \in Int /\ j \in Int /\ k \in Int /\ l \in Int
    BY DEF Own
  <2>4. i < j
    <3>1. j < i => l < k
      BY <2>1, <2>2, <2>3
    <3>2. i # j
      BY <1>6, <2>1, <2>2, <2>3
    <3> QED
      BY <1>6, <2>3, <3>1, <3>2
  <2> QED
    BY <1>1, <2>1, <2>2, <2>4
<1> QED
  BY <1>1, <1>4, <1>5, <1>6, ConveysIs

(* Cells of others that come in between. *)
LEMMA Inserted ==
  ASSUME NEW S, NEW e \in Nat, NEW r \in Nat, NEW W \in Seq(Nat),
         NEW s \in Seq(S), NEW t \in Seq(S), NEW u \in Seq(S),
         Own(e, u, r) = {}, Conveys(e, s \o t, r, W)
  PROVE  Conveys(e, (s \o u) \o t, r, W)
<1> DEFINE w == s \o t
           v == (s \o u) \o t
           f == [i \in DOMAIN w |-> IF i <= Len(s) THEN i ELSE i + Len(u)]
<1>1. /\ w \in Seq(S) /\ DOMAIN w = 1 .. (Len(s) + Len(t)) /\ Len(s) \in Nat
      /\ Len(t) \in Nat
      /\ \A i \in 1 .. Len(s) : w[i] = s[i]
      /\ \A i \in 1 .. (Len(s) + Len(t)) :
              ~(i <= Len(s)) => i - Len(s) \in 1 .. Len(t) /\ w[i] = t[i - Len(s)]
  BY Concat
<1>2. /\ s \o u \in Seq(S) /\ Len(s \o u) = Len(s) + Len(u) /\ Len(u) \in Nat
      /\ DOMAIN u = 1 .. Len(u)
      /\ \A i \in 1 .. Len(s) : (s \o u)[i] = s[i]
      /\ \A i \in 1 .. (Len(s) + Len(u)) :
              ~(i <= Len(s)) => i - Len(s) \in 1 .. Len(u) /\ (s \o u)[i] = u[i - Len(s)]
  BY Concat
<1>3. /\ DOMAIN v = 1 .. (Len(s) + Len(u) + Len(t))
      /\ \A i \in 1 .. (Len(s) + Len(u)) : v[i] = (s \o u)[i]
      /\ \A i \in 1 .. Len(t) : v[Len(s) + Len(u) + i] = t[i]
  BY <1>2, Concat
<1> HIDE DEF w, v
<1>4. f \in [DOMAIN w -> DOMAIN v]
  BY <1>1, <1>2, <1>3
<1>5. \A i, j \in DOMAIN w : i < j => f[i] < f[j]
  BY <1>1, <1>2
<1>6. ASSUME NEW i \in DOMAIN w PROVE v[f[i]] = w[i]
  <2>1. CASE i <= Len(s)
    <3>1. i \in 1 .. Len(s) /\ i \in 1 .. (Len(s) + Len(u)) /\ f[i] = i
      BY <1>1, <1>2, <2>1
    <3> QED
      BY <1>1, <1>2, <1>3, <3>1
  <2>2. CASE ~(i <= Len(s))
    <3>1. i \in Int /\ i - Len(s) \in 1 .. Len(t) /\ w[i] = t[i - Len(s)] /\ f[i] = i + Len(u)
      BY <1>1, <2>2
    <3>2. i + Len(u) = Len(s) + Len(u) + (i - Len(s))
      BY <1>1, <1>2, <3>1
    <3> QED
      BY <1>3, <3>1, <3>2
  <2> QED
    BY <2>1, <2>2
<1>7. ASSUME NEW k \in Own(e, v, r) PROVE \E i \in DOMAIN w : k = f[i]
  <2>1. k \in 1 .. (Len(s) + Len(u) + Len(t)) /\ v[k].run = e /\ v[k].rank = r /\ v[k].case # -1
    BY <1>3 DEF Own
  <2>2. CASE k <= Len(s)
    <3>1. k \in DOMAIN w
      BY <1>1, <1>2, <2>1, <2>2
    <3> QED
      BY <2>2, <3>1
  <2>3. CASE k > Len(s) /\ k <= Len(s) + Len(u)
    <3>1. k \in 1 .. (Len(s) + Len(u)) /\ ~(k <= Len(s))
      BY <1>1, <1>2, <2>1, <2>3
    <3>2. k - Len(s) \in 1 .. Len(u) /\ v[k] = u[k - Len(s)]
      BY <1>2, <1>3, <3>1
    <3>3. k - Len(s) \in Own(e, u, r)
      BY <1>2, <2>1, <3>2 DEF Own
    <3> QED
      BY <3>3
  <2>4. CASE k > Len(s) + Len(u)
    <3>1. k - Len(u) \in DOMAIN w /\ ~(k - Len(u) <= Len(s)) /\ (k - Len(u)) + Len(u) = k
      BY <1>1, <1>2, <2>1, <2>4
    <3>2. f[k - Len(u)] = k
      BY <3>1
    <3> QED
      BY <3>1, <3>2
  <2> QED
    BY <1>1, <1>2, <2>1, <2>2, <2>3, <2>4
<1>8. DOMAIN w \subseteq Int /\ DOMAIN v \subseteq Int
  BY <1>1, <1>3
<1>9. Conveys(e, w, r, W)
  BY DEF w
<1>10. Conveys(e, v, r, W)
  <2> HIDE DEF f
  <2> QED
    BY <1>4, <1>5, <1>6, <1>7, <1>8, <1>9, Embedded
<1> QED
  BY <1>10 DEF v

(* The next block of the rank. *)
LEMMA Appended ==
  ASSUME NEW R \in SUBSET Nat, NEW e \in R, NEW r \in Nat, NEW W \in Seq(Nat),
         NEW s \in Seq(Cells(R)), NEW d \in Nat, \A m \in DOMAIN W : W[m] # d,
         Conveys(e, s, r, W)
  PROVE  Conveys(e, s \o Block(e, r, d), r, Append(W, d))
<1> DEFINE b == Block(e, r, d)
           v == s \o b
           V == Append(W, d)
<1>0. e \in Nat /\ V \in Seq(Nat)
  BY AppendProperties
<1>00. /\ Len(W) \in Nat /\ DOMAIN W = 1 .. Len(W) /\ DOMAIN V = 1 .. (Len(W) + 1)
       /\ V[Len(W) + 1] = d
       /\ \A m \in DOMAIN W : V[m] = W[m]
       /\ \A m \in DOMAIN V : m \in DOMAIN W \/ m = Len(W) + 1
  <2>1. Len(W) \in Nat /\ DOMAIN W = 1 .. Len(W)
    BY LenProperties
  <2>2. /\ V \in Seq(Nat) /\ Len(V) = Len(W) + 1 /\ V[Len(W) + 1] = d
        /\ \A m \in 1 .. Len(W) : V[m] = W[m]
    BY AppendProperties
  <2>3. DOMAIN V = 1 .. (Len(W) + 1)
    BY <2>2, LenProperties
  <2> QED
    BY <2>1, <2>2, <2>3
<1> HIDE DEF V
<1>1. /\ \A i \in Own(e, s, r) :
           \E m \in DOMAIN W : \E p \in 1 .. Pieces : s[i] = CellOf(e, r, W[m], p)
      /\ \A m \in DOMAIN W : \A p \in 1 .. Pieces :
           \E i \in Own(e, s, r) : s[i] = CellOf(e, r, W[m], p)
      /\ \A m, n \in DOMAIN W : m # n => W[m] # W[n]
      /\ \A i, j \in Own(e, s, r) : i < j => Before(W, s[i], s[j])
  BY <1>0, ConveysIs
<1>2. /\ b \in Seq(Cells({e})) /\ Len(b) = Pieces /\ Pieces \in Nat \ {0}
      /\ \A p \in 1 .. Pieces : b[p] = CellOf(e, r, d, p)
  BY <1>0, BlockIs
<1>3. b \in Seq(Cells(R))
  <2>1. Cells({e}) \subseteq Cells(R)
    BY DEF Cells
  <2> QED
    BY <1>2, <2>1, SeqMonotonic
<1> HIDE DEF b
<1>4. /\ Len(s) \in Nat /\ DOMAIN s = 1 .. Len(s) /\ DOMAIN v = 1 .. (Len(s) + Pieces)
      /\ \A i \in 1 .. Len(s) : v[i] = s[i]
      /\ \A i \in 1 .. Pieces : v[Len(s) + i] = b[i]
      /\ \A i \in 1 .. (Len(s) + Pieces) :
              ~(i <= Len(s)) => i - Len(s) \in 1 .. Pieces /\ v[i] = b[i - Len(s)]
  <2>1. \A u \in Seq(Cells(R)) :
          /\ Len(s) \in Nat /\ DOMAIN s = 1 .. Len(s)
          /\ DOMAIN (s \o u) = 1 .. (Len(s) + Len(u))
          /\ \A i \in 1 .. Len(s) : (s \o u)[i] = s[i]
          /\ \A i \in 1 .. Len(u) : (s \o u)[Len(s) + i] = u[i]
          /\ \A i \in 1 .. (Len(s) + Len(u)) :
               ~(i <= Len(s)) => i - Len(s) \in 1 .. Len(u) /\ (s \o u)[i] = u[i - Len(s)]
    BY Concat
  <2>2. Len(b) = Pieces
    BY <1>2
  <2> QED
    BY <1>3, <2>1, <2>2
<1> HIDE DEF v
<1>5. \A i \in 1 .. Len(s) : i \in DOMAIN v /\ (i \in Own(e, v, r) <=> i \in Own(e, s, r))
  BY <1>2, <1>4 DEF Own
<1>6. \A i \in 1 .. Pieces : Len(s) + i \in Own(e, v, r) /\ v[Len(s) + i] = CellOf(e, r, d, i)
  <2>1. \A i \in 1 .. Pieces : Len(s) + i \in DOMAIN v /\ v[Len(s) + i] = CellOf(e, r, d, i)
    BY <1>2, <1>4
  <2>2. \A i \in 1 .. Pieces : CellOf(e, r, d, i).run = e /\ CellOf(e, r, d, i).rank = r
                               /\ CellOf(e, r, d, i).case # -1
    BY DEF CellOf
  <2> QED
    BY <2>1, <2>2 DEF Own
<1>7. \A i \in Own(e, v, r) : \/ i \in Own(e, s, r) /\ v[i] = s[i] /\ i <= Len(s)
                              \/ /\ ~(i <= Len(s)) /\ i - Len(s) \in 1 .. Pieces 
                                 /\ v[i] = CellOf(e, r, d, i - Len(s))
  <2> TAKE i \in Own(e, v, r)
  <2>1. i \in 1 .. (Len(s) + Pieces) /\ i \in Int
    BY <1>2, <1>4 DEF Own
  <2>2. CASE i <= Len(s)
    <3>1. i \in 1 .. Len(s)
      BY <1>4, <2>1, <2>2
    <3> QED
      BY <1>4, <1>5, <2>2, <3>1
  <2>3. CASE ~(i <= Len(s))
    <3>1. i - Len(s) \in 1 .. Pieces /\ v[i] = b[i - Len(s)]
      BY <1>4, <2>1, <2>3
    <3> QED
      BY <1>2, <2>3, <3>1
  <2> QED
    BY <2>2, <2>3
<1>8. ASSUME NEW i \in Own(e, v, r)
      PROVE  \E m \in DOMAIN V : \E p \in 1 .. Pieces : v[i] = CellOf(e, r, V[m], p)
  <2>1. CASE i \in Own(e, s, r) /\ v[i] = s[i]
    <3>1. PICK m \in DOMAIN W : \E p \in 1 .. Pieces : s[i] = CellOf(e, r, W[m], p)
      BY <1>1, <2>1
    <3>2. m \in DOMAIN V /\ V[m] = W[m]
      BY <1>00
    <3> QED
      BY <2>1, <3>1, <3>2
  <2>2. CASE i - Len(s) \in 1 .. Pieces /\ v[i] = CellOf(e, r, d, i - Len(s))
    <3>1. Len(W) + 1 \in DOMAIN V /\ V[Len(W) + 1] = d
      BY <1>00
    <3> QED
      BY <2>2, <3>1
  <2> QED
    BY <1>7, <2>1, <2>2
<1>9. ASSUME NEW m \in DOMAIN V, NEW p \in 1 .. Pieces
      PROVE  \E i \in Own(e, v, r) : v[i] = CellOf(e, r, V[m], p)
  <2>1. CASE m \in DOMAIN W
    <3>1. PICK i \in Own(e, s, r) : s[i] = CellOf(e, r, W[m], p)
      BY <1>1, <2>1
    <3>2. i \in 1 .. Len(s)
      BY <1>4 DEF Own
    <3>3. V[m] = W[m]
      BY <1>00, <2>1
    <3> QED
      BY <1>4, <1>5, <3>1, <3>2, <3>3
  <2>2. CASE m = Len(W) + 1
    <3>1. V[m] = d
      BY <1>00, <2>2
    <3> QED
      BY <1>6, <3>1
  <2> QED
    BY <1>00, <2>1, <2>2
<1>12. \A m, n \in DOMAIN V : m # n => V[m] # V[n]
  BY <1>00, <1>1
<1>13. ASSUME NEW x, NEW y, Before(W, x, y) PROVE Before(V, x, y)
  BY <1>00, <1>13 DEF Before
<1>10. ASSUME NEW i \in Own(e, v, r), NEW j \in Own(e, v, r), i < j
       PROVE  Before(V, v[i], v[j])
  <2>0. i \in Int /\ j \in Int /\ Len(s) \in Int
    BY <1>4 DEF Own
  <2>1. CASE j \in Own(e, s, r) /\ v[j] = s[j] /\ j <= Len(s)
    <3>1. i <= Len(s)
      BY <1>10, <2>0, <2>1
    <3>2. i \in Own(e, s, r) /\ v[i] = s[i]
      BY <1>7, <3>1
    <3>3. Before(W, v[i], v[j])
      BY <1>1, <1>10, <2>1, <3>2
    <3> QED
      BY <1>13, <3>3
  <2>2. CASE /\ ~(j <= Len(s)) /\ j - Len(s) \in 1 .. Pieces 
             /\ v[j] = CellOf(e, r, d, j - Len(s))
    <3>0. v[j].case = d /\ v[j].piece = j - Len(s)
      BY <2>2 DEF CellOf
    <3>1. CASE i \in Own(e, s, r) /\ v[i] = s[i] /\ i <= Len(s)
      <4>1. PICK m \in DOMAIN W : \E p \in 1 .. Pieces : s[i] = CellOf(e, r, W[m], p)
        BY <1>1, <3>1
      <4>2. v[i].case = W[m]
        BY <3>1, <4>1 DEF CellOf
      <4>3. /\ m \in DOMAIN V /\ Len(W) + 1 \in DOMAIN V /\ m < Len(W) + 1
            /\ V[m] = W[m] /\ V[Len(W) + 1] = d
        BY <1>00
      <4> QED
        BY <3>0, <4>2, <4>3 DEF Before
    <3>2. CASE v[i] = CellOf(e, r, d, i - Len(s))
      <4>1. v[i].case = d /\ v[i].piece = i - Len(s)
        BY <3>2 DEF CellOf
      <4> QED
        BY <1>10, <2>0, <3>0, <4>1 DEF Before
    <3> QED
      BY <1>7, <3>1, <3>2
  <2> QED
    BY <1>7, <2>1, <2>2
<1>11. Conveys(e, v, r, V)
  BY <1>0, <1>8, <1>9, <1>10, <1>12, ConveysIs
<1> QED
  BY <1>11 DEF v, b, V

(* A rank without cells has no case, and the other way round. *)
LEMMA ConveysNone ==
  ASSUME NEW e \in Nat, NEW r \in Nat, NEW s, NEW W \in Seq(Nat), Own(e, s, r) = {}
  PROVE  Conveys(e, s, r, W) <=> W = <<>>
<1>1. 1 \in 1 .. Pieces
  BY FlatAssumption
<1>2. W = <<>> <=> DOMAIN W = {}
  BY EmptySeq, LenProperties
<1> QED
  BY <1>1, <1>2, ConveysIs

(* Cells of others that come after it, or before it. *)
LEMMA ConveysAround ==
  ASSUME NEW S, NEW e \in Nat, NEW r \in Nat, NEW W \in Seq(Nat),
         NEW s \in Seq(S), NEW u \in Seq(S),
         Own(e, u, r) = {}, Conveys(e, s, r, W)
  PROVE  Conveys(e, s \o u, r, W) /\ Conveys(e, u \o s, r, W)
<1>1. \A x \in Seq(S) : x \o <<>> = x /\ <<>> \o x = x
  BY ConcatEmptySeq
<1>2. <<>> \in Seq(S) /\ s \o u \in Seq(S) /\ u \o s \in Seq(S)
  BY EmptySeq, ConcatProperties
<1>3. Conveys(e, (s \o u) \o <<>>, r, W)
  <2>1. Conveys(e, s \o <<>>, r, W)
    BY <1>1
  <2> QED
    BY <1>2, <2>1, Inserted
<1>4. Conveys(e, (<<>> \o u) \o s, r, W)
  <2>1. Conveys(e, <<>> \o s, r, W)
    BY <1>1
  <2> QED
    BY <1>2, <2>1, Inserted
<1>5. (s \o u) \o <<>> = s \o u /\ (<<>> \o u) \o s = u \o s
  BY <1>1, <1>2
<1> QED
  BY <1>3, <1>4, <1>5

(* Concatenation, as the provers like it. *)
LEMMA Concats ==
  ASSUME NEW S
  PROVE  /\ \A x, y, z \in Seq(S) : (x \o y) \o z = x \o (y \o z)
         /\ \A x \in Seq(S) : x \o <<>> = x /\ <<>> \o x = x
         /\ \A x, y \in Seq(S) : x \o y \in Seq(S)
         /\ <<>> \in Seq(S)
<1>1. \A x, y, z \in Seq(S) : (x \o y) \o z = x \o (y \o z)
  BY ConcatAssociative
<1>2. \A x \in Seq(S) : x \o <<>> = x /\ <<>> \o x = x
  BY ConcatEmptySeq
<1>3. \A x, y \in Seq(S) : x \o y \in Seq(S)
  BY ConcatProperties
<1>4. <<>> \in Seq(S)
  BY EmptySeq
<1> QED
  BY <1>1, <1>2, <1>3, <1>4

-----------------------------------------------------------------------------
(* A concatenation of unbroken sequences is unbroken. *)
LEMMA UnbrokenConcat ==
  ASSUME NEW S, NEW e, NEW s \in Seq(S), NEW t \in Seq(S), Unbroken(e, s), Unbroken(e, t)
  PROVE  Unbroken(e, s \o t)
<1> DEFINE v == s \o t
<1>1. /\ Len(s) \in Nat /\ Len(t) \in Nat /\ Len(v) = Len(s) + Len(t)
      /\ DOMAIN s = 1 .. Len(s) /\ DOMAIN t = 1 .. Len(t)
      /\ DOMAIN v = 1 .. (Len(s) + Len(t))
      /\ \A i \in 1 .. Len(s) : v[i] = s[i]
      /\ \A i \in 1 .. Len(t) : v[Len(s) + i] = t[i]
      /\ \A i \in 1 .. (Len(s) + Len(t)) :
              ~(i <= Len(s)) => i - Len(s) \in 1 .. Len(t) /\ v[i] = t[i - Len(s)]
  BY Concat
<1> HIDE DEF v
<1>2. ASSUME NEW i \in DOMAIN v, v[i].run = e /\ v[i].piece \in 1 .. (Pieces - 1)
      PROVE  i < Len(v) /\ v[i + 1] = [v[i] EXCEPT !.piece = @ + 1]
  <2>0. i \in Int
    BY <1>1
  <2>1. CASE i <= Len(s)
    <3>1. i \in DOMAIN s /\ v[i] = s[i]
      BY <1>1, <2>1
    <3>2. i < Len(s) /\ s[i + 1] = [s[i] EXCEPT !.piece = @ + 1]
      BY <1>2, <3>1 DEF Unbroken
    <3>3. i + 1 \in 1 .. Len(s)
      BY <1>1, <2>0, <3>1, <3>2
    <3>4. v[i + 1] = s[i + 1]
      BY <1>1, <3>3
    <3> QED
      BY <1>1, <2>0, <3>1, <3>2, <3>4
  <2>2. CASE ~(i <= Len(s))
    <3>1. i - Len(s) \in DOMAIN t /\ v[i] = t[i - Len(s)]
      BY <1>1, <2>2
    <3>2. i - Len(s) < Len(t) /\ t[(i - Len(s)) + 1] = [t[i - Len(s)] EXCEPT !.piece = @ + 1]
      BY <1>2, <3>1 DEF Unbroken
    <3>3. (i - Len(s)) + 1 \in 1 .. Len(t) /\ Len(s) + ((i - Len(s)) + 1) = i + 1
      BY <1>1, <2>0, <3>1, <3>2
    <3>4. v[i + 1] = t[(i - Len(s)) + 1]
      BY <1>1, <3>3
    <3> QED
      BY <1>1, <2>0, <3>1, <3>2, <3>4
  <2> QED
    BY <2>1, <2>2
<1>3. Unbroken(e, v)
  BY <1>2 DEF Unbroken
<1> QED
  BY <1>3 DEF v

(* So is what follows in one. *)
LEMMA UnbrokenSuffix ==
  ASSUME NEW S, NEW e, NEW s \in Seq(S), NEW t \in Seq(S), Unbroken(e, s \o t)
  PROVE  Unbroken(e, t)
<1> DEFINE v == s \o t
<1>1. /\ Len(s) \in Nat /\ Len(t) \in Nat /\ Len(v) = Len(s) + Len(t)
      /\ DOMAIN t = 1 .. Len(t)
      /\ DOMAIN v = 1 .. (Len(s) + Len(t))
      /\ \A i \in 1 .. Len(t) : v[Len(s) + i] = t[i]
  BY Concat
<1>0. Unbroken(e, v)
  OBVIOUS
<1> HIDE DEF v
<1>2. ASSUME NEW i \in DOMAIN t, t[i].run = e /\ t[i].piece \in 1 .. (Pieces - 1)
      PROVE  i < Len(t) /\ t[i + 1] = [t[i] EXCEPT !.piece = @ + 1]
  <2>1. i \in 1 .. Len(t) /\ Len(s) + i \in DOMAIN v /\ v[Len(s) + i] = t[i]
    BY <1>1
  <2>2. Len(s) + i < Len(v) /\ v[(Len(s) + i) + 1] = [v[Len(s) + i] EXCEPT !.piece = @ + 1]
    BY <1>0, <1>2, <2>1 DEF Unbroken
  <2>3. i < Len(t) /\ i + 1 \in 1 .. Len(t) /\ (Len(s) + i) + 1 = Len(s) + (i + 1)
    BY <1>1, <2>1, <2>2
  <2>4. v[(Len(s) + i) + 1] = t[i + 1]
    BY <1>1, <2>3
  <2> QED
    BY <2>1, <2>2, <2>3, <2>4
<1> QED
  BY <1>2 DEF Unbroken

(* And what precedes the end of a block. *)
LEMMA UnbrokenPrefix ==
  ASSUME NEW S, NEW e, NEW s \in Seq(S), NEW t \in Seq(S), Unbroken(e, s \o t),
         s # <<>> => s[Len(s)].piece \notin 1 .. (Pieces - 1)
  PROVE  Unbroken(e, s)
<1> DEFINE v == s \o t
<1>1. /\ Len(s) \in Nat /\ Len(t) \in Nat /\ Len(v) = Len(s) + Len(t)
      /\ DOMAIN s = 1 .. Len(s)
      /\ DOMAIN v = 1 .. (Len(s) + Len(t))
      /\ \A i \in 1 .. Len(s) : v[i] = s[i]
  BY Concat
<1>0. Unbroken(e, v)
  OBVIOUS
<1> HIDE DEF v
<1>2. ASSUME NEW i \in DOMAIN s, s[i].run = e /\ s[i].piece \in 1 .. (Pieces - 1)
      PROVE  i < Len(s) /\ s[i + 1] = [s[i] EXCEPT !.piece = @ + 1]
  <2>1. i \in 1 .. Len(s) /\ i \in DOMAIN v /\ v[i] = s[i]
    BY <1>1
  <2>2. v[i + 1] = [v[i] EXCEPT !.piece = @ + 1]
    BY <1>0, <1>2, <2>1 DEF Unbroken
  <2>3. s # <<>>
    BY <1>2, EmptySeq
  <2>4. i # Len(s)
    BY <1>2, <2>3
  <2>5. i < Len(s) /\ i + 1 \in 1 .. Len(s)
    BY <1>1, <2>1, <2>4
  <2> QED
    BY <1>1, <2>1, <2>2, <2>5
<1> QED
  BY <1>2 DEF Unbroken

(* A block is unbroken, and so is what has no cells of the execution. *)
LEMMA UnbrokenBlock ==
  ASSUME NEW e \in Nat, NEW r \in Nat, NEW c \in Nat
  PROVE  Unbroken(e, Block(e, r, c))
<1>1. /\ Len(Block(e, r, c)) = Pieces /\ Pieces \in Nat \ {0}
      /\ DOMAIN Block(e, r, c) = 1 .. Pieces
      /\ \A p \in 1 .. Pieces : Block(e, r, c)[p] = CellOf(e, r, c, p)
  BY BlockIs
<1>2. ASSUME NEW i \in 1 .. Pieces, CellOf(e, r, c, i).piece \in 1 .. (Pieces - 1)
      PROVE  i < Pieces /\ Block(e, r, c)[i + 1] = [Block(e, r, c)[i] EXCEPT !.piece = @ + 1]
  <2>1. i \in 1 .. (Pieces - 1)
    BY <1>2 DEF CellOf
  <2>2. i < Pieces /\ i + 1 \in 1 .. Pieces
    BY <1>1, <2>1
  <2>3. CellOf(e, r, c, i + 1) = [CellOf(e, r, c, i) EXCEPT !.piece = @ + 1]
    BY DEF CellOf
  <2> QED
    BY <1>1, <2>2, <2>3
<1> QED
  BY <1>1, <1>2 DEF Unbroken

(* What has no cells of the execution is not broken either. *)
LEMMA UnbrokenNone ==
  ASSUME NEW e, NEW s, \A i \in DOMAIN s : s[i].run # e
  PROVE  Unbroken(e, s)
BY DEF Unbroken

-----------------------------------------------------------------------------
Places == {"absent", "create", "created", "base", "loop", "emit", "close", "closed",
           "gather", "header", "written", "write", "merge", "done"}

TypeInv ==
  /\ run \in Nat \ {0} /\ mode \in Modes /\ size \in 1 .. MaxRanks
  /\ whole \in BOOLEAN /\ part \in Nat /\ nextId \in Nat \ {0}
  /\ pc \in [AllRanks -> Places] /\ opened \subseteq AllRanks
  /\ pending \in [AllRanks -> Seq(Cells({run}))]
  /\ myTasks \in [AllRanks -> SUBSET Nat] /\ retained \in [AllRanks -> SUBSET Nat]

(* On a file system that appends blocks in one piece, whole blocks wait. *)
Blocks(n) == \E k \in Nat : n = k * Pieces
WholeInv == whole => \A r \in AllRanks : Blocks(Len(pending[r]))

(* A part file has cells of this execution only if it is of one of its     *)
(* ranks and the execution is one that writes part files.                  *)
Writable(p) == mode = "parts" /\ p \in Rank
PartsInv ==
  /\ DOMAIN parts \subseteq AllRanks
  /\ parts \in [DOMAIN parts -> Seq(Cells(1 .. run))]
  /\ \A p \in DOMAIN parts : ~Writable(p) => parts[p] \in Seq(Cells(1 .. run - 1))

(* A stream is open only if it is of a rank that may still write and has a *)
(* part file, in an execution that writes them.                            *)
OpenInv ==
  mode = "parts" => opened \subseteq {r \in Rank \cap DOMAIN parts : pc[r] \in {"loop", "emit", "close"}}

(* While rank 0 merges nobody writes, and what it has passed is gone. *)
MergeInv ==
  mode = "parts" /\ pc[0] \in {"merge", "done"} =>
    /\ \A r \in Rank \ {0} : pc[r] = "done"
    /\ part \in 0 .. size
    /\ DOMAIN parts \cap (0 .. part - 1) = {}
    /\ pc[0] = "done" => part = size
PartInv == mode = "parts" /\ pc[0] \notin {"merge", "done"} => part = 0
PlaceInv == \A r \in Rank : pc[r] # "absent" /\ (pc[r] = "merge" => r = 0)

(* The inductive invariant. *)
IInv == TypeInv /\ WholeInv /\ PartsInv /\ OpenInv /\ MergeInv /\ PartInv /\ PlaceInv

(* The setting of the file system is a truth value. *)
LEMMA WholeIs ==
  ASSUME NEW m, NEW w \in AppendsWhole(m)
  PROVE  w \in BOOLEAN
<1>1. CASE m = "shared"
  BY <1>1 DEF AppendsWhole
<1>2. CASE m # "shared"
  BY <1>2 DEF AppendsWhole
<1> QED
  BY <1>1, <1>2

-----------------------------------------------------------------------------
(* Who is a rank. *)
LEMMA RanksAre ==
  ASSUME TypeInv
  PROVE  /\ Rank \subseteq AllRanks /\ 0 \in Rank /\ 0 \in AllRanks
         /\ AllRanks \subseteq Int /\ Rank = 0 .. (size - 1) /\ size \in Nat \ {0}
BY FlatAssumption DEF TypeInv, Rank, AllRanks

(* The cases of a wave are numbers. *)
LEMMA UpcomingIs ==
  ASSUME TypeInv, NEW r \in Rank, NEW c \in Upcoming(r)
  PROVE  c \in Nat /\ r \in AllRanks
<1>1. r \in AllRanks
  BY RanksAre
<1>2. c \in retained[r] \/ c \in myTasks[r]
  BY DEF Upcoming
<1> QED
  BY <1>1, <1>2 DEF TypeInv

(* Numbers of blocks. *)
LEMMA BlocksLaw ==
  ASSUME NEW n \in Nat, Blocks(n)
  PROVE  /\ Blocks(n + Pieces)
         /\ n > 0 => n >= Pieces /\ Blocks(n - Pieces)
<1>1. Pieces \in Nat \ {0}
  BY FlatAssumption
<1>2. PICK k \in Nat : n = k * Pieces
  BY DEF Blocks
<1>3. \A j \in Nat : (j + 1) * Pieces = j * Pieces + Pieces /\ j * Pieces \in Nat
  BY <1>1
<1>4. Blocks(n + Pieces)
  <2>1. n + Pieces = (k + 1) * Pieces
    BY <1>2, <1>3
  <2> QED
    BY <2>1 DEF Blocks
<1>5. CASE k = 0
  BY <1>1, <1>2, <1>4, <1>5
<1>6. CASE k # 0
  <2>1. k - 1 \in Nat /\ k = (k - 1) + 1
    BY <1>6
  <2>2. n = (k - 1) * Pieces + Pieces /\ (k - 1) * Pieces \in Nat
    BY <1>2, <1>3, <2>1
  <2>3. n >= Pieces /\ n - Pieces = (k - 1) * Pieces
    BY <1>1, <2>2
  <2> QED
    BY <1>4, <2>1, <2>3 DEF Blocks
<1> QED
  BY <1>5, <1>6


(* What a case adds to the cells that wait. *)
LEMMA CaptureType ==
  ASSUME TypeInv, WholeInv, NEW r \in AllRanks, NEW c \in Nat, CaptureFlatRows(r, c)
  PROVE  /\ pending' \in [AllRanks -> Seq(Cells({run}))]
         /\ whole => \A q \in AllRanks : Blocks(Len(pending'[q]))
<1>1. CASE UNCHANGED pending
  BY <1>1 DEF TypeInv, WholeInv
<1>2. CASE pending' = [pending EXCEPT ![r] = @ \o Block(run, r, c)]
  <2>1. Block(run, r, c) \in Seq(Cells({run})) /\ Len(Block(run, r, c)) = Pieces
    <3>1. run \in Nat /\ r \in Nat
      BY DEF TypeInv, AllRanks
    <3> QED
      BY <3>1, BlockIs
  <2>2. pending[r] \in Seq(Cells({run}))
    BY DEF TypeInv
  <2>3. /\ pending[r] \o Block(run, r, c) \in Seq(Cells({run}))
        /\ Len(pending[r] \o Block(run, r, c)) = Len(pending[r]) + Pieces
        /\ Len(pending[r]) \in Nat
    BY <2>1, <2>2, ConcatProperties, LenProperties
  <2>4. whole => Blocks(Len(pending[r]) + Pieces)
    BY <2>3, BlocksLaw DEF WholeInv
  <2>5. pending' \in [AllRanks -> Seq(Cells({run}))]
    BY <1>2, <2>3 DEF TypeInv
  <2>6. /\ pending'[r] = pending[r] \o Block(run, r, c)
        /\ \A q \in AllRanks \ {r} : pending'[q] = pending[q]
    BY <1>2 DEF TypeInv
  <2> QED
    BY <2>3, <2>4, <2>5, <2>6 DEF WholeInv
<1> QED
  BY <1>1, <1>2 DEF CaptureFlatRows, WriteFlatBlock

(* What one write takes of them. *)
LEMMA FlushType ==
  ASSUME TypeInv, WholeInv, NEW r \in Rank, Flush(r)
  PROVE  /\ pending' \in [AllRanks -> Seq(Cells({run}))]
         /\ whole => \A q \in AllRanks : Blocks(Len(pending'[q]))
         /\ \E cells \in Seq(Cells({run})) :
              IF mode = "parts" THEN parts' = [parts EXCEPT ![r] = @ \o cells]
              ELSE UNCHANGED parts
<1> DEFINE n == IF whole THEN Pieces ELSE 1
           S == Cells({run})
<1>0. r \in AllRanks
  BY FlatAssumption DEF Rank, AllRanks, TypeInv
<1>1. pending[r] \in Seq(S) /\ pending[r] # <<>>
  BY <1>0 DEF TypeInv, Flush
<1>2. Len(pending[r]) \in Nat /\ Len(pending[r]) > 0
  <2>1. \A s \in Seq(S) : s # <<>> => Len(s) \in Nat \ {0}
    BY EmptySeq
  <2>2. Len(pending[r]) \in Nat \ {0}
    BY <1>1, <2>1, Zenon
  <2> QED
    BY <2>2
<1>3. n \in Nat /\ n <= Len(pending[r])
  <2>1. Pieces \in Nat
    BY FlatAssumption
  <2>2. CASE whole
    BY <1>0, <1>2, <2>1, <2>2, BlocksLaw DEF WholeInv
  <2>3. CASE ~whole
    BY <1>2, <2>3
  <2> QED
    BY <2>2, <2>3
<1>4. pending' = [pending EXCEPT ![r] = SubSeq(@, n + 1, Len(@))]
  BY DEF Flush, TakeFrom
<1>5. /\ SubSeq(pending[r], 1, n) \in Seq(S)
      /\ SubSeq(pending[r], n + 1, Len(pending[r])) \in Seq(S)
      /\ Len(SubSeq(pending[r], n + 1, Len(pending[r]))) = Len(pending[r]) - n
  <2> HIDE DEF n, S
  <2> QED
    BY <1>1, <1>3, SplitAt
<1>6. pending' \in [AllRanks -> Seq(S)]
  BY <1>4, <1>5 DEF TypeInv
<1>7. ASSUME whole, NEW q \in AllRanks PROVE Blocks(Len(pending'[q]))
  <2>1. CASE q = r
    <3>1. Len(pending'[r]) = Len(pending[r]) - Pieces
      BY <1>0, <1>4, <1>5, <1>7 DEF TypeInv
    <3>2. Blocks(Len(pending[r]) - Pieces)
      BY <1>0, <1>2, <1>7, BlocksLaw DEF WholeInv
    <3> QED
      BY <2>1, <3>1, <3>2
  <2>2. CASE q # r
    BY <1>4, <1>7, <2>2 DEF TypeInv, WholeInv
  <2> QED
    BY <2>1, <2>2
<1>8. IF mode = "parts" THEN parts' = [parts EXCEPT ![r] = @ \o SubSeq(pending[r], 1, n)]
      ELSE UNCHANGED parts
  BY DEF Flush
<1> QED
  BY <1>5, <1>6, <1>7, <1>8

(* Every step keeps the types and whole blocks whole. *)
LEMMA TypeStep ==
  ASSUME TypeInv, WholeInv, [Next]_vars
  PROVE  TypeInv' /\ WholeInv'
<1>1. ASSUME NEW r \in Rank, Create(r) PROVE TypeInv' /\ WholeInv'
  <2>1. WholeInv'
    BY <1>1 DEF Create, WholeInv, volatile
  <2> QED
    BY <1>1, <2>1, RanksAre DEF Create, TypeInv, Places, Goto, volatile
<1>2. ASSUME NEW r \in Rank, Base(r) PROVE TypeInv' /\ WholeInv'
  <2>1. pending' \in [AllRanks -> Seq(Cells({run}))] /\ (WholeInv)'
    <3>1. CASE r = 0
      BY <1>2, <3>1, RanksAre, CaptureType DEF Base, WholeInv
    <3>2. CASE r # 0
      BY <1>2, <3>2 DEF Base, TypeInv, WholeInv
    <3> QED
      BY <3>1, <3>2
  <2> QED
    BY <1>2, <2>1, RanksAre DEF Base, TypeInv, Places, Goto
<1>3. ASSUME NEW r \in Rank, NEW c \in Upcoming(r), RunCase(r, c)
      PROVE  TypeInv' /\ WholeInv'
  <2>1. pending' \in [AllRanks -> Seq(Cells({run}))] /\ WholeInv'
    <3>0. c \in Nat /\ r \in AllRanks
      BY <1>3, UpcomingIs
    <3>1. CaptureFlatRows(r, c) /\ UNCHANGED <<run, whole>>
      BY <1>3 DEF RunCase
    <3>2. /\ pending' \in [AllRanks -> Seq(Cells({run}))]
          /\ whole => \A q \in AllRanks : Blocks(Len(pending'[q]))
      BY <3>0, <3>1, CaptureType
    <3> QED
      BY <3>1, <3>2 DEF WholeInv
  <2>2. /\ myTasks' \in [AllRanks -> SUBSET Nat] /\ retained' \in [AllRanks -> SUBSET Nat]
        /\ pc' \in [AllRanks -> Places]
    BY <1>3, RanksAre DEF RunCase, TypeInv, Goto, Places
  <2> QED
    BY <1>3, <2>1, <2>2 DEF RunCase, TypeInv
<1>21. ASSUME NEW r \in Rank, ClaimTask(r) PROVE TypeInv' /\ WholeInv'
  <2>1. WholeInv'
    BY <1>21 DEF ClaimTask, WholeInv
  <2>2. nextId \in Nat \ {0} /\ nextId' \in Nat \ {0}
    BY <1>21 DEF ClaimTask, TypeInv
  <2>3. myTasks' \in [AllRanks -> SUBSET Nat] /\ UNCHANGED retained
    <3>1. \A q \in AllRanks : myTasks[q] \cup {nextId} \in SUBSET Nat
      BY <2>2 DEF TypeInv
    <3> QED
      BY <1>21, <3>1 DEF ClaimTask, TypeInv
  <2> QED
    BY <1>21, <2>1, <2>2, <2>3 DEF ClaimTask, TypeInv
<1>22. ASSUME NEW r \in Rank, SolveWave(r) PROVE TypeInv' /\ WholeInv'
  <2>1. WholeInv'
    BY <1>22 DEF SolveWave, WholeInv
  <2>2. /\ retained' \in [AllRanks -> SUBSET Nat] /\ pc' \in [AllRanks -> Places]
    BY <1>22, RanksAre DEF SolveWave, TypeInv, Goto, Places
  <2> QED
    BY <1>22, <2>1, <2>2 DEF SolveWave, TypeInv
<1>4. ASSUME NEW r \in Rank, LoopDone(r) PROVE TypeInv' /\ WholeInv'
  <2>1. WholeInv'
    BY <1>4 DEF LoopDone, WholeInv, volatile
  <2> QED
    BY <1>4, <2>1, RanksAre DEF LoopDone, TypeInv, Places, Goto, volatile
<1>5. ASSUME NEW r \in Rank, EnsureFile(r) PROVE TypeInv' /\ WholeInv'
  <2>1. WholeInv'
    BY <1>5 DEF EnsureFile, WholeInv
  <2> QED
    BY <1>5, <2>1, RanksAre DEF EnsureFile, TypeInv
<1>6. ASSUME NEW r \in Rank, Flush(r) PROVE TypeInv' /\ WholeInv'
  <2>1. pending' \in [AllRanks -> Seq(Cells({run}))] /\ WholeInv'
    BY <1>6, FlushType DEF Flush, WholeInv
  <2> QED
    BY <1>6, <2>1 DEF Flush, TypeInv
<1>7. ASSUME NEW r \in Rank, Close(r) PROVE TypeInv' /\ WholeInv'
  <2>1. WholeInv'
    BY <1>7 DEF Close, WholeInv
  <2> QED
    BY <1>7, <2>1, RanksAre DEF Close, TypeInv, Places, Goto
<1>8. ASSUME NEW r \in Rank, WriteHeader(r) PROVE TypeInv' /\ WholeInv'
  <2>1. WholeInv'
    BY <1>8 DEF WriteHeader, WholeInv, volatile
  <2> QED
    BY <1>8, <2>1, RanksAre DEF WriteHeader, TypeInv, Places, Goto, volatile
<1>9. ASSUME NEW r \in Rank, WriteAt(r) PROVE TypeInv' /\ WholeInv'
  <2>1. WholeInv'
    BY <1>9 DEF WriteAt, WholeInv
  <2> QED
    BY <1>9, <2>1, RanksAre DEF WriteAt, TypeInv
<1>10. ASSUME NEW r \in Rank, CloseFile(r) PROVE TypeInv' /\ WholeInv'
  <2>1. WholeInv'
    BY <1>10 DEF CloseFile, WholeInv, volatile
  <2> QED
    BY <1>10, <2>1, RanksAre DEF CloseFile, TypeInv, Places, Goto, volatile
<1>11. CASE ConcatPart
  <2>1. /\ UNCHANGED <<run, mode, size, whole, pc, nextId, myTasks, retained, opened, pending>>
        /\ part' = part + 1
    BY <1>11 DEF ConcatPart
  <2>2. part' \in Nat
    BY <2>1 DEF TypeInv
  <2>3. AllRanks' = AllRanks /\ Cells({run})' = Cells({run})
    BY <2>1 DEF AllRanks, Cells
  <2>4. TypeInv'
    BY <2>1, <2>2, <2>3 DEF TypeInv
  <2>5. WholeInv'
    BY <2>1, <2>3 DEF WholeInv
  <2> QED
    BY <2>4, <2>5
<1>12. CASE SkipPart
  <2>1. /\ UNCHANGED <<run, mode, size, whole, pc, nextId, myTasks, retained, opened, pending>>
        /\ part' = part + 1
    BY <1>12 DEF SkipPart
  <2>2. part' \in Nat
    BY <2>1 DEF TypeInv
  <2>3. AllRanks' = AllRanks /\ Cells({run})' = Cells({run})
    BY <2>1 DEF AllRanks, Cells
  <2>4. TypeInv'
    BY <2>1, <2>2, <2>3 DEF TypeInv
  <2>5. WholeInv'
    BY <2>1, <2>3 DEF WholeInv
  <2> QED
    BY <2>4, <2>5
<1>13. CASE Merged
  <2>1. WholeInv'
    BY <1>13 DEF Merged, WholeInv, volatile
  <2> QED
    BY <1>13, <2>1, RanksAre DEF Merged, TypeInv, Places, Goto, volatile
<1>14. CASE SyncCreated
  <2>1. WholeInv'
    BY <1>14 DEF SyncCreated, WholeInv, volatile
  <2> QED
    BY <1>14, <2>1, RanksAre DEF SyncCreated, TypeInv, Places, AllGoto, volatile
<1>15. CASE SetSize
  <2>1. WholeInv'
    BY <1>15 DEF SetSize, WholeInv, volatile
  <2> QED
    BY <1>15, <2>1, RanksAre DEF SetSize, TypeInv, Places, AllGoto, volatile
<1>16. CASE SyncHeader
  <2>1. WholeInv'
    BY <1>16 DEF SyncHeader, WholeInv, volatile
  <2> QED
    BY <1>16, <2>1, RanksAre DEF SyncHeader, TypeInv, Places, AllGoto, volatile
<1>17. CASE SyncClosed
  <2>1. WholeInv'
    BY <1>17 DEF SyncClosed, WholeInv, volatile
  <2> QED
    BY <1>17, <2>1, RanksAre DEF SyncClosed, TypeInv, Places, volatile
<1>18. CASE Rerun
  <2>1. run' \in Nat \ {0} /\ mode' \in Modes /\ size' \in 1 .. MaxRanks /\ whole' \in BOOLEAN
    <3>1. whole' \in AppendsWhole(mode')
      BY <1>18 DEF Rerun
    <3>2. whole' \in BOOLEAN
      BY <3>1, WholeIs
    <3> QED
      BY <1>18, <3>2 DEF Rerun, TypeInv
  <2>2. pc' \in [AllRanks -> Places]
    BY <1>18 DEF Rerun, FirstStep, Places
  <2>3. \A q \in AllRanks : pending'[q] = <<>>
    BY <1>18 DEF Rerun, NoCells
  <2>4. pending' \in [AllRanks -> Seq(Cells({run'}))]
    <3>1. <<>> \in Seq(Cells({run'}))
      BY EmptySeq
    <3> QED
      BY <1>18, <3>1 DEF Rerun, NoCells
  <2>5. WholeInv'
    <3>1. Blocks(0)
      BY FlatAssumption DEF Blocks
    <3>2. Len(<<>>) = 0
      OBVIOUS
    <3> QED
      BY <2>3, <3>1, <3>2 DEF WholeInv
  <2>6. /\ opened' = {} /\ part' = 0 /\ nextId' = 1
        /\ myTasks' \in [AllRanks -> SUBSET Nat] /\ retained' \in [AllRanks -> SUBSET Nat]
    BY <1>18 DEF Rerun, NoCases
  <2> QED
    BY <2>1, <2>2, <2>4, <2>5, <2>6 DEF TypeInv
<1>19. CASE UNCHANGED vars
  BY <1>19 DEF vars, volatile, TypeInv, WholeInv
<1>20. ASSUME NEW r \in Rank, Step(r) PROVE TypeInv' /\ WholeInv'
  BY <1>20, <1>1, <1>2, <1>3, <1>4, <1>5, <1>6, <1>7, <1>8, <1>9, <1>10,
     <1>11, <1>12, <1>13, <1>21, <1>22 DEF Step
<1> QED
  BY <1>14, <1>15, <1>16, <1>17, <1>18, <1>19, <1>20 DEF Next, Collective

(* Steps that leave the part files alone. *)
LEMMA PartsSame ==
  ASSUME PartsInv, UNCHANGED <<run, mode, size, parts>>
  PROVE  PartsInv'
BY DEF PartsInv, Writable, Rank

(* No step puts cells of this execution where its ranks have no part file. *)
LEMMA PartsStep ==
  ASSUME TypeInv, WholeInv, PartsInv, OpenInv, [Next]_vars
  PROVE  PartsInv'
<1>1. ASSUME NEW r \in Rank, Create(r) PROVE PartsInv'
  BY <1>1, PartsSame DEF Create, volatile
<1>2. ASSUME NEW r \in Rank, Base(r) PROVE PartsInv'
  BY <1>2, PartsSame DEF Base
<1>3. ASSUME NEW r \in Rank, NEW c \in Upcoming(r), RunCase(r, c)
      PROVE  PartsInv'
  BY <1>3, PartsSame DEF RunCase
<1>21. ASSUME NEW r \in Rank, ClaimTask(r) PROVE PartsInv'
  BY <1>21, PartsSame DEF ClaimTask
<1>22. ASSUME NEW r \in Rank, SolveWave(r) PROVE PartsInv'
  BY <1>22, PartsSame DEF SolveWave
<1>4. ASSUME NEW r \in Rank, LoopDone(r) PROVE PartsInv'
  BY <1>4, PartsSame DEF LoopDone, volatile
<1>5. ASSUME NEW r \in Rank, EnsureFile(r) PROVE PartsInv'
  <2>1. CASE mode = "parts"
    <3>1. parts' = [p \in DOMAIN parts \cup {r} |-> IF p = r THEN <<>> ELSE parts[p]]
      BY <1>5, <2>1 DEF EnsureFile, OpenPart
    <3>2. \A R : <<>> \in Seq(Cells(R))
      BY EmptySeq
    <3>3. DOMAIN parts' \subseteq AllRanks
      BY <3>1, RanksAre DEF PartsInv
    <3>4. parts' \in [DOMAIN parts' -> Seq(Cells(1 .. run))]
      BY <3>1, <3>2 DEF PartsInv
    <3>5. \A p \in DOMAIN parts' : ~Writable(p) => parts'[p] \in Seq(Cells(1 .. run - 1))
      BY <3>1, <3>2 DEF PartsInv
    <3> QED
      BY <1>5, <3>3, <3>4, <3>5 DEF EnsureFile, PartsInv, Writable, Rank
  <2>2. CASE mode # "parts"
    BY <1>5, <2>2, PartsSame DEF EnsureFile
  <2> QED
    BY <2>1, <2>2
<1>6. ASSUME NEW r \in Rank, Flush(r) PROVE PartsInv'
  <2>1. CASE mode = "parts"
    <3>1. PICK cells \in Seq(Cells({run})) : parts' = [parts EXCEPT ![r] = @ \o cells]
      BY <1>6, <2>1, FlushType
    <3>2. r \in DOMAIN parts
      BY <1>6, <2>1 DEF Flush, OpenInv
    <3>3. Cells({run}) \subseteq Cells(1 .. run)
      BY DEF TypeInv, Cells
    <3>4. cells \in Seq(Cells(1 .. run)) /\ parts[r] \in Seq(Cells(1 .. run))
      BY <3>2, <3>3, SeqMonotonic DEF PartsInv
    <3>5. parts[r] \o cells \in Seq(Cells(1 .. run))
      BY <3>4, ConcatProperties
    <3>6. DOMAIN parts' = DOMAIN parts
      BY <3>1
    <3>7. parts' \in [DOMAIN parts -> Seq(Cells(1 .. run))]
      BY <3>1, <3>2, <3>5 DEF PartsInv
    <3>8. \A p \in DOMAIN parts : ~Writable(p) => parts'[p] = parts[p]
      BY <2>1, <3>1 DEF Writable
    <3>9. \A p \in DOMAIN parts : ~Writable(p) => parts'[p] \in Seq(Cells(1 .. run - 1))
      BY <3>8 DEF PartsInv
    <3> QED
      BY <1>6, <3>6, <3>7, <3>9 DEF Flush, PartsInv, Writable, Rank
  <2>2. CASE mode # "parts"
    BY <1>6, <2>2, PartsSame DEF Flush
  <2> QED
    BY <2>1, <2>2
<1>7. ASSUME NEW r \in Rank, Close(r) PROVE PartsInv'
  BY <1>7, PartsSame DEF Close
<1>8. ASSUME NEW r \in Rank, WriteHeader(r) PROVE PartsInv'
  BY <1>8, PartsSame DEF WriteHeader, volatile
<1>9. ASSUME NEW r \in Rank, WriteAt(r) PROVE PartsInv'
  BY <1>9, PartsSame DEF WriteAt
<1>10. ASSUME NEW r \in Rank, CloseFile(r) PROVE PartsInv'
  BY <1>10, PartsSame DEF CloseFile, volatile
<1>11. CASE ConcatPart
  <2>1. DOMAIN parts' = DOMAIN parts \ {part} /\ \A p \in DOMAIN parts' : parts'[p] = parts[p]
    BY <1>11 DEF ConcatPart, RemovePart, Restrict
  <2>2. parts' = [p \in DOMAIN parts' |-> parts[p]]
    BY <1>11 DEF ConcatPart, RemovePart, Restrict
  <2>3. parts' \in [DOMAIN parts' -> Seq(Cells(1 .. run))]
    BY <2>1, <2>2 DEF PartsInv
  <2> QED
    BY <1>11, <2>1, <2>3 DEF ConcatPart, PartsInv, Writable, Rank
<1>12. CASE SkipPart
  BY <1>12, PartsSame DEF SkipPart
<1>13. CASE Merged
  BY <1>13, PartsSame DEF Merged, volatile
<1>14. CASE SyncCreated
  BY <1>14, PartsSame DEF SyncCreated, volatile
<1>15. CASE SetSize
  BY <1>15, PartsSame DEF SetSize, volatile
<1>16. CASE SyncHeader
  BY <1>16, PartsSame DEF SyncHeader, volatile
<1>17. CASE SyncClosed
  BY <1>17, PartsSame DEF SyncClosed, volatile
<1>18. CASE Rerun
  <2>1. run \in Nat \ {0} /\ run' = run + 1 /\ UNCHANGED parts
    BY <1>18 DEF Rerun, TypeInv
  <2>2. Cells(1 .. run) = Cells(1 .. run' - 1) /\ Cells(1 .. run) \subseteq Cells(1 .. run')
    BY <2>1 DEF Cells
  <2>3. \A p \in DOMAIN parts : parts[p] \in Seq(Cells(1 .. run))
    BY DEF PartsInv
  <2>4. \A p \in DOMAIN parts : /\ parts[p] \in Seq(Cells(1 .. run'))
                                /\ parts[p] \in Seq(Cells(1 .. run' - 1))
    BY <2>2, <2>3, SeqMonotonic
  <2>5. parts \in [DOMAIN parts -> Seq(Cells(1 .. run'))]
    BY <2>4 DEF PartsInv
  <2> QED
    BY <2>1, <2>4, <2>5 DEF PartsInv
<1>19. CASE UNCHANGED vars
  BY <1>19, PartsSame DEF vars
<1>20. ASSUME NEW r \in Rank, Step(r) PROVE PartsInv'
  BY <1>20, <1>1, <1>2, <1>3, <1>4, <1>5, <1>6, <1>7, <1>8, <1>9, <1>10,
     <1>11, <1>12, <1>13, <1>21, <1>22 DEF Step
<1> QED
  BY <1>14, <1>15, <1>16, <1>17, <1>18, <1>19, <1>20 DEF Next, Collective

(* Every step keeps what is open, and that nobody writes while rank 0 merges. *)
LEMMA PlaceStep ==
  ASSUME TypeInv, WholeInv, OpenInv, MergeInv, PartInv, PlaceInv, [Next]_vars
  PROVE  OpenInv' /\ MergeInv' /\ PartInv' /\ PlaceInv'
<1>1. ASSUME NEW r \in Rank, Create(r) PROVE OpenInv' /\ MergeInv' /\ PartInv' /\ PlaceInv'
  <2>1. OpenInv'
    BY <1>1 DEF Create, OpenInv, Rank, Goto, TypeInv, volatile
  <2>2. PlaceInv'
    BY <1>1, RanksAre DEF Create, PlaceInv, TypeInv, Goto, Rank, volatile
  <2>3. MergeInv' /\ PartInv'
    BY <1>1, RanksAre
       DEF Create, MergeInv, PartInv, PlaceInv, TypeInv, Goto, Rank,
           volatile
  <2> QED
    BY <2>1, <2>2, <2>3
<1>2. ASSUME NEW r \in Rank, Base(r) PROVE OpenInv' /\ MergeInv' /\ PartInv' /\ PlaceInv'
  <2>1. OpenInv'
    BY <1>2 DEF Base, OpenInv, Rank, Goto, TypeInv
  <2>2. PlaceInv'
    BY <1>2, RanksAre DEF Base, PlaceInv, TypeInv, Goto, Rank
  <2>3. MergeInv' /\ PartInv'
    BY <1>2, RanksAre DEF Base, MergeInv, PartInv, PlaceInv, TypeInv, Goto, Rank
  <2> QED
    BY <2>1, <2>2, <2>3
<1>3. ASSUME NEW r \in Rank, NEW c \in Upcoming(r), RunCase(r, c)
      PROVE  OpenInv' /\ MergeInv' /\ PartInv' /\ PlaceInv'
  <2>1. OpenInv'
    BY <1>3 DEF RunCase, OpenInv, Rank, TypeInv, Goto
  <2>2. PlaceInv'
    BY <1>3, RanksAre DEF RunCase, PlaceInv, TypeInv, Rank, Goto
  <2>3. MergeInv' /\ PartInv'
    BY <1>3, RanksAre DEF RunCase, MergeInv, PartInv, PlaceInv, TypeInv, Rank, Goto
  <2> QED
    BY <2>1, <2>2, <2>3
<1>21. ASSUME NEW r \in Rank, ClaimTask(r) PROVE OpenInv' /\ MergeInv' /\ PartInv' /\ PlaceInv'
  <2>1. OpenInv'
    BY <1>21 DEF ClaimTask, OpenInv, Rank, TypeInv
  <2>2. PlaceInv'
    BY <1>21, RanksAre DEF ClaimTask, PlaceInv, TypeInv, Rank
  <2>3. MergeInv' /\ PartInv'
    BY <1>21, RanksAre DEF ClaimTask, MergeInv, PartInv, PlaceInv, TypeInv, Rank
  <2> QED
    BY <2>1, <2>2, <2>3
<1>22. ASSUME NEW r \in Rank, SolveWave(r) PROVE OpenInv' /\ MergeInv' /\ PartInv' /\ PlaceInv'
  <2>1. OpenInv'
    BY <1>22 DEF SolveWave, OpenInv, Rank, TypeInv, Goto
  <2>2. PlaceInv'
    BY <1>22, RanksAre DEF SolveWave, PlaceInv, TypeInv, Rank, Goto
  <2>3. MergeInv' /\ PartInv'
    BY <1>22, RanksAre DEF SolveWave, MergeInv, PartInv, PlaceInv, TypeInv, Rank, Goto
  <2> QED
    BY <2>1, <2>2, <2>3
<1>4. ASSUME NEW r \in Rank, LoopDone(r) PROVE OpenInv' /\ MergeInv' /\ PartInv' /\ PlaceInv'
  <2>1. OpenInv'
    BY <1>4 DEF LoopDone, OpenInv, Rank, Goto, TypeInv, volatile
  <2>2. PlaceInv'
    BY <1>4, RanksAre DEF LoopDone, PlaceInv, TypeInv, Goto, Rank, volatile
  <2>3. MergeInv' /\ PartInv'
    BY <1>4, RanksAre
       DEF LoopDone, MergeInv, PartInv, PlaceInv, TypeInv, Goto, Rank,
           volatile
  <2> QED
    BY <2>1, <2>2, <2>3
<1>5. ASSUME NEW r \in Rank, EnsureFile(r) PROVE OpenInv' /\ MergeInv' /\ PartInv' /\ PlaceInv'
  <2>0. /\ UNCHANGED <<mode, size, pc, part>> /\ pc[r] \in {"loop", "emit", "close"}
        /\ opened' = opened \cup {r}
    BY <1>5 DEF EnsureFile
  <2>1. mode = "parts" => DOMAIN parts' = DOMAIN parts \cup {r}
    BY <1>5 DEF EnsureFile, OpenPart
  <2>2. OpenInv' /\ PlaceInv'
    BY <2>0, <2>1 DEF OpenInv, PlaceInv, Rank
  <2>3. mode = "parts" => pc[0] \notin {"merge", "done"}
    BY <2>0 DEF MergeInv
  <2>4. MergeInv' /\ PartInv'
    BY <2>0, <2>3 DEF MergeInv, PartInv
  <2> QED
    BY <2>2, <2>4
<1>6. ASSUME NEW r \in Rank, Flush(r) PROVE OpenInv' /\ MergeInv' /\ PartInv' /\ PlaceInv'
  <2>1. OpenInv'
    BY <1>6 DEF Flush, OpenInv, Rank, TypeInv
  <2>2. PlaceInv'
    BY <1>6, RanksAre DEF Flush, PlaceInv, TypeInv, Rank
  <2>3. MergeInv' /\ PartInv'
    BY <1>6, RanksAre DEF Flush, MergeInv, PartInv, PlaceInv, TypeInv, Rank
  <2> QED
    BY <2>1, <2>2, <2>3
<1>7. ASSUME NEW r \in Rank, Close(r) PROVE OpenInv' /\ MergeInv' /\ PartInv' /\ PlaceInv'
  <2>1. OpenInv'
    BY <1>7 DEF Close, OpenInv, Rank, Goto, TypeInv
  <2>2. PlaceInv'
    BY <1>7, RanksAre DEF Close, PlaceInv, TypeInv, Goto, Rank
  <2>3. MergeInv' /\ PartInv'
    BY <1>7, RanksAre DEF Close, MergeInv, PartInv, PlaceInv, TypeInv, Goto, Rank
  <2> QED
    BY <2>1, <2>2, <2>3
<1>8. ASSUME NEW r \in Rank, WriteHeader(r) PROVE OpenInv' /\ MergeInv' /\ PartInv' /\ PlaceInv'
  <2>1. OpenInv'
    BY <1>8 DEF WriteHeader, OpenInv, Rank, Goto, TypeInv, volatile
  <2>2. PlaceInv'
    BY <1>8, RanksAre DEF WriteHeader, PlaceInv, TypeInv, Goto, Rank, volatile
  <2>3. MergeInv' /\ PartInv'
    BY <1>8, RanksAre
       DEF WriteHeader, MergeInv, PartInv, PlaceInv, TypeInv, Goto,
           Rank, volatile
  <2> QED
    BY <2>1, <2>2, <2>3
<1>9. ASSUME NEW r \in Rank, WriteAt(r) PROVE OpenInv' /\ MergeInv' /\ PartInv' /\ PlaceInv'
  <2>1. OpenInv'
    BY <1>9 DEF WriteAt, OpenInv, Rank, TypeInv
  <2>2. PlaceInv'
    BY <1>9, RanksAre DEF WriteAt, PlaceInv, TypeInv, Rank
  <2>3. MergeInv' /\ PartInv'
    BY <1>9, RanksAre DEF WriteAt, MergeInv, PartInv, PlaceInv, TypeInv, Rank
  <2> QED
    BY <2>1, <2>2, <2>3
<1>10. ASSUME NEW r \in Rank, CloseFile(r) PROVE OpenInv' /\ MergeInv' /\ PartInv' /\ PlaceInv'
  <2>1. OpenInv'
    BY <1>10 DEF CloseFile, OpenInv, Rank, Goto, TypeInv, volatile
  <2>2. PlaceInv'
    BY <1>10, RanksAre DEF CloseFile, PlaceInv, TypeInv, Goto, Rank, volatile
  <2>3. MergeInv' /\ PartInv'
    BY <1>10, RanksAre
       DEF CloseFile, MergeInv, PartInv, PlaceInv, TypeInv, Goto, Rank,
           volatile
  <2> QED
    BY <2>1, <2>2, <2>3
<1>11. CASE ConcatPart
  <2>0. /\ UNCHANGED <<mode, size, pc, opened>> /\ pc[0] = "merge"
        /\ part < size /\ part' = part + 1
    BY <1>11 DEF ConcatPart
  <2>1. DOMAIN parts' = DOMAIN parts \ {part}
    BY <1>11 DEF ConcatPart, RemovePart, Restrict
  <2>2. mode = "parts" => opened = {}
    BY <2>0 DEF OpenInv, MergeInv
  <2>3. OpenInv' /\ PlaceInv' /\ PartInv'
    BY <2>0, <2>2 DEF OpenInv, PlaceInv, PartInv, Rank
  <2>4. MergeInv'
    BY <2>0, <2>1 DEF MergeInv, TypeInv, Rank
  <2> QED
    BY <2>3, <2>4
<1>12. CASE SkipPart
  <2>0. /\ UNCHANGED <<mode, size, pc, opened, parts>> /\ pc[0] = "merge"
        /\ part < size /\ part' = part + 1 /\ part \notin DOMAIN parts
    BY <1>12 DEF SkipPart, NoSuchPart
  <2>1. OpenInv' /\ PlaceInv' /\ PartInv'
    BY <2>0 DEF OpenInv, PlaceInv, PartInv, Rank
  <2>2. MergeInv'
    BY <2>0 DEF MergeInv, TypeInv, Rank
  <2> QED
    BY <2>1, <2>2
<1>13. CASE Merged
  <2>1. OpenInv'
    BY <1>13 DEF Merged, OpenInv, Rank, Goto, TypeInv, volatile
  <2>2. PlaceInv'
    BY <1>13, RanksAre DEF Merged, PlaceInv, TypeInv, Goto, Rank, volatile
  <2>3. MergeInv' /\ PartInv'
    BY <1>13, RanksAre
       DEF Merged, MergeInv, PartInv, PlaceInv, TypeInv, Goto, Rank,
           volatile
  <2> QED
    BY <2>1, <2>2, <2>3
<1>14. CASE SyncCreated
  <2>1. OpenInv'
    BY <1>14 DEF SyncCreated, OpenInv, Rank, AllGoto, AllAt, TypeInv, volatile
  <2>2. PlaceInv'
    BY <1>14, RanksAre
       DEF SyncCreated, PlaceInv, TypeInv, AllGoto, AllAt, Rank,
           volatile
  <2>3. MergeInv' /\ PartInv'
    BY <1>14, RanksAre
       DEF SyncCreated, MergeInv, PartInv, PlaceInv, TypeInv, AllGoto,
           AllAt, Rank, volatile
  <2> QED
    BY <2>1, <2>2, <2>3
<1>15. CASE SetSize
  <2>1. OpenInv'
    BY <1>15 DEF SetSize, OpenInv, Rank, AllGoto, AllAt, TypeInv, volatile
  <2>2. PlaceInv'
    BY <1>15, RanksAre
       DEF SetSize, PlaceInv, TypeInv, AllGoto, AllAt, Rank, volatile
  <2>3. MergeInv' /\ PartInv'
    BY <1>15, RanksAre
       DEF SetSize, MergeInv, PartInv, PlaceInv, TypeInv, AllGoto,
           AllAt, Rank, volatile
  <2> QED
    BY <2>1, <2>2, <2>3
<1>16. CASE SyncHeader
  <2>1. OpenInv'
    BY <1>16 DEF SyncHeader, OpenInv, Rank, AllGoto, AllAt, TypeInv, volatile
  <2>2. PlaceInv'
    BY <1>16, RanksAre
       DEF SyncHeader, PlaceInv, TypeInv, AllGoto, AllAt, Rank, volatile
  <2>3. MergeInv' /\ PartInv'
    BY <1>16, RanksAre
       DEF SyncHeader, MergeInv, PartInv, PlaceInv, TypeInv, AllGoto,
           AllAt, Rank, volatile
  <2> QED
    BY <2>1, <2>2, <2>3
<1>17. CASE SyncClosed
  <2>0. /\ UNCHANGED <<mode, size, opened, part, parts>>
        /\ \A q \in Rank : pc[q] = "closed"
        /\ \A q \in Rank : pc'[q] = IF q = 0 /\ mode = "parts" THEN "merge" ELSE "done"
    BY <1>17, RanksAre DEF SyncClosed, AllAt, volatile
  <2>1. mode = "parts" => part = 0 /\ opened = {}
    BY <2>0, RanksAre DEF PartInv, OpenInv
  <2>2. OpenInv' /\ PlaceInv'
    BY <2>0, <2>1 DEF OpenInv, PlaceInv, Rank
  <2>3. mode = "parts" => pc'[0] = "merge" /\ \A q \in Rank \ {0} : pc'[q] = "done"
    BY <2>0, RanksAre
  <2>4. MergeInv' /\ PartInv'
    BY <2>0, <2>1, <2>3, RanksAre DEF MergeInv, PartInv, Rank
  <2> QED
    BY <2>2, <2>4
<1>18. CASE Rerun
  <2>0. opened' = {} /\ part' = 0 /\ pc' = FirstStep(mode', size') /\ size' \in 1 .. MaxRanks
    BY <1>18 DEF Rerun
  <2>1. size' \in Nat \ {0} /\ \A q \in 0 .. (size' - 1) : q \in AllRanks /\ ~(q >= size')
    <3>1. MaxRanks \in Nat \ {0} /\ size' \in 1 .. MaxRanks
      BY <2>0, FlatAssumption
    <3>2. \A n \in 1 .. MaxRanks : n \in Nat \ {0} /\
            \A q \in 0 .. (n - 1) : q \in 0 .. (MaxRanks - 1) /\ ~(q >= n)
      BY <3>1
    <3> QED
      BY <3>1, <3>2 DEF AllRanks
  <2>2. \A q \in 0 .. (size' - 1) : pc'[q] \in {"create", "base"}
    <3>1. ASSUME NEW q \in 0 .. (size' - 1) PROVE pc'[q] \in {"create", "base"}
      <4>1. q \in AllRanks /\ ~(q >= size')
        BY <2>1
      <4>2. pc'[q] = IF mode' = "shared" THEN "create" ELSE "base"
        BY <2>0, <4>1 DEF FirstStep
      <4> QED
        BY <4>2
    <3> QED
      BY <3>1
  <2>3. pc'[0] \in {"create", "base"}
    <3>1. \A n \in Nat \ {0} : 0 \in 0 .. (n - 1)
      OBVIOUS
    <3>2. 0 \in 0 .. (size' - 1)
      BY <2>1, <3>1
    <3> QED
      BY <2>2, <3>2
  <2> QED
    BY <2>0, <2>2, <2>3 DEF OpenInv, MergeInv, PartInv, PlaceInv, Rank
<1>19. CASE UNCHANGED vars
  BY <1>19 DEF vars, volatile, OpenInv, MergeInv, PartInv, PlaceInv, Rank
<1>20. ASSUME NEW r \in Rank, Step(r) PROVE OpenInv' /\ MergeInv' /\ PartInv' /\ PlaceInv'
  BY <1>20, <1>1, <1>2, <1>3, <1>4, <1>5, <1>6, <1>7, <1>8, <1>9, <1>10,
     <1>11, <1>12, <1>13, <1>21, <1>22 DEF Step
<1> QED
  BY <1>14, <1>15, <1>16, <1>17, <1>18, <1>19, <1>20 DEF Next, Collective

(* The inductive invariant holds at the start. *)
LEMMA InitIInv ==
  ASSUME Init
  PROVE  IInv
<1>1. \A q \in AllRanks : pending[q] = <<>>
  BY DEF Init, NoCells
<1>2. pending \in [AllRanks -> Seq(Cells({run}))]
  <2>1. <<>> \in Seq(Cells({run}))
    BY EmptySeq
  <2> QED
    BY <2>1 DEF Init, NoCells
<1>3. pc \in [AllRanks -> Places]
  BY DEF Init, FirstStep, Places
<1>4. TypeInv
  <2>1. whole \in BOOLEAN
    BY WholeIs DEF Init
  <2>2. myTasks \in [AllRanks -> SUBSET Nat] /\ retained \in [AllRanks -> SUBSET Nat]
    BY DEF Init, NoCases
  <2> QED
    BY <1>2, <1>3, <2>1, <2>2 DEF Init, TypeInv
<1>5. WholeInv
  <2>1. Blocks(0) /\ Len(<<>>) = 0
    BY FlatAssumption DEF Blocks
  <2> QED
    BY <1>1, <2>1 DEF WholeInv
<1>6. PartsInv
  BY DEF Init, PartsInv
<1>7. \A r \in Rank : pc[r] \in {"create", "base"}
  BY FlatAssumption DEF Init, FirstStep, Rank, AllRanks
<1>8. OpenInv /\ MergeInv /\ PartInv /\ PlaceInv
  BY <1>4, <1>7, RanksAre DEF Init, OpenInv, MergeInv, PartInv, PlaceInv
<1> QED
  BY <1>4, <1>5, <1>6, <1>8 DEF IInv

(* What the part files hold at every point of every execution. *)
THEOREM Inductive == Spec => []IInv
<1>1. Init => IInv
  BY InitIInv
<1>2. IInv /\ [Next]_vars => IInv'
  BY TypeStep, PartsStep, PlaceStep DEF IInv
<1> QED
  BY <1>1, <1>2, PTL DEF Spec

(* An execution that ends leaves no part file of its own, and one that     *)
(* merges leaves none of any of its ranks, whatever it found.              *)
THEOREM NoPartIsLeft == Spec => []NoPartLeft
<1>1. IInv => NoPartLeft
  <2> SUFFICES ASSUME IInv, Finished PROVE
                 /\ mode = "parts" => DOMAIN parts \cap Rank = {}
                 /\ \A p \in DOMAIN parts : \A i \in DOMAIN parts[p] : parts[p][i].run # run
    BY DEF NoPartLeft
  <2>0. TypeInv /\ PartsInv /\ MergeInv
    BY DEF IInv
  <2>1. ASSUME mode = "parts" PROVE DOMAIN parts \cap Rank = {}
    <3>1. pc[0] = "done"
      BY <2>0, RanksAre DEF Finished, AllAt
    <3> QED
      BY <2>0, <2>1, <3>1, RanksAre DEF MergeInv
  <2>2. ASSUME NEW p \in DOMAIN parts, NEW i \in DOMAIN parts[p] PROVE parts[p][i].run # run
    <3>1. ~Writable(p)
      BY <2>1 DEF Writable
    <3>2. parts[p] \in Seq(Cells(1 .. run - 1))
      BY <2>0, <3>1 DEF PartsInv
    <3>3. parts[p][i] \in Cells(1 .. run - 1)
      BY <3>2, LenProperties, ElementOfSeq
    <3> QED
      BY <2>0, <3>3 DEF Cells, TypeInv
  <2> QED
    BY <2>1, <2>2
<1> QED
  BY <1>1, Inductive, PTL

-----------------------------------------------------------------------------
MoreTypes ==
  /\ memory \in [AllRanks -> Seq(Cells({run}))] /\ written \in [AllRanks -> Nat]
  /\ flat \in Seq(Cells(0 .. run)) /\ wrote \in [AllRanks -> Seq(Nat)]

(* What waits and what is in memory is of the rank and this execution.  A  *)
(* part file is of its rank, and either of this execution or all older;    *)
(* one that is open is of this execution.                                  *)
Fresh(p) == p \in DOMAIN parts /\ parts[p] \in Seq(Rows({run}, p))
Stale(p) == p \in DOMAIN parts => parts[p] \in Seq(Rows(1 .. (run - 1), p))
RowInv ==
  /\ \A r \in AllRanks : pending[r] \in Seq(Rows({run}, r)) /\ memory[r] \in Seq(Rows({run}, r))
  /\ \A p \in AllRanks : Fresh(p) \/ Stale(p)
  /\ mode = "parts" => \A r \in opened : Fresh(r)

(* A rank has not run the cases of its wave that it still has to run, and  *)
(* all it knows of have been claimed.                                      *)
Unwritten(r, c) == \A k \in DOMAIN wrote[r] : wrote[r][k] # c
ClaimInv ==
  \A r \in AllRanks :
    /\ retained[r] \subseteq myTasks[r]
    /\ \A c \in myTasks[r] : 0 < c /\ c < nextId /\ Unwritten(r, c)
    /\ \A k \in DOMAIN wrote[r] : wrote[r][k] < nextId

(* A rank has no block before the loop and nothing in its writer after it. *)
IdleInv ==
  \A r \in Rank :
    /\ pc[r] \in {"create", "created", "base"} =>
         wrote[r] = <<>> /\ pending[r] = <<>> /\ memory[r] = <<>>
    /\ mode = "buffered" \/ pc[r] \in {"closed", "merge", "done"} => pending[r] = <<>>

(* Between two collectives the ranks are all in one of these sets of places. *)
Phases(m) ==
  IF m = "shared" THEN {{"create", "created"}, {"base", "loop", "emit", "close", "closed"}, {"done"}}
  ELSE IF m = "parts" THEN {{"base", "loop", "emit", "close", "closed"}, {"merge", "done"}}
  ELSE {{"base", "loop", "emit", "gather"}, {"header", "written"}, {"write", "closed"}, {"done"}}
PhaseInv == \E P \in Phases(mode) : \A r \in Rank : pc[r] \in P

-----------------------------------------------------------------------------
(* The cells in the memories of some ranks are finitely many. *)
LEMMA BytesAre ==
  ASSUME MoreTypes, NEW S \in SUBSET AllRanks
  PROVE  /\ IsFiniteSet(UNION {{p} \X DOMAIN memory[p] : p \in S})
         /\ Bytes(S) \in Nat
<1>1. IsFiniteSet(S)
  <2>1. MaxRanks - 1 \in Int
    BY FlatAssumption
  <2>2. IsFiniteSet(AllRanks)
    BY <2>1, FS_Interval DEF AllRanks
  <2> QED
    BY <2>2, FS_Subset
<1> DEFINE M == {{p} \X DOMAIN memory[p] : p \in S}
           f == [p \in S |-> {p} \X DOMAIN memory[p]]
<1>2. IsFiniteSet(M)
  <2>1. f \in [S -> M] /\ \A m \in M : \E p \in S : f[p] = m
    OBVIOUS
  <2>2. f \in Surjection(S, M)
    BY <2>1 DEF Surjection
  <2> HIDE DEF M, f
  <2> QED
    BY <1>1, <2>2, FS_Surjection
<1>3. ASSUME NEW p \in S PROVE IsFiniteSet({p} \X DOMAIN memory[p])
  <2>1. memory[p] \in Seq(Cells({run}))
    BY DEF MoreTypes
  <2>2. DOMAIN memory[p] = 1 .. Len(memory[p]) /\ Len(memory[p]) \in Int
    BY <2>1, LenProperties
  <2>3. IsFiniteSet(DOMAIN memory[p])
    BY <2>2, FS_Interval
  <2> QED
    BY <2>3, FS_Singleton, FS_Product
<1>4. \A m \in M : IsFiniteSet(m)
  BY <1>3
<1>5. IsFiniteSet(UNION M)
  <2> HIDE DEF M
  <2> QED
    BY <1>2, <1>4, FS_UNION
<1>6. IsFiniteSet(UNION {{p} \X DOMAIN memory[p] : p \in S})
  BY <1>5
<1> QED
  BY <1>6, FS_CardinalityType DEF Bytes

(* More ranks have no fewer. *)
LEMMA BytesOf ==
  ASSUME MoreTypes, NEW S \in SUBSET AllRanks, NEW T \in SUBSET AllRanks, S \subseteq T
  PROVE  Bytes(S) <= Bytes(T)
<1> DEFINE A == UNION {{p} \X DOMAIN memory[p] : p \in S}
           B == UNION {{p} \X DOMAIN memory[p] : p \in T}
<1>1. A \subseteq B
  OBVIOUS
<1>2. IsFiniteSet(B)
  BY BytesAre
<1>3. Bytes(S) = Cardinality(A) /\ Bytes(T) = Cardinality(B)
  BY DEF Bytes
<1> HIDE DEF A, B
<1> QED
  BY <1>1, <1>2, <1>3, FS_Subset

(* One more rank has as many more as are in its memory. *)
LEMMA BytesAdd ==
  ASSUME MoreTypes, NEW S \in SUBSET AllRanks, NEW r \in AllRanks, r \notin S
  PROVE  Bytes(S \cup {r}) = Bytes(S) + Len(memory[r])
<1> DEFINE A == UNION {{p} \X DOMAIN memory[p] : p \in S}
           B == {r} \X DOMAIN memory[r]
           C == UNION {{p} \X DOMAIN memory[p] : p \in S \cup {r}}
<1>1. C = A \cup B /\ A \cap B = {}
  OBVIOUS
<1>2. IsFiniteSet(A)
  BY BytesAre
<1>3. DOMAIN memory[r] = 1 .. Len(memory[r]) /\ Len(memory[r]) \in Nat
  <2>1. memory[r] \in Seq(Cells({run}))
    BY DEF MoreTypes
  <2> QED
    BY <2>1, LenProperties
<1>4. IsFiniteSet(B) /\ Cardinality(B) = Len(memory[r])
  <2>1. \A n \in Nat : IsFiniteSet(1 .. n) /\ Cardinality(1 .. n) = n
    BY FS_Interval
  <2>2. IsFiniteSet(DOMAIN memory[r]) /\ Cardinality(DOMAIN memory[r]) = Len(memory[r])
    BY <1>3, <2>1
  <2>3. IsFiniteSet({r}) /\ Cardinality({r}) = 1
    BY FS_Singleton
  <2>4. IsFiniteSet(B) /\ Cardinality(B) = Cardinality({r}) * Cardinality(DOMAIN memory[r])
    BY <2>2, <2>3, FS_Product, Zenon
  <2>5. \A n \in Nat : 1 * n = n
    OBVIOUS
  <2> QED
    BY <1>3, <2>2, <2>3, <2>4, <2>5
<1>5. Bytes(S) = Cardinality(A) /\ Bytes(S \cup {r}) = Cardinality(C)
  BY DEF Bytes
<1> HIDE DEF A, B, C
<1>6. Cardinality(A) \in Nat /\ Cardinality({}) = 0
  BY <1>2, FS_CardinalityType, FS_EmptySet
<1>7. Cardinality(A \cup B) = Cardinality(A) + Cardinality(B) - Cardinality(A \cap B)
  BY <1>2, <1>4, FS_Union, Zenon
<1>8. Cardinality(C) = Cardinality(A) + Len(memory[r])
  <2>1. Cardinality(A \cup B) = Cardinality(C) /\ Cardinality(A \cap B) = Cardinality({})
    BY <1>1, Zenon
  <2>2. \A a, b \in Nat : a + b - 0 = a + b
    OBVIOUS
  <2>3. Cardinality(C) = Cardinality(A) + Len(memory[r]) - 0
    BY <1>4, <1>6, <1>7, <2>1, Zenon
  <2> QED
    BY <1>3, <1>6, <2>2, <2>3
<1> QED
  BY <1>5, <1>8

-----------------------------------------------------------------------------
(* What a case adds. *)
LEMMA Captured ==
  ASSUME TypeInv, MoreTypes, NEW r \in AllRanks, NEW c \in Nat, CaptureFlatRows(r, c)
  PROVE  /\ \A q \in AllRanks \ {r} :
              wrote'[q] = wrote[q] /\ pending'[q] = pending[q] /\ memory'[q] = memory[q]
         /\ \/ wrote'[r] = wrote[r] /\ pending'[r] = pending[r] /\ memory'[r] = memory[r]
            \/ /\ mode = "buffered" /\ pending'[r] = pending[r]
               /\ wrote'[r] = Append(wrote[r], c)
               /\ memory'[r] = memory[r] \o Block(run, r, c)
            \/ /\ mode # "buffered" /\ memory'[r] = memory[r]
               /\ wrote'[r] = Append(wrote[r], c)
               /\ pending'[r] = pending[r] \o Block(run, r, c)
         /\ memory' \in [AllRanks -> Seq(Cells({run}))]
         /\ wrote' \in [AllRanks -> Seq(Nat)]
<1>1. CASE UNCHANGED <<wrote, memory, pending>>
  BY <1>1 DEF MoreTypes
<1>2. CASE WriteFlatBlock(r, c)
  <2>1. Block(run, r, c) \in Seq(Cells({run}))
    <3>1. run \in Nat /\ r \in Nat
      BY DEF TypeInv, AllRanks
    <3> QED
      BY <3>1, BlockIs
  <2>2. memory[r] \in Seq(Cells({run})) /\ memory[r] \o Block(run, r, c) \in Seq(Cells({run}))
    BY <2>1, ConcatProperties DEF MoreTypes
  <2>3. /\ wrote' = [wrote EXCEPT ![r] = Append(@, c)]
        /\ \/ /\ mode = "buffered" /\ UNCHANGED pending
              /\ memory' = [memory EXCEPT ![r] = @ \o Block(run, r, c)]
           \/ /\ mode # "buffered" /\ UNCHANGED memory
              /\ pending' = [pending EXCEPT ![r] = @ \o Block(run, r, c)]
    BY <1>2 DEF WriteFlatBlock
  <2>4. wrote' \in [AllRanks -> Seq(Nat)] /\ wrote'[r] = Append(wrote[r], c)
        /\ \A q \in AllRanks \ {r} : wrote'[q] = wrote[q]
    BY <2>3 DEF MoreTypes
  <2>5. CASE /\ mode = "buffered" /\ UNCHANGED pending
             /\ memory' = [memory EXCEPT ![r] = @ \o Block(run, r, c)]
    <3>1. memory' \in [AllRanks -> Seq(Cells({run}))] /\ memory'[r] = memory[r] \o Block(run, r, c)
          /\ \A q \in AllRanks \ {r} : memory'[q] = memory[q]
      BY <2>2, <2>5 DEF MoreTypes
    <3> QED
      BY <2>4, <2>5, <3>1
  <2>6. CASE /\ mode # "buffered" /\ UNCHANGED memory
             /\ pending' = [pending EXCEPT ![r] = @ \o Block(run, r, c)]
    <3>1. pending'[r] = pending[r] \o Block(run, r, c)
          /\ \A q \in AllRanks \ {r} : pending'[q] = pending[q]
      BY <2>6 DEF TypeInv
    <3> QED
      BY <2>4, <2>6, <3>1 DEF MoreTypes
  <2> QED
    BY <2>3, <2>5, <2>6
<1> QED
  BY <1>1, <1>2 DEF CaptureFlatRows

(* What one write takes: the front of what waits. *)
LEMMA Flushed ==
  ASSUME TypeInv, WholeInv, RowInv, NEW r \in Rank, Flush(r)
  PROVE  \E n \in Nat \ {0} : \E cells \in Seq(Rows({run}, r)) :
           /\ n = (IF whole THEN Pieces ELSE 1) /\ n <= Len(pending[r])
           /\ Len(cells) = n
           /\ pending'[r] \in Seq(Rows({run}, r))
           /\ pending[r] = cells \o pending'[r]
           /\ \A q \in AllRanks \ {r} : pending'[q] = pending[q]
           /\ IF mode = "parts" THEN parts' = [parts EXCEPT ![r] = @ \o cells] /\ UNCHANGED flat
              ELSE flat' = flat \o cells /\ UNCHANGED parts
<1> DEFINE n == IF whole THEN Pieces ELSE 1
           s == pending[r]
<1>0. r \in AllRanks
  BY RanksAre
<1>1. s \in Seq(Rows({run}, r)) /\ s # <<>>
  BY <1>0 DEF RowInv, Flush
<1>2. Len(s) \in Nat \ {0}
  <2>1. \A u \in Seq(Rows({run}, r)) : u # <<>> => Len(u) \in Nat \ {0}
    BY EmptySeq
  <2> QED
    BY <1>1, <2>1, Zenon
<1>3. n \in Nat \ {0} /\ n <= Len(s)
  <2>1. Pieces \in Nat \ {0}
    BY FlatAssumption
  <2>2. CASE whole
    <3>1. Len(s) >= Pieces
      BY <1>0, <1>2, <2>2, BlocksLaw DEF WholeInv
    <3> QED
      BY <2>1, <2>2, <3>1, <1>2
  <2>3. CASE ~whole
    BY <1>2, <2>3
  <2> QED
    BY <2>2, <2>3
<1>4. pending' = [pending EXCEPT ![r] = SubSeq(@, n + 1, Len(@))]
  BY DEF Flush, TakeFrom
<1>5. pending'[r] = SubSeq(s, n + 1, Len(s)) /\ \A q \in AllRanks \ {r} : pending'[q] = pending[q]
  BY <1>0, <1>4 DEF TypeInv
<1>6. IF mode = "parts" THEN parts' = [parts EXCEPT ![r] = @ \o SubSeq(s, 1, n)] /\ UNCHANGED flat
      ELSE flat' = flat \o SubSeq(s, 1, n) /\ UNCHANGED parts
  BY DEF Flush
<1>7. n = (IF whole THEN Pieces ELSE 1)
  OBVIOUS
<1> HIDE DEF n, s
<1>8. /\ SubSeq(s, 1, n) \in Seq(Rows({run}, r)) /\ Len(SubSeq(s, 1, n)) = n
      /\ SubSeq(s, n + 1, Len(s)) \in Seq(Rows({run}, r))
      /\ s = SubSeq(s, 1, n) \o SubSeq(s, n + 1, Len(s))
  <2> DEFINE S == Rows({run}, r)
  <2>1. s \in Seq(S) /\ n \in Nat
    BY <1>1, <1>3
  <2> HIDE DEF S
  <2>2. \A x \in Seq(S), m \in Nat :
          m <= Len(x) => /\ SubSeq(x, 1, m) \in Seq(S) /\ Len(SubSeq(x, 1, m)) = m
                         /\ SubSeq(x, m + 1, Len(x)) \in Seq(S)
                         /\ x = SubSeq(x, 1, m) \o SubSeq(x, m + 1, Len(x))
    BY SplitAt
  <2>3. /\ SubSeq(s, 1, n) \in Seq(S) /\ Len(SubSeq(s, 1, n)) = n
        /\ SubSeq(s, n + 1, Len(s)) \in Seq(S)
        /\ s = SubSeq(s, 1, n) \o SubSeq(s, n + 1, Len(s))
    BY <1>3, <2>1, <2>2
  <2> QED
    BY <2>3 DEF S
<1>9. s = pending[r]
  BY DEF s
<1> QED
  BY <1>3, <1>5, <1>6, <1>7, <1>8, <1>9

-----------------------------------------------------------------------------
(* A sequence with one element replaced. *)
LEMMA Replaced ==
  ASSUME NEW S, NEW s \in Seq(S), NEW k, NEW v \in S
  PROVE  [s EXCEPT ![k] = v] \in Seq(S) /\ Len([s EXCEPT ![k] = v]) = Len(s)
<1> DEFINE t == [s EXCEPT ![k] = v]
<1>1. s \in [1 .. Len(s) -> S] /\ Len(s) \in Nat
  BY LenProperties
<1>2. t \in [1 .. Len(s) -> S]
  BY <1>1
<1> HIDE DEF t
<1>3. t \in Seq(S)
  BY <1>1, <1>2, SeqDef
<1>4. DOMAIN t = 1 .. Len(s) /\ DOMAIN t = 1 .. Len(t) /\ Len(t) \in Nat
  BY <1>2, <1>3, LenProperties
<1>5. Len(t) = Len(s)
  BY <1>1, <1>4
<1> QED
  BY <1>3, <1>5 DEF t

(* The headers, and the cells of this execution. *)
LEMMA CellsAre ==
  ASSUME TypeInv
  PROVE  /\ Header \in Cells(0 .. run) /\ Hole \in Cells(0 .. run)
         /\ Cells({run}) \subseteq Cells(0 .. run)
         /\ Cells(1 .. run) \subseteq Cells(0 .. run)
         /\ \A r \in AllRanks : Rows({run}, r) \subseteq Cells({run})
<1>1. run \in Nat \ {0} /\ run \in 0 .. run /\ 0 \in 0 .. run
  BY DEF TypeInv
<1>2. Header \in Cells(0 .. run) /\ Hole \in Cells(0 .. run)
  BY <1>1 DEF Header, Hole, Cells
<1>3. Cells({run}) \subseteq Cells(0 .. run) /\ Cells(1 .. run) \subseteq Cells(0 .. run)
  BY <1>1 DEF Cells
<1>4. ASSUME NEW r \in AllRanks PROVE Rows({run}, r) \subseteq Cells({run})
  BY FlatAssumption DEF Rows, Cells, AllRanks
<1> QED
  BY <1>2, <1>3, <1>4

(* Every step keeps the types. *)
LEMMA MoreStep ==
  ASSUME TypeInv, WholeInv, PartsInv, RowInv, MoreTypes, [Next]_vars
  PROVE  MoreTypes'
<1> DEFINE Same == UNCHANGED run /\ AllRanks' = AllRanks
<1>0. ASSUME UNCHANGED <<run, memory, written, wrote>>, flat' \in Seq(Cells(0 .. run))
      PROVE  MoreTypes'
  BY <1>0 DEF MoreTypes
<1>00. ASSUME UNCHANGED <<run, memory, written, flat, wrote>> PROVE MoreTypes'
  BY <1>00 DEF MoreTypes
<1>1. ASSUME NEW r \in Rank, Create(r) PROVE MoreTypes'
  <2>1. <<Header>> \in Seq(Cells(0 .. run))
    BY CellsAre
  <2> QED
    BY <1>1, <1>0, <2>1 DEF Create, volatile, MoreTypes
<1>2. ASSUME NEW r \in Rank, Base(r) PROVE MoreTypes'
  <2>1. CASE r = 0
    <3>1. CaptureFlatRows(0, 0) /\ UNCHANGED <<run, flat, written>> /\ 0 \in AllRanks
      BY <1>2, <2>1, RanksAre DEF Base
    <3>2. memory' \in [AllRanks -> Seq(Cells({run}))] /\ wrote' \in [AllRanks -> Seq(Nat)]
      BY <3>1, Captured
    <3> QED
      BY <3>1, <3>2 DEF MoreTypes
  <2>2. CASE r # 0
    BY <1>2, <1>00, <2>2 DEF Base
  <2> QED
    BY <2>1, <2>2
<1>3. ASSUME NEW r \in Rank, NEW c \in Upcoming(r), RunCase(r, c)
      PROVE  MoreTypes'
  <2>0. c \in Nat
    BY <1>3, UpcomingIs
  <2>1. CaptureFlatRows(r, c) /\ UNCHANGED <<run, flat, written>> /\ r \in AllRanks
    BY <1>3, RanksAre DEF RunCase
  <2>2. memory' \in [AllRanks -> Seq(Cells({run}))] /\ wrote' \in [AllRanks -> Seq(Nat)]
    BY <2>0, <2>1, Captured
  <2> QED
    BY <2>1, <2>2 DEF MoreTypes
<1>21. ASSUME NEW r \in Rank, ClaimTask(r) PROVE MoreTypes'
  BY <1>21, <1>00 DEF ClaimTask
<1>22. ASSUME NEW r \in Rank, SolveWave(r) PROVE MoreTypes'
  BY <1>22, <1>00 DEF SolveWave
<1>4. ASSUME NEW r \in Rank, LoopDone(r) PROVE MoreTypes'
  BY <1>4, <1>00 DEF LoopDone, volatile
<1>5. ASSUME NEW r \in Rank, EnsureFile(r) PROVE MoreTypes'
  BY <1>5, <1>00 DEF EnsureFile
<1>6. ASSUME NEW r \in Rank, Flush(r) PROVE MoreTypes'
  <2>1. PICK n \in Nat \ {0}, cells \in Seq(Rows({run}, r)) :
          IF mode = "parts" THEN UNCHANGED flat ELSE flat' = flat \o cells
    BY <1>6, Flushed
  <2>2. cells \in Seq(Cells(0 .. run))
    BY <2>1, CellsAre, RanksAre, SeqMonotonic
  <2>3. flat' \in Seq(Cells(0 .. run))
    BY <2>1, <2>2, ConcatProperties DEF MoreTypes
  <2> QED
    BY <1>6, <1>0, <2>3 DEF Flush
<1>7. ASSUME NEW r \in Rank, Close(r) PROVE MoreTypes'
  BY <1>7, <1>00 DEF Close
<1>8. ASSUME NEW r \in Rank, WriteHeader(r) PROVE MoreTypes'
  <2>1. flat' \in Seq(Cells(0 .. run))
    <3>1. flat \in Seq(Cells(0 .. run))
      BY DEF MoreTypes
    <3>2. [flat EXCEPT ![1] = Header] \in Seq(Cells(0 .. run))
      BY <3>1, CellsAre, Replaced
    <3> QED
      BY <1>8, <3>1, <3>2 DEF WriteHeader
  <2> QED
    BY <1>8, <1>0, <2>1 DEF WriteHeader, volatile
<1>9. ASSUME NEW r \in Rank, WriteAt(r) PROVE MoreTypes'
  <2>0. r \in AllRanks /\ memory[r] \in Seq(Cells({run})) /\ written[r] \in Nat
    BY RanksAre DEF MoreTypes
  <2>1. memory[r][written[r] + 1] \in Cells(0 .. run)
    <3>1. written[r] + 1 \in 1 .. Len(memory[r])
      BY <1>9, <2>0, LenProperties DEF WriteAt
    <3>2. memory[r][written[r] + 1] \in Cells({run})
      BY <2>0, <3>1, ElementOfSeq
    <3> QED
      BY <3>2, CellsAre
  <2>2. flat' \in Seq(Cells(0 .. run))
    <3>1. flat \in Seq(Cells(0 .. run))
      BY DEF MoreTypes
    <3> QED
      BY <1>9, <2>1, <3>1, Replaced DEF WriteAt
  <2>3. written' \in [AllRanks -> Nat]
    BY <1>9, <2>0 DEF WriteAt, MoreTypes
  <2> QED
    BY <1>9, <2>2, <2>3 DEF WriteAt, MoreTypes
<1>10. ASSUME NEW r \in Rank, CloseFile(r) PROVE MoreTypes'
  BY <1>10, <1>00 DEF CloseFile, volatile
<1>11. CASE ConcatPart
  <2>1. part \in DOMAIN parts
    BY <1>11 DEF ConcatPart
  <2>2. parts[part] \in Seq(Cells(1 .. run))
    BY <2>1 DEF PartsInv
  <2>3. parts[part] \in Seq(Cells(0 .. run))
    BY <2>2, CellsAre, SeqMonotonic
  <2>4. flat' \in Seq(Cells(0 .. run))
    BY <1>11, <2>3, ConcatProperties DEF ConcatPart, MoreTypes
  <2> QED
    BY <1>11, <1>0, <2>4 DEF ConcatPart
<1>12. CASE SkipPart
  BY <1>12, <1>00 DEF SkipPart
<1>13. CASE Merged
  BY <1>13, <1>00 DEF Merged, volatile
<1>14. CASE SyncCreated
  BY <1>14, <1>00 DEF SyncCreated, volatile
<1>15. CASE SetSize
  <2> DEFINE n == 1 + Bytes(Rank)
  <2>1. flat' = [i \in 1 .. n |-> IF i <= Len(flat) THEN flat[i] ELSE Hole]
    BY <1>15 DEF SetSize
  <2>2. n \in Nat
    <3>1. Rank \in SUBSET AllRanks
      BY RanksAre
    <3>2. Bytes(Rank) \in Nat
      BY <3>1, BytesAre, Zenon
    <3> QED
      BY <3>2
  <2>3. \A i \in 1 .. n : i <= Len(flat) => flat[i] \in Cells(0 .. run)
    <3>1. flat \in Seq(Cells(0 .. run)) /\ Len(flat) \in Nat
      BY LenProperties DEF MoreTypes
    <3>2. \A i \in 1 .. n : i <= Len(flat) => i \in 1 .. Len(flat)
      BY <2>2, <3>1
    <3> QED
      BY <3>1, <3>2, ElementOfSeq
  <2> HIDE DEF n
  <2>4. flat' \in [1 .. n -> Cells(0 .. run)]
    BY <2>1, <2>3, CellsAre
  <2>5. flat' \in Seq(Cells(0 .. run))
    BY <2>2, <2>4, SeqDef
  <2> QED
    BY <1>15, <1>0, <2>5 DEF SetSize, volatile
<1>16. CASE SyncHeader
  BY <1>16, <1>00 DEF SyncHeader, volatile
<1>17. CASE SyncClosed
  <2>1. <<Header>> \in Seq(Cells(0 .. run))
    BY CellsAre
  <2> QED
    BY <1>17, <1>0, <2>1 DEF SyncClosed, volatile, MoreTypes
<1>18. CASE Rerun
  <2>1. run \in Nat \ {0} /\ run' = run + 1 /\ UNCHANGED flat
    BY <1>18 DEF Rerun, TypeInv
  <2>2. Cells(0 .. run) \subseteq Cells(0 .. run')
    BY <2>1 DEF Cells
  <2>3. flat' \in Seq(Cells(0 .. run'))
    BY <2>1, <2>2, SeqMonotonic DEF MoreTypes
  <2>4. <<>> \in Seq(Cells({run'}))
    BY EmptySeq
  <2>5. memory' \in [AllRanks -> Seq(Cells({run'}))]
    BY <1>18, <2>4 DEF Rerun, NoCells
  <2>6. wrote' \in [AllRanks -> Seq(Nat)] /\ written' \in [AllRanks -> Nat]
    <3>1. <<>> \in Seq(Nat)
      BY EmptySeq
    <3> QED
      BY <1>18, <3>1 DEF Rerun, NoCells
  <2> QED
    BY <2>3, <2>5, <2>6 DEF MoreTypes
<1>19. CASE UNCHANGED vars
  BY <1>19, <1>00 DEF vars, volatile
<1>20. ASSUME NEW r \in Rank, Step(r) PROVE MoreTypes'
  BY <1>20, <1>1, <1>2, <1>3, <1>4, <1>5, <1>6, <1>7, <1>8, <1>9, <1>10,
     <1>11, <1>12, <1>13, <1>21, <1>22 DEF Step
<1> QED
  BY <1>14, <1>15, <1>16, <1>17, <1>18, <1>19, <1>20 DEF Next, Collective

-----------------------------------------------------------------------------
(* Steps that leave the part files alone. *)
LEMMA RowSame ==
  ASSUME RowInv, UNCHANGED <<run, mode, parts>>, opened' \subseteq opened,
         \A r \in AllRanks : /\ pending'[r] \in Seq(Rows({run}, r))
                             /\ memory'[r] \in Seq(Rows({run}, r))
  PROVE  RowInv'
BY DEF RowInv, Fresh, Stale

(* Steps that leave what waits and what is in memory alone, too. *)
LEMMA RowKept ==
  ASSUME RowInv, UNCHANGED <<run, mode, parts, pending, memory>>, opened' \subseteq opened
  PROVE  RowInv'
<1>1. \A r \in AllRanks : /\ pending'[r] \in Seq(Rows({run}, r))
                          /\ memory'[r] \in Seq(Rows({run}, r))
  BY DEF RowInv
<1> QED
  BY <1>1, RowSame

(* A block is of the rank that adds it. *)
LEMMA RowCapture ==
  ASSUME TypeInv, MoreTypes, RowInv, NEW r \in AllRanks, NEW c \in Nat, CaptureFlatRows(r, c),
         UNCHANGED <<run, mode, parts, opened>>
  PROVE  RowInv'
<1>1. Block(run, r, c) \in Seq(Rows({run}, r))
  <2>1. run \in Nat /\ r \in Nat
    BY DEF TypeInv, AllRanks
  <2> QED
    BY <2>1, BlockIs
<1>2. /\ pending[r] \o Block(run, r, c) \in Seq(Rows({run}, r))
      /\ memory[r] \o Block(run, r, c) \in Seq(Rows({run}, r))
  BY <1>1, ConcatProperties DEF RowInv
<1>3. \A q \in AllRanks : /\ pending'[q] \in Seq(Rows({run}, q))
                          /\ memory'[q] \in Seq(Rows({run}, q))
  <2> TAKE q \in AllRanks
  <2>1. CASE q # r
    BY <2>1, Captured DEF RowInv
  <2>2. CASE q = r
    <3>1. \/ pending'[r] = pending[r] /\ memory'[r] = memory[r]
          \/ pending'[r] = pending[r] /\ memory'[r] = memory[r] \o Block(run, r, c)
          \/ memory'[r] = memory[r] /\ pending'[r] = pending[r] \o Block(run, r, c)
      BY Captured
    <3> QED
      BY <1>2, <2>2, <3>1 DEF RowInv
  <2> QED
    BY <2>1, <2>2
<1> QED
  BY <1>3, RowSame

(* To the next execution every part file is of an earlier one. *)
LEMMA RerunStale ==
  ASSUME TypeInv, RowInv, Rerun
  PROVE  \A p \in AllRanks : Stale(p)'
<1>1. run \in Nat \ {0} /\ run' = run + 1 /\ UNCHANGED parts
  BY DEF Rerun, TypeInv
<1> TAKE p \in AllRanks
<1>2. run' - 1 = run
  BY <1>1
<1>3. /\ Rows({run}, p) \subseteq Rows(1 .. run, p)
      /\ Rows(1 .. (run - 1), p) \subseteq Rows(1 .. run, p)
  BY <1>1 DEF Rows
<1>4. p \in DOMAIN parts => parts[p] \in Seq(Rows(1 .. run, p))
  <2>1. CASE Fresh(p)
    BY <1>3, <2>1, SeqMonotonic DEF Fresh
  <2>2. CASE Stale(p)
    BY <1>3, <2>2, SeqMonotonic DEF Stale
  <2> QED
    BY <2>1, <2>2 DEF RowInv
<1> QED
  BY <1>1, <1>2, <1>4 DEF Stale

(* Every step keeps what is in the writers, the memories and the part files. *)
LEMMA RowStep ==
  ASSUME TypeInv, WholeInv, PartsInv, OpenInv, MergeInv, RowInv, MoreTypes, [Next]_vars
  PROVE  RowInv'
<1>1. ASSUME NEW r \in Rank, Create(r) PROVE RowInv'
  BY <1>1, RowKept DEF Create, volatile
<1>2. ASSUME NEW r \in Rank, Base(r) PROVE RowInv'
  <2>1. CASE r = 0
    BY <1>2, <2>1, RanksAre, RowCapture DEF Base
  <2>2. CASE r # 0
    BY <1>2, <2>2, RowKept DEF Base
  <2> QED
    BY <2>1, <2>2
<1>3. ASSUME NEW r \in Rank, NEW c \in Upcoming(r), RunCase(r, c)
      PROVE  RowInv'
  BY <1>3, UpcomingIs, RowCapture DEF RunCase
<1>21. ASSUME NEW r \in Rank, ClaimTask(r) PROVE RowInv'
  BY <1>21, RowKept DEF ClaimTask
<1>22. ASSUME NEW r \in Rank, SolveWave(r) PROVE RowInv'
  BY <1>22, RowKept DEF SolveWave
<1>4. ASSUME NEW r \in Rank, LoopDone(r) PROVE RowInv'
  BY <1>4, RowKept DEF LoopDone, volatile
<1>5. ASSUME NEW r \in Rank, EnsureFile(r) PROVE RowInv'
  <2>1. CASE mode = "parts"
    <3>1. /\ parts' = [p \in DOMAIN parts \cup {r} |-> IF p = r THEN <<>> ELSE parts[p]]
          /\ opened' = opened \cup {r} /\ UNCHANGED <<run, mode, pending, memory>>
      BY <1>5, <2>1 DEF EnsureFile, OpenPart
    <3>2. <<>> \in Seq(Rows({run}, r))
      BY EmptySeq
    <3>3. Fresh(r)'
      BY <3>1, <3>2 DEF Fresh
    <3>4. \A p \in AllRanks \ {r} : (Fresh(p) => Fresh(p)') /\ (Stale(p) => Stale(p)')
      BY <3>1 DEF Fresh, Stale
    <3>5. \A p \in AllRanks : Fresh(p)' \/ Stale(p)'
      BY <3>3, <3>4 DEF RowInv
    <3>6. \A p \in opened' : Fresh(p)'
      BY <2>1, <3>1, <3>3, <3>4 DEF RowInv, TypeInv
    <3> QED
      BY <3>1, <3>5, <3>6 DEF RowInv
  <2>2. CASE mode # "parts"
    <3>1. UNCHANGED <<run, mode, pending, memory, parts>>
      BY <1>5, <2>2 DEF EnsureFile
    <3> QED
      BY <2>2, <3>1 DEF RowInv, Fresh, Stale
  <2> QED
    BY <2>1, <2>2
<1>6. ASSUME NEW r \in Rank, Flush(r) PROVE RowInv'
  <2>1. PICK n \in Nat \ {0}, cells \in Seq(Rows({run}, r)) :
          /\ pending'[r] \in Seq(Rows({run}, r))
          /\ \A q \in AllRanks \ {r} : pending'[q] = pending[q]
          /\ IF mode = "parts" THEN parts' = [parts EXCEPT ![r] = @ \o cells] ELSE UNCHANGED parts
    BY <1>6, Flushed
  <2>2. UNCHANGED <<run, mode, memory, opened>> /\ r \in opened /\ r \in AllRanks
    BY <1>6, RanksAre DEF Flush
  <2>3. \A q \in AllRanks : /\ pending'[q] \in Seq(Rows({run}, q))
                            /\ memory'[q] \in Seq(Rows({run}, q))
    BY <2>1, <2>2 DEF RowInv
  <2>4. CASE mode = "parts"
    <3>1. Fresh(r)
      BY <2>2, <2>4 DEF RowInv
    <3>2. parts[r] \o cells \in Seq(Rows({run}, r))
      BY <3>1, ConcatProperties DEF Fresh
    <3>3. /\ DOMAIN parts' = DOMAIN parts /\ parts'[r] = parts[r] \o cells
          /\ \A p \in DOMAIN parts \ {r} : parts'[p] = parts[p]
      BY <2>1, <2>4, <3>1 DEF Fresh, PartsInv
    <3>4. Fresh(r)'
      BY <2>2, <3>1, <3>2, <3>3 DEF Fresh
    <3>5. \A p \in AllRanks \ {r} : (Fresh(p) => Fresh(p)') /\ (Stale(p) => Stale(p)')
      BY <2>2, <3>3 DEF Fresh, Stale
    <3>6. \A p \in AllRanks : Fresh(p)' \/ Stale(p)'
      BY <3>4, <3>5 DEF RowInv
    <3>7. \A p \in opened' : Fresh(p)'
      BY <2>2, <2>4, <3>4, <3>5 DEF RowInv, TypeInv
    <3> QED
      BY <2>2, <2>3, <3>6, <3>7 DEF RowInv
  <2>5. CASE mode # "parts"
    BY <2>1, <2>2, <2>3, <2>5, RowSame
  <2> QED
    BY <2>4, <2>5
<1>7. ASSUME NEW r \in Rank, Close(r) PROVE RowInv'
  BY <1>7, RowKept DEF Close
<1>8. ASSUME NEW r \in Rank, WriteHeader(r) PROVE RowInv'
  BY <1>8, RowKept DEF WriteHeader, volatile
<1>9. ASSUME NEW r \in Rank, WriteAt(r) PROVE RowInv'
  BY <1>9, RowKept DEF WriteAt
<1>10. ASSUME NEW r \in Rank, CloseFile(r) PROVE RowInv'
  BY <1>10, RowKept DEF CloseFile, volatile
<1>11. CASE ConcatPart
  <2>1. /\ DOMAIN parts' = DOMAIN parts \ {part} /\ \A p \in DOMAIN parts' : parts'[p] = parts[p]
        /\ UNCHANGED <<run, mode, opened, pending, memory>> /\ pc[0] = "merge"
    BY <1>11 DEF ConcatPart, RemovePart, Restrict
  <2>2. \A p \in AllRanks : Fresh(p)' \/ Stale(p)'
    <3>1. \A p \in AllRanks \ {part} : (Fresh(p) => Fresh(p)') /\ (Stale(p) => Stale(p)')
      BY <2>1 DEF Fresh, Stale
    <3>2. \A p \in AllRanks : p = part => Stale(p)'
      BY <2>1 DEF Stale
    <3> QED
      BY <3>1, <3>2 DEF RowInv
  <2>3. mode = "parts" => opened = {}
    BY <2>1 DEF OpenInv, MergeInv
  <2> QED
    BY <2>1, <2>2, <2>3 DEF RowInv
<1>12. CASE SkipPart
  BY <1>12, RowKept DEF SkipPart
<1>13. CASE Merged
  BY <1>13, RowKept DEF Merged, volatile
<1>14. CASE SyncCreated
  BY <1>14, RowKept DEF SyncCreated, volatile
<1>15. CASE SetSize
  BY <1>15, RowKept DEF SetSize, volatile
<1>16. CASE SyncHeader
  BY <1>16, RowKept DEF SyncHeader, volatile
<1>17. CASE SyncClosed
  BY <1>17, RowKept DEF SyncClosed, volatile
<1>18. CASE Rerun
  <2>1. run \in Nat \ {0} /\ run' = run + 1 /\ UNCHANGED parts /\ opened' = {}
    BY <1>18 DEF Rerun, TypeInv
  <2>2. \A R : <<>> \in Seq(R)
    BY EmptySeq
  <2>3. \A r \in AllRanks : pending'[r] = <<>> /\ memory'[r] = <<>>
    BY <1>18 DEF Rerun, NoCells
  <2>4. \A p \in AllRanks : Stale(p)'
    BY <1>18, RerunStale
  <2> QED
    BY <2>1, <2>2, <2>3, <2>4 DEF RowInv
<1>19. CASE UNCHANGED vars
  BY <1>19, RowKept DEF vars, volatile
<1>20. ASSUME NEW r \in Rank, Step(r) PROVE RowInv'
  BY <1>20, <1>1, <1>2, <1>3, <1>4, <1>5, <1>6, <1>7, <1>8, <1>9, <1>10,
     <1>11, <1>12, <1>13, <1>21, <1>22 DEF Step
<1> QED
  BY <1>14, <1>15, <1>16, <1>17, <1>18, <1>19, <1>20 DEF Next, Collective

(* The ranks of the next execution. *)
LEMMA NextRanks ==
  ASSUME size' \in 1 .. MaxRanks
  PROVE  /\ Rank' \subseteq AllRanks /\ 0 \in Rank'
         /\ \A q \in Rank' : ~(q >= size')
<1>1. MaxRanks \in Nat \ {0}
  BY FlatAssumption
<1>2. \A n \in 1 .. MaxRanks : n \in Nat \ {0} /\ 0 \in 0 .. (n - 1) /\
        \A q \in 0 .. (n - 1) : q \in 0 .. (MaxRanks - 1) /\ ~(q >= n)
  BY <1>1
<1>3. Rank' = 0 .. (size' - 1)
  BY DEF Rank
<1> QED
  BY <1>2, <1>3 DEF AllRanks

-----------------------------------------------------------------------------
(* Where the ranks are. *)
LEMMA PhaseGoto ==
  ASSUME TypeInv, PhaseInv, NEW r \in Rank, NEW l, Goto(r, l), UNCHANGED <<mode, size>>,
         \A P \in Phases(mode) : pc[r] \in P => l \in P
  PROVE  PhaseInv'
<1>1. PICK P \in Phases(mode) : \A q \in Rank : pc[q] \in P
  BY DEF PhaseInv
<1>2. \A q \in Rank : pc'[q] = IF q = r THEN l ELSE pc[q]
  BY RanksAre DEF Goto, TypeInv
<1>3. \A q \in Rank : pc'[q] \in P
  BY <1>1, <1>2
<1>4. Rank' = Rank /\ P \in Phases(mode')
  BY <1>1 DEF Rank
<1> QED
  BY <1>3, <1>4 DEF PhaseInv, Phases

(* All ranks go to a set of places. *)
LEMMA PhaseAll ==
  ASSUME TypeInv, UNCHANGED <<mode, size>>, NEW P, P \in Phases(mode),
         \A r \in Rank : pc'[r] \in P
  PROVE  PhaseInv'
BY DEF PhaseInv, Phases, Rank

(* No rank goes anywhere. *)
LEMMA PhaseSame ==
  ASSUME PhaseInv, UNCHANGED <<mode, size, pc>>
  PROVE  PhaseInv'
BY DEF PhaseInv, Phases, Rank

(* Which mode it is where. *)
LEMMA PhaseMode ==
  ASSUME TypeInv, PhaseInv, NEW r \in Rank
  PROVE  /\ mode \in {"shared", "parts", "buffered"}
         /\ pc[r] \in {"create", "created"} => mode = "shared"
         /\ pc[r] = "merge" => mode = "parts"
         /\ pc[r] \in {"gather", "header", "written", "write"} => mode = "buffered"
         /\ pc[r] = "close" => mode # "buffered"
<1>1. mode \in {"shared", "parts", "buffered"}
  BY FlatAssumption DEF TypeInv
<1>2. PICK P \in Phases(mode) : pc[r] \in P
  BY DEF PhaseInv
<1> QED
  BY <1>1, <1>2 DEF Phases

(* The ranks go from one set of places to the next together. *)
LEMMA PhaseStep ==
  ASSUME TypeInv, PhaseInv, [Next]_vars
  PROVE  PhaseInv'
<1>0. mode \in {"shared", "parts", "buffered"} /\ 0 \in Rank /\ Rank \subseteq AllRanks
  BY FlatAssumption, RanksAre DEF TypeInv
<1>1. ASSUME NEW r \in Rank, Create(r) PROVE PhaseInv'
  <2>1. \A P \in Phases(mode) : "create" \in P => "created" \in P
    BY DEF Phases
  <2> QED
    BY <1>1, <2>1, PhaseGoto DEF Create, volatile
<1>2. ASSUME NEW r \in Rank, Base(r) PROVE PhaseInv'
  <2>1. \A P \in Phases(mode) : "base" \in P => "loop" \in P
    BY DEF Phases
  <2> QED
    BY <1>2, <2>1, PhaseGoto DEF Base
<1>3. ASSUME NEW r \in Rank, NEW c \in Upcoming(r), RunCase(r, c)
      PROVE  PhaseInv'
  <2> DEFINE l == IF myTasks[r] = {c} THEN "loop" ELSE "emit"
  <2>1. \A P \in Phases(mode) : "emit" \in P => l \in P
    BY <1>0 DEF Phases
  <2>2. Goto(r, l) /\ UNCHANGED <<mode, size>> /\ pc[r] = "emit"
    BY <1>3 DEF RunCase
  <2> HIDE DEF l
  <2> QED
    BY <2>1, <2>2, PhaseGoto
<1>21. ASSUME NEW r \in Rank, ClaimTask(r) PROVE PhaseInv'
  BY <1>21, PhaseSame DEF ClaimTask
<1>22. ASSUME NEW r \in Rank, SolveWave(r) PROVE PhaseInv'
  <2>1. \A P \in Phases(mode) : "loop" \in P => "emit" \in P
    BY <1>0 DEF Phases
  <2> QED
    BY <1>22, <2>1, PhaseGoto DEF SolveWave
<1>4. ASSUME NEW r \in Rank, LoopDone(r) PROVE PhaseInv'
  <2> DEFINE l == IF mode = "buffered" THEN "gather" ELSE "close"
  <2>1. \A P \in Phases(mode) : "loop" \in P => l \in P
    BY <1>0 DEF Phases
  <2>2. Goto(r, l) /\ UNCHANGED <<mode, size>> /\ pc[r] = "loop"
    BY <1>4 DEF LoopDone
  <2> HIDE DEF l
  <2> QED
    BY <2>1, <2>2, PhaseGoto
<1>5. ASSUME NEW r \in Rank, EnsureFile(r) PROVE PhaseInv'
  BY <1>5, PhaseSame DEF EnsureFile
<1>6. ASSUME NEW r \in Rank, Flush(r) PROVE PhaseInv'
  BY <1>6, PhaseSame DEF Flush
<1>7. ASSUME NEW r \in Rank, Close(r) PROVE PhaseInv'
  <2>1. \A P \in Phases(mode) : "close" \in P => "closed" \in P
    BY DEF Phases
  <2> QED
    BY <1>7, <2>1, PhaseGoto DEF Close
<1>8. ASSUME NEW r \in Rank, WriteHeader(r) PROVE PhaseInv'
  <2>1. \A P \in Phases(mode) : "header" \in P => "written" \in P
    BY DEF Phases
  <2> QED
    BY <1>8, <2>1, PhaseGoto DEF WriteHeader
<1>9. ASSUME NEW r \in Rank, WriteAt(r) PROVE PhaseInv'
  BY <1>9, PhaseSame DEF WriteAt
<1>10. ASSUME NEW r \in Rank, CloseFile(r) PROVE PhaseInv'
  <2>1. \A P \in Phases(mode) : "write" \in P => "closed" \in P
    BY DEF Phases
  <2> QED
    BY <1>10, <2>1, PhaseGoto DEF CloseFile
<1>11. CASE ConcatPart
  BY <1>11, PhaseSame DEF ConcatPart
<1>12. CASE SkipPart
  BY <1>12, PhaseSame DEF SkipPart
<1>13. CASE Merged
  <2>1. \A P \in Phases(mode) : "merge" \in P => "done" \in P
    BY DEF Phases
  <2> QED
    BY <1>0, <1>13, <2>1, PhaseGoto DEF Merged
<1>14. CASE SyncCreated
  <2>1. mode = "shared"
    BY <1>0, <1>14, PhaseMode DEF SyncCreated, AllAt
  <2>2. {"base", "loop", "emit", "close", "closed"} \in Phases(mode)
    BY <2>1 DEF Phases
  <2>3. \A r \in Rank : pc'[r] \in {"base", "loop", "emit", "close", "closed"}
    BY <1>0, <1>14 DEF SyncCreated, AllGoto
  <2> QED
    BY <1>14, <2>2, <2>3, PhaseAll DEF SyncCreated
<1>15. CASE SetSize
  <2>1. mode = "buffered"
    BY <1>0, <1>15, PhaseMode DEF SetSize, AllAt
  <2>2. {"header", "written"} \in Phases(mode)
    BY <2>1 DEF Phases
  <2>3. \A r \in Rank : pc'[r] \in {"header", "written"}
    BY <1>0, <1>15 DEF SetSize, AllGoto
  <2> QED
    BY <1>15, <2>2, <2>3, PhaseAll DEF SetSize
<1>16. CASE SyncHeader
  <2>1. mode = "buffered"
    BY <1>0, <1>16, PhaseMode DEF SyncHeader, AllAt
  <2>2. {"write", "closed"} \in Phases(mode)
    BY <2>1 DEF Phases
  <2>3. \A r \in Rank : pc'[r] \in {"write", "closed"}
    BY <1>0, <1>16 DEF SyncHeader, AllGoto
  <2> QED
    BY <1>16, <2>2, <2>3, PhaseAll DEF SyncHeader
<1>17. CASE SyncClosed
  <2> DEFINE P == IF mode = "parts" THEN {"merge", "done"} ELSE {"done"}
  <2>1. P \in Phases(mode)
    BY <1>0 DEF Phases
  <2>2. \A r \in Rank : pc'[r] \in P
    BY <1>0, <1>17 DEF SyncClosed
  <2>3. UNCHANGED <<mode, size>>
    BY <1>17 DEF SyncClosed
  <2> HIDE DEF P
  <2> QED
    BY <2>1, <2>2, <2>3, PhaseAll
<1>18. CASE Rerun
  <2>1. pc' = FirstStep(mode', size') /\ mode' \in Modes /\ size' \in 1 .. MaxRanks
    BY <1>18 DEF Rerun
  <2>2. \A r \in Rank' : r \in AllRanks /\ ~(r >= size')
    BY <2>1, NextRanks
  <2>3. \A r \in Rank' : pc'[r] = IF mode' = "shared" THEN "create" ELSE "base"
    BY <2>1, <2>2 DEF FirstStep
  <2> DEFINE P == IF mode' = "shared" THEN {"create", "created"}
                  ELSE IF mode' = "parts" THEN {"base", "loop", "emit", "close", "closed"}
                  ELSE {"base", "loop", "emit", "gather"}
  <2>4. P \in Phases(mode')
    BY DEF Phases
  <2>5. \A r \in Rank' : pc'[r] \in P
    BY <2>3
  <2> HIDE DEF P
  <2> QED
    BY <2>4, <2>5 DEF PhaseInv, Phases
<1>19. CASE UNCHANGED vars
  BY <1>19, PhaseSame DEF vars
<1>20. ASSUME NEW r \in Rank, Step(r) PROVE PhaseInv'
  BY <1>20, <1>1, <1>2, <1>3, <1>4, <1>5, <1>6, <1>7, <1>8, <1>9, <1>10,
     <1>11, <1>12, <1>13, <1>21, <1>22 DEF Step
<1> QED
  BY <1>14, <1>15, <1>16, <1>17, <1>18, <1>19, <1>20 DEF Next, Collective

-----------------------------------------------------------------------------
(* Steps that only take a rank from one place to the next. *)
LEMMA IdleGoto ==
  ASSUME TypeInv, IdleInv, NEW r \in Rank, NEW l, Goto(r, l),
         UNCHANGED <<mode, size, pending, memory, wrote>>,
         l \in {"create", "created", "base"} => pc[r] \in {"create", "created", "base"},
         l \in {"closed", "merge", "done"} => pending[r] = <<>>
  PROVE  IdleInv'
<1>1. \A q \in Rank : pc'[q] = IF q = r THEN l ELSE pc[q]
  BY RanksAre DEF Goto, TypeInv
<1>2. Rank' = Rank
  BY DEF Rank
<1> QED
  BY <1>1, <1>2 DEF IdleInv

(* Steps that leave it alone. *)
LEMMA IdleSame ==
  ASSUME IdleInv, UNCHANGED <<mode, size, pc, pending, memory, wrote>>
  PROVE  IdleInv'
BY DEF IdleInv, Rank

(* What is in a sequence and one more. *)
LEMMA AppendedIs ==
  ASSUME NEW S, NEW s \in Seq(S), NEW d \in S
  PROVE  \A k \in DOMAIN Append(s, d) :
           Append(s, d)[k] = d \/ (k \in DOMAIN s /\ Append(s, d)[k] = s[k])
<1>1. Len(s) \in Nat /\ DOMAIN s = 1 .. Len(s)
  BY LenProperties
<1>2. /\ Append(s, d) \in Seq(S) /\ Len(Append(s, d)) = Len(s) + 1
      /\ Append(s, d)[Len(s) + 1] = d
      /\ \A k \in 1 .. Len(s) : Append(s, d)[k] = s[k]
  BY AppendProperties
<1>3. DOMAIN Append(s, d) = 1 .. (Len(s) + 1)
  BY <1>2, LenProperties
<1> QED
  BY <1>1, <1>2, <1>3

(* The case that a rank runs next is one it has not run yet. *)
LEMMA CaseIs ==
  ASSUME TypeInv, ClaimInv, NEW r \in Rank, NEW c \in Upcoming(r)
  PROVE  c \in Nat /\ r \in AllRanks /\ c \in myTasks[r] /\ Unwritten(r, c)
<1>1. c \in retained[r] \/ c \in myTasks[r]
  BY DEF Upcoming
<1>2. r \in AllRanks
  BY RanksAre
<1>3. c \in myTasks[r]
  BY <1>1, <1>2 DEF ClaimInv
<1> QED
  BY <1>2, <1>3, UpcomingIs DEF ClaimInv

(* Steps that leave the claims alone. *)
LEMMA ClaimSame ==
  ASSUME ClaimInv, UNCHANGED <<nextId, myTasks, retained, wrote>>
  PROVE  ClaimInv'
<1>1. AllRanks' = AllRanks /\ \A r, c : Unwritten(r, c)' <=> Unwritten(r, c)
  BY DEF AllRanks, Unwritten
<1> QED
  BY <1>1 DEF ClaimInv

(* A rank runs a case that is not one of those it still has to run. *)
LEMMA ClaimCapture ==
  ASSUME TypeInv, MoreTypes, ClaimInv, NEW r \in AllRanks, NEW c \in Nat,
         c < nextId, UNCHANGED nextId, CaptureFlatRows(r, c),
         myTasks' \in [AllRanks -> SUBSET Nat],
         \A q \in AllRanks : retained'[q] \subseteq myTasks'[q] /\ myTasks'[q] \subseteq myTasks[q],
         c \notin myTasks'[r]
  PROVE  ClaimInv'
<1>1. AllRanks' = AllRanks
  BY DEF AllRanks
<1>2. ASSUME NEW q \in AllRanks, NEW k \in DOMAIN wrote'[q]
      PROVE  (q = r /\ wrote'[q][k] = c) \/ (k \in DOMAIN wrote[q] /\ wrote'[q][k] = wrote[q][k])
  <2>1. \/ wrote'[q] = wrote[q]
        \/ q = r /\ wrote'[q] = Append(wrote[q], c)
    BY Captured
  <2>2. wrote[q] \in Seq(Nat)
    BY DEF MoreTypes
  <2>3. CASE q = r /\ wrote'[q] = Append(wrote[q], c)
    <3>1. \A x \in Seq(Nat) : \A m \in DOMAIN Append(x, c) :
             Append(x, c)[m] = c \/ (m \in DOMAIN x /\ Append(x, c)[m] = x[m])
      BY AppendedIs
    <3> QED
      BY <1>2, <2>2, <2>3, <3>1
  <2> QED
    BY <1>2, <2>1, <2>3
<1>3. ASSUME NEW q \in AllRanks, NEW d \in myTasks'[q]
      PROVE  0 < d /\ d < nextId' /\ Unwritten(q, d)'
  <2>1. d \in myTasks[q] /\ (q = r => d # c)
    BY <1>3
  <2>2. 0 < d /\ d < nextId /\ Unwritten(q, d)
    BY <2>1 DEF ClaimInv
  <2>3. \A k \in DOMAIN wrote'[q] : wrote'[q][k] # d
    BY <1>2, <2>1, <2>2 DEF Unwritten
  <2> QED
    BY <2>2, <2>3 DEF Unwritten
<1>4. ASSUME NEW q \in AllRanks, NEW k \in DOMAIN wrote'[q] PROVE wrote'[q][k] < nextId'
  BY <1>2, <1>4 DEF ClaimInv
<1> QED
  BY <1>1, <1>3, <1>4 DEF ClaimInv

(* Every step keeps the claims. *)
LEMMA ClaimStep ==
  ASSUME TypeInv, MoreTypes, IdleInv, ClaimInv, [Next]_vars
  PROVE  ClaimInv'
<1>0. 0 \in Rank /\ Rank \subseteq AllRanks /\ AllRanks' = AllRanks
  BY RanksAre DEF AllRanks
<1>1. ASSUME NEW r \in Rank, Base(r) PROVE ClaimInv'
  <2>1. UNCHANGED <<nextId, myTasks, retained>>
    BY <1>1 DEF Base
  <2>2. CASE r = 0
    <3>1. CaptureFlatRows(0, 0) /\ 0 \in AllRanks /\ 0 \in Nat
      BY <1>0, <1>1, <2>2 DEF Base
    <3>2. 0 < nextId /\ \A q \in AllRanks : retained[q] \subseteq myTasks[q]
      BY DEF TypeInv, ClaimInv
    <3>3. 0 \notin myTasks'[0] /\ myTasks' \in [AllRanks -> SUBSET Nat]
      BY <2>1, <3>1 DEF TypeInv, ClaimInv
    <3> QED
      BY <2>1, <3>1, <3>2, <3>3, ClaimCapture
  <2>3. CASE r # 0
    BY <1>1, <2>3, ClaimSame DEF Base
  <2> QED
    BY <2>2, <2>3
<1>2. ASSUME NEW r \in Rank, NEW c \in Upcoming(r), RunCase(r, c) PROVE ClaimInv'
  <2>1. c \in Nat /\ r \in AllRanks /\ c \in myTasks[r]
    BY <1>2, CaseIs
  <2>2. CaptureFlatRows(r, c) /\ UNCHANGED nextId
    BY <1>2 DEF RunCase
  <2>3. /\ myTasks' = [myTasks EXCEPT ![r] = @ \ {c}]
        /\ retained' = [retained EXCEPT ![r] = @ \ {c}]
    BY <1>2 DEF RunCase
  <2>4. /\ myTasks' \in [AllRanks -> SUBSET Nat] /\ c \notin myTasks'[r]
        /\ \A q \in AllRanks :
             retained'[q] \subseteq myTasks'[q] /\ myTasks'[q] \subseteq myTasks[q]
    BY <2>1, <2>3 DEF TypeInv, ClaimInv
  <2>5. c < nextId
    BY <2>1 DEF ClaimInv
  <2> QED
    BY <2>1, <2>2, <2>4, <2>5, ClaimCapture
<1>3. ASSUME NEW r \in Rank, ClaimTask(r) PROVE ClaimInv'
  <2>1. /\ UNCHANGED <<wrote, retained>> /\ nextId' = nextId + 1 /\ nextId \in Nat \ {0}
        /\ r \in AllRanks /\ myTasks' = [myTasks EXCEPT ![r] = @ \cup {nextId}]
    BY <1>0, <1>3 DEF ClaimTask, TypeInv
  <2>2. \A q, d : Unwritten(q, d)' <=> Unwritten(q, d)
    BY <2>1 DEF Unwritten
  <2>3. ASSUME NEW q \in AllRanks
        PROVE  /\ retained'[q] \subseteq myTasks'[q]
               /\ \A d \in myTasks'[q] : 0 < d /\ d < nextId' /\ Unwritten(q, d)
               /\ \A k \in DOMAIN wrote[q] : wrote[q][k] < nextId'
    <3>1. /\ \A d \in myTasks'[q] : d \in myTasks[q] \/ d = nextId
          /\ myTasks[q] \subseteq myTasks'[q] /\ myTasks[q] \subseteq Nat
      BY <2>1 DEF TypeInv
    <3>2. retained'[q] \subseteq myTasks'[q]
      BY <2>1, <3>1 DEF ClaimInv
    <3>3. \A k \in DOMAIN wrote[q] : wrote[q][k] \in Nat /\ wrote[q][k] < nextId
      <4>1. wrote[q] \in Seq(Nat)
        BY DEF MoreTypes
      <4>2. \A k \in DOMAIN wrote[q] : wrote[q][k] \in Nat
        BY <4>1, ElementOfSeq, LenProperties
      <4> QED
        BY <4>2 DEF ClaimInv
    <3>4. \A k \in DOMAIN wrote[q] : wrote[q][k] # nextId /\ wrote[q][k] < nextId + 1
      BY <2>1, <3>3
    <3>5. Unwritten(q, nextId)
      BY <3>4 DEF Unwritten
    <3>6. \A d \in myTasks[q] : 0 < d /\ d < nextId /\ Unwritten(q, d)
      BY DEF ClaimInv
    <3>7. \A d \in Nat : d < nextId \/ d = nextId => d < nextId + 1
      BY <2>1
    <3>8. \A d \in myTasks'[q] : 0 < d /\ d < nextId' /\ Unwritten(q, d)
      BY <2>1, <3>1, <3>5, <3>6, <3>7
    <3> QED
      BY <2>1, <3>2, <3>4, <3>8
  <2> QED
    BY <1>0, <2>1, <2>2, <2>3 DEF ClaimInv
<1>4. ASSUME NEW r \in Rank, SolveWave(r) PROVE ClaimInv'
  <2>1. /\ UNCHANGED <<nextId, wrote, myTasks>> /\ r \in AllRanks
        /\ \A q \in AllRanks : retained'[q] \subseteq myTasks[q]
    BY <1>0, <1>4 DEF SolveWave, TypeInv, ClaimInv
  <2>2. \A q, d : Unwritten(q, d)' <=> Unwritten(q, d)
    BY <2>1 DEF Unwritten
  <2> QED
    BY <1>0, <2>1, <2>2 DEF ClaimInv
<1>5. ASSUME NEW r \in Rank,
             \/ Create(r) \/ LoopDone(r) \/ EnsureFile(r) \/ Flush(r) \/ Close(r)
             \/ WriteHeader(r) \/ WriteAt(r) \/ CloseFile(r)
      PROVE  ClaimInv'
  BY <1>5, ClaimSame
     DEF Create, LoopDone, EnsureFile, Flush, Close, WriteHeader, WriteAt,
         CloseFile, volatile
<1>6. CASE ConcatPart \/ SkipPart \/ Merged
  BY <1>6, ClaimSame DEF ConcatPart, SkipPart, Merged, volatile
<1>7. CASE Collective
  BY <1>7, ClaimSame
     DEF Collective, SyncCreated, SetSize, SyncHeader, SyncClosed, volatile
<1>8. CASE Rerun
  <2>1. \A q \in AllRanks : myTasks'[q] = {} /\ retained'[q] = {} /\ wrote'[q] = <<>>
    BY <1>8 DEF Rerun, NoCells, NoCases
  <2> QED
    BY <1>0, <2>1 DEF ClaimInv
<1>9. CASE UNCHANGED vars
  BY <1>9, ClaimSame DEF vars, volatile
<1>10. ASSUME NEW r \in Rank, Step(r) PROVE ClaimInv'
  BY <1>10, <1>1, <1>2, <1>3, <1>4, <1>5, <1>6 DEF Step
<1> QED
  BY <1>7, <1>8, <1>9, <1>10 DEF Next

(* Every step keeps what a rank has before and after the loop. *)
LEMMA IdleStep ==
  ASSUME TypeInv, WholeInv, MoreTypes, RowInv, PhaseInv, IdleInv, [Next]_vars
  PROVE  IdleInv'
<1>0. 0 \in Rank /\ Rank \subseteq AllRanks
  BY RanksAre
<1>1. ASSUME NEW r \in Rank, Create(r) PROVE IdleInv'
  BY <1>1, IdleGoto DEF Create, volatile
<1>2. ASSUME NEW r \in Rank, Base(r) PROVE IdleInv'
  <2>1. /\ UNCHANGED <<mode, size>> /\ pc[r] = "base"
        /\ \A q \in Rank : pc'[q] = IF q = r THEN "loop" ELSE pc[q]
    BY <1>0, <1>2 DEF Base, Goto, TypeInv
  <2>3. /\ \A q \in Rank \ {r} :
              wrote'[q] = wrote[q] /\ pending'[q] = pending[q] /\ memory'[q] = memory[q]
        /\ mode = "buffered" => pending'[r] = pending[r]
    <3>1. CASE r = 0
      <4>1. CaptureFlatRows(0, 0) /\ 0 \in AllRanks
        BY <1>0, <1>2, <3>1 DEF Base
      <4> QED
        BY <1>0, <3>1, <4>1, Captured
    <3>2. CASE r # 0
      BY <1>2, <3>2 DEF Base
    <3> QED
      BY <3>1, <3>2
  <2>4. Rank' = Rank
    BY <2>1 DEF Rank
  <2> QED
    BY <2>1, <2>3, <2>4 DEF IdleInv
<1>3. ASSUME NEW r \in Rank, NEW c \in Upcoming(r), RunCase(r, c)
      PROVE  IdleInv'
  <2>0. c \in Nat /\ r \in AllRanks
    BY <1>3, UpcomingIs
  <2>1. /\ UNCHANGED <<mode, size>> /\ pc[r] = "emit"
        /\ \A q \in Rank \ {r} : pc'[q] = pc[q]
        /\ pc'[r] \in {"loop", "emit"}
    BY <1>0, <1>3 DEF RunCase, Goto, TypeInv
  <2>2. /\ \A q \in Rank \ {r} :
              wrote'[q] = wrote[q] /\ pending'[q] = pending[q] /\ memory'[q] = memory[q]
        /\ mode = "buffered" => pending'[r] = pending[r]
    <3>1. CaptureFlatRows(r, c)
      BY <1>3 DEF RunCase
    <3> QED
      BY <1>0, <2>0, <3>1, Captured
  <2>3. Rank' = Rank
    BY <2>1 DEF Rank
  <2> QED
    BY <2>1, <2>2, <2>3 DEF IdleInv
<1>21. ASSUME NEW r \in Rank, ClaimTask(r) PROVE IdleInv'
  BY <1>21, IdleSame DEF ClaimTask
<1>22. ASSUME NEW r \in Rank, SolveWave(r) PROVE IdleInv'
  BY <1>22, IdleGoto DEF SolveWave
<1>4. ASSUME NEW r \in Rank, LoopDone(r) PROVE IdleInv'
  <2> DEFINE l == IF mode = "buffered" THEN "gather" ELSE "close"
  <2>1. l \notin {"create", "created", "base", "closed", "merge", "done"}
    OBVIOUS
  <2>2. Goto(r, l) /\ UNCHANGED <<mode, size, pending, memory, wrote>>
    BY <1>4 DEF LoopDone, volatile
  <2> HIDE DEF l
  <2> QED
    BY <2>1, <2>2, IdleGoto
<1>5. ASSUME NEW r \in Rank, EnsureFile(r) PROVE IdleInv'
  BY <1>5, IdleSame DEF EnsureFile
<1>6. ASSUME NEW r \in Rank, Flush(r) PROVE IdleInv'
  <2>1. \A q \in Rank \ {r} : pending'[q] = pending[q]
    BY <1>0, <1>6, Flushed
  <2>2. /\ UNCHANGED <<mode, size, pc, memory, wrote>>
        /\ pc[r] \in {"loop", "emit", "close"} /\ pending[r] # <<>>
    BY <1>6 DEF Flush
  <2>3. mode # "buffered"
    BY <2>2 DEF IdleInv
  <2>4. Rank' = Rank
    BY <2>2 DEF Rank
  <2> QED
    BY <2>1, <2>2, <2>3, <2>4 DEF IdleInv
<1>7. ASSUME NEW r \in Rank, Close(r) PROVE IdleInv'
  BY <1>7, IdleGoto DEF Close, Drained
<1>8. ASSUME NEW r \in Rank, WriteHeader(r) PROVE IdleInv'
  BY <1>8, IdleGoto DEF WriteHeader, volatile
<1>9. ASSUME NEW r \in Rank, WriteAt(r) PROVE IdleInv'
  BY <1>9, IdleSame DEF WriteAt
<1>10. ASSUME NEW r \in Rank, CloseFile(r) PROVE IdleInv'
  <2>1. mode = "buffered"
    BY <1>10, PhaseMode DEF CloseFile
  <2>2. pending[r] = <<>>
    BY <2>1 DEF IdleInv
  <2> QED
    BY <1>10, <2>2, IdleGoto DEF CloseFile, volatile
<1>11. CASE ConcatPart
  BY <1>11, IdleSame DEF ConcatPart
<1>12. CASE SkipPart
  BY <1>12, IdleSame DEF SkipPart
<1>13. CASE Merged
  <2>1. pending[0] = <<>>
    BY <1>0, <1>13 DEF Merged, IdleInv
  <2> QED
    BY <1>0, <1>13, <2>1, IdleGoto DEF Merged, volatile
<1>14. CASE SyncCreated
  <2>1. /\ UNCHANGED <<mode, size, pending, memory, wrote>>
        /\ \A q \in Rank : pc[q] = "created" /\ pc'[q] = "base"
    BY <1>0, <1>14 DEF SyncCreated, AllAt, AllGoto, volatile
  <2>2. Rank' = Rank
    BY <2>1 DEF Rank
  <2> QED
    BY <2>1, <2>2 DEF IdleInv
<1>15. CASE SetSize
  <2>1. /\ UNCHANGED <<mode, size, pending, memory, wrote>>
        /\ \A q \in Rank : pc'[q] = "header"
    BY <1>0, <1>15 DEF SetSize, AllGoto, volatile
  <2>2. Rank' = Rank
    BY <2>1 DEF Rank
  <2> QED
    BY <2>1, <2>2 DEF IdleInv
<1>16. CASE SyncHeader
  <2>1. /\ UNCHANGED <<mode, size, pending, memory, wrote>>
        /\ \A q \in Rank : pc'[q] = "write"
    BY <1>0, <1>16 DEF SyncHeader, AllGoto, volatile
  <2>2. Rank' = Rank
    BY <2>1 DEF Rank
  <2> QED
    BY <2>1, <2>2 DEF IdleInv
<1>17. CASE SyncClosed
  <2>1. /\ UNCHANGED <<mode, size, pending, memory, wrote>>
        /\ \A q \in Rank : pc[q] = "closed" /\ pc'[q] \in {"merge", "done"}
    BY <1>0, <1>17 DEF SyncClosed, AllAt, volatile
  <2>2. Rank' = Rank
    BY <2>1 DEF Rank
  <2> QED
    BY <2>1, <2>2 DEF IdleInv
<1>18. CASE Rerun
  <2>1. Rank' \subseteq AllRanks
    BY <1>18, NextRanks DEF Rerun
  <2>2. \A q \in AllRanks : pending'[q] = <<>> /\ memory'[q] = <<>> /\ wrote'[q] = <<>>
    BY <1>18 DEF Rerun, NoCells, NoCases
  <2> QED
    BY <2>1, <2>2 DEF IdleInv
<1>19. CASE UNCHANGED vars
  BY <1>19, IdleSame DEF vars, volatile
<1>20. ASSUME NEW r \in Rank, Step(r) PROVE IdleInv'
  BY <1>20, <1>1, <1>2, <1>3, <1>4, <1>5, <1>6, <1>7, <1>8, <1>9, <1>10,
     <1>11, <1>12, <1>13, <1>21, <1>22 DEF Step
<1> QED
  BY <1>14, <1>15, <1>16, <1>17, <1>18, <1>19, <1>20 DEF Next, Collective

-----------------------------------------------------------------------------
(* The pieces of s go from 1 to Pieces over and over. *)
Aligned(s) ==
  /\ \A i \in DOMAIN s : i <= Pieces => s[i].piece = i
  /\ \A i \in DOMAIN s : i + Pieces <= Len(s) => s[i + Pieces].piece = s[i].piece
  /\ Len(s) > 0 => \A j \in 1 .. Pieces : s[Len(s) - Pieces + j].piece = j

(* On a file system that appends blocks in one piece the blocks that wait  *)
(* are whole.                                                              *)
AlignInv == whole => \A r \in Rank : Aligned(pending[r]) /\ Unbroken(run, pending[r])

(* A shared file and what waits for it have together the blocks of every   *)
(* rank.                                                                   *)
SharedInv ==
  mode = "shared" /\ pc[0] # "create" =>
    /\ flat # <<>> /\ flat[1] = Header
    /\ \A i \in DOMAIN flat : flat[i].run = run
    /\ \A r \in Rank : Conveys(run, flat \o pending[r], r, wrote[r])
    /\ whole => Unbroken(run, flat)

-----------------------------------------------------------------------------
(* Another block goes to the end, and the first one away. *)
LEMMA AlignedAppend ==
  ASSUME NEW S, NEW s \in Seq(S), NEW b \in Seq(S), Aligned(s), Blocks(Len(s)),
         Len(b) = Pieces, \A p \in 1 .. Pieces : b[p].piece = p
  PROVE  Aligned(s \o b)
<1> DEFINE v == s \o b
<1>0. Pieces \in Nat \ {0}
  BY FlatAssumption
<1>1. /\ Len(s) \in Nat /\ Len(v) = Len(s) + Pieces
      /\ DOMAIN s = 1 .. Len(s) /\ DOMAIN v = 1 .. (Len(s) + Pieces)
      /\ \A i \in 1 .. Len(s) : v[i] = s[i]
      /\ \A i \in 1 .. Pieces : v[Len(s) + i] = b[i]
      /\ \A i \in 1 .. (Len(s) + Pieces) :
           ~(i <= Len(s)) => i - Len(s) \in 1 .. Pieces /\ v[i] = b[i - Len(s)]
  <2>1. \A x, y \in Seq(S) :
          /\ Len(x) \in Nat /\ Len(x \o y) = Len(x) + Len(y)
          /\ DOMAIN x = 1 .. Len(x) /\ DOMAIN (x \o y) = 1 .. (Len(x) + Len(y))
          /\ \A i \in 1 .. Len(x) : (x \o y)[i] = x[i]
          /\ \A i \in 1 .. Len(y) : (x \o y)[Len(x) + i] = y[i]
          /\ \A i \in 1 .. (Len(x) + Len(y)) :
               ~(i <= Len(x)) => i - Len(x) \in 1 .. Len(y) /\ (x \o y)[i] = y[i - Len(x)]
    BY Concat
  <2> QED
    BY <2>1
<1> HIDE DEF v
<1>2. Len(s) = 0 \/ Len(s) >= Pieces
  <2>1. \A n \in Nat : Blocks(n) => n = 0 \/ n >= Pieces
    <3> TAKE n \in Nat
    <3>1. Blocks(n) => (n > 0 => n >= Pieces)
      BY BlocksLaw
    <3> QED
      BY <3>1
  <2>2. Len(s) \in Nat
    BY <1>1
  <2> QED
    BY <2>1, <2>2
<1>3. \A j \in 1 .. Pieces : v[Len(s) + j].piece = j
  BY <1>1
<1>4. ASSUME NEW i \in DOMAIN v, i <= Pieces PROVE v[i].piece = i
  <2>1. CASE i <= Len(s)
    <3>1. i \in DOMAIN s
      BY <1>1, <2>1
    <3> QED
      BY <1>1, <1>4, <3>1 DEF Aligned
  <2>2. CASE ~(i <= Len(s))
    <3>1. Len(s) = 0 /\ i \in 1 .. Pieces /\ Len(s) + i = i
      BY <1>0, <1>1, <1>2, <1>4, <2>2
    <3> QED
      BY <1>3, <3>1
  <2> QED
    BY <2>1, <2>2
<1>5. ASSUME NEW i \in DOMAIN v, i + Pieces <= Len(v) PROVE v[i + Pieces].piece = v[i].piece
  <2>0. i \in 1 .. Len(s) /\ v[i] = s[i]
    BY <1>0, <1>1, <1>5
  <2>1. CASE i + Pieces <= Len(s)
    <3>1. i + Pieces \in 1 .. Len(s)
      BY <1>0, <1>1, <2>0, <2>1
    <3> QED
      BY <1>1, <2>0, <2>1, <3>1 DEF Aligned
  <2>2. CASE ~(i + Pieces <= Len(s))
    <3> DEFINE j == i + Pieces - Len(s)
    <3>1. j \in 1 .. Pieces /\ Len(s) + j = i + Pieces /\ Len(s) - Pieces + j = i /\ Len(s) > 0
      BY <1>0, <1>1, <2>0, <2>2
    <3> HIDE DEF j
    <3>2. s[i].piece = j
      BY <3>1 DEF Aligned
    <3>3. v[i + Pieces].piece = j
      BY <1>3, <3>1
    <3> QED
      BY <2>0, <3>2, <3>3
  <2> QED
    BY <2>1, <2>2
<1>6. \A j \in 1 .. Pieces : Len(v) - Pieces + j = Len(s) + j
  BY <1>0, <1>1
<1>7. \A j \in 1 .. Pieces : v[Len(v) - Pieces + j].piece = j
  BY <1>3, <1>6
<1>8. Aligned(v)
  BY <1>4, <1>5, <1>7 DEF Aligned
<1> QED
  BY <1>8 DEF v

(* What follows a first block is aligned, and the block ends there. *)
LEMMA AlignedSuffix ==
  ASSUME NEW S, NEW s \in Seq(S), NEW t \in Seq(S), Aligned(s \o t), Blocks(Len(t)),
         Len(s) = Pieces
  PROVE  Aligned(t) /\ s[Pieces].piece = Pieces
<1> DEFINE v == s \o t
<1>0. Pieces \in Nat \ {0} /\ Aligned(v)
  BY FlatAssumption
<1>1. /\ Len(t) \in Nat /\ Len(v) = Pieces + Len(t)
      /\ DOMAIN t = 1 .. Len(t) /\ DOMAIN v = 1 .. (Pieces + Len(t))
      /\ \A i \in 1 .. Pieces : v[i] = s[i]
      /\ \A i \in 1 .. Len(t) : v[Pieces + i] = t[i]
  <2>1. \A x, y \in Seq(S) :
          /\ Len(y) \in Nat /\ Len(x \o y) = Len(x) + Len(y)
          /\ DOMAIN y = 1 .. Len(y) /\ DOMAIN (x \o y) = 1 .. (Len(x) + Len(y))
          /\ \A i \in 1 .. Len(x) : (x \o y)[i] = x[i]
          /\ \A i \in 1 .. Len(y) : (x \o y)[Len(x) + i] = y[i]
    BY Concat
  <2> QED
    BY <2>1
<1> HIDE DEF v
<1>2. Len(t) = 0 \/ Len(t) >= Pieces
  <2>1. \A n \in Nat : Blocks(n) => n = 0 \/ n >= Pieces
    <3> TAKE n \in Nat
    <3>1. Blocks(n) => (n > 0 => n >= Pieces)
      BY BlocksLaw
    <3> QED
      BY <3>1
  <2>2. Len(t) \in Nat
    BY <1>1
  <2> QED
    BY <2>1, <2>2
<1>3. s[Pieces].piece = Pieces
  <2>1. Pieces \in DOMAIN v /\ Pieces \in 1 .. Pieces /\ Pieces <= Pieces
    BY <1>0, <1>1
  <2> QED
    BY <1>0, <1>1, <2>1 DEF Aligned
<1>4. \A i \in 1 .. Len(t) : t[i].piece = v[i].piece
  <2>1. \A i \in 1 .. Len(t) : i \in DOMAIN v /\ i + Pieces <= Len(v) /\ i + Pieces = Pieces + i
    BY <1>0, <1>1
  <2>2. \A i \in 1 .. Len(t) : v[i + Pieces].piece = v[i].piece
    BY <1>0, <2>1 DEF Aligned
  <2> QED
    BY <1>1, <2>1, <2>2
<1>5. \A i \in DOMAIN t : i <= Pieces => t[i].piece = i
  <2>1. \A i \in DOMAIN t : i \in DOMAIN v /\ i \in 1 .. Len(t)
    BY <1>0, <1>1
  <2> QED
    BY <1>0, <1>4, <2>1 DEF Aligned
<1>6. ASSUME NEW i \in DOMAIN t, i + Pieces <= Len(t) PROVE t[i + Pieces].piece = t[i].piece
  <2>1. /\ i + Pieces \in 1 .. Len(t) /\ i \in 1 .. Len(t) /\ i \in DOMAIN v
        /\ i + Pieces <= Len(v)
    BY <1>0, <1>1, <1>6
  <2>2. v[i + Pieces].piece = v[i].piece
    BY <1>0, <2>1 DEF Aligned
  <2> QED
    BY <1>4, <2>1, <2>2
<1>7. ASSUME Len(t) > 0, NEW j \in 1 .. Pieces PROVE t[Len(t) - Pieces + j].piece = j
  <2>1. Len(v) > 0
    BY <1>0, <1>1
  <2>2. v[Len(v) - Pieces + j].piece = j
    BY <1>0, <2>1 DEF Aligned
  <2>3. /\ Len(t) - Pieces + j \in 1 .. Len(t)
        /\ Len(v) - Pieces + j = Pieces + (Len(t) - Pieces + j)
    BY <1>0, <1>1, <1>2, <1>7
  <2> QED
    BY <1>1, <2>2, <2>3
<1>8. Aligned(t)
  BY <1>5, <1>6, <1>7 DEF Aligned
<1> QED
  BY <1>3, <1>8

(* Nothing is aligned and unbroken. *)
LEMMA NothingAligned == Aligned(<<>>) /\ \A e : Unbroken(e, <<>>)
<1>1. DOMAIN <<>> = {} /\ Len(<<>>) = 0
  OBVIOUS
<1> QED
  BY <1>1 DEF Aligned, Unbroken

(* What waits is of this execution. *)
LEMMA PendingAre ==
  ASSUME TypeInv, RowInv, NEW r \in Rank
  PROVE  /\ r \in AllRanks /\ r \in Nat /\ run \in Nat \ {0} /\ nextId \in Nat /\ 0 \in Nat
         /\ pending[r] \in Seq(Rows({run}, r)) /\ pending[r] \in Seq(Cells({run}))
         /\ pending[r] \in Seq(Cells(0 .. run))
<1>1. r \in AllRanks
  BY RanksAre
<1>2. r \in Nat /\ run \in Nat \ {0} /\ nextId \in Nat /\ 0 \in Nat
  BY <1>1 DEF TypeInv, AllRanks
<1>3. pending[r] \in Seq(Rows({run}, r))
  BY <1>1 DEF RowInv
<1> QED
  BY <1>1, <1>2, <1>3, CellsAre, SeqMonotonic

(* Steps that leave alone what waits. *)
LEMMA AlignSame ==
  ASSUME AlignInv, UNCHANGED <<run, size, whole, pending>>
  PROVE  AlignInv'
BY DEF AlignInv, Rank, Aligned

(* A block more waits. *)
LEMMA AlignCapture ==
  ASSUME TypeInv, WholeInv, MoreTypes, RowInv, AlignInv, NEW r \in Rank, NEW c \in Nat,
         CaptureFlatRows(r, c), UNCHANGED <<run, size, whole>>
  PROVE  AlignInv'
<1>1. r \in AllRanks /\ run \in Nat /\ r \in Nat /\ pending[r] \in Seq(Cells({run}))
  BY PendingAre
<1>2. ASSUME whole
      PROVE  Aligned(pending[r] \o Block(run, r, c)) /\ Unbroken(run, pending[r] \o Block(run, r, c))
  <2>1. Aligned(pending[r]) /\ Unbroken(run, pending[r]) /\ Blocks(Len(pending[r]))
    BY <1>1, <1>2 DEF AlignInv, WholeInv
  <2>2. /\ Block(run, r, c) \in Seq(Cells({run})) /\ Len(Block(run, r, c)) = Pieces
        /\ \A p \in 1 .. Pieces : Block(run, r, c)[p].piece = p
    <3>1. /\ Block(run, r, c) \in Seq(Cells({run})) /\ Len(Block(run, r, c)) = Pieces
          /\ \A p \in 1 .. Pieces : Block(run, r, c)[p] = CellOf(run, r, c, p)
      BY <1>1, BlockIs
    <3> QED
      BY <3>1 DEF CellOf
  <2>3. Unbroken(run, Block(run, r, c))
    BY <1>1, UnbrokenBlock
  <2> QED
    BY <1>1, <2>1, <2>2, <2>3, AlignedAppend, UnbrokenConcat
<1>3. ASSUME whole, NEW q \in Rank PROVE Aligned(pending'[q]) /\ Unbroken(run, pending'[q])
  <2>1. q \in AllRanks
    BY RanksAre
  <2>2. pending'[q] = pending[q] \/ (q = r /\ pending'[q] = pending[q] \o Block(run, r, c))
    BY <1>1, <2>1, Captured
  <2> QED
    BY <1>2, <1>3, <2>2 DEF AlignInv
<1> QED
  BY <1>3 DEF AlignInv, Rank, Aligned

(* The first block goes. *)
LEMMA AlignFlush ==
  ASSUME TypeInv, WholeInv, MoreTypes, RowInv, AlignInv, NEW r \in Rank, Flush(r)
  PROVE  AlignInv'
<1>1. r \in AllRanks /\ UNCHANGED <<run, size, whole>>
  BY PendingAre DEF Flush
<1>2. PICK n \in Nat \ {0}, cells \in Seq(Rows({run}, r)) :
           /\ n = (IF whole THEN Pieces ELSE 1) /\ n <= Len(pending[r])
           /\ Len(cells) = n
           /\ pending'[r] \in Seq(Rows({run}, r))
           /\ pending[r] = cells \o pending'[r]
           /\ \A q \in AllRanks \ {r} : pending'[q] = pending[q]
  BY Flushed
<1>3. ASSUME whole PROVE Aligned(pending'[r]) /\ Unbroken(run, pending'[r])
  <2>1. Aligned(pending[r]) /\ Unbroken(run, pending[r]) /\ Len(cells) = Pieces
    BY <1>2, <1>3 DEF AlignInv
  <2>2. Blocks(Len(pending'[r]))
    BY <1>1, <1>3, FlushType
  <2> QED
    BY <1>2, <2>1, <2>2, AlignedSuffix, UnbrokenSuffix
<1>4. ASSUME whole, NEW q \in Rank PROVE Aligned(pending'[q]) /\ Unbroken(run, pending'[q])
  <2>1. q \in AllRanks
    BY RanksAre
  <2> QED
    BY <1>2, <1>3, <1>4, <2>1 DEF AlignInv
<1> QED
  BY <1>1, <1>4 DEF AlignInv, Rank, Aligned

(* Every step keeps the blocks that wait whole. *)
LEMMA AlignStep ==
  ASSUME TypeInv, WholeInv, MoreTypes, RowInv, AlignInv, [Next]_vars
  PROVE  AlignInv'
<1>1. ASSUME NEW r \in Rank, Create(r) PROVE AlignInv'
  BY <1>1, AlignSame DEF Create, volatile
<1>2. ASSUME NEW r \in Rank, Base(r) PROVE AlignInv'
  <2>1. CASE r = 0
    BY <1>2, <2>1, AlignCapture DEF Base
  <2>2. CASE r # 0
    BY <1>2, <2>2, AlignSame DEF Base
  <2> QED
    BY <2>1, <2>2
<1>3. ASSUME NEW r \in Rank, NEW c \in Upcoming(r), RunCase(r, c)
      PROVE  AlignInv'
  BY <1>3, UpcomingIs, AlignCapture DEF RunCase
<1>21. ASSUME NEW r \in Rank, ClaimTask(r) PROVE AlignInv'
  BY <1>21, AlignSame DEF ClaimTask
<1>22. ASSUME NEW r \in Rank, SolveWave(r) PROVE AlignInv'
  BY <1>22, AlignSame DEF SolveWave
<1>4. ASSUME NEW r \in Rank, LoopDone(r) PROVE AlignInv'
  BY <1>4, AlignSame DEF LoopDone, volatile
<1>5. ASSUME NEW r \in Rank, EnsureFile(r) PROVE AlignInv'
  BY <1>5, AlignSame DEF EnsureFile
<1>6. ASSUME NEW r \in Rank, Flush(r) PROVE AlignInv'
  BY <1>6, AlignFlush
<1>7. ASSUME NEW r \in Rank, Close(r) PROVE AlignInv'
  BY <1>7, AlignSame DEF Close
<1>8. ASSUME NEW r \in Rank, WriteHeader(r) PROVE AlignInv'
  BY <1>8, AlignSame DEF WriteHeader, volatile
<1>9. ASSUME NEW r \in Rank, WriteAt(r) PROVE AlignInv'
  BY <1>9, AlignSame DEF WriteAt
<1>10. ASSUME NEW r \in Rank, CloseFile(r) PROVE AlignInv'
  BY <1>10, AlignSame DEF CloseFile, volatile
<1>11. CASE ConcatPart
  BY <1>11, AlignSame DEF ConcatPart
<1>12. CASE SkipPart
  BY <1>12, AlignSame DEF SkipPart
<1>13. CASE Merged
  BY <1>13, AlignSame DEF Merged, volatile
<1>14. CASE Collective
  BY <1>14, AlignSame
     DEF Collective, SyncCreated, SetSize, SyncHeader, SyncClosed, volatile
<1>15. CASE Rerun
  <2>1. Rank' \subseteq AllRanks
    BY <1>15, NextRanks DEF Rerun
  <2>2. \A q \in AllRanks : pending'[q] = <<>>
    BY <1>15 DEF Rerun, NoCells
  <2> QED
    BY <2>1, <2>2, NothingAligned DEF AlignInv, Aligned
<1>16. CASE UNCHANGED vars
  BY <1>16, AlignSame DEF vars, volatile
<1>17. ASSUME NEW r \in Rank, Step(r) PROVE AlignInv'
  BY <1>17, <1>1, <1>2, <1>3, <1>4, <1>5, <1>6, <1>7, <1>8, <1>9, <1>10,
     <1>11, <1>12, <1>13, <1>21, <1>22 DEF Step
<1> QED
  BY <1>14, <1>15, <1>16, <1>17 DEF Next

-----------------------------------------------------------------------------
(* What a shared file has is carried over. *)
LEMMA SharedSame ==
  ASSUME SharedInv, UNCHANGED <<run, mode, size, whole, flat, pending, wrote>>,
         pc[0] = "create" => pc'[0] = "create"
  PROVE  SharedInv'
BY DEF SharedInv, Rank, Header

(* Other modes have none. *)
LEMMA SharedOther ==
  ASSUME mode # "shared", UNCHANGED mode
  PROVE  SharedInv'
BY DEF SharedInv

(* A rank's next block waits behind the others. *)
LEMMA SharedCapture ==
  ASSUME TypeInv, MoreTypes, RowInv, SharedInv, NEW r \in Rank, NEW c \in Nat,
         Unwritten(r, c), CaptureFlatRows(r, c),
         UNCHANGED <<run, mode, size, whole, flat>>,
         pc[0] = "create" => pc'[0] = "create"
  PROVE  SharedInv'
<1> SUFFICES ASSUME mode = "shared", pc[0] # "create" PROVE SharedInv'
  BY SharedOther DEF SharedInv
<1>1. /\ r \in AllRanks /\ run \in Nat \ {0} /\ r \in Nat
      /\ pending[r] \in Seq(Cells(0 .. run)) /\ flat \in Seq(Cells(0 .. run))
      /\ wrote[r] \in Seq(Nat)
  BY PendingAre DEF MoreTypes
<1>2. Block(run, r, c) \in Seq(Cells(0 .. run))
  <2>1. Block(run, r, c) \in Seq(Cells({run}))
    BY <1>1, BlockIs
  <2> QED
    BY <2>1, CellsAre, SeqMonotonic
<1>3. Conveys(run, flat \o (pending[r] \o Block(run, r, c)), r, Append(wrote[r], c))
  <2>1. Conveys(run, flat \o pending[r], r, wrote[r])
    BY DEF SharedInv
  <2>2. flat \o pending[r] \in Seq(Cells(0 .. run))
    BY <1>1, ConcatProperties
  <2>3. run \in 0 .. run /\ 0 .. run \in SUBSET Nat
    BY <1>1
  <2>4. Conveys(run, (flat \o pending[r]) \o Block(run, r, c), r, Append(wrote[r], c))
    BY <1>1, <2>1, <2>2, <2>3, Appended DEF Unwritten
  <2>5. (flat \o pending[r]) \o Block(run, r, c) = flat \o (pending[r] \o Block(run, r, c))
    <3> DEFINE S == Cells(0 .. run)
    <3>1. \A x, y, z \in Seq(S) : (x \o y) \o z = x \o (y \o z)
      <4> HIDE DEF S
      <4> QED
        BY ConcatAssociative
    <3> QED
      BY <1>1, <1>2, <3>1
  <2> QED
    BY <2>4, <2>5
<1>4. ASSUME NEW q \in Rank PROVE Conveys(run, flat \o pending'[q], q, wrote'[q])
  <2>1. q \in AllRanks
    BY RanksAre
  <2>2. \/ pending'[q] = pending[q] /\ wrote'[q] = wrote[q]
        \/ q = r /\ pending'[q] = pending[q] \o Block(run, r, c) /\ wrote'[q] = Append(wrote[q], c)
    BY <1>1, <2>1, Captured
  <2> QED
    BY <1>3, <2>2 DEF SharedInv
<1>5. Rank' = Rank /\ Header' = Header
  BY DEF Rank, Header
<1> QED
  BY <1>4, <1>5 DEF SharedInv

(* What leaves the writer is at the end of the file. *)
LEMMA SharedFlush ==
  ASSUME TypeInv, WholeInv, MoreTypes, RowInv, AlignInv, SharedInv, NEW r \in Rank, Flush(r)
  PROVE  SharedInv'
<1>0. UNCHANGED <<run, mode, size, whole, pc, wrote>>
  BY DEF Flush
<1> SUFFICES ASSUME mode = "shared", pc[0] # "create" PROVE SharedInv'
  BY <1>0, SharedOther DEF SharedInv
<1> DEFINE S == Cells(0 .. run)
<1>1. PICK n \in Nat \ {0}, cells \in Seq(Rows({run}, r)) :
           /\ n = (IF whole THEN Pieces ELSE 1) /\ n <= Len(pending[r])
           /\ Len(cells) = n
           /\ pending'[r] \in Seq(Rows({run}, r))
           /\ pending[r] = cells \o pending'[r]
           /\ \A q \in AllRanks \ {r} : pending'[q] = pending[q]
           /\ flat' = flat \o cells
  BY Flushed
<1>2. r \in AllRanks /\ run \in Nat \ {0} /\ flat \in Seq(S)
  BY PendingAre DEF MoreTypes
<1>3. Rows({run}, r) \subseteq S
  BY <1>2, CellsAre
<1>4. cells \in Seq(S) /\ pending'[r] \in Seq(S)
  BY <1>1, <1>3, SeqMonotonic
<1> HIDE DEF S
<1>5. /\ Len(flat) \in Nat /\ DOMAIN flat = 1 .. Len(flat) /\ flat' \in Seq(S)
      /\ DOMAIN cells = 1 .. Len(cells)
      /\ DOMAIN flat' = 1 .. (Len(flat) + Len(cells))
      /\ \A i \in 1 .. Len(flat) : flat'[i] = flat[i]
      /\ \A i \in 1 .. (Len(flat) + Len(cells)) :
           ~(i <= Len(flat)) => i - Len(flat) \in 1 .. Len(cells) /\ flat'[i] = cells[i - Len(flat)]
  <2>1. \A x, y \in Seq(S) :
          /\ Len(x) \in Nat /\ DOMAIN x = 1 .. Len(x) /\ x \o y \in Seq(S)
          /\ DOMAIN y = 1 .. Len(y) /\ DOMAIN (x \o y) = 1 .. (Len(x) + Len(y))
          /\ \A i \in 1 .. Len(x) : (x \o y)[i] = x[i]
          /\ \A i \in 1 .. (Len(x) + Len(y)) :
               ~(i <= Len(x)) => i - Len(x) \in 1 .. Len(y) /\ (x \o y)[i] = y[i - Len(x)]
    BY Concat
  <2>2. flat' = flat \o cells
    BY <1>1
  <2> QED
    BY <1>2, <1>4, <2>1, <2>2
<1>6. \A i \in DOMAIN cells : cells[i].run = run /\ cells[i].rank = r
  <2>1. \A i \in DOMAIN cells : cells[i] \in Rows({run}, r)
    BY <1>1, LenProperties, ElementOfSeq
  <2> QED
    BY <2>1 DEF Rows
<1>7. flat # <<>> /\ flat[1] = Header /\ 1 \in 1 .. Len(flat)
  <2>1. flat # <<>> /\ flat[1] = Header
    BY DEF SharedInv
  <2>2. Len(flat) \in Nat \ {0}
    <3>1. \A u \in Seq(S) : u # <<>> => Len(u) \in Nat \ {0}
      BY EmptySeq
    <3> QED
      BY <1>2, <2>1, <3>1, Zenon
  <2> QED
    BY <2>1, <2>2
<1>8. flat' # <<>> /\ flat'[1] = Header
  <2>1. 1 \in DOMAIN flat' /\ flat'[1] = Header
    BY <1>1, <1>5, <1>7
  <2> QED
    BY <2>1
<1>9. \A i \in DOMAIN flat' : flat'[i].run = run
  <2> TAKE i \in DOMAIN flat'
  <2>1. CASE i <= Len(flat)
    <3>1. i \in DOMAIN flat /\ flat'[i] = flat[i]
      BY <1>5, <2>1
    <3> QED
      BY <3>1 DEF SharedInv
  <2>2. CASE ~(i <= Len(flat))
    <3>1. i - Len(flat) \in DOMAIN cells /\ flat'[i] = cells[i - Len(flat)]
      BY <1>5, <2>2
    <3> QED
      BY <1>6, <3>1
  <2> QED
    BY <2>1, <2>2
<1>10. ASSUME NEW q \in Rank PROVE Conveys(run, flat' \o pending'[q], q, wrote[q])
  <2>0. q \in AllRanks /\ q \in Nat /\ pending[q] \in Seq(S) /\ wrote[q] \in Seq(Nat) /\ run \in Nat
    BY PendingAre DEF MoreTypes, S
  <2>1. Conveys(run, flat \o pending[q], q, wrote[q])
    BY DEF SharedInv
  <2>2. CASE q = r
    <3>1. flat' \o pending'[r] = flat \o pending[r]
      <4>1. (flat \o cells) \o pending'[r] = flat \o (cells \o pending'[r])
        <5>1. \A x, y, z \in Seq(S) : (x \o y) \o z = x \o (y \o z)
          BY ConcatAssociative
        <5> QED
          BY <1>2, <1>4, <5>1
      <4> QED
        BY <1>1, <4>1
    <3> QED
      BY <2>1, <2>2, <3>1
  <2>3. CASE q # r
    <3>1. Own(run, cells, q) = {}
      BY <1>6, <2>3 DEF Own
    <3>2. Conveys(run, (flat \o cells) \o pending[q], q, wrote[q])
      BY <1>2, <1>4, <2>0, <2>1, <3>1, Inserted
    <3> QED
      BY <1>1, <2>0, <2>3, <3>2
  <2> QED
    BY <2>2, <2>3
<1>11. ASSUME whole PROVE Unbroken(run, flat')
  <2>1. Aligned(pending[r]) /\ Unbroken(run, pending[r]) /\ Unbroken(run, flat)
    BY <1>11 DEF AlignInv, SharedInv
  <2>2. Blocks(Len(pending'[r])) /\ Len(cells) = Pieces
    BY <1>1, <1>2, <1>11, FlushType
  <2>3. cells[Pieces].piece = Pieces
    BY <1>1, <2>1, <2>2, AlignedSuffix
  <2>4. cells[Len(cells)].piece \notin 1 .. (Pieces - 1)
    BY FlatAssumption, <2>2, <2>3
  <2>5. Unbroken(run, cells)
    BY <1>1, <2>1, <2>4, UnbrokenPrefix
  <2> QED
    BY <1>1, <1>2, <1>4, <2>1, <2>5, UnbrokenConcat
<1>12. Rank' = Rank /\ Header' = Header
  BY <1>0 DEF Rank, Header
<1> QED
  BY <1>0, <1>8, <1>9, <1>10, <1>11, <1>12 DEF SharedInv

(* The file as rank 0 creates it. *)
LEMMA SharedCreate ==
  ASSUME TypeInv, MoreTypes, RowInv, PhaseInv, IdleInv, Create(0)
  PROVE  SharedInv'
<1>0. UNCHANGED <<run, mode, size, whole, pending, wrote>> /\ flat' = <<Header>> /\ pc[0] = "create"
  BY DEF Create, volatile
<1>1. ASSUME NEW q \in Rank PROVE pending[q] = <<>> /\ wrote[q] = <<>>
  <2>1. PICK P \in Phases(mode) : pc[0] \in P /\ pc[q] \in P
    BY RanksAre DEF PhaseInv
  <2>2. pc[q] \in {"create", "created"}
    BY <1>0, <2>1 DEF Phases
  <2> QED
    BY <2>2 DEF IdleInv
<1>2. <<Header>> \in Seq(Cells(0 .. run)) /\ run \in Nat
  <2>1. <<Header>> \in Seq(Cells(0 .. run))
    BY CellsAre
  <2>2. run \in Nat
    BY DEF TypeInv
  <2> QED
    BY <2>1, <2>2
<1>3. /\ DOMAIN <<Header>> = {1} /\ <<Header>>[1] = Header /\ <<Header>> # <<>>
      /\ Header.run = run /\ Header.case = -1 /\ Header.piece = 0
  BY DEF Header
<1>4. ASSUME NEW q \in Rank PROVE Conveys(run, <<Header>> \o pending[q], q, wrote[q])
  <2>1. q \in Nat /\ <<>> \in Seq(Nat)
    BY PendingAre
  <2>2. Own(run, <<Header>>, q) = {}
    BY <1>3 DEF Own
  <2>3. Conveys(run, <<Header>>, q, <<>>)
    BY <1>2, <2>1, <2>2, ConveysNone
  <2>4. <<Header>> \o <<>> = <<Header>>
    BY <1>2, ConcatEmptySeq
  <2> QED
    BY <1>1, <2>3, <2>4
<1>5. Unbroken(run, <<Header>>)
  BY <1>3 DEF Unbroken
<1>6. Rank' = Rank /\ Header' = Header
  BY <1>0 DEF Rank, Header
<1> QED
  BY <1>0, <1>3, <1>4, <1>5, <1>6 DEF SharedInv

(* Every step keeps what a shared file has. *)
LEMMA SharedStep ==
  ASSUME TypeInv, WholeInv, MoreTypes, RowInv, PhaseInv, IdleInv, ClaimInv, AlignInv, SharedInv, [Next]_vars
  PROVE  SharedInv'
<1>0. 0 \in Rank /\ 0 \in AllRanks /\ Rank \subseteq AllRanks
  BY RanksAre
<1>1. ASSUME NEW r \in Rank, Create(r) PROVE SharedInv'
  <2>1. CASE r = 0
    BY <1>1, <2>1, SharedCreate
  <2>2. CASE r # 0
    <3>1. pc'[0] = pc[0]
      BY <1>0, <1>1, <2>2 DEF Create, Goto, TypeInv
    <3> QED
      BY <1>1, <2>2, <3>1, SharedSame DEF Create, volatile
  <2> QED
    BY <2>1, <2>2
<1>2. ASSUME NEW r \in Rank, Base(r) PROVE SharedInv'
  <2>0. pc[0] = "create" => pc'[0] = "create"
    BY <1>0, <1>2 DEF Base, Goto, TypeInv
  <2>1. CASE r = 0
    <3>1. wrote[0] = <<>> /\ Unwritten(0, 0)
      BY <1>0, <1>2, <2>1 DEF Base, IdleInv, Unwritten
    <3> QED
      BY <1>2, <2>0, <2>1, <3>1, SharedCapture DEF Base
  <2>2. CASE r # 0
    BY <1>2, <2>0, <2>2, SharedSame DEF Base
  <2> QED
    BY <2>1, <2>2
<1>3. ASSUME NEW r \in Rank, NEW c \in Upcoming(r), RunCase(r, c)
      PROVE  SharedInv'
  <2>0. pc[0] = "create" => pc'[0] = "create"
    BY <1>0, <1>3 DEF RunCase, Goto, TypeInv
  <2>1. c \in Nat /\ Unwritten(r, c)
    BY <1>3, CaseIs
  <2> QED
    BY <1>3, <2>0, <2>1, SharedCapture DEF RunCase
<1>21. ASSUME NEW r \in Rank, ClaimTask(r) PROVE SharedInv'
  BY <1>21, SharedSame DEF ClaimTask
<1>22. ASSUME NEW r \in Rank, SolveWave(r) PROVE SharedInv'
  <2>0. pc[0] = "create" => pc'[0] = "create"
    BY <1>0, <1>22 DEF SolveWave, Goto, TypeInv
  <2> QED
    BY <1>22, <2>0, SharedSame DEF SolveWave
<1>4. ASSUME NEW r \in Rank, LoopDone(r) PROVE SharedInv'
  <2>0. pc[0] = "create" => pc'[0] = "create"
    BY <1>0, <1>4 DEF LoopDone, Goto, TypeInv
  <2> QED
    BY <1>4, <2>0, SharedSame DEF LoopDone, volatile
<1>5. ASSUME NEW r \in Rank, EnsureFile(r) PROVE SharedInv'
  BY <1>5, SharedSame DEF EnsureFile
<1>6. ASSUME NEW r \in Rank, Flush(r) PROVE SharedInv'
  BY <1>6, SharedFlush
<1>7. ASSUME NEW r \in Rank, Close(r) PROVE SharedInv'
  <2>0. pc[0] = "create" => pc'[0] = "create"
    BY <1>0, <1>7 DEF Close, Goto, TypeInv
  <2> QED
    BY <1>7, <2>0, SharedSame DEF Close
<1>8. ASSUME NEW r \in Rank, WriteHeader(r) PROVE SharedInv'
  <2>1. mode = "buffered"
    BY <1>8, PhaseMode DEF WriteHeader
  <2> QED
    BY <1>8, <2>1, SharedOther DEF WriteHeader
<1>9. ASSUME NEW r \in Rank, WriteAt(r) PROVE SharedInv'
  <2>1. mode = "buffered"
    BY <1>9, PhaseMode DEF WriteAt
  <2> QED
    BY <1>9, <2>1, SharedOther DEF WriteAt
<1>10. ASSUME NEW r \in Rank, CloseFile(r) PROVE SharedInv'
  <2>1. mode = "buffered"
    BY <1>10, PhaseMode DEF CloseFile
  <2> QED
    BY <1>10, <2>1, SharedOther DEF CloseFile
<1>11. CASE ConcatPart
  <2>1. mode = "parts"
    BY <1>0, <1>11, PhaseMode DEF ConcatPart
  <2> QED
    BY <1>11, <2>1, SharedOther DEF ConcatPart
<1>12. CASE SkipPart
  BY <1>12, SharedSame DEF SkipPart
<1>13. CASE Merged
  <2>1. mode = "parts"
    BY <1>0, <1>13, PhaseMode DEF Merged
  <2> QED
    BY <1>13, <2>1, SharedOther DEF Merged
<1>14. CASE SyncCreated
  <2>1. pc[0] = "created"
    BY <1>0, <1>14 DEF SyncCreated, AllAt
  <2> QED
    BY <1>14, <2>1, SharedSame DEF SyncCreated, volatile
<1>15. CASE SetSize
  <2>1. mode = "buffered"
    BY <1>0, <1>15, PhaseMode DEF SetSize, AllAt
  <2> QED
    BY <1>15, <2>1, SharedOther DEF SetSize
<1>16. CASE SyncHeader
  <2>1. mode = "buffered"
    BY <1>0, <1>16, PhaseMode DEF SyncHeader, AllAt
  <2> QED
    BY <1>16, <2>1, SharedOther DEF SyncHeader
<1>17. CASE SyncClosed
  <2>1. CASE mode = "shared"
    <3>1. pc[0] = "closed" /\ UNCHANGED flat
      BY <1>0, <1>17, <2>1 DEF SyncClosed, AllAt
    <3> QED
      BY <1>17, <3>1, SharedSame DEF SyncClosed, volatile
  <2>2. CASE mode # "shared"
    BY <1>17, <2>2, SharedOther DEF SyncClosed
  <2> QED
    BY <2>1, <2>2
<1>18. CASE Rerun
  <2>1. pc' = FirstStep(mode', size') /\ 0 \in Rank' /\ Rank' \subseteq AllRanks
        /\ \A q \in Rank' : ~(q >= size')
    BY <1>18, NextRanks DEF Rerun
  <2>2. mode' = "shared" => pc'[0] = "create"
    BY <2>1 DEF FirstStep
  <2> QED
    BY <2>2 DEF SharedInv
<1>19. CASE UNCHANGED vars
  BY <1>19, SharedSame DEF vars, volatile
<1>20. ASSUME NEW r \in Rank, Step(r) PROVE SharedInv'
  BY <1>20, <1>1, <1>2, <1>3, <1>4, <1>5, <1>6, <1>7, <1>8, <1>9, <1>10,
     <1>11, <1>12, <1>13, <1>21, <1>22 DEF Step
<1> QED
  BY <1>14, <1>15, <1>16, <1>17, <1>18, <1>19, <1>20 DEF Next, Collective

-----------------------------------------------------------------------------
(* The blocks of a rank that rank 0 has not come to are all with its       *)
(* writer, which then has not opened its part file, or are in the part     *)
(* file and with the writer; one after the other they are unbroken.        *)
Waiting(r) ==
  /\ r \notin opened /\ Stale(r)
  /\ Conveys(run, pending[r], r, wrote[r]) /\ Unbroken(run, pending[r])
Filed(r) ==
  /\ r \in opened \/ pc[r] \in {"closed", "merge", "done"}
  /\ Fresh(r)
  /\ Conveys(run, parts[r] \o pending[r], r, wrote[r])
  /\ Unbroken(run, parts[r] \o pending[r])
StreamInv == mode = "parts" => \A r \in Rank : r >= part => Waiting(r) \/ Filed(r)

(* Rank 0 has put together the header and the blocks of the ranks it has   *)
(* passed; what else there is is of ranks without blocks.                  *)
MergedInv ==
  mode = "parts" /\ pc[0] \in {"merge", "done"} =>
    /\ flat # <<>> /\ flat[1] = Header /\ Unbroken(run, flat)
    /\ \A i \in DOMAIN flat :
         i > 1 => /\ flat[i].rank \in 0 .. (part - 1)
                  /\ flat[i].run = run \/ (flat[i].run # 0 /\ wrote[flat[i].rank] = <<>>)
    /\ \A r \in 0 .. (part - 1) : Conveys(run, flat, r, wrote[r])

-----------------------------------------------------------------------------
(* The two cases, for a rank whose state stays. *)
LEMMA StreamOf ==
  ASSUME NEW r \in Rank, UNCHANGED run, pending'[r] = pending[r], wrote'[r] = wrote[r],
         r \in DOMAIN parts' <=> r \in DOMAIN parts,
         r \in DOMAIN parts => parts'[r] = parts[r],
         r \in opened' => r \in opened,
         r \in opened => r \in opened' \/ pc'[r] = "closed",
         pc[r] \in {"closed", "merge", "done"} => pc'[r] \in {"closed", "merge", "done"},
         Waiting(r) \/ Filed(r)
  PROVE  Waiting(r)' \/ Filed(r)'
<1>1. CASE Waiting(r)
  BY <1>1 DEF Waiting, Stale
<1>2. CASE Filed(r)
  BY <1>2 DEF Filed, Fresh
<1> QED
  BY <1>1, <1>2

(* Steps that leave writers and part files alone. *)
LEMMA StreamSame ==
  ASSUME StreamInv, UNCHANGED <<run, mode, size, opened, pending, part, parts, wrote>>,
         \A r \in Rank : pc[r] \in {"closed", "merge", "done"} =>
                           pc'[r] \in {"closed", "merge", "done"}
  PROVE  StreamInv'
<1> SUFFICES ASSUME mode = "parts", NEW r \in Rank, r >= part PROVE Waiting(r)' \/ Filed(r)'
  BY DEF StreamInv, Rank
<1>1. Waiting(r) \/ Filed(r)
  BY DEF StreamInv
<1> QED
  BY <1>1, StreamOf

(* Other modes have no part files to merge. *)
LEMMA StreamOther ==
  ASSUME mode # "parts", UNCHANGED mode
  PROVE  StreamInv' /\ MergedInv'
BY DEF StreamInv, MergedInv

(* A rank's next block. *)
LEMMA StreamCapture ==
  ASSUME TypeInv, MoreTypes, RowInv, StreamInv, NEW r \in Rank, NEW c \in Nat,
         Unwritten(r, c), CaptureFlatRows(r, c),
         UNCHANGED <<run, mode, size, opened, part, parts>>,
         \A q \in Rank : pc[q] \in {"closed", "merge", "done"} =>
                           pc'[q] \in {"closed", "merge", "done"}
  PROVE  StreamInv'
<1> SUFFICES ASSUME mode = "parts", NEW q \in Rank, q >= part PROVE Waiting(q)' \/ Filed(q)'
  BY DEF StreamInv, Rank
<1> DEFINE b == Block(run, r, c)
<1>1. Waiting(q) \/ Filed(q)
  BY DEF StreamInv
<1>2. /\ r \in AllRanks /\ run \in Nat \ {0} /\ r \in Nat
      /\ pending[r] \in Seq(Cells({run})) /\ wrote[r] \in Seq(Nat) /\ q \in AllRanks
      /\ run \in {run} /\ {run} \in SUBSET Nat
  BY PendingAre DEF MoreTypes
<1>3. b \in Seq(Cells({run})) /\ Unbroken(run, b)
  BY <1>2, BlockIs, UnbrokenBlock
<1>4. \/ pending'[q] = pending[q] /\ wrote'[q] = wrote[q]
      \/ q = r /\ pending'[r] = pending[r] \o b /\ wrote'[r] = Append(wrote[r], c)
  BY <1>2, Captured
<1>5. CASE pending'[q] = pending[q] /\ wrote'[q] = wrote[q]
  BY <1>1, <1>5, StreamOf
<1>6. CASE q = r /\ pending'[r] = pending[r] \o b /\ wrote'[r] = Append(wrote[r], c)
  <2>1. CASE Waiting(r)
    <3>1. Conveys(run, pending[r] \o b, r, Append(wrote[r], c))
      BY <1>2, <2>1, Appended DEF Waiting, Unwritten
    <3>2. Unbroken(run, pending[r] \o b)
      BY <1>2, <1>3, <2>1, UnbrokenConcat DEF Waiting
    <3>3. Stale(r)' /\ r \notin opened'
      BY <2>1 DEF Waiting, Stale
    <3>4. Waiting(r)'
      BY <1>6, <3>1, <3>2, <3>3 DEF Waiting
    <3> QED
      BY <1>6, <3>4
  <2>2. CASE Filed(r)
    <3>0. parts[r] \in Seq(Cells({run}))
      <4>1. parts[r] \in Seq(Rows({run}, r)) /\ Rows({run}, r) \subseteq Cells({run})
        BY <1>2, <2>2, CellsAre DEF Filed, Fresh
      <4> QED
        BY <4>1, SeqMonotonic
    <3>1. parts[r] \o pending[r] \in Seq(Cells({run}))
      BY <1>2, <3>0, ConcatProperties
    <3>2. Conveys(run, (parts[r] \o pending[r]) \o b, r, Append(wrote[r], c))
      BY <1>2, <2>2, <3>1, Appended DEF Filed, Unwritten
    <3>3. Unbroken(run, (parts[r] \o pending[r]) \o b)
      BY <1>3, <2>2, <3>1, UnbrokenConcat DEF Filed
    <3>4. (parts[r] \o pending[r]) \o b = parts[r] \o (pending[r] \o b)
      <4> HIDE DEF b
      <4>1. \A x, y, z \in Seq(Cells({run})) : (x \o y) \o z = x \o (y \o z)
        BY Concats
      <4> QED
        BY <1>2, <1>3, <3>0, <4>1
    <3>5. Fresh(r)' /\ (r \in opened' \/ pc'[r] \in {"closed", "merge", "done"})
      BY <2>2 DEF Filed, Fresh
    <3>6. /\ Conveys(run, parts[r] \o (pending[r] \o b), r, Append(wrote[r], c))
          /\ Unbroken(run, parts[r] \o (pending[r] \o b))
      BY <3>2, <3>3, <3>4
    <3>7. Filed(r)'
      BY <1>6, <3>5, <3>6 DEF Filed
    <3> QED
      BY <1>6, <3>7
  <2> QED
    BY <1>1, <1>6, <2>1, <2>2
<1> QED
  BY <1>4, <1>5, <1>6

(* A part file is opened: nothing of an earlier execution stays in it. *)
LEMMA StreamOpen ==
  ASSUME TypeInv, MoreTypes, RowInv, StreamInv, NEW r \in Rank, EnsureFile(r)
  PROVE  StreamInv'
<1>0. /\ UNCHANGED <<run, mode, size, pc, pending, part, wrote>>
      /\ opened' = opened \cup {r}
      /\ r \notin opened /\ pc[r] \in {"loop", "emit", "close"}
  BY DEF EnsureFile
<1> SUFFICES ASSUME mode = "parts", NEW q \in Rank, q >= part PROVE Waiting(q)' \/ Filed(q)'
  BY <1>0 DEF StreamInv, Rank
<1>1. Waiting(q) \/ Filed(q)
  BY DEF StreamInv
<1>2. parts' = [p \in DOMAIN parts \cup {r} |-> IF p = r THEN <<>> ELSE parts[p]]
  BY DEF EnsureFile, OpenPart
<1>3. CASE q # r
  <2>1. /\ q \in DOMAIN parts' <=> q \in DOMAIN parts
        /\ q \in DOMAIN parts => parts'[q] = parts[q]
        /\ q \in opened' <=> q \in opened
    BY <1>0, <1>2, <1>3
  <2> QED
    BY <1>0, <1>1, <2>1, StreamOf
<1>4. CASE q = r
  <2>1. Waiting(r)
    BY <1>0, <1>1, <1>4 DEF Filed
  <2>2. parts'[r] = <<>> /\ r \in DOMAIN parts' /\ <<>> \in Seq(Rows({run}, r))
    BY <1>2, EmptySeq
  <2>3. <<>> \o pending[r] = pending[r]
    BY PendingAre, Concats
  <2>4. Fresh(r)'
    BY <1>0, <2>2 DEF Fresh
  <2>5. Filed(r)'
    BY <1>0, <2>1, <2>2, <2>3, <2>4 DEF Filed, Waiting
  <2> QED
    BY <1>4, <2>5
<1> QED
  BY <1>3, <1>4

(* What leaves the writer is in the part file. *)
LEMMA StreamFlush ==
  ASSUME TypeInv, WholeInv, MoreTypes, RowInv, StreamInv, NEW r \in Rank, Flush(r)
  PROVE  StreamInv'
<1>0. /\ UNCHANGED <<run, mode, size, pc, opened, part, wrote>> /\ r \in opened
  BY DEF Flush
<1> SUFFICES ASSUME mode = "parts", NEW q \in Rank, q >= part PROVE Waiting(q)' \/ Filed(q)'
  BY <1>0 DEF StreamInv, Rank
<1> DEFINE S == Rows({run}, r)
<1>1. Waiting(q) \/ Filed(q)
  BY DEF StreamInv
<1>2. PICK n \in Nat \ {0}, cells \in Seq(S) :
           /\ pending'[r] \in Seq(S)
           /\ pending[r] = cells \o pending'[r]
           /\ \A p \in AllRanks \ {r} : pending'[p] = pending[p]
           /\ parts' = [parts EXCEPT ![r] = @ \o cells]
  BY Flushed
<1>3. CASE q # r
  <2>0. q \in AllRanks
    BY RanksAre
  <2>1. /\ q \in DOMAIN parts' <=> q \in DOMAIN parts
        /\ q \in DOMAIN parts => parts'[q] = parts[q]
        /\ pending'[q] = pending[q]
    BY <1>2, <1>3, <2>0
  <2> QED
    BY <1>0, <1>1, <2>1, StreamOf
<1>4. CASE q = r
  <2>1. Filed(r)
    BY <1>0, <1>1, <1>4 DEF Waiting
  <2>2. r \in DOMAIN parts' /\ parts'[r] = parts[r] \o cells /\ parts[r] \in Seq(S)
    BY <1>2, <2>1 DEF Filed, Fresh
  <2> HIDE DEF S
  <2>3. /\ \A x, y, z \in Seq(S) : (x \o y) \o z = x \o (y \o z)
        /\ \A x, y \in Seq(S) : x \o y \in Seq(S)
    BY Concats
  <2>4. parts'[r] \o pending'[r] = parts[r] \o pending[r] /\ parts'[r] \in Seq(S)
    <3>1. (parts[r] \o cells) \o pending'[r] = parts[r] \o (cells \o pending'[r])
      BY <1>2, <2>2, <2>3
    <3>2. parts[r] \o cells \in Seq(S)
      BY <2>2, <2>3
    <3>3. pending[r] = cells \o pending'[r]
      BY <1>2
    <3> QED
      BY <2>2, <3>1, <3>2, <3>3
  <2>5. Fresh(r)'
    BY <1>0, <2>2, <2>4 DEF Fresh, S
  <2>6. Filed(r)'
    BY <1>0, <2>1, <2>4, <2>5 DEF Filed
  <2> QED
    BY <1>4, <2>6
<1> QED
  BY <1>3, <1>4

(* Every step keeps the blocks that rank 0 has not come to. *)
LEMMA StreamStep ==
  ASSUME TypeInv, WholeInv, OpenInv, PartInv, MergeInv, MoreTypes, RowInv, PhaseInv, IdleInv, ClaimInv, StreamInv, [Next]_vars
  PROVE  StreamInv'
<1>0. 0 \in Rank /\ 0 \in AllRanks /\ Rank \subseteq AllRanks
  BY RanksAre
<1>00. ASSUME NEW r \in Rank, NEW l, Goto(r, l), pc[r] \notin {"closed", "merge", "done"} \/ l = "done"
       PROVE  \A q \in Rank : pc[q] \in {"closed", "merge", "done"} =>
                                pc'[q] \in {"closed", "merge", "done"}
  BY <1>0, <1>00 DEF Goto, TypeInv
<1>1. ASSUME NEW r \in Rank, Create(r) PROVE StreamInv'
  BY <1>1, <1>00, StreamSame DEF Create, volatile
<1>2. ASSUME NEW r \in Rank, Base(r) PROVE StreamInv'
  <2>0. \A q \in Rank : pc[q] \in {"closed", "merge", "done"} =>
                          pc'[q] \in {"closed", "merge", "done"}
    BY <1>2, <1>00 DEF Base
  <2>1. CASE r = 0
    <3>1. wrote[0] = <<>> /\ Unwritten(0, 0)
      BY <1>0, <1>2, <2>1 DEF Base, IdleInv, Unwritten
    <3> QED
      BY <1>2, <2>0, <2>1, <3>1, StreamCapture DEF Base
  <2>2. CASE r # 0
    BY <1>2, <2>0, <2>2, StreamSame DEF Base
  <2> QED
    BY <2>1, <2>2
<1>3. ASSUME NEW r \in Rank, NEW c \in Upcoming(r), RunCase(r, c)
      PROVE  StreamInv'
  <2>0. \A q \in Rank : pc[q] \in {"closed", "merge", "done"} =>
                          pc'[q] \in {"closed", "merge", "done"}
    BY <1>3, <1>00 DEF RunCase
  <2>1. c \in Nat /\ Unwritten(r, c)
    BY <1>3, CaseIs
  <2> QED
    BY <1>3, <2>0, <2>1, StreamCapture DEF RunCase
<1>21. ASSUME NEW r \in Rank, ClaimTask(r) PROVE StreamInv'
  BY <1>21, StreamSame DEF ClaimTask
<1>22. ASSUME NEW r \in Rank, SolveWave(r) PROVE StreamInv'
  <2>0. \A q \in Rank : pc[q] \in {"closed", "merge", "done"} =>
                          pc'[q] \in {"closed", "merge", "done"}
    BY <1>22, <1>00 DEF SolveWave
  <2> QED
    BY <1>22, <2>0, StreamSame DEF SolveWave
<1>4. ASSUME NEW r \in Rank, LoopDone(r) PROVE StreamInv'
  BY <1>4, <1>00, StreamSame DEF LoopDone, volatile
<1>5. ASSUME NEW r \in Rank, EnsureFile(r) PROVE StreamInv'
  BY <1>5, StreamOpen
<1>6. ASSUME NEW r \in Rank, Flush(r) PROVE StreamInv'
  BY <1>6, StreamFlush
<1>7. ASSUME NEW r \in Rank, Close(r) PROVE StreamInv'
  <2>0. /\ UNCHANGED <<run, mode, size, pending, part, parts, wrote>>
        /\ opened' = opened \ {r} /\ pc'[r] = "closed"
        /\ \A q \in Rank \ {r} : pc'[q] = pc[q]
    BY <1>0, <1>7 DEF Close, Goto, TypeInv
  <2> SUFFICES ASSUME mode = "parts", NEW q \in Rank, q >= part PROVE Waiting(q)' \/ Filed(q)'
    BY <2>0 DEF StreamInv, Rank
  <2>1. Waiting(q) \/ Filed(q)
    BY DEF StreamInv
  <2>2. /\ q \in opened' => q \in opened
        /\ q \in opened => q \in opened' \/ pc'[q] = "closed"
        /\ pc[q] \in {"closed", "merge", "done"} => pc'[q] \in {"closed", "merge", "done"}
    BY <2>0
  <2> QED
    BY <2>0, <2>1, <2>2, StreamOf
<1>8. ASSUME NEW r \in Rank, WriteHeader(r) PROVE StreamInv'
  BY <1>8, <1>00, StreamSame DEF WriteHeader, volatile
<1>9. ASSUME NEW r \in Rank, WriteAt(r) PROVE StreamInv'
  BY <1>9, StreamSame DEF WriteAt
<1>10. ASSUME NEW r \in Rank, CloseFile(r) PROVE StreamInv'
  BY <1>10, <1>00, StreamSame DEF CloseFile, volatile
<1>11. CASE ConcatPart
  <2>0. /\ UNCHANGED <<run, mode, size, pc, opened, pending, wrote>> /\ part' = part + 1
        /\ DOMAIN parts' = DOMAIN parts \ {part}
        /\ \A p \in DOMAIN parts' : parts'[p] = parts[p]
    BY <1>11 DEF ConcatPart, RemovePart, Restrict
  <2> SUFFICES ASSUME mode = "parts", NEW q \in Rank, q >= part' PROVE Waiting(q)' \/ Filed(q)'
    BY <2>0 DEF StreamInv, Rank
  <2>1. q >= part /\ q # part
    BY <2>0, <1>0 DEF TypeInv, Rank
  <2>2. Waiting(q) \/ Filed(q)
    BY <2>1 DEF StreamInv
  <2>3. /\ q \in DOMAIN parts' <=> q \in DOMAIN parts
        /\ q \in DOMAIN parts => parts'[q] = parts[q]
    BY <2>0, <2>1
  <2> QED
    BY <2>0, <2>2, <2>3, StreamOf
<1>12. CASE SkipPart
  <2>0. /\ UNCHANGED <<run, mode, size, pc, opened, pending, parts, wrote>>
        /\ part' = part + 1
    BY <1>12 DEF SkipPart
  <2> SUFFICES ASSUME mode = "parts", NEW q \in Rank, q >= part' PROVE Waiting(q)' \/ Filed(q)'
    BY <2>0 DEF StreamInv, Rank
  <2>1. q >= part
    BY <2>0, <1>0 DEF TypeInv, Rank
  <2>2. Waiting(q) \/ Filed(q)
    BY <2>1 DEF StreamInv
  <2> QED
    BY <2>0, <2>2, StreamOf
<1>13. CASE Merged
  BY <1>0, <1>13, <1>00, StreamSame DEF Merged, volatile
<1>14. CASE SyncCreated
  <2>1. \A q \in Rank : pc[q] = "created"
    BY <1>14 DEF SyncCreated, AllAt
  <2> QED
    BY <1>14, <2>1, StreamSame DEF SyncCreated, volatile
<1>15. CASE SetSize
  <2>1. \A q \in Rank : pc[q] = "gather"
    BY <1>15 DEF SetSize, AllAt
  <2> QED
    BY <1>15, <2>1, StreamSame DEF SetSize, volatile
<1>16. CASE SyncHeader
  <2>1. \A q \in Rank : pc[q] = "written"
    BY <1>16 DEF SyncHeader, AllAt
  <2> QED
    BY <1>16, <2>1, StreamSame DEF SyncHeader, volatile
<1>17. CASE SyncClosed
  <2>1. \A q \in Rank : pc'[q] \in {"merge", "done"}
    BY <1>0, <1>17 DEF SyncClosed
  <2> QED
    BY <1>17, <2>1, StreamSame DEF SyncClosed, volatile
<1>18. CASE Rerun
  <2>1. Rank' \subseteq AllRanks /\ opened' = {} /\ run' \in Nat
    BY <1>18, NextRanks DEF Rerun, TypeInv
  <2>2. \A q \in AllRanks : pending'[q] = <<>> /\ wrote'[q] = <<>> /\ Stale(q)'
    BY <1>18, RerunStale DEF Rerun, NoCells, NoCases
  <2>3. \A q \in AllRanks : Conveys(run', <<>>, q, <<>>) /\ Unbroken(run', <<>>)
    <3> TAKE q \in AllRanks
    <3>1. q \in Nat /\ <<>> \in Seq(Nat)
      BY DEF AllRanks
    <3>2. Own(run', <<>>, q) = {}
      BY DEF Own
    <3> QED
      BY <2>1, <3>1, <3>2, ConveysNone, NothingAligned
  <2>4. \A q \in Rank' : Waiting(q)'
    BY <2>1, <2>2, <2>3 DEF Waiting
  <2> QED
    BY <2>4 DEF StreamInv
<1>19. CASE UNCHANGED vars
  BY <1>19, StreamSame DEF vars, volatile
<1>20. ASSUME NEW r \in Rank, Step(r) PROVE StreamInv'
  BY <1>20, <1>1, <1>2, <1>3, <1>4, <1>5, <1>6, <1>7, <1>8, <1>9, <1>10,
     <1>11, <1>12, <1>13, <1>21, <1>22 DEF Step
<1> QED
  BY <1>14, <1>15, <1>16, <1>17, <1>18, <1>19, <1>20 DEF Next, Collective

-----------------------------------------------------------------------------
(* Steps that merge nothing. *)
LEMMA MergedKeeps ==
  ASSUME MergedInv, UNCHANGED <<run, mode, part, flat, wrote>>,
         mode = "parts" /\ pc'[0] \in {"merge", "done"} => pc[0] \in {"merge", "done"}
  PROVE  MergedInv'
BY DEF MergedInv, Header

(* Nor do the steps before it. *)
LEMMA MergedVoid ==
  ASSUME TypeInv, MergeInv, NEW r \in Rank, UNCHANGED mode, pc[r] # "done", r = 0 => pc[r] # "merge",
         UNCHANGED pc \/ (\E l : Goto(r, l) /\ l \notin {"merge", "done"})
  PROVE  MergedInv'
<1> SUFFICES ASSUME mode = "parts" PROVE pc'[0] \notin {"merge", "done"}
  BY DEF MergedInv
<1>1. pc[0] \notin {"merge", "done"}
  BY DEF MergeInv
<1> QED
  BY <1>1, RanksAre DEF Goto, TypeInv

(* What rank 0 finds of the rank it has come to: its blocks, if it has     *)
(* any, and what an earlier execution left if it has none.                 *)
LEMMA NextPart ==
  ASSUME TypeInv, MoreTypes, RowInv, IdleInv, MergeInv, StreamInv, MergedInv, mode = "parts",
         pc[0] = "merge", part < size
  PROVE  /\ part \in Rank /\ part \in Nat /\ wrote[part] \in Seq(Nat)
         /\ Own(run, flat, part) = {}
         /\ part \notin DOMAIN parts => wrote[part] = <<>>
         /\ part \in DOMAIN parts =>
              /\ Conveys(run, parts[part], part, wrote[part]) /\ Unbroken(run, parts[part])
              /\ parts[part] \in Seq(Cells(0 .. run))
              /\ \A i \in DOMAIN parts[part] :
                   /\ parts[part][i].rank = part
                   /\ \/ parts[part][i].run = run
                      \/ parts[part][i].run # 0 /\ wrote[part] = <<>>
<1>1. part \in Rank /\ part \in Nat /\ part \in AllRanks /\ run \in Nat \ {0}
  <2>1. part \in Nat /\ run \in Nat \ {0}
    BY DEF TypeInv
  <2>2. size \in Nat /\ Rank = 0 .. (size - 1) /\ Rank \subseteq AllRanks
    BY RanksAre
  <2>3. part \in 0 .. (size - 1)
    BY <2>1, <2>2
  <2> QED
    BY <2>1, <2>2, <2>3
<1>2. wrote[part] \in Seq(Nat)
  BY <1>1 DEF MoreTypes
<1>3. pending[part] = <<>>
  <2>1. pc[part] \in {"merge", "done"}
    BY <1>1 DEF MergeInv
  <2> QED
    BY <1>1, <2>1 DEF IdleInv
<1>4. Own(run, flat, part) = {}
  <2>1. flat \in Seq(Cells(0 .. run)) /\ DOMAIN flat = 1 .. Len(flat) /\ Len(flat) \in Nat
    BY LenProperties DEF MoreTypes
  <2>2. ASSUME NEW i \in Own(run, flat, part) PROVE FALSE
    <3>1. i \in DOMAIN flat /\ flat[i].rank = part /\ flat[i].case # -1
      BY DEF Own
    <3>2. CASE i = 1
      BY <3>1, <3>2 DEF MergedInv, Header
    <3>3. CASE i # 1
      <4>1. i > 1
        BY <2>1, <3>1, <3>3
      <4>2. flat[i].rank \in 0 .. (part - 1)
        BY <3>1, <4>1 DEF MergedInv
      <4> QED
        BY <1>1, <3>1, <4>2
    <3> QED
      BY <3>2, <3>3
  <2> QED
    BY <2>2
<1>5. Waiting(part) \/ Filed(part)
  BY <1>1 DEF StreamInv
<1>6. CASE Waiting(part)
  <2>1. wrote[part] = <<>>
    <3>1. Own(run, <<>>, part) = {}
      BY DEF Own
    <3>2. Conveys(run, <<>>, part, wrote[part])
      BY <1>3, <1>6 DEF Waiting
    <3> QED
      BY <1>1, <1>2, <3>1, <3>2, ConveysNone
  <2>2. ASSUME part \in DOMAIN parts
        PROVE  /\ parts[part] \in Seq(Cells(0 .. run))
               /\ \A i \in DOMAIN parts[part] :
                    /\ parts[part][i].rank = part
                    /\ parts[part][i].run # run /\ parts[part][i].run # 0
    <3>1. parts[part] \in Seq(Rows(1 .. (run - 1), part))
      BY <1>6, <2>2 DEF Waiting, Stale
    <3>2. Rows(1 .. (run - 1), part) \subseteq Cells(0 .. run)
      BY <1>1, FlatAssumption DEF Rows, Cells
    <3>3. \A i \in DOMAIN parts[part] : parts[part][i] \in Rows(1 .. (run - 1), part)
      BY <3>1, LenProperties, ElementOfSeq
    <3>4. \A c \in Rows(1 .. (run - 1), part) : c.rank = part /\ c.run # run /\ c.run # 0
      BY <1>1 DEF Rows
    <3>5. parts[part] \in Seq(Cells(0 .. run))
      BY <3>1, <3>2, SeqMonotonic
    <3> QED
      BY <3>3, <3>4, <3>5
  <2>3. ASSUME part \in DOMAIN parts
        PROVE  Conveys(run, parts[part], part, wrote[part]) /\ Unbroken(run, parts[part])
    <3>1. Own(run, parts[part], part) = {}
      BY <2>2, <2>3 DEF Own
    <3>2. Unbroken(run, parts[part])
      BY <2>2, <2>3, UnbrokenNone
    <3>3. Conveys(run, parts[part], part, wrote[part])
      BY <1>1, <1>2, <2>1, <3>1, ConveysNone
    <3> QED
      BY <3>2, <3>3
  <2> QED
    BY <1>1, <1>2, <1>4, <2>1, <2>2, <2>3
<1>7. CASE Filed(part)
  <2>1. part \in DOMAIN parts /\ parts[part] \in Seq(Rows({run}, part))
    BY <1>7 DEF Filed, Fresh
  <2>2. parts[part] \in Seq(Cells(0 .. run))
    BY <1>1, <2>1, CellsAre, SeqMonotonic
  <2>3. parts[part] \o <<>> = parts[part]
    BY <2>2, Concats
  <2>4. Conveys(run, parts[part], part, wrote[part]) /\ Unbroken(run, parts[part])
    BY <1>3, <1>7, <2>3 DEF Filed
  <2>5. \A i \in DOMAIN parts[part] : parts[part][i] \in Rows({run}, part)
    BY <2>1, LenProperties, ElementOfSeq
  <2>6. \A c \in Rows({run}, part) : c.rank = part /\ c.run = run
    BY DEF Rows
  <2> QED
    BY <1>1, <1>2, <1>4, <2>1, <2>2, <2>4, <2>5, <2>6
<1> QED
  BY <1>5, <1>6, <1>7

(* A part file is merged. *)
LEMMA MergedConcat ==
  ASSUME TypeInv, MoreTypes, RowInv, PhaseInv, IdleInv, MergeInv, StreamInv, MergedInv, ConcatPart
  PROVE  MergedInv'
<1>1. /\ pc[0] = "merge" /\ part < size /\ part \in DOMAIN parts
      /\ flat' = flat \o parts[part] /\ part' = part + 1
      /\ UNCHANGED <<run, mode, size, pc, wrote>>
  BY DEF ConcatPart
<1>2. mode = "parts"
  BY <1>1, RanksAre, PhaseMode
<1> DEFINE t == parts[part]
           S == Cells(0 .. run)
<1>3. /\ part \in Nat /\ wrote[part] \in Seq(Nat) /\ Own(run, flat, part) = {}
      /\ Conveys(run, t, part, wrote[part]) /\ Unbroken(run, t) /\ t \in Seq(S)
      /\ \A i \in DOMAIN t : /\ t[i].rank = part
                             /\ t[i].run = run \/ (t[i].run # 0 /\ wrote[part] = <<>>)
  BY <1>1, <1>2, NextPart
<1>4. /\ flat # <<>> /\ flat[1] = Header /\ Unbroken(run, flat)
      /\ \A i \in DOMAIN flat :
           i > 1 => /\ flat[i].rank \in 0 .. (part - 1)
                    /\ flat[i].run = run \/ (flat[i].run # 0 /\ wrote[flat[i].rank] = <<>>)
      /\ \A r \in 0 .. (part - 1) : Conveys(run, flat, r, wrote[r])
  BY <1>1, <1>2 DEF MergedInv
<1>5. flat \in Seq(S) /\ run \in Nat
  BY DEF MoreTypes, TypeInv
<1>6. \A r \in 0 .. part : r \in AllRanks /\ r \in Nat /\ wrote[r] \in Seq(Nat)
  <2>1. \A r \in 0 .. part : r \in Rank /\ r \in Nat
    BY <1>1, <1>3, RanksAre DEF Rank
  <2> QED
    BY <2>1, RanksAre DEF MoreTypes
<1> HIDE DEF t, S
<1>7. /\ DOMAIN flat = 1 .. Len(flat) /\ Len(flat) \in Nat /\ DOMAIN t = 1 .. Len(t)
      /\ flat' \in Seq(S) /\ DOMAIN flat' = 1 .. (Len(flat) + Len(t)) /\ Len(t) \in Nat
      /\ \A i \in 1 .. Len(flat) : flat'[i] = flat[i]
      /\ \A i \in 1 .. (Len(flat) + Len(t)) :
           ~(i <= Len(flat)) => i - Len(flat) \in 1 .. Len(t) /\ flat'[i] = t[i - Len(flat)]
  <2>1. \A x, y \in Seq(S) :
          /\ Len(x) \in Nat /\ DOMAIN x = 1 .. Len(x) /\ x \o y \in Seq(S) /\ Len(y) \in Nat
          /\ DOMAIN y = 1 .. Len(y) /\ DOMAIN (x \o y) = 1 .. (Len(x) + Len(y))
          /\ \A i \in 1 .. Len(x) : (x \o y)[i] = x[i]
          /\ \A i \in 1 .. (Len(x) + Len(y)) :
               ~(i <= Len(x)) => i - Len(x) \in 1 .. Len(y) /\ (x \o y)[i] = y[i - Len(x)]
    BY Concat
  <2>2. flat' = flat \o t
    BY <1>1 DEF t
  <2> QED
    BY <1>3, <1>5, <2>1, <2>2
<1>8. flat' # <<>> /\ flat'[1] = Header
  <2>1. \A u \in Seq(S) : u # <<>> => Len(u) \in Nat \ {0}
    BY EmptySeq
  <2>2. Len(flat) \in Nat \ {0}
    BY <1>4, <1>5, <2>1, Zenon
  <2>3. 1 \in 1 .. Len(flat) /\ 1 \in DOMAIN flat'
    BY <1>7, <2>2
  <2>4. DOMAIN <<>> = {}
    OBVIOUS
  <2> QED
    BY <1>4, <1>7, <2>3, <2>4
<1>9. Unbroken(run, flat')
  <2>1. \A x, y \in Seq(S) : Unbroken(run, x) /\ Unbroken(run, y) => Unbroken(run, x \o y)
    BY UnbrokenConcat
  <2> QED
    BY <1>1, <1>3, <1>4, <1>5, <2>1 DEF t
<1>10. ASSUME NEW i \in DOMAIN flat', i > 1
       PROVE  /\ flat'[i].rank \in 0 .. part
              /\ flat'[i].run = run \/ (flat'[i].run # 0 /\ wrote[flat'[i].rank] = <<>>)
  <2>1. CASE i <= Len(flat)
    <3>1. i \in 1 .. Len(flat) /\ i \in DOMAIN flat
      BY <1>7, <2>1
    <3>2. \A k \in 0 .. (part - 1) : k \in 0 .. part
      BY <1>3
    <3> QED
      BY <1>4, <1>7, <1>10, <3>1, <3>2
  <2>2. CASE ~(i <= Len(flat))
    <3>1. i - Len(flat) \in DOMAIN t /\ flat'[i] = t[i - Len(flat)]
      BY <1>7, <2>2
    <3>2. part \in 0 .. part
      BY <1>3
    <3> QED
      BY <1>3, <3>1, <3>2
  <2> QED
    BY <2>1, <2>2
<1>11. ASSUME NEW r \in 0 .. part PROVE Conveys(run, flat', r, wrote[r])
  <2>0. r \in Nat /\ wrote[r] \in Seq(Nat)
    BY <1>6
  <2>1. \A x, y \in Seq(S) :
          Own(run, y, r) = {} /\ Conveys(run, x, r, wrote[r]) =>
            Conveys(run, x \o y, r, wrote[r]) /\ Conveys(run, y \o x, r, wrote[r])
    BY <1>5, <2>0, ConveysAround
  <2>2. flat' = flat \o t
    BY <1>1 DEF t
  <2>3. CASE r = part
    BY <1>3, <1>5, <2>1, <2>2, <2>3
  <2>4. CASE r # part
    <3>1. r \in 0 .. (part - 1)
      BY <1>3, <2>4
    <3>2. Own(run, t, r) = {}
      BY <1>3, <2>4 DEF Own
    <3> QED
      BY <1>3, <1>4, <1>5, <2>1, <2>2, <3>1, <3>2
  <2> QED
    BY <2>3, <2>4
<1>12. part' - 1 = part /\ Header' = Header
  BY <1>1, <1>3 DEF Header
<1> QED
  BY <1>1, <1>8, <1>9, <1>10, <1>11, <1>12 DEF MergedInv

(* A part file that is missing is passed over. *)
LEMMA MergedSkip ==
  ASSUME TypeInv, MoreTypes, RowInv, PhaseInv, IdleInv, MergeInv, StreamInv, MergedInv, SkipPart
  PROVE  MergedInv'
<1>1. /\ pc[0] = "merge" /\ part < size /\ part \notin DOMAIN parts
      /\ part' = part + 1 /\ UNCHANGED <<run, mode, size, pc, flat, wrote>>
  BY DEF SkipPart, NoSuchPart
<1>2. mode = "parts"
  BY <1>1, RanksAre, PhaseMode
<1>3. part \in Nat /\ wrote[part] = <<>> /\ Own(run, flat, part) = {}
  BY <1>1, <1>2, NextPart
<1>4. run \in Nat /\ <<>> \in Seq(Nat)
  BY DEF TypeInv
<1>5. Conveys(run, flat, part, wrote[part])
  BY <1>3, <1>4, ConveysNone
<1>7. \A r \in 0 .. (part' - 1) : Conveys(run, flat, r, wrote[r])
  <2>1. \A r \in 0 .. (part - 1) : Conveys(run, flat, r, wrote[r])
    BY <1>1, <1>2 DEF MergedInv
  <2> TAKE r \in 0 .. (part' - 1)
  <2>2. r = part \/ r \in 0 .. (part - 1)
    BY <1>1, <1>3
  <2> QED
    BY <1>5, <2>1, <2>2
<1>8. \A k \in 0 .. (part - 1) : k \in 0 .. (part' - 1)
  BY <1>1, <1>3
<1>9. /\ flat # <<>> /\ flat[1] = Header /\ Unbroken(run, flat)
      /\ \A i \in DOMAIN flat :
           i > 1 => /\ flat[i].rank \in 0 .. (part - 1)
                    /\ flat[i].run = run \/ (flat[i].run # 0 /\ wrote[flat[i].rank] = <<>>)
  BY <1>1, <1>2 DEF MergedInv
<1>10. Header' = Header /\ UNCHANGED <<run, flat, wrote>>
  BY <1>1 DEF Header
<1>11. \A i \in DOMAIN flat :
         i > 1 => /\ flat[i].rank \in 0 .. (part' - 1)
                  /\ flat[i].run = run \/ (flat[i].run # 0 /\ wrote[flat[i].rank] = <<>>)
  BY <1>8, <1>9
<1> QED
  BY <1>7, <1>9, <1>10, <1>11 DEF MergedInv

(* Every step keeps what rank 0 has put together. *)
LEMMA MergedStep ==
  ASSUME TypeInv, MergeInv, PartInv, MoreTypes, RowInv, PhaseInv, IdleInv, StreamInv, MergedInv,
         [Next]_vars
  PROVE  MergedInv'
<1>1. ASSUME NEW r \in Rank, Create(r) PROVE MergedInv'
  BY <1>1, MergedVoid DEF Create
<1>2. ASSUME NEW r \in Rank, Base(r) PROVE MergedInv'
  BY <1>2, MergedVoid DEF Base
<1>3. ASSUME NEW r \in Rank, NEW c \in Upcoming(r), RunCase(r, c)
      PROVE  MergedInv'
  BY <1>3, MergedVoid DEF RunCase
<1>21. ASSUME NEW r \in Rank, ClaimTask(r) PROVE MergedInv'
  BY <1>21, MergedVoid DEF ClaimTask
<1>22. ASSUME NEW r \in Rank, SolveWave(r) PROVE MergedInv'
  BY <1>22, MergedVoid DEF SolveWave
<1>4. ASSUME NEW r \in Rank, LoopDone(r) PROVE MergedInv'
  BY <1>4, MergedVoid DEF LoopDone
<1>5. ASSUME NEW r \in Rank, EnsureFile(r) PROVE MergedInv'
  BY <1>5, MergedVoid DEF EnsureFile
<1>6. ASSUME NEW r \in Rank, Flush(r) PROVE MergedInv'
  BY <1>6, MergedVoid DEF Flush
<1>7. ASSUME NEW r \in Rank, Close(r) PROVE MergedInv'
  BY <1>7, MergedVoid DEF Close
<1>8. ASSUME NEW r \in Rank, WriteHeader(r) PROVE MergedInv'
  BY <1>8, MergedVoid DEF WriteHeader
<1>9. ASSUME NEW r \in Rank, WriteAt(r) PROVE MergedInv'
  BY <1>9, MergedVoid DEF WriteAt
<1>10. ASSUME NEW r \in Rank, CloseFile(r) PROVE MergedInv'
  BY <1>10, MergedVoid DEF CloseFile
<1>11. CASE ConcatPart
  BY <1>11, MergedConcat
<1>12. CASE SkipPart
  BY <1>12, MergedSkip
<1>13. CASE Merged
  BY <1>13, MergedKeeps DEF Merged, volatile
<1>14. CASE SyncCreated
  BY <1>14, RanksAre, PhaseMode, StreamOther DEF SyncCreated, AllAt
<1>15. CASE SetSize
  BY <1>15, RanksAre, PhaseMode, StreamOther DEF SetSize, AllAt
<1>16. CASE SyncHeader
  BY <1>16, RanksAre, PhaseMode, StreamOther DEF SyncHeader, AllAt
<1>17. CASE SyncClosed
  <2>0. UNCHANGED <<run, mode, part>>
    BY <1>17 DEF SyncClosed, volatile
  <2>1. CASE mode = "parts"
    <3>1. part = 0
      BY <1>17, <2>1, RanksAre DEF PartInv, SyncClosed, AllAt
    <3>2. flat' = <<Header>>
      BY <1>17, <2>1 DEF SyncClosed
    <3>3. /\ flat' # <<>> /\ flat'[1] = Header /\ DOMAIN flat' = {1} /\ flat'[1].piece = 0
      BY <3>2 DEF Header
    <3>4. Unbroken(run, flat')
      BY <3>3 DEF Unbroken
    <3>5. \A i \in DOMAIN flat' : ~(i > 1)
      BY <3>3
    <3>6. 0 .. (part' - 1) = {}
      BY <2>0, <3>1
    <3> QED
      BY <2>0, <3>3, <3>4, <3>5, <3>6 DEF MergedInv, Header
  <2>2. CASE mode # "parts"
    BY <2>0, <2>2, StreamOther
  <2> QED
    BY <2>1, <2>2
<1>18. CASE Rerun
  <2>1. pc' = FirstStep(mode', size') /\ size' \in 1 .. MaxRanks
    BY <1>18 DEF Rerun
  <2>2. 0 \in AllRanks /\ ~(0 >= size')
    BY <2>1, NextRanks, RanksAre
  <2>3. pc'[0] \notin {"merge", "done"}
    BY <2>1, <2>2 DEF FirstStep
  <2> QED
    BY <2>3 DEF MergedInv
<1>19. CASE UNCHANGED vars
  BY <1>19, MergedKeeps DEF vars, volatile
<1>20. ASSUME NEW r \in Rank, Step(r) PROVE MergedInv'
  BY <1>20, <1>1, <1>2, <1>3, <1>4, <1>5, <1>6, <1>7, <1>8, <1>9, <1>10,
     <1>11, <1>12, <1>13, <1>21, <1>22 DEF Step
<1> QED
  BY <1>14, <1>15, <1>16, <1>17, <1>18, <1>19, <1>20 DEF Next, Collective

-----------------------------------------------------------------------------
(* In memory are the blocks of each rank, one after the other. *)
MemoryInv ==
  mode = "buffered" =>
    \A r \in Rank : Conveys(run, memory[r], r, wrote[r]) /\ Unbroken(run, memory[r])

(* How much of them is in the file. *)
WrittenInv ==
  mode = "buffered" =>
    \A r \in Rank :
      /\ written[r] <= Len(memory[r])
      /\ pc[r] \in {"closed", "done"} => written[r] = Len(memory[r])
      /\ pc[r] \notin {"write", "closed", "done"} => written[r] = 0

(* The file has its size and, once it is written, its header; each rank    *)
(* has what it has written at its place.                                   *)
Sized == {"header", "written", "write", "closed", "done"}
FileInv ==
  mode = "buffered" /\ pc[0] \in Sized =>
    /\ Len(flat) = 1 + Bytes(Rank)
    /\ pc[0] # "header" => flat[1] = Header
    /\ \A r \in Rank : \A i \in 1 .. written[r] : flat[OffsetOf(r) + i] = memory[r][i]

-----------------------------------------------------------------------------
(* A set of naturals has a least element. *)
LEMMA Least ==
  ASSUME NEW S \in SUBSET Nat, S # {}
  PROVE  \E x \in S : \A y \in S : x <= y
<1> DEFINE Below == {0 .. x : x \in S}
<1>1. Below \subseteq FiniteSubsetsOf(Nat)
  <2> SUFFICES ASSUME NEW x \in S PROVE 0 .. x \in FiniteSubsetsOf(Nat)
    OBVIOUS
  <2>1. IsFiniteSet(0 .. x) /\ (0 .. x) \in SUBSET Nat
    BY FS_Interval
  <2> QED
    BY <2>1 DEF FiniteSubsetsOf
<1>2. IsWellFoundedOn(StrictSubsetOrdering(Nat), FiniteSubsetsOf(Nat))
  BY FS_StrictSubsetOrderingWellFounded
<1>3. PICK b \in Below : \A c \in Below : <<c, b>> \notin StrictSubsetOrdering(Nat)
  <2>1. Below # {}
    OBVIOUS
  <2> HIDE DEF Below
  <2> QED
    BY <1>1, <1>2, <2>1, WFMin
<1>4. PICK x \in S : b = 0 .. x
  OBVIOUS
<1>5. ASSUME NEW y \in S, y < x PROVE FALSE
  <2>1. 0 .. y \in Below /\ x \in 0 .. x /\ x \notin 0 .. y
    BY <1>5
  <2>2. (0 .. y) \subseteq (0 .. x) /\ (0 .. y) # (0 .. x)
    BY <1>5, <2>1
  <2>3. (0 .. y) \in SUBSET Nat /\ (0 .. x) \in SUBSET Nat
    OBVIOUS
  <2> QED
    BY <1>3, <1>4, <2>1, <2>2, <2>3 DEF StrictSubsetOrdering
<1> QED
  BY <1>5

(* Where the memory of a rank comes in the file: after those of the lower  *)
(* ranks, within its size.                                                 *)
LEMMA OffsetsAre ==
  ASSUME TypeInv, MoreTypes, NEW r \in Rank
  PROVE  /\ OffsetOf(r) \in Nat \ {0} /\ Len(memory[r]) \in Nat /\ Bytes(Rank) \in Nat
         /\ OffsetOf(r) + Len(memory[r]) <= 1 + Bytes(Rank)
         /\ \A q \in Rank : r < q => OffsetOf(r) + Len(memory[r]) <= OffsetOf(q)
<1> DEFINE U(q) == 0 .. (q - 1)
<1>0. /\ Rank \subseteq AllRanks /\ Rank \subseteq Nat /\ Rank = 0 .. (size - 1)
      /\ size \in Nat
      /\ r \in AllRanks
  BY RanksAre
<1>1. \A q \in Rank : U(q) \in SUBSET AllRanks
  BY <1>0
<1>2. U(r) \cup {r} \in SUBSET Rank /\ r \notin U(r) /\ \A q \in Rank : r < q => U(r) \cup {r} \subseteq U(q)
  BY <1>0
<1>3. OffsetOf(r) = 1 + Bytes(U(r)) /\ \A q \in Rank : OffsetOf(q) = 1 + Bytes(U(q))
  BY DEF OffsetOf
<1> HIDE DEF U
<1>4. Bytes(U(r) \cup {r}) = Bytes(U(r)) + Len(memory[r])
  BY <1>0, <1>1, <1>2, BytesAdd
<1>5. Bytes(U(r)) \in Nat /\ Bytes(Rank) \in Nat /\ \A q \in Rank : Bytes(U(q)) \in Nat
  BY <1>0, <1>1, BytesAre
<1>6. Len(memory[r]) \in Nat
  BY <1>0, LenProperties DEF MoreTypes
<1>7. Bytes(U(r) \cup {r}) <= Bytes(Rank)
  BY <1>0, <1>2, BytesOf
<1>8. \A q \in Rank : r < q => Bytes(U(r) \cup {r}) <= Bytes(U(q))
  <2> TAKE q \in Rank
  <2> HAVE r < q
  <2>1. U(r) \cup {r} \subseteq U(q) /\ U(q) \in SUBSET AllRanks /\ U(r) \cup {r} \in SUBSET AllRanks
    BY <1>0, <1>1, <1>2
  <2> QED
    BY <2>1, BytesOf
<1>9. ASSUME NEW q \in Rank, r < q PROVE OffsetOf(r) + Len(memory[r]) <= OffsetOf(q)
  <2>1. OffsetOf(q) = 1 + Bytes(U(q)) /\ Bytes(U(q)) \in Nat /\ Bytes(U(r)) + Len(memory[r]) <= Bytes(U(q))
    BY <1>3, <1>4, <1>5, <1>8, <1>9
  <2> QED
    BY <1>3, <1>5, <1>6, <2>1
<1> QED
  BY <1>3, <1>4, <1>5, <1>6, <1>7, <1>9

(* Every place after the header is of one of them. *)
LEMMA PlaceOf ==
  ASSUME TypeInv, MoreTypes, NEW k \in 2 .. (1 + Bytes(Rank))
  PROVE  \E r \in Rank : \E i \in 1 .. Len(memory[r]) : k = OffsetOf(r) + i
<1> DEFINE U(q) == 0 .. (q - 1)
           S == {r \in Rank : k <= 1 + Bytes(U(r + 1))}
<1>0. /\ Rank \subseteq AllRanks /\ Rank \subseteq Nat /\ Rank = 0 .. (size - 1) /\ size \in Nat \ {0}
      /\ Bytes(Rank) \in Nat
  <2>1. 0 \in Rank /\ Rank = 0 .. (size - 1) /\ size \in Nat \ {0}
    BY RanksAre
  <2>2. Bytes(Rank) \in Nat
    BY <2>1, OffsetsAre
  <2> QED
    BY <2>1, <2>2, RanksAre
<1>1. size - 1 \in S
  <2>1. size - 1 \in Rank /\ U((size - 1) + 1) = Rank
    BY <1>0
  <2>2. k <= 1 + Bytes(Rank)
    BY <1>0
  <2> QED
    BY <2>1, <2>2
<1>2. PICK r \in S : \A q \in S : r <= q
  <2>1. S \in SUBSET Nat /\ S # {}
    BY <1>0, <1>1
  <2> HIDE DEF S
  <2> QED
    BY <2>1, Least
<1>3. /\ r \in Rank /\ r \in Nat /\ r \in AllRanks /\ k <= 1 + Bytes(U(r + 1))
      /\ k \in Int /\ k >= 2
      /\ U(r) \in SUBSET AllRanks
  BY <1>0
<1>4. 1 + Bytes(U(r)) < k
  <2>0. Bytes(U(r)) \in Nat
    BY <1>3, BytesAre
  <2>1. CASE r = 0
    <3>1. U(r) = {}
      BY <2>1
    <3>2. UNION {{p} \X DOMAIN memory[p] : p \in {}} = {}
      OBVIOUS
    <3>3. Bytes(U(r)) = 0
      BY <3>1, <3>2, FS_EmptySet DEF Bytes
    <3> QED
      BY <1>3, <3>3
  <2>2. CASE r # 0
    <3>1. r - 1 \in Rank /\ (r - 1) + 1 = r
      BY <1>0, <1>3, <2>2
    <3>2. r - 1 \notin S
      <4>1. ~(r <= r - 1)
        BY <1>3
      <4> QED
        BY <1>2, <4>1
    <3>3. ~(k <= 1 + Bytes(U(r)))
      BY <3>1, <3>2
    <3> QED
      BY <1>3, <2>0, <3>3
  <2> QED
    BY <2>1, <2>2
<1>5. U(r + 1) = U(r) \cup {r} /\ r \notin U(r)
  BY <1>3
<1>6. OffsetOf(r) = 1 + Bytes(U(r))
  BY DEF OffsetOf
<1> HIDE DEF U, S
<1>7. Bytes(U(r + 1)) = Bytes(U(r)) + Len(memory[r]) /\ Bytes(U(r)) \in Nat /\ Len(memory[r]) \in Nat
  <2>1. Bytes(U(r) \cup {r}) = Bytes(U(r)) + Len(memory[r])
    BY <1>3, <1>5, BytesAdd
  <2>2. Bytes(U(r)) \in Nat
    BY <1>3, BytesAre
  <2> QED
    BY <1>3, <1>5, <2>1, <2>2, OffsetsAre
<1>8. k - OffsetOf(r) \in 1 .. Len(memory[r]) /\ k = OffsetOf(r) + (k - OffsetOf(r))
  <2>1. \A a, n \in Nat : \A j \in Int :
          j <= 1 + (a + n) /\ 1 + a < j => j - (1 + a) \in 1 .. n /\ j = (1 + a) + (j - (1 + a))
    OBVIOUS
  <2>2. k <= 1 + (Bytes(U(r)) + Len(memory[r])) /\ k \in Int
    BY <1>3, <1>7
  <2> QED
    BY <1>4, <1>6, <1>7, <2>1, <2>2
<1> QED
  BY <1>3, <1>8

(* When all is written, the file is the memories behind the header. *)
LEMMA FileIs ==
  ASSUME TypeInv, MoreTypes, RowInv, MemoryInv, WrittenInv, FileInv, mode = "buffered", Finished
  PROVE  /\ flat # <<>> /\ flat[1] = Header /\ Unbroken(run, flat)
         /\ \A i \in DOMAIN flat : flat[i].run = run
         /\ \A r \in Rank : Conveys(run, flat, r, wrote[r])
<1>0. /\ 0 \in Rank /\ Rank \subseteq AllRanks /\ Rank \subseteq Nat /\ run \in Nat
      /\ \A r \in Rank : pc[r] = "done"
  <2>1. /\ 0 \in Rank /\ Rank \subseteq AllRanks /\ Rank = 0 .. (size - 1) /\ size \in Nat
    BY RanksAre
  <2>2. run \in Nat
    BY DEF TypeInv
  <2>3. \A r \in Rank : pc[r] = "done"
    BY DEF Finished, AllAt
  <2> QED
    BY <2>1, <2>2, <2>3
<1>1. /\ DOMAIN flat = 1 .. (1 + Bytes(Rank)) /\ Len(flat) = 1 + Bytes(Rank)
      /\ Bytes(Rank) \in Nat
      /\ flat[1] = Header
      /\ \A r \in Rank : \A i \in 1 .. Len(memory[r]) : flat[OffsetOf(r) + i] = memory[r][i]
  <2>1. /\ Len(flat) = 1 + Bytes(Rank) /\ flat[1] = Header
        /\ \A r \in Rank : \A i \in 1 .. written[r] : flat[OffsetOf(r) + i] = memory[r][i]
    BY <1>0 DEF FileInv, Sized
  <2>2. \A r \in Rank : written[r] = Len(memory[r])
    BY <1>0 DEF WrittenInv
  <2>3. DOMAIN flat = 1 .. Len(flat)
    BY LenProperties DEF MoreTypes
  <2>4. Bytes(Rank) \in Nat
    BY <1>0, OffsetsAre
  <2> QED
    BY <2>1, <2>2, <2>3, <2>4
<1>2. \A r \in Rank : /\ OffsetOf(r) \in Nat \ {0} /\ Len(memory[r]) \in Nat
                      /\ OffsetOf(r) + Len(memory[r]) <= 1 + Bytes(Rank)
                      /\ DOMAIN memory[r] = 1 .. Len(memory[r])
                      /\ \A i \in 1 .. Len(memory[r]) : memory[r][i].run = run /\ memory[r][i].rank = r
  <2> TAKE r \in Rank
  <2>1. memory[r] \in Seq(Rows({run}, r))
    BY <1>0 DEF RowInv
  <2>2. DOMAIN memory[r] = 1 .. Len(memory[r])
    BY <2>1, LenProperties
  <2>3. \A i \in 1 .. Len(memory[r]) : memory[r][i] \in Rows({run}, r)
    BY <2>1, ElementOfSeq
  <2>4. \A c \in Rows({run}, r) : c.run = run /\ c.rank = r
    BY DEF Rows
  <2> QED
    BY <2>2, <2>3, <2>4, OffsetsAre
<1>3. ASSUME NEW k \in DOMAIN flat, k # 1
      PROVE  \E r \in Rank : \E i \in 1 .. Len(memory[r]) :
               k = OffsetOf(r) + i /\ flat[k] = memory[r][i]
  <2>1. k \in 2 .. (1 + Bytes(Rank))
    BY <1>1, <1>3
  <2>200. PICK r \in Rank : \E i \in 1 .. Len(memory[r]) : k = OffsetOf(r) + i
    BY <2>1, PlaceOf
  <2>2. PICK i \in 1 .. Len(memory[r]) : k = OffsetOf(r) + i
    BY <2>200
  <2> QED
    BY <1>1, <2>2
<1>4. 1 \in DOMAIN flat /\ flat # <<>>
  <2>1. 1 \in DOMAIN flat
    BY <1>1
  <2>2. DOMAIN <<>> = {}
    OBVIOUS
  <2> QED
    BY <2>1, <2>2
<1>5. Header.run = run /\ Header.case = -1 /\ Header.piece = 0
  BY DEF Header
<1>6. ASSUME NEW k \in DOMAIN flat PROVE flat[k].run = run
  <2>1. CASE k = 1
    BY <1>1, <1>5, <2>1
  <2>2. CASE k # 1
    BY <1>2, <1>3, <2>2
  <2> QED
    BY <2>1, <2>2
<1>7. ASSUME NEW k \in DOMAIN flat, flat[k].run = run /\ flat[k].piece \in 1 .. (Pieces - 1)
      PROVE  k < Len(flat) /\ flat[k + 1] = [flat[k] EXCEPT !.piece = @ + 1]
  <2>0. k # 1
    BY <1>1, <1>5, <1>7
  <2>100. PICK r \in Rank : \E i \in 1 .. Len(memory[r]) : k = OffsetOf(r) + i /\ flat[k] = memory[r][i]
    BY <1>3, <2>0
  <2>1. PICK i \in 1 .. Len(memory[r]) : k = OffsetOf(r) + i /\ flat[k] = memory[r][i]
    BY <2>100
  <2>2. i < Len(memory[r]) /\ memory[r][i + 1] = [memory[r][i] EXCEPT !.piece = @ + 1]
    BY <1>2, <1>7, <2>1 DEF MemoryInv, Unbroken
  <2>3. i + 1 \in 1 .. Len(memory[r]) /\ OffsetOf(r) + (i + 1) = k + 1 /\ k < Len(flat)
    BY <1>1, <1>2, <2>1, <2>2
  <2>4. flat[k + 1] = memory[r][i + 1]
    BY <1>1, <2>3
  <2> QED
    BY <2>1, <2>2, <2>3, <2>4
<1>8. ASSUME NEW r \in Rank PROVE Conveys(run, flat, r, wrote[r])
  <2> DEFINE s == memory[r]
             f == [i \in DOMAIN s |-> OffsetOf(r) + i]
  <2>1. /\ OffsetOf(r) \in Nat \ {0} /\ Len(s) \in Nat /\ DOMAIN s = 1 .. Len(s)
        /\ OffsetOf(r) + Len(s) <= 1 + Bytes(Rank)
    BY <1>2
  <2>2. DOMAIN s \subseteq Int /\ DOMAIN flat \subseteq Int
    BY <1>1, <2>1
  <2>3. \A i \in DOMAIN s : OffsetOf(r) + i \in DOMAIN flat
    <3> TAKE i \in DOMAIN s
    <3>1. i \in Int /\ 1 <= i /\ i <= Len(s)
      BY <2>1
    <3> HIDE DEF s
    <3>2. OffsetOf(r) + i \in 1 .. (1 + Bytes(Rank))
      BY <1>1, <2>1, <3>1
    <3> QED
      BY <1>1, <3>2
  <2>4. f \in [DOMAIN s -> DOMAIN flat]
    BY <2>3
  <2>5. \A i, j \in DOMAIN s : i < j => f[i] < f[j]
    BY <2>1, <2>2
  <2>6. \A i \in DOMAIN s : flat[f[i]] = s[i]
    BY <1>1, <2>1
  <2>7. \A k \in Own(run, flat, r) : \E i \in DOMAIN s : k = f[i]
    <3> TAKE k \in Own(run, flat, r)
    <3>1. k \in DOMAIN flat /\ flat[k].rank = r /\ flat[k].case # -1
      BY DEF Own
    <3>2. k # 1
      BY <1>1, <1>5, <3>1
    <3>300. PICK q \in Rank : \E i \in 1 .. Len(memory[q]) : k = OffsetOf(q) + i /\ flat[k] = memory[q][i]
      BY <1>3, <3>1, <3>2
    <3>3. PICK i \in 1 .. Len(memory[q]) : k = OffsetOf(q) + i /\ flat[k] = memory[q][i]
      BY <3>300
    <3>4. q = r
      BY <1>2, <3>1, <3>3
    <3> QED
      BY <2>1, <3>3, <3>4
  <2>8. Conveys(run, s, r, wrote[r])
    BY DEF MemoryInv
  <2>9. r \in Nat /\ wrote[r] \in Seq(Nat)
    BY <1>0 DEF MoreTypes
  <2> HIDE DEF s, f
  <2> QED
    BY <1>0, <2>2, <2>4, <2>5, <2>6, <2>7, <2>8, <2>9, Embedded
<1>9. Unbroken(run, flat)
  BY <1>7 DEF Unbroken
<1> QED
  BY <1>1, <1>4, <1>6, <1>8, <1>9

-----------------------------------------------------------------------------
(* Steps that leave the memories alone. *)
LEMMA MemorySame ==
  ASSUME MemoryInv, UNCHANGED <<run, mode, size, memory, wrote>>
  PROVE  MemoryInv'
BY DEF MemoryInv, Rank

(* A rank's next block. *)
LEMMA MemoryCapture ==
  ASSUME TypeInv, MoreTypes, MemoryInv, NEW r \in Rank, NEW c \in Nat,
         Unwritten(r, c), CaptureFlatRows(r, c), UNCHANGED <<run, mode, size>>
  PROVE  MemoryInv'
<1> SUFFICES ASSUME mode = "buffered", NEW q \in Rank
             PROVE  Conveys(run, memory'[q], q, wrote'[q]) /\ Unbroken(run, memory'[q])
  BY DEF MemoryInv, Rank
<1> DEFINE b == Block(run, r, c)
<1>1. Conveys(run, memory[q], q, wrote[q]) /\ Unbroken(run, memory[q])
  BY DEF MemoryInv
<1>2. /\ r \in AllRanks /\ run \in Nat /\ r \in Nat /\ q \in AllRanks
      /\ memory[r] \in Seq(Cells({run})) /\ wrote[r] \in Seq(Nat)
  <2>1. r \in AllRanks /\ q \in AllRanks
    BY RanksAre
  <2>2. run \in Nat /\ r \in Nat
    BY <2>1 DEF TypeInv, AllRanks
  <2>3. memory[r] \in Seq(Cells({run})) /\ wrote[r] \in Seq(Nat)
    BY <2>1 DEF MoreTypes
  <2> QED
    BY <2>1, <2>2, <2>3
<1>3. b \in Seq(Cells({run})) /\ Unbroken(run, b)
  BY <1>2, BlockIs, UnbrokenBlock
<1>4. \/ memory'[q] = memory[q] /\ wrote'[q] = wrote[q]
      \/ q = r /\ memory'[r] = memory[r] \o b /\ wrote'[r] = Append(wrote[r], c)
  BY <1>2, Captured
<1>5. CASE q = r /\ memory'[r] = memory[r] \o b /\ wrote'[r] = Append(wrote[r], c)
  <2>1. run \in {run} /\ {run} \in SUBSET Nat
    BY <1>2
  <2>2. Conveys(run, memory[r] \o b, r, Append(wrote[r], c))
    BY <1>1, <1>2, <1>5, <2>1, Appended DEF Unwritten
  <2>3. Unbroken(run, memory[r] \o b)
    BY <1>1, <1>2, <1>3, <1>5, UnbrokenConcat
  <2> QED
    BY <1>5, <2>2, <2>3
<1> QED
  BY <1>1, <1>4, <1>5

(* The memories of the next execution are empty. *)
LEMMA MemoryRerun ==
  ASSUME TypeInv, Rerun
  PROVE  MemoryInv'
<1>1. Rank' \subseteq AllRanks /\ run' \in Nat
  BY NextRanks DEF Rerun, TypeInv
<1>2. \A q \in AllRanks : memory'[q] = <<>> /\ wrote'[q] = <<>>
  BY DEF Rerun, NoCells, NoCases
<1>3. \A q \in AllRanks : Conveys(run', <<>>, q, <<>>) /\ Unbroken(run', <<>>)
  <2> TAKE q \in AllRanks
  <2>1. q \in Nat /\ <<>> \in Seq(Nat)
    BY DEF AllRanks
  <2>2. Own(run', <<>>, q) = {}
    BY DEF Own
  <2> QED
    BY <1>1, <2>1, <2>2, ConveysNone, NothingAligned
<1> QED
  BY <1>1, <1>2, <1>3 DEF MemoryInv

(* Every step keeps the memories. *)
LEMMA MemoryStep ==
  ASSUME TypeInv, MoreTypes, IdleInv, ClaimInv, MemoryInv, [Next]_vars
  PROVE  MemoryInv'
<1>1. ASSUME NEW r \in Rank, Step(r) PROVE MemoryInv'
  <2>1. CASE Base(r)
    <3>1. CASE r = 0
      <4>1. wrote[0] = <<>> /\ Unwritten(0, 0)
        BY <2>1, <3>1 DEF Base, IdleInv, Unwritten
      <4> QED
        BY <2>1, <3>1, <4>1, MemoryCapture DEF Base
    <3>2. CASE r # 0
      BY <2>1, <3>2, MemorySame DEF Base
    <3> QED
      BY <3>1, <3>2
  <2>2. CASE \E c \in Upcoming(r) : RunCase(r, c)
    <3>1. PICK c \in Upcoming(r) : RunCase(r, c)
      BY <2>2
    <3>2. c \in Nat /\ Unwritten(r, c)
      BY <3>1, CaseIs
    <3> QED
      BY <3>1, <3>2, MemoryCapture DEF RunCase
  <2>3. CASE \/ Create(r) \/ LoopDone(r) \/ EnsureFile(r) \/ Flush(r) \/ Close(r)
             \/ WriteHeader(r) \/ WriteAt(r) \/ CloseFile(r)
             \/ ClaimTask(r) \/ SolveWave(r)
    BY <2>3, MemorySame
       DEF Create, LoopDone, EnsureFile, Flush, Close, WriteHeader,
           WriteAt, CloseFile, ClaimTask, SolveWave, volatile
  <2>4. CASE ConcatPart \/ SkipPart \/ Merged
    BY <2>4, MemorySame DEF ConcatPart, SkipPart, Merged, volatile
  <2> QED
    BY <1>1, <2>1, <2>2, <2>3, <2>4 DEF Step
<1>2. CASE Collective
  BY <1>2, MemorySame
     DEF Collective, SyncCreated, SetSize, SyncHeader, SyncClosed, volatile
<1>3. CASE Rerun
  BY <1>3, MemoryRerun
<1>4. CASE UNCHANGED vars
  BY <1>4, MemorySame DEF vars, volatile
<1> QED
  BY <1>1, <1>2, <1>3, <1>4 DEF Next

-----------------------------------------------------------------------------
(* Other modes have no buffered file. *)
LEMMA BufferOther ==
  ASSUME mode # "buffered", UNCHANGED mode
  PROVE  WrittenInv' /\ FileInv'
BY DEF WrittenInv, FileInv

(* Steps that write nothing. *)
LEMMA BufferSame ==
  ASSUME WrittenInv, FileInv, UNCHANGED <<run, mode, size, memory, written, flat>>,
         \A r \in Rank : pc'[r] \in {"closed", "done"} =>
                           pc[r] \in {"closed", "done"} \/ written[r] = Len(memory[r]),
         \A r \in Rank : pc'[r] \notin {"write", "closed", "done"} =>
                           pc[r] \notin {"write", "closed", "done"},
         pc'[0] \in Sized => pc[0] \in Sized /\ (pc[0] = "header" => pc'[0] = "header")
  PROVE  WrittenInv' /\ FileInv'
<1>1. Rank' = Rank /\ Header' = Header /\ Bytes(Rank)' = Bytes(Rank)
      /\ \A r \in Rank : OffsetOf(r)' = OffsetOf(r)
  BY DEF Rank, Header, Bytes, OffsetOf
<1>2. WrittenInv'
  BY <1>1 DEF WrittenInv
<1>3. FileInv'
  BY <1>1 DEF FileInv
<1> QED
  BY <1>2, <1>3

(* Steps of the loop: nothing has been written. *)
LEMMA BufferEarly ==
  ASSUME TypeInv, MoreTypes, MoreTypes', WrittenInv, mode = "buffered", UNCHANGED <<mode, size, written>>,
         \A r \in Rank : pc[r] \in {"base", "loop", "emit", "gather"},
         \A r \in Rank : pc'[r] \in {"base", "loop", "emit", "gather"}
  PROVE  WrittenInv' /\ FileInv'
<1>1. Rank' = Rank /\ 0 \in Rank /\ Rank \subseteq AllRanks
  BY RanksAre DEF Rank
<1>2. \A r \in Rank : written'[r] = 0
  BY DEF WrittenInv
<1>3. \A r \in Rank : Len(memory'[r]) \in Nat
  BY <1>1, LenProperties DEF MoreTypes
<1>4. WrittenInv'
  BY <1>1, <1>2, <1>3 DEF WrittenInv
<1>5. FileInv'
  BY <1>1 DEF FileInv, Sized
<1> QED
  BY <1>4, <1>5

(* The ranks are all in the loop, or sizing the file, or writing. *)
LEMMA BufferPhase ==
  ASSUME TypeInv, PhaseInv, mode = "buffered", NEW r \in Rank
  PROVE  /\ pc[r] \in {"base", "loop", "emit", "gather"} => \A q \in Rank : pc[q] \in {"base", "loop", "emit", "gather"}
         /\ pc[r] \in {"header", "written"} => \A q \in Rank : pc[q] \in {"header", "written"}
         /\ pc[r] \in {"write", "closed"} => \A q \in Rank : pc[q] \in {"write", "closed"}
<1>1. PICK P \in Phases(mode) : \A q \in Rank : pc[q] \in P
  BY DEF PhaseInv
<1>2. P \in {{"base", "loop", "emit", "gather"}, {"header", "written"}, {"write", "closed"}, {"done"}}
  BY <1>1 DEF Phases
<1> QED
  BY <1>1, <1>2

(* The file gets its size. *)
LEMMA BufferSize ==
  ASSUME TypeInv, MoreTypes, WrittenInv, SetSize
  PROVE  WrittenInv' /\ FileInv'
<1> DEFINE n == 1 + Bytes(Rank)
<1>1. /\ UNCHANGED <<run, mode, size, memory, written>>
      /\ flat' = [i \in 1 .. n |-> IF i <= Len(flat) THEN flat[i] ELSE Hole]
      /\ \A r \in Rank : pc[r] = "gather" /\ pc'[r] = "header"
  BY RanksAre DEF SetSize, AllAt, AllGoto, volatile
<1>2. Rank' = Rank /\ 0 \in Rank /\ Bytes(Rank)' = Bytes(Rank)
  BY <1>1, RanksAre DEF Rank, Bytes
<1> SUFFICES ASSUME mode = "buffered" PROVE WrittenInv' /\ FileInv'
  BY <1>1, BufferOther
<1>3. \A r \in Rank : written[r] = 0
  BY <1>1 DEF WrittenInv
<1>4. WrittenInv'
  BY <1>1, <1>2, <1>3 DEF WrittenInv
<1>5. Len(flat') = n
  <2>1. n \in Nat
    <3>1. Bytes(Rank) \in Nat
      BY <1>2, OffsetsAre
    <3> QED
      BY <3>1
  <2>2. DOMAIN flat' = 1 .. n
    BY <1>1
  <2> HIDE DEF n
  <2> QED
    BY <2>1, <2>2
<1>6. \A r \in Rank : 1 .. written'[r] = {}
  BY <1>1, <1>3
<1>7. FileInv'
  BY <1>1, <1>2, <1>5, <1>6 DEF FileInv
<1> QED
  BY <1>4, <1>7

(* The header is written before anything else is. *)
LEMMA BufferHeader ==
  ASSUME TypeInv, MoreTypes, PhaseInv, WrittenInv, FileInv, WriteHeader(0)
  PROVE  WrittenInv' /\ FileInv'
<1>1. /\ UNCHANGED <<run, mode, size, memory, written>>
      /\ flat' = [flat EXCEPT ![1] = Header]
      /\ pc[0] = "header" /\ pc'[0] = "written" /\ 0 \in Rank
      /\ \A r \in Rank \ {0} : pc'[r] = pc[r]
  BY RanksAre DEF WriteHeader, Goto, TypeInv, volatile
<1>2. Rank' = Rank /\ Header' = Header /\ Bytes(Rank)' = Bytes(Rank) /\ Bytes(Rank) \in Nat
  BY <1>1, OffsetsAre DEF Rank, Bytes, Header
<1>3. mode = "buffered"
  BY <1>1, PhaseMode
<1>4. \A r \in Rank : pc[r] \in {"header", "written"}
  BY <1>1, <1>3, BufferPhase
<1>5. \A r \in Rank : written[r] = 0 /\ written[r] <= Len(memory[r])
  BY <1>3, <1>4 DEF WrittenInv
<1>6. \A r \in Rank : pc'[r] \notin {"write", "closed", "done"}
  BY <1>1, <1>4
<1>7. WrittenInv'
  BY <1>1, <1>2, <1>5, <1>6 DEF WrittenInv
<1>8. Len(flat) = 1 + Bytes(Rank) /\ flat \in Seq(Cells(0 .. run))
  BY <1>1, <1>3 DEF FileInv, Sized, MoreTypes
<1>9. Len(flat') = Len(flat) /\ flat'[1] = Header
  <2>1. 1 \in DOMAIN flat
    BY <1>2, <1>8, LenProperties
  <2>2. flat'[1] = Header
    BY <1>1, <2>1
  <2> QED
    BY <1>1, <1>8, <2>2, CellsAre, Replaced
<1>10. \A r \in Rank : 1 .. written'[r] = {}
  BY <1>1, <1>5
<1>11. FileInv'
  BY <1>1, <1>2, <1>8, <1>9, <1>10 DEF FileInv
<1> QED
  BY <1>7, <1>11

(* A rank writes the next piece of its memory, at its own place. *)
LEMMA BufferWrite ==
  ASSUME TypeInv, MoreTypes, PhaseInv, WrittenInv, FileInv, NEW r \in Rank, WriteAt(r)
  PROVE  WrittenInv' /\ FileInv'
<1> DEFINE k == OffsetOf(r) + written[r] + 1
<1>1. /\ UNCHANGED <<run, mode, size, pc, memory>>
      /\ pc[r] = "write" /\ written[r] < Len(memory[r])
      /\ written' = [written EXCEPT ![r] = @ + 1]
      /\ flat' = [flat EXCEPT ![k] = memory[r][written[r] + 1]]
  BY DEF WriteAt
<1>2. mode = "buffered"
  BY <1>1, PhaseMode
<1>3. /\ Rank' = Rank /\ Header' = Header /\ Bytes(Rank)' = Bytes(Rank) /\ r \in AllRanks
      /\ \A q \in Rank : OffsetOf(q)' = OffsetOf(q)
  BY <1>1, RanksAre DEF Rank, Bytes, Header, OffsetOf
<1>4. /\ \A q \in Rank : written[q] \in Nat
      /\ written'[r] = written[r] + 1 /\ \A q \in Rank \ {r} : written'[q] = written[q]
  BY <1>1, <1>3, RanksAre DEF MoreTypes
<1>5. \A q \in Rank : /\ OffsetOf(q) \in Nat \ {0} /\ Len(memory[q]) \in Nat /\ Bytes(Rank) \in Nat
                      /\ OffsetOf(q) + Len(memory[q]) <= 1 + Bytes(Rank)
                      /\ \A p \in Rank : q < p => OffsetOf(q) + Len(memory[q]) <= OffsetOf(p)
  BY OffsetsAre
<1>6. WrittenInv'
  <2>1. written[r] + 1 <= Len(memory[r])
    BY <1>1, <1>4, <1>5
  <2> QED
    BY <1>1, <1>3, <1>4, <2>1 DEF WrittenInv
<1>7. pc[0] \in {"write", "closed"}
  BY <1>1, <1>2, BufferPhase, RanksAre
<1>8. /\ Len(flat) = 1 + Bytes(Rank) /\ flat[1] = Header
      /\ \A q \in Rank : \A i \in 1 .. written[q] : flat[OffsetOf(q) + i] = memory[q][i]
  BY <1>2, <1>7 DEF FileInv, Sized
<1>9. k \in 1 .. Len(flat) /\ k # 1
  BY <1>1, <1>4, <1>5, <1>8
<1>10. /\ DOMAIN flat' = 1 .. Len(flat) /\ Len(flat') = Len(flat)
       /\ flat'[k] = memory[r][written[r] + 1]
       /\ \A j \in (1 .. Len(flat)) \ {k} : flat'[j] = flat[j]
  <2>1. DOMAIN flat = 1 .. Len(flat) /\ Len(flat) \in Nat
    BY LenProperties DEF MoreTypes
  <2>2. DOMAIN flat' = 1 .. Len(flat)
    BY <1>1, <2>1
  <2>3. Len(flat') = Len(flat)
    BY <2>1, <2>2
  <2> HIDE DEF k
  <2> QED
    BY <1>1, <1>9, <2>1, <2>2, <2>3
<1>11. flat'[1] = Header
  <2>1. 1 \in (1 .. Len(flat)) \ {k}
    BY <1>9
  <2> QED
    BY <1>8, <1>10, <2>1
<1>12. ASSUME NEW q \in Rank, NEW i \in 1 .. written'[q]
       PROVE  flat'[OffsetOf(q) + i] = memory[q][i]
  <2>1. written[q] <= Len(memory[q])
    BY <1>2 DEF WrittenInv
  <2>2. CASE q = r /\ i = written[r] + 1
    <3>1. OffsetOf(q) + i = k
      BY <1>4, <1>5, <2>2
    <3> QED
      BY <1>10, <2>2, <3>1
  <2>3. CASE q = r /\ i # written[r] + 1
    <3>1. i \in 1 .. written[r]
      BY <1>4, <2>3
    <3>2. OffsetOf(r) + i \in (1 .. Len(flat)) \ {k}
      BY <1>1, <1>4, <1>5, <1>8, <3>1
    <3> QED
      BY <1>8, <1>10, <2>3, <3>1, <3>2
  <2>4. CASE q # r
    <3>1. i \in 1 .. written[q]
      BY <1>4, <2>4
    <3>2. q < r \/ r < q
      BY <2>4, RanksAre
    <3>3. OffsetOf(q) + i \in 1 .. Len(flat)
      BY <1>4, <1>5, <1>8, <2>1, <3>1
    <3>4. CASE q < r
      <4>1. OffsetOf(q) + Len(memory[q]) <= OffsetOf(r)
        BY <1>5, <3>4
      <4>2. OffsetOf(q) + i < k
        BY <1>4, <1>5, <2>1, <3>1, <4>1
      <4>3. OffsetOf(q) + i # k
        BY <1>9, <3>3, <4>2
      <4> QED
        BY <1>8, <1>10, <3>1, <3>3, <4>3
    <3>5. CASE r < q
      <4>1. OffsetOf(r) + Len(memory[r]) <= OffsetOf(q)
        BY <1>5, <3>5
      <4>2. k < OffsetOf(q) + i
        BY <1>1, <1>4, <1>5, <3>1, <4>1
      <4>3. OffsetOf(q) + i # k
        BY <1>9, <3>3, <4>2
      <4> QED
        BY <1>8, <1>10, <3>1, <3>3, <4>3
    <3> QED
      BY <3>2, <3>4, <3>5
  <2> QED
    BY <2>2, <2>3, <2>4
<1>13. FileInv'
  BY <1>1, <1>3, <1>8, <1>10, <1>11, <1>12 DEF FileInv
<1> QED
  BY <1>6, <1>13

(* Every step keeps what is written of them. *)
LEMMA BufferStep ==
  ASSUME TypeInv, MoreTypes, MoreTypes', PhaseInv, IdleInv, WrittenInv, FileInv, [Next]_vars
  PROVE  WrittenInv' /\ FileInv'
<1>0. 0 \in Rank /\ Rank \subseteq AllRanks
  BY RanksAre
<1>1. ASSUME NEW r \in Rank, Create(r) PROVE WrittenInv' /\ FileInv'
  <2>1. mode = "shared"
    BY <1>1, PhaseMode DEF Create
  <2> QED
    BY <1>1, <2>1, BufferOther DEF Create
<1>2. ASSUME NEW r \in Rank, NEW l \in {"loop", "emit", "gather"}, Goto(r, l) \/ UNCHANGED pc,
             pc[r] \in {"base", "loop", "emit"}, UNCHANGED <<mode, size, written>>
      PROVE  WrittenInv' /\ FileInv'
  <2>1. CASE mode = "buffered"
    <3>1. \A q \in Rank : pc[q] \in {"base", "loop", "emit", "gather"}
      BY <1>2, <2>1, BufferPhase
    <3>2. \A q \in Rank : pc'[q] \in {"base", "loop", "emit", "gather"}
      BY <1>0, <1>2, <3>1 DEF Goto, TypeInv
    <3> QED
      BY <1>2, <2>1, <3>1, <3>2, BufferEarly
  <2>2. CASE mode # "buffered"
    BY <1>2, <2>2, BufferOther
  <2> QED
    BY <2>1, <2>2
<1>3. ASSUME NEW r \in Rank, Base(r) PROVE WrittenInv' /\ FileInv'
  BY <1>2, <1>3 DEF Base
<1>4. ASSUME NEW r \in Rank, NEW c \in Upcoming(r), RunCase(r, c)
      PROVE  WrittenInv' /\ FileInv'
  <2>1. \E l \in {"loop", "emit"} : Goto(r, l)
    BY <1>4 DEF RunCase
  <2> QED
    BY <1>2, <1>4, <2>1 DEF RunCase
<1>21. ASSUME NEW r \in Rank, ClaimTask(r) PROVE WrittenInv' /\ FileInv'
  BY <1>2, <1>21 DEF ClaimTask
<1>22. ASSUME NEW r \in Rank, SolveWave(r) PROVE WrittenInv' /\ FileInv'
  BY <1>2, <1>22 DEF SolveWave
<1>5. ASSUME NEW r \in Rank, LoopDone(r) PROVE WrittenInv' /\ FileInv'
  <2>1. CASE mode = "buffered"
    BY <1>2, <1>5, <2>1 DEF LoopDone, volatile
  <2>2. CASE mode # "buffered"
    BY <1>5, <2>2, BufferOther DEF LoopDone
  <2> QED
    BY <2>1, <2>2
<1>6. ASSUME NEW r \in Rank, EnsureFile(r) \/ Flush(r) PROVE WrittenInv' /\ FileInv'
  <2>1. mode # "buffered" /\ UNCHANGED mode
    BY <1>6 DEF EnsureFile, Flush, IdleInv
  <2> QED
    BY <2>1, BufferOther
<1>7. ASSUME NEW r \in Rank, Close(r) PROVE WrittenInv' /\ FileInv'
  <2>1. mode # "buffered" /\ UNCHANGED mode
    BY <1>7, PhaseMode DEF Close
  <2> QED
    BY <2>1, BufferOther
<1>8. ASSUME NEW r \in Rank, WriteHeader(r) PROVE WrittenInv' /\ FileInv'
  <2>1. CASE r = 0
    BY <1>8, <2>1, BufferHeader
  <2>2. CASE r # 0
    <3>1. /\ UNCHANGED <<run, mode, size, memory, written, flat>> /\ pc[r] = "header"
          /\ \A q \in Rank : pc'[q] = IF q = r THEN "written" ELSE pc[q]
      BY <1>0, <1>8, <2>2 DEF WriteHeader, Goto, TypeInv, volatile
    <3> QED
      BY <1>0, <2>2, <3>1, BufferSame
  <2> QED
    BY <2>1, <2>2
<1>9. ASSUME NEW r \in Rank, WriteAt(r) PROVE WrittenInv' /\ FileInv'
  BY <1>9, BufferWrite
<1>10. ASSUME NEW r \in Rank, CloseFile(r) PROVE WrittenInv' /\ FileInv'
  <2>1. /\ UNCHANGED <<run, mode, size, memory, written, flat>> /\ pc[r] = "write"
        /\ written[r] = Len(memory[r])
        /\ \A q \in Rank : pc'[q] = IF q = r THEN "closed" ELSE pc[q]
    BY <1>0, <1>10 DEF CloseFile, Goto, TypeInv, volatile
  <2> QED
    BY <1>0, <2>1, BufferSame DEF Sized
<1>11. CASE ConcatPart \/ SkipPart \/ Merged
  <2>1. mode = "parts" /\ UNCHANGED mode
    BY <1>0, <1>11, PhaseMode DEF ConcatPart, SkipPart, Merged
  <2> QED
    BY <2>1, BufferOther
<1>12. CASE SyncCreated
  <2>1. mode = "shared" /\ UNCHANGED mode
    BY <1>0, <1>12, PhaseMode DEF SyncCreated, AllAt
  <2> QED
    BY <2>1, BufferOther
<1>13. CASE SetSize
  BY <1>13, BufferSize
<1>14. CASE SyncHeader
  <2>1. /\ UNCHANGED <<run, mode, size, memory, written, flat>>
        /\ \A q \in Rank : pc[q] = "written" /\ pc'[q] = "write"
    BY <1>0, <1>14 DEF SyncHeader, AllAt, AllGoto, volatile
  <2> QED
    BY <1>0, <2>1, BufferSame DEF Sized
<1>15. CASE SyncClosed
  <2>1. CASE mode = "buffered"
    <3>1. /\ UNCHANGED <<run, mode, size, memory, written, flat>>
          /\ \A q \in Rank : pc[q] = "closed" /\ pc'[q] = "done"
      BY <1>0, <1>15, <2>1 DEF SyncClosed, AllAt, volatile
    <3> QED
      BY <1>0, <3>1, BufferSame DEF Sized
  <2>2. CASE mode # "buffered"
    BY <1>15, <2>2, BufferOther DEF SyncClosed
  <2> QED
    BY <2>1, <2>2
<1>16. CASE Rerun
  <2>1. /\ pc' = FirstStep(mode', size') /\ size' \in 1 .. MaxRanks
        /\ memory' = NoCells /\ written' = [r \in AllRanks |-> 0]
    BY <1>16 DEF Rerun
  <2>2. Rank' \subseteq AllRanks /\ 0 \in Rank' /\ \A q \in Rank' : ~(q >= size')
    BY <2>1, NextRanks
  <2>3. \A q \in Rank' : /\ pc'[q] \in {"create", "base"} /\ written'[q] = 0 /\ Len(memory'[q]) = 0
    BY <2>1, <2>2 DEF FirstStep, NoCells
  <2> QED
    BY <2>2, <2>3 DEF WrittenInv, FileInv, Sized
<1>17. CASE UNCHANGED vars
  BY <1>17, BufferSame DEF vars, volatile
<1>18. ASSUME NEW r \in Rank, Step(r) PROVE WrittenInv' /\ FileInv'
  BY <1>18, <1>21, <1>22, <1>1, <1>3, <1>4, <1>5, <1>6, <1>7, <1>8, <1>9, <1>10, <1>11 DEF Step
<1> QED
  BY <1>12, <1>13, <1>14, <1>15, <1>16, <1>17, <1>18 DEF Next, Collective

-----------------------------------------------------------------------------
(* The inductive invariant of the cells. *)
CellInv ==
  /\ IInv /\ MoreTypes /\ RowInv /\ PhaseInv /\ IdleInv /\ ClaimInv /\ AlignInv
  /\ SharedInv
  /\ StreamInv /\ MergedInv
  /\ MemoryInv /\ WrittenInv /\ FileInv

(* It holds at the start. *)
LEMMA InitCellInv ==
  ASSUME Init
  PROVE  CellInv
<1>1. IInv /\ TypeInv
  BY InitIInv DEF IInv
<1>2. /\ Rank \subseteq AllRanks /\ 0 \in Rank /\ run = 1
      /\ \A q \in AllRanks : pending[q] = <<>> /\ memory[q] = <<>> /\ wrote[q] = <<>> /\ written[q] = 0
      /\ opened = {} /\ parts = [r \in {} |-> <<>>] /\ flat = <<>> /\ nextId = 1
      /\ \A q \in AllRanks : myTasks[q] = {} /\ retained[q] = {}
  BY <1>1, RanksAre DEF Init, NoCells, NoCases
<1>3. \A r \in Rank : pc[r] = IF mode = "shared" THEN "create" ELSE "base"
  <2>1. \A r \in Rank : ~(r >= size)
    BY <1>1, RanksAre
  <2> QED
    BY <1>2, <2>1 DEF Init, FirstStep
<1>4. \A R : <<>> \in Seq(R)
  BY EmptySeq
<1>5. MoreTypes
  BY <1>4 DEF Init, MoreTypes, NoCells, NoCases
<1>6. RowInv
  BY <1>2, <1>4 DEF RowInv, Stale
<1>7. PhaseInv
  <2> DEFINE P == IF mode = "shared" THEN {"create", "created"}
                  ELSE IF mode = "parts" THEN {"base", "loop", "emit", "close", "closed"}
                  ELSE {"base", "loop", "emit", "gather"}
  <2>1. P \in Phases(mode)
    BY DEF Phases
  <2>2. \A r \in Rank : pc[r] \in P
    BY <1>3
  <2> HIDE DEF P
  <2> QED
    BY <2>1, <2>2 DEF PhaseInv
<1>8. IdleInv /\ ClaimInv
  BY <1>2 DEF IdleInv, ClaimInv
<1>9. \A q \in AllRanks : Conveys(run, <<>>, q, <<>>) /\ Unbroken(run, <<>>)
  <2> TAKE q \in AllRanks
  <2>1. q \in Nat /\ <<>> \in Seq(Nat) /\ run \in Nat
    BY <1>2 DEF AllRanks
  <2>2. Own(run, <<>>, q) = {}
    BY DEF Own
  <2> QED
    BY <2>1, <2>2, ConveysNone, NothingAligned
<1>10. AlignInv
  BY <1>2, <1>9, NothingAligned DEF AlignInv
<1>11. SharedInv
  BY <1>2, <1>3 DEF SharedInv
<1>12. StreamInv
  <2>1. \A r \in Rank : Waiting(r)
    BY <1>2, <1>9 DEF Waiting, Stale
  <2> QED
    BY <2>1 DEF StreamInv
<1>13. MergedInv /\ FileInv
  BY <1>2, <1>3 DEF MergedInv, FileInv, Sized
<1>14. MemoryInv
  BY <1>2, <1>9 DEF MemoryInv
<1>15. WrittenInv
  BY <1>2, <1>3 DEF WrittenInv
<1> QED
  BY <1>1, <1>5, <1>6, <1>7, <1>8, <1>10, <1>11, <1>12, <1>13, <1>14, <1>15
     DEF CellInv

(* Where every cell is, at every point of every execution. *)
THEOREM CellsInductive == Spec => []CellInv
<1>1. Init => CellInv
  BY InitCellInv
<1>2. CellInv /\ [Next]_vars => CellInv'
  <2> SUFFICES ASSUME CellInv, [Next]_vars PROVE CellInv'
    OBVIOUS
  <2>1. /\ IInv /\ MoreTypes /\ RowInv /\ PhaseInv /\ IdleInv /\ ClaimInv /\ AlignInv
        /\ SharedInv
        /\ StreamInv /\ MergedInv /\ MemoryInv /\ WrittenInv /\ FileInv
    BY DEF CellInv
  <2>2. TypeInv /\ WholeInv /\ PartsInv /\ OpenInv /\ MergeInv /\ PartInv /\ PlaceInv
    BY <2>1 DEF IInv
  <2>3. IInv'
    BY <2>2, TypeStep, PartsStep, PlaceStep DEF IInv
  <2>4. MoreTypes'
    BY <2>1, <2>2, MoreStep
  <2>5. RowInv'
    BY <2>1, <2>2, RowStep
  <2>6. PhaseInv'
    BY <2>1, <2>2, PhaseStep
  <2>7. IdleInv' /\ ClaimInv'
    BY <2>1, <2>2, IdleStep, ClaimStep
  <2>8. AlignInv'
    BY <2>1, <2>2, AlignStep
  <2>9. SharedInv'
    BY <2>1, <2>2, SharedStep
  <2>10. StreamInv'
    BY <2>1, <2>2, StreamStep
  <2>11. MergedInv'
    BY <2>1, <2>2, MergedStep
  <2>12. MemoryInv'
    BY <2>1, <2>2, MemoryStep
  <2>13. WrittenInv' /\ FileInv'
    BY <2>1, <2>2, <2>4, BufferStep
  <2> QED
    BY <2>3, <2>4, <2>5, <2>6, <2>7, <2>8, <2>9, <2>10, <2>11, <2>12, <2>13
       DEF CellInv
<1> QED
  BY <1>1, <1>2, PTL DEF Spec

(* What the file is in the end, in each of the three ways. *)
LEMMA SharedEnd ==
  ASSUME CellInv, Finished, mode = "shared"
  PROVE  /\ flat # <<>> /\ flat[1] = Header /\ (whole => Unbroken(run, flat))
         /\ \A i \in DOMAIN flat : flat[i].run = run
         /\ \A r \in Rank : Conveys(run, flat, r, wrote[r])
<1>1. TypeInv /\ MoreTypes /\ IdleInv /\ SharedInv
  BY DEF CellInv, IInv
<1>2. 0 \in Rank /\ \A r \in Rank : pc[r] = "done" /\ pending[r] = <<>>
  BY <1>1, RanksAre DEF Finished, AllAt, IdleInv
<1>3. flat \o <<>> = flat
  BY <1>1, Concats DEF MoreTypes
<1> QED
  BY <1>1, <1>2, <1>3 DEF SharedInv

(* The same of part files, where what else there is may be of ranks       *)
(* without blocks.                                                         *)
LEMMA PartsEnd ==
  ASSUME CellInv, Finished, mode = "parts"
  PROVE  /\ flat # <<>> /\ flat[1] = Header /\ Unbroken(run, flat)
         /\ \A i \in DOMAIN flat :
              flat[i].run = run \/ (flat[i].run # 0 /\ wrote[flat[i].rank] = <<>>)
         /\ \A r \in Rank : Conveys(run, flat, r, wrote[r])
<1>1. TypeInv /\ MoreTypes /\ MergeInv /\ MergedInv
  BY DEF CellInv, IInv
<1>2. 0 \in Rank /\ Rank = 0 .. (size - 1) /\ pc[0] = "done"
  BY <1>1, RanksAre DEF Finished, AllAt
<1>3. part = size
  BY <1>1, <1>2 DEF MergeInv
<1>4. \A r \in Rank : Conveys(run, flat, r, wrote[r])
  BY <1>1, <1>2, <1>3 DEF MergedInv
<1>5. /\ flat # <<>> /\ flat[1] = Header /\ Unbroken(run, flat)
      /\ \A i \in DOMAIN flat :
           i > 1 => flat[i].run = run \/ (flat[i].run # 0 /\ wrote[flat[i].rank] = <<>>)
  BY <1>1, <1>2 DEF MergedInv
<1>6. \A i \in DOMAIN flat : i = 1 \/ i > 1
  BY <1>1, LenProperties DEF MoreTypes
<1>7. Header.run = run
  BY DEF Header
<1> QED
  BY <1>4, <1>5, <1>6, <1>7

(* The same of a buffered file. *)
LEMMA BufferedEnd ==
  ASSUME CellInv, Finished, mode = "buffered"
  PROVE  /\ flat # <<>> /\ flat[1] = Header /\ Unbroken(run, flat)
         /\ \A i \in DOMAIN flat : flat[i].run = run
         /\ \A r \in Rank : Conveys(run, flat, r, wrote[r])
BY FileIs DEF CellInv, IInv

(* One of the three it is. *)
LEMMA ModesAre ==
  ASSUME CellInv
  PROVE  mode \in {"shared", "parts", "buffered"}
BY FlatAssumption DEF CellInv, IInv, TypeInv

(* Every block that a rank wrote is in the file once and in order, behind  *)
(* the header.                                                             *)
THEOREM BlocksAreInOnce == Spec => []EveryBlockOnce
<1>1. CellInv => EveryBlockOnce
  BY ModesAre, SharedEnd, PartsEnd, BufferedEnd DEF EveryBlockOnce
<1> QED
  BY <1>1, CellsInductive, PTL

(* No block is torn, unless the file is shared and the file system tears   *)
(* appends.                                                                *)
THEOREM BlocksAreWhole == Spec => []BlocksWhole
<1>1. CellInv => BlocksWhole
  BY ModesAre, SharedEnd, PartsEnd, BufferedEnd DEF BlocksWhole
<1> QED
  BY <1>1, CellsInductive, PTL

(* What is of an earlier execution came with the part file of a rank that  *)
(* wrote no block in this one.                                             *)
THEOREM StaleIsFromIdle == Spec => []StaleOnlyFromIdle
<1>1. CellInv => StaleOnlyFromIdle
  BY ModesAre, SharedEnd, PartsEnd, BufferedEnd DEF StaleOnlyFromIdle
<1> QED
  BY <1>1, CellsInductive, PTL

=============================================================================
