----------------------------- MODULE RadixProofs ------------------------------
(***************************************************************************)
(* The radix backend for any keys, labels and sizes of arrays.             *)
(***************************************************************************)
EXTENDS Radix, FiniteOrder, SequenceTheorems, TLAPS

AnyEdge == [label : Label, child : Nat \ {0}]
AnyNode == [edges : Seq(AnyEdge), cap : Nat, value : Nat]

-----------------------------------------------------------------------------
(* Sequences. *)

LEMMA InsertFacts ==
  ASSUME NEW T, NEW s \in Seq(T), NEW p \in 1 .. Len(s) + 1, NEW x \in T
  PROVE  /\ InsertAt(s, p, x) \in Seq(T) /\ Len(InsertAt(s, p, x)) = Len(s) + 1
         /\ \A k \in 1 .. p - 1 : InsertAt(s, p, x)[k] = s[k]
         /\ InsertAt(s, p, x)[p] = x
         /\ \A k \in p .. Len(s) : InsertAt(s, p, x)[k + 1] = s[k]
<1> DEFINE front == SubSeq(s, 1, p - 1)
           back == SubSeq(s, p, Len(s))
           upTo == front \o <<x>>
<1>1. Len(s) \in Nat /\ \A k \in 1 .. Len(s) : s[k] \in T
  BY LenProperties
<1>2. /\ front \in Seq(T) /\ Len(front) = p - 1
      /\ \A k \in 1 .. p - 1 : front[k] = s[k]
  <2>1. \A k \in 1 .. p - 1 : s[k] \in T
    BY <1>1
  <2>2. /\ front \in Seq(T) /\ Len(front) = IF 1 <= p - 1 THEN p - 1 - 1 + 1 ELSE 0
        /\ \A k \in 1 .. p - 1 - 1 + 1 : front[k] = s[1 + k - 1]
    BY <1>1, <2>1, SubSeqProperties
  <2> HIDE DEF front
  <2> QED
    BY <1>1, <2>2
<1>3. /\ back \in Seq(T) /\ Len(back) = Len(s) - p + 1
      /\ \A k \in 1 .. Len(s) - p + 1 : back[k] = s[p + k - 1]
  <2>1. \A k \in p .. Len(s) : s[k] \in T
    BY <1>1
  <2>2. /\ back \in Seq(T) /\ Len(back) = IF p <= Len(s) THEN Len(s) - p + 1 ELSE 0
        /\ \A k \in 1 .. Len(s) - p + 1 : back[k] = s[p + k - 1]
    BY <1>1, <2>1, SubSeqProperties
  <2> HIDE DEF back
  <2> QED
    BY <1>1, <2>2
<1>4. <<x>> \in Seq(T) /\ Len(<<x>>) = 1 /\ <<x>>[1] = x
  OBVIOUS
<1> HIDE DEF front, back
<1>5. /\ upTo \in Seq(T) /\ Len(upTo) = p /\ upTo[p] = x
      /\ \A k \in 1 .. p - 1 : upTo[k] = s[k]
  <2>1. /\ upTo \in Seq(T) /\ Len(upTo) = Len(front) + 1
        /\ \A k \in 1 .. Len(front) + 1 :
             upTo[k] = IF k <= Len(front) THEN front[k] ELSE <<x>>[k - Len(front)]
    BY <1>2, <1>4, ConcatProperties
  <2> HIDE DEF upTo
  <2>2. upTo[p] = <<x>>[p - (p - 1)]
    BY <1>1, <1>2, <2>1
  <2>3. p - (p - 1) = 1
    BY <1>1
  <2> QED
    BY <1>1, <1>2, <1>4, <2>1, <2>2, <2>3
<1> HIDE DEF upTo
<1> DEFINE t == upTo \o back
<1>6. /\ t \in Seq(T) /\ Len(t) = p + Len(back)
      /\ \A k \in 1 .. p + Len(back) : t[k] = IF k <= p THEN upTo[k] ELSE back[k - p]
  BY <1>3, <1>5, ConcatProperties
<1> HIDE DEF t
<1>7. InsertAt(s, p, x) = t
  BY DEF InsertAt, t, upTo, front, back
<1>8. \A k \in p .. Len(s) : t[k + 1] = s[k]
  <2> SUFFICES ASSUME NEW k \in p .. Len(s) PROVE t[k + 1] = s[k]
    OBVIOUS
  <2>1. k + 1 - p \in 1 .. Len(s) - p + 1 /\ p + (k + 1 - p) - 1 = k /\ ~(k + 1 <= p)
        /\ k + 1 \in 1 .. p + Len(back)
    BY <1>1, <1>3
  <2>2. t[k + 1] = back[k + 1 - p]
    BY <1>6, <2>1
  <2> QED
    BY <1>3, <2>1, <2>2
<1>9. /\ Len(t) = Len(s) + 1 /\ t[p] = x /\ \A k \in 1 .. p - 1 : t[k] = s[k]
  BY <1>1, <1>3, <1>5, <1>6
<1> QED
  BY <1>6, <1>7, <1>8, <1>9

LEMMA Joined ==
  ASSUME NEW Z, NEW a \in Seq(Z), NEW b \in Seq(Z)
  PROVE  /\ a \o b \in Seq(Z) /\ Len(a \o b) = Len(a) + Len(b)
         /\ \A k \in 1 .. Len(a) : (a \o b)[k] = a[k]
         /\ \A k \in 1 .. Len(b) : (a \o b)[Len(a) + k] = b[k]
<1> DEFINE t == a \o b
<1>1. Len(a) \in Nat /\ Len(b) \in Nat
  BY LenProperties
<1>2. /\ t \in Seq(Z) /\ Len(t) = Len(a) + Len(b)
      /\ \A k \in 1 .. Len(a) + Len(b) : t[k] = IF k <= Len(a) THEN a[k] ELSE b[k - Len(a)]
  BY ConcatProperties
<1> HIDE DEF t
<1>3. \A k \in 1 .. Len(a) : t[k] = a[k]
  BY <1>1, <1>2
<1>4. ASSUME NEW k \in 1 .. Len(b) PROVE t[Len(a) + k] = b[k]
  <2>1. Len(a) + k \in 1 .. Len(a) + Len(b) /\ ~(Len(a) + k <= Len(a)) /\ Len(a) + k - Len(a) = k
    BY <1>1
  <2> QED
    BY <1>2, <2>1
<1> QED
  BY <1>2, <1>3, <1>4 DEF t

LEMMA Labels == \A l \in Label : l \in Int
BY RadixConstants

LEMMA EdgeLabels ==
  ASSUME NEW E \in Seq(AnyEdge)
  PROVE  Len(E) \in Nat /\ \A d \in 1 .. Len(E) : E[d].label \in Label /\ E[d].label \in Int
<1>1. Len(E) \in Nat /\ \A d \in 1 .. Len(E) : E[d] \in AnyEdge
  BY LenProperties
<1> QED
  BY <1>1, Labels DEF AnyEdge

\* The search of an edge finds the lower bound of a label.
LEMMA NotBelowFacts ==
  ASSUME NEW E \in Seq(AnyEdge), NEW l \in Int
  PROVE  /\ FirstNotBelow(E, l) \in 1 .. Len(E) + 1
         /\ \A d \in 1 .. FirstNotBelow(E, l) - 1 : E[d].label < l
         /\ FirstNotBelow(E, l) <= Len(E) => E[FirstNotBelow(E, l)].label >= l
<1> DEFINE S == {p \in 1 .. Len(E) + 1 : p <= Len(E) => E[p].label >= l}
<1>1. Len(E) \in Nat /\ \A d \in 1 .. Len(E) : E[d].label \in Int
  BY EdgeLabels
<1>2. S \in SUBSET Nat /\ S # {}
  <2>1. Len(E) + 1 \in S
    BY <1>1
  <2> QED
    BY <1>1, <2>1
<1>3. PICK p \in S : \A d \in S : p <= d
  BY <1>2, LeastNatural
<1>4. FirstNotBelow(E, l) \in S /\ \A d \in S : FirstNotBelow(E, l) <= d
  <2>1. FirstNotBelow(E, l) = Min(S)
    BY DEF FirstNotBelow
  <2> HIDE DEF S
  <2> QED
    BY <1>3, <2>1 DEF Min
<1> DEFINE q == FirstNotBelow(E, l)
<1>5. q \in 1 .. Len(E) + 1 /\ (q <= Len(E) => E[q].label >= l)
  BY <1>4
<1>6. ASSUME NEW d \in 1 .. q - 1 PROVE E[d].label < l
  <2>1. d \in 1 .. Len(E) /\ ~(q <= d)
    BY <1>1, <1>5
  <2>2. d \notin S
    BY <1>4, <2>1
  <2>3. ~(E[d].label >= l)
    BY <1>1, <2>1, <2>2
  <2> QED
    BY <1>1, <2>1, <2>3
<1> QED
  BY <1>5, <1>6

-----------------------------------------------------------------------------
(* The tree. *)

\* The e-th of the edges of node n leads to a younger one of the `size' nodes, and
\* to a word that is longer by its label.  The labels before it are smaller.
Fits(edges, w, n, e, size) ==
  /\ edges[e].child \in n + 1 .. size
  /\ w[edges[e].child] = Append(w[n], edges[e].label)
  /\ \A d \in 1 .. e - 1 : edges[d].label < edges[e].label

\* The nodes are a tree, in which w says what word leads to each of them.
IsTree(N, w) ==
  /\ N \in Seq(AnyNode) /\ Len(N) >= 1
  /\ w \in [1 .. Len(N) -> Seq(Label)] /\ w[Root] = <<>>
  /\ \A m, n \in 1 .. Len(N) : w[m] = w[n] => m = n
  /\ \A n \in 1 .. Len(N) : \A e \in 1 .. Len(N[n].edges) : Fits(N[n].edges, w, n, e, Len(N))
  /\ \A c \in 2 .. Len(N) : \E n \in 1 .. Len(N) : \E e \in 1 .. Len(N[n].edges) : N[n].edges[e].child = c

LEMMA TreeTypes ==
  ASSUME NEW N, NEW w, IsTree(N, w)
  PROVE  /\ Len(N) \in Nat /\ Len(N) >= 1 /\ DOMAIN N = 1 .. Len(N) /\ Root \in 1 .. Len(N)
         /\ \A n \in 1 .. Len(N) :
              /\ w[n] \in Seq(Label) /\ N[n] \in AnyNode /\ N[n].edges \in Seq(AnyEdge)
              /\ Len(N[n].edges) \in Nat /\ DOMAIN N[n].edges = 1 .. Len(N[n].edges)
              /\ \A e \in 1 .. Len(N[n].edges) :
                   N[n].edges[e] \in AnyEdge /\ N[n].edges[e].label \in Label /\ N[n].edges[e].label \in Int
<1>1. N \in Seq(AnyNode) /\ Len(N) >= 1 /\ w \in [1 .. Len(N) -> Seq(Label)]
  BY DEF IsTree
<1>2. Len(N) \in Nat /\ DOMAIN N = 1 .. Len(N) /\ \A n \in 1 .. Len(N) : N[n] \in AnyNode
  BY <1>1, LenProperties
<1>3. ASSUME NEW n \in 1 .. Len(N)
      PROVE  /\ N[n].edges \in Seq(AnyEdge) /\ Len(N[n].edges) \in Nat
             /\ DOMAIN N[n].edges = 1 .. Len(N[n].edges)
             /\ \A e \in 1 .. Len(N[n].edges) :
                  N[n].edges[e] \in AnyEdge /\ N[n].edges[e].label \in Label /\ N[n].edges[e].label \in Int
  <2>1. N[n].edges \in Seq(AnyEdge)
    BY <1>2 DEF AnyNode
  <2>2. Len(N[n].edges) \in Nat /\ DOMAIN N[n].edges = 1 .. Len(N[n].edges)
        /\ \A e \in 1 .. Len(N[n].edges) : N[n].edges[e] \in AnyEdge
    BY <2>1, LenProperties
  <2> QED
    BY <2>1, <2>2, Labels DEF AnyEdge
<1> QED
  BY <1>1, <1>2, <1>3 DEF Root

\* New capacities and values leave it a tree.
LEMMA TreeKept ==
  ASSUME NEW N, NEW w, IsTree(N, w), NEW M \in Seq(AnyNode), Len(M) = Len(N),
         \A n \in 1 .. Len(N) : M[n].edges = N[n].edges
  PROVE  IsTree(M, w)
<1>1. ASSUME NEW n \in 1 .. Len(M), NEW e \in 1 .. Len(M[n].edges)
      PROVE  Fits(M[n].edges, w, n, e, Len(M))
  <2>1. n \in 1 .. Len(N) /\ M[n].edges = N[n].edges /\ e \in 1 .. Len(N[n].edges)
    OBVIOUS
  <2> QED
    BY <2>1 DEF IsTree
<1>2. ASSUME NEW c \in 2 .. Len(M)
      PROVE  \E n \in 1 .. Len(M) : \E e \in 1 .. Len(M[n].edges) : M[n].edges[e].child = c
  <2>1. PICK n \in 1 .. Len(N) : \E e \in 1 .. Len(N[n].edges) : N[n].edges[e].child = c
    BY DEF IsTree
  <2>2. M[n].edges = N[n].edges
    BY <2>1
  <2> QED
    BY <2>1, <2>2
<1>3. /\ w \in [1 .. Len(M) -> Seq(Label)] /\ w[Root] = <<>> /\ Len(M) >= 1
      /\ \A m, n \in 1 .. Len(M) : w[m] = w[n] => m = n
  BY DEF IsTree
<1> QED
  BY <1>1, <1>2, <1>3 DEF IsTree

\* The first edge of the label sought is found, and only that.
LEMMA LowerBound ==
  ASSUME NEW E \in Seq(AnyEdge), NEW l \in Int, NEW e \in 1 .. Len(E), E[e].label = l,
         \A d \in 1 .. e - 1 : E[d].label < l
  PROVE  FirstNotBelow(E, l) = e
<1> DEFINE q == FirstNotBelow(E, l)
<1>1. /\ q \in 1 .. Len(E) + 1 /\ \A d \in 1 .. q - 1 : E[d].label < l
      /\ q <= Len(E) => E[q].label >= l
  BY NotBelowFacts
<1>2. Len(E) \in Nat
  BY LenProperties
<1> HIDE DEF q
<1>3. ~(e < q)
  <2> SUFFICES ASSUME e < q PROVE FALSE
    OBVIOUS
  <2>1. e \in 1 .. q - 1
    BY <1>1, <1>2
  <2>2. E[e].label < l
    BY <1>1, <2>1
  <2> QED
    BY <2>2
<1>4. ~(q < e)
  <2> SUFFICES ASSUME q < e PROVE FALSE
    OBVIOUS
  <2>1. q \in 1 .. e - 1 /\ q <= Len(E)
    BY <1>1, <1>2
  <2>2. E[q].label < l /\ E[q].label >= l
    BY <1>1, <2>1
  <2>3. E[q].label \in Int
    <3>1. E[q] \in AnyEdge
      BY <1>1, <2>1, ElementOfSeq
    <3> QED
      BY <3>1, Labels DEF AnyEdge
  <2> QED
    BY <2>2, <2>3
<1>5. q = e
  BY <1>1, <1>2, <1>3, <1>4
<1> QED
  BY <1>5 DEF q

\* An edge to a new node: what the arrays are then.
Grows(N, M, n, l, c) ==
  /\ M \in Seq(AnyNode) /\ Len(M) = Len(N) + 1
  /\ \A m \in 1 .. Len(N) : m # n => M[m].edges = N[m].edges
  /\ \A m \in 1 .. Len(N) : M[m].value = N[m].value
  /\ \A m \in 1 .. Len(N) : M[m].cap = IF m = n THEN c ELSE N[m].cap
  /\ M[Len(N) + 1] = NewNode
  /\ M[n].edges = InsertAt(N[n].edges, FirstNotBelow(N[n].edges, l), [label |-> l, child |-> Len(N) + 1])

LEMMA NodeAppended ==
  ASSUME NEW K \in Seq(AnyNode)
  PROVE  /\ Append(K, NewNode) \in Seq(AnyNode) /\ Len(Append(K, NewNode)) = Len(K) + 1
         /\ \A m \in 1 .. Len(K) : Append(K, NewNode)[m] = K[m]
         /\ Append(K, NewNode)[Len(K) + 1] = NewNode
<1>1. NewNode \in AnyNode
  <2>1. <<>> \in Seq(AnyEdge)
    OBVIOUS
  <2> QED
    BY <2>1 DEF NewNode, AnyNode, None
<1> QED
  BY <1>1, AppendProperties

LEMMA AddNodeGrows ==
  ASSUME NEW N \in Seq(AnyNode), NEW n \in 1 .. Len(N), NEW l \in Label, NEW c \in Nat
  PROVE  Grows(N, Append([N EXCEPT
                       ![n].edges = InsertAt(N[n].edges, FirstNotBelow(N[n].edges, l),
                                             [label |-> l, child |-> Len(N) + 1]),
                       ![n].cap = c], NewNode), n, l, c)
<1> DEFINE x == [label |-> l, child |-> Len(N) + 1]
           E == N[n].edges
           E2 == InsertAt(E, FirstNotBelow(E, l), x)
           y == [N[n] EXCEPT !.edges = E2, !.cap = c]
           K == [N EXCEPT ![n] = y]
           M == Append(K, NewNode)
<1>1. Len(N) \in Nat /\ N[n] \in AnyNode
  BY LenProperties
<1>2. E \in Seq(AnyEdge) /\ x \in AnyEdge
  BY <1>1 DEF AnyNode, AnyEdge
<1>3. E2 \in Seq(AnyEdge)
  <2>1. FirstNotBelow(E, l) \in 1 .. Len(E) + 1
    BY <1>2, Labels, NotBelowFacts
  <2> HIDE DEF x, E
  <2> QED
    BY <1>2, <2>1, InsertFacts
<1> HIDE DEF x, E2
<1>4. y \in AnyNode /\ y.edges = E2 /\ y.cap = c /\ y.value = N[n].value
  BY <1>1, <1>3 DEF AnyNode
<1>5. M = Append([N EXCEPT
               ![n].edges = InsertAt(N[n].edges, FirstNotBelow(N[n].edges, l),
                                     [label |-> l, child |-> Len(N) + 1]),
               ![n].cap = c], NewNode)
  <2>1. [N EXCEPT ![n].edges = E2, ![n].cap = c] = K
    BY <1>1
  <2> QED
    BY <2>1 DEF E2, x
<1> HIDE DEF y
<1>6. K \in Seq(AnyNode) /\ Len(K) = Len(N) /\ \A m \in 1 .. Len(N) : K[m] = IF m = n THEN y ELSE N[m]
  BY <1>4, ExceptSeq
<1> HIDE DEF K
<1>8. /\ M \in Seq(AnyNode) /\ Len(M) = Len(N) + 1 /\ M[Len(N) + 1] = NewNode
      /\ \A m \in 1 .. Len(N) : M[m] = IF m = n THEN y ELSE N[m]
  BY <1>6, NodeAppended
<1> HIDE DEF M
<1>9. M[n] = y
  BY <1>8
<1>10. M[n].edges = InsertAt(N[n].edges, FirstNotBelow(N[n].edges, l), [label |-> l, child |-> Len(N) + 1])
  BY <1>4, <1>9 DEF E2, x, E
<1>11. \A m \in 1 .. Len(N) :
         /\ m # n => M[m].edges = N[m].edges
         /\ M[m].value = N[m].value /\ M[m].cap = IF m = n THEN c ELSE N[m].cap
  BY <1>4, <1>8
<1>12. M \in Seq(AnyNode) /\ Len(M) = Len(N) + 1 /\ M[Len(N) + 1] = NewNode
  BY <1>8
<1> HIDE DEF E
<1>13. Grows(N, M, n, l, c)
  BY <1>10, <1>11, <1>12 DEF Grows
<1> QED
  BY <1>5, <1>13

\* A word that goes on from another one by a label is at a child of its node.
LEMMA ParentOf ==
  ASSUME NEW N, NEW w, IsTree(N, w), NEW n \in 1 .. Len(N), NEW c \in 1 .. Len(N), NEW l \in Label,
         w[c] = Append(w[n], l)
  PROVE  \E e \in 1 .. Len(N[n].edges) : N[n].edges[e].child = c /\ N[n].edges[e].label = l
<1>1. Len(N) \in Nat /\ w[n] \in Seq(Label) /\ w[Root] = <<>> /\ \A m \in 1 .. Len(N) : w[m] \in Seq(Label)
  BY TreeTypes DEF IsTree
<1>2. c \in 2 .. Len(N)
  <2>1. w[c] # <<>>
    BY <1>1, AppendProperties
  <2>2. c # 1
    BY <1>1, <2>1 DEF Root
  <2> QED
    BY <1>1, <2>2
<1>3. PICK m \in 1 .. Len(N) : \E e \in 1 .. Len(N[m].edges) : N[m].edges[e].child = c
  BY <1>2 DEF IsTree
<1>4. PICK e \in 1 .. Len(N[m].edges) : N[m].edges[e].child = c
  BY <1>3
<1>5. Fits(N[m].edges, w, m, e, Len(N)) /\ N[m].edges[e].label \in Label
  BY TreeTypes DEF IsTree
<1>6. w[c] = Append(w[m], N[m].edges[e].label)
  BY <1>4, <1>5 DEF Fits
<1>7. w[m] = w[n] /\ N[m].edges[e].label = l
  <2>1. w[m] \in Seq(Label) /\ w[n] \in Seq(Label) /\ N[m].edges[e].label \in Label
    BY <1>1, <1>5
  <2>2. Append(w[m], N[m].edges[e].label) = Append(w[n], l)
    BY <1>6
  <2>3. \A a, b \in Seq(Label) : \A x, y \in Label : Append(a, x) = Append(b, y) => a = b /\ x = y
    BY AppendInjective
  <2> DEFINE a == w[m]
             b == w[n]
             x == N[m].edges[e].label
  <2>4. a \in Seq(Label) /\ b \in Seq(Label) /\ x \in Label /\ Append(a, x) = Append(b, l)
    BY <2>1, <2>2
  <2> HIDE DEF a, b, x
  <2>5. a = b /\ x = l
    BY <2>3, <2>4
  <2> QED
    BY <2>5 DEF a, b, x
<1>8. m = n
  BY <1>7 DEF IsTree
<1> QED
  BY <1>4, <1>7, <1>8

\* The labels from the place of a new edge on are greater than its own.
LEMMA Above ==
  ASSUME NEW E \in Seq(AnyEdge), NEW l \in Int,
         \A e \in 1 .. Len(E) : E[e].label # l /\ \A d \in 1 .. e - 1 : E[d].label < E[e].label
  PROVE  \A e \in FirstNotBelow(E, l) .. Len(E) : E[e].label > l
<1> DEFINE p == FirstNotBelow(E, l)
<1> SUFFICES ASSUME NEW e \in p .. Len(E) PROVE E[e].label > l
  OBVIOUS
<1>1. p \in 1 .. Len(E) + 1 /\ (p <= Len(E) => E[p].label >= l) /\ Len(E) \in Nat
  BY NotBelowFacts, LenProperties
<1> HIDE DEF p
<1>2. \A d \in 1 .. Len(E) : E[d].label \in Int
  <2>1. \A d \in 1 .. Len(E) : E[d] \in AnyEdge
    BY LenProperties
  <2>2. \A x \in AnyEdge : x.label \in Int
    BY Labels DEF AnyEdge
  <2> QED
    BY <2>1, <2>2
<1>3. p \in 1 .. Len(E) /\ e \in 1 .. Len(E) /\ p <= e
  BY <1>1
<1>4. E[p].label > l
  BY <1>1, <1>2, <1>3
<1>5. CASE p = e
  BY <1>4, <1>5
<1>6. CASE p < e
  <2>1. p \in 1 .. e - 1
    BY <1>3, <1>6
  <2>2. E[p].label < E[e].label
    BY <1>3, <2>1
  <2> QED
    BY <1>2, <1>3, <1>4, <2>2
<1> QED
  BY <1>3, <1>5, <1>6

LEMMA TreeGrows ==
  ASSUME NEW N, NEW w, IsTree(N, w), NEW n \in 1 .. Len(N), NEW l \in Label, NEW cap,
         \A e \in 1 .. Len(N[n].edges) : N[n].edges[e].label # l,
         NEW M, Grows(N, M, n, l, cap)
  PROVE  IsTree(M, [k \in 1 .. Len(N) + 1 |-> IF k = Len(N) + 1 THEN Append(w[n], l) ELSE w[k]])
<1> DEFINE s == Len(N)
           E == N[n].edges
           F == M[n].edges
           p == FirstNotBelow(E, l)
           x == [label |-> l, child |-> Len(N) + 1]
           v == [k \in 1 .. s + 1 |-> IF k = s + 1 THEN Append(w[n], l) ELSE w[k]]
<1>1. /\ s \in Nat /\ s >= 1 /\ l \in Int /\ E \in Seq(AnyEdge) /\ Len(E) \in Nat
      /\ \A m \in 1 .. s : w[m] \in Seq(Label)
      /\ \A m \in 1 .. s : Len(N[m].edges) \in Nat
  BY TreeTypes, Labels
<1>2. /\ M \in Seq(AnyNode) /\ Len(M) = s + 1 /\ F = InsertAt(E, p, x)
      /\ \A m \in 1 .. s : m # n => M[m].edges = N[m].edges
      /\ M[s + 1] = NewNode
  BY DEF Grows
<1>3. \A m \in 1 .. s : \A e \in 1 .. Len(N[m].edges) : Fits(N[m].edges, w, m, e, s)
  BY DEF IsTree
<1>4. p \in 1 .. Len(E) + 1 /\ \A d \in 1 .. p - 1 : E[d].label < l
  BY <1>1, NotBelowFacts
<1>5. \A e \in p .. Len(E) : E[e].label > l
  <2>1. \A e \in 1 .. Len(E) : \A d \in 1 .. e - 1 : E[d].label < E[e].label
    BY <1>3 DEF Fits
  <2> QED
    BY <1>1, <2>1, Above
<1>6. /\ F \in Seq(AnyEdge) /\ Len(F) = Len(E) + 1 /\ F[p] = x
      /\ \A k \in 1 .. p - 1 : F[k] = E[k]
      /\ \A k \in p .. Len(E) : F[k + 1] = E[k]
  <2>1. x \in AnyEdge
    BY <1>1 DEF AnyEdge
  <2> HIDE DEF x, E, p, F
  <2> QED
    BY <1>1, <1>2, <1>4, <2>1, InsertFacts
<1>7. x.label = l /\ x.child = s + 1
  OBVIOUS
<1>8. /\ v \in [1 .. s + 1 -> Seq(Label)] /\ v[s + 1] = Append(w[n], l)
      /\ \A m \in 1 .. s : v[m] = w[m]
  <2>1. Append(w[n], l) \in Seq(Label)
    BY <1>1, AppendProperties
  <2> QED
    BY <1>1, <2>1
<1>9. Len(M[s + 1].edges) = 0
  BY <1>2 DEF NewNode
<1> HIDE DEF s, F, p, x, v
<1>10. n \in 1 .. s
  BY DEF s
\* The edges of n are its old ones and the new one.
<1>11. ASSUME NEW e \in 1 .. Len(F) PROVE Fits(F, v, n, e, s + 1)
  <2>1. \A k \in 1 .. Len(E) :
          /\ E[k].child \in n + 1 .. s /\ v[E[k].child] = Append(v[n], E[k].label)
          /\ E[k].label \in Int
          /\ \A d \in 1 .. k - 1 : E[d].label < E[k].label
    <3> TAKE k \in 1 .. Len(E)
    <3>1. Fits(E, w, n, k, s) /\ E[k].label \in Int
      BY <1>3, <1>10, TreeTypes DEF s
    <3>2. E[k].child \in 1 .. s
      BY <1>10, <3>1 DEF Fits
    <3> HIDE DEF E
    <3> QED
      BY <1>8, <1>10, <3>1, <3>2 DEF Fits
  <2> HIDE DEF E
  <2>2. CASE e < p
    <3>1. e \in 1 .. p - 1 /\ e \in 1 .. Len(E) /\ \A d \in 1 .. e - 1 : d \in 1 .. p - 1
      BY <1>1, <1>4, <2>2
    <3>2. F[e] = E[e] /\ \A d \in 1 .. e - 1 : F[d] = E[d]
      BY <1>6, <3>1
    <3>3. E[e].child \in n + 1 .. s + 1
      BY <1>1, <2>1, <3>1
    <3> QED
      BY <2>1, <3>1, <3>2, <3>3 DEF Fits
  <2>3. CASE e = p
    <3>1. F[e] = x /\ \A d \in 1 .. e - 1 : F[d] = E[d]
      BY <1>6, <2>3
    <3>2. x.child \in n + 1 .. s + 1 /\ v[x.child] = Append(v[n], x.label)
      BY <1>1, <1>7, <1>8, <1>10
    <3>3. \A d \in 1 .. e - 1 : F[d].label < l
      BY <1>4, <2>3, <3>1
    <3> QED
      BY <1>7, <3>1, <3>2, <3>3 DEF Fits
  <2>4. CASE e > p
    <3>1. e - 1 \in p .. Len(E) /\ e - 1 \in 1 .. Len(E) /\ e - 1 + 1 = e
      BY <1>1, <1>4, <1>6, <2>4
    <3>2. F[e] = E[e - 1]
      BY <1>6, <3>1
    <3>3. F[e].child \in n + 1 .. s + 1 /\ v[F[e].child] = Append(v[n], F[e].label)
      <4>1. E[e - 1].child \in n + 1 .. s + 1
        BY <1>1, <2>1, <3>1
      <4> QED
        BY <2>1, <3>1, <3>2, <4>1
    <3>4. ASSUME NEW d \in 1 .. e - 1 PROVE F[d].label < F[e].label
      <4>1. CASE d < p
        <5>1. d \in 1 .. p - 1 /\ d \in 1 .. e - 1 - 1
          BY <1>4, <3>1, <4>1, <2>4
        <5>2. F[d] = E[d]
          BY <1>6, <5>1
        <5> QED
          BY <2>1, <3>1, <3>2, <5>1, <5>2
      <4>2. CASE d = p
        <5>1. F[d].label = l
          BY <1>6, <1>7, <4>2
        <5> QED
          BY <1>5, <3>1, <3>2, <5>1
      <4>3. CASE d > p
        <5>1. d - 1 \in p .. Len(E) /\ d - 1 + 1 = d /\ d - 1 \in 1 .. e - 1 - 1
          BY <1>4, <3>1, <4>3
        <5>2. F[d] = E[d - 1]
          BY <1>6, <5>1
        <5> QED
          BY <2>1, <3>1, <3>2, <5>1, <5>2
      <4> QED
        BY <1>4, <4>1, <4>2, <4>3
    <3> QED
      BY <3>3, <3>4 DEF Fits
  <2> QED
    BY <1>1, <1>4, <2>2, <2>3, <2>4
<1>12. ASSUME NEW m \in 1 .. s + 1, NEW e \in 1 .. Len(M[m].edges)
       PROVE  Fits(M[m].edges, v, m, e, s + 1)
  <2>1. CASE m = n
    BY <1>11, <2>1 DEF F
  <2>2. CASE m \in 1 .. s /\ m # n
    <3>1. M[m].edges = N[m].edges
      BY <1>2, <2>2
    <3>2. Fits(N[m].edges, w, m, e, s)
      BY <1>3, <2>2, <3>1
    <3>3. N[m].edges[e].child \in m + 1 .. s
      BY <3>2 DEF Fits
    <3>4. N[m].edges[e].child \in m + 1 .. s + 1 /\ N[m].edges[e].child \in 1 .. s
      <4>1. \A a \in 1 .. s : \A b \in a + 1 .. s : b \in a + 1 .. s + 1 /\ b \in 1 .. s
        BY <1>1
      <4> QED
        BY <2>2, <3>3, <4>1
    <3>5. Fits(N[m].edges, v, m, e, s + 1)
      BY Zenon, <1>8, <2>2, <3>2, <3>4 DEF Fits
    <3> QED
      BY <3>1, <3>5
  <2>3. CASE m = s + 1
    <3>1. Len(M[m].edges) = 0
      BY <1>9, <2>3
    <3> QED
      BY <3>1
  <2>4. m = n \/ (m \in 1 .. s /\ m # n) \/ m = s + 1
    BY <1>1
  <2> QED
    BY <2>1, <2>2, <2>3, <2>4
<1>13. ASSUME NEW c \in 2 .. s + 1
       PROVE  \E m \in 1 .. s + 1 : \E e \in 1 .. Len(M[m].edges) : M[m].edges[e].child = c
  <2>1. CASE c = s + 1
    <3>1. p \in 1 .. Len(F) /\ F[p].child = c
      BY <1>1, <1>4, <1>6, <1>7, <2>1
    <3>2. n \in 1 .. s + 1
      BY <1>1, <1>10
    <3> QED
      BY <3>1, <3>2 DEF F
  <2>2. CASE c \in 2 .. s
    <3>1. PICK m \in 1 .. s : \E e \in 1 .. Len(N[m].edges) : N[m].edges[e].child = c
      BY <2>2 DEF IsTree, s
    <3>2. PICK e \in 1 .. Len(N[m].edges) : N[m].edges[e].child = c
      BY <3>1
    <3>3. m \in 1 .. s + 1
      BY <1>1
    <3>4. CASE m # n
      <4>1. M[m].edges = N[m].edges
        BY <1>2, <3>4
      <4> QED
        BY <3>2, <3>3, <4>1
    <3>5. CASE m = n
      <4>1. \E k \in 1 .. Len(F) : F[k] = E[e]
        <5>0. e \in 1 .. Len(E)
          BY <3>5
        <5> HIDE DEF E
        <5>1. CASE e < p
          <6>1. e \in 1 .. p - 1 /\ e \in 1 .. Len(F)
            BY <1>1, <1>4, <1>6, <5>0, <5>1
          <6>2. F[e] = E[e]
            BY <1>6, <6>1
          <6> QED
            BY <6>1, <6>2
        <5>2. CASE e >= p
          <6>1. e \in p .. Len(E) /\ e + 1 \in 1 .. Len(F)
            BY <1>1, <1>4, <1>6, <5>0, <5>2
          <6>2. F[e + 1] = E[e]
            BY <1>6, <6>1
          <6> QED
            BY <6>1, <6>2
        <5> QED
          BY <1>4, <5>0, <5>1, <5>2
      <4>2. PICK k \in 1 .. Len(F) : F[k] = E[e]
        BY <4>1
      <4>3. F[k].child = c
        BY <3>2, <3>5, <4>2
      <4> QED
        BY <3>3, <3>5, <4>3 DEF F
    <3> QED
      BY <3>4, <3>5
  <2> QED
    BY <1>1, <2>1, <2>2
<1>14. ASSUME NEW c \in 1 .. s, v[c] = v[s + 1] PROVE FALSE
  <2>1. w[c] = Append(w[n], l)
    BY <1>8, <1>14
  <2>2. \E e \in 1 .. Len(N[n].edges) : N[n].edges[e].child = c /\ N[n].edges[e].label = l
    BY <2>1, ParentOf DEF s
  <2> QED
    BY <2>2
<1>15. ASSUME NEW a \in 1 .. s + 1, NEW b \in 1 .. s + 1, v[a] = v[b] PROVE a = b
  <2>1. CASE a \in 1 .. s /\ b \in 1 .. s
    <3>1. w[a] = w[b]
      BY <1>8, <1>15, <2>1
    <3> QED
      BY <2>1, <3>1 DEF IsTree, s
  <2>2. CASE a \in 1 .. s /\ b = s + 1
    BY <1>14, <1>15, <2>2
  <2>3. CASE a = s + 1 /\ b \in 1 .. s
    BY <1>14, <1>15, <2>3
  <2>4. a \in 1 .. s \/ a = s + 1
    BY <1>1
  <2>5. b \in 1 .. s \/ b = s + 1
    BY <1>1
  <2> QED
    BY <2>1, <2>2, <2>3, <2>4, <2>5
<1>16. v[Root] = <<>> /\ s + 1 >= 1
  <2>1. Root \in 1 .. s /\ w[Root] = <<>>
    BY <1>1 DEF Root, IsTree
  <2> QED
    BY <1>1, <1>8, <2>1
<1>17. IsTree(M, v)
  <2>1. Len(M) = s + 1 /\ M \in Seq(AnyNode) /\ Len(M) >= 1
    BY <1>2, <1>16
  <2>2. v \in [1 .. Len(M) -> Seq(Label)] /\ v[Root] = <<>>
    BY <1>8, <1>16, <2>1
  <2>3. \A a, b \in 1 .. Len(M) : v[a] = v[b] => a = b
    BY <1>15, <2>1
  <2>4. \A m \in 1 .. Len(M) : \A e \in 1 .. Len(M[m].edges) : Fits(M[m].edges, v, m, e, Len(M))
    BY <1>12, <2>1
  <2>5. \A c \in 2 .. Len(M) : \E m \in 1 .. Len(M) : \E e \in 1 .. Len(M[m].edges) : M[m].edges[e].child = c
    BY <1>13, <2>1
  <2> HIDE DEF E
  <2> QED
    BY <2>1, <2>2, <2>3, <2>4, <2>5 DEF IsTree
<1> QED
  BY <1>17 DEF v, s

-----------------------------------------------------------------------------
(* Words.                                                                  *)

Under(u, v) == Len(u) <= Len(v) /\ \A k \in 1 .. Len(u) : u[k] = v[k]

LEMMA UnderIsPrefix ==
  ASSUME NEW T, NEW u \in Seq(T), NEW v \in Seq(T)
  PROVE  IsPrefix(u, v) <=> Under(u, v)
<1>1. /\ Len(u) \in Nat /\ Len(v) \in Nat
      /\ \A k \in 1 .. Len(u) : u[k] \in T
      /\ \A k \in 1 .. Len(v) : v[k] \in T
  BY LenProperties
<1> SUFFICES ASSUME Len(u) <= Len(v)
             PROVE  SubSeq(u, 1, Len(u)) = SubSeq(v, 1, Len(u)) <=> \A k \in 1 .. Len(u) : u[k] = v[k]
  BY DEF IsPrefix, Under
<1> DEFINE a == SubSeq(u, 1, Len(u))
           b == SubSeq(v, 1, Len(u))
<1>2. a \in Seq(T) /\ Len(a) = Len(u) /\ \A k \in 1 .. Len(u) : a[k] = u[k]
  <2>1. /\ a \in Seq(T) /\ Len(a) = IF 1 <= Len(u) THEN Len(u) - 1 + 1 ELSE 0
        /\ \A k \in 1 .. Len(u) - 1 + 1 : a[k] = u[1 + k - 1]
    BY <1>1, SubSeqProperties
  <2> HIDE DEF a
  <2> QED
    BY <1>1, <2>1
<1>3. b \in Seq(T) /\ Len(b) = Len(u) /\ \A k \in 1 .. Len(u) : b[k] = v[k]
  <2>0. \A k \in 1 .. Len(u) : v[k] \in T
    BY <1>1
  <2>1. /\ b \in Seq(T) /\ Len(b) = IF 1 <= Len(u) THEN Len(u) - 1 + 1 ELSE 0
        /\ \A k \in 1 .. Len(u) - 1 + 1 : b[k] = v[1 + k - 1]
    BY <1>1, <2>0, SubSeqProperties
  <2> HIDE DEF b
  <2> QED
    BY <1>1, <2>1
<1> HIDE DEF a, b
<1>4. ASSUME a = b PROVE \A k \in 1 .. Len(u) : u[k] = v[k]
  BY <1>2, <1>3, <1>4
<1>5. ASSUME \A k \in 1 .. Len(u) : u[k] = v[k] PROVE a = b
  <2>1. \A k \in 1 .. Len(a) : a[k] = b[k]
    BY <1>2, <1>3, <1>5
  <2> QED
    BY <1>2, <1>3, <2>1, SeqEqual
<1> QED
  BY <1>4, <1>5 DEF a, b

LEMMA UnderFacts ==
  ASSUME NEW u \in Seq(Label), NEW v \in Seq(Label), NEW t \in Seq(Label)
  PROVE  /\ Under(u, u)
         /\ Under(u, v) /\ Under(v, t) => Under(u, t)
         /\ Under(u, t) /\ Under(v, t) /\ Len(u) <= Len(v) => Under(u, v)
         /\ Under(u, v) /\ Len(u) = Len(v) => u = v
         /\ \A l \in Label : Under(Append(u, l), v)
              <=> Under(u, v) /\ Len(u) < Len(v) /\ v[Len(u) + 1] = l
<1>1. Len(u) \in Nat /\ Len(v) \in Nat /\ Len(t) \in Nat
  BY LenProperties
<1>2. Under(u, u)
  BY <1>1 DEF Under
<1>3. Under(u, v) /\ Under(v, t) => Under(u, t)
  BY <1>1 DEF Under
<1>4. Under(u, t) /\ Under(v, t) /\ Len(u) <= Len(v) => Under(u, v)
  BY <1>1 DEF Under
<1>5. Under(u, v) /\ Len(u) = Len(v) => u = v
  BY SeqEqual DEF Under
<1>6. ASSUME NEW l \in Label
      PROVE  Under(Append(u, l), v) <=> Under(u, v) /\ Len(u) < Len(v) /\ v[Len(u) + 1] = l
  <2> DEFINE a == Append(u, l)
  <2>1. Len(a) = Len(u) + 1 /\ a[Len(u) + 1] = l /\ \A k \in 1 .. Len(u) : a[k] = u[k]
    BY AppendProperties
  <2> HIDE DEF a
  <2>2. \A k \in 1 .. Len(u) + 1 : k \in 1 .. Len(u) \/ k = Len(u) + 1
    BY <1>1
  <2>3. ASSUME Under(a, v) PROVE Under(u, v) /\ Len(u) < Len(v) /\ v[Len(u) + 1] = l
    BY <1>1, <2>1, <2>3 DEF Under
  <2>4. ASSUME Under(u, v), Len(u) < Len(v), v[Len(u) + 1] = l PROVE Under(a, v)
    BY <1>1, <2>1, <2>2, <2>4 DEF Under
  <2> QED
    BY <2>3, <2>4 DEF a
<1> QED
  BY <1>2, <1>3, <1>4, <1>5, <1>6

LEMMA UnderLaws ==
  /\ \A u \in Seq(Label) : Under(u, u)
  /\ \A u, v, t \in Seq(Label) : Under(u, v) /\ Under(v, t) => Under(u, t)
  /\ \A u, v, t \in Seq(Label) : Under(u, t) /\ Under(v, t) /\ Len(u) <= Len(v) => Under(u, v)
  /\ \A u, v \in Seq(Label) : Under(u, v) /\ Len(u) = Len(v) => u = v
BY UnderFacts

Cut(v, k) == SubSeq(v, 1, k)

LEMMA CutFacts ==
  ASSUME NEW v \in Seq(Label), NEW k \in 0 .. Len(v)
  PROVE  /\ Cut(v, k) \in Seq(Label) /\ Len(Cut(v, k)) = k
         /\ \A d \in 1 .. k : Cut(v, k)[d] = v[d]
         /\ Under(Cut(v, k), v)
         /\ \A u \in Seq(Label) : Under(u, v) /\ Len(u) = k => Cut(v, k) = u
<1> DEFINE a == SubSeq(v, 1, k)
<1>1. Len(v) \in Nat /\ \A d \in 1 .. Len(v) : v[d] \in Label
  BY LenProperties
<1>2. a \in Seq(Label) /\ Len(a) = k /\ \A d \in 1 .. k : a[d] = v[d]
  <2>0. \A d \in 1 .. k : v[d] \in Label
    BY <1>1
  <2>1. /\ a \in Seq(Label) /\ Len(a) = IF 1 <= k THEN k - 1 + 1 ELSE 0
        /\ \A d \in 1 .. k - 1 + 1 : a[d] = v[1 + d - 1]
    BY <1>1, <2>0, SubSeqProperties
  <2> HIDE DEF a
  <2> QED
    BY <1>1, <2>1
<1> HIDE DEF a
<1>3. Under(a, v)
  BY <1>1, <1>2 DEF Under
<1>4. ASSUME NEW u \in Seq(Label), Under(u, v), Len(u) = k PROVE a = u
  <2>1. \A d \in 1 .. Len(a) : a[d] = u[d]
    BY <1>2, <1>4 DEF Under
  <2> QED
    BY <1>2, <1>4, <2>1, SeqEqual
<1> QED
  BY <1>2, <1>3, <1>4 DEF a, Cut

LEMMA CutGrows ==
  ASSUME NEW v \in Seq(Label), NEW k \in 0 .. Len(v) - 1
  PROVE  Cut(v, k + 1) = Append(Cut(v, k), v[k + 1]) /\ v[k + 1] \in Label
<1>1. Len(v) \in Nat /\ \A d \in 1 .. Len(v) : v[d] \in Label
  BY LenProperties
<1>2. k \in 0 .. Len(v) /\ k + 1 \in 0 .. Len(v) /\ k + 1 \in 1 .. Len(v) /\ v[k + 1] \in Label
  BY <1>1
<1>3. Cut(v, k) \in Seq(Label) /\ Len(Cut(v, k)) = k /\ Under(Cut(v, k), v)
  BY <1>2, CutFacts
<1> DEFINE a == Cut(v, k)
           b == Append(a, v[k + 1])
<1> HIDE DEF a
<1>4. b \in Seq(Label) /\ Len(b) = k + 1
  BY <1>2, <1>3, AppendProperties DEF a
<1>5. Under(b, v)
  <2>1. Under(a, v) /\ Len(a) < Len(v) /\ v[Len(a) + 1] = v[k + 1] /\ a \in Seq(Label)
    BY <1>1, <1>2, <1>3 DEF a
  <2> QED
    BY <1>2, <2>1, UnderFacts
<1> HIDE DEF b
<1>6. Cut(v, k + 1) = b
  BY <1>2, <1>4, <1>5, CutFacts
<1> QED
  BY <1>2, <1>6 DEF a, b

LEMMA CutEnds ==
  ASSUME NEW v \in Seq(Label)
  PROVE  Cut(v, 0) = <<>> /\ Cut(v, Len(v)) = v
<1>1. Len(v) \in Nat /\ 0 \in 0 .. Len(v) /\ Len(v) \in 0 .. Len(v)
  BY LenProperties
<1>2. Under(v, v)
  BY UnderFacts
<1>3. Under(<<>>, v) /\ <<>> \in Seq(Label) /\ Len(<<>>) = 0
  BY <1>1 DEF Under
<1> QED
  BY <1>1, <1>2, <1>3, CutFacts

-----------------------------------------------------------------------------
(* Walks.                                                                  *)

\* Where there is a longer word there is a shorter one.
LEMMA Parent ==
  ASSUME NEW N, NEW w, IsTree(N, w), NEW c \in 1 .. Len(N), NEW q \in Seq(Label), NEW l \in Label,
         w[c] = Append(q, l)
  PROVE  \E n \in 1 .. Len(N) : w[n] = q
<1>1. Len(N) \in Nat /\ w[Root] = <<>> /\ \A m \in 1 .. Len(N) : w[m] \in Seq(Label)
  BY TreeTypes DEF IsTree
<1>2. c \in 2 .. Len(N)
  <2>1. w[c] # <<>>
    BY AppendProperties
  <2>2. c # 1
    BY <1>1, <2>1 DEF Root
  <2> QED
    BY <1>1, <2>2
<1>3. PICK m \in 1 .. Len(N) : \E e \in 1 .. Len(N[m].edges) : N[m].edges[e].child = c
  BY <1>2 DEF IsTree
<1>4. PICK e \in 1 .. Len(N[m].edges) : N[m].edges[e].child = c
  BY <1>3
<1>5. Fits(N[m].edges, w, m, e, Len(N)) /\ N[m].edges[e].label \in Label
  BY TreeTypes DEF IsTree
<1>6. w[c] = Append(w[m], N[m].edges[e].label)
  BY <1>4, <1>5 DEF Fits
<1> DEFINE a == w[m]
           x == N[m].edges[e].label
<1>7. a \in Seq(Label) /\ x \in Label /\ Append(a, x) = Append(q, l)
  BY <1>1, <1>5, <1>6
<1> HIDE DEF a, x
<1>8. a = q
  <2>1. \A b, d \in Seq(Label) : \A y, z \in Label : Append(b, y) = Append(d, z) => b = d
    BY AppendInjective
  <2> QED
    BY <1>7, <2>1
<1> QED
  BY <1>8 DEF a

LEMMA Beginnings ==
  ASSUME NEW N, NEW w, IsTree(N, w), NEW n \in 1 .. Len(N), NEW k \in 0 .. Len(w[n])
  PROVE  \E m \in 1 .. Len(N) : w[m] = Cut(w[n], k)
<1> DEFINE v == w[n]
           S == {d \in Nat : d <= Len(v) => \E m \in 1 .. Len(N) : w[m] = Cut(v, Len(v) - d)}
<1>1. v \in Seq(Label) /\ Len(v) \in Nat
  BY TreeTypes, LenProperties
<1>2. 0 \in S
  <2>1. Len(v) - 0 = Len(v)
    BY <1>1
  <2>2. w[n] = Cut(v, Len(v))
    BY <1>1, CutEnds
  <2> QED
    BY <2>1, <2>2
<1>3. ASSUME NEW d \in Nat, d \in S PROVE d + 1 \in S
  <2> SUFFICES ASSUME d + 1 <= Len(v) PROVE \E m \in 1 .. Len(N) : w[m] = Cut(v, Len(v) - (d + 1))
    BY <1>3
  <2> DEFINE a == Len(v) - (d + 1)
  <2>1. a \in 0 .. Len(v) - 1 /\ a \in 0 .. Len(v) /\ a + 1 = Len(v) - d /\ d <= Len(v)
    BY <1>1
  <2> HIDE DEF a
  <2>2. PICK m \in 1 .. Len(N) : w[m] = Cut(v, a + 1)
    BY <1>3, <2>1
  <2> HIDE DEF v
  <2>3. w[m] = Append(Cut(v, a), v[a + 1]) /\ v[a + 1] \in Label /\ Cut(v, a) \in Seq(Label)
    BY <1>1, <2>1, <2>2, CutGrows, CutFacts
  <2>4. \E b \in 1 .. Len(N) : w[b] = Cut(v, a)
    BY <2>3, Parent
  <2> QED
    BY <2>4 DEF a
<1>4. Nat \subseteq S
  <2> HIDE DEF S
  <2> QED
    BY <1>2, <1>3, NaturalsClosed
<1>5. Len(v) - k \in S /\ Len(v) - k <= Len(v) /\ Len(v) - (Len(v) - k) = k
  BY <1>1, <1>4
<1> HIDE DEF v
<1>6. \E m \in 1 .. Len(N) : w[m] = Cut(v, Len(v) - (Len(v) - k))
  BY <1>5
<1> QED
  BY <1>5, <1>6 DEF v

\* The words below a node are its own and those below its children.
LEMMA ChildrenCover ==
  ASSUME NEW N, NEW w, IsTree(N, w), NEW n \in 1 .. Len(N), NEW m \in 1 .. Len(N),
         Under(w[n], w[m]), m # n
  PROVE  \E e \in 1 .. Len(N[n].edges) : Under(w[N[n].edges[e].child], w[m])
<1> DEFINE u == w[n]
           v == w[m]
           k == Len(u)
<1>1. u \in Seq(Label) /\ v \in Seq(Label) /\ Len(v) \in Nat /\ k \in Nat
  BY TreeTypes, LenProperties
<1>2. u # v
  BY DEF IsTree
<1>3. Len(u) <= Len(v) /\ Under(u, v)
  BY DEF Under
<1> HIDE DEF u, v
<1>4. k # Len(v)
  BY <1>1, <1>2, <1>3, UnderFacts
<1>5. k \in 0 .. Len(v) /\ k \in 0 .. Len(v) - 1 /\ k + 1 \in 0 .. Len(v)
  BY <1>1, <1>3, <1>4
<1>6. Cut(v, k) = u
  BY <1>1, <1>3, <1>5, CutFacts
<1>7. Cut(v, k + 1) = Append(u, v[k + 1]) /\ v[k + 1] \in Label
  BY <1>1, <1>5, <1>6, CutGrows
<1>8. PICK c \in 1 .. Len(N) : w[c] = Cut(v, k + 1)
  BY <1>5, Beginnings DEF v
<1>9. \E e \in 1 .. Len(N[n].edges) : N[n].edges[e].child = c
  <2> DEFINE x == v[k + 1]
  <2>1. w[c] = Append(w[n], x) /\ x \in Label
    BY <1>7, <1>8 DEF u
  <2> HIDE DEF x
  <2> QED
    BY <2>1, ParentOf
<1>10. Under(w[c], v)
  BY <1>1, <1>5, <1>8, CutFacts
<1> QED
  BY <1>9, <1>10 DEF v

\* The node that a word leads to.
NodeOf(N, w, u) ==
  IF \E n \in 1 .. Len(N) : w[n] = u THEN CHOOSE n \in 1 .. Len(N) : w[n] = u ELSE None

LEMMA NodeOfFacts ==
  ASSUME NEW N, NEW w, IsTree(N, w), NEW u
  PROVE  /\ \A n \in 1 .. Len(N) : NodeOf(N, w, u) = n <=> w[n] = u
         /\ NodeOf(N, w, u) = None <=> ~ \E n \in 1 .. Len(N) : w[n] = u
         /\ NodeOf(N, w, u) # None => NodeOf(N, w, u) \in 1 .. Len(N) /\ w[NodeOf(N, w, u)] = u
         /\ NodeOf(N, w, u) \in 0 .. Len(N)
<1>1. Len(N) \in Nat /\ \A a, b \in 1 .. Len(N) : w[a] = w[b] => a = b
  BY TreeTypes DEF IsTree
<1>2. CASE \E n \in 1 .. Len(N) : w[n] = u
  <2> DEFINE a == CHOOSE n \in 1 .. Len(N) : w[n] = u
  <2>1. a \in 1 .. Len(N) /\ w[a] = u /\ NodeOf(N, w, u) = a
    BY <1>2 DEF NodeOf
  <2> HIDE DEF a
  <2>2. a # None
    BY <1>1, <2>1 DEF None
  <2> QED
    BY <1>1, <2>1, <2>2 DEF None
<1>3. CASE ~ \E n \in 1 .. Len(N) : w[n] = u
  <2>1. NodeOf(N, w, u) = 0
    BY <1>3 DEF NodeOf, None
  <2> QED
    BY <1>1, <1>3, <2>1 DEF None
<1> QED
  BY <1>2, <1>3

Found(edges, label) ==
  LET lo == FirstNotBelow(edges, label)
  IN IF lo <= Len(edges) /\ edges[lo].label = label THEN edges[lo].child ELSE None

\* The search among the edges of a node leads one label further.
LEMMA FoundIsNode ==
  ASSUME NEW N, NEW w, IsTree(N, w), NEW n \in 1 .. Len(N), NEW l \in Label
  PROVE  Found(N[n].edges, l) = NodeOf(N, w, Append(w[n], l))
<1> DEFINE E == N[n].edges
           q == FirstNotBelow(E, l)
<1>1. E \in Seq(AnyEdge) /\ Len(E) \in Nat /\ l \in Int /\ Len(N) \in Nat /\ n \in Nat
  BY TreeTypes, Labels
<1>2. \A e \in 1 .. Len(E) : Fits(E, w, n, e, Len(N))
  BY DEF IsTree
<1>3. CASE \E e \in 1 .. Len(E) : E[e].label = l
  <2>1. PICK e \in 1 .. Len(E) : E[e].label = l
    BY <1>3
  <2>2. Fits(E, w, n, e, Len(N))
    BY <1>2
  <2> HIDE DEF E
  <2>3. q = e
    <3>1. \A d \in 1 .. e - 1 : E[d].label < l
      BY <2>1, <2>2 DEF Fits
    <3> QED
      BY <1>1, <2>1, <3>1, LowerBound
  <2>4. Found(E, l) = E[e].child
    BY <1>1, <2>1, <2>3 DEF Found
  <2>5. E[e].child \in 1 .. Len(N) /\ w[E[e].child] = Append(w[n], l)
    BY <1>1, <2>1, <2>2 DEF Fits
  <2>6. NodeOf(N, w, Append(w[n], l)) = E[e].child
    <3> DEFINE c == E[e].child
               t == Append(w[n], l)
    <3>1. c \in 1 .. Len(N) /\ w[c] = t
      BY <2>5
    <3> HIDE DEF c, t
    <3>2. NodeOf(N, w, t) = c
      BY <3>1, NodeOfFacts
    <3> QED
      BY <3>2 DEF c, t
  <2> QED
    BY <2>4, <2>6 DEF E
<1>4. CASE ~ \E e \in 1 .. Len(E) : E[e].label = l
  <2>1. NodeOf(N, w, Append(w[n], l)) = None
    <3>1. ~ \E c \in 1 .. Len(N) : w[c] = Append(w[n], l)
      BY <1>4, ParentOf
    <3> QED
      BY <3>1, NodeOfFacts
  <2> HIDE DEF E
  <2>2. q \in 1 .. Len(E) + 1
    BY <1>1, NotBelowFacts
  <2>3. ~(q <= Len(E) /\ E[q].label = l)
    BY <1>1, <1>4, <2>2
  <2>4. Found(E, l) = None
    BY <2>3 DEF Found
  <2> QED
    BY <2>1, <2>4 DEF E
<1> QED
  BY <1>3, <1>4

\* A walk ends at the node of its path, if there is one.
LEMMA WalkEnds ==
  ASSUME NEW w, IsTree(nodes, w), \A n \in 1 .. Len(nodes) : EdgesOf(n) = nodes[n].edges,
         NEW path \in Seq(Label)
  PROVE  Walk(path) = NodeOf(nodes, w, path)
<1> DEFINE at[k \in 0 .. Len(path)] ==
             IF k = 0 THEN Root
             ELSE IF at[k - 1] = None THEN None ELSE FindChild(at[k - 1], path[k])
           to == [k \in 0 .. Len(path) |-> NodeOf(nodes, w, Cut(path, k))]
<1>1. Len(path) \in Nat
  BY LenProperties
<1>2. Walk(path) = at[Len(path)]
  BY DEF Walk
<1>3. to[0] = Root
  <2>1. w[Root] = <<>> /\ Root \in 1 .. Len(nodes)
    BY TreeTypes DEF IsTree
  <2>2. NodeOf(nodes, w, <<>>) = Root
    BY <2>1, NodeOfFacts
  <2> QED
    BY <1>1, <2>2, CutEnds
<1>4. ASSUME NEW k \in 1 .. Len(path)
      PROVE  to[k] = IF to[k - 1] = None THEN None ELSE FindChild(to[k - 1], path[k])
  <2> DEFINE u == Cut(path, k - 1)
             l == path[k]
             n == NodeOf(nodes, w, u)
  <2>1. k - 1 \in 0 .. Len(path) - 1 /\ k - 1 \in 0 .. Len(path) /\ k - 1 + 1 = k /\ k \in 0 .. Len(path)
    BY <1>1
  <2>2. Cut(path, k) = Append(u, l) /\ l \in Label /\ u \in Seq(Label)
    BY <2>1, CutGrows, CutFacts
  <2>3. to[k] = NodeOf(nodes, w, Append(u, l)) /\ to[k - 1] = n
    BY <2>1, <2>2
  <2> HIDE DEF to, u, l
  <2>4. CASE n = None
    <3>1. ~ \E c \in 1 .. Len(nodes) : w[c] = u
      BY <2>4, NodeOfFacts
    <3>2. ~ \E c \in 1 .. Len(nodes) : w[c] = Append(u, l)
      BY <2>2, <3>1, Parent
    <3>3. NodeOf(nodes, w, Append(u, l)) = None
      BY <3>2 DEF NodeOf
    <3> QED
      BY <2>3, <2>4, <3>3
  <2>5. CASE n # None
    <3>1. n \in 1 .. Len(nodes) /\ w[n] = u
      BY <2>5, NodeOfFacts
    <3> HIDE DEF n
    <3>2. Found(nodes[n].edges, l) = NodeOf(nodes, w, Append(u, l))
      BY <2>2, <3>1, FoundIsNode
    <3>3. FindChild(n, l) = Found(nodes[n].edges, l)
      BY <3>1 DEF FindChild, Found
    <3> QED
      BY <2>3, <2>5, <3>2, <3>3 DEF l
  <2> QED
    BY <2>4, <2>5
<1>5. \A k \in 0 .. Len(path) : k # 0 => k \in 1 .. Len(path)
  BY <1>1
<1>6. DOMAIN to = 0 .. Len(path)
  OBVIOUS
<1>7. to = [k \in 0 .. Len(path) |->
             IF k = 0 THEN Root
             ELSE IF to[k - 1] = None THEN None ELSE FindChild(to[k - 1], path[k])]
  <2> DEFINE rhs == [k \in 0 .. Len(path) |->
             IF k = 0 THEN Root
             ELSE IF to[k - 1] = None THEN None ELSE FindChild(to[k - 1], path[k])]
  <2>1. DOMAIN rhs = DOMAIN to
    BY <1>6
  <2>2. to = [k \in 0 .. Len(path) |-> to[k]]
    OBVIOUS
  <2> HIDE DEF to
  <2>3. \A k \in 0 .. Len(path) : to[k] = rhs[k]
    BY <1>3, <1>4, <1>5
  <2> QED
    BY <2>2, <2>3
<1> HIDE DEF to
<1>8. at = [k \in 0 .. Len(path) |->
             IF k = 0 THEN Root
             ELSE IF at[k - 1] = None THEN None ELSE FindChild(at[k - 1], path[k])]
  BY <1>7
<1> HIDE DEF at
<1>9. at[0] = Root
  BY <1>1, <1>8
<1>10. \A k \in 1 .. Len(path) : at[k] = IF at[k - 1] = None THEN None ELSE FindChild(at[k - 1], path[k])
  BY <1>1, <1>8
<1> DEFINE S == {k \in Nat : k <= Len(path) => at[k] = to[k]}
<1>11. 0 \in S
  BY <1>3, <1>9
<1>12. ASSUME NEW k \in Nat, k \in S PROVE k + 1 \in S
  <2> SUFFICES ASSUME k + 1 <= Len(path) PROVE at[k + 1] = to[k + 1]
    BY <1>12
  <2>1. k + 1 \in 1 .. Len(path) /\ k + 1 - 1 = k /\ k <= Len(path)
    BY <1>1
  <2>2. at[k] = to[k]
    BY <1>12, <2>1
  <2>3. at[k + 1] = IF at[k] = None THEN None ELSE FindChild(at[k], path[k + 1])
    BY <1>10, <2>1
  <2>4. to[k + 1] = IF to[k] = None THEN None ELSE FindChild(to[k], path[k + 1])
    BY <1>4, <2>1
  <2> QED
    BY <2>2, <2>3, <2>4
<1>13. Nat \subseteq S
  <2> HIDE DEF S
  <2> QED
    BY <1>11, <1>12, NaturalsClosed
<1>14. at[Len(path)] = to[Len(path)]
  BY <1>1, <1>13
<1>15. to[Len(path)] = NodeOf(nodes, w, path)
  BY <1>1, CutEnds DEF to
<1> QED
  BY <1>2, <1>14, <1>15 DEF at

-----------------------------------------------------------------------------
(* The arrays of index.fce.                                                *)

LEMMA LaidStep ==
  ASSUME nodes \in Seq(AnyNode)
  PROVE  /\ \A n \in 0 .. Len(nodes) : Laid[n] \in Seq(AnyEdge)
         /\ Laid[0] = <<>>
         /\ \A n \in 1 .. Len(nodes) : Laid[n] = Laid[n - 1] \o nodes[n].edges
<1> DEFINE T == Seq(AnyEdge)
           L == Len(nodes)
           step == [k \in Nat |-> [x \in T |-> IF k < L THEN x \o nodes[k + 1].edges ELSE x]]
<1>1. L \in Nat /\ \A n \in 1 .. L : nodes[n].edges \in T
  <2>1. L \in Nat /\ \A n \in 1 .. L : nodes[n] \in AnyNode
    BY LenProperties
  <2> QED
    BY <2>1 DEF AnyNode
<1>2. step \in [Nat -> [T -> T]] /\ <<>> \in T
  <2>1. ASSUME NEW k \in Nat, NEW x \in T PROVE (IF k < L THEN x \o nodes[k + 1].edges ELSE x) \in T
    <3>1. CASE k < L
      <4>1. k + 1 \in 1 .. L
        BY <1>1, <3>1
      <4>2. nodes[k + 1].edges \in T
        BY <1>1, <4>1
      <4> HIDE DEF L
      <4> QED
        BY <3>1, <4>2, ConcatProperties
    <3>2. CASE ~(k < L)
      BY <2>1, <3>2
    <3> QED
      BY <3>1, <3>2
  <2>2. <<>> \in T
    OBVIOUS
  <2> HIDE DEF T, L
  <2> QED
    BY <2>1, <2>2
<1>3. \A k \in Nat : \A x \in T : step[k][x] = IF k < L THEN x \o nodes[k + 1].edges ELSE x
  OBVIOUS
<1> HIDE DEF step
<1>4. \E f \in [Nat -> T] : Recursion(f, <<>>, step)
  <2> HIDE DEF T
  <2> QED
    BY <1>2, RecursionExists
<1>5. PICK f \in [Nat -> T] : f[0] = <<>> /\ \A k \in Nat : f[k + 1] = step[k][f[k]]
  BY <1>4 DEF Recursion
<1> HIDE DEF T, L
<1>6. \A k \in Nat : k < L => f[k + 1] = f[k] \o nodes[k + 1].edges
  BY <1>3, <1>5
<1> DEFINE g == [n \in 0 .. L |-> f[n]]
<1>7. ASSUME NEW n \in 0 .. L PROVE g[n] = IF n = 0 THEN <<>> ELSE g[n - 1] \o nodes[n].edges
  <2>1. CASE n = 0
    BY <1>5, <2>1
  <2>2. CASE n # 0
    <3>1. n - 1 \in Nat /\ n - 1 < L /\ n - 1 + 1 = n /\ n - 1 \in 0 .. L
      BY <1>1, <2>2
    <3>2. f[n] = f[n - 1] \o nodes[n].edges
      BY <1>6, <3>1
    <3>3. g[n] = f[n] /\ g[n - 1] = f[n - 1]
      BY <3>1
    <3> HIDE DEF g
    <3> QED
      BY <2>2, <3>2, <3>3
  <2> QED
    BY <2>1, <2>2
<1>8. g = [n \in 0 .. L |-> IF n = 0 THEN <<>> ELSE g[n - 1] \o nodes[n].edges]
  <2>1. g = [n \in 0 .. L |-> g[n]]
    OBVIOUS
  <2> HIDE DEF g
  <2> QED
    BY Zenon, <1>7, <2>1
<1> HIDE DEF g
<1>9. Laid = [n \in 0 .. L |-> IF n = 0 THEN <<>> ELSE Laid[n - 1] \o nodes[n].edges]
  BY Zenon, <1>8 DEF Laid, L
<1>10. Laid[0] = <<>>
  BY <1>1, <1>9
<1>11. ASSUME NEW n \in 1 .. L PROVE Laid[n] = Laid[n - 1] \o nodes[n].edges
  <2>1. n \in 0 .. L /\ n # 0
    BY <1>1
  <2>2. Laid[n] = IF n = 0 THEN <<>> ELSE Laid[n - 1] \o nodes[n].edges
    BY <1>9, <2>1, Zenon
  <2> QED
    BY <2>1, <2>2, Zenon
<1> DEFINE S == {n \in Nat : n <= L => Laid[n] \in T}
<1>12. 0 \in S
  BY <1>2, <1>10
<1>13. ASSUME NEW n \in Nat, n \in S PROVE n + 1 \in S
  <2> SUFFICES ASSUME n + 1 <= L PROVE Laid[n + 1] \in T
    BY <1>13
  <2>1. n + 1 \in 1 .. L /\ n + 1 - 1 = n /\ n <= L
    BY <1>1
  <2>2. Laid[n] \in T /\ nodes[n + 1].edges \in T
    BY <1>1, <1>13, <2>1
  <2>4. Laid[n + 1] = Laid[n] \o nodes[n + 1].edges
    <3> DEFINE k == n + 1
    <3>1. Laid[k] = Laid[k - 1] \o nodes[k].edges
      BY <1>11, <2>1, Zenon
    <3>2. k - 1 = n
      BY <2>1
    <3> HIDE DEF k
    <3>3. Laid[k] = Laid[n] \o nodes[k].edges
      BY <3>1, <3>2, Zenon
    <3> QED
      BY <3>3 DEF k
  <2> QED
    BY <2>2, <2>4, ConcatProperties DEF T
<1>14. Nat \subseteq S
  <2> HIDE DEF S
  <2> QED
    BY <1>12, <1>13, NaturalsClosed
<1>15. \A n \in 0 .. L : Laid[n] \in T
  BY <1>1, <1>14
<1> QED
  BY <1>10, <1>11, <1>15 DEF T, L

LEMMA LaidGrows ==
  ASSUME nodes \in Seq(AnyNode), NEW n \in 0 .. Len(nodes), NEW m \in n .. Len(nodes)
  PROVE  Under(Laid[n], Laid[m])
<1> DEFINE S == {d \in Nat : n <= d /\ d <= Len(nodes) => Under(Laid[n], Laid[d])}
<1>1. Len(nodes) \in Nat
  BY LenProperties
<1>2. \A a \in 0 .. Len(nodes) : Laid[a] \in Seq(AnyEdge) /\ Len(Laid[a]) \in Nat
  BY LaidStep, LenProperties
<1>3. Under(Laid[n], Laid[n])
  BY <1>2 DEF Under
<1>4. 0 \in S
  <2>1. n <= 0 => n = 0
    BY <1>1
  <2> QED
    BY <1>3, <2>1
<1>5. ASSUME NEW d \in Nat, d \in S PROVE d + 1 \in S
  <2> SUFFICES ASSUME n <= d + 1, d + 1 <= Len(nodes) PROVE Under(Laid[n], Laid[d + 1])
    OBVIOUS
  <2>1. CASE n = d + 1
    BY <1>3, <2>1
  <2>2. CASE n <= d
    <3> DEFINE a == Laid[d]
               b == nodes[d + 1].edges
    <3>1. d + 1 \in 1 .. Len(nodes) /\ d + 1 - 1 = d /\ d \in 0 .. Len(nodes)
      BY <1>1
    <3>2. Under(Laid[n], a)
      BY <1>5, <2>2, <3>1
    <3>3. Laid[d + 1] = a \o b /\ a \in Seq(AnyEdge)
      <4> DEFINE k == d + 1
      <4>1. Laid[k] = Laid[k - 1] \o nodes[k].edges
        BY <3>1, LaidStep, Zenon
      <4>2. k - 1 = d
        BY <3>1
      <4> HIDE DEF k
      <4>3. Laid[k] = Laid[d] \o nodes[k].edges
        BY <4>1, <4>2, Zenon
      <4> QED
        BY <1>2, <3>1, <4>3, Zenon DEF k
    <3>4. b \in Seq(AnyEdge)
      <4>1. nodes[d + 1] \in AnyNode
        BY <3>1, LenProperties
      <4> QED
        BY <4>1 DEF AnyNode
    <3>5. Len(a) \in Nat /\ Len(b) \in Nat /\ Len(Laid[n]) \in Nat
      BY <1>2, <3>3, <3>4, LenProperties
    <3> HIDE DEF a, b
    <3>6. /\ Len(a \o b) = Len(a) + Len(b)
          /\ \A k \in 1 .. Len(a) + Len(b) : (a \o b)[k] = IF k <= Len(a) THEN a[k] ELSE b[k - Len(a)]
      BY <3>3, <3>4, ConcatProperties
    <3> DEFINE c == a \o b
    <3> HIDE DEF c
    <3>7. Len(c) = Len(a) + Len(b) /\ \A k \in 1 .. Len(a) : c[k] = a[k]
      BY <3>5, <3>6 DEF c
    <3>8. Under(Laid[n], c)
      BY <3>2, <3>5, <3>7 DEF Under
    <3> QED
      BY <3>3, <3>8 DEF c
  <2> QED
    BY <1>1, <2>1, <2>2
<1>6. Nat \subseteq S
  <2> HIDE DEF S
  <2> QED
    BY <1>4, <1>5, NaturalsClosed
<1>7. m \in Nat /\ n <= m /\ m <= Len(nodes)
  BY <1>1
<1> QED
  BY <1>6, <1>7

LEMMA LaidSlice ==
  ASSUME nodes \in Seq(AnyNode), NEW n \in 1 .. Len(nodes)
  PROVE  /\ Len(Laid[n - 1]) \in Nat /\ EdgeCount(n) \in Nat
         /\ Len(Laid[n - 1]) + EdgeCount(n) <= Len(Laid[Len(nodes)])
         /\ SubSeq(Laid[Len(nodes)], Len(Laid[n - 1]) + 1, Len(Laid[n - 1]) + 1 + EdgeCount(n) - 1)
              = nodes[n].edges
<1> DEFINE a == Laid[n - 1]
           b == nodes[n].edges
           c == Laid[n]
           t == Laid[Len(nodes)]
           p == Len(a) + 1
           q == Len(a) + 1 + Len(b) - 1
           s == SubSeq(t, p, q)
<1>1. Len(nodes) \in Nat /\ n - 1 \in 0 .. Len(nodes) /\ n \in 0 .. Len(nodes)
      /\ Len(nodes) \in 0 .. Len(nodes) /\ Len(nodes) \in n .. Len(nodes)
  BY LenProperties
<1>2. a \in Seq(AnyEdge) /\ c \in Seq(AnyEdge) /\ t \in Seq(AnyEdge)
  BY <1>1, LaidStep
<1>3. b \in Seq(AnyEdge)
  <2>1. nodes[n] \in AnyNode
    BY LenProperties
  <2> QED
    BY <2>1 DEF AnyNode
<1>4. Len(a) \in Nat /\ Len(b) \in Nat /\ Len(c) \in Nat /\ Len(t) \in Nat
      /\ (\A k \in 1 .. Len(b) : b[k] \in AnyEdge) /\ \A k \in 1 .. Len(t) : t[k] \in AnyEdge
  BY <1>2, <1>3, LenProperties
<1>5. Under(c, t)
  BY <1>1, LaidGrows
<1>6. c = a \o b
  BY LaidStep, Zenon
<1> HIDE DEF a, b, c, t
<1>7. Len(c) = Len(a) + Len(b) /\ \A k \in 1 .. Len(b) : c[Len(a) + k] = b[k]
  <2>1. Len(a \o b) = Len(a) + Len(b) /\ \A k \in 1 .. Len(b) : (a \o b)[Len(a) + k] = b[k]
    BY <1>2, <1>3, Joined
  <2> QED
    BY <1>6, <2>1
<1>8. Len(a) + Len(b) <= Len(t) /\ \A k \in 1 .. Len(b) : t[Len(a) + k] = b[k]
  <2>1. Len(c) <= Len(t) /\ \A k \in 1 .. Len(c) : c[k] = t[k]
    BY <1>5 DEF Under
  <2>2. \A k \in 1 .. Len(b) : Len(a) + k \in 1 .. Len(c)
    BY <1>4, <1>7
  <2> QED
    BY <1>7, <2>1, <2>2
<1>9. s \in Seq(AnyEdge) /\ Len(s) = Len(b) /\ \A k \in 1 .. Len(b) : s[k] = t[Len(a) + k]
  <2>1. \A k \in p .. q : t[k] \in AnyEdge
    BY <1>4, <1>8
  <2>2. p \in Int /\ q \in Int
    BY <1>4
  <2>3. /\ s \in Seq(AnyEdge) /\ Len(s) = IF p <= q THEN q - p + 1 ELSE 0
        /\ \A k \in 1 .. q - p + 1 : s[k] = t[p + k - 1]
    <3> HIDE DEF p, q
    <3> QED
      BY <2>1, <2>2, SubSeqProperties
  <2> HIDE DEF s
  <2>4. Len(s) = Len(b)
    BY <1>4, <2>3
  <2>5. ASSUME NEW k \in 1 .. Len(b) PROVE s[k] = t[Len(a) + k]
    <3>1. k \in 1 .. q - p + 1 /\ p + k - 1 = Len(a) + k
      BY <1>4
    <3> QED
      BY <2>3, <3>1
  <2> QED
    BY <2>3, <2>4, <2>5
<1> HIDE DEF s
<1>10. s = b
  <2>1. \A k \in 1 .. Len(s) : s[k] = b[k]
    BY <1>8, <1>9
  <2> QED
    BY <1>3, <1>9, <2>1, SeqEqual
<1> QED
  BY <1>4, <1>8, <1>10 DEF s, t, a, b, EdgeCount

\* What a reader sees in index.fce are the nodes and their edges.
Frozen ==
  /\ DOMAIN index.nodes = 1 .. Len(nodes) /\ Len(index.nodes) = Len(nodes)
  /\ \A n \in 1 .. Len(nodes) :
       /\ EdgesOf(n) = nodes[n].edges
       /\ index.nodes[n].value = nodes[n].value
       /\ index.nodes[n].first - 1 + index.nodes[n].count <= Len(index.edges)

LEMMA FreezeLays ==
  ASSUME nodes \in Seq(AnyNode), Freeze
  PROVE  Frozen'
<1> DEFINE L == Len(nodes)
           A == [n \in DOMAIN nodes |->
                  [first |-> Len(Laid[n - 1]) + 1, count |-> EdgeCount(n), value |-> nodes[n].value]]
<1>1. index' = [nodes |-> A, edges |-> Laid[L]] /\ nodes' = nodes
  BY DEF Freeze, buildVars
<1>2. DOMAIN nodes = 1 .. L /\ L \in Nat
  BY LenProperties
<1>3. DOMAIN A = 1 .. L /\ Len(A) = L
  <2>1. A \in Seq({A[n] : n \in DOMAIN nodes})
    <3>1. A \in [1 .. L -> {A[n] : n \in DOMAIN nodes}]
      BY <1>2
    <3> HIDE DEF A, L
    <3> QED
      BY <1>2, <3>1, SeqDef
  <2>2. DOMAIN A = 1 .. L
    BY <1>2
  <2>3. DOMAIN A = 1 .. Len(A) /\ Len(A) \in Nat
    <3> HIDE DEF A, L
    <3> QED
      BY <2>1, LenProperties
  <2> HIDE DEF A, L
  <2> QED
    BY <1>2, <2>2, <2>3
<1>4. index'.nodes = A /\ index'.edges = Laid[L]
  BY <1>1
<1>5. ASSUME NEW n \in 1 .. L
      PROVE  /\ A[n].first = Len(Laid[n - 1]) + 1 /\ A[n].count = EdgeCount(n)
             /\ A[n].value = nodes[n].value
  BY <1>2
<1> HIDE DEF A
<1>6. ASSUME NEW n \in 1 .. L
      PROVE  /\ EdgesOf(n)' = nodes[n].edges
             /\ A[n].first - 1 + A[n].count <= Len(Laid[L])
  <2>1. EdgesOf(n)' = SubSeq(Laid[L], A[n].first, A[n].first + A[n].count - 1)
    BY <1>4 DEF EdgesOf
  <2>2. EdgesOf(n)' = SubSeq(Laid[L], Len(Laid[n - 1]) + 1, Len(Laid[n - 1]) + 1 + EdgeCount(n) - 1)
    BY <1>5, <2>1
  <2>3. /\ Len(Laid[n - 1]) \in Nat /\ EdgeCount(n) \in Nat
        /\ Len(Laid[n - 1]) + EdgeCount(n) <= Len(Laid[L])
        /\ SubSeq(Laid[L], Len(Laid[n - 1]) + 1, Len(Laid[n - 1]) + 1 + EdgeCount(n) - 1)
              = nodes[n].edges
    BY LaidSlice, Zenon
  <2>4. EdgesOf(n)' = nodes[n].edges
    BY <2>2, <2>3, Zenon
  <2> DEFINE a == Len(Laid[n - 1])
             b == EdgeCount(n)
  <2>5. A[n].first = a + 1 /\ A[n].count = b /\ a \in Nat /\ b \in Nat /\ a + b <= Len(Laid[L])
    BY <1>5, <2>3
  <2> HIDE DEF a, b, L
  <2>6. A[n].first - 1 + A[n].count <= Len(Laid[L])
    BY <2>5
  <2> QED
    BY <2>4, <2>6
<1> QED
  BY <1>1, <1>3, <1>4, <1>5, <1>6 DEF Frozen

-----------------------------------------------------------------------------
(* A prefix scan.                                                          *)

\* The nodes on the stack S are below the prefix P, and none is below another.
Pending(N, w, P, S) ==
  /\ S \in Seq(1 .. Len(N))
  /\ \A a \in 1 .. Len(S) : Under(P, w[S[a]])
  /\ \A a, b \in 1 .. Len(S) : a # b => ~Under(w[S[a]], w[S[b]])

\* Node n is below the prefix and has been visited: it is not below the stack.
Visited(w, P, S, n) == Under(P, w[n]) /\ \A a \in 1 .. Len(S) : ~Under(w[S[a]], w[n])

\* T is the stack S with the children of its last node in its place.
Popped(N, S, T) ==
  /\ S # <<>> /\ T \in Seq(1 .. Len(N))
  /\ Len(T) = Len(S) - 1 + Len(N[S[Len(S)]].edges)
  /\ \A a \in 1 .. Len(S) - 1 : T[a] = S[a]
  /\ \A e \in 1 .. Len(N[S[Len(S)]].edges) : T[Len(S) - 1 + e] = N[S[Len(S)]].edges[e].child

\* The words of the children of a node: they are below it, and none is below another.
LEMMA ChildWords ==
  ASSUME NEW N, NEW w, IsTree(N, w), NEW n \in 1 .. Len(N), NEW e \in 1 .. Len(N[n].edges)
  PROVE  LET c == N[n].edges[e].child
         IN /\ c \in 1 .. Len(N) /\ Len(w[c]) = Len(w[n]) + 1 /\ Under(w[n], w[c])
            /\ \A u \in Seq(Label) : Under(u, w[c]) => Under(u, w[n]) \/ u = w[c]
            /\ \A d \in 1 .. Len(N[n].edges) :
                 d # e => ~Under(w[N[n].edges[d].child], w[c])
<1> DEFINE E == N[n].edges
           c == E[e].child
           l == E[e].label
<1>1. /\ \A m \in 1 .. Len(N) : w[m] \in Seq(Label) /\ Len(w[m]) \in Nat
      /\ Len(E) \in Nat /\ Len(N) \in Nat /\ n \in Nat /\ e \in 1 .. Len(E)
      /\ \A d \in 1 .. Len(E) : E[d].label \in Label /\ E[d].label \in Int
  <2>1. Len(N) \in Nat /\ \A m \in 1 .. Len(N) : w[m] \in Seq(Label)
    BY TreeTypes
  <2>2. \A m \in 1 .. Len(N) : Len(w[m]) \in Nat
    BY <2>1, LenProperties
  <2>3. Len(E) \in Nat /\ \A d \in 1 .. Len(E) : E[d].label \in Label /\ E[d].label \in Int
    BY TreeTypes
  <2> QED
    BY <2>1, <2>2, <2>3
<1>2. ASSUME NEW d \in 1 .. Len(E)
      PROVE  /\ E[d].child \in 1 .. Len(N) /\ w[E[d].child] = Append(w[n], E[d].label)
             /\ \A b \in 1 .. d - 1 : E[b].label < E[d].label
  <2>1. Fits(E, w, n, d, Len(N))
    BY DEF IsTree
  <2> HIDE DEF E
  <2> QED
    BY <1>1, <2>1 DEF Fits
<1>3. /\ c \in 1 .. Len(N) /\ w[c] = Append(w[n], l) /\ l \in Label
  BY <1>1, <1>2
<1> HIDE DEF E
<1> DEFINE u == w[n]
           v == w[c]
<1>4. u \in Seq(Label) /\ v \in Seq(Label) /\ v = Append(u, l) /\ Len(u) \in Nat
  BY <1>1, <1>3
<1> HIDE DEF u, v, c, l
<1>5. Len(v) = Len(u) + 1 /\ v[Len(u) + 1] = l
  BY <1>3, <1>4, AppendProperties
<1>6. Under(v, v)
  BY <1>4, UnderFacts
<1>7. Under(u, v)
  BY Zenon, <1>3, <1>4, <1>6, UnderFacts
<1>8. ASSUME NEW t \in Seq(Label), Under(t, v) PROVE Under(t, u) \/ t = v
  <2>1. Len(t) \in Nat /\ Len(t) <= Len(v)
    BY <1>8, LenProperties DEF Under
  <2>2. CASE Len(t) = Len(v)
    BY <1>4, <1>8, <2>2, UnderLaws
  <2>3. CASE Len(t) <= Len(u)
    BY <1>4, <1>7, <1>8, <2>3, UnderLaws
  <2> QED
    BY <1>4, <1>5, <2>1, <2>2, <2>3
<1>9. ASSUME NEW d \in 1 .. Len(E), d # e PROVE ~Under(w[E[d].child], v)
  <2> DEFINE x == E[d].label
  <2>1. E[d].label # E[e].label
    <3>1. d \in 1 .. e - 1 \/ e \in 1 .. d - 1
      BY <1>1, <1>9
    <3>2. \A a \in 1 .. Len(E) : \A b \in 1 .. a - 1 : E[b].label < E[a].label
      BY <1>2
    <3>3. E[d].label < E[e].label \/ E[e].label < E[d].label
      BY <1>1, <3>1, <3>2
    <3> QED
      BY <1>1, <3>3
  <2>2. w[E[d].child] = Append(u, x) /\ x \in Label
    BY <1>1, <1>2 DEF u
  <2>3. x # l
    BY <2>1 DEF l
  <2> HIDE DEF x
  <2>4. Under(Append(u, x), v) => v[Len(u) + 1] = x
    BY <1>4, <2>2, UnderFacts
  <2> QED
    BY <1>5, <2>2, <2>3, <2>4
<1> QED
  BY <1>3, <1>5, <1>7, <1>8, <1>9 DEF u, v, c, E

\* A visit: no node is met twice, and only the node visited is new.
LEMMA VisitStep ==
  ASSUME NEW N, NEW w, IsTree(N, w), NEW P \in Seq(Label), NEW S, NEW T, Pending(N, w, P, S), Popped(N, S, T)
  PROVE  /\ Pending(N, w, P, T)
         /\ ~Visited(w, P, S, S[Len(S)])
         /\ \A n \in 1 .. Len(N) : Visited(w, P, T, n) <=> Visited(w, P, S, n) \/ n = S[Len(S)]
<1> DEFINE L == Len(S)
           c == S[L]
           E == N[c].edges
<1>1. S \in Seq(1 .. Len(N))
  BY DEF Pending
<1>2. /\ L \in Nat /\ L >= 1 /\ L \in 1 .. L /\ c \in 1 .. Len(N) /\ \A a \in 1 .. L : S[a] \in 1 .. Len(N)
  <2>1. S # <<>>
    BY DEF Popped
  <2> QED
    BY <1>1, <2>1, LenProperties, EmptySeq
<1>3. \A m \in 1 .. Len(N) : w[m] \in Seq(Label)
  BY TreeTypes
<1>4. Len(E) \in Nat
  BY <1>2, TreeTypes
<1>5. /\ \A a \in 1 .. L - 1 : a \in 1 .. Len(T) /\ a \in 1 .. L
      /\ \A e \in 1 .. Len(E) : L - 1 + e \in 1 .. Len(T)
      /\ \A a \in 1 .. Len(T) : a \in 1 .. L - 1 \/ \E e \in 1 .. Len(E) : a = L - 1 + e
      /\ \A a \in 1 .. L : a \in 1 .. L - 1 \/ a = L
  <2>1. Len(T) = L - 1 + Len(E)
    BY DEF Popped
  <2> HIDE DEF L, E
  <2>2. ASSUME NEW a \in 1 .. Len(T), a \notin 1 .. L - 1 PROVE \E e \in 1 .. Len(E) : a = L - 1 + e
    <3>1. a - (L - 1) \in 1 .. Len(E) /\ a = L - 1 + (a - (L - 1))
      BY <1>2, <1>4, <2>1, <2>2
    <3> QED
      BY <3>1
  <2> QED
    BY <1>2, <1>4, <2>1, <2>2
<1>6. /\ T \in Seq(1 .. Len(N))
      /\ \A a \in 1 .. L - 1 : T[a] = S[a]
      /\ \A e \in 1 .. Len(E) : T[L - 1 + e] = E[e].child
  BY DEF Popped
<1>7. /\ \A a \in 1 .. L : Under(P, w[S[a]])
      /\ \A a, b \in 1 .. L : a # b => ~Under(w[S[a]], w[S[b]])
  BY DEF Pending
<1>8. \A e \in 1 .. Len(E) :
        /\ E[e].child \in 1 .. Len(N) /\ Len(w[E[e].child]) = Len(w[c]) + 1 /\ Under(w[c], w[E[e].child])
        /\ \A u \in Seq(Label) : Under(u, w[E[e].child]) => Under(u, w[c]) \/ u = w[E[e].child]
        /\ \A d \in 1 .. Len(E) : d # e => ~Under(w[E[d].child], w[E[e].child])
  BY <1>2, ChildWords
<1>9. \A m \in 1 .. Len(N) : Under(w[c], w[m]) /\ m # c => \E e \in 1 .. Len(E) : Under(w[E[e].child], w[m])
  BY <1>2, ChildrenCover
<1>10. \A m \in 1 .. Len(N) : Len(w[m]) \in Nat
  BY <1>3, LenProperties
<1> HIDE DEF L, c, E
<1>11. c = S[L]
  BY DEF c
<1>12. ASSUME NEW a \in 1 .. Len(T) PROVE Under(P, w[T[a]])
  <2>1. CASE a \in 1 .. L - 1
    BY <1>5, <1>6, <1>7, <2>1
  <2>2. CASE \E e \in 1 .. Len(E) : a = L - 1 + e
    <3>1. PICK e \in 1 .. Len(E) : a = L - 1 + e
      BY <2>2
    <3> DEFINE x == E[e].child
    <3>2. T[a] = x /\ x \in 1 .. Len(N) /\ Under(w[c], w[x])
      BY <1>6, <1>8, <3>1
    <3>3. Under(P, w[c])
      BY <1>2, <1>7, <1>11
    <3> HIDE DEF x
    <3> QED
      BY <1>2, <1>3, <3>2, <3>3, UnderLaws
  <2> QED
    BY <1>5, <2>1, <2>2
<1>13. ASSUME NEW a \in 1 .. L - 1, NEW e \in 1 .. Len(E)
       PROVE  ~Under(w[S[a]], w[E[e].child]) /\ ~Under(w[E[e].child], w[S[a]])
  <2> DEFINE x == E[e].child
             y == S[a]
  <2>1. a \in 1 .. L /\ a # L
    BY <1>2, <1>5
  <2>2. y \in 1 .. Len(N) /\ ~Under(w[y], w[c]) /\ ~Under(w[c], w[y])
    BY <1>2, <1>7, <1>11, <2>1
  <2>3. /\ x \in 1 .. Len(N) /\ Under(w[c], w[x])
        /\ \A u \in Seq(Label) : Under(u, w[x]) => Under(u, w[c]) \/ u = w[x]
    BY <1>8
  <2> HIDE DEF x, y
  <2>4. ~Under(w[x], w[y])
    BY <1>2, <1>3, <2>2, <2>3, UnderLaws
  <2>5. ~Under(w[y], w[x])
    BY <1>3, <2>2, <2>3
  <2> QED
    BY <2>4, <2>5 DEF x, y
<1>14. ASSUME NEW a \in 1 .. Len(T), NEW b \in 1 .. Len(T), a # b PROVE ~Under(w[T[a]], w[T[b]])
  <2>1. CASE a \in 1 .. L - 1 /\ b \in 1 .. L - 1
    BY <1>5, <1>6, <1>7, <1>14, <2>1
  <2>2. ASSUME a \in 1 .. L - 1, NEW e \in 1 .. Len(E), b = L - 1 + e PROVE ~Under(w[T[a]], w[T[b]])
    <3>1. T[a] = S[a] /\ T[b] = E[e].child
      BY <1>6, <2>2
    <3> QED
      BY <1>13, <2>2, <3>1
  <2>3. ASSUME b \in 1 .. L - 1, NEW e \in 1 .. Len(E), a = L - 1 + e PROVE ~Under(w[T[a]], w[T[b]])
    <3>1. T[b] = S[b] /\ T[a] = E[e].child
      BY <1>6, <2>3
    <3> QED
      BY <1>13, <2>3, <3>1
  <2>4. ASSUME NEW d \in 1 .. Len(E), a = L - 1 + d, NEW e \in 1 .. Len(E), b = L - 1 + e
        PROVE ~Under(w[T[a]], w[T[b]])
    <3>1. T[a] = E[d].child /\ T[b] = E[e].child /\ d # e
      BY <1>6, <1>14, <2>4
    <3> QED
      BY <1>8, <3>1
  <2>5. a \in 1 .. L - 1 \/ \E e \in 1 .. Len(E) : a = L - 1 + e
    BY <1>5
  <2>6. b \in 1 .. L - 1 \/ \E e \in 1 .. Len(E) : b = L - 1 + e
    BY <1>5
  <2> QED
    BY <2>1, <2>2, <2>3, <2>4, <2>5, <2>6
<1>15. Pending(N, w, P, T)
  BY <1>6, <1>12, <1>14 DEF Pending
<1>16. ~Visited(w, P, S, c)
  <2>1. Under(w[c], w[c])
    BY <1>2, <1>3, UnderLaws
  <2> QED
    BY <1>2, <1>11, <2>1 DEF Visited, L
<1>17. ASSUME NEW n \in 1 .. Len(N), Visited(w, P, T, n) PROVE Visited(w, P, S, n) \/ n = c
  <2>1. Under(P, w[n]) /\ \A a \in 1 .. Len(T) : ~Under(w[T[a]], w[n])
    BY <1>17 DEF Visited
  <2> SUFFICES ASSUME n # c, NEW a \in 1 .. L, Under(w[S[a]], w[n]) PROVE FALSE
    BY <2>1 DEF Visited, L
  <2>2. CASE a \in 1 .. L - 1
    BY <1>5, <1>6, <2>1, <2>2
  <2>3. CASE a = L
    <3>1. PICK e \in 1 .. Len(E) : Under(w[E[e].child], w[n])
      BY <1>9, <1>11, <2>3
    <3>2. T[L - 1 + e] = E[e].child /\ L - 1 + e \in 1 .. Len(T)
      BY <1>5, <1>6
    <3> QED
      BY <2>1, <3>1, <3>2
  <2> QED
    BY <1>5, <2>2, <2>3
<1>18. ASSUME NEW n \in 1 .. Len(N), Visited(w, P, S, n) PROVE Visited(w, P, T, n)
  <2>1. Under(P, w[n]) /\ \A a \in 1 .. L : ~Under(w[S[a]], w[n])
    BY <1>18 DEF Visited, L
  <2> SUFFICES ASSUME NEW a \in 1 .. Len(T), Under(w[T[a]], w[n]) PROVE FALSE
    BY <2>1 DEF Visited
  <2>2. CASE a \in 1 .. L - 1
    BY <1>5, <1>6, <2>1, <2>2
  <2>3. CASE \E e \in 1 .. Len(E) : a = L - 1 + e
    <3>1. PICK e \in 1 .. Len(E) : a = L - 1 + e
      BY <2>3
    <3> DEFINE x == E[e].child
    <3>2. x \in 1 .. Len(N) /\ Under(w[c], w[x]) /\ Under(w[x], w[n])
      BY <1>6, <1>8, <3>1
    <3> HIDE DEF x
    <3>3. Under(w[c], w[n])
      BY <1>2, <1>3, <3>2, UnderLaws
    <3> QED
      BY <1>2, <1>11, <2>1, <3>3
  <2> QED
    BY <1>5, <2>2, <2>3
<1>19. Visited(w, P, T, c)
  <2>1. Under(P, w[c])
    BY <1>2, <1>7, <1>11
  <2> SUFFICES ASSUME NEW a \in 1 .. Len(T), Under(w[T[a]], w[c]) PROVE FALSE
    BY <2>1 DEF Visited
  <2>2. CASE a \in 1 .. L - 1
    <3>1. T[a] = S[a] /\ a \in 1 .. L /\ a # L
      BY <1>2, <1>5, <1>6, <2>2
    <3> QED
      BY <1>2, <1>7, <1>11, <3>1
  <2>3. CASE \E e \in 1 .. Len(E) : a = L - 1 + e
    <3>1. PICK e \in 1 .. Len(E) : a = L - 1 + e
      BY <2>3
    <3> DEFINE x == E[e].child
    <3>2. x \in 1 .. Len(N) /\ Len(w[x]) = Len(w[c]) + 1 /\ Under(w[x], w[c])
      BY <1>6, <1>8, <3>1
    <3> HIDE DEF x
    <3>3. Len(w[x]) <= Len(w[c])
      BY <3>2 DEF Under
    <3> QED
      BY <1>2, <1>10, <3>2, <3>3
  <2> QED
    BY <1>5, <2>2, <2>3
<1>20. \A n \in 1 .. Len(N) : Visited(w, P, T, n) <=> Visited(w, P, S, n) \/ n = c
  BY <1>17, <1>18, <1>19
<1> QED
  BY <1>15, <1>16, <1>20 DEF c, L

\* The records of the nodes are some of the first R, each at one node.
ValuesIn(N, R) ==
  /\ \A n \in 1 .. Len(N) : N[n].value \in 0 .. R
  /\ \A m, n \in 1 .. Len(N) : N[m].value = N[n].value /\ N[m].value # None => m = n

\* The matches M are the records of the nodes visited, each once.
Collected(N, w, P, S, M, R) ==
  /\ M \in Seq(1 .. R)
  /\ \A a, b \in 1 .. Len(M) : M[a] = M[b] => a = b
  /\ \A v \in 1 .. R : (\E a \in 1 .. Len(M) : M[a] = v)
                          <=> \E n \in 1 .. Len(N) : N[n].value = v /\ Visited(w, P, S, n)

LEMMA CollectStep ==
  ASSUME NEW N, NEW w, NEW P, NEW S, NEW T, NEW M, NEW R \in Nat, NEW c \in 1 .. Len(N),
         ValuesIn(N, R), Collected(N, w, P, S, M, R), ~Visited(w, P, S, c),
         \A n \in 1 .. Len(N) : Visited(w, P, T, n) <=> Visited(w, P, S, n) \/ n = c
  PROVE  Collected(N, w, P, T, IF N[c].value = None THEN M ELSE Append(M, N[c].value), R)
<1> DEFINE x == N[c].value
           M2 == Append(M, x)
<1>1. /\ M \in Seq(1 .. R) /\ Len(M) \in Nat /\ \A a \in 1 .. Len(M) : M[a] \in 1 .. R
      /\ \A a, b \in 1 .. Len(M) : M[a] = M[b] => a = b
  <2>1. M \in Seq(1 .. R)
    BY DEF Collected
  <2> QED
    BY <2>1, LenProperties DEF Collected
<1>2. \A v \in 1 .. R : (\E a \in 1 .. Len(M) : M[a] = v)
                          <=> \E n \in 1 .. Len(N) : N[n].value = v /\ Visited(w, P, S, n)
  BY DEF Collected
<1>3. CASE x = None
  <2>1. \A v \in 1 .. R : N[c].value # v
    BY <1>3 DEF None
  <2>2. \A v \in 1 .. R : (\E n \in 1 .. Len(N) : N[n].value = v /\ Visited(w, P, S, n))
                            <=> \E n \in 1 .. Len(N) : N[n].value = v /\ Visited(w, P, T, n)
    BY <2>1
  <2>3. Collected(N, w, P, T, M, R)
    BY <1>1, <1>2, <2>2 DEF Collected
  <2> QED
    BY <1>3, <2>3
<1>4. CASE x # None
  <2>1. x \in 1 .. R
    BY <1>4 DEF ValuesIn, None
  <2>2. \A n \in 1 .. Len(N) : N[n].value = x => n = c
    BY <1>4 DEF ValuesIn
  <2>3. ~ \E a \in 1 .. Len(M) : M[a] = x
    BY <1>2, <2>1, <2>2
  <2>4. /\ M2 \in Seq(1 .. R) /\ Len(M2) = Len(M) + 1 /\ M2[Len(M) + 1] = x
        /\ \A a \in 1 .. Len(M) : M2[a] = M[a]
    <3> HIDE DEF x
    <3> QED
      BY <1>1, <2>1, AppendProperties
  <2> HIDE DEF x, M2
  <2>5. \A a \in 1 .. Len(M) + 1 : a \in 1 .. Len(M) \/ a = Len(M) + 1
    BY <1>1
  <2>6. \A a, b \in 1 .. Len(M2) : M2[a] = M2[b] => a = b
    BY <1>1, <2>3, <2>4, <2>5
  <2>7. ASSUME NEW v \in 1 .. R
        PROVE  (\E a \in 1 .. Len(M2) : M2[a] = v)
                 <=> \E n \in 1 .. Len(N) : N[n].value = v /\ Visited(w, P, T, n)
    <3>1. (\E a \in 1 .. Len(M2) : M2[a] = v) <=> (\E a \in 1 .. Len(M) : M[a] = v) \/ v = x
      <4>1. Len(M) + 1 \in 1 .. Len(M2) /\ \A a \in 1 .. Len(M) : a \in 1 .. Len(M2)
        BY <1>1, <2>4
      <4> QED
        BY <2>4, <2>5, <4>1
    <3>2. (\E n \in 1 .. Len(N) : N[n].value = v /\ Visited(w, P, T, n))
            <=> (\E n \in 1 .. Len(N) : N[n].value = v /\ Visited(w, P, S, n)) \/ v = x
      BY <2>2 DEF x
    <3> QED
      BY <1>2, <3>1, <3>2
  <2>8. Collected(N, w, P, T, M2, R)
    BY <2>4, <2>6, <2>7 DEF Collected
  <2> QED
    BY <1>4, <2>8 DEF M2, x
<1> QED
  BY <1>3, <1>4

LEMMA InjectiveShort ==
  ASSUME NEW R \in Nat, NEW s \in Seq(1 .. R), \A a, b \in 1 .. Len(s) : s[a] = s[b] => a = b
  PROVE  Len(s) <= R
<1>1. Len(s) \in Nat /\ s \in [1 .. Len(s) -> 1 .. R]
  BY LenProperties
<1> DEFINE A == 1 .. Len(s)
           B == 1 .. R
<1>2. IsFiniteSet(A) /\ Cardinality(A) = Len(s) /\ IsFiniteSet(B) /\ Cardinality(B) = R
  <2>1. \A n \in Nat : IsFiniteSet(1 .. n) /\ Cardinality(1 .. n) = n
    BY FS_Interval
  <2> QED
    BY <1>1, <2>1
<1> HIDE DEF A, B
<1>3. ASSUME R < Len(s) PROVE FALSE
  <2>1. \E a, b \in A : a # b /\ s[a] = s[b]
    <3>1. s \in [A -> B]
      BY <1>1 DEF A, B
    <3>2. Cardinality(B) < Cardinality(A)
      BY <1>2, <1>3
    <3> QED
      BY <1>2, <3>1, <3>2, FS_PigeonHole
  <2> QED
    BY <2>1 DEF A
<1> QED
  BY <1>1, <1>3

LEMMA PendingShort ==
  ASSUME NEW N, NEW w, IsTree(N, w), NEW P, NEW S, Pending(N, w, P, S)
  PROVE  Len(S) <= Len(N)
<1>1. S \in Seq(1 .. Len(N)) /\ Len(N) \in Nat
  BY TreeTypes DEF Pending
<1>2. ASSUME NEW a \in 1 .. Len(S), NEW b \in 1 .. Len(S), S[a] = S[b] PROVE a = b
  <2>1. S[b] \in 1 .. Len(N)
    BY <1>1, LenProperties
  <2>2. w[S[b]] \in Seq(Label)
    BY <2>1, TreeTypes
  <2>3. Under(w[S[a]], w[S[b]])
    BY <1>2, <2>2, UnderLaws
  <2> QED
    BY <2>3 DEF Pending
<1> QED
  BY <1>1, <1>2, InjectiveShort

-----------------------------------------------------------------------------
(* The inductive invariant.                                                *)

KeysOK ==
  /\ keys \in Seq(Keyspace) /\ Len(keys) <= MaxKeys
  /\ \A a, b \in 1 .. Len(keys) : keys[a] = keys[b] => a = b

InKey == pc = "build" /\ i <= Len(keys)

Cursor ==
  /\ i \in 1 .. Len(keys) + 1 /\ j \in 1 .. MaxLen + 1 /\ node \in 1 .. Len(nodes)
  /\ st \in {"FCE_OK", "FCE_ERR_OUT_OF_MEMORY"}
  /\ pc \in {"build", "failed", "frozen", "refused", "open", "scan", "scanned"}
  /\ grown \in BOOLEAN
  /\ InKey => j <= Len(keys[i]) + 1

Room ==
  /\ nodeCap \in Nat /\ Len(nodes) <= nodeCap
  /\ \A n \in 1 .. Len(nodes) : EdgeCount(n) <= nodes[n].cap

\* If no array failed to grow, the bytes read lead to `node', and each record is
\* at the node of its key.
Stored(w) ==
  /\ st = "FCE_OK" /\ pc \notin {"failed", "refused"}
  /\ InKey => w[node] = Cut(keys[i], j - 1)
  /\ \A n \in 1 .. Len(nodes) : nodes[n].value # None => w[n] = keys[nodes[n].value]
  /\ \A r \in 1 .. Len(keys) : (pc = "build" => r < i) => \E n \in 1 .. Len(nodes) : nodes[n].value = r

Scanning(w) ==
  /\ prefix \in Keyspace
  /\ pc \in {"build", "failed", "frozen", "refused", "open"} => stack = <<>> /\ matches = <<>>
  /\ pc \in {"frozen", "open", "scan", "scanned"} => Frozen
  /\ pc \in {"scan", "scanned"} => /\ Pending(nodes, w, prefix, stack)
                                   /\ Collected(nodes, w, prefix, stack, matches, Len(keys))
  /\ pc = "scanned" => stack = <<>>

RadixInv(w) ==
  /\ KeysOK /\ Cursor /\ Room
  /\ IsTree(nodes, w)
  /\ ValuesIn(nodes, Len(keys))
  /\ pc = "build" => \A n \in 1 .. Len(nodes) : nodes[n].value < i
  /\ grown => Stored(w)
  /\ Scanning(w)

LEMMA BoundedSeqTypes ==
  ASSUME NEW S, NEW n \in Nat
  PROVE  /\ \A s \in BoundedSeq(S, n) : s \in Seq(S) /\ Len(s) \in Nat /\ Len(s) <= n
         /\ <<>> \in BoundedSeq(S, n)
<1>1. ASSUME NEW s \in BoundedSeq(S, n) PROVE s \in Seq(S) /\ Len(s) \in Nat /\ Len(s) <= n
  <2>1. PICK m \in 0 .. n : s \in [1 .. m -> S]
    BY DEF BoundedSeq, SeqOf
  <2>2. s \in Seq(S)
    BY <2>1, SeqDef
  <2>3. Len(s) = m
    BY <2>1, <2>2, LenProperties
  <2> QED
    BY <2>1, <2>2, <2>3
<1>2. <<>> \in [1 .. 0 -> S] /\ 0 \in 0 .. n
  OBVIOUS
<1> QED
  BY <1>1, <1>2 DEF BoundedSeq, SeqOf

LEMMA KeyTypes ==
  /\ \A k \in Keyspace : k \in Seq(Label) /\ Len(k) \in Nat /\ Len(k) <= MaxLen
  /\ <<>> \in Keyspace
BY RadixConstants, BoundedSeqTypes DEF Keyspace

LEMMA RecordTypes ==
  ASSUME KeysOK
  PROVE  /\ Len(keys) \in Nat /\ DOMAIN keys = 1 .. Len(keys)
         /\ \A r \in 1 .. Len(keys) : /\ keys[r] \in Keyspace /\ keys[r] \in Seq(Label)
                                      /\ Len(keys[r]) \in Nat /\ Len(keys[r]) <= MaxLen
<1>1. Len(keys) \in Nat /\ DOMAIN keys = 1 .. Len(keys) /\ \A r \in 1 .. Len(keys) : keys[r] \in Keyspace
  BY LenProperties DEF KeysOK
<1> QED
  BY <1>1, KeyTypes

LEMMA InitHolds ==
  ASSUME RadixInit
  PROVE  \E w : RadixInv(w)
<1> DEFINE w == [n \in 1 .. 1 |-> <<>>]
<1>1. nodes = <<NewNode>> /\ Len(nodes) = 1 /\ nodes[1] = NewNode /\ nodes \in Seq(AnyNode)
  <2>1. NewNode \in AnyNode
    <3>1. <<>> \in Seq(AnyEdge)
      OBVIOUS
    <3> QED
      BY <3>1 DEF NewNode, AnyNode, None
  <2> QED
    BY <2>1 DEF RadixInit
<1>2. NewNode.edges = <<>> /\ NewNode.cap = 0 /\ NewNode.value = 0
  BY DEF NewNode, None
<1>3. IsTree(nodes, w)
  <2>1. w \in [1 .. 1 -> Seq(Label)] /\ w[1] = <<>>
    OBVIOUS
  <2>2. \A m, n \in 1 .. 1 : m = n
    OBVIOUS
  <2>3. \A n \in 1 .. 1 : Len(nodes[n].edges) = 0
    BY <1>1, <1>2
  <2>4. \A c \in 2 .. 1 : FALSE
    OBVIOUS
  <2> HIDE DEF w
  <2> QED
    BY <1>1, <2>1, <2>2, <2>3, <2>4 DEF IsTree, Root
<1>4. KeysOK
  <2>1. keys \in BoundedSeq(Keyspace, MaxKeys) /\ IsInjective(keys)
    BY DEF RadixInit
  <2>2. keys \in Seq(Keyspace) /\ Len(keys) <= MaxKeys
    BY <2>1, RadixConstants, BoundedSeqTypes
  <2> QED
    BY <2>1, <2>2, LenProperties DEF KeysOK, IsInjective
<1>5. Len(keys) \in Nat /\ \A r \in 1 .. Len(keys) : Len(keys[r]) \in Nat /\ keys[r] \in Seq(Label)
  BY <1>4, RecordTypes
<1>6. i = 1 /\ j = 1 /\ node = 1 /\ st = "FCE_OK" /\ pc = "build" /\ grown = TRUE /\ nodeCap = NodeCap
      /\ prefix = <<>> /\ stack = <<>> /\ matches = <<>>
  BY DEF RadixInit, Root
<1>7. \A n \in 1 .. Len(nodes) : n = 1 /\ nodes[n].value = 0 /\ Len(nodes[n].edges) = 0 /\ nodes[n].cap = 0
  BY <1>1, <1>2
<1>8. Cursor
  BY <1>1, <1>5, <1>6, RadixConstants DEF Cursor, InKey
<1>9. Room
  BY <1>1, <1>6, <1>7, RadixConstants DEF Room, EdgeCount
<1>10. ValuesIn(nodes, Len(keys)) /\ \A n \in 1 .. Len(nodes) : nodes[n].value < i
  BY <1>5, <1>6, <1>7 DEF ValuesIn, None
<1>11. Stored(w)
  <2>1. 1 <= Len(keys) => w[1] = Cut(keys[1], 0)
    BY <1>5, CutEnds
  <2> HIDE DEF w
  <2> QED
    BY <1>5, <1>6, <1>7, <2>1 DEF Stored, None, InKey
<1>12. Scanning(w)
  BY <1>6, KeyTypes DEF Scanning
<1> HIDE DEF w
<1> QED
  BY <1>3, <1>4, <1>8, <1>9, <1>10, <1>11, <1>12 DEF RadixInv

LEMMA ChildFacts ==
  ASSUME NEW E \in Seq(AnyEdge), NEW l, NEW c
  PROVE  c \in Child(E, l) <=> \E e \in 1 .. Len(E) : E[e].label = l /\ E[e].child = c
<1>1. DOMAIN E = 1 .. Len(E)
  BY LenProperties
<1> QED
  BY <1>1 DEF Child, ToSet

LEMMA NextByte ==
  ASSUME KeysOK, Cursor, AtByte
  PROVE  /\ Byte \in Label /\ Byte \in Int
         /\ Cut(keys[i], j) = Append(Cut(keys[i], j - 1), Byte)
         /\ j + 1 \in 1 .. MaxLen + 1 /\ j + 1 <= Len(keys[i]) + 1 /\ j + 1 - 1 = j
<1>1. i \in 1 .. Len(keys) /\ j \in Nat /\ j >= 1 /\ j <= Len(keys[i])
  BY RecordTypes, RadixConstants DEF Cursor, AtByte
<1>2. keys[i] \in Seq(Label) /\ Len(keys[i]) \in Nat /\ Len(keys[i]) <= MaxLen /\ MaxLen \in Nat
  BY <1>1, RecordTypes, RadixConstants
<1> DEFINE v == keys[i]
           k == j - 1
<1>3. v \in Seq(Label) /\ k \in 0 .. Len(v) - 1 /\ k + 1 = j
  BY <1>1, <1>2
<1> HIDE DEF v, k
<1>4. Cut(v, k + 1) = Append(Cut(v, k), v[k + 1]) /\ v[k + 1] \in Label
  BY <1>3, CutGrows
<1>5. v[k + 1] \in Int
  BY <1>4, Labels
<1>6. Byte = v[k + 1] /\ k + 1 = j
  BY <1>3 DEF Byte, v
<1>7. Byte \in Label /\ Byte \in Int /\ Cut(keys[i], j) = Append(Cut(keys[i], j - 1), Byte)
  BY <1>4, <1>5, <1>6 DEF v, k
<1>8. j + 1 \in 1 .. MaxLen + 1 /\ j + 1 <= Len(keys[i]) + 1 /\ j + 1 - 1 = j
  <2> DEFINE m == Len(keys[i])
  <2>1. m \in Nat /\ m <= MaxLen /\ MaxLen \in Nat /\ j \in Nat /\ j >= 1 /\ j <= m
    BY <1>1, <1>2
  <2> HIDE DEF m
  <2>2. j + 1 \in 1 .. MaxLen + 1 /\ j + 1 <= m + 1 /\ j + 1 - 1 = j
    BY <2>1
  <2> QED
    BY <2>2 DEF m
<1> QED
  BY <1>7, <1>8

LEMMA FollowEdgeKeeps ==
  ASSUME NEW w, RadixInv(w), FollowEdge
  PROVE  RadixInv(w)'
<1>1. /\ AtByte /\ node' \in Child(Edges, Byte) /\ st' = "FCE_OK" /\ j' = j + 1
      /\ keys' = keys /\ nodes' = nodes /\ nodeCap' = nodeCap /\ i' = i /\ index' = index /\ pc' = pc
      /\ prefix' = prefix /\ stack' = stack /\ matches' = matches /\ grown' = grown
  BY DEF FollowEdge, scanVars
<1>2. KeysOK /\ Cursor /\ Room /\ IsTree(nodes, w) /\ ValuesIn(nodes, Len(keys)) /\ Scanning(w)
      /\ (pc = "build" => \A n \in 1 .. Len(nodes) : nodes[n].value < i) /\ (grown => Stored(w))
  BY DEF RadixInv
<1>3. pc = "build" /\ i <= Len(keys) /\ node \in 1 .. Len(nodes) /\ Edges = nodes[node].edges
  BY <1>1, <1>2 DEF AtByte, Cursor, Edges
<1>4. PICK e \in 1 .. Len(Edges) : Edges[e].label = Byte /\ Edges[e].child = node'
  <2>1. Edges \in Seq(AnyEdge)
    BY <1>2, <1>3, TreeTypes
  <2> QED
    BY <1>1, <2>1, ChildFacts
<1>5. Fits(Edges, w, node, e, Len(nodes))
  BY <1>2, <1>3 DEF IsTree
<1>6. node' \in 1 .. Len(nodes) /\ w[node'] = Append(w[node], Byte)
  <2>1. Len(nodes) \in Nat
    BY <1>2, TreeTypes
  <2>2. node' \in node + 1 .. Len(nodes)
    BY <1>4, <1>5 DEF Fits
  <2> QED
    BY <1>3, <1>4, <1>5, <2>1, <2>2 DEF Fits
<1>7. /\ Cut(keys[i], j) = Append(Cut(keys[i], j - 1), Byte)
      /\ j + 1 \in 1 .. MaxLen + 1 /\ j + 1 <= Len(keys[i]) + 1 /\ j + 1 - 1 = j
  BY <1>1, <1>2, NextByte
<1>8. KeysOK' /\ Room' /\ ValuesIn(nodes, Len(keys))' /\ IsTree(nodes, w)'
      /\ (pc' = "build" => \A n \in 1 .. Len(nodes') : nodes'[n].value < i')
  BY <1>1, <1>2 DEF KeysOK, Room, EdgeCount
<1>9. Cursor'
  BY <1>1, <1>2, <1>6, <1>7 DEF Cursor, InKey
<1>10. ASSUME grown PROVE Stored(w)'
  <2>1. Stored(w)
    BY <1>2, <1>10
  <2>2. w[node'] = Cut(keys'[i'], j' - 1)
    <3>1. w[node] = Cut(keys[i], j - 1)
      BY <1>3, <2>1 DEF Stored, InKey
    <3>2. w[node'] = Cut(keys[i], j)
      BY <1>6, <1>7, <3>1
    <3>3. j' - 1 = j
      <4>1. j \in Int
        BY <1>2, RadixConstants DEF Cursor
      <4> QED
        BY <1>1, <4>1
    <3> QED
      BY <1>1, <3>2, <3>3
  <2>3. /\ pc \notin {"failed", "refused"}
        /\ \A n \in 1 .. Len(nodes) : nodes[n].value # None => w[n] = keys[nodes[n].value]
        /\ \A r \in 1 .. Len(keys) : (pc = "build" => r < i) => \E n \in 1 .. Len(nodes) : nodes[n].value = r
    BY <2>1 DEF Stored
  <2> QED
    BY <1>1, <2>2, <2>3 DEF Stored
<1>11. Scanning(w)'
  BY <1>1, <1>2, <1>3 DEF Scanning
<1> QED
  BY <1>1, <1>8, <1>9, <1>10, <1>11 DEF RadixInv

LEMMA GrowthCounts ==
  ASSUME NEW N, NEW w, IsTree(N, w), NEW n \in 1 .. Len(N), NEW l \in Label, NEW cap, NEW M, Grows(N, M, n, l, cap)
  PROVE  /\ Len(M) = Len(N) + 1
         /\ \A m \in 1 .. Len(M) :
              IF m \in 1 .. Len(N)
                THEN /\ M[m].value = N[m].value
                     /\ M[m].cap = IF m = n THEN cap ELSE N[m].cap
                     /\ Len(M[m].edges) = IF m = n THEN Len(N[m].edges) + 1 ELSE Len(N[m].edges)
                ELSE M[m].value = 0 /\ M[m].cap = 0 /\ Len(M[m].edges) = 0
<1>1. /\ Len(N) \in Nat /\ N[n].edges \in Seq(AnyEdge) /\ l \in Int
  BY TreeTypes, Labels
<1>2. /\ Len(M) = Len(N) + 1
      /\ \A m \in 1 .. Len(N) : m # n => M[m].edges = N[m].edges
      /\ \A m \in 1 .. Len(N) : M[m].value = N[m].value
      /\ \A m \in 1 .. Len(N) : M[m].cap = IF m = n THEN cap ELSE N[m].cap
      /\ M[Len(N) + 1] = NewNode
      /\ M[n].edges = InsertAt(N[n].edges, FirstNotBelow(N[n].edges, l), [label |-> l, child |-> Len(N) + 1])
  BY DEF Grows
<1>3. Len(M[n].edges) = Len(N[n].edges) + 1
  <2> DEFINE x == [label |-> l, child |-> Len(N) + 1]
             E == N[n].edges
             p == FirstNotBelow(E, l)
  <2>1. x \in AnyEdge
    BY <1>1 DEF AnyEdge
  <2>2. M[n].edges = InsertAt(E, p, x) /\ E \in Seq(AnyEdge)
    BY <1>1, <1>2
  <2> HIDE DEF x, E
  <2>3. p \in 1 .. Len(E) + 1
    BY <1>1, <2>2, NotBelowFacts
  <2> HIDE DEF p
  <2>4. Len(InsertAt(E, p, x)) = Len(E) + 1
    BY <2>1, <2>2, <2>3, InsertFacts
  <2> QED
    BY <2>2, <2>4 DEF E
<1>4. NewNode.value = 0 /\ NewNode.cap = 0 /\ Len(NewNode.edges) = 0
  BY DEF NewNode, None
<1>5. \A m \in 1 .. Len(M) : m \in 1 .. Len(N) \/ m = Len(N) + 1
  <2>1. Len(M) = Len(N) + 1
    BY <1>2
  <2> QED
    BY <1>1, <2>1
<1>6. ASSUME NEW m \in 1 .. Len(N)
      PROVE  Len(M[m].edges) = IF m = n THEN Len(N[m].edges) + 1 ELSE Len(N[m].edges)
  BY <1>2, <1>3
<1> QED
  BY <1>2, <1>4, <1>5, <1>6

LEMMA AddEdgeKeeps ==
  ASSUME NEW w, RadixInv(w), AddEdge
  PROVE  \E v : RadixInv(v)'
<1> DEFINE s == Len(nodes)
           c == EdgeCapThen
<1>0. PICK v : v = [k \in 1 .. s + 1 |-> IF k = s + 1 THEN Append(w[node], Byte) ELSE w[k]]
  OBVIOUS
<1>1. /\ AtByte /\ Child(Edges, Byte) = {} /\ node' = s + 1
      /\ nodeCap' = (IF NodesFull THEN Grown(nodeCap, NodeCap) ELSE nodeCap)
      /\ st' = "FCE_OK" /\ j' = j + 1
      /\ keys' = keys /\ i' = i /\ index' = index /\ pc' = pc
      /\ prefix' = prefix /\ stack' = stack /\ matches' = matches /\ grown' = grown
  BY DEF AddEdge, scanVars
<1>2. KeysOK /\ Cursor /\ Room /\ IsTree(nodes, w) /\ ValuesIn(nodes, Len(keys)) /\ Scanning(w)
      /\ (pc = "build" => \A n \in 1 .. Len(nodes) : nodes[n].value < i) /\ (grown => Stored(w))
  BY DEF RadixInv
<1>3. pc = "build" /\ i <= Len(keys) /\ node \in 1 .. s /\ Edges = nodes[node].edges
  BY <1>1, <1>2 DEF AtByte, Cursor, Edges
<1>4. /\ Byte \in Label
      /\ Cut(keys[i], j) = Append(Cut(keys[i], j - 1), Byte)
      /\ j + 1 \in 1 .. MaxLen + 1 /\ j + 1 <= Len(keys[i]) + 1
  BY <1>1, <1>2, NextByte
<1>5. /\ s \in Nat /\ s >= 1 /\ nodes \in Seq(AnyNode)
      /\ \A n \in 1 .. s : Len(nodes[n].edges) \in Nat /\ nodes[n].cap \in Nat /\ w[n] \in Seq(Label)
  <2>1. s \in Nat /\ s >= 1 /\ \A n \in 1 .. s : Len(nodes[n].edges) \in Nat /\ nodes[n] \in AnyNode /\ w[n] \in Seq(Label)
    BY <1>2, TreeTypes
  <2>2. nodes \in Seq(AnyNode)
    BY <1>2 DEF IsTree
  <2> QED
    BY <2>1, <2>2 DEF AnyNode
<1>6. c \in Nat /\ Len(Edges) + 1 <= c
  <2>1. Len(Edges) \in Nat /\ nodes[node].cap \in Nat /\ Len(Edges) <= nodes[node].cap
    BY <1>2, <1>3, <1>5 DEF Room, EdgeCount
  <2> QED
    BY <2>1, RadixConstants DEF EdgeCapThen, EdgesFull, Grown
<1>7. nodeCap' \in Nat /\ s + 1 <= nodeCap'
  <2>1. nodeCap \in Nat /\ s <= nodeCap
    BY <1>2 DEF Room
  <2> QED
    BY <1>1, <1>5, <2>1, RadixConstants DEF NodesFull, Grown
<1> HIDE DEF c
<1>8. Grows(nodes, nodes', node, Byte, c)
  <2>1. nodes' = Append([nodes EXCEPT
                       ![node].edges = InsertAt(nodes[node].edges, FirstNotBelow(nodes[node].edges, Byte),
                                             [label |-> Byte, child |-> Len(nodes) + 1]),
                       ![node].cap = c], NewNode)
    BY <1>3 DEF AddEdge, c
  <2> QED
    BY <1>3, <1>4, <1>5, <1>6, <2>1, AddNodeGrows
<1>9. IsTree(nodes', v)
  <2>1. \A e \in 1 .. Len(nodes[node].edges) : nodes[node].edges[e].label # Byte
    <3>1. nodes[node].edges \in Seq(AnyEdge)
      BY <1>2, <1>3, TreeTypes
    <3>2. Child(nodes[node].edges, Byte) = {}
      BY <1>1, <1>3
    <3> QED
      BY Zenon, <3>1, <3>2, ChildFacts
  <2> QED
    BY <1>0, <1>2, <1>3, <1>4, <1>8, <2>1, TreeGrows
<1>10. /\ Len(nodes') = s + 1
       /\ \A m \in 1 .. s + 1 :
            IF m \in 1 .. s
              THEN /\ nodes'[m].value = nodes[m].value
                   /\ nodes'[m].cap = IF m = node THEN c ELSE nodes[m].cap
                   /\ Len(nodes'[m].edges) = IF m = node THEN Len(nodes[m].edges) + 1 ELSE Len(nodes[m].edges)
              ELSE nodes'[m].value = 0 /\ nodes'[m].cap = 0 /\ Len(nodes'[m].edges) = 0
  <2>1. /\ Len(nodes') = Len(nodes) + 1
        /\ \A m \in 1 .. Len(nodes') :
            IF m \in 1 .. Len(nodes)
              THEN /\ nodes'[m].value = nodes[m].value
                   /\ nodes'[m].cap = IF m = node THEN c ELSE nodes[m].cap
                   /\ Len(nodes'[m].edges) = IF m = node THEN Len(nodes[m].edges) + 1 ELSE Len(nodes[m].edges)
              ELSE nodes'[m].value = 0 /\ nodes'[m].cap = 0 /\ Len(nodes'[m].edges) = 0
    BY <1>2, <1>3, <1>4, <1>8, GrowthCounts
  <2> QED
    BY <2>1
<1>11. v[s + 1] = Append(w[node], Byte) /\ \A m \in 1 .. s : v[m] = w[m]
  BY <1>0, <1>5
<1> HIDE DEF s
<1>12. Room'
  <2>1. ASSUME NEW m \in 1 .. s + 1 PROVE Len(nodes'[m].edges) <= nodes'[m].cap
    <3>1. m \in 1 .. s => Len(nodes[m].edges) <= nodes[m].cap
      BY <1>2 DEF Room, EdgeCount, s
    <3>2. m = node => Len(nodes[m].edges) + 1 <= c
      BY <1>3, <1>6
    <3> QED
      BY <1>5, <1>6, <1>10, <3>1, <3>2
  <2> QED
    BY <1>7, <1>10, <2>1 DEF Room, EdgeCount
<1>13. ValuesIn(nodes, Len(keys))' /\ (pc' = "build" => \A n \in 1 .. Len(nodes') : nodes'[n].value < i')
  <2>1. /\ \A n \in 1 .. s : nodes[n].value \in 0 .. Len(keys) /\ nodes[n].value < i
        /\ \A m, n \in 1 .. s : nodes[m].value = nodes[n].value /\ nodes[m].value # None => m = n
    BY <1>2, <1>3 DEF ValuesIn, s
  <2>2. i >= 1 /\ i \in Int /\ 0 \in 0 .. Len(keys)
    BY <1>2, RecordTypes DEF Cursor
  <2>3. ASSUME NEW n \in 1 .. s + 1 PROVE nodes'[n].value \in 0 .. Len(keys) /\ nodes'[n].value < i
    <3>1. CASE n \in 1 .. s
      <4>1. nodes'[n].value = nodes[n].value
        BY <1>10, <3>1
      <4> QED
        BY <2>1, <3>1, <4>1
    <3>2. CASE n \notin 1 .. s
      <4>1. nodes'[n].value = 0
        BY <1>10, <3>2
      <4> QED
        BY <2>2, <4>1
    <3> QED
      BY <3>1, <3>2
  <2>4. \A m, n \in 1 .. s + 1 : nodes'[m].value = nodes'[n].value /\ nodes'[m].value # None => m = n
    BY <1>10, <2>1 DEF None
  <2> QED
    BY <1>1, <1>10, <2>3, <2>4 DEF ValuesIn
<1>14. KeysOK'
  BY <1>1, <1>2 DEF KeysOK
<1>15. Cursor'
  <2>1. s + 1 \in 1 .. s + 1
    BY <1>5
  <2> QED
    BY <1>1, <1>2, <1>4, <1>10, <2>1 DEF Cursor, InKey
<1>16. ASSUME grown PROVE Stored(v)'
  <2>1. Stored(w)
    BY <1>2, <1>16
  <2>2. v[node'] = Cut(keys'[i'], j' - 1)
    <3>1. w[node] = Cut(keys[i], j - 1)
      BY <1>3, <2>1 DEF Stored, InKey
    <3>2. v[node'] = Cut(keys[i], j)
      BY <1>1, <1>4, <1>11, <3>1
    <3>3. j' - 1 = j
      <4>1. j \in Int
        BY <1>2, RadixConstants DEF Cursor
      <4> QED
        BY <1>1, <4>1
    <3> QED
      BY <1>1, <3>2, <3>3
  <2>3. /\ pc \notin {"failed", "refused"}
        /\ \A n \in 1 .. s : nodes[n].value # None => w[n] = keys[nodes[n].value]
        /\ \A r \in 1 .. Len(keys) : (pc = "build" => r < i) => \E n \in 1 .. s : nodes[n].value = r
    BY <2>1 DEF Stored, s
  <2>4. \A n \in 1 .. s + 1 : nodes'[n].value # None => v[n] = keys[nodes'[n].value]
    BY <1>10, <1>11, <2>3 DEF None
  <2>5. \A r \in 1 .. Len(keys) : (pc = "build" => r < i) => \E n \in 1 .. s + 1 : nodes'[n].value = r
    <3>1. \A n \in 1 .. s : n \in 1 .. s + 1 /\ nodes'[n].value = nodes[n].value
      BY <1>5, <1>10
    <3> QED
      BY <2>3, <3>1
  <2> QED
    BY <1>1, <1>10, <2>2, <2>3, <2>4, <2>5 DEF Stored
<1>17. Scanning(v)'
  BY <1>1, <1>2, <1>3 DEF Scanning
<1>18. RadixInv(v)'
  BY <1>1, <1>9, <1>12, <1>13, <1>14, <1>15, <1>16, <1>17 DEF RadixInv
<1> QED
  BY <1>18

LEMMA CapSet ==
  ASSUME NEW N \in Seq(AnyNode), NEW n \in 1 .. Len(N), NEW c \in Nat
  PROVE  LET M == [N EXCEPT ![n].cap = c]
         IN /\ M \in Seq(AnyNode) /\ Len(M) = Len(N)
            /\ \A m \in 1 .. Len(N) : /\ M[m].edges = N[m].edges /\ M[m].value = N[m].value
                                      /\ M[m].cap = IF m = n THEN c ELSE N[m].cap
<1> DEFINE y == [N[n] EXCEPT !.cap = c]
           M == [N EXCEPT ![n] = y]
<1>1. N[n] \in AnyNode
  BY ElementOfSeq
<1>2. y \in AnyNode /\ y.edges = N[n].edges /\ y.value = N[n].value /\ y.cap = c
  BY <1>1 DEF AnyNode
<1>3. [N EXCEPT ![n].cap = c] = M
  OBVIOUS
<1> HIDE DEF y
<1>4. M \in Seq(AnyNode) /\ Len(M) = Len(N) /\ \A m \in 1 .. Len(N) : M[m] = IF m = n THEN y ELSE N[m]
  BY <1>2, ExceptSeq
<1> HIDE DEF M
<1>5. \A m \in 1 .. Len(N) : /\ M[m].edges = N[m].edges /\ M[m].value = N[m].value
                             /\ M[m].cap = IF m = n THEN c ELSE N[m].cap
  BY <1>2, <1>4
<1> QED
  BY <1>3, <1>4, <1>5

LEMMA ValueSet ==
  ASSUME NEW N \in Seq(AnyNode), NEW n \in 1 .. Len(N), NEW c \in Nat
  PROVE  LET M == [N EXCEPT ![n].value = c]
         IN /\ M \in Seq(AnyNode) /\ Len(M) = Len(N)
            /\ \A m \in 1 .. Len(N) : /\ M[m].edges = N[m].edges /\ M[m].cap = N[m].cap
                                      /\ M[m].value = IF m = n THEN c ELSE N[m].value
<1> DEFINE y == [N[n] EXCEPT !.value = c]
           M == [N EXCEPT ![n] = y]
<1>1. N[n] \in AnyNode
  BY ElementOfSeq
<1>2. y \in AnyNode /\ y.edges = N[n].edges /\ y.cap = N[n].cap /\ y.value = c
  BY <1>1 DEF AnyNode
<1>3. [N EXCEPT ![n].value = c] = M
  OBVIOUS
<1> HIDE DEF y
<1>4. M \in Seq(AnyNode) /\ Len(M) = Len(N) /\ \A m \in 1 .. Len(N) : M[m] = IF m = n THEN y ELSE N[m]
  BY <1>2, ExceptSeq
<1> HIDE DEF M
<1>5. \A m \in 1 .. Len(N) : /\ M[m].edges = N[m].edges /\ M[m].cap = N[m].cap
                             /\ M[m].value = IF m = n THEN c ELSE N[m].value
  BY <1>2, <1>4
<1> QED
  BY <1>3, <1>4, <1>5

LEMMA GrowthFailsKeeps ==
  ASSUME NEW w, RadixInv(w), GrowthFails
  PROVE  RadixInv(w)'
<1> DEFINE s == Len(nodes)
           c == EdgeCapThen
<1>1. /\ AtByte
      /\ nodes' = nodes \/ nodes' = [nodes EXCEPT ![node].cap = c]
      /\ st' = "FCE_ERR_OUT_OF_MEMORY" /\ j' = j + 1 /\ grown' = FALSE
      /\ keys' = keys /\ nodeCap' = nodeCap /\ i' = i /\ node' = node /\ index' = index /\ pc' = pc
      /\ prefix' = prefix /\ stack' = stack /\ matches' = matches
  BY DEF GrowthFails, scanVars
<1>2. KeysOK /\ Cursor /\ Room /\ IsTree(nodes, w) /\ ValuesIn(nodes, Len(keys)) /\ Scanning(w)
      /\ (pc = "build" => \A n \in 1 .. Len(nodes) : nodes[n].value < i)
  BY DEF RadixInv
<1>3. pc = "build" /\ i <= Len(keys) /\ node \in 1 .. s /\ Edges = nodes[node].edges
  BY <1>1, <1>2 DEF AtByte, Cursor, Edges
<1>4. j + 1 \in 1 .. MaxLen + 1 /\ j + 1 <= Len(keys[i]) + 1
  BY <1>1, <1>2, NextByte
<1>5. /\ s \in Nat /\ nodes \in Seq(AnyNode)
      /\ \A n \in 1 .. s : /\ Len(nodes[n].edges) \in Nat /\ nodes[n].cap \in Nat
                           /\ Len(nodes[n].edges) <= nodes[n].cap
  <2>1. s \in Nat /\ \A n \in 1 .. s : Len(nodes[n].edges) \in Nat /\ nodes[n] \in AnyNode
    BY <1>2, TreeTypes
  <2>2. nodes \in Seq(AnyNode)
    BY <1>2 DEF IsTree
  <2> QED
    BY <1>2, <2>1, <2>2 DEF AnyNode, Room, EdgeCount
<1>6. c \in Nat /\ Len(nodes[node].edges) <= c
  <2>1. Len(Edges) \in Nat /\ nodes[node].cap \in Nat /\ Len(Edges) <= nodes[node].cap
    BY <1>3, <1>5
  <2> QED
    BY <1>3, <2>1, RadixConstants DEF EdgeCapThen, EdgesFull, Grown
<1> HIDE DEF c
<1>7. /\ nodes' \in Seq(AnyNode) /\ Len(nodes') = s
      /\ \A n \in 1 .. s : /\ nodes'[n].edges = nodes[n].edges /\ nodes'[n].value = nodes[n].value
                           /\ Len(nodes[n].edges) <= nodes'[n].cap
  <2>1. CASE nodes' = nodes
    BY <1>5, <2>1
  <2>2. CASE nodes' = [nodes EXCEPT ![node].cap = c]
    <3>1. /\ nodes' \in Seq(AnyNode) /\ Len(nodes') = Len(nodes)
          /\ \A m \in 1 .. Len(nodes) : /\ nodes'[m].edges = nodes[m].edges /\ nodes'[m].value = nodes[m].value
                                        /\ nodes'[m].cap = IF m = node THEN c ELSE nodes[m].cap
      BY <1>3, <1>5, <1>6, <2>2, CapSet
    <3> QED
      BY <1>5, <1>6, <3>1
  <2> QED
    BY <1>1, <2>1, <2>2
<1>8. IsTree(nodes', w)
  BY <1>2, <1>7, TreeKept
<1>9. Room'
  BY <1>1, <1>2, <1>7 DEF Room, EdgeCount
<1>10. ValuesIn(nodes, Len(keys))' /\ (pc' = "build" => \A n \in 1 .. Len(nodes') : nodes'[n].value < i')
  BY <1>1, <1>2, <1>7 DEF ValuesIn
<1>11. KeysOK'
  BY <1>1, <1>2 DEF KeysOK
<1>12. Cursor'
  BY <1>1, <1>2, <1>4, <1>7 DEF Cursor, InKey
<1>13. Scanning(w)'
  BY <1>1, <1>2, <1>3 DEF Scanning
<1> QED
  BY <1>1, <1>8, <1>9, <1>10, <1>11, <1>12, <1>13 DEF RadixInv

LEMMA EndOfKeyKeeps ==
  ASSUME NEW w, RadixInv(w), EndOfKey
  PROVE  RadixInv(w)'
<1> DEFINE s == Len(nodes)
<1>1. /\ pc = "build" /\ i <= Len(keys) /\ j > Len(keys[i])
      /\ nodes' = (IF st = "FCE_OK" THEN [nodes EXCEPT ![node].value = i] ELSE nodes)
      /\ pc' = (IF st = "FCE_OK" THEN pc ELSE "failed")
      /\ i' = i + 1 /\ j' = 1 /\ node' = 1
      /\ st' = st /\ grown' = grown /\ keys' = keys /\ nodeCap' = nodeCap /\ index' = index
      /\ prefix' = prefix /\ stack' = stack /\ matches' = matches
  BY DEF EndOfKey, scanVars, Root
<1>2. KeysOK /\ Cursor /\ Room /\ IsTree(nodes, w) /\ ValuesIn(nodes, Len(keys)) /\ Scanning(w)
      /\ (\A n \in 1 .. Len(nodes) : nodes[n].value < i) /\ (grown => Stored(w))
  BY <1>1 DEF RadixInv
<1>3. node \in 1 .. s /\ i \in 1 .. Len(keys) /\ i + 1 \in 1 .. Len(keys) + 1 /\ i \in Nat /\ Len(keys) \in Nat
  BY <1>1, <1>2, RecordTypes DEF Cursor
<1>4. s \in Nat /\ s >= 1 /\ nodes \in Seq(AnyNode) /\ \A n \in 1 .. s : nodes[n].value \in Nat
  <2>1. \A n \in 1 .. s : nodes[n] \in AnyNode
    BY <1>2, TreeTypes
  <2> QED
    BY <1>2, <2>1, TreeTypes DEF IsTree, AnyNode
<1>5. /\ nodes' \in Seq(AnyNode) /\ Len(nodes') = s
      /\ \A n \in 1 .. s : /\ nodes'[n].edges = nodes[n].edges /\ nodes'[n].cap = nodes[n].cap
                           /\ nodes'[n].value = IF st = "FCE_OK" /\ n = node THEN i ELSE nodes[n].value
  <2>1. CASE st # "FCE_OK"
    BY <1>1, <1>4, <2>1
  <2>2. CASE st = "FCE_OK"
    <3>1. nodes' = [nodes EXCEPT ![node].value = i]
      BY <1>1, <2>2
    <3>2. /\ nodes' \in Seq(AnyNode) /\ Len(nodes') = Len(nodes)
          /\ \A m \in 1 .. Len(nodes) : /\ nodes'[m].edges = nodes[m].edges /\ nodes'[m].cap = nodes[m].cap
                                        /\ nodes'[m].value = IF m = node THEN i ELSE nodes[m].value
      BY <1>3, <1>4, <3>1, ValueSet
    <3> QED
      BY <2>2, <3>2
  <2> QED
    BY <2>1, <2>2
<1>6. IsTree(nodes', w)
  BY <1>2, <1>5, TreeKept
<1>7. Room'
  BY <1>1, <1>2, <1>5 DEF Room, EdgeCount
<1> HIDE DEF s
<1>8. ValuesIn(nodes, Len(keys))' /\ (pc' = "build" => \A n \in 1 .. Len(nodes') : nodes'[n].value < i')
  <2>1. /\ \A n \in 1 .. s : nodes[n].value \in 0 .. Len(keys) /\ nodes[n].value < i
        /\ \A m, n \in 1 .. s : nodes[m].value = nodes[n].value /\ nodes[m].value # None => m = n
    BY <1>2 DEF ValuesIn, s
  <2>2. \A n \in 1 .. s : nodes'[n].value \in 0 .. Len(keys) /\ nodes'[n].value < i + 1
    BY <1>3, <1>4, <1>5, <2>1
  <2>3. \A n \in 1 .. s : nodes[n].value # i
    BY <1>3, <1>4, <2>1
  <2>4. \A m, n \in 1 .. s : nodes'[m].value = nodes'[n].value /\ nodes'[m].value # None => m = n
    BY <1>5, <2>1, <2>3
  <2> QED
    BY <1>1, <1>5, <2>2, <2>4 DEF ValuesIn
<1>9. KeysOK'
  BY <1>1, <1>2 DEF KeysOK
<1>10. Cursor'
  <2>1. i + 1 <= Len(keys) => Len(keys[i + 1]) \in Nat
    BY <1>2, <1>3, RecordTypes
  <2>2. 1 \in 1 .. MaxLen + 1 /\ 1 \in 1 .. s
    BY <1>4, RadixConstants
  <2> QED
    BY <1>1, <1>2, <1>3, <1>5, <2>1, <2>2 DEF Cursor, InKey
<1>11. ASSUME grown PROVE Stored(w)'
  <2>1. Stored(w) /\ st = "FCE_OK"
    BY <1>2, <1>11 DEF Stored
  <2>2. /\ \A n \in 1 .. s : nodes[n].value # None => w[n] = keys[nodes[n].value]
        /\ \A r \in 1 .. Len(keys) : r < i => \E n \in 1 .. s : nodes[n].value = r
    BY <1>1, <2>1 DEF Stored, s
  <2>3. w[node] = keys[i]
    <3>1. w[node] = Cut(keys[i], j - 1)
      BY <1>1, <2>1 DEF Stored, InKey
    <3>2. keys[i] \in Seq(Label) /\ Len(keys[i]) \in Nat
      BY <1>2, <1>3, RecordTypes
    <3>3. j \in Nat /\ j <= Len(keys[i]) + 1
      BY <1>1, <1>2, RadixConstants DEF Cursor, InKey
    <3>4. j - 1 = Len(keys[i])
      BY <1>1, <3>2, <3>3
    <3> QED
      BY <3>1, <3>2, <3>4, CutEnds
  <2>4. \A n \in 1 .. s : nodes'[n].value # None => w[n] = keys[nodes'[n].value]
    BY <1>5, <2>2, <2>3
  <2>5. nodes[node].value = None
    <3> SUFFICES ASSUME nodes[node].value # None PROVE FALSE
      OBVIOUS
    <3>1. keys[nodes[node].value] = keys[i]
      BY <1>3, <2>2, <2>3 DEF s
    <3>2. nodes[node].value \in 1 .. Len(keys) /\ nodes[node].value # i
      <4>1. nodes[node].value \in 0 .. Len(keys) /\ nodes[node].value < i
        BY <1>2, <1>3 DEF ValuesIn, s
      <4> QED
        BY <1>3, <4>1 DEF None
    <3> QED
      BY <1>2, <1>3, <3>1, <3>2 DEF KeysOK
  <2>6. ASSUME NEW r \in 1 .. Len(keys), r < i + 1 PROVE \E n \in 1 .. s : nodes'[n].value = r
    <3>1. CASE r = i
      BY <1>3, <1>5, <2>1, <3>1 DEF s
    <3>2. CASE r < i
      <4>1. PICK n \in 1 .. s : nodes[n].value = r
        BY <2>2, <3>2
      <4>2. n # node
        BY <2>5, <4>1 DEF None
      <4> QED
        BY <1>5, <4>1, <4>2
    <3> QED
      BY <1>3, <2>6, <3>1, <3>2
  <2>7. InKey' => w[node'] = Cut(keys'[i'], j' - 1)
    <3>1. i + 1 <= Len(keys) => Cut(keys[i + 1], 0) = <<>>
      BY <1>2, <1>3, RecordTypes, CutEnds
    <3>2. w[1] = <<>>
      BY <1>2 DEF IsTree, Root
    <3>3. 1 - 1 = 0
      OBVIOUS
    <3> QED
      BY <1>1, <3>1, <3>2, <3>3 DEF InKey
  <2>8. st' = "FCE_OK" /\ pc' = "build"
    BY <1>1, <2>1
  <2> QED
    BY <1>1, <1>5, <2>4, <2>6, <2>7, <2>8 DEF Stored
<1>12. Scanning(w)'
  BY <1>1, <1>2 DEF Scanning
<1> QED
  BY <1>1, <1>6, <1>7, <1>8, <1>9, <1>10, <1>11, <1>12 DEF RadixInv

LEMMA FreezeKeeps ==
  ASSUME NEW w, RadixInv(w), Freeze
  PROVE  RadixInv(w)'
<1>1. /\ pc = "build" /\ i > Len(keys) /\ pc' = "frozen"
      /\ keys' = keys /\ nodes' = nodes /\ nodeCap' = nodeCap /\ i' = i /\ j' = j /\ node' = node
      /\ st' = st /\ grown' = grown /\ prefix' = prefix /\ stack' = stack /\ matches' = matches
  BY DEF Freeze, buildVars, scanVars
<1>2. KeysOK /\ Cursor /\ Room /\ IsTree(nodes, w) /\ ValuesIn(nodes, Len(keys)) /\ Scanning(w)
      /\ (grown => Stored(w))
  BY DEF RadixInv
<1>3. Frozen'
  <2>1. nodes \in Seq(AnyNode)
    BY <1>2 DEF IsTree
  <2> QED
    BY <2>1, FreezeLays
<1>4. KeysOK' /\ Room' /\ ValuesIn(nodes, Len(keys))' /\ IsTree(nodes, w)'
  BY <1>1, <1>2 DEF KeysOK, Room, EdgeCount
<1>5. Cursor'
  BY <1>1, <1>2 DEF Cursor, InKey
<1>6. ASSUME grown PROVE Stored(w)'
  <2>1. \A r \in 1 .. Len(keys) : r < i
    BY <1>1, <1>2, RecordTypes DEF Cursor
  <2>2. /\ st = "FCE_OK"
        /\ \A n \in 1 .. Len(nodes) : nodes[n].value # None => w[n] = keys[nodes[n].value]
        /\ \A r \in 1 .. Len(keys) : \E n \in 1 .. Len(nodes) : nodes[n].value = r
    BY <1>2, <1>6, <2>1 DEF Stored
  <2> QED
    BY <1>1, <2>2 DEF Stored, InKey
<1>7. Scanning(w)'
  BY <1>1, <1>2, <1>3 DEF Scanning
<1> QED
  BY <1>1, <1>4, <1>5, <1>6, <1>7 DEF RadixInv

LEMMA FrozenValid ==
  ASSUME NEW w, RadixInv(w), pc = "frozen", grown
  PROVE  Valid
<1> DEFINE s == Len(nodes)
           R == Len(keys)
<1>1. KeysOK /\ Frozen /\ IsTree(nodes, w) /\ ValuesIn(nodes, R) /\ Stored(w)
  BY DEF RadixInv, Scanning
<1>2. s \in Nat /\ R \in Nat
  BY <1>1, TreeTypes, RecordTypes
<1>3. /\ DOMAIN index.nodes = 1 .. s /\ Len(index.nodes) = s
      /\ \A n \in 1 .. s :
           /\ EdgesOf(n) = nodes[n].edges
           /\ index.nodes[n].value = nodes[n].value
           /\ index.nodes[n].first - 1 + index.nodes[n].count <= Len(index.edges)
  BY <1>1 DEF Frozen
<1>4. ASSUME NEW n \in 1 .. s, NEW e \in DOMAIN EdgesOf(n)
      PROVE  /\ EdgesOf(n)[e].child <= Len(index.nodes)
             /\ e > 1 => EdgesOf(n)[e].label > EdgesOf(n)[e - 1].label
  <2> DEFINE E == nodes[n].edges
  <2>1. EdgesOf(n) = E /\ e \in 1 .. Len(E) /\ Len(E) \in Nat /\ \A d \in 1 .. Len(E) : E[d].label \in Int
    BY <1>1, <1>3, TreeTypes
  <2>2. Fits(E, w, n, e, s)
    BY <1>1, <2>1 DEF IsTree
  <2> HIDE DEF E, s
  <2>3. E[e].child <= s
    BY <1>2, <2>2 DEF Fits, s
  <2>4. ASSUME e > 1 PROVE E[e].label > E[e - 1].label
    <3>1. e - 1 \in 1 .. e - 1 /\ e - 1 \in 1 .. Len(E)
      BY <2>1, <2>4
    <3>2. E[e - 1].label < E[e].label
      BY <2>2, <3>1 DEF Fits
    <3> QED
      BY <2>1, <3>1, <3>2
  <2> QED
    BY <1>3, <2>1, <2>3, <2>4
<1>5. \A n \in 1 .. s : nodes[n].value \in 0 .. R
  BY <1>1 DEF ValuesIn
<1>6. Cardinality({n \in DOMAIN index.nodes : index.nodes[n].value # None}) = R
  <2> DEFINE S == {n \in 1 .. s : nodes[n].value # None}
             T == 1 .. R
             f == [n \in S |-> nodes[n].value]
  <2>1. {n \in DOMAIN index.nodes : index.nodes[n].value # None} = S
    BY <1>3
  <2>2. f \in [S -> T]
    BY <1>2, <1>5 DEF None
  <2>3. \A x, y \in S : f[x] = f[y] => x = y
    BY <1>1 DEF ValuesIn
  <2>4. \A z \in T : \E x \in S : f[x] = z
    <3> SUFFICES ASSUME NEW z \in T PROVE \E x \in S : f[x] = z
      OBVIOUS
    <3>1. PICK n \in 1 .. s : nodes[n].value = z
      BY <1>1 DEF Stored
    <3>2. n \in S
      BY <3>1 DEF None
    <3> QED
      BY <3>1, <3>2
  <2>5. IsFiniteSet(S)
    <3>1. IsFiniteSet(1 .. s) /\ S \subseteq 1 .. s
      BY <1>2, FS_Interval
    <3> HIDE DEF S
    <3> QED
      BY <3>1, FS_Subset
  <2>6. Cardinality(T) = R
    <3>1. \A n \in Nat : Cardinality(1 .. n) = n
      BY FS_Interval
    <3> QED
      BY <1>2, <3>1
  <2> HIDE DEF S, T, f
  <2>7. Cardinality(T) = Cardinality(S)
    BY <2>2, <2>3, <2>4, <2>5, OneToOneCounts
  <2> QED
    BY <2>1, <2>6, <2>7
<1>7. \A n \in DOMAIN index.nodes :
        /\ index.nodes[n].first - 1 + index.nodes[n].count <= Len(index.edges)
        /\ index.nodes[n].value <= Len(keys)
  BY <1>2, <1>3, <1>5
<1> QED
  BY <1>3, <1>4, <1>6, <1>7 DEF Valid

LEMMA OpenKeeps ==
  ASSUME NEW w, RadixInv(w), Open
  PROVE  RadixInv(w)'
<1>1. /\ pc = "frozen" /\ pc' \in {"open", "refused"} /\ (Valid => pc' = "open")
      /\ keys' = keys /\ nodes' = nodes /\ nodeCap' = nodeCap /\ i' = i /\ j' = j /\ node' = node
      /\ st' = st /\ grown' = grown /\ prefix' = prefix /\ stack' = stack /\ matches' = matches
      /\ index' = index
  BY DEF Open, buildVars, scanVars
<1>2. KeysOK /\ Cursor /\ Room /\ IsTree(nodes, w) /\ ValuesIn(nodes, Len(keys)) /\ Scanning(w)
      /\ (grown => Stored(w))
  BY DEF RadixInv
<1>3. KeysOK' /\ Room' /\ ValuesIn(nodes, Len(keys))' /\ IsTree(nodes, w)'
  BY <1>1, <1>2 DEF KeysOK, Room, EdgeCount
<1>4. Cursor'
  BY <1>1, <1>2 DEF Cursor, InKey
<1>5. ASSUME grown PROVE Stored(w)'
  <2>1. pc' = "open"
    BY <1>1, <1>5, FrozenValid
  <2>2. Stored(w)
    BY <1>2, <1>5
  <2> QED
    BY <1>1, <2>1, <2>2 DEF Stored, InKey
<1>6. Scanning(w)'
  BY <1>1, <1>2 DEF Scanning, Frozen, EdgesOf
<1> QED
  BY <1>1, <1>3, <1>4, <1>5, <1>6 DEF RadixInv

\* What a scan never changes.
LEMMA ReadKeeps ==
  ASSUME NEW w, RadixInv(w), pc # "build", pc' \in {"scan", "scanned"},
         pc \in {"open", "scan"},
         keys' = keys, index' = index, UNCHANGED buildVars, grown' = grown
  PROVE  /\ KeysOK' /\ Room' /\ ValuesIn(nodes, Len(keys))' /\ IsTree(nodes, w)' /\ Cursor' /\ Frozen'
         /\ grown => Stored(w)'
<1>1. /\ nodes' = nodes /\ nodeCap' = nodeCap /\ i' = i /\ j' = j /\ node' = node /\ st' = st
  BY DEF buildVars
<1>2. KeysOK /\ Cursor /\ Room /\ IsTree(nodes, w) /\ ValuesIn(nodes, Len(keys)) /\ Frozen
      /\ (grown => Stored(w))
  BY DEF RadixInv, Scanning
<1>3. KeysOK' /\ Room' /\ ValuesIn(nodes, Len(keys))' /\ IsTree(nodes, w)'
  BY <1>1, <1>2 DEF KeysOK, Room, EdgeCount
<1>4. Cursor'
  BY <1>1, <1>2 DEF Cursor, InKey
<1>5. Frozen'
  BY <1>1, <1>2 DEF Frozen, EdgesOf
<1>6. ASSUME grown PROVE Stored(w)'
  BY <1>1, <1>2, <1>6 DEF Stored, InKey
<1> QED
  BY <1>3, <1>4, <1>5, <1>6

LEMMA ScanStartKeeps ==
  ASSUME NEW w, RadixInv(w), ScanStart
  PROVE  RadixInv(w)'
<1>1. /\ pc = "open" /\ prefix' \in Keyspace /\ pc' = "scan"
      /\ stack' = (IF Walk(prefix') = None THEN <<>> ELSE <<Walk(prefix')>>)
      /\ keys' = keys /\ index' = index /\ UNCHANGED buildVars /\ matches' = matches /\ grown' = grown
      /\ nodes' = nodes
  BY DEF ScanStart, buildVars
<1>2. Frozen /\ IsTree(nodes, w) /\ matches = <<>>
  BY <1>1 DEF RadixInv, Scanning
<1>3. /\ KeysOK' /\ Room' /\ ValuesIn(nodes, Len(keys))' /\ IsTree(nodes, w)' /\ Cursor' /\ Frozen'
      /\ grown => Stored(w)'
  BY <1>1, ReadKeeps
<1>4. PICK P \in Seq(Label) : P = prefix'
  BY <1>1, KeyTypes
<1> DEFINE s == Len(nodes)
           S == stack'
           c == NodeOf(nodes, w, P)
<1>5. Walk(P) = c
  BY <1>2, WalkEnds DEF Frozen
<1>6. S = IF c = None THEN <<>> ELSE <<c>>
  BY <1>1, <1>4, <1>5
<1>7. c = None \/ (c \in 1 .. s /\ w[c] = P)
  BY <1>2, NodeOfFacts
<1>8. c = None => ~ \E n \in 1 .. s : w[n] = P
  BY <1>2, NodeOfFacts
<1> HIDE DEF c
<1>9. Under(P, P)
  BY UnderLaws
<1>10. Pending(nodes, w, P, S) /\ \A n \in 1 .. s : ~Visited(w, P, S, n)
  <2>1. CASE c = None
    <3>1. S = <<>> /\ S \in Seq(1 .. s) /\ Len(S) = 0
      BY <1>6, <2>1
    <3>2. ASSUME NEW n \in 1 .. s, Under(P, w[n]) PROVE FALSE
      <4>1. w[n] \in Seq(Label) /\ Len(P) \in 0 .. Len(w[n])
        <5>1. w[n] \in Seq(Label)
          BY <1>2, TreeTypes
        <5> QED
          BY <3>2, <5>1, LenProperties DEF Under
      <4>2. Cut(w[n], Len(P)) = P
        BY <3>2, <4>1, CutFacts
      <4>3. \E m \in 1 .. s : w[m] = Cut(w[n], Len(P))
        BY <1>2, <4>1, Beginnings
      <4> QED
        BY <1>8, <2>1, <4>2, <4>3
    <3> QED
      BY <3>1, <3>2 DEF Pending, Visited
  <2>2. CASE c # None
    <3>1. S = <<c>> /\ S \in Seq(1 .. s) /\ Len(S) = 1 /\ S[1] = c /\ w[c] = P
      BY <1>6, <1>7, <2>2
    <3> HIDE DEF S
    <3>2. \A a \in 1 .. Len(S) : a = 1
      BY <3>1
    <3>3. Pending(nodes, w, P, S)
      BY <1>9, <3>1, <3>2 DEF Pending
    <3>4. \A n \in 1 .. s : ~Visited(w, P, S, n)
      BY <3>1 DEF Visited
    <3> QED
      BY <3>3, <3>4 DEF S
  <2> QED
    BY <2>1, <2>2
<1>11. Collected(nodes, w, P, S, <<>>, Len(keys))
  <2>1. <<>> \in Seq(1 .. Len(keys)) /\ Len(<<>>) = 0
    OBVIOUS
  <2> HIDE DEF S
  <2> QED
    BY <1>10, <2>1 DEF Collected
<1>12. Scanning(w)'
  BY <1>1, <1>2, <1>3, <1>4, <1>10, <1>11 DEF Scanning
<1> QED
  BY <1>1, <1>3, <1>12 DEF RadixInv

LEMMA VisitKeeps ==
  ASSUME NEW w, RadixInv(w), Visit
  PROVE  RadixInv(w)'
<1> DEFINE c == stack[Len(stack)]
           L == Len(stack)
           s == Len(nodes)
           E == nodes[c].edges
           kids == [e \in DOMAIN EdgesOf(c) |-> EdgesOf(c)[e].child]
           front == SubSeq(stack, 1, L - 1)
           x == nodes[c].value
<1>1. /\ pc = "scan" /\ stack # <<>> /\ pc' = pc /\ prefix' = prefix
      /\ matches' = (IF index.nodes[c].value = None THEN matches ELSE Append(matches, index.nodes[c].value))
      /\ stack' = front \o kids
      /\ keys' = keys /\ index' = index /\ UNCHANGED buildVars /\ grown' = grown /\ nodes' = nodes
  BY DEF Visit, Last, Front, buildVars
<1>2. /\ Frozen /\ IsTree(nodes, w) /\ KeysOK /\ ValuesIn(nodes, Len(keys)) /\ prefix \in Keyspace
      /\ Pending(nodes, w, prefix, stack)
      /\ Collected(nodes, w, prefix, stack, matches, Len(keys))
  BY <1>1 DEF RadixInv, Scanning
<1>3. /\ KeysOK' /\ Room' /\ ValuesIn(nodes, Len(keys))' /\ IsTree(nodes, w)' /\ Cursor' /\ Frozen'
      /\ grown => Stored(w)'
  BY <1>1, ReadKeeps
<1>4. stack \in Seq(1 .. s) /\ L \in Nat /\ L >= 1 /\ (\A a \in 1 .. L : stack[a] \in 1 .. s) /\ c \in 1 .. s
  <2>1. stack \in Seq(1 .. s)
    BY <1>2 DEF Pending
  <2>2. L \in Nat /\ L >= 1 /\ \A a \in 1 .. L : stack[a] \in 1 .. s
    BY <1>1, <2>1, LenProperties, EmptySeq
  <2> QED
    BY <2>1, <2>2
<1>5. EdgesOf(c) = E /\ index.nodes[c].value = x
  BY <1>2, <1>4 DEF Frozen
<1>6. /\ Len(E) \in Nat /\ DOMAIN E = 1 .. Len(E) /\ \A e \in 1 .. Len(E) : E[e].child \in 1 .. s
  <2>1. Len(E) \in Nat /\ DOMAIN E = 1 .. Len(E)
    BY <1>2, <1>4, TreeTypes
  <2>2. \A e \in 1 .. Len(E) : E[e].child \in 1 .. s
    BY <1>2, <1>4, ChildWords
  <2> QED
    BY <2>1, <2>2
<1> HIDE DEF E, x, c, L, s
<1>7. kids \in Seq(1 .. s) /\ Len(kids) = Len(E) /\ \A e \in 1 .. Len(E) : kids[e] = E[e].child
  <2>1. kids \in [1 .. Len(E) -> 1 .. s] /\ \A e \in 1 .. Len(E) : kids[e] = E[e].child
    BY <1>5, <1>6
  <2> HIDE DEF kids
  <2>2. kids \in Seq(1 .. s)
    BY <1>6, <2>1, SeqDef
  <2>3. DOMAIN kids = 1 .. Len(kids) /\ Len(kids) \in Nat
    BY <2>2, LenProperties
  <2> QED
    BY <1>6, <2>1, <2>2, <2>3
<1>8. front \in Seq(1 .. s) /\ Len(front) = L - 1 /\ \A a \in 1 .. L - 1 : front[a] = stack[a]
  <2>1. \A a \in 1 .. L - 1 : stack[a] \in 1 .. s
    BY <1>4
  <2>2. /\ front \in Seq(1 .. s) /\ Len(front) = IF 1 <= L - 1 THEN L - 1 - 1 + 1 ELSE 0
        /\ \A a \in 1 .. L - 1 - 1 + 1 : front[a] = stack[1 + a - 1]
    BY <1>4, <2>1, SubSeqProperties
  <2> HIDE DEF front
  <2> QED
    BY <1>4, <2>2
<1> HIDE DEF kids, front
<1>9. /\ stack' \in Seq(1 .. s) /\ Len(stack') = L - 1 + Len(E)
      /\ \A a \in 1 .. L - 1 : stack'[a] = stack[a]
      /\ \A e \in 1 .. Len(E) : stack'[L - 1 + e] = E[e].child
  <2> DEFINE t == front \o kids
             Z == 1 .. s
  <2>1. front \in Seq(Z) /\ kids \in Seq(Z)
    BY <1>7, <1>8
  <2> HIDE DEF Z
  <2>2. /\ t \in Seq(Z) /\ Len(t) = Len(front) + Len(kids)
        /\ \A a \in 1 .. Len(front) : t[a] = front[a]
        /\ \A e \in 1 .. Len(kids) : t[Len(front) + e] = kids[e]
    BY <2>1, Joined
  <2> HIDE DEF t
  <2>3. stack' = t
    BY <1>1 DEF t
  <2> QED
    BY <1>7, <1>8, <2>2, <2>3 DEF Z
<1>10. PICK T : T = stack'
  OBVIOUS
<1>11. Popped(nodes, stack, T)
  BY <1>1, <1>9, <1>10 DEF Popped, E, c, L, s
<1>12. prefix \in Seq(Label)
  BY <1>2, KeyTypes
<1>13. /\ Pending(nodes, w, prefix, T) /\ ~Visited(w, prefix, stack, c)
       /\ \A n \in 1 .. s : Visited(w, prefix, T, n) <=> Visited(w, prefix, stack, n) \/ n = c
  BY <1>2, <1>11, <1>12, VisitStep DEF c, L, s
<1>14. Collected(nodes, w, prefix, T, IF x = None THEN matches ELSE Append(matches, x), Len(keys))
  <2>1. Len(keys) \in Nat
    BY <1>2, RecordTypes
  <2> QED
    BY <1>2, <1>4, <1>13, <2>1, CollectStep DEF x, s
<1>15. Collected(nodes, w, prefix, T, matches', Len(keys))
  BY <1>1, <1>5, <1>14
<1>16. Scanning(w)'
  BY <1>1, <1>2, <1>3, <1>10, <1>13, <1>15 DEF Scanning
<1> QED
  BY <1>1, <1>3, <1>16 DEF RadixInv

LEMMA ScanEndsKeeps ==
  ASSUME NEW w, RadixInv(w), ScanEnds
  PROVE  RadixInv(w)'
<1>1. /\ pc = "scan" /\ stack = <<>> /\ pc' = "scanned"
      /\ keys' = keys /\ index' = index /\ UNCHANGED buildVars /\ grown' = grown /\ nodes' = nodes
      /\ prefix' = prefix /\ stack' = stack /\ matches' = matches
  BY DEF ScanEnds, buildVars, scanVars
<1>2. /\ prefix \in Keyspace /\ Pending(nodes, w, prefix, stack)
      /\ Collected(nodes, w, prefix, stack, matches, Len(keys))
  BY <1>1 DEF RadixInv, Scanning
<1>3. /\ KeysOK' /\ Room' /\ ValuesIn(nodes, Len(keys))' /\ IsTree(nodes, w)' /\ Cursor' /\ Frozen'
      /\ grown => Stored(w)'
  BY <1>1, ReadKeeps
<1>4. Scanning(w)'
  BY <1>1, <1>2, <1>3 DEF Scanning
<1> QED
  BY <1>1, <1>3, <1>4 DEF RadixInv

RInv == \E w : RadixInv(w)

LEMMA RInvStep ==
  ASSUME RInv, [RadixNext]_radixVars
  PROVE  RInv'
<1>1. PICK w : RadixInv(w)
  BY DEF RInv
<1>2. CASE FollowEdge
  BY <1>1, <1>2, FollowEdgeKeeps DEF RInv
<1>3. CASE AddEdge
  <2>1. \E v : RadixInv(v)'
    BY <1>1, <1>3, AddEdgeKeeps
  <2> QED
    BY <2>1 DEF RInv
<1>4. CASE GrowthFails
  BY <1>1, <1>4, GrowthFailsKeeps DEF RInv
<1>5. CASE EndOfKey
  BY <1>1, <1>5, EndOfKeyKeeps DEF RInv
<1>6. CASE Freeze
  BY <1>1, <1>6, FreezeKeeps DEF RInv
<1>7. CASE Open
  BY <1>1, <1>7, OpenKeeps DEF RInv
<1>8. CASE ScanStart
  BY <1>1, <1>8, ScanStartKeeps DEF RInv
<1>9. CASE Visit
  BY <1>1, <1>9, VisitKeeps DEF RInv
<1>10. CASE ScanEnds
  BY <1>1, <1>10, ScanEndsKeeps DEF RInv
<1>11. CASE UNCHANGED radixVars
  <2>1. RadixInv(w)'
    BY <1>1, <1>11 DEF RadixInv, radixVars, buildVars, scanVars, KeysOK, Cursor, InKey, Room, EdgeCount,
                       Stored, Scanning, Frozen, EdgesOf
  <2> QED
    BY <2>1 DEF RInv
<1> QED
  BY <1>2, <1>3, <1>4, <1>5, <1>6, <1>7, <1>8, <1>9, <1>10, <1>11 DEF RadixNext

LEMMA RadixAlways == RadixSpec => []RInv
<1>1. RadixInit => RInv
  BY InitHolds DEF RInv
<1>2. RInv /\ [RadixNext]_radixVars => RInv'
  BY RInvStep
<1> QED
  BY <1>1, <1>2, PTL DEF RadixSpec

-----------------------------------------------------------------------------
(* What follows from it.                                                   *)

LEMMA InvTypes == RInv => RadixTypeOK
<1> SUFFICES ASSUME NEW w, RadixInv(w) PROVE RadixTypeOK
  BY DEF RInv
<1> DEFINE s == Len(nodes)
<1>1. KeysOK /\ Cursor /\ Room /\ IsTree(nodes, w) /\ ValuesIn(nodes, Len(keys)) /\ Scanning(w)
  BY DEF RadixInv
<1>2. Len(keys) \in Nat /\ DOMAIN keys = 1 .. Len(keys) /\ Len(keys) <= MaxKeys /\ ToSet(keys) \subseteq Keyspace
  BY <1>1, RecordTypes DEF KeysOK, ToSet
<1>3. s \in Nat /\ DOMAIN nodes = 1 .. s
  BY <1>1, TreeTypes
<1>4. ASSUME NEW n \in 1 .. s
      PROVE  ToSet(nodes[n].edges) \subseteq Edge /\ nodes[n].cap \in Nat /\ nodes[n].value \in 0 .. Len(keys)
  <2> DEFINE E == nodes[n].edges
  <2>1. /\ nodes[n] \in AnyNode /\ DOMAIN E = 1 .. Len(E)
        /\ \A e \in 1 .. Len(E) : E[e] \in AnyEdge
    BY <1>1, TreeTypes
  <2>2. \A e \in 1 .. Len(E) : E[e].child \in 1 .. s
    BY <1>1, ChildWords
  <2>3. \A e \in 1 .. Len(E) : E[e] \in [label : Label, child : 1 .. s]
    BY <2>1, <2>2 DEF AnyEdge
  <2> HIDE DEF E
  <2>4. ToSet(E) \subseteq Edge
    BY <2>1, <2>3 DEF ToSet, Edge
  <2> QED
    BY <1>1, <2>1, <2>4 DEF AnyNode, ValuesIn, E
<1>5. ToSet(stack) \subseteq 1 .. s /\ ToSet(matches) \subseteq 1 .. Len(keys)
  <2>1. stack \in Seq(1 .. s) /\ matches \in Seq(1 .. Len(keys))
    <3>1. CASE pc \in {"scan", "scanned"}
      BY <1>1, <3>1 DEF Scanning, Pending, Collected
    <3>2. CASE pc \notin {"scan", "scanned"}
      <4>1. stack = <<>> /\ matches = <<>>
        BY <1>1, <3>2 DEF Scanning, Cursor
      <4> QED
        BY <4>1
    <3> QED
      BY <3>1, <3>2
  <2> DEFINE A == 1 .. s
             B == 1 .. Len(keys)
  <2>2. stack \in Seq(A) /\ matches \in Seq(B)
    BY <2>1
  <2> HIDE DEF A, B
  <2>3. ToSet(stack) \subseteq A /\ ToSet(matches) \subseteq B
    BY <2>2, LenProperties DEF ToSet
  <2> QED
    BY <2>3 DEF A, B
<1>6. /\ nodeCap \in Nat
      /\ i \in 1 .. Len(keys) + 1 /\ j \in 1 .. MaxLen + 1 /\ node \in 1 .. s
      /\ st \in {"FCE_OK", "FCE_ERR_OUT_OF_MEMORY"}
      /\ pc \in {"build", "failed", "frozen", "refused", "open", "scan", "scanned"}
      /\ prefix \in Keyspace
  BY <1>1 DEF Cursor, Room, Scanning
<1> QED
  BY <1>2, <1>3, <1>4, <1>5, <1>6 DEF RadixTypeOK

\* A node has one parent, and one edge leads to it.
LEMMA OneParent ==
  ASSUME NEW N, NEW w, IsTree(N, w), NEW m \in 1 .. Len(N), NEW n \in 1 .. Len(N),
         NEW d \in 1 .. Len(N[m].edges), NEW e \in 1 .. Len(N[n].edges),
         N[m].edges[d].child = N[n].edges[e].child
  PROVE  m = n /\ d = e
<1> DEFINE c == N[n].edges[e].child
           a == w[m]
           b == w[n]
           x == N[m].edges[d].label
           y == N[n].edges[e].label
<1>1. Fits(N[m].edges, w, m, d, Len(N)) /\ Fits(N[n].edges, w, n, e, Len(N))
  BY DEF IsTree
<1>2. w[c] = Append(a, x) /\ w[c] = Append(b, y)
  BY Zenon, <1>1 DEF Fits
<1>3. a \in Seq(Label) /\ b \in Seq(Label) /\ x \in Label /\ y \in Label
  BY TreeTypes
<1> HIDE DEF a, b, c, x, y
<1>4. a = b
  <2>1. \A p, q \in Seq(Label) : \A k, l \in Label : Append(p, k) = Append(q, l) => p = q
    BY AppendInjective
  <2> QED
    BY <1>2, <1>3, <2>1
<1>5. m = n
  BY <1>4 DEF IsTree, a, b
<1>6. d = e
  <2>1. N[n].edges[d].child = N[n].edges[e].child /\ d \in 1 .. Len(N[n].edges)
    BY <1>5
  <2>2. \A k \in 1 .. Len(N[n].edges) :
          k # e => ~Under(w[N[n].edges[k].child], w[N[n].edges[e].child])
    BY ChildWords
  <2>3. w[N[n].edges[e].child] \in Seq(Label)
    <3>1. N[n].edges[e].child \in 1 .. Len(N)
      BY ChildWords
    <3> QED
      BY <3>1, TreeTypes
  <2>4. Under(w[N[n].edges[e].child], w[N[n].edges[e].child])
    BY <2>3, UnderLaws
  <2> QED
    BY <2>1, <2>2, <2>4
<1> QED
  BY <1>5, <1>6

LEMMA InvShape == RInv => TrieShape
<1> SUFFICES ASSUME NEW w, RadixInv(w) PROVE TrieShape
  BY DEF RInv
<1> DEFINE s == Len(nodes)
<1>1. IsTree(nodes, w)
  BY DEF RadixInv
<1>2. s \in Nat /\ DOMAIN nodes = 1 .. s /\ \A n \in 1 .. s : DOMAIN nodes[n].edges = 1 .. Len(nodes[n].edges)
  BY <1>1, TreeTypes
<1>3. ASSUME NEW c \in DOMAIN nodes \ {Root} PROVE \E a \in Arcs : {b \in Arcs : LeadsTo(b) = c} = {a}
  <2>1. c \in 2 .. s
    BY <1>2 DEF Root
  <2>2. PICK n \in 1 .. s : \E e \in 1 .. Len(nodes[n].edges) : nodes[n].edges[e].child = c
    BY <1>1, <2>1 DEF IsTree
  <2>3. PICK e \in 1 .. Len(nodes[n].edges) : nodes[n].edges[e].child = c
    BY <2>2
  <2>4. <<n, e>> \in Arcs /\ LeadsTo(<<n, e>>) = c
    BY <1>2, <2>3 DEF Arcs, LeadsTo
  <2>5. ASSUME NEW b \in Arcs, LeadsTo(b) = c PROVE b = <<n, e>>
    <3>1. PICK m \in 1 .. s : b \in {m} \X DOMAIN nodes[m].edges
      BY <1>2 DEF Arcs
    <3>2. PICK d \in 1 .. Len(nodes[m].edges) : b = <<m, d>>
      BY <1>2, <3>1
    <3>3. nodes[m].edges[d].child = nodes[n].edges[e].child
      BY <2>3, <2>5, <3>2 DEF LeadsTo
    <3> QED
      BY <1>1, <3>2, <3>3, OneParent
  <2> QED
    BY <2>4, <2>5
<1>4. ASSUME NEW n \in DOMAIN nodes, NEW e \in 1 .. EdgeCount(n)
      PROVE  /\ nodes[n].edges[e].child > n
             /\ e > 1 => nodes[n].edges[e].label > nodes[n].edges[e - 1].label
  <2> DEFINE E == nodes[n].edges
  <2>1. n \in 1 .. s /\ n \in Nat /\ e \in 1 .. Len(E) /\ Len(E) \in Nat /\ \A d \in 1 .. Len(E) : E[d].label \in Int
    BY <1>1, <1>2, TreeTypes DEF EdgeCount
  <2>2. Fits(E, w, n, e, s)
    BY <1>1, <2>1 DEF IsTree
  <2> HIDE DEF E, s
  <2>3. E[e].child > n
    BY <1>2, <2>1, <2>2 DEF Fits, s
  <2>4. ASSUME e > 1 PROVE E[e].label > E[e - 1].label
    <3>1. e - 1 \in 1 .. e - 1 /\ e - 1 \in 1 .. Len(E)
      BY <2>1, <2>4
    <3>2. E[e - 1].label < E[e].label
      BY <2>2, <3>1 DEF Fits
    <3> QED
      BY <2>1, <3>1, <3>2
  <2> QED
    BY <2>3, <2>4 DEF E
<1>5. RadixTypeOK
  BY InvTypes DEF RInv
<1> QED
  BY <1>3, <1>4, <1>5 DEF TrieShape

LEMMA InvArrays == RInv => WithinArrays
<1> SUFFICES ASSUME NEW w, RadixInv(w) PROVE WithinArrays
  BY DEF RInv
<1>1. KeysOK /\ Room /\ IsTree(nodes, w) /\ Scanning(w)
  BY DEF RadixInv
<1>2. DOMAIN nodes = 1 .. Len(nodes) /\ Len(keys) \in Nat
  BY <1>1, TreeTypes, RecordTypes
<1>3. ASSUME pc = "scan" PROVE Len(stack) <= StackSize /\ Len(matches) <= Len(keys)
  <2>1. Pending(nodes, w, prefix, stack) /\ Collected(nodes, w, prefix, stack, matches, Len(keys)) /\ Frozen
    BY <1>1, <1>3 DEF Scanning
  <2>2. Len(stack) <= Len(nodes)
    BY <1>1, <2>1, PendingShort
  <2>3. Len(matches) <= Len(keys)
    BY <1>2, <2>1, InjectiveShort DEF Collected
  <2> QED
    BY <2>1, <2>2, <2>3 DEF StackSize, Frozen
<1> QED
  BY <1>1, <1>2, <1>3 DEF WithinArrays, Room

LEMMA InvGets == RInv => GetExact
<1> SUFFICES ASSUME NEW w, RadixInv(w), grown PROVE pc # "refused" /\ (pc = "open" =>
                \A key \in Keyspace : Get(key) = None <=> key \notin ToSet(keys))
  BY DEF RInv, GetExact
<1>1. KeysOK /\ IsTree(nodes, w) /\ ValuesIn(nodes, Len(keys)) /\ Stored(w) /\ Scanning(w)
  BY DEF RadixInv
<1>2. DOMAIN keys = 1 .. Len(keys) /\ Len(keys) \in Nat
  BY <1>1, RecordTypes
<1>3. ASSUME pc = "open", NEW key \in Keyspace PROVE Get(key) = None <=> key \notin ToSet(keys)
  <2> DEFINE c == NodeOf(nodes, w, key)
             s == Len(nodes)
  <2>1. Frozen
    BY <1>1, <1>3 DEF Scanning
  <2>2. Walk(key) = c
    BY <1>1, <2>1, KeyTypes, WalkEnds DEF Frozen
  <2>3. c = None \/ (c \in 1 .. s /\ w[c] = key)
    BY <1>1, NodeOfFacts
  <2>4. c = None => ~ \E n \in 1 .. s : w[n] = key
    BY <1>1, NodeOfFacts
  <2>5. \A n \in 1 .. s : w[n] = key => c = n
    BY <1>1, NodeOfFacts
  <2> HIDE DEF c
  <2> DEFINE v == IF c = None THEN None ELSE index.nodes[c].value
  <2>6. Get(key) = IF v # None /\ keys[v] = key THEN v ELSE None
    BY <2>2 DEF Get
  <2>7. v = None \/ (v = nodes[c].value /\ c \in 1 .. s /\ v \in 0 .. Len(keys))
    BY <1>1, <2>1, <2>3 DEF Frozen, ValuesIn
  <2> HIDE DEF v
  <2>8. ASSUME key \in ToSet(keys) PROVE Get(key) # None
    <3>1. PICK r \in 1 .. Len(keys) : keys[r] = key
      BY <1>2, <2>8 DEF ToSet
    <3>2. PICK n \in 1 .. s : nodes[n].value = r
      BY <1>1, <1>3, <3>1 DEF Stored
    <3>3. r # None
      BY <3>1 DEF None
    <3>4. w[n] = key
      BY <1>1, <3>1, <3>2, <3>3 DEF Stored
    <3>5. c = n /\ c # None
      BY <2>4, <2>5, <3>4
    <3>6. v = r
      BY <2>1, <3>2, <3>5 DEF v, Frozen
    <3> QED
      BY <2>6, <3>1, <3>3, <3>6
  <2>9. ASSUME Get(key) # None PROVE key \in ToSet(keys)
    <3>1. v # None /\ keys[v] = key
      BY <2>6, <2>9
    <3>2. v \in 1 .. Len(keys)
      BY <1>2, <2>7, <3>1 DEF None
    <3> QED
      BY <1>2, <3>1, <3>2 DEF ToSet
  <2> QED
    BY <2>8, <2>9
<1> QED
  BY <1>1, <1>3 DEF Stored

LEMMA InvScans == RInv => ScanExact
<1> SUFFICES ASSUME NEW w, RadixInv(w), grown, pc = "scanned"
             PROVE  IsInjective(matches) /\ ToSet(matches) = {r \in DOMAIN keys : IsPrefix(prefix, keys[r])}
  BY DEF RInv, ScanExact
<1> DEFINE s == Len(nodes)
           R == Len(keys)
<1>1. /\ KeysOK /\ IsTree(nodes, w) /\ ValuesIn(nodes, R) /\ Stored(w)
      /\ prefix \in Keyspace /\ stack = <<>>
      /\ Collected(nodes, w, prefix, stack, matches, R)
  BY DEF RadixInv, Scanning
<1>2. DOMAIN keys = 1 .. R /\ \A r \in 1 .. R : keys[r] \in Seq(Label)
  BY <1>1, RecordTypes
<1>3. prefix \in Seq(Label)
  BY <1>1, KeyTypes
<1>4. /\ matches \in Seq(1 .. R)
      /\ \A a, b \in 1 .. Len(matches) : matches[a] = matches[b] => a = b
      /\ \A v \in 1 .. R : (\E a \in 1 .. Len(matches) : matches[a] = v)
                          <=> \E n \in 1 .. s : nodes[n].value = v /\ Visited(w, prefix, stack, n)
  BY <1>1 DEF Collected
<1>5. DOMAIN matches = 1 .. Len(matches) /\ \A a \in 1 .. Len(matches) : matches[a] \in 1 .. R
  <2> DEFINE Z == 1 .. R
  <2>1. matches \in Seq(Z)
    BY <1>4
  <2> HIDE DEF Z
  <2>2. DOMAIN matches = 1 .. Len(matches) /\ \A a \in 1 .. Len(matches) : matches[a] \in Z
    BY <2>1, LenProperties
  <2> QED
    BY <2>2 DEF Z
<1>6. \A n \in 1 .. s : Visited(w, prefix, stack, n) <=> Under(prefix, w[n])
  <2>1. Len(stack) = 0
    BY <1>1
  <2> QED
    BY <2>1 DEF Visited
<1>7. ASSUME NEW v \in 1 .. R PROVE (\E a \in 1 .. Len(matches) : matches[a] = v) <=> IsPrefix(prefix, keys[v])
  <2>1. PICK n \in 1 .. s : nodes[n].value = v
    BY <1>1 DEF Stored
  <2>2. v # None
    BY DEF None
  <2>3. \A m \in 1 .. s : nodes[m].value = v <=> m = n
    BY <1>1, <2>1, <2>2 DEF ValuesIn
  <2>4. w[n] = keys[v]
    BY <1>1, <2>1, <2>2 DEF Stored
  <2>5. IsPrefix(prefix, keys[v]) <=> Under(prefix, keys[v])
    BY <1>2, <1>3, UnderIsPrefix
  <2> QED
    BY <1>4, <1>6, <2>3, <2>4, <2>5
<1>8. ToSet(matches) = {r \in DOMAIN keys : IsPrefix(prefix, keys[r])}
  <2>1. \A r : r \in ToSet(matches) <=> \E a \in 1 .. Len(matches) : matches[a] = r
    BY <1>5 DEF ToSet
  <2>2. \A r \in ToSet(matches) : r \in 1 .. R
    BY <1>5, <2>1
  <2> QED
    BY <1>2, <1>7, <2>1, <2>2
<1> QED
  BY <1>4, <1>5, <1>8 DEF IsInjective

\* The arrays of freeze_radix and of a scan hold what their types say: children are
\* nodes, records are records of the table, the node reached is one of the nodes.
THEOREM RadixTypes == RadixSpec => []RadixTypeOK
<1>1. RInv => RadixTypeOK
  BY InvTypes
<1> QED
  BY <1>1, RadixAlways, PTL

\* What freeze_radix builds is a tree with sorted edges, for any keys in any order and
\* whichever growths of arrays fail: a walk ends and a scan meets no node twice.
THEOREM TriesAreTrees == RadixSpec => []TrieShape
<1>1. RInv => TrieShape
  BY InvShape
<1> QED
  BY <1>1, RadixAlways, PTL

\* No array is written past its end: the edges of a node and the nodes while the trie
\* grows, the stack and the matches of fce_reader_prefix_scan.
THEOREM ArraysHold == RadixSpec => []WithinArrays
<1>1. RInv => WithinArrays
  BY InvArrays
<1> QED
  BY <1>1, RadixAlways, PTL

\* If every array grew, the table that freeze_radix wrote passes validation, and
\* get_radix finds the keys put in it and no others.
THEOREM LookupsExact == RadixSpec => []GetExact
<1>1. RInv => GetExact
  BY InvGets
<1> QED
  BY <1>1, RadixAlways, PTL

\* Then a finished scan has met each record with the prefix once, and no other record.
THEOREM PrefixScansExact == RadixSpec => []ScanExact
<1>1. RInv => ScanExact
  BY InvScans
<1> QED
  BY <1>1, RadixAlways, PTL

-----------------------------------------------------------------------------
(* The search among the edges of a node.                                   *)

\* radix_find_child as module IndexLookup has it: a search for a label in the array
\* of a node's edges, with its point, its interval and what it has found.
Search(edges, wanted, at, from, to, found) ==
  INSTANCE IndexLookup
    WITH Key <- Label, Hash <- [l \in Label |-> l], MaxCount <- Len(edges),
         kind <- "edges", count <- Len(edges), probe <- wanted,
         index <- [p \in 0 .. Len(edges) - 1 |-> [key |-> edges[p + 1].label, order |-> p]],
         pc <- at, lo <- from, hi <- to, pos <- 0, best <- found

Begun(edges, l) == Search(edges, l, "search", 0, Len(edges), -1)!LookupInit
Finds(edges, l, found) == Search(edges, l, "done", 0, 0, found)!FindsNewest

\* A search can begin in every array with ascending labels.
LEMMA SearchBegins ==
  ASSUME NEW E \in Seq(AnyEdge), NEW l \in Label,
         \A d, e \in 1 .. Len(E) : d < e => E[d].label < E[e].label
  PROVE  Begun(E, l)
<1> DEFINE a == [p \in 0 .. Len(E) - 1 |-> [key |-> E[p + 1].label, order |-> p]]
           h == [k \in Label |-> k]
<1>1. Len(E) \in Nat /\ \A d \in 1 .. Len(E) : E[d].label \in Label /\ E[d].label \in Int
  BY EdgeLabels
<1>2. \A p \in 0 .. Len(E) - 1 : p + 1 \in 1 .. Len(E) /\ a[p].key = E[p + 1].label /\ a[p].order = p
  BY <1>1
<1>3. a \in [0 .. Len(E) - 1 -> [key : Label, order : 0 .. Len(E) - 1]]
  BY <1>1
<1>4. \A p, q \in 0 .. Len(E) - 1 : p < q => h[a[p].key] < h[a[q].key]
  BY <1>1, <1>2
<1>5. \A p, q \in 0 .. Len(E) - 1 : p < q => h[a[p].key] <= h[a[q].key]
  BY <1>1, <1>2, <1>4
<1> HIDE DEF a, h
<1> QED
  BY <1>1, <1>2, <1>3, <1>4, <1>5
  DEF Begun, a, h, Search!LookupInit, Search!Kind, Search!Position, Search!Entry, Search!Built,
      Search!Sorted, Search!DistinctLabels, Search!H, Search!Order, Search!Begin, Search!NotFound

\* What a search that is right returns is the edge that Radix takes.
LEMMA SearchFinds ==
  ASSUME NEW E \in Seq(AnyEdge), NEW l \in Label, NEW found,
         \A d, e \in 1 .. Len(E) : d < e => E[d].label < E[e].label,
         Finds(E, l, found)
  PROVE  Found(E, l) = IF found = -1 THEN None ELSE E[found + 1].child
<1> DEFINE q == FirstNotBelow(E, l)
<1>1. /\ Len(E) \in Nat /\ l \in Int
      /\ \A d \in 1 .. Len(E) : E[d].label \in Label /\ E[d].label \in Int
  BY EdgeLabels, Labels
<1>2. \/ found = -1 /\ \A p \in 0 .. Len(E) - 1 : E[p + 1].label # l
      \/ found \in 0 .. Len(E) - 1 /\ E[found + 1].label = l
  <2>1. \A p \in 0 .. Len(E) - 1 : E[p + 1].label \in Label
    BY <1>1
  <2> QED
    BY <2>1 DEF Finds, Search!FindsNewest, Search!Matches, Search!Match, Search!H,
                Search!Position, Search!NotFound
<1>3. /\ q \in 1 .. Len(E) + 1
      /\ \A d \in 1 .. q - 1 : E[d].label < l
      /\ q <= Len(E) => E[q].label >= l
  BY <1>1, NotBelowFacts
<1> HIDE DEF q
<1>4. CASE found = -1
  <2>1. ~(q <= Len(E) /\ E[q].label = l)
    <3>1. ASSUME q <= Len(E) PROVE E[q].label # l
      <4>1. q - 1 \in 0 .. Len(E) - 1 /\ (q - 1) + 1 = q
        BY <1>1, <1>3, <3>1
      <4> QED
        BY <1>1, <1>2, <1>4, <4>1
    <3> QED
      BY <3>1
  <2> QED
    BY <1>4, <2>1 DEF Found, q
<1>5. CASE found # -1
  <2>1. found + 1 \in 1 .. Len(E) /\ E[found + 1].label = l
    BY <1>1, <1>2, <1>5
  <2>2. q = found + 1
    <3>1. \A d \in 1 .. Len(E) : d < found + 1 => E[d].label < l
      BY <2>1
    <3> QED
      BY <1>1, <1>3, <2>1, <3>1
  <2> QED
    BY <1>1, <1>5, <2>1, <2>2 DEF Found, q
<1> QED
  BY <1>4, <1>5

\* A search may begin in the array of each node's edges, and the edge it finds is the
\* one that radix_find_child follows.
EdgesSearched ==
  \A n \in DOMAIN index.nodes, l \in Label : \A edges \in {EdgesOf(n)} :
    /\ Begun(edges, l)
    /\ \A found : Finds(edges, l, found) =>
         FindChild(n, l) = IF found = -1 THEN None ELSE edges[found + 1].child

\* The arrays that freeze_radix leaves are such as the searches of IndexLookup are for:
\* what LookupFindsNewest says of them, LookupsExact relies on.
THEOREM EdgesAreSearched ==
  RadixSpec => [](pc \in {"frozen", "open", "scan", "scanned"} => EdgesSearched)
<1>1. ASSUME RInv, pc \in {"frozen", "open", "scan", "scanned"} PROVE EdgesSearched
  <2> SUFFICES ASSUME NEW n \in DOMAIN index.nodes, NEW l \in Label, NEW E, E = EdgesOf(n)
               PROVE  /\ Begun(E, l)
                      /\ \A found : Finds(E, l, found) =>
                           FindChild(n, l) = IF found = -1 THEN None ELSE E[found + 1].child
    BY DEF EdgesSearched
  <2>1. PICK w : RadixInv(w)
    BY <1>1 DEF RInv
  <2>2. Frozen /\ IsTree(nodes, w)
    BY <1>1, <2>1 DEF RadixInv, Scanning
  <2>3. n \in 1 .. Len(nodes) /\ E = nodes[n].edges
    BY <2>2 DEF Frozen
  <2>4. E \in Seq(AnyEdge) /\ Len(E) \in Nat
    BY <2>2, <2>3, TreeTypes
  <2>5. \A d, e \in 1 .. Len(E) : d < e => E[d].label < E[e].label
    BY <2>2, <2>3, <2>4 DEF IsTree, Fits
  <2>6. FindChild(n, l) = Found(E, l)
    BY DEF FindChild, Found
  <2> QED
    BY <2>4, <2>5, <2>6, SearchBegins, SearchFinds
<1>2. RInv => (pc \in {"frozen", "open", "scan", "scanned"} => EdgesSearched)
  BY <1>1
<1> QED
  BY <1>2, RadixAlways, PTL

=============================================================================
