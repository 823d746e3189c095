----------------------------- MODULE FiniteOrder ------------------------------
(***************************************************************************)
(* Induction over finite sets and naturals, stated with sets in the place  *)
(* of predicates: a set that contains the first element and is closed      *)
(* under the step contains everything.  What follows from it: least and    *)
(* greatest elements of finite sets, and their increasing enumeration.     *)
(* The proofs about the components cite these facts.                       *)
(***************************************************************************)
EXTENDS Integers, FiniteSetTheorems, FiniteSetsExt, TLAPS

-----------------------------------------------------------------------------
(* Induction. *)

\* Every family of finite sets has a smallest member.
LEMMA SmallestFinite ==
  ASSUME NEW F, F # {}, \A x \in F : IsFiniteSet(x)
  PROVE  \E x \in F : \A y \in F : y \subseteq x => y = x
<1> DEFINE S == UNION F
<1>1. F \subseteq FiniteSubsetsOf(S)
  BY DEF FiniteSubsetsOf
<1>2. PICK x \in F : \A y \in F : ~ (<<y, x>> \in StrictSubsetOrdering(S))
  BY <1>1, FS_StrictSubsetOrderingWellFounded, WFMin
<1>3. ASSUME NEW y \in F, y \subseteq x, y # x PROVE FALSE
  <2>1. <<y, x>> \in StrictSubsetOrdering(S)
    BY <1>3 DEF StrictSubsetOrdering
  <2> QED
    BY <2>1, <1>2
<1> QED
  BY <1>3

\* Every set of naturals has a least member.
LEMMA LeastNatural ==
  ASSUME NEW T \in SUBSET Nat, T # {}
  PROVE  \E n \in T : \A m \in T : n <= m
<1> DEFINE F == {1 .. n : n \in T}
<1>1. \A x \in F : IsFiniteSet(x)
  BY FS_Interval
<1>3. F # {}
  OBVIOUS
<1> HIDE DEF F
<1>4. PICK x \in F : \A y \in F : y \subseteq x => y = x
  BY <1>1, <1>3, SmallestFinite
<1> USE DEF F
<1>5. PICK n \in T : x = 1 .. n
  OBVIOUS
<1>6. ASSUME NEW m \in T, ~ (n <= m) PROVE FALSE
  <2>1. 1 .. m \subseteq 1 .. n /\ n \in 1 .. n /\ n \notin 1 .. m
    BY <1>6
  <2> QED
    BY <2>1, <1>4, <1>5
<1> QED
  BY <1>6

\* Induction over the naturals.
LEMMA NaturalsClosed ==
  ASSUME NEW T, 0 \in T, \A n \in Nat : n \in T => n + 1 \in T
  PROVE  Nat \subseteq T
<1> SUFFICES ASSUME Nat \ T # {} PROVE FALSE
  OBVIOUS
<1>1. PICK n \in Nat \ T : \A m \in Nat \ T : n <= m
  BY LeastNatural
<1>2. n - 1 \in Nat /\ n - 1 \in T
  BY <1>1
<1> QED
  BY <1>2, <1>1

\* The first n steps of a recursion, which goes from x to step[k][x] after k steps.
Recurs(f, n, T, base, step) ==
  /\ f \in [0 .. n -> T] /\ f[0] = base
  /\ \A k \in Nat : k < n => f[k + 1] = step[k][f[k]]

LEMMA RecursAgree ==
  ASSUME NEW T, NEW base, NEW step, NEW k \in Nat
  PROVE  \A m, n \in Nat : \A f, g :
           k <= m /\ k <= n /\ Recurs(f, m, T, base, step) /\ Recurs(g, n, T, base, step)
             => f[k] = g[k]
<1> DEFINE Agree(l) == \A m, n \in Nat : \A f, g :
             l <= m /\ l <= n /\ Recurs(f, m, T, base, step) /\ Recurs(g, n, T, base, step)
               => f[l] = g[l]
           Same == {l \in Nat : Agree(l)}
<1>1. Agree(0)
  BY DEF Recurs
<1>2. ASSUME NEW l \in Nat, Agree(l) PROVE Agree(l + 1)
  <2> SUFFICES ASSUME NEW m \in Nat, NEW n \in Nat, NEW f, NEW g,
                      l + 1 <= m, l + 1 <= n,
                      Recurs(f, m, T, base, step), Recurs(g, n, T, base, step)
               PROVE  f[l + 1] = g[l + 1]
    OBVIOUS
  <2>1. l <= m /\ l <= n /\ l < m /\ l < n
    OBVIOUS
  <2>2. f[l] = g[l]
    BY <1>2, <2>1
  <2> QED
    BY <2>1, <2>2 DEF Recurs
<1>3. Nat \subseteq Same
  <2>1. 0 \in Same /\ \A l \in Nat : l \in Same => l + 1 \in Same
    <3> HIDE DEF Agree
    <3> QED
      BY <1>1, <1>2
  <2> HIDE DEF Same
  <2> QED
    BY <2>1, NaturalsClosed
<1> QED
  BY <1>3

LEMMA RecursExtends ==
  ASSUME NEW T, NEW base, NEW step \in [Nat -> [T -> T]], NEW n \in Nat, NEW f,
         Recurs(f, n, T, base, step)
  PROVE  \E g : Recurs(g, n + 1, T, base, step)
<1> DEFINE g == [k \in 0 .. n + 1 |-> IF k = n + 1 THEN step[n][f[n]] ELSE f[k]]
<1>1. f \in [0 .. n -> T] /\ f[0] = base /\ \A k \in Nat : k < n => f[k + 1] = step[k][f[k]]
  BY DEF Recurs
<1>2. f[n] \in T /\ step[n][f[n]] \in T
  BY <1>1
<1>3. g \in [0 .. n + 1 -> T]
  BY <1>1, <1>2
<1>4. \A k \in 0 .. n : g[k] = f[k]
  OBVIOUS
<1>5. g[n + 1] = step[n][f[n]]
  OBVIOUS
<1> HIDE DEF g
<1>6. ASSUME NEW k \in Nat, k < n + 1 PROVE g[k + 1] = step[k][g[k]]
  <2>1. CASE k = n
    BY <2>1, <1>4, <1>5
  <2>2. CASE k < n
    BY <2>2, <1>1, <1>4
  <2> QED
    BY <1>6, <2>1, <2>2
<1> QED
  BY <1>1, <1>3, <1>4, <1>6 DEF Recurs

Recursion(f, base, step) == f[0] = base /\ \A k \in Nat : f[k + 1] = step[k][f[k]]

\* A recursion over the naturals: it has a function, from any first value and any steps.
LEMMA RecursionExists ==
  ASSUME NEW T, NEW base \in T, NEW step \in [Nat -> [T -> T]]
  PROVE  \E f \in [Nat -> T] : Recursion(f, base, step)
<1> DEFINE Good(f, n) == Recurs(f, n, T, base, step)
           N == {n \in Nat : \E f : Good(f, n)}
           F(n) == CHOOSE f : Good(f, n)
           r == [n \in Nat |-> F(n)[n]]
<1>1. 0 \in N
  <2>1. Good([k \in 0 .. 0 |-> base], 0)
    BY DEF Recurs
  <2> QED
    BY <2>1
<1>2. ASSUME NEW n \in Nat, n \in N PROVE n + 1 \in N
  BY <1>2, RecursExtends
<1>3. \A n \in Nat : Good(F(n), n)
  <2>1. Nat \subseteq N
    <3> HIDE DEF N
    <3> QED
      BY <1>1, <1>2, NaturalsClosed
  <2> QED
    BY <2>1
<1> HIDE DEF F
<1>4. \A n \in Nat : /\ F(n) \in [0 .. n -> T] /\ F(n)[0] = base
                     /\ \A k \in Nat : k < n => F(n)[k + 1] = step[k][F(n)[k]]
  BY <1>3 DEF Recurs
<1>5. r \in [Nat -> T] /\ r[0] = base
  BY <1>4
<1>6. ASSUME NEW k \in Nat PROVE r[k + 1] = step[k][r[k]]
  <2>1. F(k)[k] = F(k + 1)[k]
    BY <1>3, RecursAgree
  <2>2. F(k + 1)[k + 1] = step[k][F(k + 1)[k]]
    BY <1>4
  <2> QED
    BY <2>1, <2>2
<1> QED
  BY <1>5, <1>6 DEF Recursion

\* Induction over a finite set, element by element.
LEMMA FiniteClosed ==
  ASSUME NEW S, IsFiniteSet(S), NEW F, {} \in F,
         \A T \in SUBSET S, x \in S : T \in F => T \cup {x} \in F
  PROVE  S \in F
<1> SUFFICES ASSUME S \notin F PROVE FALSE
  OBVIOUS
<1> DEFINE Rest == {U \in SUBSET S : S \ U \in F}
<1>1. Rest # {}
  <2>1. S \ S = {}
    OBVIOUS
  <2> QED
    BY <2>1
<1>2. \A U \in Rest : IsFiniteSet(U)
  BY FS_Subset
<1> HIDE DEF Rest
<1>4. PICK U \in Rest : \A V \in Rest : V \subseteq U => V = U
  BY <1>1, <1>2, SmallestFinite
<1> USE DEF Rest
<1>5. U # {}
  <2>1. S \ {} = S
    OBVIOUS
  <2> QED
    BY <2>1, <1>4
<1>6. PICK x : x \in U
  BY <1>5
<1>7. S \ (U \ {x}) = (S \ U) \cup {x}
  BY <1>6
<1>8. U \ {x} \in Rest
  BY <1>6, <1>7
<1> QED
  BY <1>4, <1>6, <1>8

-----------------------------------------------------------------------------
(* Greatest elements and enumerations. *)

\* A finite set of integers has a greatest element.
LEMMA GreatestExists ==
  ASSUME NEW S \in SUBSET Int, IsFiniteSet(S), S # {}
  PROVE  \E x \in S : \A y \in S : y <= x
<1> DEFINE F == {T \in SUBSET S : T # {} => \E x \in T : \A y \in T : y <= x}
<1>1. {} \in F
  OBVIOUS
<1>2. ASSUME NEW T \in SUBSET S, NEW z \in S, T \in F PROVE T \cup {z} \in F
  <2>1. CASE T = {}
    BY <2>1
  <2>2. CASE T # {}
    <3>1. PICK x \in T : \A y \in T : y <= x
      BY <1>2, <2>2
    <3>2. \A y \in T \cup {z} : y <= (IF z <= x THEN x ELSE z)
      BY <3>1
    <3> QED
      BY <3>1, <3>2
  <2> QED
    BY <2>1, <2>2
<1> HIDE DEF F
<1>3. S \in F
  BY <1>1, <1>2, FiniteClosed
<1> QED
  BY <1>3 DEF F

\* Max is the greatest element.
LEMMA MaxIsGreatest ==
  ASSUME NEW S \in SUBSET Int, IsFiniteSet(S), S # {}
  PROVE  Max(S) \in S /\ \A y \in S : y <= Max(S)
<1>1. \E x \in S : \A y \in S : x >= y
  BY GreatestExists
<1> QED
  BY <1>1 DEF Max

LEMMA MaxUnique ==
  ASSUME NEW S \in SUBSET Int, NEW x \in S, \A y \in S : y <= x
  PROVE  Max(S) = x
<1>1. Max(S) \in S /\ \A y \in S : Max(S) >= y
  BY DEF Max
<1>2. Max(S) \in Int /\ Max(S) <= x /\ x <= Max(S)
  BY <1>1
<1> QED
  BY <1>2

\* The image of a finite set is finite.
LEMMA ImageFinite ==
  ASSUME NEW S, IsFiniteSet(S), NEW f
  PROVE  IsFiniteSet({f[x] : x \in S}) /\ Cardinality({f[x] : x \in S}) <= Cardinality(S)
<1> DEFINE T == {f[x] : x \in S}
           g == [x \in S |-> f[x]]
<1>1. g \in Surjection(S, T)
  BY DEF Surjection
<1> HIDE DEF g, T
<1>2. IsFiniteSet(T) /\ Cardinality(T) <= Cardinality(S)
  BY <1>1, FS_Surjection
<1> QED
  BY <1>2 DEF T

\* s enumerates S in ascending order.
Enumerates(s, S) ==
  /\ s \in [1 .. Cardinality(S) -> S]
  /\ \A i, j \in 1 .. Cardinality(S) : i < j => s[i] < s[j]

\* Every finite set of integers has such an enumeration: that of the set
\* without its greatest element, followed by it.
LEMMA EnumerationExtends ==
  ASSUME NEW T \in SUBSET Int, NEW R \in SUBSET T, NEW m \in T, T = R \cup {m},
         NEW n \in Nat, Cardinality(R) = n, Cardinality(T) = n + 1,
         \A y \in R : y < m, NEW s, Enumerates(s, R)
  PROVE  \E t : Enumerates(t, T)
<1> DEFINE t == [i \in 1 .. n + 1 |-> IF i = n + 1 THEN m ELSE s[i]]
<1>1. s \in [1 .. n -> R] /\ \A i, j \in 1 .. n : i < j => s[i] < s[j]
  BY DEF Enumerates
<1>2. \A i \in 1 .. n + 1 : i # n + 1 => i \in 1 .. n
  OBVIOUS
<1>3. t \in [1 .. n + 1 -> T]
  BY <1>1, <1>2
<1>4. ASSUME NEW i \in 1 .. n + 1, NEW j \in 1 .. n + 1, i < j PROVE t[i] < t[j]
  <2>1. i \in 1 .. n /\ t[i] = s[i] /\ s[i] \in R
    BY <1>1, <1>4
  <2>2. CASE j = n + 1
    BY <2>1, <2>2
  <2>3. CASE j # n + 1
    <3>1. j \in 1 .. n /\ t[j] = s[j]
      BY <2>3
    <3> HIDE DEF t
    <3> QED
      BY <2>1, <3>1, <1>1, <1>4
  <2> QED
    BY <2>2, <2>3
<1> HIDE DEF t
<1>5. Enumerates(t, T)
  BY <1>3, <1>4 DEF Enumerates
<1> QED
  BY <1>5

LEMMA EnumerationExists ==
  ASSUME NEW S \in SUBSET Int, IsFiniteSet(S)
  PROVE  \E s : Enumerates(s, S)
<1> DEFINE F == {T \in SUBSET S : ~ \E s : Enumerates(s, T)}
<1> SUFFICES ASSUME S \in F PROVE FALSE
  OBVIOUS
<1>0. F # {}
  OBVIOUS
<1>1. \A T \in F : IsFiniteSet(T)
  BY FS_Subset
<1> HIDE DEF F
<1>2. \E x \in F : \A y \in F : y \subseteq x => y = x
  BY ONLY <1>0, <1>1, SmallestFinite
<1>2a. PICK T \in F : \A U \in F : U \subseteq T => U = T
  BY <1>2
<1>3. IsFiniteSet(T) /\ T \in SUBSET Int /\ ~ \E s : Enumerates(s, T)
  BY <1>1 DEF F
<1>4. T # {}
  <2>1. Enumerates(<<>>, {})
    BY FS_EmptySet DEF Enumerates
  <2> QED
    BY <2>1, <1>3
<1>5. PICK m \in T : \A y \in T : m >= y
  BY <1>3, <1>4, GreatestExists
<1> DEFINE R == T \ {m}
           n == Cardinality(R)
<1>6. IsFiniteSet(R) /\ n = Cardinality(T) - 1
  BY <1>3, FS_RemoveElement
<1>7. n \in Nat /\ Cardinality(T) \in Nat
  BY <1>3, <1>6, FS_CardinalityType
<1>8. \E s : Enumerates(s, R)
  <2>1. R \subseteq T /\ R # T /\ R \in SUBSET S
    BY DEF F
  <2> QED
    BY <2>1, <1>2a DEF F
<1>9. \A y \in R : y < m
  BY <1>5, <1>3
<1>10. R \in SUBSET T /\ T = R \cup {m} /\ T \in SUBSET Int
  BY <1>3
<1> HIDE DEF R
<1>11. Cardinality(T) = n + 1
  BY <1>6, <1>7
<1>12. \E t : Enumerates(t, T)
  BY <1>7, <1>8, <1>9, <1>10, <1>11, EnumerationExtends
<1> QED
  BY <1>12, <1>3

\* It leaves out nothing.
LEMMA EnumerationOnto ==
  ASSUME NEW S \in SUBSET Int, IsFiniteSet(S), NEW s, Enumerates(s, S)
  PROVE  \A x \in S : \E i \in 1 .. Cardinality(S) : s[i] = x
<1> DEFINE n == Cardinality(S)
<1>1. n \in Nat
  BY FS_CardinalityType
<1>2. IsFiniteSet(1 .. n) /\ Cardinality(1 .. n) = n
  BY <1>1, FS_Interval
<1>3. s \in Injection(1 .. n, S)
  <2>1. s \in [1 .. n -> S]
    BY DEF Enumerates
  <2>2. ASSUME NEW i \in 1 .. n, NEW j \in 1 .. n, s[i] = s[j] PROVE i = j
    <3>1. i \in Int /\ j \in Int /\ s[i] \in S
      BY <2>1
    <3>2. s[i] \in Int
      BY <3>1
    <3>3. ~(s[i] < s[j]) /\ ~(s[j] < s[i])
      BY <3>2, <2>2
    <3> QED
      BY <3>1, <3>3 DEF Enumerates
  <2> QED
    BY <2>1, <2>2 DEF Injection, IsInjective
<1>4. s \in Surjection(1 .. n, S)
  BY <1>2, <1>3, FS_Injection
<1> QED
  BY <1>4 DEF Surjection

\* A set whose elements are named one to one by those of S is as large as S.
LEMMA OneToOneCounts ==
  ASSUME NEW S, IsFiniteSet(S), NEW T, NEW f \in [S -> T],
         \A x, y \in S : f[x] = f[y] => x = y, \A z \in T : \E x \in S : f[x] = z
  PROVE  IsFiniteSet(T) /\ Cardinality(T) = Cardinality(S)
<1>1. f \in Bijection(S, T)
  BY DEF Bijection, Injection, Surjection, IsInjective
<1> QED
  BY <1>1, FS_Bijection DEF ExistsBijection

==============================================================================
