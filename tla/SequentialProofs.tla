--------------------------- MODULE SequentialProofs ---------------------------
(***************************************************************************)
(* The modules of MCSequential for every value of their constants.         *)
(*                                                                         *)
(*   IndexLookup  The searches find the right entry of every array, for    *)
(*     every hash function, colliding or not.                              *)
(*   Codecs  Decoding gives back every array that was encoded, and neither *)
(*     call writes past its buffer.  CodecInv says what a buffer holds of  *)
(*     the elements that have been read.                                   *)
(*   Schema  A schema comes back from its manifest as it went in, and the  *)
(*     planner's schemas are buildable.                                    *)
(*   Builder  A freeze into a direct or a minimal perfect hash table       *)
(*     writes only into its arrays (TableWithin), and the table it leaves  *)
(*     holds for every key just the value put last (FrozenExact).          *)
(*     TableInv says what the table holds at each point of the freeze.  In *)
(*     a hash table a record of a bucket with a seed is in the slot that   *)
(*     the seed gives it, and every slot holds such a record; so the slots *)
(*     are as many as the records placed, and a lookup, which computes the *)
(*     same slot, finds the record of its key or none of that key.  No     *)
(*     freeze takes more steps than it has seeds to try (FreezeBounded).   *)
(*     A lookup of a sorted cache or of a log of the same records answers  *)
(*     the same (BackendsAgree).                                           *)
(***************************************************************************)
EXTENDS IndexLookup, Codecs, Schema, Builder, FiniteOrder, SequenceTheorems, TLAPS

-----------------------------------------------------------------------------
(* IndexLookup.                                                            *)

\* The binary search keeps the place between the smaller hashes and the rest.
Between ==
  /\ lo <= hi
  /\ \A j \in Position : j < lo => H(j) < Hash[probe]
  /\ \A j \in Position : j >= hi => H(j) >= Hash[probe]

\* best is right as far as the scan has come.
BestSoFar ==
  \/ best = NotFound /\ \A j \in Position : j < pos => ~Match(j)
  \/ /\ kind = "log"
     /\ best \in Position /\ Match(best)
     /\ \A j \in Position : j < pos /\ Match(j) => Order(j) <= Order(best)

LookupInv ==
  /\ LookupTypeOK
  /\ Built
  /\ Between
  /\ pc = "search" => best = NotFound
  /\ pc = "scan" => /\ kind # "edges" /\ lo = hi /\ lo <= pos
                    /\ BestSoFar
  /\ FindsNewest

-----------------------------------------------------------------------------
LEMMA LookupInvInit == LookupInit => LookupInv
<1> SUFFICES ASSUME LookupInit PROVE LookupInv
  OBVIOUS
<1> USE LookupConstants
<1>1. LookupTypeOK
  BY DEF LookupInit, Begin, LookupTypeOK, NotFound
<1>2. Built /\ FindsNewest
  BY DEF LookupInit, Begin, FindsNewest
<1>3. Between
  BY DEF LookupInit, Begin, Between, Position
<1> QED
  BY <1>1, <1>2, <1>3 DEF LookupInit, Begin, LookupInv

\* The hash of an entry is a number.
LEMMA HashIsNat ==
  ASSUME LookupTypeOK
  PROVE  /\ Hash[probe] \in Nat
         /\ \A i \in Position : H(i) \in Nat /\ Order(i) \in Nat
BY LookupConstants DEF LookupTypeOK, H, Order, Entry

\* What is not touched by a step keeps the array as it was built.
LEMMA BuiltStays ==
  ASSUME Built, UNCHANGED <<kind, count, index, probe>>
  PROVE  Built'
BY DEF Built, Sorted, DistinctKeys, DistinctOrders, DistinctLabels, Position, H, Order

\* The middle of a nonempty interval lies in it.
LEMMA MidInside ==
  ASSUME LookupTypeOK, lo < hi
  PROVE  Mid \in Position /\ lo <= Mid /\ Mid < hi
BY DEF LookupTypeOK, Mid, Position

LEMMA HalveKeepsInv ==
  ASSUME LookupInv, Halve
  PROVE  LookupInv'
<1> USE DEF LookupInv
<1> DEFINE m == Mid
<1>0. /\ m \in Position /\ lo <= m /\ m < hi
      /\ lo \in 0 .. count /\ hi \in 0 .. count /\ count \in Nat
  BY MidInside DEF Halve, LookupTypeOK
<1>1. LookupTypeOK'
  BY <1>0 DEF Halve, LookupTypeOK, Position
<1>2. Built'
  BY BuiltStays DEF Halve
<1>3. Between'
  <2>1. Position' = Position /\ (Hash[probe])' = Hash[probe]
        /\ \A j \in Position : (H(j))' = H(j)
    BY DEF Halve, Position, H
  <2>2. \A i, j \in Position : i <= j => H(i) <= H(j)
    BY HashIsNat DEF Built, Sorted, Position
  <2>3. CASE H(m) < Hash[probe]
    <3>1. lo' = m + 1 /\ hi' = hi
      BY <2>3 DEF Halve
    <3>2. \A j \in Position : j < m + 1 => H(j) < Hash[probe]
      BY <1>0, <2>2, <2>3, HashIsNat DEF Position
    <3> QED
      <4>1. m + 1 <= hi
        BY <1>0 DEF Position
      <4> QED
        BY <1>0, <2>1, <3>1, <3>2, <4>1 DEF Between
  <2>4. CASE ~(H(m) < Hash[probe])
    <3>1. hi' = m /\ lo' = lo
      BY <2>4 DEF Halve
    <3>2. \A j \in Position : j >= m => H(j) >= Hash[probe]
      BY <1>0, <2>2, <2>4, HashIsNat DEF Position
    <3> QED
      BY <1>0, <2>1, <3>1, <3>2 DEF Between
  <2> QED
    BY <2>3, <2>4
<1>4. pc' = "search" /\ best' = NotFound
  BY DEF Halve
<1> QED
  BY <1>1, <1>2, <1>3, <1>4 DEF FindsNewest

LEMMA SearchEndsKeepsInv ==
  ASSUME LookupInv, SearchEnds
  PROVE  LookupInv'
<1> USE DEF LookupInv
<1>0. /\ lo = hi /\ lo \in 0 .. count /\ count \in Nat
      /\ UNCHANGED <<kind, count, index, probe, lo, hi>>
      /\ best = NotFound /\ pos' = lo /\ pc = "search"
  BY DEF SearchEnds, Between, LookupTypeOK
<1>1. LookupTypeOK'
  BY <1>0 DEF SearchEnds, LookupTypeOK, Position
<1>2. Built'
  BY <1>0, BuiltStays
<1>3. Between'
  BY <1>0 DEF Between, Position, H
<1>4. CASE kind = "edges"
  <2>1. pc' = "done" /\ best' = IF lo < count /\ H(lo) = Hash[probe] THEN lo ELSE NotFound
    BY <1>4 DEF SearchEnds
  <2>2. \A i, j \in Position : i < j => H(i) < H(j)
    BY <1>4 DEF Built, DistinctLabels
  <2>3. \A j \in Position : (Match(j) <=> H(j) = Hash[probe]) /\ (Match(j)' <=> Match(j))
    BY <1>0, <1>4 DEF Match, H, Position
  <2>4. Position' = Position /\ \A j \in Position : Order(j)' = Order(j)
    BY <1>0 DEF Position, Order
  <2>5. CASE lo < count /\ H(lo) = Hash[probe]
    <3>1. \A j \in Position : Match(j) => j = lo
      BY <1>0, <2>2, <2>3, <2>5, HashIsNat DEF Position
    <3>2. lo \in Position /\ Match(lo) /\ best' = lo
      BY <1>0, <2>1, <2>3, <2>5 DEF Position
    <3> QED
      BY <1>1, <1>2, <1>3, <2>1, <2>3, <2>4, <3>1, <3>2, HashIsNat
      DEF FindsNewest, Matches
  <2>6. CASE ~(lo < count /\ H(lo) = Hash[probe])
    <3>1. \A j \in Position : ~Match(j)
      BY <1>0, <2>2, <2>3, <2>6, HashIsNat DEF Position, Between
    <3> QED
      BY <1>1, <1>2, <1>3, <2>1, <2>3, <2>4, <2>6, <3>1 DEF FindsNewest, Matches
  <2> QED
    BY <2>5, <2>6
<1>5. CASE kind # "edges"
  <2>1. pc' = "scan" /\ best' = NotFound
    BY <1>0, <1>5 DEF SearchEnds
  <2>2. \A j \in Position : j < lo => ~Match(j)
    BY <1>0, <1>5, HashIsNat DEF Between, Match, H
  <2>3. BestSoFar'
    BY <1>0, <2>1, <2>2 DEF BestSoFar, Position, Match, H
  <2> QED
    BY <1>0, <1>1, <1>2, <1>3, <1>5, <2>1, <2>3 DEF FindsNewest
<1> QED
  BY <1>4, <1>5

LEMMA ScanKeepsInv ==
  ASSUME LookupInv, ScanHit \/ ScanMiss
  PROVE  LookupInv'
<1> USE DEF LookupInv
<1>0. /\ pc = "scan" /\ pos < count /\ count \in Nat /\ pos \in Position
      /\ kind # "edges" /\ lo = hi /\ lo <= pos /\ BestSoFar /\ H(pos) = Hash[probe]
      /\ lo \in Nat /\ pos \in Nat
      /\ UNCHANGED <<kind, count, index, probe, lo, hi>>
  BY DEF ScanHit, ScanMiss, SameHash, LookupTypeOK, Position
<1>1. Built' /\ Between'
  BY <1>0, BuiltStays DEF Between, Position, H
<1>2. /\ Position' = Position
      /\ \A j \in Position : (Match(j)' <=> Match(j)) /\ Order(j)' = Order(j) /\ Order(j) \in Nat
  BY <1>0, HashIsNat DEF Position, Match, Order, H
<1>3. CASE ScanMiss
  <2>1. pos' = pos + 1 /\ best' = best /\ pc' = "scan" /\ ~Match(pos)
    BY <1>3 DEF ScanMiss
  <2>2. \A j \in Position : j < pos + 1 /\ Match(j) => j < pos
    BY <1>0, <2>1 DEF Position
  <2>3. BestSoFar'
    BY <1>0, <1>2, <2>1, <2>2 DEF BestSoFar, NotFound
  <2>4. LookupTypeOK'
    BY <1>0, <2>1 DEF LookupTypeOK, Position
  <2> QED
    BY <1>0, <1>1, <2>1, <2>3, <2>4 DEF FindsNewest, Position
<1>4. CASE ScanHit /\ kind = "sorted"
  <2>1. best' = pos /\ pc' = "done" /\ Match(pos) /\ pos' = pos
    BY <1>4 DEF ScanHit
  <2>2. LookupTypeOK'
    BY <1>0, <2>1 DEF LookupTypeOK, Position
  <2>3. \A j \in Position : Match(j) => j = pos
    BY <1>0, <1>4, <2>1 DEF Built, DistinctKeys, Match
  <2> QED
    BY <1>0, <1>1, <1>2, <2>1, <2>2, <2>3 DEF FindsNewest, Matches
<1>5. CASE ScanHit /\ kind = "log"
  <2>1. /\ best' = IF Newer(pos) THEN pos ELSE best
        /\ pc' = "scan" /\ Match(pos) /\ pos' = pos + 1
    BY <1>5 DEF ScanHit
  <2>2. LookupTypeOK'
    BY <1>0, <2>1 DEF LookupTypeOK, Position
  <2>3. \A j \in Position : j < pos + 1 => j < pos \/ j = pos
    BY <1>0 DEF Position
  <2>4. \A j \in Position : j < pos /\ Match(j) => best # NotFound /\ Order(j) <= Order(best)
    BY <1>0 DEF BestSoFar, Position, NotFound
  <2>5. BestSoFar'
    <3>1. CASE Newer(pos)
      <4>1. best' = pos
        BY <2>1, <3>1
      <4>2. \A j \in Position : j < pos + 1 /\ Match(j) => Order(j) <= Order(pos)
        <5> SUFFICES ASSUME NEW j \in Position, j < pos + 1, Match(j)
                     PROVE  Order(j) <= Order(pos)
          OBVIOUS
        <5>0. Order(j) \in Nat /\ Order(pos) \in Nat
          BY <1>0, <1>2
        <5>1. CASE j = pos
          BY <5>0, <5>1
        <5>2. CASE j < pos
          <6>1. best # NotFound /\ Order(j) <= Order(best)
            BY <2>4, <5>2
          <6>2. Order(best) \in Nat /\ Order(pos) > Order(best)
            BY <1>0, <1>2, <3>1, <6>1 DEF Newer, BestSoFar
          <6> QED
            BY <5>0, <6>1, <6>2
        <5> QED
          BY <2>3, <5>1, <5>2
      <4>3. best' \in Position /\ Match(best)' /\ Order(best)' = Order(pos)
        BY <1>0, <2>1, <4>1 DEF Match, H, Order
      <4>4. kind' = "log" /\ pos' = pos + 1
        BY <1>0, <1>5, <2>1
      <4> QED
        BY <1>2, <4>2, <4>3, <4>4 DEF BestSoFar
    <3>2. CASE ~Newer(pos)
      <4>1. best' = best /\ best # NotFound /\ Order(pos) <= Order(best)
        <5>1. best' = best /\ best # NotFound /\ ~(Order(pos) > Order(best))
          BY <2>1, <3>2 DEF Newer
        <5>2. best \in Position
          BY <1>0, <5>1 DEF BestSoFar
        <5> QED
          BY <1>0, <1>2, <5>1, <5>2
      <4>2. best \in Position /\ Match(best)
        BY <1>0, <4>1 DEF BestSoFar
      <4>3. \A j \in Position : j < pos + 1 /\ Match(j) => Order(j) <= Order(best)
        BY <2>3, <2>4, <4>1
      <4> QED
        BY <1>0, <1>2, <1>5, <2>1, <4>1, <4>2, <4>3 DEF BestSoFar
    <3> QED
      BY <3>1, <3>2
  <2> QED
    BY <1>0, <1>1, <2>1, <2>2, <2>5 DEF FindsNewest, Position
<1>6. kind = "sorted" \/ kind = "log"
  BY <1>0 DEF LookupTypeOK, Kind
<1> QED
  BY <1>3, <1>4, <1>5, <1>6

LEMMA ScanEndsKeepsInv ==
  ASSUME LookupInv, ScanEnds
  PROVE  LookupInv'
<1> USE DEF LookupInv
<1>0. /\ pc = "scan" /\ pc' = "done" /\ ~SameHash(pos)
      /\ kind # "edges" /\ lo = hi /\ lo <= pos /\ BestSoFar
      /\ UNCHANGED <<kind, count, index, probe, lo, hi, pos, best>>
      /\ count \in Nat /\ pos \in 0 .. count /\ lo \in 0 .. count
  BY DEF ScanEnds, LookupTypeOK
<1>1. LookupTypeOK' /\ Built' /\ Between'
  BY <1>0, BuiltStays DEF LookupTypeOK, Between, Position, H
<1>2. \A j \in Position : j >= pos => ~Match(j)
  <2> SUFFICES ASSUME NEW j \in Position, j >= pos, Match(j) PROVE FALSE
    OBVIOUS
  <2>1. H(j) = Hash[probe]
    BY <1>0 DEF Match, H
  <2>2. pos < count /\ pos \in Position
    BY <1>0 DEF Position
  <2>3. H(pos) <= H(j) /\ H(pos) >= Hash[probe]
    BY <1>0, <2>2, HashIsNat DEF Built, Sorted, Between, Position
  <2> QED
    BY <1>0, <2>1, <2>2, <2>3, HashIsNat DEF SameHash
<1>3. \A j \in Position : Match(j) => j < pos
  BY <1>0, <1>2 DEF Position
<1>4. \/ best = NotFound /\ Matches = {}
      \/ best \in Matches /\ \A i \in Matches : Order(i) <= Order(best)
  BY <1>0, <1>3 DEF BestSoFar, Matches
<1>5. FindsNewest'
  BY <1>0, <1>4 DEF FindsNewest, Matches, Position, Match, H, Order
<1> QED
  BY <1>0, <1>1, <1>5

LEMMA LookupInvStep == LookupInv /\ [LookupNext]_lookupVars => LookupInv'
<1> SUFFICES ASSUME LookupInv, [LookupNext]_lookupVars PROVE LookupInv'
  OBVIOUS
<1>1. CASE LookupNext
  BY <1>1, HalveKeepsInv, SearchEndsKeepsInv, ScanKeepsInv, ScanEndsKeepsInv DEF LookupNext
<1>2. CASE UNCHANGED lookupVars
  BY <1>2 DEF lookupVars, LookupInv, LookupTypeOK, Built, Sorted, DistinctKeys,
     DistinctOrders, DistinctLabels, Between, BestSoFar, FindsNewest, Matches,
     Match, H, Order, Position
<1> QED
  BY <1>1, <1>2

-----------------------------------------------------------------------------
\* get_sorted, get_log and radix_find_child find the newest entry of the key, if
\* there is one, in every array sorted by hash.
THEOREM LookupFindsNewest == LookupSpec => []LookupCorrect
<1>1. LookupSpec => []LookupInv
  BY LookupInvInit, LookupInvStep, PTL DEF LookupSpec
<1>2. LookupInv => LookupCorrect
  BY DEF LookupInv, LookupCorrect
<1> QED
  BY <1>1, <1>2, PTL

\* The positions of the searches stay within the array, or at its end.
THEOREM LookupTypes == LookupSpec => []LookupTypeOK
<1>1. LookupSpec => []LookupInv
  BY LookupInvInit, LookupInvStep, PTL DEF LookupSpec
<1>2. LookupInv => LookupTypeOK
  BY DEF LookupInv
<1> QED
  BY <1>1, <1>2, PTL

\* Each round of the search at least halves an interval that is not empty, and each
\* step of the scan passes an entry with the wanted hash, or is its last.
THEOREM LookupIsLogarithmic == LookupSpec => Logarithmic
<1>1. LookupSpec => []LookupInv
  BY LookupInvInit, LookupInvStep, PTL DEF LookupSpec
<1>2. LookupInv /\ [LookupNext]_lookupVars =>
        [ /\ pc = "search" /\ pc' = "search" => lo < hi /\ 2 * (hi' - lo') <= hi - lo
          /\ pc = "scan" /\ pc' # "done" => pos' = pos + 1 /\ SameHash(pos) ]_lookupVars
  <2> SUFFICES ASSUME LookupInv, LookupNext
               PROVE  /\ pc = "search" /\ pc' = "search" => lo < hi /\ 2 * (hi' - lo') <= hi - lo
                      /\ pc = "scan" /\ pc' # "done" => pos' = pos + 1 /\ SameHash(pos)
    OBVIOUS
  <2>0. lo \in Int /\ hi \in Int /\ pos \in Int
    BY DEF LookupInv, LookupTypeOK
  <2>1. CASE Halve
    <3>1. CASE H(Mid) < Hash[probe]
      BY <2>0, <2>1, <3>1 DEF Halve, Mid
    <3>2. CASE ~(H(Mid) < Hash[probe])
      BY <2>0, <2>1, <3>2 DEF Halve, Mid
    <3> QED
      BY <3>1, <3>2
  <2>2. CASE SearchEnds
    BY <2>2 DEF SearchEnds
  <2>3. CASE ScanHit \/ ScanMiss
    BY <2>3 DEF ScanHit, ScanMiss
  <2>4. CASE ScanEnds
    BY <2>4 DEF ScanEnds
  <2> QED
    BY <2>1, <2>2, <2>3, <2>4 DEF LookupNext
<1> QED
  BY <1>1, <1>2, PTL DEF LookupSpec, Logarithmic

-----------------------------------------------------------------------------
(* Codecs.                                                                 *)

LEMMA PowersOfTwo ==
  /\ Pow2 \in [Nat -> Nat \ {0}]
  /\ Pow2[0] = 1 /\ \A n \in Nat : Pow2[n + 1] = 2 * Pow2[n]
<1> DEFINE Positive == Nat \ {0}
           double == [k \in Nat |-> [x \in Positive |-> 2 * x]]
<1>1. double \in [Nat -> [Positive -> Positive]] /\ 1 \in Positive
  OBVIOUS
<1>2. \E f \in [Nat -> Positive] : Recursion(f, 1, double)
  <2> HIDE DEF double, Positive
  <2> QED
    BY <1>1, RecursionExists
<1>3. PICK f \in [Nat -> Positive] : f[0] = 1 /\ \A k \in Nat : f[k + 1] = double[k][f[k]]
  BY <1>2 DEF Recursion
<1>4. \A k \in Nat : f[k + 1] = 2 * f[k]
  BY <1>3
<1>5. f = [n \in Nat |-> IF n = 0 THEN 1 ELSE 2 * f[n - 1]]
  <2> SUFFICES ASSUME NEW n \in Nat PROVE f[n] = IF n = 0 THEN 1 ELSE 2 * f[n - 1]
    BY <1>3
  <2>1. CASE n = 0
    BY <1>3, <2>1
  <2>2. CASE n # 0
    <3>1. n - 1 \in Nat /\ n - 1 + 1 = n
      BY <2>2
    <3> QED
      BY <3>1, <1>4, <2>2
  <2> QED
    BY <2>1, <2>2
<1>6. Pow2 = [n \in Nat |-> IF n = 0 THEN 1 ELSE 2 * Pow2[n - 1]]
  BY <1>5 DEF Pow2
<1>7. Pow2[0] = 1 /\ \A n \in Nat : Pow2[n + 1] = 2 * Pow2[n]
  BY <1>6
<1>8. \A n \in Nat : Pow2[n] \in Positive
  <2> DEFINE S == {n \in Nat : Pow2[n] \in Positive}
  <2>1. 0 \in S /\ \A n \in Nat : n \in S => n + 1 \in S
    BY <1>7
  <2>2. Nat \subseteq S
    <3> HIDE DEF S
    <3> QED
      BY <2>1, NaturalsClosed
  <2> QED
    BY <2>2
<1> QED
  BY <1>6, <1>7, <1>8

LEMMA WordFacts ==
  /\ Half \in Nat /\ Half >= 2 /\ Pow2[WordBits] = 2 * Half
  /\ Int32 = -Half .. Half - 1 /\ {0, 1} \subseteq Int32
<1>1. WordBits - 1 \in Nat /\ WordBits - 2 \in Nat
  BY CodecConstants
<1>2. Half = 2 * Pow2[WordBits - 2] /\ Pow2[WordBits - 2] \in Nat \ {0}
  <2>1. WordBits - 2 + 1 = WordBits - 1
    BY CodecConstants
  <2> QED
    BY <1>1, <2>1, PowersOfTwo DEF Half
<1>3. Pow2[WordBits] = 2 * Half
  BY <1>1, PowersOfTwo, CodecConstants DEF Half
<1> QED
  BY <1>2, <1>3 DEF Int32

LEMMA DivideWithRest ==
  ASSUME NEW u \in Nat, NEW P \in Nat \ {0}
  PROVE  /\ u \div P \in Nat /\ u % P \in 0 .. P - 1
         /\ u = P * (u \div P) + (u % P)
OBVIOUS

LEMMA RestIsUnique ==
  ASSUME NEW u \in Nat, NEW P \in Nat \ {0}, NEW q \in Nat, NEW r \in 0 .. P - 1, u = P * q + r
  PROVE  u % P = r /\ u \div P = q
OBVIOUS

LEMMA BitSplits ==
  ASSUME NEW u \in Nat, NEW P \in Nat \ {0}
  PROVE  u % (2 * P) = (u % P) + ((u \div P) % 2) * P
<1> DEFINE q == u \div P
           r == u % P
           h == q \div 2
           e == q % 2
<1>1. q \in Nat /\ r \in 0 .. P - 1 /\ u = P * q + r
  BY DivideWithRest
<1>2. h \in Nat /\ e \in 0 .. 1 /\ q = 2 * h + e
  <2> HIDE DEF q
  <2> QED
    BY <1>1, DivideWithRest
<1> HIDE DEF q, r, h, e
<1>3. e * P + r \in 0 .. 2 * P - 1
  <2>1. CASE e = 0
    BY <1>1, <2>1
  <2>2. CASE e = 1
    BY <1>1, <2>2
  <2> QED
    BY <1>2, <2>1, <2>2
<1>4. u = (2 * P) * h + (e * P + r)
  <2>1. P * q = (2 * P) * h + e * P
    BY <1>1, <1>2
  <2> QED
    BY <1>1, <1>2, <2>1
<1>5. u % (2 * P) = e * P + r
  <2> DEFINE D == 2 * P
             t == e * P + r
  <2>1. D \in Nat \ {0} /\ t \in 0 .. D - 1 /\ u = D * h + t
    BY <1>3, <1>4
  <2> HIDE DEF D, t
  <2>2. u % D = t
    BY <1>2, <2>1, RestIsUnique
  <2> QED
    BY <2>2 DEF D, t
<1>6. e * P \in Int /\ e * P + r = r + e * P
  BY <1>1, <1>2
<1> QED
  BY <1>5, <1>6 DEF q, r, e

LEMMA Conversions ==
  /\ \A v \in Int32 : ToUint32(v) \in 0 .. 2 * Half - 1 /\ ToInt32(ToUint32(v)) = v
  /\ \A n \in Int : ToInt32(n) \in Int32 /\ (n \in Int32 => ToInt32(n) = n)
<1>1. Half \in Nat /\ Half >= 2 /\ Int32 = -Half .. Half - 1
  BY WordFacts
<1>2. ASSUME NEW n \in Int PROVE (n + Half) % (2 * Half) \in 0 .. 2 * Half - 1
  BY <1>1
<1>3. ASSUME NEW n \in Int, n + Half \in 0 .. 2 * Half - 1 PROVE (n + Half) % (2 * Half) = n + Half
  BY <1>1, <1>3
<1>4. ASSUME NEW v \in Int32
      PROVE  /\ v % (2 * Half) = IF v >= 0 THEN v ELSE v + 2 * Half
             /\ ToUint32(v) \in 0 .. 2 * Half - 1 /\ ToInt32(ToUint32(v)) = v
  <2>1. v % (2 * Half) = IF v >= 0 THEN v ELSE v + 2 * Half
    BY <1>1
  <2>2. CASE v >= 0
    BY <1>1, <2>1, <2>2, <1>3 DEF ToInt32, ToUint32
  <2>3. CASE v < 0
    <3>1. (v + 2 * Half + Half) % (2 * Half) = v + Half
      BY <1>1, <2>3
    <3> QED
      BY <1>1, <2>1, <2>3, <3>1 DEF ToInt32, ToUint32
  <2> QED
    BY <1>1, <2>1, <2>2, <2>3
<1>5. ASSUME NEW n \in Int PROVE ToInt32(n) \in Int32 /\ (n \in Int32 => ToInt32(n) = n)
  BY <1>1, <1>2, <1>3 DEF ToInt32
<1> QED
  BY <1>4, <1>5

LEMMA WidthFacts ==
  ASSUME plain \in Seq(Int32)
  PROVE  /\ BitWidth \in 1 .. WordBits
         /\ \A i \in DOMAIN plain : ToUint32(plain[i]) \in Nat /\ ToUint32(plain[i]) < Pow2[BitWidth]
<1> DEFINE S == {b \in 1 .. WordBits : \A i \in DOMAIN plain : ToUint32(plain[i]) < Pow2[b]}
<1>1. \A i \in DOMAIN plain : ToUint32(plain[i]) \in 0 .. 2 * Half - 1
  BY Conversions, LenProperties
<1>2. WordBits \in S
  BY <1>1, WordFacts, CodecConstants
<1>3. S \in SUBSET Nat /\ S # {}
  BY <1>2, CodecConstants
<1>4. PICK w \in S : \A b \in S : w <= b
  BY <1>3, LeastNatural
<1>5. BitWidth \in S
  BY <1>3, <1>4 DEF BitWidth, Min
<1> QED
  BY <1>1, <1>5

\* A run ends behind its first element, and all of it is the same.
LEMMA RunFacts ==
  ASSUME plain \in Seq(Int32), at \in 1 .. Len(plain)
  PROVE  /\ RunEnd \in at + 1 .. Len(plain) + 1 /\ RunEnd - at <= Half - 1
         /\ \A i \in at .. RunEnd - 1 : plain[i] = plain[at]
<1> DEFINE S == {j \in at + 1 .. Len(plain) + 1 :
                   j - at <= Half - 1 /\ \A i \in at .. j - 1 : plain[i] = plain[at]}
<1>1. Len(plain) \in Nat
  BY LenProperties
<1>2. at + 1 \in S
  <2>1. \A i \in at .. at + 1 - 1 : i = at
    BY <1>1
  <2> QED
    BY <1>1, <2>1, WordFacts
<1>3. IsFiniteSet(S) /\ S \in SUBSET Int
  <2>1. IsFiniteSet(at + 1 .. Len(plain) + 1)
    BY <1>1, FS_Interval
  <2> QED
    BY <1>1, <2>1, FS_Subset
<1>4. RunEnd = Max(S)
  BY DEF RunEnd
<1>5. RunEnd \in S
  <2> HIDE DEF S
  <2> QED
    BY <1>2, <1>3, <1>4, MaxIsGreatest
<1> QED
  BY <1>5

-----------------------------------------------------------------------------
(* What a buffer holds of the first m elements. *)

CopyOf(o, m) == Len(o) = m /\ \A i \in 1 .. m : o[i] = plain[i]

DeltaOf(o, m) ==
  /\ Len(o) = m
  /\ \A i \in 1 .. m : o[i] = IF i = 1 THEN plain[1] ELSE plain[i] - plain[i - 1]

\* r runs, of which the k-th ends at ends[k].
RunsOf(o, m, r, ends) ==
  /\ r \in Nat /\ ends \in [0 .. r -> 0 .. m]
  /\ ends[0] = 0 /\ ends[r] = m
  /\ Len(o) = 1 + 2 * r /\ o[1] = ToInt32(Len(plain))
  /\ \A k \in 1 .. r :
       /\ ends[k - 1] < ends[k] /\ k <= ends[k]
       /\ o[2 * k] = plain[ends[k]] /\ o[2 * k + 1] = ends[k] - ends[k - 1]
       /\ \A i \in ends[k - 1] + 1 .. ends[k] : plain[i] = plain[ends[k]]

BitOf(i, b) == (ToUint32(plain[i]) \div Pow2[b - 1]) % 2

BitsOf(o, m) ==
  /\ Len(o) = m * BitWidth
  /\ \A i \in 1 .. m, b \in 1 .. BitWidth : o[(i - 1) * BitWidth + b] = BitOf(i, b)

Holds(o, m) ==
  /\ codec \in Copies => CopyOf(o, m)
  /\ codec = "delta_i32" => DeltaOf(o, m)
  /\ codec = "rle" => \E r, ends : RunsOf(o, m, r, ends)
  /\ codec = "bitpack" => BitsOf(o, m)

\* A buffer with the part of plain that a - 1 elements, or runs, decode to.
Restores(o, a) ==
  /\ codec # "rle" => CopyOf(o, a - 1)
  /\ codec = "rle" => \E r, ends : RunsOf(Data, Len(plain), r, ends) /\ CopyOf(o, ends[a - 1])

Restored == Restores(out, at)

Calling == {"idle", "called", "encode", "encoded", "decode", "decoded",
            "refused", "corrupt", "noMemory"}

CodecShape ==
  /\ codec \in Codec /\ plain \in Arrays \cup {<<>>} /\ ragged \in BOOLEAN
  /\ call \in Calling /\ at \in Nat \ {0} /\ room \in Nat
  /\ out \in Seq(Int32)
  /\ packed \in [n : Nat, bits : Nat, data : Seq(Int32)]

BuffersInv ==
  buffers = CASE call \in {"idle", "called", "refused"} -> {}
              [] call \in {"encode", "encoded", "corrupt"} -> {"encoded"}
              [] call \in {"decode", "decoded"} -> {"encoded", "decoded"}
              [] call = "noMemory" -> buffers \cap {"encoded"}

PackedInv ==
  /\ Holds(Data, Len(plain))
  /\ codec = "bitpack" => packed.n = Len(plain) /\ packed.bits = BitWidth

CodecInv ==
  /\ CodecShape /\ BuffersInv
  /\ call = "encode" => at <= Len(plain) + 1 /\ room = EncodedRoom /\ Holds(out, at - 1)
  /\ call \in {"encoded", "decode"} => PackedInv
  /\ call = "decode" => /\ at <= Steps + 1 /\ room = DecodedRoom /\ Restored
                        /\ Len(out) <= room
  /\ RoundTrip

LEMMA PlainFacts ==
  ASSUME CodecShape
  PROVE  plain \in Seq(Int32) /\ Len(plain) \in Nat /\ \A i \in 1 .. Len(plain) : plain[i] \in Int32
<1>1. <<>> \in Seq(Int32)
  OBVIOUS
<1>2. plain \in Seq(Int32)
  BY <1>1, CodecConstants DEF CodecShape
<1> QED
  BY <1>2, LenProperties

LEMMA RoomFacts ==
  ASSUME CodecShape
  PROVE  /\ EncodedRoom \in Nat
         /\ codec = "bitpack" => Len(plain) * BitWidth <= EncodedRoom
<1> DEFINE bits == Len(plain) * BitWidth
<1>1. Len(plain) \in Nat /\ BitWidth \in Nat
  BY PlainFacts, WidthFacts, CodecConstants
<1>2. bits \in Nat
  BY <1>1
<1>3. 8 * Bytes(bits) \in Nat /\ bits <= 8 * Bytes(bits)
  <2> HIDE DEF bits
  <2> QED
    BY <1>2 DEF Bytes
<1> HIDE DEF bits
<1>4. CASE codec = "rle"
  BY <1>1, <1>4 DEF EncodedRoom
<1>5. CASE codec = "bitpack"
  <2>1. EncodedRoom = 8 * Bytes(bits)
    BY <1>5 DEF EncodedRoom, bits
  <2> QED
    BY <1>3, <1>5, <2>1 DEF bits
<1>6. CASE codec \notin {"rle", "bitpack"}
  BY <1>1, <1>6 DEF EncodedRoom
<1> QED
  BY <1>4, <1>5, <1>6

\* A buffer with nothing in it but the count in front of the runs.
LEMMA HoldsNothing ==
  ASSUME CodecShape
  PROVE  Holds(IF codec = "rle" THEN <<ToInt32(Len(plain))>> ELSE <<>>, 0)
<1>1. Len(<<>>) = 0
  OBVIOUS
<1>2. CopyOf(<<>>, 0) /\ DeltaOf(<<>>, 0)
  BY <1>1 DEF CopyOf, DeltaOf
<1>3. BitsOf(<<>>, 0)
  <2>1. BitWidth \in Nat /\ 0 * BitWidth = 0
    BY PlainFacts, WidthFacts, CodecConstants
  <2> QED
    BY <1>1, <2>1 DEF BitsOf
<1>4. \E r, ends : RunsOf(<<ToInt32(Len(plain))>>, 0, r, ends)
  <2> DEFINE c == ToInt32(Len(plain))
             none == [k \in 0 .. 0 |-> 0]
  <2>1. Len(<<c>>) = 1 /\ <<c>>[1] = c
    OBVIOUS
  <2>2. none \in [0 .. 0 -> 0 .. 0] /\ none[0] = 0
    OBVIOUS
  <2> HIDE DEF none
  <2>3. RunsOf(<<c>>, 0, 0, none)
    BY <2>1, <2>2 DEF RunsOf
  <2> QED
    BY <2>3
<1> QED
  BY <1>2, <1>3, <1>4 DEF Holds, Copies

LEMMA EncodeAllocateInv == ASSUME CodecInv, EncodeAllocate PROVE CodecInv'
<1>1. /\ call = "called" /\ call' = "encode" /\ at' = 1 /\ room' = EncodedRoom
      /\ out' = IF codec = "rle" THEN <<ToInt32(Len(plain))>> ELSE <<>>
      /\ buffers' = buffers \cup {"encoded"} /\ UNCHANGED <<codec, plain, ragged, packed>>
  BY DEF EncodeAllocate, Allocate
<1>2. CodecShape /\ Len(plain) \in Nat /\ EncodedRoom \in Nat
  BY PlainFacts, RoomFacts DEF CodecInv
<1>3. out' \in Seq(Int32)
  <2>1. ToInt32(Len(plain)) \in Int32
    BY <1>2, Conversions
  <2> QED
    BY <1>1, <2>1
<1>4. CodecShape' /\ at' <= Len(plain') + 1
  BY <1>1, <1>2, <1>3 DEF CodecShape, Calling
<1>5. Holds(out, at - 1)'
  <2>1. Holds(out', at' - 1)
    BY <1>1, <1>2, HoldsNothing
  <2> QED
    BY <1>1, <2>1 DEF Holds, CopyOf, DeltaOf, RunsOf, BitsOf, BitOf, BitWidth
<1>6. (room = EncodedRoom)'
  BY <1>1 DEF EncodedRoom, BitWidth
<1>7. BuffersInv'
  BY <1>1 DEF CodecInv, BuffersInv
<1>8. RoundTrip'
  BY <1>1 DEF RoundTrip
<1> QED
  BY <1>1, <1>4, <1>5, <1>6, <1>7, <1>8 DEF CodecInv

LEMMA ConcatFacts ==
  ASSUME NEW o \in Seq(Int32), NEW w \in Seq(Int32)
  PROVE  /\ o \o w \in Seq(Int32) /\ Len(o \o w) = Len(o) + Len(w)
         /\ \A i \in 1 .. Len(o) : (o \o w)[i] = o[i]
         /\ \A i \in 1 .. Len(w) : (o \o w)[Len(o) + i] = w[i]
<1>1. Len(o) \in Nat /\ Len(w) \in Nat
  BY LenProperties
<1>2. o \o w \in Seq(Int32) /\ Len(o \o w) = Len(o) + Len(w)
  BY ConcatProperties
<1>3. \A i \in 1 .. Len(o) + Len(w) :
        (o \o w)[i] = IF i <= Len(o) THEN o[i] ELSE w[i - Len(o)]
  BY ConcatProperties
<1> QED
  BY <1>1, <1>2, <1>3

LEMMA OneMore ==
  ASSUME NEW o \in Seq(Int32), NEW v \in Int32
  PROVE  /\ o \o <<v>> \in Seq(Int32) /\ Len(o \o <<v>>) = Len(o) + 1 /\ Len(o) \in Nat
         /\ \A i \in 1 .. Len(o) : (o \o <<v>>)[i] = o[i]
         /\ (o \o <<v>>)[Len(o) + 1] = v
<1>1. <<v>> \in Seq(Int32) /\ Len(<<v>>) = 1 /\ <<v>>[1] = v
  OBVIOUS
<1>2. 1 \in 1 .. 1
  OBVIOUS
<1> QED
  BY <1>1, <1>2, ConcatFacts, LenProperties

LEMMA CopyGrows ==
  ASSUME NEW o \in Seq(Int32), NEW m \in Nat, CopyOf(o, m), plain[m + 1] \in Int32
  PROVE  CopyOf(o \o <<plain[m + 1]>>, m + 1)
BY OneMore DEF CopyOf

LEMMA DeltaGrows ==
  ASSUME NEW o \in Seq(Int32), NEW m \in Nat, DeltaOf(o, m), NEW d \in Int32,
         d = IF m + 1 = 1 THEN plain[1] ELSE plain[m + 1] - plain[m + 1 - 1]
  PROVE  DeltaOf(o \o <<d>>, m + 1)
<1>1. Len(o) = m
  BY DEF DeltaOf
<1>2. \A i \in 1 .. m : (o \o <<d>>)[i] = IF i = 1 THEN plain[1] ELSE plain[i] - plain[i - 1]
  BY <1>1, OneMore DEF DeltaOf
<1>3. (o \o <<d>>)[m + 1] = d /\ Len(o \o <<d>>) = m + 1
  BY <1>1, OneMore
<1>4. \A i \in 1 .. m + 1 : i \in 1 .. m \/ i = m + 1
  OBVIOUS
<1> QED
  BY <1>2, <1>3, <1>4 DEF DeltaOf

\* Where the bits of the i-th of m elements are.
LEMMA BitPlaces ==
  ASSUME NEW w \in Nat \ {0}, NEW m \in Nat, NEW i \in 1 .. m, NEW b \in 1 .. w
  PROVE  (i - 1) * w + b \in 1 .. m * w
<1> DEFINE j == i - 1
           r == m - i
<1>1. j \in Nat /\ r \in Nat /\ m = j + 1 + r
  OBVIOUS
<1> HIDE DEF j, r
<1>2. m * w = j * w + w + r * w
  BY <1>1
<1>3. j * w \in Nat /\ r * w \in Nat
  BY <1>1
<1>4. j * w + b \in 1 .. m * w
  BY <1>2, <1>3
<1> QED
  BY <1>4 DEF j

LEMMA BitsGrow ==
  ASSUME NEW o \in Seq(Int32), NEW m \in Nat, BitsOf(o, m), BitWidth \in Nat \ {0},
         NEW w, w = [b \in 1 .. BitWidth |-> BitOf(m + 1, b)], w \in Seq(Int32)
  PROVE  BitsOf(o \o w, m + 1)
<1> DEFINE W == BitWidth
<1>1. Len(o) = m * W /\ Len(w) = W /\ Len(o) \in Nat /\ W \in Nat \ {0}
  BY LenProperties DEF BitsOf
<1>2. (m + 1) * W = m * W + W
  BY <1>1
<1>3. Len(o \o w) = (m + 1) * W
  <2>1. Len(o \o w) = Len(o) + Len(w)
    BY ConcatFacts
  <2> HIDE DEF W
  <2> QED
    BY <1>1, <1>2, <2>1
<1>4. ASSUME NEW i \in 1 .. m + 1, NEW b \in 1 .. W
      PROVE  (o \o w)[(i - 1) * W + b] = BitOf(i, b)
  <2>1. CASE i \in 1 .. m
    <3>1. (i - 1) * W + b \in 1 .. Len(o)
      <4> HIDE DEF W
      <4> QED
        BY <2>1, <1>1, BitPlaces
    <3> QED
      BY <2>1, <3>1, ConcatFacts DEF BitsOf
  <2>2. CASE i = m + 1
    <3>1. (i - 1) * W + b = Len(o) + b
      BY <1>1, <2>2
    <3>2. (o \o w)[Len(o) + b] = w[b]
      BY <1>1, ConcatFacts
    <3> QED
      BY <2>2, <3>1, <3>2
  <2>3. i \in 1 .. m \/ i = m + 1
    OBVIOUS
  <2> QED
    BY <2>1, <2>2, <2>3, Zenon
<1> QED
  BY <1>3, <1>4 DEF BitsOf

LEMMA RunsGrow ==
  ASSUME plain \in Seq(Int32), NEW o \in Seq(Int32), NEW m \in Nat, NEW r, NEW ends,
         RunsOf(o, m, r, ends), NEW e \in m + 1 .. Len(plain), e - m \in Int32,
         \A i \in m + 1 .. e : plain[i] = plain[e],
         NEW v, v = plain[e]
  PROVE  \E ends2 : RunsOf(o \o <<v, e - m>>, e, r + 1, ends2)
<1> DEFINE g == [k \in 0 .. r + 1 |-> IF k = r + 1 THEN e ELSE ends[k]]
           w == <<v, e - m>>
<1>1. /\ r \in Nat /\ ends \in [0 .. r -> 0 .. m] /\ ends[0] = 0 /\ ends[r] = m
      /\ Len(o) = 1 + 2 * r /\ o[1] = ToInt32(Len(plain))
      /\ \A k \in 1 .. r :
           /\ ends[k - 1] < ends[k] /\ k <= ends[k]
           /\ o[2 * k] = plain[ends[k]] /\ o[2 * k + 1] = ends[k] - ends[k - 1]
           /\ \A i \in ends[k - 1] + 1 .. ends[k] : plain[i] = plain[ends[k]]
  BY DEF RunsOf
<1>2. Len(plain) \in Nat /\ e \in Nat /\ v \in Int32
  BY LenProperties
<1>3. w \in Seq(Int32) /\ Len(w) = 2 /\ w[1] = v /\ w[2] = e - m
  BY <1>2
<1>4. /\ Len(o \o w) = 1 + 2 * (r + 1)
      /\ \A i \in 1 .. 1 + 2 * r : (o \o w)[i] = o[i]
      /\ (o \o w)[2 * r + 2] = v /\ (o \o w)[2 * r + 3] = e - m
  <2>1. 1 \in 1 .. Len(w) /\ 2 \in 1 .. Len(w)
    BY <1>3
  <2>2. (o \o w)[Len(o) + 1] = v /\ (o \o w)[Len(o) + 2] = e - m /\ Len(o \o w) = Len(o) + 2
    BY <1>3, <2>1, ConcatFacts
  <2>3. Len(o) + 1 = 2 * r + 2 /\ Len(o) + 2 = 2 * r + 3
    BY <1>1
  <2>4. \A i \in 1 .. Len(o) : (o \o w)[i] = o[i]
    BY <1>3, ConcatFacts
  <2>5. Len(o \o w) = 1 + 2 * (r + 1)
    BY <1>1, <2>2
  <2> HIDE DEF w
  <2> QED
    BY <1>1, <2>2, <2>3, <2>4, <2>5
<1>5. /\ g \in [0 .. r + 1 -> 0 .. e] /\ g[r + 1] = e
      /\ \A k \in 0 .. r : g[k] = ends[k] /\ ends[k] \in 0 .. m
  BY <1>1, <1>2
<1> HIDE DEF g, w
<1>6. g[r] = m /\ g[0] = 0
  BY <1>1, <1>5
<1>7. r <= m
  <2>1. CASE r = 0
    BY <2>1
  <2>2. CASE r # 0
    BY <1>1, <2>2
  <2> QED
    BY <2>1, <2>2
<1>8. ASSUME NEW k \in 1 .. r + 1
      PROVE  /\ g[k - 1] < g[k] /\ k <= g[k]
             /\ (o \o w)[2 * k] = plain[g[k]] /\ (o \o w)[2 * k + 1] = g[k] - g[k - 1]
             /\ \A i \in g[k - 1] + 1 .. g[k] : plain[i] = plain[g[k]]
  <2>1. CASE k = r + 1
    <3>1. g[k - 1] = m /\ g[k] = e /\ 2 * k = 2 * r + 2 /\ 2 * k + 1 = 2 * r + 3
      BY <1>1, <1>5, <1>6, <2>1
    <3>2. (o \o w)[2 * k] = plain[e] /\ (o \o w)[2 * k + 1] = e - m
      <4>1. (o \o w)[2 * r + 2] = v /\ (o \o w)[2 * r + 3] = e - m
        BY <1>4
      <4> QED
        BY <3>1, <4>1
    <3>3. m < e /\ k <= e
      BY <1>1, <1>2, <1>7, <2>1
    <3> QED
      BY <3>1, <3>2, <3>3
  <2>2. CASE k \in 1 .. r
    <3>1. g[k - 1] = ends[k - 1] /\ g[k] = ends[k]
      <4>1. k \in 0 .. r /\ k - 1 \in 0 .. r
        BY <1>1, <2>2
      <4> QED
        BY <1>5, <4>1
    <3>2. 2 * k \in 1 .. 1 + 2 * r /\ 2 * k + 1 \in 1 .. 1 + 2 * r
      BY <1>1, <2>2
    <3>3. (o \o w)[2 * k] = o[2 * k] /\ (o \o w)[2 * k + 1] = o[2 * k + 1]
      BY <3>2, <1>4
    <3>4. /\ ends[k - 1] < ends[k] /\ k <= ends[k]
          /\ o[2 * k] = plain[ends[k]] /\ o[2 * k + 1] = ends[k] - ends[k - 1]
          /\ \A i \in ends[k - 1] + 1 .. ends[k] : plain[i] = plain[ends[k]]
      BY <1>1, <2>2
    <3> QED
      BY <3>1, <3>3, <3>4
  <2>3. k = r + 1 \/ k \in 1 .. r
    BY <1>1
  <2> QED
    BY <2>1, <2>2, <2>3, Zenon
<1>9. (o \o w)[1] = ToInt32(Len(plain)) /\ r + 1 \in Nat
  BY <1>1, <1>4
<1>10. RunsOf(o \o w, e, r + 1, g)
  BY <1>4, <1>5, <1>6, <1>8, <1>9 DEF RunsOf
<1> QED
  BY <1>10 DEF w

\* A step of the encoder or of the decoder that goes on.
LEMMA EncodeGoesOn ==
  ASSUME CodecInv, call = "encode", UNCHANGED <<codec, plain, ragged, call, room, packed, buffers>>,
         at' \in Nat \ {0}, at' <= Len(plain) + 1, out' \in Seq(Int32), Holds(out', at' - 1)
  PROVE  CodecInv'
<1>1. CodecShape' /\ (at <= Len(plain) + 1)'
  BY DEF CodecInv, CodecShape
<1>2. Holds(out, at - 1)'
  <2>1. BitWidth' = BitWidth
    BY DEF BitWidth
  <2>2. codec \in Copies => CopyOf(out, at - 1)'
    BY DEF Holds, CopyOf
  <2>3. codec = "delta_i32" => DeltaOf(out, at - 1)'
    BY DEF Holds, DeltaOf
  <2>4. codec = "rle" => \E r, ends : RunsOf(out', at' - 1, r, ends)
    BY DEF Holds
  <2>5. codec = "rle" => \E r, ends : RunsOf(out, at - 1, r, ends)'
    <3> SUFFICES ASSUME codec = "rle" PROVE \E r, ends : RunsOf(out, at - 1, r, ends)'
      OBVIOUS
    <3>1. PICK r, ends : RunsOf(out', at' - 1, r, ends)
      BY <2>4
    <3>2. RunsOf(out, at - 1, r, ends)'
      <4> HIDE DEF Holds, CodecInv
      <4> QED
        BY <3>1 DEF RunsOf
    <3> QED
      BY <3>2
  <2>6. codec = "bitpack" => BitsOf(out, at - 1)'
    BY <2>1 DEF Holds, BitsOf, BitOf
  <2> QED
    BY <2>2, <2>3, <2>5, <2>6 DEF Holds
<1>3. (room = EncodedRoom)'
  BY DEF CodecInv, EncodedRoom, BitWidth
<1>4. BuffersInv' /\ RoundTrip'
  BY DEF CodecInv, BuffersInv, RoundTrip
<1> QED
  BY <1>1, <1>2, <1>3, <1>4 DEF CodecInv

LEMMA EncodeCopyInv == ASSUME CodecInv, EncodeCopy PROVE CodecInv'
<1>1. /\ codec \in Copies /\ call = "encode" /\ at <= Len(plain) /\ out' = out \o <<plain[at]>>
      /\ at' = at + 1 /\ UNCHANGED <<codec, plain, ragged, call, room, packed, buffers>>
  BY DEF EncodeCopy, Encoding, Emit
<1>2. CodecShape /\ at \in Nat \ {0} /\ out \in Seq(Int32) /\ CopyOf(out, at - 1)
  BY <1>1 DEF CodecInv, CodecShape, Holds
<1>3. Len(plain) \in Nat /\ plain[at] \in Int32
  BY <1>1, <1>2, PlainFacts
<1>4. CopyOf(out', at)
  <2>1. at - 1 \in Nat /\ at - 1 + 1 = at
    BY <1>2
  <2> QED
    BY <1>1, <1>2, <1>3, <2>1, CopyGrows
<1>5. Holds(out', at' - 1)
  <2>1. at' - 1 = at
    BY <1>1, <1>2
  <2> QED
    BY <1>1, <1>4, <2>1 DEF Holds, Copies
<1> QED
  BY <1>1, <1>2, <1>3, <1>5, OneMore, EncodeGoesOn

LEMMA EncodeDeltaInv == ASSUME CodecInv, EncodeDelta PROVE CodecInv'
<1> DEFINE d == IF at = 1 THEN plain[1] ELSE plain[at] - plain[at - 1]
<1>1. codec = "delta_i32" /\ call = "encode" /\ at <= Len(plain)
  BY DEF EncodeDelta, Encoding
<1>2. CodecShape /\ at \in Nat \ {0} /\ out \in Seq(Int32) /\ DeltaOf(out, at - 1)
  BY <1>1 DEF CodecInv, CodecShape, Holds
<1>3. CASE d \in Int32
  <2>1. /\ out' = out \o <<d>>
        /\ at' = at + 1 /\ UNCHANGED <<codec, plain, ragged, call, room, packed, buffers>>
    BY <1>3 DEF EncodeDelta, Emit
  <2>2. DeltaOf(out', at)
    <3>1. at - 1 \in Nat /\ at - 1 + 1 = at
      BY <1>2
    <3>2. d = IF at - 1 + 1 = 1 THEN plain[1] ELSE plain[at - 1 + 1] - plain[at - 1 + 1 - 1]
      BY <3>1
    <3> HIDE DEF d
    <3>3. DeltaOf(out \o <<d>>, at - 1 + 1)
      BY <1>2, <1>3, <3>1, <3>2, DeltaGrows
    <3> QED
      BY <2>1, <3>1, <3>3
  <2>3. Holds(out', at' - 1)
    <3>1. at' - 1 = at
      BY <1>2, <2>1
    <3> QED
      BY <1>1, <2>1, <2>2, <3>1 DEF Holds, Copies
  <2>4. out' \in Seq(Int32) /\ at' \in Nat \ {0} /\ at' <= Len(plain) + 1
    <3>1. Len(plain) \in Nat
      BY <1>2, PlainFacts
    <3> HIDE DEF d
    <3> QED
      BY <1>1, <1>2, <1>3, <2>1, <3>1, OneMore
  <2> QED
    BY <1>1, <2>1, <2>3, <2>4, EncodeGoesOn
<1>4. CASE d \notin Int32
  <2>1. Fail("refused", "encoded")
    BY <1>4 DEF EncodeDelta
  <2>2. call' = "refused" /\ buffers' = buffers \ {"encoded"}
        /\ UNCHANGED <<codec, plain, ragged, at, out, room, packed>>
    BY <2>1 DEF Fail, Stop
  <2>3. CodecShape'
    BY <1>2, <2>2 DEF CodecShape, Calling
  <2>4. BuffersInv'
    BY <1>1, <2>2 DEF CodecInv, BuffersInv
  <2> QED
    BY <2>2, <2>3, <2>4 DEF CodecInv, RoundTrip
<1> QED
  BY <1>3, <1>4

LEMMA EncodeRunInv == ASSUME CodecInv, EncodeRun PROVE CodecInv'
<1> DEFINE e == RunEnd - 1
           m == at - 1
<1>1. /\ codec = "rle" /\ call = "encode" /\ at <= Len(plain)
      /\ out' = out \o <<plain[at], ToInt32(RunEnd - at)>>
      /\ at' = RunEnd /\ UNCHANGED <<codec, plain, ragged, call, room, packed, buffers>>
  BY DEF EncodeRun, Encoding
<1>2. CodecShape /\ at \in Nat \ {0} /\ out \in Seq(Int32)
  BY <1>1 DEF CodecInv, CodecShape
<1>3. PICK r, ends : RunsOf(out, m, r, ends)
  BY <1>1 DEF CodecInv, Holds
<1>4. plain \in Seq(Int32) /\ Len(plain) \in Nat /\ plain[at] \in Int32 /\ at \in 1 .. Len(plain)
  BY <1>1, <1>2, PlainFacts
<1>5. /\ RunEnd \in at + 1 .. Len(plain) + 1 /\ RunEnd - at <= Half - 1
      /\ \A i \in at .. RunEnd - 1 : plain[i] = plain[at]
  BY <1>4, RunFacts
<1>6. m \in Nat /\ m + 1 = at /\ e \in m + 1 .. Len(plain) /\ e - m = RunEnd - at
  BY <1>2, <1>4, <1>5
<1>7. RunEnd - at \in Int32 /\ ToInt32(RunEnd - at) = RunEnd - at
  <2>1. RunEnd - at \in Int32
    BY <1>4, <1>5, WordFacts
  <2> QED
    BY <2>1, <1>4, <1>5, Conversions
<1>8. plain[at] = plain[e] /\ \A i \in m + 1 .. e : plain[i] = plain[e]
  <2>1. plain[e] = plain[at]
    BY <1>4, <1>5
  <2> QED
    BY <1>5, <1>6, <2>1
<1>9. out' = out \o <<plain[at], e - m>>
  BY <1>1, <1>6, <1>7
<1>10. e - m \in Int32 /\ at' - 1 = e /\ at' \in Nat \ {0} /\ at' <= Len(plain) + 1
  BY <1>1, <1>4, <1>5, <1>6, <1>7
<1> HIDE DEF e, m
<1>11. \E ends2 : RunsOf(out \o <<plain[at], e - m>>, e, r + 1, ends2)
  BY <1>2, <1>3, <1>4, <1>6, <1>8, <1>10, RunsGrow
<1>12. Holds(out', at' - 1)
  <2>1. \E r2, ends2 : RunsOf(out', at' - 1, r2, ends2)
    BY <1>9, <1>10, <1>11
  <2> QED
    BY <1>1, <2>1 DEF Holds, Copies
<1>13. out' \in Seq(Int32)
  <2>1. <<plain[at], e - m>> \in Seq(Int32)
    BY <1>4, <1>10
  <2> QED
    BY <1>2, <1>9, <2>1, ConcatFacts
<1> QED
  BY <1>1, <1>10, <1>12, <1>13, EncodeGoesOn

\* A bit is one of two words.
LEMMA BitIsWord ==
  ASSUME plain \in Seq(Int32), NEW i \in 1 .. Len(plain), NEW b \in 1 .. BitWidth
  PROVE  BitOf(i, b) \in 0 .. 1 /\ BitOf(i, b) \in Int32
<1>1. ToUint32(plain[i]) \in Nat /\ BitWidth \in Nat
  BY WidthFacts, LenProperties, CodecConstants
<1>2. b - 1 \in Nat /\ Pow2[b - 1] \in Nat \ {0}
  <2>1. b - 1 \in Nat
    BY <1>1
  <2> QED
    BY <2>1, PowersOfTwo
<1>3. ToUint32(plain[i]) \div Pow2[b - 1] \in Nat
  BY <1>1, <1>2, DivideWithRest
<1>4. BitOf(i, b) \in 0 .. 1
  BY <1>3 DEF BitOf
<1>5. 0 .. 1 = {0, 1}
  OBVIOUS
<1> QED
  BY <1>4, <1>5, WordFacts

LEMMA EncodeBitsInv == ASSUME CodecInv, EncodeBits PROVE CodecInv'
<1> DEFINE w == [b \in 1 .. BitWidth |-> BitOf(at, b)]
           m == at - 1
<1>1. /\ codec = "bitpack" /\ call = "encode" /\ at <= Len(plain) /\ out' = out \o w
      /\ at' = at + 1 /\ UNCHANGED <<codec, plain, ragged, call, room, packed, buffers>>
  BY DEF EncodeBits, Encoding, Emit, BitOf
<1>2. CodecShape /\ at \in Nat \ {0} /\ out \in Seq(Int32) /\ BitsOf(out, m)
  BY <1>1 DEF CodecInv, CodecShape, Holds
<1>3. plain \in Seq(Int32) /\ Len(plain) \in Nat /\ at \in 1 .. Len(plain)
  BY <1>1, <1>2, PlainFacts
<1>4. BitWidth \in Nat \ {0}
  BY <1>3, WidthFacts, CodecConstants
<1>5. w \in Seq(Int32)
  <2>1. \A b \in 1 .. BitWidth : BitOf(at, b) \in Int32
    BY <1>3, BitIsWord
  <2> QED
    BY <1>4, <2>1
<1>6. m \in Nat /\ m + 1 = at /\ at' - 1 = at
  BY <1>1, <1>2
<1>7. w = [b \in 1 .. BitWidth |-> BitOf(m + 1, b)]
  BY <1>6
<1> HIDE DEF w, m
<1>8. BitsOf(out', at)
  BY <1>1, <1>2, <1>4, <1>5, <1>6, <1>7, BitsGrow
<1>9. Holds(out', at' - 1)
  BY <1>1, <1>6, <1>8 DEF Holds, Copies
<1>10. out' \in Seq(Int32)
  BY <1>1, <1>2, <1>5, ConcatFacts
<1>11. at' \in Nat \ {0} /\ at' <= Len(plain) + 1
  BY <1>1, <1>2, <1>3
<1> QED
  BY <1>1, <1>9, <1>10, <1>11, EncodeGoesOn

LEMMA EncodeReturnsInv == ASSUME CodecInv, EncodeReturns PROVE CodecInv'
<1>1. /\ call = "encode" /\ at > Len(plain) /\ call' = "encoded"
      /\ packed' = IF codec = "bitpack"
                     THEN [n |-> Len(plain), bits |-> BitWidth, data |-> out]
                     ELSE [Nothing EXCEPT !.data = out]
      /\ UNCHANGED <<codec, plain, ragged, at, out, room, buffers>>
  BY DEF EncodeReturns
<1>2. CodecShape /\ at \in Nat \ {0} /\ out \in Seq(Int32) /\ at <= Len(plain) + 1 /\ Holds(out, at - 1)
  BY <1>1 DEF CodecInv, CodecShape
<1>3. plain \in Seq(Int32) /\ Len(plain) \in Nat /\ BitWidth \in Nat
  BY <1>2, PlainFacts, WidthFacts, CodecConstants
<1>4. at - 1 = Len(plain)
  BY <1>1, <1>2, <1>3
<1>5. packed' \in [n : Nat, bits : Nat, data : Seq(Int32)] /\ packed'.data = out
  BY <1>1, <1>2, <1>3 DEF Nothing
<1>6. CodecShape'
  BY <1>1, <1>2, <1>5 DEF CodecShape, Calling
<1>7. BitWidth' = BitWidth
  BY <1>1 DEF BitWidth
<1>8. Data' = out /\ Len(plain)' = Len(plain)
  BY <1>1, <1>5 DEF Data
<1>9. Holds(Data, Len(plain))'
  <2>1. Holds(out, Len(plain))
    BY <1>2, <1>4
  <2>2. codec \in Copies => CopyOf(Data, Len(plain))'
    BY <1>1, <1>8, <2>1 DEF Holds, CopyOf
  <2>3. codec = "delta_i32" => DeltaOf(Data, Len(plain))'
    BY <1>1, <1>8, <2>1 DEF Holds, DeltaOf
  <2>4. codec = "rle" => \E r, ends : RunsOf(Data, Len(plain), r, ends)'
    <3> SUFFICES ASSUME codec = "rle" PROVE \E r, ends : RunsOf(Data, Len(plain), r, ends)'
      OBVIOUS
    <3>1. PICK r, ends : RunsOf(out, Len(plain), r, ends)
      BY <2>1 DEF Holds
    <3>2. RunsOf(Data, Len(plain), r, ends)'
      <4> HIDE DEF Holds, CodecInv
      <4> QED
        BY <1>1, <1>8, <3>1 DEF RunsOf
    <3> QED
      BY <3>2
  <2>5. codec = "bitpack" => BitsOf(Data, Len(plain))'
    BY <1>1, <1>7, <1>8, <2>1 DEF Holds, BitsOf, BitOf
  <2> QED
    BY <1>1, <2>2, <2>3, <2>4, <2>5 DEF Holds
<1>10. PackedInv'
  BY <1>1, <1>7, <1>9 DEF PackedInv
<1>11. BuffersInv' /\ RoundTrip'
  BY <1>1 DEF CodecInv, BuffersInv, RoundTrip
<1> QED
  BY <1>1, <1>6, <1>10, <1>11 DEF CodecInv

\* The steps that leave the buffers' contents alone.
LEMMA StopsInv ==
  ASSUME CodecInv, UNCHANGED <<codec, plain, ragged, at, out, room, packed>>,
         call' \in {"refused", "noMemory"},
         buffers' = IF call' = "refused" THEN {} ELSE buffers' \cap {"encoded"}
  PROVE  CodecInv'
<1>1. CodecShape'
  BY DEF CodecInv, CodecShape, Calling
<1>2. BuffersInv'
  BY DEF BuffersInv
<1> QED
  BY <1>1, <1>2 DEF CodecInv, RoundTrip

LEMMA EncodeRefusedInv == ASSUME CodecInv, EncodeRefused PROVE CodecInv'
<1>1. /\ call = "called" /\ call' = "refused"
      /\ UNCHANGED <<codec, plain, ragged, at, out, room, packed, buffers>>
  BY DEF EncodeRefused, Stop
<1>2. buffers' = {}
  BY <1>1 DEF CodecInv, BuffersInv
<1> QED
  BY <1>1, <1>2, StopsInv

LEMMA EncodeNoMemoryInv == ASSUME CodecInv, EncodeNoMemory PROVE CodecInv'
<1>1. /\ call = "called" /\ call' = "noMemory"
      /\ UNCHANGED <<codec, plain, ragged, at, out, room, packed, buffers>>
  BY DEF EncodeNoMemory, Stop
<1>2. buffers = {}
  BY <1>1 DEF CodecInv, BuffersInv
<1> QED
  BY <1>1, <1>2, StopsInv

LEMMA DecodeNoMemoryInv == ASSUME CodecInv, DecodeNoMemory PROVE CodecInv'
<1>1. /\ call = "encoded" /\ call' = "noMemory"
      /\ UNCHANGED <<codec, plain, ragged, at, out, room, packed, buffers>>
  BY DEF DecodeNoMemory, Stop
<1>2. buffers = {"encoded"}
  BY <1>1 DEF CodecInv, BuffersInv
<1> QED
  BY <1>1, <1>2, StopsInv

LEMMA EncodeCalledInv == ASSUME CodecInv, EncodeCalled PROVE CodecInv'
<1>1. /\ call = "idle" /\ codec' \in Codec /\ plain' \in Arrays /\ ragged' \in BOOLEAN
      /\ call' = "called" /\ UNCHANGED <<at, out, room, packed, buffers>>
  BY DEF EncodeCalled
<1>2. CodecShape'
  BY <1>1 DEF CodecInv, CodecShape, Calling
<1>3. BuffersInv'
  BY <1>1 DEF CodecInv, BuffersInv
<1> QED
  BY <1>1, <1>2, <1>3 DEF CodecInv, RoundTrip

LEMMA PackedStays == ASSUME PackedInv, UNCHANGED <<codec, plain, packed>> PROVE PackedInv'
<1>1. BitWidth' = BitWidth /\ Data' = Data
  BY DEF BitWidth, Data
<1>2. codec \in Copies => CopyOf(Data, Len(plain))'
  BY <1>1 DEF PackedInv, Holds, CopyOf
<1>3. codec = "delta_i32" => DeltaOf(Data, Len(plain))'
  BY <1>1 DEF PackedInv, Holds, DeltaOf
<1>4. codec = "rle" => \E r, ends : RunsOf(Data, Len(plain), r, ends)'
  <2> SUFFICES ASSUME codec = "rle" PROVE \E r, ends : RunsOf(Data, Len(plain), r, ends)'
    OBVIOUS
  <2>1. PICK r, ends : RunsOf(Data, Len(plain), r, ends)
    BY DEF PackedInv, Holds
  <2>2. RunsOf(Data, Len(plain), r, ends)'
    <3> HIDE DEF PackedInv
    <3> QED
      BY <1>1, <2>1 DEF RunsOf
  <2> QED
    BY <2>2
<1>5. codec = "bitpack" => BitsOf(Data, Len(plain))'
  BY <1>1 DEF PackedInv, Holds, BitsOf, BitOf
<1> QED
  BY <1>1, <1>2, <1>3, <1>4, <1>5 DEF PackedInv, Holds

\* What fce_codec_decode reads, and how long it is.
LEMMA PackedFacts ==
  ASSUME CodecShape, PackedInv
  PROVE  /\ Data \in Seq(Int32) /\ Len(Data) \in Nat
         /\ codec # "rle" => Steps = Len(plain) /\ DecodedRoom = Len(plain)
         /\ codec = "rle" =>
              /\ DecodedRoom = ToInt32(Len(plain)) /\ DecodedRoom \in Int
              /\ \A r, ends : RunsOf(Data, Len(plain), r, ends) => Steps = r
<1>1. Data \in Seq(Int32) /\ Len(Data) \in Nat /\ Len(plain) \in Nat
  BY PlainFacts, LenProperties DEF CodecShape, Data
<1>2. CASE codec \in Copies
  <2>1. Len(Data) = Len(plain)
    BY <1>2 DEF PackedInv, Holds, CopyOf
  <2> QED
    BY <1>1, <1>2, <2>1 DEF Steps, DecodedRoom, Copies
<1>3. CASE codec = "delta_i32"
  <2>1. Len(Data) = Len(plain)
    BY <1>3 DEF PackedInv, Holds, DeltaOf
  <2> QED
    BY <1>1, <1>3, <2>1 DEF Steps, DecodedRoom
<1>4. CASE codec = "bitpack"
  BY <1>1, <1>4 DEF PackedInv, Steps, DecodedRoom
<1>5. CASE codec = "rle"
  <2>1. DecodedRoom = Data[1] /\ Steps = Pairs
    BY <1>5 DEF DecodedRoom, RunTotal, Steps
  <2>2. PICK r, ends : RunsOf(Data, Len(plain), r, ends)
    BY <1>5 DEF PackedInv, Holds
  <2>3. Data[1] = ToInt32(Len(plain)) /\ ToInt32(Len(plain)) \in Int32
    BY <1>1, <2>2, Conversions DEF RunsOf
  <2>4. ASSUME NEW r2, NEW ends2, RunsOf(Data, Len(plain), r2, ends2) PROVE Pairs = r2
    <3>1. r2 \in Nat /\ Len(Data) = 1 + 2 * r2
      BY <2>4 DEF RunsOf
    <3> QED
      BY <3>1 DEF Pairs
  <2> QED
    BY <1>1, <1>5, <2>1, <2>3, <2>4, WordFacts
<1> QED
  BY <1>2, <1>3, <1>4, <1>5 DEF CodecShape, Codec

LEMMA CopyOfNothing == CopyOf(<<>>, 0)
<1>1. Len(<<>>) = 0
  OBVIOUS
<1> QED
  BY <1>1 DEF CopyOf

LEMMA DecodeAllocateInv == ASSUME CodecInv, DecodeAllocate PROVE CodecInv'
<1>1. /\ call = "encoded" /\ DecodedRoom >= 0 /\ call' = "decode" /\ at' = 1
      /\ room' = DecodedRoom /\ out' = <<>>
      /\ buffers' = buffers \cup {"decoded"} /\ UNCHANGED <<codec, plain, ragged, packed>>
  BY DEF DecodeAllocate, Allocate
<1>2. CodecShape /\ PackedInv /\ Len(plain) \in Nat
  BY <1>1, PlainFacts DEF CodecInv
<1>3. DecodedRoom \in Nat /\ Steps \in Nat
  <2>1. CASE codec # "rle"
    BY <1>2, <2>1, PackedFacts
  <2>2. CASE codec = "rle"
    <3>1. PICK r, ends : RunsOf(Data, Len(plain), r, ends)
      BY <1>2, <2>2 DEF PackedInv, Holds
    <3>2. r \in Nat
      BY <3>1 DEF RunsOf
    <3>3. Steps = r /\ DecodedRoom \in Int
      BY <1>2, <2>2, <3>1, PackedFacts
    <3> QED
      BY <1>1, <3>2, <3>3
  <2> QED
    BY <2>1, <2>2
<1>4. CodecShape'
  BY <1>1, <1>2, <1>3 DEF CodecShape, Calling
<1>5. PackedInv'
  BY <1>1, <1>2, PackedStays
<1>6. (at <= Steps + 1 /\ room = DecodedRoom)'
  <2>1. Steps' = Steps /\ DecodedRoom' = DecodedRoom
    BY <1>1 DEF Steps, DecodedRoom, Pairs, RunTotal, Data
  <2> QED
    BY <1>1, <1>3, <2>1
<1>7. Restores(out', 1)
  <2>1. codec # "rle" => CopyOf(out', 1 - 1)
    BY <1>1, CopyOfNothing
  <2>2. codec = "rle" => \E r, ends : RunsOf(Data, Len(plain), r, ends) /\ CopyOf(out', ends[1 - 1])
    <3> SUFFICES ASSUME codec = "rle"
                 PROVE  \E r, ends : RunsOf(Data, Len(plain), r, ends) /\ CopyOf(out', ends[1 - 1])
      OBVIOUS
    <3>1. PICK r, ends : RunsOf(Data, Len(plain), r, ends)
      BY <1>2 DEF PackedInv, Holds
    <3>2. ends[1 - 1] = 0
      BY <3>1 DEF RunsOf
    <3> QED
      BY <1>1, <3>1, <3>2, CopyOfNothing
  <2> QED
    BY <2>1, <2>2 DEF Restores
<1>8. Restored' /\ (Len(out) <= room)'
  <2>1. Len(<<>>) = 0
    OBVIOUS
  <2>2. Data' = Data
    BY <1>1 DEF Data
  <2>3. codec # "rle" => CopyOf(out, at - 1)'
    BY <1>1, <1>7 DEF Restores, CopyOf
  <2>4. codec = "rle" => (\E r, ends : RunsOf(Data, Len(plain), r, ends) /\ CopyOf(out, ends[at - 1]))'
    <3> SUFFICES ASSUME codec = "rle"
                 PROVE (\E r, ends : RunsOf(Data, Len(plain), r, ends) /\ CopyOf(out, ends[at - 1]))'
      OBVIOUS
    <3>1. PICK r, ends : RunsOf(Data, Len(plain), r, ends) /\ CopyOf(out', ends[1 - 1])
      BY <1>7 DEF Restores
    <3>2. RunsOf(Data, Len(plain), r, ends)'
      <4> HIDE DEF CodecInv
      <4> QED
        BY <1>1, <2>2, <3>1 DEF RunsOf
    <3>3. CopyOf(out, ends[at - 1])'
      BY <1>1, <3>1 DEF CopyOf
    <3> QED
      BY <3>2, <3>3
  <2> QED
    BY <1>1, <1>3, <2>1, <2>3, <2>4 DEF Restored, Restores
<1>9. BuffersInv'
  BY <1>1 DEF CodecInv, BuffersInv
<1> QED
  BY <1>1, <1>4, <1>5, <1>6, <1>8, <1>9 DEF CodecInv, RoundTrip

LEMMA DecodeGoesOn ==
  ASSUME CodecInv, call = "decode", UNCHANGED <<codec, plain, ragged, call, room, packed, buffers>>,
         at' \in Nat \ {0}, at' <= Steps + 1, out' \in Seq(Int32), Len(out') <= room,
         Restores(out', at')
  PROVE  CodecInv'
<1>1. CodecShape'
  BY DEF CodecInv, CodecShape
<1>2. PackedInv'
  BY PackedStays DEF CodecInv
<1>3. (at <= Steps + 1 /\ room = DecodedRoom /\ Len(out) <= room)'
  <2>1. Steps' = Steps /\ DecodedRoom' = DecodedRoom
    BY DEF Steps, DecodedRoom, Pairs, RunTotal, Data
  <2> QED
    BY <2>1 DEF CodecInv
<1>4. Restored'
  <2>1. Data' = Data
    BY DEF Data
  <2>2. codec # "rle" => CopyOf(out, at - 1)'
    BY DEF Restores, CopyOf
  <2>3. codec = "rle" => (\E r, ends : RunsOf(Data, Len(plain), r, ends) /\ CopyOf(out, ends[at - 1]))'
    <3> SUFFICES ASSUME codec = "rle"
                 PROVE (\E r, ends : RunsOf(Data, Len(plain), r, ends) /\ CopyOf(out, ends[at - 1]))'
      OBVIOUS
    <3>1. PICK r, ends : RunsOf(Data, Len(plain), r, ends) /\ CopyOf(out', ends[at' - 1])
      BY DEF Restores
    <3>2. RunsOf(Data, Len(plain), r, ends)'
      <4> HIDE DEF CodecInv
      <4> QED
        BY <2>1, <3>1 DEF RunsOf
    <3>3. CopyOf(out, ends[at - 1])'
      BY <3>1 DEF CopyOf
    <3> QED
      BY <3>2, <3>3
  <2> QED
    BY <2>2, <2>3 DEF Restored, Restores
<1>5. BuffersInv' /\ RoundTrip'
  BY DEF CodecInv, BuffersInv, RoundTrip
<1> QED
  BY <1>1, <1>2, <1>3, <1>4, <1>5 DEF CodecInv

\* One more element, which is the one that was encoded.
LEMMA DecodeOneMore ==
  ASSUME CodecInv, codec # "rle", Decoding, Emit(<<plain[at]>>)
  PROVE  CodecInv'
<1>1. /\ call = "decode" /\ at <= Steps /\ out' = out \o <<plain[at]>> /\ at' = at + 1
      /\ UNCHANGED <<codec, plain, ragged, call, room, packed, buffers>>
  BY DEF Decoding, Emit
<1>2. /\ CodecShape /\ PackedInv /\ at \in Nat \ {0} /\ out \in Seq(Int32)
      /\ CopyOf(out, at - 1) /\ room = DecodedRoom
  BY <1>1 DEF CodecInv, CodecShape, Restored, Restores
<1>3. Steps = Len(plain) /\ room = Len(plain) /\ Len(plain) \in Nat
  BY <1>2, PackedFacts, PlainFacts
<1>4. plain[at] \in Int32
  BY <1>1, <1>2, <1>3, PlainFacts
<1>5. CopyOf(out', at)
  <2>1. at - 1 \in Nat /\ at - 1 + 1 = at
    BY <1>2
  <2> QED
    BY <1>1, <1>2, <1>4, <2>1, CopyGrows
<1>6. Restores(out', at')
  <2>1. at' - 1 = at
    BY <1>1, <1>2
  <2> QED
    BY <1>5, <2>1 DEF Restores
<1>7. out' \in Seq(Int32) /\ Len(out') <= room /\ at' \in Nat \ {0} /\ at' <= Steps + 1
  <2>1. Len(out') = at
    BY <1>5 DEF CopyOf
  <2>2. out' \in Seq(Int32)
    BY <1>1, <1>2, <1>4, OneMore
  <2> QED
    BY <1>1, <1>2, <1>3, <2>1, <2>2
<1> QED
  BY <1>1, <1>6, <1>7, DecodeGoesOn

\* The element a decoder reads is among those encoded.
LEMMA ReadsWithin ==
  ASSUME CodecInv, codec # "rle", Decoding
  PROVE  /\ at \in 1 .. Len(plain) /\ plain[at] \in Int32 /\ Len(plain) \in Nat
         /\ CopyOf(out, at - 1) /\ Holds(Data, Len(plain)) /\ PackedInv /\ plain \in Seq(Int32)
<1>1. /\ call = "decode" /\ at <= Steps
  BY DEF Decoding
<1>2. CodecShape /\ PackedInv /\ at \in Nat \ {0} /\ CopyOf(out, at - 1)
  BY <1>1 DEF CodecInv, CodecShape, Restored, Restores
<1>3. Steps = Len(plain) /\ Len(plain) \in Nat
  BY <1>2, PackedFacts, PlainFacts
<1> QED
  BY <1>1, <1>2, <1>3, PlainFacts DEF PackedInv

LEMMA DecodeCopyInv == ASSUME CodecInv, DecodeCopy PROVE CodecInv'
<1>1. codec \in Copies /\ codec # "rle" /\ Decoding /\ Emit(<<Data[at]>>)
  BY DEF DecodeCopy, Copies
<1>2. at \in 1 .. Len(plain) /\ CopyOf(Data, Len(plain))
  BY <1>1, ReadsWithin DEF Holds
<1>3. Data[at] = plain[at]
  BY <1>2 DEF CopyOf
<1> QED
  BY <1>1, <1>3, DecodeOneMore

LEMMA DecodeDeltaInv == ASSUME CodecInv, DecodeDelta PROVE CodecInv'
<1>1. codec = "delta_i32" /\ codec # "rle" /\ Decoding
  BY DEF DecodeDelta
<1>2. /\ at \in 1 .. Len(plain) /\ Len(plain) \in Nat /\ plain[at] \in Int32
      /\ CopyOf(out, at - 1) /\ DeltaOf(Data, Len(plain)) /\ plain \in Seq(Int32)
  BY <1>1, ReadsWithin DEF Holds
<1> DEFINE v == IF at = 1 THEN Data[1] ELSE Last(out) + Data[at]
<1>3. v = plain[at]
  <2>1. CASE at = 1
    BY <1>2, <2>1 DEF DeltaOf
  <2>2. CASE at # 1
    <3>1. Data[at] = plain[at] - plain[at - 1]
      BY <1>2, <2>2 DEF DeltaOf
    <3>2. Last(out) = plain[at - 1]
      <4>1. Len(out) = at - 1 /\ at - 1 \in 1 .. at - 1
        BY <1>2, <2>2 DEF CopyOf
      <4> QED
        BY <1>2, <4>1 DEF Last, CopyOf
    <3>3. plain[at] \in Int /\ plain[at - 1] \in Int
      <4>1. at - 1 \in 1 .. Len(plain)
        BY <1>2, <2>2
      <4>2. plain[at - 1] \in Int32
        BY <1>2, <4>1
      <4> QED
        BY <1>2, <4>2, WordFacts
    <3> QED
      BY <2>2, <3>1, <3>2, <3>3
  <2> QED
    BY <2>1, <2>2
<1>4. Emit(<<plain[at]>>)
  BY <1>2, <1>3 DEF DecodeDelta
<1> QED
  BY <1>1, <1>4, DecodeOneMore

LEMMA DecodeRunInv == ASSUME CodecInv, DecodeRun PROVE CodecInv'
<1> DEFINE times == Data[2 * at + 1]
           w == [i \in 1 .. times |-> Data[2 * at]]
<1>1. codec = "rle" /\ call = "decode" /\ at <= Steps
  BY DEF DecodeRun, Decoding
<1>2. /\ CodecShape /\ PackedInv /\ at \in Nat \ {0} /\ out \in Seq(Int32)
      /\ room = DecodedRoom /\ plain \in Seq(Int32) /\ Len(plain) \in Nat
  BY <1>1, PlainFacts DEF CodecInv, CodecShape
<1>3. PICK r, ends : RunsOf(Data, Len(plain), r, ends) /\ CopyOf(out, ends[at - 1])
  BY <1>1 DEF CodecInv, Restored, Restores
<1>4. Steps = r /\ RunTotal = ToInt32(Len(plain)) /\ DecodedRoom = RunTotal /\ RunTotal \in Int
  <2>1. DecodedRoom = RunTotal
    BY <1>1 DEF DecodedRoom
  <2> QED
    BY <1>1, <1>2, <1>3, <2>1, PackedFacts
<1>5. /\ r \in Nat /\ ends \in [0 .. r -> 0 .. Len(plain)] /\ at \in 1 .. r
      /\ ends[at - 1] < ends[at]
      /\ Data[2 * at] = plain[ends[at]] /\ times = ends[at] - ends[at - 1]
      /\ \A i \in ends[at - 1] + 1 .. ends[at] : plain[i] = plain[ends[at]]
  <2>1. r \in Nat /\ at \in 1 .. r
    BY <1>1, <1>2, <1>3, <1>4 DEF RunsOf
  <2> QED
    BY <1>3, <2>1 DEF RunsOf
<1> DEFINE from == ends[at - 1]
           to == ends[at]
<1>6. from \in Nat /\ to \in 1 .. Len(plain) /\ from < to /\ times = to - from /\ times \in Nat
  <2>1. at - 1 \in 0 .. r /\ at \in 0 .. r
    BY <1>5
  <2>2. from \in 0 .. Len(plain) /\ to \in 0 .. Len(plain)
    BY <1>5, <2>1
  <2> HIDE DEF from, to
  <2>3. from < to /\ times = to - from
    BY <1>5 DEF from, to
  <2> QED
    BY <1>2, <2>2, <2>3
<1>7. Len(out) = from
  BY <1>3 DEF CopyOf
<1>8. CASE Len(out) + times > RunTotal
  <2>1. call' = "corrupt" /\ buffers' = buffers \ {"decoded"}
        /\ UNCHANGED <<codec, plain, ragged, at, out, room, packed>>
    BY <1>8 DEF DecodeRun, Fail, Stop
  <2>2. ~Countable
    <3> SUFFICES ASSUME Len(plain) \in Int32 PROVE FALSE
      BY <1>1 DEF Countable
    <3>1. RunTotal = Len(plain)
      BY <1>2, <1>4, Conversions
    <3> HIDE DEF from, to, times
    <3> QED
      BY <1>2, <1>6, <1>7, <1>8, <3>1
  <2>3. CodecShape'
    BY <1>2, <2>1 DEF CodecShape, Calling
  <2>4. BuffersInv'
    BY <1>1, <2>1 DEF CodecInv, BuffersInv
  <2>5. RoundTrip'
    BY <2>1, <2>2 DEF RoundTrip, Countable
  <2> QED
    BY <2>1, <2>3, <2>4, <2>5 DEF CodecInv
<1>9. CASE ~(Len(out) + times > RunTotal)
  <2>1. ~(times < 0)
    BY <1>6
  <2>2. Emit(w)
    BY <1>9, <2>1 DEF DecodeRun
  <2>3. /\ out' = out \o w /\ at' = at + 1
        /\ UNCHANGED <<codec, plain, ragged, call, room, packed, buffers>>
    BY <2>2 DEF Emit
  <2>4. plain[to] \in Int32
    BY <1>2, <1>6
  <2>5. w \in Seq(Int32) /\ Len(w) = times /\ \A i \in 1 .. times : w[i] = plain[to]
    <3>1. Data[2 * at] = plain[to]
      BY <1>5
    <3>2. times \in Nat
      BY <1>6
    <3>3. w = [i \in 1 .. times |-> plain[to]]
      BY <3>1
    <3> HIDE DEF w, times, to
    <3> QED
      BY <2>4, <3>2, <3>3
  <2> HIDE DEF w, times
  <2>6. /\ out' \in Seq(Int32) /\ Len(out') = to
        /\ \A i \in 1 .. from : out'[i] = out[i]
        /\ \A i \in 1 .. times : out'[from + i] = plain[to]
    <3>1. /\ out' \in Seq(Int32) /\ Len(out') = Len(out) + Len(w)
          /\ \A i \in 1 .. Len(out) : out'[i] = out[i]
          /\ \A i \in 1 .. Len(w) : out'[Len(out) + i] = w[i]
      BY <1>2, <2>3, <2>5, ConcatFacts
    <3> HIDE DEF from, to
    <3>2. Len(out') = to
      BY <1>6, <1>7, <2>5, <3>1
    <3>3. \A i \in 1 .. from : out'[i] = out[i]
      BY <1>7, <3>1
    <3>4. \A i \in 1 .. times : out'[from + i] = plain[to]
      BY <1>7, <2>5, <3>1
    <3> QED
      BY <3>1, <3>2, <3>3, <3>4
  <2>7. CopyOf(out', to)
    <3>1. ASSUME NEW i \in 1 .. to PROVE out'[i] = plain[i]
      <4>1. CASE i <= from
        <5>1. i \in 1 .. from
          BY <1>6, <4>1
        <5> QED
          BY <1>3, <2>6, <5>1 DEF CopyOf
      <4>2. CASE i > from
        <5>1. i - from \in 1 .. times /\ from + (i - from) = i
          <6> HIDE DEF from, to
          <6> QED
            BY <1>6, <4>2
        <5>2. out'[i] = plain[to]
          BY <2>6, <5>1
        <5>3. i \in from + 1 .. to
          <6> HIDE DEF from, to
          <6> QED
            BY <1>6, <4>2
        <5> QED
          BY <1>5, <5>2, <5>3
      <4> QED
        BY <1>6, <4>1, <4>2
    <3> QED
      BY <2>6, <3>1 DEF CopyOf
  <2>8. Restores(out', at')
    <3>1. at' - 1 = at
      BY <1>2, <2>3
    <3>2. RunsOf(Data, Len(plain), r, ends) /\ CopyOf(out', ends[at' - 1])
      BY <1>3, <2>7, <3>1
    <3> QED
      BY <1>1, <3>2 DEF Restores
  <2>9. Len(out') <= room
    <3> HIDE DEF from, to
    <3> QED
      BY <1>2, <1>4, <1>6, <1>7, <1>9, <2>6
  <2>10. at' \in Nat \ {0} /\ at' <= Steps + 1
    BY <1>2, <1>4, <1>5, <2>3
  <2> QED
    BY <1>1, <2>3, <2>6, <2>8, <2>9, <2>10, DecodeGoesOn
<1> QED
  BY <1>8, <1>9

\* The sums of the bits of the e-th element, from the lowest on.
Sums(v, o, e) ==
  v = [b \in 0 .. BitWidth |->
         IF b = 0 THEN 0 ELSE v[b - 1] + o[(e - 1) * BitWidth + b] * Pow2[b - 1]]

LEMMA BitsAddUp ==
  ASSUME plain \in Seq(Int32), NEW e \in 1 .. Len(plain), NEW o,
         \A b \in 1 .. BitWidth : o[(e - 1) * BitWidth + b] = BitOf(e, b)
  PROVE  \E v : Sums(v, o, e)
<1> DEFINE W == BitWidth
           u == ToUint32(plain[e])
           v == [b \in 0 .. W |-> u % Pow2[b]]
<1>1. W \in Nat \ {0} /\ u \in Nat
  BY WidthFacts, LenProperties, CodecConstants
<1>2. \A b \in 0 .. W : b \in Nat /\ Pow2[b] \in Nat \ {0}
  <2>1. \A b \in 0 .. W : b \in Nat
    <3> HIDE DEF W
    <3> QED
      BY <1>1
  <2> HIDE DEF W
  <2> QED
    BY <2>1, PowersOfTwo
<1>3. v[0] = 0
  <2>1. 0 \in 0 .. W /\ Pow2[0] = 1 /\ u % 1 = 0
    <3> HIDE DEF u, W
    <3> QED
      BY <1>1, PowersOfTwo
  <2> HIDE DEF u, W
  <2> QED
    BY <2>1
<1>4. ASSUME NEW b \in 1 .. W
      PROVE  v[b] = v[b - 1] + o[(e - 1) * W + b] * Pow2[b - 1]
  <2>1. b \in 0 .. W /\ b - 1 \in 0 .. W /\ b - 1 \in Nat /\ b - 1 + 1 = b
    <3> HIDE DEF W
    <3> QED
      BY <1>1
  <2> DEFINE P == Pow2[b - 1]
  <2>2. P \in Nat \ {0} /\ Pow2[b] = 2 * P
    BY <1>2, <2>1, PowersOfTwo
  <2>3. o[(e - 1) * W + b] = (u \div P) % 2
    BY DEF BitOf
  <2>4. u % (2 * P) = (u % P) + ((u \div P) % 2) * P
    <3> HIDE DEF u, P
    <3> QED
      BY <1>1, <2>2, BitSplits
  <2>5. v[b] = u % Pow2[b] /\ v[b - 1] = u % P
    <3> HIDE DEF u, W
    <3> QED
      BY <2>1
  <2> HIDE DEF u, P, v, W
  <2>6. v[b] = v[b - 1] + ((u \div P) % 2) * P
    BY <2>2, <2>4, <2>5
  <2> QED
    BY <2>3, <2>6 DEF P
<1>5. v = [b \in 0 .. W |-> IF b = 0 THEN 0 ELSE v[b - 1] + o[(e - 1) * W + b] * Pow2[b - 1]]
  <2> SUFFICES ASSUME NEW b \in 0 .. W
               PROVE v[b] = IF b = 0 THEN 0 ELSE v[b - 1] + o[(e - 1) * W + b] * Pow2[b - 1]
    OBVIOUS
  <2> HIDE DEF u, v, W
  <2>1. CASE b = 0
    BY <1>3, <2>1
  <2>2. CASE b # 0
    <3>1. b \in 1 .. W
      BY <1>1, <2>2
    <3> QED
      BY <1>4, <2>2, <3>1
  <2> QED
    BY <2>1, <2>2
<1> HIDE DEF v
<1> QED
  BY <1>5 DEF Sums

LEMMA SumsFacts ==
  ASSUME BitWidth \in Nat, NEW v, NEW o, NEW e, Sums(v, o, e)
  PROVE  /\ v[0] = 0
         /\ \A b \in 1 .. BitWidth : v[b] = v[b - 1] + o[(e - 1) * BitWidth + b] * Pow2[b - 1]
<1> DEFINE t(b) == o[(e - 1) * BitWidth + b] * Pow2[b - 1]
           W == BitWidth
<1>1. v = [b \in 0 .. W |-> IF b = 0 THEN 0 ELSE v[b - 1] + t(b)]
  BY DEF Sums
<1> HIDE DEF t, W
<1>2. \A b \in 0 .. W : v[b] = IF b = 0 THEN 0 ELSE v[b - 1] + t(b)
  BY <1>1
<1>3. 0 \in 0 .. W /\ \A b \in 1 .. W : b \in 0 .. W /\ b # 0
  BY DEF W
<1>4. v[0] = 0 /\ \A b \in 1 .. W : v[b] = v[b - 1] + t(b)
  BY <1>2, <1>3
<1> QED
  BY <1>4 DEF t, W

\* The sum of its bits is the element.
LEMMA BitsAreElement ==
  ASSUME plain \in Seq(Int32), NEW e \in 1 .. Len(plain), NEW o,
         \A b \in 1 .. BitWidth : o[(e - 1) * BitWidth + b] = BitOf(e, b),
         NEW v, Sums(v, o, e)
  PROVE  ToInt32(v[BitWidth]) = plain[e]
<1> DEFINE W == BitWidth
           u == ToUint32(plain[e])
           S == {b \in Nat : b <= W => v[b] = u % Pow2[b]}
<1>1. W \in Nat \ {0} /\ u \in Nat /\ u < Pow2[W]
  BY WidthFacts, LenProperties, CodecConstants
<1>2. 0 \in S
  <2>1. 0 \in 0 .. W
    <3> HIDE DEF W
    <3> QED
      BY <1>1
  <2>2. v[0] = 0
    BY <1>1, SumsFacts
  <2>3. Pow2[0] = 1 /\ u % 1 = 0
    <3> HIDE DEF u
    <3> QED
      BY <1>1, PowersOfTwo
  <2> HIDE DEF u, W
  <2> QED
    BY <2>2, <2>3
<1>3. ASSUME NEW b \in Nat, b \in S PROVE b + 1 \in S
  <2> SUFFICES ASSUME b + 1 <= W PROVE v[b + 1] = u % Pow2[b + 1]
    OBVIOUS
  <2>1. /\ b + 1 \in 0 .. W /\ b + 1 \in 1 .. W /\ b + 1 # 0 /\ b + 1 - 1 = b
        /\ v[b] = u % Pow2[b] /\ v[b + 1 - 1] = v[b] /\ Pow2[b + 1 - 1] = Pow2[b]
    <3>1. b + 1 - 1 = b
      OBVIOUS
    <3> HIDE DEF u, W
    <3> QED
      BY <1>1, <1>3, <3>1
  <2> DEFINE P == Pow2[b]
  <2>2. P \in Nat \ {0} /\ Pow2[b + 1] = 2 * P
    BY PowersOfTwo
  <2>3. v[b + 1] = v[b + 1 - 1] + o[(e - 1) * W + (b + 1)] * Pow2[b + 1 - 1]
    BY <1>1, <2>1, SumsFacts
  <2>4. o[(e - 1) * W + (b + 1)] = (u \div P) % 2
    BY <2>1 DEF BitOf
  <2>5. u % (2 * P) = (u % P) + ((u \div P) % 2) * P
    <3> HIDE DEF u, P
    <3> QED
      BY <1>1, <2>2, BitSplits
  <2> HIDE DEF u, P, W
  <2>6. v[b + 1] = (u % P) + ((u \div P) % 2) * P
    BY <2>1, <2>3, <2>4 DEF P
  <2> QED
    BY <2>2, <2>5, <2>6
<1>4. Nat \subseteq S
  <2> HIDE DEF S
  <2> QED
    BY <1>2, <1>3, NaturalsClosed
<1>5. v[W] = u % Pow2[W]
  <2>1. W \in S /\ W <= W
    BY <1>1, <1>4
  <2> HIDE DEF u, W
  <2> QED
    BY <2>1
<1>6. u % Pow2[W] = u
  <2> DEFINE P == Pow2[W]
  <2>1. P \in Nat \ {0}
    BY <1>1, PowersOfTwo
  <2>2. u < P
    BY <1>1
  <2> HIDE DEF u, P
  <2>3. u % P = u
    <3>1. 0 \in Nat /\ u \in 0 .. P - 1 /\ u = P * 0 + u
      BY <1>1, <2>1, <2>2
    <3> QED
      BY <1>1, <2>1, <3>1, RestIsUnique
  <2> QED
    BY <2>3 DEF P
<1>7. plain[e] \in Int32
  BY LenProperties
<1> QED
  BY <1>5, <1>6, <1>7, Conversions

LEMMA DecodeBitsInv == ASSUME CodecInv, DecodeBits PROVE CodecInv'
<1>1. codec = "bitpack" /\ codec # "rle" /\ Decoding
  BY DEF DecodeBits
<1>2. /\ at \in 1 .. Len(plain) /\ plain \in Seq(Int32) /\ Len(plain) \in Nat
      /\ BitsOf(Data, Len(plain)) /\ packed.bits = BitWidth
  BY <1>1, ReadsWithin DEF PackedInv, Holds
<1> DEFINE v == CHOOSE v : v = [b \in 0 .. BitWidth |->
                  IF b = 0 THEN 0 ELSE v[b - 1] + Data[(at - 1) * BitWidth + b] * Pow2[b - 1]]
<1>3. Emit(<<ToInt32(v[BitWidth])>>)
  BY <1>2 DEF DecodeBits
<1>4. \A b \in 1 .. BitWidth : Data[(at - 1) * BitWidth + b] = BitOf(at, b)
  BY <1>2 DEF BitsOf
<1>5. Sums(v, Data, at)
  BY <1>2, <1>4, BitsAddUp DEF Sums
<1> HIDE DEF v
<1>6. ToInt32(v[BitWidth]) = plain[at]
  BY <1>2, <1>4, <1>5, BitsAreElement
<1>7. Emit(<<plain[at]>>)
  BY <1>3, <1>6
<1> QED
  BY <1>1, <1>7, DecodeOneMore

LEMMA CopyIsWhole ==
  ASSUME NEW o \in Seq(Int32), plain \in Seq(Int32), CopyOf(o, Len(plain))
  PROVE  o = plain
BY LenProperties, SeqEqual DEF CopyOf

LEMMA DecodeReturnsInv == ASSUME CodecInv, DecodeReturns PROVE CodecInv'
<1>1. /\ call = "decode" /\ at > Steps
      /\ UNCHANGED <<codec, plain, ragged, at, out, room, packed>>
  BY DEF DecodeReturns, Fail, Stop
<1>2. /\ CodecShape /\ PackedInv /\ at \in Nat \ {0} /\ out \in Seq(Int32)
      /\ room = DecodedRoom /\ plain \in Seq(Int32) /\ Len(plain) \in Nat /\ at <= Steps + 1
  BY <1>1, PlainFacts DEF CodecInv, CodecShape
<1>3. CopyOf(out, Len(plain))
  <2>1. CASE codec # "rle"
    <3>1. CopyOf(out, at - 1)
      BY <1>1, <2>1 DEF CodecInv, Restored, Restores
    <3>2. at - 1 = Len(plain)
      BY <1>1, <1>2, <2>1, PackedFacts
    <3> QED
      BY <3>1, <3>2
  <2>2. CASE codec = "rle"
    <3>1. PICK r, ends : RunsOf(Data, Len(plain), r, ends) /\ CopyOf(out, ends[at - 1])
      BY <1>1, <2>2 DEF CodecInv, Restored, Restores
    <3>2. Steps = r /\ r \in Nat /\ ends[r] = Len(plain)
      BY <1>2, <2>2, <3>1, PackedFacts DEF RunsOf
    <3>3. at - 1 = r
      BY <1>1, <1>2, <3>2
    <3> QED
      BY <3>1, <3>2, <3>3
  <2> QED
    BY <2>1, <2>2
<1>4. out = plain
  BY <1>2, <1>3, CopyIsWhole
<1>5. CASE Len(out) # room
  <2>1. call' = "corrupt" /\ buffers' = buffers \ {"decoded"}
    BY <1>5 DEF DecodeReturns, Fail, Stop
  <2>2. ~Countable
    <3> SUFFICES ASSUME Countable PROVE room = Len(plain)
      BY <1>4, <1>5
    <3>1. CASE codec # "rle"
      BY <1>2, <3>1, PackedFacts
    <3>2. CASE codec = "rle"
      BY <1>2, <3>2, PackedFacts, Conversions DEF Countable
    <3> QED
      BY <3>1, <3>2
  <2>3. CodecShape'
    BY <1>1, <1>2, <2>1 DEF CodecShape, Calling
  <2>4. BuffersInv'
    BY <1>1, <2>1 DEF CodecInv, BuffersInv
  <2>5. RoundTrip'
    BY <1>1, <2>1, <2>2 DEF RoundTrip, Countable
  <2> QED
    BY <1>1, <2>1, <2>3, <2>4, <2>5 DEF CodecInv
<1>6. CASE Len(out) = room
  <2>1. call' = "decoded" /\ UNCHANGED buffers
    BY <1>6 DEF DecodeReturns, Stop
  <2>2. CodecShape'
    BY <1>1, <1>2, <2>1 DEF CodecShape, Calling
  <2>3. BuffersInv'
    BY <1>1, <2>1 DEF CodecInv, BuffersInv
  <2>4. RoundTrip'
    BY <1>1, <1>4, <2>1 DEF RoundTrip
  <2> QED
    BY <1>1, <2>1, <2>2, <2>3, <2>4 DEF CodecInv
<1> QED
  BY <1>5, <1>6

LEMMA CodecStays == ASSUME CodecInv, UNCHANGED codecVars PROVE CodecInv'
<1>1. UNCHANGED <<codec, plain, ragged, call, at, out, room, packed, buffers>>
  BY DEF codecVars
<1>2. CASE call = "encode"
  <2>1. at \in Nat \ {0} /\ at <= Len(plain) + 1 /\ out \in Seq(Int32) /\ Holds(out, at - 1)
    BY <1>2 DEF CodecInv, CodecShape
  <2> QED
    BY <1>1, <1>2, <2>1, EncodeGoesOn
<1>3. CASE call = "decode"
  <2>1. at \in Nat \ {0} /\ at <= Steps + 1 /\ out \in Seq(Int32) /\ Len(out) <= room /\ Restores(out, at)
    BY <1>3 DEF CodecInv, CodecShape, Restored
  <2> QED
    BY <1>1, <1>3, <2>1, DecodeGoesOn
<1>4. CASE call \notin {"encode", "decode"}
  <2>1. CodecShape' /\ BuffersInv'
    BY <1>1 DEF CodecInv, CodecShape, BuffersInv
  <2>2. (call = "encoded" => PackedInv)'
    BY <1>1, PackedStays DEF CodecInv
  <2>3. RoundTrip'
    BY <1>1 DEF CodecInv, RoundTrip, Countable
  <2> QED
    BY <1>1, <1>4, <2>1, <2>2, <2>3 DEF CodecInv
<1> QED
  BY <1>2, <1>3, <1>4

LEMMA CodecInvariant == CodecSpec => []CodecInv
<1>1. CodecInit => CodecInv
  <2> SUFFICES ASSUME CodecInit PROVE CodecInv
    OBVIOUS
  <2>1. CodecShape
    <3>1. <<>> \in Seq(Int32)
      OBVIOUS
    <3>2. packed \in [n : Nat, bits : Nat, data : Seq(Int32)]
      BY <3>1 DEF CodecInit, Nothing
    <3>3. codec \in Codec /\ call \in Calling
      BY DEF CodecInit, Codec, Copies, Calling
    <3>4. plain \in Arrays \cup {<<>>} /\ ragged \in BOOLEAN
      BY DEF CodecInit
    <3>5. at \in Nat \ {0} /\ room \in Nat /\ out \in Seq(Int32)
      BY <3>1 DEF CodecInit
    <3> QED
      BY <3>2, <3>3, <3>4, <3>5 DEF CodecShape
  <2> QED
    BY <2>1 DEF CodecInit, CodecInv, BuffersInv, RoundTrip
<1>2. CodecInv /\ [CodecNext]_codecVars => CodecInv'
  <2> SUFFICES ASSUME CodecInv, [CodecNext]_codecVars PROVE CodecInv'
    OBVIOUS
  <2>1. CASE EncodeCalled
    BY <2>1, EncodeCalledInv
  <2>2. CASE EncodeRefused
    BY <2>2, EncodeRefusedInv
  <2>3. CASE EncodeNoMemory
    BY <2>3, EncodeNoMemoryInv
  <2>4. CASE EncodeAllocate
    BY <2>4, EncodeAllocateInv
  <2>5. CASE EncodeCopy
    BY <2>5, EncodeCopyInv
  <2>6. CASE EncodeDelta
    BY <2>6, EncodeDeltaInv
  <2>7. CASE EncodeRun
    BY <2>7, EncodeRunInv
  <2>8. CASE EncodeBits
    BY <2>8, EncodeBitsInv
  <2>9. CASE EncodeReturns
    BY <2>9, EncodeReturnsInv
  <2>10. CASE DecodeNoMemory
    BY <2>10, DecodeNoMemoryInv
  <2>11. CASE DecodeAllocate
    BY <2>11, DecodeAllocateInv
  <2>12. CASE DecodeCopy
    BY <2>12, DecodeCopyInv
  <2>13. CASE DecodeDelta
    BY <2>13, DecodeDeltaInv
  <2>14. CASE DecodeRun
    BY <2>14, DecodeRunInv
  <2>15. CASE DecodeBits
    BY <2>15, DecodeBitsInv
  <2>16. CASE DecodeReturns
    BY <2>16, DecodeReturnsInv
  <2>17. CASE UNCHANGED codecVars
    BY <2>17, CodecStays
  <2> QED
    BY <2>1, <2>2, <2>3, <2>4, <2>5, <2>6, <2>7, <2>8, <2>9, <2>10, <2>11, <2>12, <2>13,
       <2>14, <2>15, <2>16, <2>17 DEF CodecNext
<1> QED
  BY <1>1, <1>2, PTL DEF CodecSpec

\* The variables of the two calls hold values of their types.
THEOREM CodecTypes == CodecSpec => []CodecTypeOK
<1>1. CodecInv => CodecTypeOK
  <2> SUFFICES ASSUME CodecInv PROVE CodecTypeOK
    OBVIOUS
  <2>1. ToSet(out) \subseteq Int32
    BY LenProperties DEF CodecInv, CodecShape, ToSet
  <2>2. buffers \subseteq {"encoded", "decoded"}
    BY DEF CodecInv, CodecShape, BuffersInv, Calling
  <2> QED
    BY <2>1, <2>2 DEF CodecInv, CodecShape, CodecTypeOK, Calling
<1> QED
  BY <1>1, CodecInvariant, PTL

\* For every word width and every array: decoding gives back what was encoded,
\* what encode accepts is found corrupt only if its length does not fit the
\* count in front of the runs, and a call that fails has given back its buffer.
THEOREM CodecsRoundTrip == CodecSpec => []CodecCallsExact
<1>1. CodecInv => CodecCallsExact
  <2> SUFFICES ASSUME CodecInv PROVE CodecCallsExact
    OBVIOUS
  <2>1. FailsClean
    BY DEF CodecInv, BuffersInv, FailsClean
  <2> QED
    BY <2>1 DEF CodecInv, CodecCallsExact
<1> QED
  BY <1>1, CodecInvariant, PTL

\* What has been written of an encoding fits what was allocated for it.
LEMMA EncodedWithin == ASSUME CodecInv, call = "encode" PROVE Len(out) <= room
<1> DEFINE m == at - 1
<1>1. /\ CodecShape /\ at \in Nat \ {0} /\ at <= Len(plain) + 1 /\ Holds(out, m)
      /\ room = EncodedRoom /\ Len(plain) \in Nat
  BY PlainFacts DEF CodecInv, CodecShape
<1>2. m \in 0 .. Len(plain)
  BY <1>1
<1> HIDE DEF m
<1>3. CASE codec \in Copies \cup {"delta_i32"}
  <2>1. Len(out) = m
    BY <1>1, <1>3 DEF Holds, CopyOf, DeltaOf
  <2>2. room = Len(plain)
    BY <1>1, <1>3 DEF EncodedRoom, Copies
  <2> QED
    BY <1>2, <2>1, <2>2
<1>4. CASE codec = "rle"
  <2>1. PICK r, ends : RunsOf(out, m, r, ends)
    BY <1>1, <1>4 DEF Holds
  <2>2. r \in Nat /\ Len(out) = 1 + 2 * r /\ r <= m
    <3>1. r \in Nat /\ Len(out) = 1 + 2 * r /\ ends[r] = m /\ \A k \in 1 .. r : k <= ends[k]
      BY <2>1 DEF RunsOf
    <3>2. CASE r = 0
      BY <1>2, <3>1, <3>2
    <3>3. CASE r # 0
      BY <3>1, <3>3
    <3> QED
      BY <3>1, <3>2, <3>3
  <2>3. room = 2 + 2 * Len(plain)
    BY <1>1, <1>4 DEF EncodedRoom
  <2> QED
    BY <1>1, <1>2, <2>2, <2>3
<1>5. CASE codec = "bitpack"
  <2> DEFINE W == BitWidth
             n == Len(plain)
  <2>1. Len(out) = m * W /\ n * W <= room
    BY <1>1, <1>5, RoomFacts DEF Holds, BitsOf
  <2>2. W \in Nat /\ n \in Nat
    BY <1>1, PlainFacts, WidthFacts, CodecConstants
  <2>3. m * W <= n * W
    <3> HIDE DEF W, n
    <3>1. PICK k \in Nat : n = m + k
      <4>1. m \in 0 .. n
        BY <1>2 DEF n
      <4>2. n - m \in Nat /\ n = m + (n - m)
        BY <2>2, <4>1
      <4> QED
        BY <4>2
    <3>2. n * W = m * W + k * W /\ m \in Nat
      BY <1>2, <2>2, <3>1
    <3>3. k * W \in Nat /\ m * W \in Nat
      BY <2>2, <3>1, <3>2
    <3> QED
      BY <3>2, <3>3
  <2>4. room \in Nat
    BY <1>1 DEF CodecShape
  <2>5. m * W \in Nat /\ n * W \in Nat
    <3> HIDE DEF W, n
    <3> QED
      BY <1>2, <2>2
  <2> HIDE DEF W, n
  <2> QED
    BY <2>1, <2>3, <2>4, <2>5
<1> QED
  BY <1>1, <1>3, <1>4, <1>5 DEF CodecShape, Codec

\* For every word width and every array, neither call writes past the end of
\* its buffer.
THEOREM CodecsWithin == CodecSpec => []WithinBuffer
<1>1. CodecInv /\ CodecTypeOK => WithinBuffer
  BY EncodedWithin DEF CodecInv, WithinBuffer
<1> QED
  BY <1>1, CodecInvariant, CodecTypes, PTL

-----------------------------------------------------------------------------
(* Schema.                                                                 *)

Stages == {"idle", "described", "not planned", "refused", "building", "frozen", "read", "not read"}

\* The schema in hand is always the one asked for, and a manifest that can be read
\* is the one made from it.
SchemaInv ==
  /\ stage \in Stages /\ FceSchema(schema) /\ schema = built
  /\ stage \in {"building", "frozen"} => ValidSchema(schema)
  /\ stage = "frozen" => manifest = make_manifest(schema)
  /\ stage # "not planned"
  /\ stage = "not read" => schema.schema_version # 1 \/ schema.algorithm_version # 1
  /\ wish # Unplanned => stage = "described" /\ wish \in Wishes /\ schema = Planned(wish)

LEMMA DefaultSchema ==
  /\ FceSchema(fce_schema_default)
  /\ fce_schema_default.lookup = "exact" /\ fce_schema_default.value_kind = "var"
  /\ fce_schema_default.key_codec = "none" /\ fce_schema_default.value_codec = "none"
BY SchemaConstants DEF FceSchema, fce_schema_default, SchemaField, Carried, Booleans

\* The bits above the user flags are the booleans, and neither takes a bit of the other.
LEMMA FlagsApart ==
  ASSUME NEW U \in Nat \ {0}, NEW u \in 0 .. U - 1,
         NEW a \in {0, 1}, NEW b \in {0, 1}, NEW c \in {0, 1}, NEW d \in {0, 1},
         NEW m \in Nat, m = u + U * 1 * a + U * 2 * b + U * 4 * c + U * 8 * d
  PROVE  /\ m % U = u
         /\ (m \div U) % 2 = a /\ (m \div (U * 2)) % 2 = b
         /\ (m \div (U * 4)) % 2 = c /\ (m \div (U * 8)) % 2 = d
OBVIOUS

\* A schema comes back from its manifest as it was.
LEMMA ManifestReadsBack ==
  ASSUME NEW s, FceSchema(s)
  PROVE  schema_from_manifest(make_manifest(s)) = s
<1> DEFINE bit(b) == IF s[b] THEN 1 ELSE 0
           m == make_manifest(s)
           meta == m.backend_meta1
           back == schema_from_manifest(m)
<1>1. /\ UserFlags \in Nat \ {0} /\ s.user_flags \in 0 .. UserFlags - 1
      /\ \A b \in Booleans : s[b] \in BOOLEAN
      /\ s = [f \in SchemaField |-> s[f]]
  BY SchemaConstants DEF FceSchema
<1>2. /\ MetaBit("exact_key_check") = UserFlags * 1
      /\ MetaBit("mmap_read") = UserFlags * 2
      /\ MetaBit("read_only_after_freeze") = UserFlags * 4
      /\ MetaBit("allow_duplicate_put") = UserFlags * 8
  BY DEF MetaBit
<1>3. meta = s.user_flags + UserFlags * 1 * bit("exact_key_check") + UserFlags * 2 * bit("mmap_read")
               + UserFlags * 4 * bit("read_only_after_freeze")
               + UserFlags * 8 * bit("allow_duplicate_put")
  <2>1. meta = s.user_flags + MetaFlag(s, "exact_key_check") + MetaFlag(s, "mmap_read")
                 + MetaFlag(s, "read_only_after_freeze") + MetaFlag(s, "allow_duplicate_put")
    BY DEF make_manifest
  <2>2. /\ MetaFlag(s, "exact_key_check") = UserFlags * 1 * bit("exact_key_check")
        /\ MetaFlag(s, "mmap_read") = UserFlags * 2 * bit("mmap_read")
        /\ MetaFlag(s, "read_only_after_freeze") = UserFlags * 4 * bit("read_only_after_freeze")
        /\ MetaFlag(s, "allow_duplicate_put") = UserFlags * 8 * bit("allow_duplicate_put")
    BY <1>1, <1>2 DEF MetaFlag
  <2> HIDE DEF m, bit
  <2> QED
    BY <2>1, <2>2
<1>4. \A b \in Booleans : bit(b) \in {0, 1} /\ (bit(b) = 1 <=> s[b])
  BY <1>1
<1> HIDE DEF bit, m
<1>5. meta \in Nat
  <2>1. {bit("exact_key_check"), bit("mmap_read"), bit("read_only_after_freeze"),
         bit("allow_duplicate_put")} \subseteq {0, 1}
    BY <1>4 DEF Booleans
  <2> QED
    BY <1>1, <1>3, <2>1
<1>6. /\ meta % UserFlags = s.user_flags
      /\ (meta \div UserFlags) % 2 = bit("exact_key_check")
      /\ (meta \div (UserFlags * 2)) % 2 = bit("mmap_read")
      /\ (meta \div (UserFlags * 4)) % 2 = bit("read_only_after_freeze")
      /\ (meta \div (UserFlags * 8)) % 2 = bit("allow_duplicate_put")
  <2>1. bit("exact_key_check") \in {0, 1} /\ bit("mmap_read") \in {0, 1}
        /\ bit("read_only_after_freeze") \in {0, 1} /\ bit("allow_duplicate_put") \in {0, 1}
    BY <1>4 DEF Booleans
  <2> HIDE DEF meta
  <2> QED
    BY <1>1, <1>3, <1>5, <2>1, FlagsApart
<1>7. UserFlags * 1 = UserFlags
  BY <1>1
<1>8. \A b \in Booleans : (meta \div MetaBit(b)) % 2 = bit(b)
  BY <1>2, <1>6, <1>7 DEF Booleans
<1>9. ASSUME NEW f \in SchemaField PROVE back[f] = s[f]
  <2>1. CASE f \in Carried
    <3>1. f \notin Booleans /\ f # "user_flags"
      BY <2>1 DEF Booleans, Carried
    <3>2. back[f] = m.fields[f]
      BY <2>1, <3>1 DEF schema_from_manifest, SchemaField
    <3> QED
      BY <2>1, <3>2 DEF m, make_manifest
  <2>2. CASE f \in Booleans
    <3>1. f \notin Carried /\ f # "user_flags"
      BY <2>2 DEF Booleans, Carried
    <3>2. back[f] = ((meta \div MetaBit(f)) % 2 = 1)
      BY <2>2, <3>1 DEF schema_from_manifest, SchemaField
    <3> QED
      BY <1>1, <1>4, <1>8, <2>2, <3>2
  <2>3. CASE f = "user_flags"
    <3>1. f \notin Carried /\ f \notin Booleans
      BY <2>3 DEF Booleans, Carried
    <3>2. back[f] = meta % UserFlags
      BY <2>3, <3>1 DEF schema_from_manifest, SchemaField
    <3> QED
      BY <1>6, <2>3, <3>2
  <2> QED
    BY <2>1, <2>2, <2>3 DEF SchemaField
<1>10. \E g : back = [f \in SchemaField |-> g[f]]
  <2> DEFINE g == [f \in SchemaField |->
                     CASE f \in Carried  -> m.fields[f]
                       [] f \in Booleans -> (meta \div MetaBit(f)) % 2 = 1
                       [] f = "user_flags" -> meta % UserFlags]
  <2>1. back = g
    BY Zenon DEF schema_from_manifest
  <2>2. \E h : g = h
    OBVIOUS
  <2> QED
    BY <2>1, Zenon
<1> QED
  <2> HIDE DEF back
  <2>1. back = s
    BY <1>1, <1>9, <1>10
  <2> QED
    BY <2>1 DEF back, m

\* The planner's own schema is accepted.
LEMMA PlannedIsValid ==
  ASSUME NEW w \in FcePlannerInput
  PROVE  FceSchema(Planned(w)) /\ ValidSchema(Planned(w))
<1> DEFINE p == Planned(w)
<1>1. /\ w.lookup \in LookupKind \cup {"unset"} /\ w.key_kind \in KeyKind \cup {"unset"}
  BY DEF FcePlannerInput
<1>2. PlannedBackend(w) \in BackendKind
  BY DEF PlannedBackend, BackendKind
<1>3. PlannedBackend(w) = "direct" => w.key_kind = "u64"
  BY DEF PlannedBackend, Dense
<1>4. p = [f \in SchemaField |-> p[f]]
  <2> DEFINE b == PlannedBackend(w)
             l == CASE b = "radix" -> "prefix" [] w.lookup = "unset" -> "exact" [] OTHER -> w.lookup
             k == IF w.key_kind = "unset" THEN "bytes" ELSE w.key_kind
             size == CASE b = "direct" -> 8
                       [] b \in {"mph", "sorted"} /\ w.key_kind = "u128" -> 16
                       [] OTHER -> 0
  <2>1. p = [fce_schema_default EXCEPT !.backend = b, !.lookup = l, !.key_kind = k,
                                       !.fixed_key_size = size, !.allow_duplicate_put = b = "log"]
    BY DEF Planned
  <2> HIDE DEF p, b, l, k, size
  <2> QED
    BY <2>1, DefaultSchema DEF FceSchema
<1>5. /\ p.backend = PlannedBackend(w)
      /\ p.lookup = (CASE PlannedBackend(w) = "radix" -> "prefix"
                      [] w.lookup = "unset" -> "exact"
                      [] OTHER -> w.lookup)
      /\ p.key_kind = IF w.key_kind = "unset" THEN "bytes" ELSE w.key_kind
      /\ p.fixed_key_size = (CASE PlannedBackend(w) = "direct" -> 8
                              [] PlannedBackend(w) \in {"mph", "sorted"} /\ w.key_kind = "u128" -> 16
                              [] OTHER -> 0)
      /\ p.allow_duplicate_put = (PlannedBackend(w) = "log")
      /\ \A f \in SchemaField \ {"backend", "lookup", "key_kind", "fixed_key_size",
                                 "allow_duplicate_put"} : p[f] = fce_schema_default[f]
  BY DefaultSchema DEF Planned, FceSchema, SchemaField, Carried, Booleans
<1> HIDE DEF p
<1>6. /\ p.value_kind = "var" /\ p.key_codec = "none" /\ p.value_codec = "none"
      /\ p.user_flags = fce_schema_default.user_flags
      /\ \A b \in Booleans \ {"allow_duplicate_put"} : p[b] = fce_schema_default[b]
  BY <1>5, DefaultSchema DEF SchemaField, Carried, Booleans
<1>7. FceSchema(p)
  BY <1>4, <1>5, <1>6, DefaultSchema DEF FceSchema
<1>8. p.lookup \in LookupKind /\ p.key_kind \in KeyKind
  BY <1>1, <1>5 DEF LookupKind, KeyKind
<1>9. /\ p.key_kind = "u64" => p.fixed_key_size \in {0, 8}
      /\ p.key_kind = "u128" => p.fixed_key_size \in {0, 16}
      /\ p.backend = "direct" => p.key_kind = "u64"
  BY <1>3, <1>5
<1>10. ValidSchema(p)
  BY <1>2, <1>5, <1>6, <1>8, <1>9 DEF ValidSchema, ValueKind, CodecKind, PassThrough
<1> QED
  BY <1>7, <1>10 DEF p

LEMMA SchemaInitInv == SchemaInit => SchemaInv
BY DefaultSchema DEF SchemaInit, SchemaInv, Stages

LEMMA PlanInv == ASSUME SchemaInv, NEW w \in Wishes, Plan(w) PROVE SchemaInv'
<1>1. /\ wish' = w /\ schema' = Planned(w) /\ built' = schema'
      /\ stage' = IF ValidSchema(schema') THEN "described" ELSE "not planned"
  BY DEF Plan
<1>2. FceSchema(Planned(w)) /\ ValidSchema(Planned(w))
  BY SchemaConstants, PlannedIsValid
<1>3. stage' = "described"
  BY <1>1, <1>2
<1> QED
  BY <1>1, <1>2, <1>3 DEF SchemaInv, Stages

LEMMA DescribeInv == ASSUME SchemaInv, NEW s \in Schemas, Describe(s) PROVE SchemaInv'
<1>1. schema' = s /\ built' = s /\ stage' = "described" /\ UNCHANGED <<wish, manifest>>
  BY DEF Describe
<1>2. stage = "idle" /\ FceSchema(s)
  BY SchemaConstants DEF Describe
<1> QED
  BY <1>1, <1>2 DEF SchemaInv, Stages

LEMMA ReopenInv == ASSUME SchemaInv, NEW expected \in {{}, {built}}, ReopenCache(expected) PROVE SchemaInv'
<1>1. stage = "frozen" /\ FceSchema(schema) /\ schema = built /\ ValidSchema(schema)
      /\ manifest = make_manifest(schema)
  BY DEF ReopenCache, SchemaInv
<1>2. schema_from_manifest(manifest) = schema /\ manifest.schema_hash = schema
  <2>1. make_manifest(schema).schema_hash = schema
    BY DEF make_manifest
  <2> QED
    BY <1>1, <2>1, ManifestReadsBack
<1>3. UNCHANGED <<wish, built, manifest>> /\ schema' = schema
      /\ IF schema.schema_version = 1 /\ schema.algorithm_version = 1
           THEN stage' = "read" ELSE stage' = "not read"
  BY <1>1, <1>2 DEF ReopenCache
<1> QED
  BY <1>1, <1>3 DEF SchemaInv, Stages

LEMMA CompactToInv ==
  ASSUME SchemaInv, NEW backend, CompactTo(backend)
  PROVE  SchemaInv'
<1>1. /\ stage = "read" /\ stage' = "described" /\ schema = built /\ FceSchema(schema)
      /\ schema' = [schema EXCEPT !.backend = backend]
      /\ built' = [built EXCEPT !.backend = backend]
      /\ UNCHANGED <<wish, manifest>>
  BY DEF CompactTo, SchemaInv
<1>2. FceSchema(schema')
  <2>1. "backend" \notin Booleans /\ "backend" # "user_flags"
        /\ Booleans \subseteq SchemaField /\ "user_flags" \in SchemaField
    BY DEF Booleans, SchemaField
  <2> QED
    BY <1>1, <2>1 DEF FceSchema
<1> QED
  BY <1>1, <1>2 DEF SchemaInv, Stages

LEMMA SchemaInvariant == SchemaSpec => []SchemaInv
<1>1. ASSUME SchemaInv, [SchemaNext]_schemaVars PROVE SchemaInv'
  <2>1. CASE UNCHANGED schemaVars
    BY <1>1, <2>1 DEF schemaVars, SchemaInv
  <2>2. CASE OpenBuilder
    BY <1>1, <2>2 DEF OpenBuilder, SchemaInv, Stages
  <2>3. CASE FreezeManifest
    BY <1>1, <2>3 DEF FreezeManifest, SchemaInv, Stages
  <2> QED
    BY <1>1, <2>1, <2>2, <2>3, PlanInv, DescribeInv, ReopenInv, CompactToInv DEF SchemaNext
<1> QED
  BY <1>1, SchemaInitInv, PTL DEF SchemaSpec

\* Schemas keep their fields, and a builder has one that validate_schema accepts.
THEOREM SchemaTypes == SchemaSpec => []SchemaTypeOK
<1>1. ASSUME NEW s, FceSchema(s) PROVE DOMAIN s = SchemaField
  BY <1>1 DEF FceSchema
<1>2. SchemaInv => SchemaTypeOK
  BY <1>1 DEF SchemaInv, SchemaTypeOK, Stages
<1> QED
  BY <1>2, SchemaInvariant, PTL

\* What the application asked for comes back from manifests and compactions, and
\* what a builder was opened for can be read again: for any schemas and any width
\* of the user flags (make_manifest, schema_from_manifest, read_manifest, fce_compact).
THEOREM SchemasPersist == SchemaSpec => []SchemaPersists
<1>1. SchemaInv /\ SchemaTypeOK => SchemaPersists
  BY DEF SchemaInv, SchemaPersists, SchemaSurvives, FrozenOpens
<1> QED
  BY <1>1, SchemaInvariant, SchemaTypes, PTL

\* fce_schema_plan returns a schema that validate_schema accepts, and a direct table
\* only for few keys per record, or where the successor of the greatest key wraps.
THEOREM PlansAreSound == SchemaSpec => []PlannerSound
<1>1. ASSUME NEW w \in FcePlannerInput, Dense(w)
      PROVE  w.dense_u64_max_key < 4 * w.estimated_record_count \/ w.dense_u64_max_key = Counts - 1
  <2>1. /\ Counts \in Nat \ {0} /\ w.dense_u64_max_key \in 0 .. Counts - 1
        /\ w.estimated_record_count \in 0 .. Counts - 1
    BY SchemaConstants DEF FcePlannerInput
  <2>2. (w.dense_u64_max_key + 1) % Counts <= (4 * w.estimated_record_count) % Counts
    BY <1>1 DEF Dense, WrapCount
  <2>3. w.dense_u64_max_key + 1 < Counts => (w.dense_u64_max_key + 1) % Counts = w.dense_u64_max_key + 1
    BY <2>1
  <2>4. (4 * w.estimated_record_count) % Counts <= 4 * w.estimated_record_count
    BY <2>1
  <2> QED
    BY <2>1, <2>2, <2>3, <2>4
<1>2. ASSUME SchemaInv, wish # Unplanned, schema.backend = "direct" PROVE Dense(wish)
  <2>1. schema = Planned(wish) /\ FceSchema(fce_schema_default)
    BY <1>2, DefaultSchema DEF SchemaInv
  <2>2. schema.backend = PlannedBackend(wish)
    BY <2>1 DEF Planned, FceSchema, SchemaField, Carried
  <2> QED
    BY <1>2, <2>2 DEF PlannedBackend
<1>3. SchemaInv => PlannerSound
  BY <1>1, <1>2, SchemaConstants DEF SchemaInv, PlannerSound
<1> QED
  BY <1>3, SchemaInvariant, PTL

-----------------------------------------------------------------------------
(* Builder.                                                                *)

Freezing == {"direct", "fill", "mph", "place", "frozen"}

BuildTypeInv ==
  /\ config \in Config
  /\ phase \in {"closed", "put"} \cup Freezing
  /\ records \in Seq(BuilderKey) /\ cap \in Nat /\ Len(records) <= cap
  /\ dedup \subseteq DOMAIN records
  /\ slotCount \in 0 .. Words - 1 /\ seed \in 1 .. MaxSeed

\* Where a freeze is, and what it works on.
FreezeInv ==
  /\ phase \in Freezing => dedup = Deduped
  /\ phase \in {"closed", "put", "direct", "fill", "mph"} => slots = NoTable
  /\ phase \in {"direct", "fill"} => config.backend = "direct"
  /\ phase \in {"mph", "place"} => config.backend = "mph"

\* The slots allocated for a direct table: their bytes do not wrap around, and
\* every key has one.
DirectRoom ==
  /\ slotCount * SlotSize < Words
  /\ \A o \in dedup : KeyOf(o) \in 0 .. slotCount - 1

DirectTable == [k \in {KeyOf(o) : o \in dedup} |-> CHOOSE o \in dedup : KeyOf(o) = k]

\* Where a hash table has the record o, once its bucket has a seed.
SeedOf(o) == seeds[BucketOf(KeyOf(o))]
Home(o) == SlotFor(o, SeedOf(o))

MphTable ==
  /\ seeds \in [0 .. Count - 1 -> Nat]
  /\ \A s \in DOMAIN slots : \E o \in dedup : slots[s] = o /\ SeedOf(o) # 0 /\ s = Home(o)
  /\ \A o \in dedup : SeedOf(o) # 0 => Home(o) \in DOMAIN slots /\ slots[Home(o)] = o

TableInv ==
  /\ phase = "fill" => DirectRoom
  /\ phase = "place" => MphTable
  /\ phase = "frozen" =>
       IF config.backend = "direct" THEN DirectRoom /\ slots = DirectTable
       ELSE MphTable /\ \A o \in dedup : SeedOf(o) # 0

BuildInv == BuildTypeInv /\ FreezeInv /\ TableInv

-----------------------------------------------------------------------------
(* The records of a freeze. *)

LEMMA RecordsFinite ==
  ASSUME records \in Seq(BuilderKey)
  PROVE  /\ Len(records) \in Nat /\ DOMAIN records = 1 .. Len(records)
         /\ \A S \in SUBSET DOMAIN records : IsFiniteSet(S) /\ S \subseteq Int
         /\ \A i \in DOMAIN records : records[i] \in BuilderKey
<1>1. Len(records) \in Nat /\ DOMAIN records = 1 .. Len(records)
  BY LenProperties
<1>2. IsFiniteSet(1 .. Len(records))
  BY <1>1, FS_Interval
<1>3. \A S \in SUBSET DOMAIN records : IsFiniteSet(S)
  BY <1>1, <1>2, FS_Subset
<1>4. \A i \in DOMAIN records : records[i] \in BuilderKey
  BY <1>1, ElementOfSeq
<1> QED
  BY <1>1, <1>3, <1>4

\* One record of each key is kept, that of the put that FrozenExact names.
LEMMA DedupedKeepsLatest ==
  ASSUME records \in Seq(BuilderKey)
  PROVE  /\ \A i, j \in Deduped : KeyOf(i) = KeyOf(j) => i = j
         /\ \A k : LET latest == Max({NoRecord} \cup {i \in DOMAIN records : records[i] = k})
                   IN  \/ latest \in Deduped /\ KeyOf(latest) = k
                       \/ latest = NoRecord /\ \A o \in Deduped : KeyOf(o) # k
<1> DEFINE n == Len(records)
<1>1. /\ n \in Nat /\ DOMAIN records = 1 .. n
      /\ \A S \in SUBSET DOMAIN records : IsFiniteSet(S) /\ S \subseteq Int
  BY RecordsFinite
<1>2. Deduped = {i \in 1 .. n : ~ \E j \in i + 1 .. n : records[i] = records[j]}
  BY <1>1 DEF Deduped, Same, KeyOf
<1> HIDE DEF n
<1>3. ASSUME NEW i \in Deduped, NEW j \in Deduped, KeyOf(i) = KeyOf(j) PROVE i = j
  <2>1. i \in 1 .. n /\ j \in 1 .. n /\ records[i] = records[j]
    BY <1>2, <1>3 DEF KeyOf
  <2>2. ~ (i < j) /\ ~ (j < i)
    BY <1>1, <1>2, <2>1
  <2> QED
    BY <1>1, <2>1, <2>2
<1>4. ASSUME NEW k
      PROVE  LET latest == Max({NoRecord} \cup {i \in DOMAIN records : records[i] = k})
             IN  \/ latest \in Deduped /\ KeyOf(latest) = k
                 \/ latest = NoRecord /\ \A o \in Deduped : KeyOf(o) # k
  <2> DEFINE S == {i \in DOMAIN records : records[i] = k}
             T == {NoRecord} \cup S
  <2>1. S \subseteq DOMAIN records /\ IsFiniteSet(S) /\ S \subseteq Int /\ T \subseteq Int
          /\ NoRecord \in T
    BY <1>1 DEF NoRecord
  <2>2. CASE S = {}
    <3>1. \A i \in T : i <= NoRecord
      BY <2>2 DEF NoRecord
    <3>2. Max(T) = NoRecord
      BY <2>1, <3>1, MaxUnique
    <3>3. \A o \in Deduped : KeyOf(o) # k
      BY <1>1, <1>2, <2>2 DEF KeyOf
    <3> QED
      BY <3>2, <3>3
  <2>3. CASE S # {}
    <3>1. PICK m \in S : \A i \in S : i <= m
      BY <2>1, <2>3, GreatestExists
    <3>2. m \in 1 .. n /\ records[m] = k
      BY <1>1, <3>1
    <3>3. m \in Deduped /\ KeyOf(m) = k
      <4>1. ASSUME NEW j \in m + 1 .. n, records[m] = records[j] PROVE FALSE
        <5>1. j \in 1 .. n /\ j > m
          BY <1>1, <3>2
        <5>2. j \in S
          BY <1>1, <3>2, <4>1, <5>1
        <5> QED
          BY <1>1, <3>1, <3>2, <5>1, <5>2
      <4> QED
        BY <1>2, <3>2, <4>1 DEF KeyOf
    <3>4. m \in T /\ \A i \in T : i <= m
      BY <1>1, <3>1, <3>2 DEF NoRecord
    <3>5. Max(T) = m
      BY <2>1, <3>4, MaxUnique
    <3> QED
      BY <3>3, <3>5
  <2> QED
    BY <2>2, <2>3
<1> QED
  BY <1>3, <1>4
-----------------------------------------------------------------------------
(* What stays when the records and the arrays of a freeze do. *)

LEMMA CountsRecords ==
  ASSUME BuildTypeInv
  PROVE  /\ IsFiniteSet(dedup) /\ Count \in Nat
         /\ dedup = {} <=> Count = 0
         /\ \A o \in dedup : KeyOf(o) \in BuilderKey /\ KeyOf(o) \in Int /\ KeyOf(o) < Words
         /\ Count # 0 => \A k \in BuilderKey : BucketOf(k) \in 0 .. Count - 1
<1>1. /\ records \in Seq(BuilderKey) /\ dedup \subseteq DOMAIN records
      /\ \A S \in SUBSET DOMAIN records : IsFiniteSet(S) /\ S \subseteq Int
      /\ \A i \in DOMAIN records : records[i] \in BuilderKey
  BY RecordsFinite DEF BuildTypeInv
<1>2. IsFiniteSet(dedup)
  BY <1>1
<1>3. Count \in Nat /\ (dedup = {} <=> Count = 0)
  BY <1>2, FS_CardinalityType, FS_EmptySet DEF Count
<1>4. \A o \in dedup : KeyOf(o) \in BuilderKey /\ KeyOf(o) \in Int /\ KeyOf(o) < Words
  BY <1>1, BuilderConstants DEF KeyOf
<1>5. ASSUME Count # 0, NEW k \in BuilderKey PROVE BucketOf(k) \in 0 .. Count - 1
  <2> DEFINE h == IF config.collide THEN 0 ELSE BucketHash(k)
             n == Count
  <2>1. h \in Nat
    BY BuilderConstants
  <2>2. n \in Nat /\ n # 0
    BY <1>3, <1>5
  <2>3. BucketOf(k) = h % n
    BY DEF BucketOf
  <2> HIDE DEF h, n
  <2>4. h % n \in 0 .. n - 1
    BY <2>1, <2>2
  <2> QED
    BY <2>3, <2>4 DEF n
<1> QED
  BY <1>2, <1>3, <1>4, <1>5

LEMMA SameRecords ==
  ASSUME UNCHANGED <<config, records, dedup>>
  PROVE  /\ Count' = Count /\ Deduped' = Deduped /\ DirectTable' = DirectTable
         /\ \A o : KeyOf(o)' = KeyOf(o)
         /\ \A k : BucketOf(k)' = BucketOf(k)
         /\ \A o, s : SlotFor(o, s)' = SlotFor(o, s)
<1>1. Count' = Count /\ Deduped' = Deduped /\ DirectTable' = DirectTable
  BY DEF Count, Deduped, DirectTable, Same, KeyOf
<1>2. \A o : KeyOf(o)' = KeyOf(o)
  BY DEF KeyOf
<1>3. \A k : BucketOf(k)' = BucketOf(k)
  BY <1>1 DEF BucketOf
<1>4. \A o, s : SlotFor(o, s)' = SlotFor(o, s)
  BY <1>1, <1>2 DEF SlotFor
<1> QED
  BY <1>1, <1>2, <1>3, <1>4

LEMMA SameTables ==
  ASSUME UNCHANGED <<config, records, dedup, slotCount, slots, seeds>>
  PROVE  /\ DirectRoom' = DirectRoom /\ MphTable' = MphTable
         /\ \A o : SeedOf(o)' = SeedOf(o)
<1>1. /\ Count' = Count
      /\ \A o : KeyOf(o)' = KeyOf(o)
      /\ \A k : BucketOf(k)' = BucketOf(k)
      /\ \A o, s : SlotFor(o, s)' = SlotFor(o, s)
  BY SameRecords
<1>2. DirectRoom' = DirectRoom
  BY DEF DirectRoom, KeyOf
<1>3. \A o : SeedOf(o)' = SeedOf(o)
  BY <1>1 DEF SeedOf
<1>4. \A o : Home(o)' = Home(o)
  BY <1>1, <1>3 DEF Home
<1>5. MphTable' = MphTable
  BY <1>1, <1>3, <1>4 DEF MphTable
<1> QED
  BY <1>2, <1>3, <1>5

-----------------------------------------------------------------------------
(* The steps. *)

LEMMA BuildBegins == BuilderInit => BuildInv
<1> SUFFICES ASSUME BuilderInit PROVE BuildInv
  OBVIOUS
<1>1. records = <<>> /\ <<>> \in Seq(BuilderKey) /\ Len(records) = 0
  BY EmptySeq DEF BuilderInit
<1>2. BuildTypeInv
  BY <1>1, BuilderConstants DEF BuilderInit, BuildTypeInv, Config
<1> QED
  BY <1>2 DEF BuilderInit, BuildInv, FreezeInv, TableInv, Freezing

\* Outside of a freeze nothing is left of one.
LEMMA Rests ==
  ASSUME phase' \in {"closed", "put"}, slots' = NoTable,
         BuildTypeInv'
  PROVE  BuildInv'
<1>2. FreezeInv'
  BY DEF FreezeInv, Freezing
<1>3. TableInv'
  BY DEF TableInv
<1> QED
  BY <1>2, <1>3 DEF BuildInv

LEMMA ResetTypes ==
  ASSUME BuildTypeInv, Reset, UNCHANGED config, phase' \in {"closed", "put"},
         records' \in Seq(BuilderKey), cap' \in Nat, Len(records') <= cap'
  PROVE  BuildTypeInv' /\ slots' = NoTable
BY BuilderConstants DEF Reset, BuildTypeInv

LEMMA GivesUp ==
  ASSUME BuildInv, GiveUp
  PROVE  BuildInv'
BY Rests, ResetTypes DEF GiveUp, BuildInv, BuildTypeInv

\* A put: the array has room for the record.
LEMMA PutsFit ==
  ASSUME BuildInv
  PROVE  Grown \in Nat /\ Len(records) + 1 <= Grown
<1>1. Len(records) \in Nat /\ cap \in Nat /\ Len(records) <= cap
  BY RecordsFinite DEF BuildInv, BuildTypeInv
<1>2. FirstCap \in Nat \ {0}
  BY BuilderConstants
<1> QED
  BY <1>1, <1>2 DEF Grown

LEMMA PutStays ==
  ASSUME BuildInv, NEW k \in BuilderKey, Put(k) \/ PutFails(k)
  PROVE  BuildInv'
<1>1. /\ phase = "put" /\ phase' = "put" /\ cap' = Grown
      /\ UNCHANGED <<config, dedup, slotCount, slots, seeds, seed>>
  BY DEF Put, PutFails, Accepted, freezeVars
<1>2. records \in Seq(BuilderKey) /\ Len(records) \in Nat /\ DOMAIN records = 1 .. Len(records)
  BY RecordsFinite DEF BuildInv, BuildTypeInv
<1>3. Grown \in Nat /\ Len(records) + 1 <= Grown
  BY PutsFit
<1>4. /\ records' \in Seq(BuilderKey) /\ Len(records') <= Grown
      /\ DOMAIN records \subseteq DOMAIN records'
  <2>1. CASE Put(k)
    <3>1. records' = Append(records, k)
      BY <2>1 DEF Put
    <3>2. /\ records' \in Seq(BuilderKey) /\ Len(records') = Len(records) + 1
          /\ DOMAIN records' = 1 .. Len(records')
      BY <1>2, <3>1, AppendProperties, LenProperties
    <3> QED
      BY <1>2, <1>3, <3>2
  <2>2. CASE PutFails(k)
    BY <1>2, <1>3, <2>2 DEF PutFails
  <2> QED
    BY <2>1, <2>2
<1>5. BuildTypeInv'
  BY <1>1, <1>3, <1>4 DEF BuildInv, BuildTypeInv
<1>6. slots' = NoTable
  BY <1>1 DEF BuildInv, FreezeInv
<1> QED
  BY <1>1, <1>5, <1>6, Rests

LEMMA OpensAndCloses ==
  ASSUME BuildInv, CloseBuilder \/ \E c \in Config : OpenTableBuilder(c)
  PROVE  BuildInv'
<1>1. CASE CloseBuilder
  <2>1. /\ records' = <<>> /\ <<>> \in Seq(BuilderKey) /\ Len(records') = 0 /\ cap' = 0
    BY <1>1, EmptySeq DEF CloseBuilder
  <2> QED
    BY <1>1, <2>1, Rests, ResetTypes DEF CloseBuilder, BuildInv
<1>2. ASSUME NEW c \in Config, OpenTableBuilder(c) PROVE BuildInv'
  <2>1. phase = "closed" /\ phase' = "put" /\ config' \in Config
        /\ UNCHANGED <<records, cap, dedup, slotCount, slots, seeds, seed>>
    BY <1>2 DEF OpenTableBuilder, freezeVars
  <2>2. BuildTypeInv'
    BY <2>1 DEF BuildInv, BuildTypeInv
  <2>3. slots' = NoTable
    BY <2>1 DEF BuildInv, FreezeInv
  <2> QED
    BY <2>1, <2>2, <2>3, Rests
<1> QED
  BY <1>1, <1>2

LEMMA FreezeBegins ==
  ASSUME BuildInv, FreezeCalled
  PROVE  BuildInv'
<1>1. /\ phase = "put" /\ phase' = config.backend /\ dedup' = Deduped
      /\ UNCHANGED <<config, records, cap, slotCount, slots, seeds, seed>>
  BY DEF FreezeCalled
<1>2. phase' \in {"direct", "mph"} /\ slots' = NoTable
  BY <1>1 DEF BuildInv, BuildTypeInv, FreezeInv, Config
<1>3. Deduped' = Deduped /\ Deduped \subseteq DOMAIN records
  BY <1>1 DEF Deduped, Same, KeyOf
<1>4. BuildTypeInv'
  BY <1>1, <1>2, <1>3 DEF BuildInv, BuildTypeInv, Freezing
<1>5. FreezeInv'
  BY <1>1, <1>2, <1>3 DEF FreezeInv
<1>6. TableInv'
  BY <1>2 DEF TableInv
<1> QED
  BY <1>4, <1>5, <1>6 DEF BuildInv

-----------------------------------------------------------------------------
(* freeze_direct *)

LEMMA KeysReachMax ==
  ASSUME BuildTypeInv
  PROVE  MaxKey \in Nat /\ \A o \in dedup : KeyOf(o) <= MaxKey
<1> DEFINE S == {KeyOf(o) : o \in dedup}
           T == {0} \cup S
           f == [o \in dedup |-> KeyOf(o)]
<1>1. IsFiniteSet(dedup) /\ \A o \in dedup : KeyOf(o) \in Int
  BY CountsRecords
<1>2. S = {f[o] : o \in dedup}
  OBVIOUS
<1> HIDE DEF f
<1>3. IsFiniteSet(S)
  BY <1>1, <1>2, ImageFinite
<1>4. IsFiniteSet(T)
  BY <1>3, FS_Singleton, FS_Union
<1>5. T \in SUBSET Int /\ 0 \in T
  BY <1>1
<1>6. Max(T) \in T /\ \A y \in T : y <= Max(T)
  <2> HIDE DEF T
  <2> QED
    BY <1>4, <1>5, MaxIsGreatest
<1>7. MaxKey = Max(T)
  BY DEF MaxKey
<1> QED
  BY <1>5, <1>6, <1>7

\* The room of a table: neither the number of its slots nor their bytes wrap around.
LEMMA NothingWraps ==
  ASSUME NEW m \in Nat, m <= ((Words - 1) \div SlotSize) - 1
  PROVE  /\ (m + 1) % Words = m + 1 /\ m + 1 < Words
         /\ (m + 1) * SlotSize < Words
<1> DEFINE q == (Words - 1) \div SlotSize
<1>1. Words \in Nat /\ Words > 0 /\ SlotSize \in Nat /\ SlotSize > 0
  BY BuilderConstants
<1>2. q \in Nat /\ q * SlotSize <= Words - 1
  BY <1>1, Z3
<1> HIDE DEF q
<1>3. m + 1 <= q
  BY <1>2 DEF q
<1>4. (m + 1) * SlotSize <= q * SlotSize
  BY <1>1, <1>2, <1>3, Z3
<1>5. m + 1 <= (m + 1) * SlotSize
  BY <1>1, Z3
<1>6. (m + 1) * SlotSize < Words /\ m + 1 < Words
  BY <1>1, <1>2, <1>4, <1>5
<1>7. (m + 1) % Words = m + 1
  BY <1>1, <1>6
<1> QED
  BY <1>6, <1>7

LEMMA DirectStays ==
  ASSUME BuildInv, DirectAllocate \/ DirectFill
  PROVE  BuildInv'
<1>1. UNCHANGED <<config, records, cap, dedup, seeds, seed>>
  BY DEF DirectAllocate, DirectFill
<1>2. /\ Deduped' = Deduped /\ DirectTable' = DirectTable
      /\ \A o : KeyOf(o)' = KeyOf(o)
  BY <1>1, SameRecords
<1>3. CASE DirectAllocate
  <2>1. /\ phase = "direct" /\ phase' = "fill" /\ slots' = slots
        /\ ~WrongLength /\ ~TooLarge /\ slotCount' = (MaxKey + 1) % Words
    BY <1>3 DEF DirectAllocate
  <2>2. MaxKey \in Nat /\ \A o \in dedup : KeyOf(o) <= MaxKey /\ KeyOf(o) \in Int
    BY KeysReachMax, CountsRecords DEF BuildInv
  <2>3. MaxKey <= ((Words - 1) \div SlotSize) - 1
    BY <2>1, <2>2, BuilderConstants DEF TooLarge
  <2>4. /\ slotCount' = MaxKey + 1 /\ slotCount' < Words
        /\ slotCount' * SlotSize < Words
    BY <2>1, <2>2, <2>3, NothingWraps
  <2>5. \A o \in dedup : KeyOf(o) \in 0 .. slotCount' - 1
    BY <2>1, <2>2, <2>4 DEF WrongLength, Is8Bytes
  <2>6. DirectRoom'
    BY <1>1, <1>2, <2>4, <2>5 DEF DirectRoom
  <2>7. BuildTypeInv'
    BY <1>1, <2>1, <2>2, <2>4, BuilderConstants DEF BuildInv, BuildTypeInv, Freezing
  <2>8. FreezeInv'
    BY <1>1, <1>2, <2>1 DEF BuildInv, FreezeInv, Freezing
  <2>9. TableInv'
    BY <2>1, <2>6 DEF TableInv
  <2> QED
    BY <2>7, <2>8, <2>9 DEF BuildInv
<1>4. CASE DirectFill
  <2>1. /\ phase = "fill" /\ phase' = "frozen" /\ slots' = DirectTable
        /\ slotCount' = slotCount
    BY <1>4 DEF DirectFill, DirectTable
  <2>2. config.backend = "direct" /\ DirectRoom
    BY <2>1 DEF BuildInv, FreezeInv, TableInv
  <2>3. DirectRoom'
    BY <1>1, <1>2, <2>1, <2>2 DEF DirectRoom
  <2>4. BuildTypeInv'
    BY <1>1, <2>1 DEF BuildInv, BuildTypeInv, Freezing
  <2>5. FreezeInv'
    BY <1>1, <1>2, <2>1 DEF BuildInv, FreezeInv, Freezing
  <2>6. TableInv'
    BY <1>1, <1>2, <2>1, <2>2, <2>3 DEF TableInv
  <2> QED
    BY <2>4, <2>5, <2>6 DEF BuildInv
<1> QED
  BY <1>3, <1>4

-----------------------------------------------------------------------------
(* freeze_mph *)

\* The table before a bucket is placed: no slot is present.
LEMMA MphBegins ==
  ASSUME BuildInv, MphStart
  PROVE  BuildInv'
<1>1. /\ phase = "mph" /\ phase' = "place" /\ seeds' = [b \in 0 .. Count - 1 |-> 0]
      /\ UNCHANGED <<config, records, cap, dedup, slotCount, slots, seed>>
  BY DEF MphStart
<1>2. /\ Count' = Count /\ Deduped' = Deduped
      /\ \A o : KeyOf(o)' = KeyOf(o)
      /\ \A k : BucketOf(k)' = BucketOf(k)
  BY <1>1, SameRecords
<1>3. /\ Count \in Nat /\ (dedup = {} <=> Count = 0)
      /\ \A o \in dedup : KeyOf(o) \in BuilderKey
      /\ Count # 0 => \A k \in BuilderKey : BucketOf(k) \in 0 .. Count - 1
  BY CountsRecords DEF BuildInv
<1>4. \A o \in dedup : SeedOf(o)' = 0
  <2> SUFFICES ASSUME NEW o \in dedup PROVE SeedOf(o)' = 0
    OBVIOUS
  <2>1. SeedOf(o)' = seeds'[BucketOf(KeyOf(o))]
    BY <1>2 DEF SeedOf
  <2>2. BucketOf(KeyOf(o)) \in 0 .. Count - 1
    BY <1>3
  <2> QED
    BY <1>1, <2>1, <2>2
<1>5. DOMAIN slots' = {}
  BY <1>1 DEF BuildInv, FreezeInv, NoTable
<1>6. seeds' \in [0 .. Count' - 1 -> Nat]
  BY <1>1, <1>2
<1>7. MphTable'
  BY <1>1, <1>4, <1>5, <1>6 DEF MphTable
<1>8. BuildTypeInv'
  BY <1>1 DEF BuildInv, BuildTypeInv, Freezing
<1>9. FreezeInv'
  BY <1>1, <1>2 DEF BuildInv, FreezeInv, Freezing
<1>10. TableInv'
  BY <1>1, <1>7 DEF TableInv
<1> QED
  BY <1>8, <1>9, <1>10 DEF BuildInv

\* The next bucket is placed: its records take slots that are free, each its own;
\* the records of the other buckets stay where they are.
LEMMA BucketPlaced ==
  ASSUME BuildInv, NEW b \in 0 .. Count - 1, PlaceBucket(b)
  PROVE  MphTable'
<1> DEFINE taken == {SlotFor(o, seed) : o \in ItemsOf(b)}
<1>1. /\ phase = "place" /\ seeds[b] = 0 /\ Fits(b, seed)
      /\ seeds' = [seeds EXCEPT ![b] = seed]
      /\ slots' = [s \in DOMAIN slots \cup taken |->
                     IF s \in taken THEN CHOOSE o \in ItemsOf(b) : SlotFor(o, seed) = s
                     ELSE slots[s]]
      /\ UNCHANGED <<config, records, dedup>>
  BY DEF PlaceBucket, Placing, Unplaced
<1>2. /\ Count' = Count
      /\ \A o : KeyOf(o)' = KeyOf(o)
      /\ \A k : BucketOf(k)' = BucketOf(k)
      /\ \A o, s : SlotFor(o, s)' = SlotFor(o, s)
  BY <1>1, SameRecords
<1>3. /\ Count # 0
      /\ \A o \in dedup : BucketOf(KeyOf(o)) \in 0 .. Count - 1
  BY CountsRecords DEF BuildInv
<1>4. MphTable /\ seed \in Nat /\ seed # 0
  BY <1>1, BuilderConstants DEF BuildInv, TableInv, BuildTypeInv
<1>5. seeds' \in [0 .. Count' - 1 -> Nat]
  BY <1>1, <1>2, <1>4 DEF MphTable
<1>6. \A o \in dedup : SeedOf(o)' = IF o \in ItemsOf(b) THEN seed ELSE SeedOf(o)
  <2> SUFFICES ASSUME NEW o \in dedup
               PROVE  SeedOf(o)' = IF o \in ItemsOf(b) THEN seed ELSE SeedOf(o)
    OBVIOUS
  <2>1. SeedOf(o)' = seeds'[BucketOf(KeyOf(o))]
    BY <1>2 DEF SeedOf
  <2>2. o \in ItemsOf(b) <=> BucketOf(KeyOf(o)) = b
    BY DEF ItemsOf
  <2> QED
    BY <1>1, <1>3, <1>4, <2>1, <2>2 DEF SeedOf, MphTable
<1>7. /\ \A o \in ItemsOf(b) : o \in dedup /\ SeedOf(o) = 0
      /\ \A o \in ItemsOf(b) : SlotFor(o, seed) \notin DOMAIN slots
      /\ \A o, p \in ItemsOf(b) : o # p => SlotFor(o, seed) # SlotFor(p, seed)
  BY <1>1 DEF ItemsOf, SeedOf, Fits
<1>8. \A o \in dedup : Home(o)' = IF o \in ItemsOf(b) THEN SlotFor(o, seed) ELSE Home(o)
  BY <1>2, <1>6 DEF Home
<1>9. \A o \in ItemsOf(b) : SlotFor(o, seed) \in DOMAIN slots' /\ slots'[SlotFor(o, seed)] = o
  <2> SUFFICES ASSUME NEW o \in ItemsOf(b)
               PROVE  SlotFor(o, seed) \in DOMAIN slots' /\ slots'[SlotFor(o, seed)] = o
    OBVIOUS
  <2>1. SlotFor(o, seed) \in taken
    OBVIOUS
  <2>2. (CHOOSE p \in ItemsOf(b) : SlotFor(p, seed) = SlotFor(o, seed)) = o
    BY <1>7
  <2> HIDE DEF taken
  <2> QED
    BY <1>1, <2>1, <2>2
<1>10. \A s \in DOMAIN slots : s \in DOMAIN slots' /\ slots'[s] = slots[s]
  <2>1. \A s \in DOMAIN slots : s \notin taken
    BY <1>7
  <2> HIDE DEF taken
  <2> QED
    BY <1>1, <2>1
<1>11. ASSUME NEW s \in DOMAIN slots'
       PROVE  \E o \in dedup : slots'[s] = o /\ SeedOf(o)' # 0 /\ s = Home(o)'
  <2>1. s \in DOMAIN slots \/ \E o \in ItemsOf(b) : s = SlotFor(o, seed)
    BY <1>1
  <2>2. CASE s \in DOMAIN slots
    <3>1. PICK o \in dedup : slots[s] = o /\ SeedOf(o) # 0 /\ s = Home(o) /\ o \notin ItemsOf(b)
      BY <1>4, <1>7, <2>2 DEF MphTable
    <3>2. slots'[s] = o
      BY <1>10, <2>2, <3>1
    <3>3. SeedOf(o)' # 0 /\ s = Home(o)'
      BY <1>6, <1>8, <3>1
    <3> QED
      BY <3>1, <3>2, <3>3
  <2>3. CASE \E o \in ItemsOf(b) : s = SlotFor(o, seed)
    <3>1. PICK o \in ItemsOf(b) : s = SlotFor(o, seed)
      BY <2>3
    <3>2. o \in dedup /\ slots'[s] = o /\ SeedOf(o)' # 0 /\ s = Home(o)'
      BY <1>4, <1>6, <1>7, <1>8, <1>9, <3>1
    <3> QED
      BY <3>2
  <2> QED
    BY <2>1, <2>2, <2>3
<1>12. ASSUME NEW o \in dedup, SeedOf(o)' # 0
       PROVE  Home(o)' \in DOMAIN slots' /\ slots'[Home(o)'] = o
  <2>1. CASE o \in ItemsOf(b)
    BY <1>8, <1>9, <1>12, <2>1
  <2>2. CASE o \notin ItemsOf(b)
    <3>1. SeedOf(o) # 0 /\ Home(o)' = Home(o)
      BY <1>6, <1>8, <1>12, <2>2
    <3>2. Home(o) \in DOMAIN slots /\ slots[Home(o)] = o
      BY <1>4, <3>1 DEF MphTable
    <3> QED
      BY <1>10, <3>1, <3>2
  <2> QED
    BY <2>1, <2>2
<1>13. dedup' = dedup
  BY <1>1
<1> HIDE DEF taken
<1> QED
  BY <1>5, <1>11, <1>12, <1>13 DEF MphTable

LEMMA MphStays ==
  ASSUME BuildInv, NEW b \in 0 .. Count - 1, PlaceBucket(b) \/ SeedFails(b)
  PROVE  BuildInv'
<1>1. /\ phase = "place" /\ phase' = phase
      /\ UNCHANGED <<config, records, cap, dedup, slotCount>>
  BY DEF PlaceBucket, SeedFails, Placing
<1>2. Deduped' = Deduped
  BY <1>1, SameRecords
<1>3. seed' \in 1 .. MaxSeed
  <2>1. seed \in 1 .. MaxSeed /\ MaxSeed \in Nat \ {0}
    BY BuilderConstants DEF BuildInv, BuildTypeInv
  <2>2. CASE PlaceBucket(b)
    BY <2>1, <2>2 DEF PlaceBucket
  <2>3. CASE SeedFails(b)
    BY <2>1, <2>3 DEF SeedFails, Placing, NextSeed
  <2> QED
    BY <2>2, <2>3
<1>4. MphTable'
  <2>1. CASE PlaceBucket(b)
    BY <2>1, BucketPlaced
  <2>2. CASE SeedFails(b)
    <3>1. UNCHANGED <<slots, seeds>>
      BY <2>2 DEF SeedFails
    <3> QED
      BY <1>1, <3>1, SameTables DEF BuildInv, TableInv
  <2> QED
    BY <2>1, <2>2
<1>5. BuildTypeInv'
  BY <1>1, <1>3 DEF BuildInv, BuildTypeInv
<1>6. FreezeInv'
  BY <1>1, <1>2 DEF BuildInv, FreezeInv, Freezing
<1>7. TableInv'
  BY <1>1, <1>4 DEF TableInv
<1> QED
  BY <1>5, <1>6, <1>7 DEF BuildInv

\* Every bucket with records has its seed when the table is written.
LEMMA MphEnds ==
  ASSUME BuildInv, MphWritten
  PROVE  BuildInv'
<1>1. /\ phase = "place" /\ Unplaced = {} /\ phase' = "frozen"
      /\ UNCHANGED <<config, records, cap, dedup, slotCount, slots, seeds, seed>>
  BY DEF MphWritten, freezeVars
<1>2. Deduped' = Deduped
  BY <1>1, SameRecords
<1>3. MphTable' = MphTable /\ \A o : SeedOf(o)' = SeedOf(o)
  BY <1>1, SameTables
<1>4. config.backend = "mph" /\ MphTable
  BY <1>1 DEF BuildInv, FreezeInv, TableInv
<1>5. ASSUME NEW o \in dedup PROVE SeedOf(o) # 0
  <2> DEFINE b == BucketOf(KeyOf(o))
  <2>1. b \in 0 .. Count - 1
    BY CountsRecords DEF BuildInv
  <2>2. o \in ItemsOf(b)
    BY DEF ItemsOf
  <2> HIDE DEF b
  <2>3. seeds[b] # 0
    BY <1>1, <2>1, <2>2 DEF Unplaced
  <2> QED
    BY <2>3 DEF SeedOf, b
<1>6. BuildTypeInv'
  BY <1>1 DEF BuildInv, BuildTypeInv, Freezing
<1>7. FreezeInv'
  BY <1>1, <1>2 DEF BuildInv, FreezeInv, Freezing
<1>8. TableInv'
  BY <1>1, <1>3, <1>4, <1>5 DEF TableInv
<1> QED
  BY <1>6, <1>7, <1>8 DEF BuildInv

-----------------------------------------------------------------------------
(* Every step, and what the readers find. *)

LEMMA BuildGoesOn == BuildInv /\ [BuilderNext]_builderVars => BuildInv'
<1> SUFFICES ASSUME BuildInv, [BuilderNext]_builderVars PROVE BuildInv'
  OBVIOUS
<1>1. CASE (\E c \in Config : OpenTableBuilder(c)) \/ CloseBuilder
  BY <1>1, OpensAndCloses
<1>2. CASE \E k \in BuilderKey : Put(k) \/ PutFails(k)
  BY <1>2, PutStays
<1>3. CASE FreezeCalled
  BY <1>3, FreezeBegins
<1>4. CASE FreezeFails \/ DirectRefused \/ SeedsExhausted
  BY <1>4, GivesUp DEF FreezeFails, DirectRefused, SeedsExhausted
<1>5. CASE DirectAllocate \/ DirectFill
  BY <1>5, DirectStays
<1>6. CASE MphStart
  BY <1>6, MphBegins
<1>7. CASE MphWritten
  BY <1>7, MphEnds
<1>8. CASE \E b \in 0 .. Count - 1 : PlaceBucket(b) \/ SeedFails(b)
  BY <1>8, MphStays
<1>9. CASE UNCHANGED builderVars
  <2>1. UNCHANGED <<config, phase, records, cap, dedup, slotCount, slots, seeds, seed>>
    BY <1>9 DEF builderVars
  <2>2. DirectRoom' = DirectRoom /\ MphTable' = MphTable /\ \A o : SeedOf(o)' = SeedOf(o)
    BY <2>1, SameTables
  <2>3. Deduped' = Deduped /\ DirectTable' = DirectTable
    BY <2>1, SameRecords
  <2>4. BuildTypeInv'
    BY <2>1 DEF BuildInv, BuildTypeInv
  <2>5. FreezeInv'
    BY <2>1, <2>3 DEF BuildInv, FreezeInv
  <2>6. TableInv'
    BY <2>1, <2>2, <2>3 DEF BuildInv, TableInv
  <2> QED
    BY <2>4, <2>5, <2>6 DEF BuildInv
<1> QED
  BY <1>1, <1>2, <1>3, <1>4, <1>5, <1>6, <1>7, <1>8, <1>9 DEF BuilderNext, FreezeStep

LEMMA BuildHolds == BuilderSpec => []BuildInv
<1> QED
  BY BuildBegins, BuildGoesOn, PTL DEF BuilderSpec

\* The bucket and slot of a key are those of the record with that key, so a lookup
\* finds it; and a table has as many slots present as it has records.
LEMMA DirectFinds ==
  ASSUME BuildTypeInv, DirectRoom, slots = DirectTable,
         \A i, j \in dedup : KeyOf(i) = KeyOf(j) => i = j
  PROVE  /\ \A o \in dedup : GetDirect(KeyOf(o)) = o
         /\ \A k : (\A o \in dedup : KeyOf(o) # k) => GetDirect(k) = NoRecord
         /\ TableValid
<1>1. DOMAIN slots = {KeyOf(o) : o \in dedup}
  BY DEF DirectTable
<1>2. \A o \in dedup : slots[KeyOf(o)] = o
  BY DEF DirectTable
<1>3. \A o \in dedup : KeyOf(o) \in Int /\ KeyOf(o) < slotCount
  BY DEF DirectRoom, BuildTypeInv
<1>4. \A o \in dedup : GetDirect(KeyOf(o)) = o
  BY <1>1, <1>2, <1>3 DEF GetDirect
<1>5. \A k : (\A o \in dedup : KeyOf(o) # k) => GetDirect(k) = NoRecord
  BY <1>1 DEF GetDirect
<1>6. TableValid
  <2> DEFINE f == [o \in dedup |-> KeyOf(o)]
  <2>1. /\ f \in [dedup -> DOMAIN slots]
        /\ \A o, p \in dedup : f[o] = f[p] => o = p
        /\ \A s \in DOMAIN slots : \E o \in dedup : f[o] = s
    BY <1>1
  <2>2. IsFiniteSet(dedup)
    BY CountsRecords
  <2> HIDE DEF f
  <2> QED
    BY <2>1, <2>2, OneToOneCounts DEF TableValid, Count
<1> QED
  BY <1>4, <1>5, <1>6

LEMMA MphFinds ==
  ASSUME BuildTypeInv, MphTable, \A o \in dedup : SeedOf(o) # 0,
         \A i, j \in dedup : KeyOf(i) = KeyOf(j) => i = j
  PROVE  /\ \A o \in dedup : GetMph(KeyOf(o)) = o
         /\ \A k : (\A o \in dedup : KeyOf(o) # k) => GetMph(k) = NoRecord
         /\ TableValid
<1>1. \A o \in dedup : Home(o) \in DOMAIN slots /\ slots[Home(o)] = o
  BY DEF MphTable
<1>2. \A s \in DOMAIN slots : \E o \in dedup : slots[s] = o /\ s = Home(o)
  BY DEF MphTable
<1>3. ASSUME NEW o \in dedup PROVE GetMph(KeyOf(o)) = o
  <2>1. Count # 0 /\ seeds[BucketOf(KeyOf(o))] # 0
    BY CountsRecords DEF SeedOf
  <2>2. SlotHash(KeyOf(o), seeds[BucketOf(KeyOf(o))]) % Count = Home(o)
    BY DEF Home, SlotFor, SeedOf
  <2> QED
    BY <1>1, <2>1, <2>2 DEF GetMph
<1>4. ASSUME NEW k, \A o \in dedup : KeyOf(o) # k PROVE GetMph(k) = NoRecord
  <2>1. \A s \in DOMAIN slots : KeyOf(slots[s]) # k
    BY <1>2, <1>4
  <2> QED
    BY <2>1 DEF GetMph
<1>5. TableValid
  <2> DEFINE f == [o \in dedup |-> Home(o)]
  <2>1. /\ f \in [dedup -> DOMAIN slots]
        /\ \A o, p \in dedup : f[o] = f[p] => o = p
        /\ \A s \in DOMAIN slots : \E o \in dedup : f[o] = s
    BY <1>1, <1>2
  <2>2. IsFiniteSet(dedup)
    BY CountsRecords
  <2> HIDE DEF f
  <2> QED
    BY <2>1, <2>2, OneToOneCounts DEF TableValid, Count
<1> QED
  BY <1>3, <1>4, <1>5

LEMMA FrozenTable == BuildInv => FrozenExact
<1> SUFFICES ASSUME BuildInv, phase = "frozen"
             PROVE  /\ TableValid
                    /\ \A k \in BuilderKey :
                         GetTable(k) = Max({NoRecord} \cup {i \in DOMAIN records : records[i] = k})
  BY DEF FrozenExact
<1>1. /\ records \in Seq(BuilderKey) /\ dedup = Deduped /\ BuildTypeInv
      /\ config.backend \in {"direct", "mph"}
  BY DEF BuildInv, BuildTypeInv, FreezeInv, Freezing, Config
<1>2. \A i, j \in dedup : KeyOf(i) = KeyOf(j) => i = j
  BY <1>1, DedupedKeepsLatest
<1>3. /\ \A o \in dedup : GetTable(KeyOf(o)) = o
      /\ \A k : (\A o \in dedup : KeyOf(o) # k) => GetTable(k) = NoRecord
      /\ TableValid
  <2>1. CASE config.backend = "direct"
    <3>1. DirectRoom /\ slots = DirectTable
      BY <2>1 DEF BuildInv, TableInv
    <3> QED
      BY <1>1, <1>2, <2>1, <3>1, DirectFinds DEF GetTable
  <2>2. CASE config.backend # "direct"
    <3>1. MphTable /\ \A o \in dedup : SeedOf(o) # 0
      BY <2>2 DEF BuildInv, TableInv
    <3> QED
      BY <1>1, <1>2, <2>2, <3>1, MphFinds DEF GetTable
  <2> QED
    BY <2>1, <2>2
<1>4. ASSUME NEW k \in BuilderKey
      PROVE  GetTable(k) = Max({NoRecord} \cup {i \in DOMAIN records : records[i] = k})
  <2> DEFINE latest == Max({NoRecord} \cup {i \in DOMAIN records : records[i] = k})
  <2>1. \/ latest \in dedup /\ KeyOf(latest) = k
        \/ latest = NoRecord /\ \A o \in dedup : KeyOf(o) # k
    BY <1>1, DedupedKeepsLatest
  <2> HIDE DEF latest
  <2>2. GetTable(k) = latest
    BY <1>3, <2>1
  <2> QED
    BY <2>2 DEF latest
<1> QED
  BY <1>3, <1>4

\* The types of a builder's state.
THEOREM BuilderTypes == BuilderSpec => []BuilderTypeOK
<1>1. BuildInv => BuilderTypeOK
  <2> SUFFICES ASSUME BuildInv PROVE BuilderTypeOK
    OBVIOUS
  <2>1. \A s \in DOMAIN slots : slots[s] \in dedup
    <3>1. CASE slots = NoTable
      BY <3>1 DEF NoTable
    <3>2. CASE MphTable
      BY <3>2 DEF MphTable
    <3>3. CASE slots = DirectTable
      BY <3>3 DEF DirectTable
    <3> QED
      BY <3>1, <3>2, <3>3 DEF BuildInv, BuildTypeInv, FreezeInv, TableInv, Freezing
  <2>2. ToSet(records) \subseteq BuilderKey
    BY RecordsFinite DEF BuildInv, BuildTypeInv, ToSet
  <2>3. phase \in {"closed", "put", "direct", "fill", "mph", "place", "frozen"}
    BY DEF BuildInv, BuildTypeInv, Freezing
  <2> QED
    BY <2>1, <2>2, <2>3 DEF BuildInv, BuildTypeInv, BuilderTypeOK
<1> QED
  BY <1>1, BuildHolds, PTL

\* A freeze writes only into the arrays it has allocated, whatever the keys are and
\* however wide the words: the tests of freeze_direct are enough.
THEOREM FreezesStayWithin == BuilderSpec => []TableWithin
<1>1. BuildInv /\ BuilderTypeOK => TableWithin
  BY DEF BuildInv, BuildTypeInv, TableInv, DirectRoom, TableWithin
<1> QED
  BY <1>1, BuildHolds, BuilderTypes, PTL

\* The table of a freeze that returned FCE_OK has for each key the value put last,
\* and passes the reader's validation, whatever failed before it.
THEOREM FrozenTablesAreExact == BuilderSpec => []FrozenExact
<1> QED
  BY FrozenTable, BuildHolds, PTL

\* The buckets without a seed are counted, and no more than there are buckets.
LEMMA UnplacedCounted ==
  ASSUME NEW n \in Nat, NEW U, U \subseteq 0 .. n - 1
  PROVE  IsFiniteSet(U) /\ Cardinality(U) \in 0 .. n
<1>1. IsFiniteSet(0 .. n - 1) /\ Cardinality(0 .. n - 1) = n
  BY FS_Interval
<1>2. IsFiniteSet(U) /\ Cardinality(U) <= n
  BY <1>1, FS_Subset
<1> QED
  BY <1>2, FS_CardinalityType

\* While buckets without a seed are left, one of them is the largest.
LEMMA LargestIsNext ==
  ASSUME BuildInv, phase = "place", Unplaced # {}
  PROVE  \E b \in Unplaced : \A c \in Unplaced \ {b} : Larger(b, c)
<1> DEFINE f == [b \in Unplaced |-> Cardinality(ItemsOf(b))]
           S == {f[b] : b \in Unplaced}
<1>1. IsFiniteSet(dedup) /\ Count \in Nat
  BY CountsRecords DEF BuildInv
<1>2. Unplaced \subseteq Nat /\ IsFiniteSet(Unplaced)
  <2>1. Unplaced \subseteq 0 .. Count - 1
    BY DEF Unplaced
  <2>2. IsFiniteSet(Unplaced)
    BY <1>1, <2>1, UnplacedCounted
  <2> QED
    BY <1>1, <2>1, <2>2
<1>3. \A b \in Unplaced : f[b] \in Nat
  <2>1. \A b : ItemsOf(b) \subseteq dedup
    BY DEF ItemsOf
  <2> QED
    BY <1>1, <2>1, FS_Subset, FS_CardinalityType
<1>4. IsFiniteSet(S) /\ S # {} /\ S \in SUBSET Int
  <2> HIDE DEF f
  <2>1. IsFiniteSet(S)
    BY <1>2, ImageFinite
  <2>2. S # {} /\ S \in SUBSET Int
    BY <1>3
  <2> QED
    BY <2>1, <2>2
<1>5. PICK m \in S : \A n \in S : n <= m
  BY <1>4, GreatestExists
<1>6. PICK b \in {c \in Unplaced : f[c] = m} : \A c \in {c \in Unplaced : f[c] = m} : b <= c
  <2>1. {c \in Unplaced : f[c] = m} # {} /\ {c \in Unplaced : f[c] = m} \in SUBSET Nat
    BY <1>2, <1>5
  <2> HIDE DEF f
  <2> QED
    BY <2>1, LeastNatural
<1>7. ASSUME NEW c \in Unplaced \ {b} PROVE Larger(b, c)
  <2>1. f[c] <= f[b] /\ (f[c] = f[b] => b < c)
    BY <1>2, <1>3, <1>5, <1>6
  <2>2. f[b] = Cardinality(ItemsOf(b)) /\ f[c] = Cardinality(ItemsOf(c))
    BY <1>6
  <2> HIDE DEF f
  <2> QED
    BY <1>3, <1>6, <2>1, <2>2 DEF Larger
<1> QED
  BY <1>6, <1>7

\* A bucket that gets a seed leaves the others as they were.
LEMMA PlacedIsCounted ==
  ASSUME BuildInv, NEW b \in 0 .. Count - 1, PlaceBucket(b)
  PROVE  Unplaced' = Unplaced \ {b} /\ b \in Unplaced
<1>1. /\ b \in Unplaced /\ seeds' = [seeds EXCEPT ![b] = seed] /\ seed # 0
      /\ seeds \in [0 .. Count - 1 -> Nat]
      /\ UNCHANGED <<config, records, dedup>>
  BY BuilderConstants DEF PlaceBucket, Placing, BuildInv, BuildTypeInv, TableInv, MphTable
<1>2. Count' = Count /\ \A c : ItemsOf(c)' = ItemsOf(c)
  BY <1>1 DEF Count, ItemsOf, BucketOf, KeyOf
<1> QED
  BY <1>1, <1>2 DEF Unplaced

\* Each step of a freeze uses up one of those that are left to it.
LEMMA FreezeStepCounts ==
  ASSUME BuildInv, BuilderNext, phase \notin {"closed", "put", "frozen"}
  PROVE  StepsLeft' \in 0 .. StepsLeft - 1
<1> DEFINE U == Cardinality(Unplaced)
<1>1. /\ MaxSeed \in Nat \ {0} /\ seed \in 1 .. MaxSeed /\ Count \in Nat
      /\ phase \in {"direct", "fill", "mph", "place"}
  BY CountsRecords, BuilderConstants DEF BuildInv, BuildTypeInv, Freezing
<1>2. \A m, n \in Nat : m <= n => m * MaxSeed <= n * MaxSeed /\ m * MaxSeed \in Nat
  BY <1>1
<1>3. \A n \in Nat : (n + 1) * MaxSeed = n * MaxSeed + MaxSeed /\ n * MaxSeed \in Nat
  BY <1>1
<1>4. IsFiniteSet(Unplaced) /\ U \in 0 .. Count
  BY <1>1, UnplacedCounted DEF Unplaced
<1>5. StepsLeft \in Nat \ {0}
  <2> HIDE DEF U
  <2>1. U * MaxSeed \in Nat /\ (Count + 1) * MaxSeed \in Nat
    BY <1>1, <1>3, <1>4
  <2>2. phase = "place" => StepsLeft = U * MaxSeed + MaxSeed - seed + 1
    BY DEF StepsLeft, U
  <2> QED
    BY <1>1, <2>1, <2>2 DEF StepsLeft
<1>6. ASSUME phase' \in {"put", "frozen"} PROVE StepsLeft' \in 0 .. StepsLeft - 1
  <2>1. StepsLeft' = 0
    BY <1>6 DEF StepsLeft
  <2> QED
    BY <1>5, <2>1
<1>7. CASE FreezeFails \/ DirectRefused \/ DirectFill \/ SeedsExhausted \/ MphWritten
  BY <1>6, <1>7 DEF FreezeFails, DirectRefused, DirectFill, SeedsExhausted, MphWritten, GiveUp
<1>8. CASE DirectAllocate
  BY <1>8 DEF DirectAllocate, StepsLeft
<1>9. CASE MphStart
  <2>1. Count' = Count /\ phase = "mph" /\ phase' = "place" /\ seed' = seed
    BY <1>9 DEF MphStart, Count
  <2>2. Cardinality(Unplaced') \in 0 .. Count
    BY <1>1, <2>1, UnplacedCounted DEF Unplaced
  <2>3. StepsLeft' = Cardinality(Unplaced') * MaxSeed + MaxSeed - seed + 1
    BY <2>1 DEF StepsLeft
  <2>4. StepsLeft = Count * MaxSeed + MaxSeed + 1
    BY <1>1, <1>3, <2>1 DEF StepsLeft
  <2>5. Cardinality(Unplaced') * MaxSeed <= Count * MaxSeed
        /\ Cardinality(Unplaced') * MaxSeed \in Nat /\ Count * MaxSeed \in Nat
    BY <1>1, <1>2, <2>2
  <2> QED
    BY <1>1, <2>3, <2>4, <2>5
<1>10. ASSUME NEW b \in 0 .. Count - 1, PlaceBucket(b) PROVE StepsLeft' \in 0 .. StepsLeft - 1
  <2>1. phase = "place" /\ phase' = "place" /\ seed' = 1 /\ seed < MaxSeed
    BY <1>10 DEF PlaceBucket, Placing
  <2>2. Unplaced' = Unplaced \ {b} /\ b \in Unplaced
    BY <1>10, PlacedIsCounted
  <2>3. Cardinality(Unplaced') = U - 1 /\ U - 1 \in Nat
    <3>1. IsFiniteSet(Unplaced \ {b}) /\ Cardinality(Unplaced \ {b}) = U - 1
      BY <1>4, <2>2, FS_RemoveElement
    <3>2. Cardinality(Unplaced \ {b}) \in Nat
      BY <3>1, FS_CardinalityType
    <3> QED
      BY <2>2, <3>1, <3>2
  <2>4. StepsLeft' = (U - 1) * MaxSeed + MaxSeed
        /\ StepsLeft = U * MaxSeed + MaxSeed - seed + 1
    BY <1>1, <2>1, <2>3 DEF StepsLeft
  <2> HIDE DEF U
  <2>5. U * MaxSeed = (U - 1) * MaxSeed + MaxSeed /\ (U - 1) * MaxSeed \in Nat
    BY <1>1, <1>3, <1>4, <2>3
  <2> QED
    BY <1>1, <2>1, <2>4, <2>5
<1>11. ASSUME NEW b \in 0 .. Count - 1, SeedFails(b) PROVE StepsLeft' \in 0 .. StepsLeft - 1
  <2>1. /\ phase = "place" /\ phase' = "place" /\ seed' = seed + 1
        /\ UNCHANGED <<config, records, dedup, seeds>>
    BY <1>11 DEF SeedFails, Placing, NextSeed
  <2>2. Unplaced' = Unplaced
    BY <2>1 DEF Unplaced, ItemsOf, BucketOf, KeyOf, Count
  <2>3. StepsLeft' = U * MaxSeed + MaxSeed - (seed + 1) + 1
        /\ StepsLeft = U * MaxSeed + MaxSeed - seed + 1
    BY <2>1, <2>2 DEF StepsLeft
  <2>4. seed < MaxSeed /\ U * MaxSeed \in Nat
    BY <1>3, <1>4, <1>11 DEF SeedFails, Placing
  <2> HIDE DEF U
  <2> QED
    BY <1>1, <2>3, <2>4
<1>12. ~FreezeCalled /\ ~CloseBuilder /\ (\A c : ~OpenTableBuilder(c)) /\ (\A k : ~Put(k) /\ ~PutFails(k))
  BY DEF FreezeCalled, CloseBuilder, OpenTableBuilder, Put, PutFails, Accepted
<1> QED
  BY <1>7, <1>8, <1>9, <1>10, <1>11, <1>12 DEF BuilderNext, FreezeStep

\* What says of a freeze that it returns: it has no more steps than seeds for each
\* bucket, for any keys and hash functions, and while it places buckets there is one
\* to go on with.
THEOREM FreezesAreBounded == BuilderSpec => FreezeBounded
<1>1. BuildInv => (phase = "place" =>
        Unplaced = {} \/ seed = MaxSeed \/ \E b \in Unplaced : Placing(b))
  BY LargestIsNext, BuilderConstants DEF BuildInv, BuildTypeInv, Placing
<1>2. BuildInv /\ [BuilderNext]_builderVars =>
        [phase \notin {"closed", "put", "frozen"} => StepsLeft' \in 0 .. StepsLeft - 1]_builderVars
  BY FreezeStepCounts
<1> QED
  BY <1>1, <1>2, BuildHolds, PTL DEF BuilderSpec, FreezeBounded

-----------------------------------------------------------------------------
(* The sorted cache and the log of a builder's records. *)

\* The array that freeze_sorted or the opening of a log makes, before it is sorted
\* by hash or after: entry i is of the put record[i].
Listed(record) ==
  LET listed == IF kind = "log" THEN DOMAIN records ELSE Deduped IN
  /\ record \in [Position -> listed]
  /\ \A o \in listed : \E i \in Position : record[i] = o
  /\ \A i, j \in Position : record[i] = record[j] => i = j
  /\ \A i \in Position :
       /\ index[i].key = KeyOf(record[i])
       /\ Order(i) = IF kind = "log" THEN record[i] - 1 ELSE i

\* Once sorted by hash, it is what the searches take for granted.
LEMMA ListedIsBuilt ==
  ASSUME records \in Seq(BuilderKey), kind \in {"sorted", "log"}, Sorted,
         NEW record, Listed(record)
  PROVE  Built
<1>1. kind = "sorted" => DistinctKeys
  BY DedupedKeepsLatest DEF Listed, DistinctKeys
<1>2. ASSUME kind = "log" PROVE DistinctOrders
  <2>1. \A i \in Position : record[i] \in Int /\ Order(i) = record[i] - 1
    BY <1>2, RecordsFinite DEF Listed
  <2> QED
    BY <2>1 DEF Listed, DistinctOrders
<1> QED
  BY <1>1, <1>2 DEF Built, Listed

\* A lookup of a sorted cache or of a log that returns finds for every key the value
\* put last, if there is one: what FrozenExact says of the tables.  All backends
\* agree on what a builder's records are, whatever the hashes.
THEOREM BackendsAgree ==
  LookupSpec =>
    [](pc = "done" /\ kind \in {"sorted", "log"} /\ records \in Seq(BuilderKey) =>
         \A record : Listed(record) =>
           (IF best = NotFound THEN NoRecord ELSE record[best])
             = Max({NoRecord} \cup {i \in DOMAIN records : records[i] = probe}))
<1>1. ASSUME FindsNewest, pc = "done", kind \in {"sorted", "log"}, records \in Seq(BuilderKey),
             NEW record, Listed(record)
      PROVE  (IF best = NotFound THEN NoRecord ELSE record[best])
               = Max({NoRecord} \cup {i \in DOMAIN records : records[i] = probe})
  <2> DEFINE hits == {i \in DOMAIN records : records[i] = probe}
             latest == Max({NoRecord} \cup hits)
  <2>1. \/ latest \in Deduped /\ KeyOf(latest) = probe
        \/ latest = NoRecord /\ \A o \in Deduped : KeyOf(o) # probe
    BY <1>1, DedupedKeepsLatest
  <2>2. /\ DOMAIN records \subseteq Nat \ {0} /\ Deduped \subseteq DOMAIN records
        /\ \A o \in DOMAIN records : KeyOf(o) = records[o]
    BY <1>1, RecordsFinite DEF Deduped, KeyOf
  <2>3. /\ \A i \in Position : record[i] \in DOMAIN records /\ (Match(i) <=> record[i] \in hits)
        /\ NotFound \notin Position
        /\ \/ best = NotFound /\ Matches = {}
           \/ best \in Matches /\ \A i \in Matches : Order(i) <= Order(best)
    BY <1>1, <2>2 DEF Listed, Match, Position, NotFound, FindsNewest
  <2>4. \A o \in hits : o <= latest
    <3> DEFINE S == {NoRecord} \cup hits
    <3>1. IsFiniteSet(S) /\ S \in SUBSET Int /\ S # {} /\ hits \subseteq S
      <4>1. IsFiniteSet(hits) /\ hits \subseteq Int
        <5>1. hits \in SUBSET DOMAIN records
          OBVIOUS
        <5> HIDE DEF hits
        <5> QED
          BY <1>1, <5>1, RecordsFinite
      <4> HIDE DEF hits
      <4>2. IsFiniteSet({NoRecord})
        BY FS_Singleton
      <4>3. IsFiniteSet(S)
        BY <4>1, <4>2, FS_Union
      <4> QED
        BY <4>1, <4>3 DEF NoRecord
    <3> HIDE DEF S
    <3>2. \A o \in hits : o <= Max(S)
      BY <3>1, MaxIsGreatest
    <3> QED
      BY <3>2 DEF S
  <2> HIDE DEF latest
  <2>5. CASE best = NotFound
    <3>1. \A i \in Position : record[i] \notin hits
      BY <2>3, <2>5 DEF Matches, Position, NotFound
    <3>2. latest \notin Deduped \/ KeyOf(latest) # probe
      BY <1>1, <2>2, <3>1 DEF Listed
    <3> QED
      BY <2>1, <2>5, <3>2 DEF latest
  <2>6. CASE best # NotFound
    <3>1. best \in Position /\ record[best] \in hits /\ \A i \in Matches : Order(i) <= Order(best)
      BY <2>3, <2>6 DEF Matches
    <3>2. record[best] = latest
      <4>1. CASE kind = "sorted"
        <5>1. record[best] \in Deduped /\ KeyOf(record[best]) = probe
          BY <1>1, <2>2, <3>1, <4>1 DEF Listed
        <5> QED
          BY <1>1, <2>1, <5>1, DedupedKeepsLatest
      <4>2. CASE kind = "log"
        <5>1. latest \in hits
          BY <2>1, <2>2, <2>4, <3>1 DEF NoRecord
        <5>2. PICK i \in Position : record[i] = latest
          BY <1>1, <4>2, <5>1 DEF Listed
        <5>3. record[i] - 1 <= record[best] - 1
          BY <1>1, <2>3, <3>1, <4>2, <5>1, <5>2 DEF Listed, Matches
        <5>4. record[best] <= latest /\ record[best] \in Int /\ latest \in Int
          BY <2>2, <2>4, <3>1, <5>1
        <5> QED
          BY <5>2, <5>3, <5>4
      <4> QED
        BY <1>1, <4>1, <4>2
    <3> QED
      BY <2>6, <3>2 DEF latest
  <2> QED
    BY <2>5, <2>6
<1>2. LookupCorrect =>
        (pc = "done" /\ kind \in {"sorted", "log"} /\ records \in Seq(BuilderKey) =>
           \A record : Listed(record) =>
             (IF best = NotFound THEN NoRecord ELSE record[best])
               = Max({NoRecord} \cup {i \in DOMAIN records : records[i] = probe}))
  BY <1>1 DEF LookupCorrect
<1> QED
  BY <1>2, LookupFindsNewest, PTL

=============================================================================
