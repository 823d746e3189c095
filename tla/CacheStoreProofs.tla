-------------------------- MODULE CacheStoreProofs --------------------------
(***************************************************************************)
(* That the files of an open reader do not change under it                 *)
(* (ReadersPinFiles), that a directory is one atomic map (the refinement   *)
(* of AtomicCache), that a mutation that succeeds on a cache in order adds *)
(* up (MutationsAddUp), and that what one left opens (SoundOpens): for any *)
(* clients, keys and values.                                               *)
(*                                                                         *)
(* StoreInv says that every call holds the lock in the mode its step       *)
(* needs, until its end, and that the lock excludes; StepInv what a call   *)
(* has in its record; HistInv when a mutation is pending; ContentInv what  *)
(* a call has written so far, and with LogInv what the files would show if *)
(* they passed the validation.                                             *)
(***************************************************************************)
EXTENDS CacheStore, FiniteOrder, SequenceTheorems, TLAPS

-----------------------------------------------------------------------------
(* What the writers' operators give. *)

Indices(puts, k) == {i \in DOMAIN puts : puts[i][1] = k}

LEMMA PutsSeq ==
  ASSUME NEW puts \in Seq(Key \X Value)
  PROVE  /\ Len(puts) \in Nat /\ DOMAIN puts = 1 .. Len(puts)
         /\ \A i \in 1 .. Len(puts) : puts[i] \in Key \X Value /\ puts[i][1] \in Key /\ puts[i][2] \in Value
<1>1. Len(puts) \in Nat /\ DOMAIN puts = 1 .. Len(puts) /\ puts \in [1 .. Len(puts) -> Key \X Value]
  BY LenProperties
<1> QED
  BY <1>1

LEMMA PutKeysFinite ==
  ASSUME NEW puts \in Seq(Key \X Value)
  PROVE  IsFiniteSet(PutKeys(puts)) /\ PutKeys(puts) \in SUBSET Key
<1> DEFINE f == [i \in 1 .. Len(puts) |-> puts[i][1]]
<1>1. IsFiniteSet(1 .. Len(puts))
  BY PutsSeq, FS_Interval
<1>2. PutKeys(puts) = {f[i] : i \in 1 .. Len(puts)}
  BY PutsSeq DEF PutKeys, ToSet
<1>3. PutKeys(puts) \in SUBSET Key
  BY PutsSeq DEF PutKeys, ToSet
<1> HIDE DEF f
<1>4. IsFiniteSet({f[i] : i \in 1 .. Len(puts)})
  BY <1>1, ImageFinite
<1> QED
  BY <1>2, <1>3, <1>4

LEMMA AscendingEnumerates ==
  ASSUME NEW keys \in SUBSET Nat, IsFiniteSet(keys)
  PROVE  Enumerates(Ascending(keys), keys)
<1>1. \E s : Enumerates(s, keys)
  BY EnumerationExists
<1> QED
  BY <1>1 DEF Ascending, Enumerates

\* The last put of a key, as Max and as CHOOSE name it.
LEMMA LastPut ==
  ASSUME NEW puts \in Seq(Key \X Value), NEW k, Indices(puts, k) # {}
  PROVE  LET last == Max(Indices(puts, k))
         IN  /\ last \in Indices(puts, k) /\ last \in 1 .. Len(puts)
             /\ \A i \in Indices(puts, k) : i <= last
             /\ last = CHOOSE i \in Indices(puts, k) : \A j \in Indices(puts, k) : j <= i
<1> DEFINE S == Indices(puts, k)
           x == CHOOSE i \in S : \A j \in S : j <= i
<1>1. S \in SUBSET (1 .. Len(puts)) /\ S \in SUBSET Int
  BY PutsSeq DEF Indices
<1> HIDE DEF S
<1>2. IsFiniteSet(S)
  <2>1. IsFiniteSet(1 .. Len(puts))
    BY PutsSeq, FS_Interval
  <2> QED
    BY <1>1, <2>1, FS_Subset
<1>3. Max(S) \in S /\ \A y \in S : y <= Max(S)
  BY <1>1, <1>2, MaxIsGreatest DEF S
<1>4. x \in S /\ \A y \in S : y <= x
  BY <1>3
<1> HIDE DEF x
<1>5. Max(S) = x
  BY <1>1, <1>4, MaxUnique
<1> QED
  BY <1>1, <1>3, <1>5 DEF S, x

\* The map of the puts; a freeze leaves it, AtomicCache defines it.
LatestMap(puts) ==
  [k \in Key |-> IF Indices(puts, k) = {} THEN Absent ELSE puts[Max(Indices(puts, k))][2]]

LEMMA LatestMapIsLatest ==
  ASSUME NEW puts \in Seq(Key \X Value)
  PROVE  LatestMap(puts) = AC!Latest(puts) /\ LatestMap(puts) \in [Key -> Value \cup {Absent}]
<1>1. ASSUME NEW k \in Key, Indices(puts, k) # {}
      PROVE  /\ Max(Indices(puts, k)) = CHOOSE i \in Indices(puts, k) : \A j \in Indices(puts, k) : j <= i
             /\ puts[Max(Indices(puts, k))][2] \in Value
  BY <1>1, LastPut, PutsSeq
<1>2. LatestMap(puts) = [k \in Key |->
        IF Indices(puts, k) = {} THEN Absent
        ELSE puts[CHOOSE i \in Indices(puts, k) : \A j \in Indices(puts, k) : j <= i][2]]
  BY <1>1 DEF LatestMap
<1>3. AC!Latest(puts) = LatestMap(puts)
  BY <1>2 DEF AC!Latest, Indices
<1> QED
  BY <1>1, <1>3 DEF LatestMap

\* dedupe_records: one record for every key put, in key order, and it is the
\* latest put of the key.
LEMMA DedupedShape ==
  ASSUME NEW puts \in Seq(Key \X Value)
  PROVE  LET recs == Deduped(puts)
             N == Cardinality(PutKeys(puts))
         IN  /\ N \in Nat /\ recs \in [1 .. N -> Key \X Value]
             /\ \A i, j \in 1 .. N : i < j => recs[i][1] < recs[j][1]
             /\ \A n \in 1 .. N : recs[n][2] = LatestMap(puts)[recs[n][1]]
             /\ \A k \in Key : Indices(puts, k) # {} => \E n \in 1 .. N : recs[n][1] = k
             /\ \A n \in 1 .. N : Indices(puts, recs[n][1]) # {}
<1> DEFINE keys == PutKeys(puts)
           s == Ascending(keys)
           N == Cardinality(keys)
           recs == Deduped(puts)
<1>1. IsFiniteSet(keys) /\ keys \in SUBSET Key /\ keys \in SUBSET Nat /\ N \in Nat
  BY PutKeysFinite, FS_CardinalityType, StoreConstants
<1>2. Enumerates(s, keys)
  BY <1>1, AscendingEnumerates
<1>3. \A x \in keys : \E i \in 1 .. N : s[i] = x
  BY <1>1, <1>2, EnumerationOnto
<1>4. s \in [1 .. N -> keys] /\ \A i, j \in 1 .. N : i < j => s[i] < s[j]
  BY <1>2 DEF Enumerates
<1>5. recs = [n \in 1 .. N |-> puts[Max(Indices(puts, s[n]))]]
  BY <1>4 DEF Deduped, Indices
<1>6. \A k : Indices(puts, k) # {} <=> k \in keys
  BY PutsSeq DEF Indices, PutKeys, ToSet
<1> HIDE DEF s, N, recs, keys
<1>7. ASSUME NEW n \in 1 .. N
      PROVE  recs[n] \in Key \X Value /\ recs[n][1] = s[n] /\ recs[n][2] = LatestMap(puts)[s[n]]
                /\ Indices(puts, s[n]) # {}
  <2>1. s[n] \in keys /\ s[n] \in Key
    BY <1>1, <1>4
  <2>2. Indices(puts, s[n]) # {}
    BY <2>1, <1>6
  <2>3. Max(Indices(puts, s[n])) \in Indices(puts, s[n]) /\ Max(Indices(puts, s[n])) \in 1 .. Len(puts)
    BY <2>2, LastPut
  <2>4. puts[Max(Indices(puts, s[n]))][1] = s[n]
    BY <2>3 DEF Indices
  <2>5. recs[n] = puts[Max(Indices(puts, s[n]))]
    BY <1>5
  <2> QED
    BY <2>1, <2>2, <2>3, <2>4, <2>5, PutsSeq DEF LatestMap
<1>8. recs \in [1 .. N -> Key \X Value]
  BY <1>5, <1>7
<1>9. \A k \in Key : Indices(puts, k) # {} => \E n \in 1 .. N : recs[n][1] = k
  BY <1>3, <1>6, <1>7
<1>10. \A i, j \in 1 .. N : i < j => recs[i][1] < recs[j][1]
  BY <1>4, <1>7
<1> QED
  BY <1>1, <1>7, <1>8, <1>9, <1>10 DEF recs, N, keys

\* The index of a freeze leads to every record, at its position, and to nothing else.
LEMMA IndexEntries ==
  ASSUME NEW N \in Nat, NEW recs \in [1 .. N -> Key \X Value],
         \A i, j \in 1 .. N : i < j => recs[i][1] < recs[j][1],
         NEW b \in Backend, b # "log"
  PROVE  /\ IndexFile(b, recs) \in Seq(Element)
         /\ {e \in ToSet(IndexFile(b, recs)) : e[3] # 0} = {<<b, recs[n][1], n>> : n \in 1 .. N}
<1> DEFINE index == IndexFile(b, recs)
           entries == [n \in 1 .. N |-> <<b, recs[n][1], n>>]
           wanted == {<<b, recs[n][1], n>> : n \in 1 .. N}
<1>1. recs \in Seq(Key \X Value) /\ Len(recs) = N /\ DOMAIN recs = 1 .. N
  BY LenProperties
<1>2. \A n \in 1 .. N : recs[n][1] \in Key /\ recs[n][1] \in Nat
  BY StoreConstants
<1>3. entries \in [1 .. N -> Element] /\ \A n \in 1 .. N : entries[n][3] # 0
  BY <1>2 DEF Element
<1>4. entries \in Seq(Element) /\ Len(entries) = N
  BY <1>3, LenProperties
<1>5. CASE b = "sorted"
  <2>1. index = entries
    BY <1>1, <1>5 DEF IndexFile
  <2>2. ToSet(entries) = wanted
    BY DEF ToSet
  <2>3. \A e \in wanted : e[3] # 0
    OBVIOUS
  <2> HIDE DEF index, entries, wanted
  <2>4. {e \in ToSet(index) : e[3] # 0} = wanted
    BY <2>1, <2>2, <2>3
  <2> QED
    BY <1>4, <2>1, <2>4 DEF index, wanted
<1>6. CASE b = "direct"
  <2> DEFINE greatest == IF recs = <<>> THEN 0 ELSE Last(recs)[1]
             position(k) == {n \in 1 .. N : recs[n][1] = k}
             slot(k) == IF position(k) = {} THEN <<b, k, 0>>
                        ELSE <<b, k, CHOOSE n \in position(k) : TRUE>>
  <2>1. index = [n \in 1 .. greatest + 1 |-> slot(n - 1)]
    BY <1>1, <1>6 DEF IndexFile
  <2>2. greatest \in Nat /\ \A n \in 1 .. N : recs[n][1] <= greatest
    <3>1. CASE N = 0
      <4>1. recs = <<>>
        BY <1>1, <3>1, EmptySeq
      <4> QED
        BY <3>1, <4>1
    <3>2. CASE N # 0
      <4>1. recs # <<>> /\ Last(recs) = recs[N] /\ N \in 1 .. N
        BY <1>1, <3>2, EmptySeq DEF Last
      <4>2. greatest = recs[N][1]
        BY <4>1
      <4>3. \A n \in 1 .. N : n = N \/ n < N
        OBVIOUS
      <4> QED
        BY <4>1, <4>2, <4>3, <1>2
    <3> QED
      BY <3>1, <3>2
  <2>3. \A k \in Nat : slot(k) \in Backend \X Nat \X Nat
    OBVIOUS
  <2>4. \A n \in 1 .. N : slot(recs[n][1]) = <<b, recs[n][1], n>>
    <3> SUFFICES ASSUME NEW n \in 1 .. N PROVE slot(recs[n][1]) = <<b, recs[n][1], n>>
      OBVIOUS
    <3>1. position(recs[n][1]) = {n}
      <4>1. \A m \in 1 .. N : recs[m][1] = recs[n][1] => m = n
        BY <1>2
      <4> QED
        BY <4>1
    <3> QED
      BY <3>1
  <2>5. \A k \in Nat : slot(k)[3] # 0 => \E n \in 1 .. N : recs[n][1] = k
    OBVIOUS
  <2> HIDE DEF greatest, slot
  <2>6. index \in [1 .. greatest + 1 -> Backend \X Nat \X Nat]
    <3>1. \A n \in 1 .. greatest + 1 : n - 1 \in Nat
      BY <2>2
    <3> HIDE DEF index
    <3> QED
      BY <2>1, <2>3, <3>1
  <2>7. index \in Seq(Element)
    <3>1. index \in [1 .. greatest + 1 -> Element]
      BY <2>6 DEF Element
    <3> QED
      BY <2>2, <3>1, LenProperties
  <2>8. ToSet(index) = {slot(k) : k \in 0 .. greatest}
    <3>1. ToSet(index) = {slot(n - 1) : n \in 1 .. greatest + 1}
      BY <2>1 DEF ToSet
    <3>2. \A n \in 1 .. greatest + 1 : n - 1 \in 0 .. greatest
      BY <2>2
    <3>3. \A k \in 0 .. greatest : k + 1 \in 1 .. greatest + 1 /\ (k + 1) - 1 = k
      BY <2>2
    <3> QED
      BY <3>1, <3>2, <3>3
  <2>9. \A n \in 1 .. N : recs[n][1] \in 0 .. greatest
    BY <1>2, <2>2
  <2>10. wanted = {slot(recs[n][1]) : n \in 1 .. N}
    BY <2>4
  <2>11. \A n \in 1 .. N : slot(recs[n][1])[3] # 0
    BY <2>4
  <2>12. {e \in {slot(k) : k \in 0 .. greatest} : e[3] # 0} = {slot(recs[n][1]) : n \in 1 .. N}
    <3>1. ASSUME NEW k \in 0 .. greatest, slot(k)[3] # 0
          PROVE  slot(k) \in {slot(recs[n][1]) : n \in 1 .. N}
      BY <2>5, <3>1
    <3> QED
      BY <2>9, <2>11, <3>1
  <2> HIDE DEF index, wanted
  <2>13. {e \in ToSet(index) : e[3] # 0} = wanted
    BY <2>8, <2>10, <2>12
  <2> QED
    BY <2>7, <2>13 DEF index, wanted
<1>7. CASE b \notin {"sorted", "direct"}
  <2> DEFINE header == <<b, N, 0>>
  <2>1. index = <<header>> \o entries
    BY <1>1, <1>7 DEF IndexFile
  <2>2. <<header>> \in Seq(Element) /\ Len(<<header>>) = 1 /\ <<header>>[1] = header /\ header[3] = 0
    BY DEF Element
  <2> HIDE DEF entries, header
  <2>3. /\ index \in Seq(Element) /\ Len(index) = N + 1
        /\ \A i \in 1 .. N + 1 : index[i] = IF i <= 1 THEN <<header>>[i] ELSE entries[i - 1]
    BY <1>4, <2>1, <2>2, ConcatProperties
  <2>4. DOMAIN index = 1 .. N + 1
    BY <2>3, LenProperties
  <2>5. index[1] = header /\ \A n \in 1 .. N : index[n + 1] = entries[n]
    BY <2>2, <2>3
  <2>6. \A i \in 1 .. N + 1 : i = 1 \/ (i - 1 \in 1 .. N /\ i = (i - 1) + 1)
    OBVIOUS
  <2>7. \A n \in 1 .. N : n + 1 \in 1 .. N + 1
    OBVIOUS
  <2> HIDE DEF index
  <2>8. ToSet(index) = {header} \cup {entries[n] : n \in 1 .. N}
    <3>1. ToSet(index) = {index[i] : i \in 1 .. N + 1}
      BY <2>4 DEF ToSet
    <3>2. ASSUME NEW i \in 1 .. N + 1
          PROVE  index[i] \in {header} \cup {entries[n] : n \in 1 .. N}
      <4>1. CASE i = 1
        BY <2>5, <4>1
      <4>2. CASE i # 1
        <5>1. i - 1 \in 1 .. N /\ index[(i - 1) + 1] = entries[i - 1] /\ (i - 1) + 1 = i
          BY <2>5, <2>6, <4>2
        <5> QED
          BY <5>1
      <4> QED
        BY <4>1, <4>2
    <3>3. 1 \in 1 .. N + 1
      OBVIOUS
    <3>4. \A e \in {header} \cup {entries[n] : n \in 1 .. N} : \E i \in 1 .. N + 1 : e = index[i]
      BY <2>5, <2>7, <3>3
    <3> QED
      BY <3>1, <3>2, <3>4
  <2>9. {e \in ToSet(index) : e[3] # 0} = {entries[n] : n \in 1 .. N}
    BY <1>3, <2>2, <2>8 DEF header
  <2> QED
    BY <2>3, <2>9 DEF index, entries
<1> QED
  BY <1>5, <1>6, <1>7

\* They are as many as the records, and the lookup through them gives the latest puts.
LEMMA LookupFrozen ==
  ASSUME NEW puts \in Seq(Key \X Value), NEW m, m.backend \in Backend, m.backend # "log", NEW files,
         files["index"] = IndexFile(m.backend, Deduped(puts)),
         files["values"] = [n \in DOMAIN Deduped(puts) |-> Deduped(puts)[n][2]]
  PROVE  /\ Cardinality(Entries(files)) = Len(Deduped(puts))
         /\ Lookup(m, files) = LatestMap(puts)
<1> DEFINE recs == Deduped(puts)
           N == Cardinality(PutKeys(puts))
           b == m.backend
<1>1. /\ N \in Nat /\ recs \in [1 .. N -> Key \X Value]
      /\ \A i, j \in 1 .. N : i < j => recs[i][1] < recs[j][1]
      /\ \A n \in 1 .. N : recs[n][2] = LatestMap(puts)[recs[n][1]]
      /\ \A k \in Key : Indices(puts, k) # {} => \E n \in 1 .. N : recs[n][1] = k
      /\ \A n \in 1 .. N : Indices(puts, recs[n][1]) # {}
  BY DedupedShape
<1> HIDE DEF N, recs
<1>2. Len(recs) = N /\ DOMAIN recs = 1 .. N
  BY <1>1, LenProperties
<1>3. Entries(files) = {<<b, recs[n][1], n>> : n \in 1 .. N}
  BY <1>1, IndexEntries DEF Entries, recs
<1>4. Cardinality(Entries(files)) = N
  <2> DEFINE f == [n \in 1 .. N |-> <<b, recs[n][1], n>>]
  <2>1. f \in Bijection(1 .. N, Entries(files))
    <3>1. f \in [1 .. N -> Entries(files)] /\ \A e \in Entries(files) : \E n \in 1 .. N : f[n] = e
      BY <1>3
    <3>2. \A i, j \in 1 .. N : f[i] = f[j] => i = j
      OBVIOUS
    <3> QED
      BY <3>1, <3>2 DEF Bijection, Injection, Surjection, IsInjective
  <2> HIDE DEF f
  <2>2. IsFiniteSet(1 .. N) /\ Cardinality(1 .. N) = N
    BY <1>1, FS_Interval
  <2> QED
    BY <2>1, <2>2, FS_Bijection DEF ExistsBijection
<1>5. \A n \in 1 .. N : files["values"][n] = recs[n][2]
  BY <1>2 DEF recs
<1> DEFINE hits(k) == {e[3] : e \in {entry \in Entries(files) : entry[2] = k}}
<1>6. ASSUME NEW k
      PROVE  hits(k) = {n \in 1 .. N : recs[n][1] = k}
  <2>1. \A e \in Entries(files) : e[3] \in 1 .. N /\ e[2] = recs[e[3]][1]
    BY <1>3
  <2>2. ASSUME NEW n \in 1 .. N PROVE \E e \in Entries(files) : e[3] = n
    <3>1. <<b, recs[n][1], n>> \in Entries(files)
      BY <1>3
    <3>2. <<b, recs[n][1], n>>[3] = n
      OBVIOUS
    <3> QED
      BY <3>1, <3>2
  <2> QED
    BY <2>1, <2>2
<1> HIDE DEF hits
<1>7. ASSUME NEW k \in Key
      PROVE  (IF hits(k) = {} THEN Absent ELSE files["values"][Max(hits(k))]) = LatestMap(puts)[k]
  <2>1. CASE Indices(puts, k) = {}
    <3>1. hits(k) = {}
      BY <1>1, <1>6, <2>1
    <3> QED
      BY <2>1, <3>1 DEF LatestMap
  <2>2. CASE Indices(puts, k) # {}
    <3>1. PICK n \in 1 .. N : recs[n][1] = k
      BY <1>1, <2>2
    <3>2. \A i \in 1 .. N : recs[i][1] = k => i = n
      <4>1. \A i \in 1 .. N : recs[i][1] \in Nat
        BY <1>1, StoreConstants
      <4> QED
        BY <1>1, <3>1, <4>1
    <3>3. hits(k) = {n}
      BY <1>6, <3>1, <3>2
    <3>4. Max({n}) = n
      <4>1. {n} \in SUBSET Int /\ n \in {n} /\ \A y \in {n} : y <= n
        OBVIOUS
      <4> QED
        BY <4>1, MaxUnique
    <3>5. files["values"][n] = LatestMap(puts)[k]
      BY <1>1, <1>5, <3>1
    <3>6. hits(k) # {}
      BY <3>3
    <3> QED
      BY <3>3, <3>4, <3>5, <3>6
  <2> QED
    BY <2>1, <2>2
<1>8. Lookup(m, files) =
        [k \in Key |-> IF hits(k) = {} THEN Absent ELSE files["values"][Max(hits(k))]]
  BY DEF Lookup, hits
<1>9. Lookup(m, files) = [k \in Key |-> LatestMap(puts)[k]]
  BY <1>7, <1>8
<1>10. LatestMap(puts) = [k \in Key |-> LatestMap(puts)[k]]
  BY DEF LatestMap
<1> QED
  BY <1>2, <1>4, <1>9, <1>10 DEF recs

\* A log of whole records shows the latest record of each key.
LEMMA LookupLog ==
  ASSUME NEW m, m.backend = "log", NEW files, files["log"] \in Seq(Key \X Value)
  PROVE  /\ Torn \notin ToSet(files["log"])
         /\ Lookup(m, files) = LatestMap(files["log"])
<1> DEFINE log == files["log"]
           inLog(k) == {i \in DOMAIN log : log[i] # Torn /\ log[i][1] = k}
<1>1. \A i \in DOMAIN log : log[i] \in Key \X Value /\ log[i] # Torn
  BY PutsSeq, ManifestConstants
<1>2. Torn \notin ToSet(log)
  BY <1>1 DEF ToSet
<1>3. \A k : inLog(k) = Indices(log, k)
  BY <1>1 DEF Indices
<1>4. Lookup(m, files) = [k \in Key |-> IF inLog(k) = {} THEN Absent ELSE log[Max(inLog(k))][2]]
  BY DEF Lookup
<1> HIDE DEF inLog, log
<1>5. Lookup(m, files) =
        [k \in Key |-> IF Indices(log, k) = {} THEN Absent ELSE log[Max(Indices(log, k))][2]]
  BY <1>3, <1>4
<1> QED
  BY <1>2, <1>5 DEF LatestMap, log

\* An append changes what the log shows for its key, to its value.
LEMMA LatestMapAppend ==
  ASSUME NEW log \in Seq(Key \X Value), NEW k \in Key, NEW v \in Value
  PROVE  LET new == log \o <<<<k, v>>>>
         IN  /\ new \in Seq(Key \X Value) /\ Len(new) = Len(log) + 1
             /\ LatestMap(new) = [LatestMap(log) EXCEPT ![k] = v]
<1> DEFINE new == log \o <<<<k, v>>>>
           n == Len(log)
<1>1. <<<<k, v>>>> \in Seq(Key \X Value) /\ Len(<<<<k, v>>>>) = 1 /\ <<<<k, v>>>>[1] = <<k, v>>
  OBVIOUS
<1>2. n \in Nat /\ DOMAIN log = 1 .. n
  BY LenProperties
<1>3. /\ new \in Seq(Key \X Value) /\ Len(new) = n + 1
      /\ \A i \in 1 .. n + 1 : new[i] = IF i <= n THEN log[i] ELSE <<<<k, v>>>>[i - n]
  BY <1>1, <1>2, ConcatProperties
<1> HIDE DEF new
<1>4. DOMAIN new = 1 .. n + 1
  BY <1>3, LenProperties
<1> HIDE DEF n
<1>5. new[n + 1] = <<k, v>> /\ \A i \in 1 .. n : new[i] = log[i]
  BY <1>1, <1>2, <1>3
<1>6. \A i \in 1 .. n + 1 : i \in 1 .. n \/ i = n + 1
  BY <1>2
<1>7. \A i \in 1 .. n : i \in 1 .. n + 1 /\ i <= n + 1
  BY <1>2
<1>8. n + 1 \in 1 .. n + 1 /\ n + 1 \notin 1 .. n
  BY <1>2
<1>9. Indices(new, k) = Indices(log, k) \cup {n + 1}
  BY <1>2, <1>4, <1>5, <1>6, <1>7, <1>8 DEF Indices
<1>10. Max(Indices(new, k)) = n + 1
  <2>1. n + 1 \in Indices(new, k) /\ \A y \in Indices(new, k) : y <= n + 1
    BY <1>2, <1>7, <1>9 DEF Indices
  <2>2. Indices(new, k) \in SUBSET Int
    BY <1>4 DEF Indices
  <2> QED
    BY <2>1, <2>2, MaxUnique
<1>11. \A l \in Key : l # k => Indices(new, l) = Indices(log, l)
  <2> SUFFICES ASSUME NEW l \in Key, l # k PROVE Indices(new, l) = Indices(log, l)
    OBVIOUS
  <2>1. new[n + 1][1] # l
    BY <1>5
  <2> QED
    BY <2>1, <1>2, <1>4, <1>5, <1>6, <1>7 DEF Indices
<1>12. ASSUME NEW l \in Key
       PROVE  (IF Indices(new, l) = {} THEN Absent ELSE new[Max(Indices(new, l))][2])
                 = [LatestMap(log) EXCEPT ![k] = v][l]
  <2>1. CASE l = k
    <3>1. [LatestMap(log) EXCEPT ![k] = v][k] = v
      BY DEF LatestMap
    <3> QED
      BY <2>1, <3>1, <1>5, <1>9, <1>10
  <2>2. CASE l # k
    <3>1. Indices(new, l) = Indices(log, l)
      BY <2>2, <1>11
    <3>2. [LatestMap(log) EXCEPT ![k] = v][l] = LatestMap(log)[l]
      BY <2>2 DEF LatestMap
    <3>3. Indices(log, l) # {} => Max(Indices(log, l)) \in 1 .. n
      BY LastPut DEF n
    <3> QED
      BY <3>1, <3>2, <3>3, <1>5 DEF LatestMap
  <2> QED
    BY <2>1, <2>2
<1>13. LatestMap(new) = [l \in Key |-> [LatestMap(log) EXCEPT ![k] = v][l]]
  BY <1>12 DEF LatestMap
<1>14. [LatestMap(log) EXCEPT ![k] = v] = [l \in Key |-> [LatestMap(log) EXCEPT ![k] = v][l]]
  BY DEF LatestMap
<1> QED
  BY <1>3, <1>13, <1>14 DEF new, n

-----------------------------------------------------------------------------
WriterSteps == {"freeze", "index", "append", "appendRecord", "manifest"}
ReaderSteps == {"open", "load", "reading"}

\* The record of a call has these fields; nothing more about them is needed.
Call(o) ==
  /\ o = [step |-> o.step, backend |-> o.backend, puts |-> o.puts, dup |-> o.dup, m |-> o.m]
  /\ o.step \in Step

OpShape ==
  /\ op = [c \in Client |-> op[c]]
  /\ \A c \in Client : Call(op[c])

\* What each call holds.
Discipline ==
  \A c \in Client :
    /\ op[c].step = "idle" => mode[c] = "none"
    /\ op[c].step \in WriterSteps => mode[c] = "exclusive"
    /\ op[c].step \in ReaderSteps => mode[c] = "shared"

\* A writer is alone.
Exclusion ==
  \A c, d \in Client : c # d /\ mode[c] = "exclusive" => mode[d] = "none"

StoreInv ==
  /\ OpShape
  /\ mode \in [Client -> {"none", "shared", "exclusive"}]
  /\ Discipline
  /\ Exclusion

\* Every step but the release and the death of a process keeps the lock, and
\* moves one client to a step that needs the same.
LEMMA StepKeepsInv ==
  ASSUME StoreInv, NEW c \in Client, NEW o, Call(o), op' = [op EXCEPT ![c] = o],
         UNCHANGED mode, op[c].step # "idle", o.step # "idle",
         o.step \in WriterSteps => op[c].step \in WriterSteps,
         o.step \in ReaderSteps => op[c].step \in ReaderSteps
  PROVE  StoreInv'
<1>1. OpShape'
  BY DEF StoreInv, OpShape
<1>2. Discipline'
  BY DEF StoreInv, OpShape, Discipline
<1> QED
  BY <1>1, <1>2 DEF StoreInv, Exclusion

LEMMA GotoKeepsInv ==
  ASSUME StoreInv, NEW c \in Client, NEW s \in Step, Goto(c, s), UNCHANGED mode,
         op[c].step # "idle", s # "idle",
         s \in WriterSteps => op[c].step \in WriterSteps,
         s \in ReaderSteps => op[c].step \in ReaderSteps
  PROVE  StoreInv'
<1> DEFINE o == [op[c] EXCEPT !.step = s]
<1>1. Call(o) /\ o.step = s
  BY DEF StoreInv, OpShape, Call
<1>2. op' = [op EXCEPT ![c] = o]
  BY DEF Goto
<1> QED
  BY <1>1, <1>2, StepKeepsInv

\* The same, when the call has read the manifest.
LEMMA ReadKeepsInv ==
  ASSUME StoreInv, NEW c \in Client, NEW s \in Step, GotoWithManifest(c, s), UNCHANGED mode,
         op[c].step # "idle", s # "idle",
         s \in WriterSteps => op[c].step \in WriterSteps,
         s \in ReaderSteps => op[c].step \in ReaderSteps
  PROVE  StoreInv'
<1> DEFINE o == [op[c] EXCEPT !.step = s]
           p == [op[c] EXCEPT !.step = s, !.m = manifest]
<1>1. p = [o EXCEPT !.m = manifest]
  OBVIOUS
<1>2. o = [step |-> s, backend |-> op[c].backend, puts |-> op[c].puts,
           dup |-> op[c].dup, m |-> op[c].m]
  BY DEF StoreInv, OpShape, Call
<1>3. op' = [op EXCEPT ![c] = p]
  BY DEF GotoWithManifest
<1> HIDE DEF o, p
<1>4. p = [step |-> s, backend |-> op[c].backend, puts |-> op[c].puts,
           dup |-> op[c].dup, m |-> manifest]
  BY <1>1, <1>2
<1>5. Call(p) /\ p.step = s
  BY <1>4 DEF Call
<1> QED
  BY <1>3, <1>5, StepKeepsInv

\* A call begins: it gets the lock only if nobody is in its way.
LEMMA AcquireKeepsInv ==
  ASSUME StoreInv, NEW c \in Client, NEW m \in {"shared", "exclusive"}, Lock!Acquire(c, m),
         NEW o, Call(o), op' = [op EXCEPT ![c] = o], o.step # "idle",
         o.step \in WriterSteps => m = "exclusive",
         o.step \in ReaderSteps => m = "shared"
  PROVE  StoreInv'
<1>1. mode' = [mode EXCEPT ![c] = m] /\ mode' \in [Client -> {"none", "shared", "exclusive"}]
  BY DEF StoreInv, Lock!Acquire
<1>2. OpShape'
  BY DEF StoreInv, OpShape
<1>3. Discipline'
  BY <1>1 DEF StoreInv, OpShape, Discipline
<1>4. \A d \in Client \ {c} : mode[d] # "none" => m = "shared" /\ mode[d] = "shared"
  <2>1. Lock!Compatible(c, m)
    BY DEF Lock!Acquire
  <2> QED
    BY <2>1 DEF Lock!Compatible
<1>5. Exclusion'
  BY <1>1, <1>4 DEF StoreInv, Exclusion
<1> QED
  BY <1>1, <1>2, <1>3, <1>5 DEF StoreInv

\* A call ends or its process dies.
LEMMA ReleaseKeepsInv ==
  ASSUME StoreInv, NEW c \in Client, Lock!Release({c}), op' = [op EXCEPT ![c] = Idle]
  PROVE  StoreInv'
<1>1. mode' = [mode EXCEPT ![c] = "none"] /\ mode' \in [Client -> {"none", "shared", "exclusive"}]
  BY DEF StoreInv, Lock!Release
<1>2. OpShape'
  BY DEF StoreInv, OpShape, Call, Idle, Step
<1>3. Discipline'
  BY <1>1 DEF StoreInv, OpShape, Discipline, Idle, WriterSteps, ReaderSteps
<1>4. Exclusion'
  BY <1>1 DEF StoreInv, Exclusion
<1> QED
  BY <1>1, <1>2, <1>3, <1>4 DEF StoreInv

\* Every call is idle and holds nothing.
LEMMA StoreInitInv == StoreInit => StoreInv
  <1> SUFFICES ASSUME StoreInit PROVE StoreInv
    OBVIOUS
  <1>1. \A c \in Client : op[c] = Idle /\ mode[c] = "none"
    BY DEF StoreInit
  <1>2. Call(Idle) /\ Idle.step = "idle"
    BY DEF Call, Idle, Step
  <1> QED
    BY <1>1, <1>2 DEF StoreInit, StoreInv, OpShape, Discipline, Exclusion, WriterSteps, ReaderSteps

\* Every step of a call keeps the invariant.
LEMMA StoreStepInv == StoreInv /\ [StoreNext]_storeVars => StoreInv'
  <1> SUFFICES ASSUME StoreInv, [StoreNext]_storeVars PROVE StoreInv'
    OBVIOUS
  <1> USE DEF Step, WriterSteps, ReaderSteps
  <1>1. ASSUME NEW c \in Client, NEW backend \in Backend, NEW puts \in Puts, NEW dup \in BOOLEAN,
               FreezeStart(c, backend, puts, dup)
        PROVE  StoreInv'
    <2> DEFINE o == [step |-> "freeze", backend |-> backend, puts |-> puts, dup |-> dup,
                     m |-> Missing]
    <2>1. Call(o) /\ o.step = "freeze"
      BY DEF Call
    <2>2. Lock!Acquire(c, "exclusive") /\ op' = [op EXCEPT ![c] = o]
      BY <1>1 DEF FreezeStart
    <2> QED
      BY <2>1, <2>2, AcquireKeepsInv
  <1>2. ASSUME NEW c \in Client,
               FreezeRefused(c) \/ WriteRecords(c) \/ WriteIndex(c) \/ IndexFails(c)
                 \/ ManifestFails(c)
        PROVE  StoreInv'
    BY <1>2, GotoKeepsInv DEF FreezeRefused, WriteRecords, WriteIndex, IndexFails,
                                 ManifestFails
  <1>3. ASSUME NEW c \in Client, NEW k \in Key, NEW v \in Value, AppendStart(c, k, v)
        PROVE  StoreInv'
    <2> DEFINE o == [step |-> "append", backend |-> "log", puts |-> <<<<k, v>>>>, dup |-> TRUE,
                     m |-> Missing]
    <2>1. Call(o) /\ o.step = "append"
      BY DEF Call
    <2>2. Lock!Acquire(c, "exclusive") /\ op' = [op EXCEPT ![c] = o]
      BY <1>3 DEF AppendStart, LockModeOfAppend
    <2> QED
      BY <2>1, <2>2, AcquireKeepsInv
  <1>4. ASSUME NEW c \in Client,
               AppendRefused(c) \/ AppendRecord(c) \/ WriteManifest(c) \/ WriteFails(c)
                 \/ ChecksumUnread(c)
        PROVE  StoreInv'
    BY <1>4, GotoKeepsInv
    DEF AppendRefused, AppendRecord, WriteManifest, WriteFails, ChecksumUnread, Writing
  <1>5. ASSUME NEW c \in Client, LoadFiles(c) \/ InspectReturns(c) \/ ReaderClose(c)
        PROVE  StoreInv'
    BY <1>5, GotoKeepsInv DEF LoadFiles, InspectReturns, ReaderClose
  <1>6. ASSUME NEW c \in Client, ReaderOpen(c) PROVE StoreInv'
    <2> DEFINE o == [op[c] EXCEPT !.step = "open"]
    <2>1. Call(o) /\ o.step = "open"
      BY DEF StoreInv, OpShape, Call
    <2>2. Lock!Acquire(c, "shared") /\ op' = [op EXCEPT ![c] = o]
      BY <1>6 DEF ReaderOpen, Goto
    <2> QED
      BY <2>1, <2>2, AcquireKeepsInv
  <1>7. ASSUME NEW c \in Client, AppendReadManifest(c) PROVE StoreInv'
    BY <1>7, ReadKeepsInv DEF AppendReadManifest
  <1>8. ASSUME NEW c \in Client, ReadManifest(c) PROVE StoreInv'
    BY <1>8, GotoKeepsInv, ReadKeepsInv DEF ReadManifest
  <1>9. ASSUME NEW c \in Client, Release(c) \/ Crash(c) PROVE StoreInv'
    BY <1>9, ReleaseKeepsInv DEF Release, Crash
  <1>10. CASE UNCHANGED storeVars
    BY <1>10 DEF storeVars, StoreInv, OpShape, Discipline, Exclusion
  <1> QED
    BY <1>1, <1>2, <1>3, <1>4, <1>5, <1>6, <1>7, <1>8, <1>9, <1>10
    DEF StoreNext, FreezeStep, AppendStep, ReaderStep

\* From the moment a reader begins to map the files until it has unmapped them,
\* no step of any client changes a file.
THEOREM ReadersKeepFiles == StoreSpec => ReadersPinFiles
  <1>1. ASSUME StoreInv, StoreNext, NEW r \in Client, MapsFiles(r)
        PROVE  UNCHANGED <<disk, manifest>>
    <2>1. \A c \in Client : op[c].step \notin WriterSteps
      BY <1>1 DEF StoreInv, Discipline, Exclusion, MapsFiles, WriterSteps, ReaderSteps
    <2>2. \A c \in Client : ~Writing(c)
      BY <2>1 DEF Writing, WriterSteps
    <2>3. \A c \in Client : ~ (WriteRecords(c) \/ WriteIndex(c) \/ AppendRecord(c)
                               \/ WriteManifest(c) \/ WriteFails(c) \/ ChecksumUnread(c))
      BY <2>1, <2>2 DEF WriteRecords, WriteIndex, AppendRecord, WriteManifest, WriteFails,
                         ChecksumUnread, WriterSteps
    <2> QED
      BY <1>1, <2>2, <2>3
      DEF StoreNext, FreezeStep, FreezeStart, FreezeRefused, IndexFails, ManifestFails,
          AppendStep, AppendStart, AppendRefused, AppendReadManifest, ReaderStep, ReaderOpen,
          ReadManifest, LoadFiles, InspectReturns, ReaderClose, Release, Crash
  <1>2. StoreInv /\ [StoreNext]_storeVars =>
          [(\E c \in Client : MapsFiles(c)) => UNCHANGED <<disk, manifest>>]_storeVars
    BY <1>1
  <1> QED
    BY <1>2, StoreInitInv, StoreStepInv, PTL DEF StoreSpec, ReadersPinFiles

-----------------------------------------------------------------------------
(* The types of the state, and what the record of each call says. *)

TypeInv ==
  /\ disk \in [File -> Seq(Element)]
  /\ manifest \in Manifest \cup {Missing, Torn}
  /\ \A c \in Client : /\ op[c].backend \in Backend \cup {"none", "log"}
                       /\ op[c].puts \in Seq(Key \X Value)
  /\ sound \in BOOLEAN
  /\ maps \in SUBSET [Key -> Value \cup {Absent}] /\ pending \in SUBSET maps

\* A freeze has read no manifest.  An append and a reader have read the one that
\* is still there, whole.
FreezeRecord(o) == o.m = Missing /\ o.backend \in Backend
ReadRecord(o, m) == o.m \in Manifest /\ o.m = m
OneRecord(o) == \E k \in Key, v \in Value : o.puts = <<<<k, v>>>>

StepRecord(o, m) ==
  /\ o.step = "freeze" => FreezeRecord(o) /\ o.puts \in Puts
  /\ o.step = "index" => FreezeRecord(o) /\ o.backend # "log"
  /\ o.step = "append" => OneRecord(o)
  /\ o.step = "appendRecord" => OneRecord(o) /\ ReadRecord(o, m) /\ o.m.backend = "log"
  /\ o.step = "manifest" => FreezeRecord(o) \/ (ReadRecord(o, m) /\ o.m.backend = "log")
  /\ o.step \in {"load", "reading"} => ReadRecord(o, m)

StepInv == \A c \in Client : StepRecord(op[c], manifest)

StateInv == StoreInv /\ TypeInv /\ StepInv

\* Beside a writer, the other clients are between calls or about to end one.
LEMMA WriterAlone ==
  ASSUME StoreInv, NEW c \in Client, op[c].step \in WriterSteps
  PROVE  /\ mode[c] = "exclusive"
         /\ \A d \in Client \ {c} : mode[d] = "none" /\ op[d].step \in {"idle", "release"}
<1>1. mode[c] = "exclusive"
  BY DEF StoreInv, Discipline
<1>2. ASSUME NEW d \in Client \ {c} PROVE mode[d] = "none" /\ op[d].step \in {"idle", "release"}
  <2>1. mode[d] = "none"
    BY <1>1 DEF StoreInv, Exclusion
  <2>2. op[d].step \in Step
    BY DEF StoreInv, OpShape, Call
  <2> QED
    BY <2>1, <2>2 DEF StoreInv, Discipline, Step, WriterSteps, ReaderSteps
<1> QED
  BY <1>1, <1>2

\* How the records of the calls change.
LEMMA GotoEffect ==
  ASSUME StoreInv, NEW c \in Client, NEW s, Goto(c, s)
  PROVE  /\ op'[c].step = s /\ op'[c].backend = op[c].backend /\ op'[c].puts = op[c].puts
         /\ op'[c].dup = op[c].dup /\ op'[c].m = op[c].m
         /\ \A d \in Client \ {c} : op'[d] = op[d]
<1>1. op = [d \in Client |-> op[d]] /\ Call(op[c])
  BY DEF StoreInv, OpShape
<1>2. op[c] = [step |-> op[c].step, backend |-> op[c].backend, puts |-> op[c].puts,
               dup |-> op[c].dup, m |-> op[c].m]
  BY <1>1 DEF Call
<1> DEFINE o == [op[c] EXCEPT !.step = s]
<1>3. o = [step |-> s, backend |-> op[c].backend, puts |-> op[c].puts,
           dup |-> op[c].dup, m |-> op[c].m]
  BY <1>2
<1>4. op' = [op EXCEPT ![c] = o]
  BY DEF Goto
<1> HIDE DEF o
<1>5. op'[c] = o /\ \A d \in Client \ {c} : op'[d] = op[d]
  BY <1>1, <1>4
<1> QED
  BY <1>3, <1>5

LEMMA ReadEffect ==
  ASSUME StoreInv, NEW c \in Client, NEW s, GotoWithManifest(c, s)
  PROVE  /\ op'[c].step = s /\ op'[c].backend = op[c].backend /\ op'[c].puts = op[c].puts
         /\ op'[c].dup = op[c].dup /\ op'[c].m = manifest
         /\ \A d \in Client \ {c} : op'[d] = op[d]
<1>1. op = [d \in Client |-> op[d]] /\ Call(op[c])
  BY DEF StoreInv, OpShape
<1>2. op[c] = [step |-> op[c].step, backend |-> op[c].backend, puts |-> op[c].puts,
               dup |-> op[c].dup, m |-> op[c].m]
  BY <1>1 DEF Call
<1> DEFINE o == [op[c] EXCEPT !.step = s]
           p == [op[c] EXCEPT !.step = s, !.m = manifest]
<1>3. o = [step |-> s, backend |-> op[c].backend, puts |-> op[c].puts,
           dup |-> op[c].dup, m |-> op[c].m]
  BY <1>2
<1>4. p = [o EXCEPT !.m = manifest]
  OBVIOUS
<1>5. op' = [op EXCEPT ![c] = p]
  BY DEF GotoWithManifest
<1> HIDE DEF o, p
<1>6. p = [step |-> s, backend |-> op[c].backend, puts |-> op[c].puts,
           dup |-> op[c].dup, m |-> manifest]
  BY <1>3, <1>4
<1>7. op'[c] = p /\ \A d \in Client \ {c} : op'[d] = op[d]
  BY <1>1, <1>5
<1> QED
  BY <1>6, <1>7

LEMMA RecordEffect ==
  ASSUME StoreInv, NEW c \in Client, NEW o, op' = [op EXCEPT ![c] = o]
  PROVE  op'[c] = o /\ \A d \in Client \ {c} : op'[d] = op[d]
BY DEF StoreInv, OpShape

\* A step of a call: its record stays a proper one, and the files change only
\* when nobody else has read them.
LEMMA MoveKeepsTypes ==
  ASSUME StateInv, NEW c \in Client,
         op'[c].backend \in Backend \cup {"none", "log"}, op'[c].puts \in Seq(Key \X Value),
         \A d \in Client \ {c} : op'[d] = op[d],
         disk' \in [File -> Seq(Element)], manifest' \in Manifest \cup {Missing, Torn},
         sound' \in BOOLEAN, maps' \in SUBSET [Key -> Value \cup {Absent}],
         pending' \in SUBSET maps'
  PROVE  TypeInv'
BY DEF StateInv, TypeInv

LEMMA MoveKeepsSteps ==
  ASSUME StateInv, NEW c \in Client, \A d \in Client \ {c} : op'[d] = op[d],
         op[c].step \in WriterSteps \/ UNCHANGED manifest,
         StepRecord(op'[c], manifest')
  PROVE  StepInv'
<1>1. ASSUME NEW d \in Client \ {c} PROVE StepRecord(op'[d], manifest')
  <2>1. CASE op[c].step \in WriterSteps
    <3>1. op[d].step \in {"idle", "release"}
      BY <2>1, WriterAlone DEF StateInv
    <3> QED
      BY <3>1 DEF StepRecord
  <2>2. CASE UNCHANGED manifest
    BY <2>2 DEF StateInv, StepInv
  <2> QED
    BY <2>1, <2>2
<1> QED
  BY <1>1 DEF StepInv

LEMMA WrittenTypes ==
  ASSUME StateInv, NEW c \in Client, op[c].backend \in Backend
  PROVE  /\ \A f \in {"keys", "values", "log"} : Written(c, f) \in Seq(Element)
         /\ op[c].backend # "log" => Written(c, "index") \in Seq(Element)
         /\ Deduped(op[c].puts) \in Seq(Key \X Value)
<1> DEFINE puts == op[c].puts
           recs == Deduped(puts)
           N == Cardinality(PutKeys(puts))
<1>1. puts \in Seq(Key \X Value)
  BY DEF StateInv, TypeInv
<1>2. N \in Nat /\ recs \in [1 .. N -> Key \X Value]
        /\ \A i, j \in 1 .. N : i < j => recs[i][1] < recs[j][1]
  BY <1>1, DedupedShape
<1>3. Key \subseteq Element /\ Value \subseteq Element /\ Key \X Value \subseteq Element
  BY StoreConstants DEF Element
<1> HIDE DEF puts, recs, N
<1>4. DOMAIN recs = 1 .. N /\ recs \in Seq(Key \X Value)
  BY <1>2, LenProperties
<1>5. [n \in DOMAIN recs |-> recs[n][1]] \in Seq(Element)
  <2>1. [n \in DOMAIN recs |-> recs[n][1]] \in [1 .. N -> Element]
    BY <1>2, <1>3, <1>4
  <2> QED
    BY <1>2, <2>1
<1>6. [n \in DOMAIN recs |-> recs[n][2]] \in Seq(Element)
  <2>1. [n \in DOMAIN recs |-> recs[n][2]] \in [1 .. N -> Element]
    BY <1>2, <1>3, <1>4
  <2> QED
    BY <1>2, <2>1
<1>7. puts \in Seq(Element)
  <2>1. Len(puts) \in Nat /\ puts \in [1 .. Len(puts) -> Element]
    BY <1>1, <1>3, LenProperties
  <2> QED
    BY <2>1
<1>8. op[c].backend # "log" => IndexFile(op[c].backend, recs) \in Seq(Element)
  BY <1>2, IndexEntries
<1> QED
  BY <1>4, <1>5, <1>6, <1>7, <1>8 DEF Written, recs, puts

LEMMA PartlyTypes ==
  ASSUME NEW old \in Seq(Element), NEW new \in Seq(Element)
  PROVE  Partly(old, new) \subseteq Seq(Element) /\ PartlyLog(old, new) \subseteq Seq(Element)
<1>1. Prefixes(new) \subseteq Seq(Element)
  <2> SUFFICES ASSUME NEW l \in 0 .. Len(new) PROVE SubSeq(new, 1, l) \in Seq(Element)
    BY DEF Prefixes
  <2>1. Len(new) \in Nat /\ \A i \in 1 .. l : i \in 1 .. Len(new)
    BY LenProperties
  <2>2. \A i \in 1 .. l : new[i] \in Element
    BY <2>1, ElementOfSeq
  <2> QED
    BY <2>1, <2>2, SubSeqProperties
<1>2. Partly(old, new) \subseteq Seq(Element)
  BY <1>1 DEF Partly
<1>3. Torn \in Element
  BY DEF Element
<1>4. \A part \in Prefixes(new) : Append(part, Torn) \in Seq(Element)
  BY <1>1, <1>3, AppendProperties
<1> QED
  BY <1>2, <1>4 DEF PartlyLog

LEMMA PartialDisksTypes ==
  ASSUME StateInv, NEW c \in Client, op[c].step \in WriterSteps
  PROVE  PartialDisks(c) \subseteq [File -> Seq(Element)]
<1>1. disk \in [File -> Seq(Element)]
  BY DEF StateInv, TypeInv
<1>2. StepRecord(op[c], manifest)
  BY DEF StateInv, StepInv
<1>3. File = {"index", "keys", "values", "log"}
  BY DEF File
<1>4. CASE op[c].step = "freeze"
  <2>1. \A f \in {"keys", "values", "log"} : Written(c, f) \in Seq(Element) /\ disk[f] \in Seq(Element)
    BY <1>1, <1>2, <1>3, <1>4, WrittenTypes DEF StepRecord, FreezeRecord
  <2>2. /\ Partly(disk["keys"], Written(c, "keys")) \subseteq Seq(Element)
        /\ Partly(disk["values"], Written(c, "values")) \subseteq Seq(Element)
        /\ PartlyLog(disk["log"], Written(c, "log")) \subseteq Seq(Element)
    BY <2>1, PartlyTypes
  <2>3. CASE op[c].backend = "log"
    <3>1. PartialDisks(c) =
            {[disk EXCEPT !["log"] = part] : part \in PartlyLog(disk["log"], Written(c, "log"))}
      BY <1>4, <2>3 DEF PartialDisks
    <3>2. \A part \in Seq(Element) : [disk EXCEPT !["log"] = part] \in [File -> Seq(Element)]
      BY <1>1, <1>3
    <3>3. \A part \in PartlyLog(disk["log"], Written(c, "log")) :
            [disk EXCEPT !["log"] = part] \in [File -> Seq(Element)]
      BY <2>2, <3>2
    <3> QED
      BY <3>1, <3>3
  <2>4. CASE op[c].backend # "log"
    <3>1. PartialDisks(c) = {[disk EXCEPT !["keys"] = ks, !["values"] = vs] :
             ks \in Partly(disk["keys"], Written(c, "keys")),
             vs \in Partly(disk["values"], Written(c, "values"))}
      BY <1>4, <2>4 DEF PartialDisks
    <3>2. \A ks \in Seq(Element), vs \in Seq(Element) :
            [disk EXCEPT !["keys"] = ks, !["values"] = vs] \in [File -> Seq(Element)]
      BY <1>1, <1>3
    <3>3. \A ks \in Partly(disk["keys"], Written(c, "keys")),
            vs \in Partly(disk["values"], Written(c, "values")) :
            [disk EXCEPT !["keys"] = ks, !["values"] = vs] \in [File -> Seq(Element)]
      BY <2>2, <3>2
    <3> SUFFICES ASSUME NEW left \in PartialDisks(c) PROVE left \in [File -> Seq(Element)]
      OBVIOUS
    <3>4. \E ks \in Partly(disk["keys"], Written(c, "keys")),
             vs \in Partly(disk["values"], Written(c, "values")) :
             left = [disk EXCEPT !["keys"] = ks, !["values"] = vs]
      BY <3>1
    <3> QED
      BY <3>3, <3>4
  <2> QED
    BY <2>3, <2>4
<1>5. CASE op[c].step = "index"
  <2>1. Written(c, "index") \in Seq(Element) /\ disk["index"] \in Seq(Element)
    BY <1>1, <1>2, <1>3, <1>5, WrittenTypes DEF StepRecord, FreezeRecord
  <2>2. Partly(disk["index"], Written(c, "index")) \subseteq Seq(Element)
    BY <2>1, PartlyTypes
  <2>3. PartialDisks(c) =
          {[disk EXCEPT !["index"] = part] : part \in Partly(disk["index"], Written(c, "index"))}
    BY <1>5 DEF PartialDisks
  <2>4. \A part \in Seq(Element) : [disk EXCEPT !["index"] = part] \in [File -> Seq(Element)]
    BY <1>1, <1>3
  <2>5. \A part \in Partly(disk["index"], Written(c, "index")) :
          [disk EXCEPT !["index"] = part] \in [File -> Seq(Element)]
    BY <2>2, <2>4
  <2> QED
    BY <2>3, <2>5
<1>6. CASE op[c].step = "appendRecord"
  <2>1. op[c].puts \in Seq(Element)
    <3>1. op[c].puts \in Seq(Key \X Value)
      BY DEF StateInv, TypeInv
    <3>2. Key \X Value \subseteq Element
      BY DEF Element
    <3>3. Len(op[c].puts) \in Nat /\ op[c].puts \in [1 .. Len(op[c].puts) -> Element]
      BY <3>1, <3>2, LenProperties
    <3> QED
      BY <3>3
  <2>2. PartlyLog(<<>>, op[c].puts) \subseteq Seq(Element)
    BY <2>1, PartlyTypes, EmptySeq
  <2>3. \A part \in Seq(Element) : disk["log"] \o part \in Seq(Element)
    BY <1>1, <1>3, ConcatProperties
  <2>4. \A part \in Seq(Element) : [disk EXCEPT !["log"] = @ \o part] \in [File -> Seq(Element)]
    BY <1>1, <1>3, <2>3
  <2>5. PartialDisks(c) =
          {[disk EXCEPT !["log"] = @ \o part] : part \in PartlyLog(<<>>, op[c].puts)}
    BY <1>6 DEF PartialDisks
  <2>6. \A part \in PartlyLog(<<>>, op[c].puts) :
          [disk EXCEPT !["log"] = @ \o part] \in [File -> Seq(Element)]
    BY <2>2, <2>4
  <2> QED
    BY <2>5, <2>6
<1>7. CASE op[c].step \notin {"freeze", "index", "appendRecord"}
  BY <1>1, <1>7 DEF PartialDisks
<1> QED
  BY <1>4, <1>5, <1>6, <1>7

\* The manifest of a freeze counts records and sizes and has a backend in use;
\* that of an append is the old one, one record longer.
LEMMA NewManifestType ==
  ASSUME StateInv, NEW c \in Client, op[c].step = "manifest"
  PROVE  NewManifest(c) \in Manifest
<1>1. disk \in [File -> Seq(Element)]
  BY DEF StateInv, TypeInv
<1>2. StepRecord(op[c], manifest)
  BY DEF StateInv, StepInv
<1>3. CASE op[c].m = Missing
  <2>1. op[c].backend \in Backend
    BY <1>2, <1>3, ManifestConstants DEF StepRecord, FreezeRecord, ReadRecord
  <2>2. op[c].puts \in Seq(Key \X Value) /\ Deduped(op[c].puts) \in Seq(Key \X Value)
    BY <2>1, WrittenTypes DEF StateInv, TypeInv
  <2>3. Len(op[c].puts) \in Nat /\ Len(Deduped(op[c].puts)) \in Nat
    BY <2>2, LenProperties
  <2> DEFINE files == FilesOf(op[c].backend)
  <2>4. \A f \in files : Len(Written(c, f)) \in Nat
    <3>1. \A f \in files : Written(c, f) \in Seq(Element)
      BY <2>1, WrittenTypes DEF FilesOf
    <3> QED
      BY <3>1, LenProperties
  <2>5. <<>> \in Seq(Element)
    BY EmptySeq
  <2>6. [f \in File |-> IF f \in files THEN Len(Written(c, f)) ELSE 0] \in [File -> Nat]
    BY <2>4
  <2>7. [f \in File |-> IF f \in files THEN disk[f] ELSE <<>>] \in [File -> Seq(Element)]
    BY <1>1, <2>5
  <2>8. Len(IF op[c].backend = "log" THEN op[c].puts ELSE Deduped(op[c].puts)) \in Nat
    BY <2>3
  <2> QED
    BY <1>3, <2>1, <2>6, <2>7, <2>8 DEF NewManifest, FrozenManifest, Manifest
<1>4. CASE op[c].m # Missing
  <2>1. op[c].m \in Manifest
    BY <1>2, <1>4 DEF StepRecord, FreezeRecord, ReadRecord
  <2> DEFINE m == op[c].m
             size == [m.size EXCEPT !["log"] = @ + 1]
             crc == [m.crc EXCEPT !["log"] = disk["log"]]
  <2>2. m.backend \in Backend /\ m.count + 1 \in Nat /\ size \in [File -> Nat]
          /\ crc \in [File -> Seq(Element)]
    <3>1. /\ m.backend \in Backend /\ m.count \in Nat /\ m.size \in [File -> Nat]
          /\ m.crc \in [File -> Seq(Element)] /\ "log" \in File
      BY <2>1 DEF Manifest, File
    <3> HIDE DEF m
    <3>2. m.size["log"] + 1 \in Nat /\ disk["log"] \in Seq(Element)
      BY <1>1, <3>1
    <3> QED
      BY <3>1, <3>2
  <2>3. NewManifest(c) = [backend |-> m.backend, count |-> m.count + 1, size |-> size, crc |-> crc]
    BY <1>4, <2>1 DEF NewManifest, AppendedManifest, Manifest
  <2> HIDE DEF size, crc
  <2> QED
    BY <2>2, <2>3 DEF Manifest
<1> QED
  BY <1>3, <1>4

\* A freeze leaves the latest puts; an append changes one key of what there was.
LEMMA NewMapsShape ==
  ASSUME StateInv, NEW c \in Client
  PROVE  /\ op[c].step = "freeze" => NewMaps(c) = {LatestMap(op[c].puts)}
         /\ \A k \in Key, v \in Value :
              op[c].step # "freeze" /\ op[c].puts = <<<<k, v>>>> =>
                NewMaps(c) = {[map EXCEPT ![k] = v] : map \in maps}
         /\ op[c].step \in {"freeze", "appendRecord"} =>
              NewMaps(c) \in SUBSET [Key -> Value \cup {Absent}]
<1>1. op[c].step = "freeze" => NewMaps(c) = {LatestMap(op[c].puts)}
  BY DEF NewMaps, LatestMap, Indices
<1>2. ASSUME NEW k \in Key, NEW v \in Value, op[c].step # "freeze", op[c].puts = <<<<k, v>>>>
      PROVE  NewMaps(c) = {[map EXCEPT ![k] = v] : map \in maps}
  <2>1. op[c].puts[1][1] = k /\ op[c].puts[1][2] = v
    BY <1>2
  <2> QED
    BY <1>2, <2>1 DEF NewMaps
<1>3. CASE op[c].step = "freeze"
  <2>1. op[c].puts \in Seq(Key \X Value)
    BY DEF StateInv, TypeInv
  <2> QED
    BY <1>1, <1>2, <1>3, <2>1, LatestMapIsLatest
<1>4. CASE op[c].step = "appendRecord"
  <2>1. PICK k \in Key, v \in Value : op[c].puts = <<<<k, v>>>>
    BY <1>4 DEF StateInv, StepInv, StepRecord, OneRecord
  <2>2. NewMaps(c) = {[map EXCEPT ![k] = v] : map \in maps}
    BY <1>2, <1>4, <2>1
  <2>3. \A map \in [Key -> Value \cup {Absent}] :
          [map EXCEPT ![k] = v] \in [Key -> Value \cup {Absent}]
    OBVIOUS
  <2>4. maps \in SUBSET [Key -> Value \cup {Absent}]
    BY DEF StateInv, TypeInv
  <2>5. NewMaps(c) \in SUBSET [Key -> Value \cup {Absent}]
    BY <2>2, <2>3, <2>4
  <2> QED
    BY <1>1, <1>2, <2>5
<1> QED
  BY <1>1, <1>2, <1>3, <1>4

LEMMA BegunTypes ==
  ASSUME StateInv, NEW c \in Client, op[c].step \in {"freeze", "appendRecord"}
  PROVE  /\ NewMaps(c) \in SUBSET [Key -> Value \cup {Absent}]
         /\ maps \cup NewMaps(c) \in SUBSET [Key -> Value \cup {Absent}]
         /\ pending \cup NewMaps(c) \in SUBSET (maps \cup NewMaps(c))
<1>1. NewMaps(c) \in SUBSET [Key -> Value \cup {Absent}]
  BY NewMapsShape
<1> QED
  BY <1>1 DEF StateInv, TypeInv

\* A step that changes no file and no history.
LEMMA QuietStep ==
  ASSUME StateInv, NEW c \in Client, \A d \in Client \ {c} : op'[d] = op[d],
         op'[c].backend \in Backend \cup {"none", "log"}, op'[c].puts \in Seq(Key \X Value),
         StepRecord(op'[c], manifest), UNCHANGED <<disk, manifest>>, NoHistory
  PROVE  TypeInv' /\ StepInv'
<1>1. /\ disk' = disk /\ manifest' = manifest /\ maps' = maps /\ pending' = pending
      /\ sound' = sound
  BY DEF NoHistory
<1>2. TypeInv'
  BY <1>1, MoveKeepsTypes DEF StateInv, TypeInv
<1> QED
  BY <1>1, <1>2, MoveKeepsSteps

\* The end of a call.
LEMMA QuietRelease ==
  ASSUME StateInv, NEW c \in Client, Goto(c, "release"), UNCHANGED <<disk, manifest>>, NoHistory
  PROVE  TypeInv' /\ StepInv'
<1>1. /\ op'[c].step = "release" /\ op'[c].backend = op[c].backend /\ op'[c].puts = op[c].puts
      /\ \A d \in Client \ {c} : op'[d] = op[d]
  BY GotoEffect DEF StateInv
<1>2. StepRecord(op'[c], manifest)
  BY <1>1 DEF StepRecord
<1>3. op[c].backend \in Backend \cup {"none", "log"} /\ op[c].puts \in Seq(Key \X Value)
  BY DEF StateInv, TypeInv
<1> QED
  BY <1>1, <1>2, <1>3, QuietStep

LEMMA StateInitInv == StoreInit => StateInv
<1> SUFFICES ASSUME StoreInit PROVE StateInv
  OBVIOUS
<1>1. StoreInv
  BY StoreInitInv
<1>2. \A c \in Client : op[c] = Idle
  BY DEF StoreInit
<1>3. TypeInv
  BY <1>2, EmptySeq DEF StoreInit, TypeInv, Idle
<1>4. StepInv
  BY <1>2 DEF StepInv, StepRecord, Idle
<1> QED
  BY <1>1, <1>3, <1>4 DEF StateInv

LEMMA StateStepInv == StateInv /\ [StoreNext]_storeVars => StateInv'
<1> SUFFICES ASSUME StateInv, [StoreNext]_storeVars PROVE StateInv'
  OBVIOUS
<1>0. StoreInv'
  BY StoreStepInv DEF StateInv
<1> SUFFICES TypeInv' /\ StepInv'
  BY <1>0 DEF StateInv
<1> USE DEF WriterSteps
<1>state. /\ disk \in [File -> Seq(Element)] /\ manifest \in Manifest \cup {Missing, Torn}
      /\ sound \in BOOLEAN
      /\ maps \in SUBSET [Key -> Value \cup {Absent}] /\ pending \in SUBSET maps
  BY DEF StateInv, TypeInv
<1>call. ASSUME NEW c \in Client
      PROVE  /\ op[c].backend \in Backend \cup {"none", "log"} /\ op[c].puts \in Seq(Key \X Value)
             /\ StepRecord(op[c], manifest)
  BY DEF StateInv, TypeInv, StepInv
<1>1. ASSUME NEW c \in Client, NEW backend \in Backend, NEW puts \in Puts, NEW dup \in BOOLEAN,
             FreezeStart(c, backend, puts, dup)
      PROVE  TypeInv' /\ StepInv'
  <2> DEFINE o == [step |-> "freeze", backend |-> backend, puts |-> puts, dup |-> dup,
                   m |-> Missing]
  <2>1. op'[c] = o /\ \A d \in Client \ {c} : op'[d] = op[d]
    BY <1>1, RecordEffect DEF FreezeStart, StateInv
  <2>2. StepRecord(o, manifest)
    BY DEF StepRecord, FreezeRecord
  <2>3. o.backend \in Backend \cup {"none", "log"} /\ o.puts \in Seq(Key \X Value)
    BY StoreConstants
  <2> QED
    BY <1>1, <2>1, <2>2, <2>3, QuietStep DEF FreezeStart
<1>2. ASSUME NEW c \in Client,
             \/ FreezeRefused(c) \/ IndexFails(c) \/ ManifestFails(c) \/ AppendRefused(c)
             \/ InspectReturns(c) \/ ReaderClose(c)
      PROVE  TypeInv' /\ StepInv'
  BY <1>2, QuietRelease DEF FreezeRefused, IndexFails, ManifestFails, AppendRefused,
                            InspectReturns, ReaderClose
<1>3. ASSUME NEW c \in Client, WriteRecords(c) PROVE TypeInv' /\ StepInv'
  <2>1. op[c].step = "freeze" /\ FreezeRecord(op[c])
    BY <1>3, <1>call DEF WriteRecords, StepRecord
  <2> DEFINE s == IF op[c].backend = "log" THEN "manifest" ELSE "index"
  <2>2. /\ op'[c].step = s /\ op'[c].backend = op[c].backend /\ op'[c].puts = op[c].puts
        /\ op'[c].m = op[c].m /\ \A d \in Client \ {c} : op'[d] = op[d]
    BY <1>3, GotoEffect DEF WriteRecords, StateInv
  <2>3. StepRecord(op'[c], manifest)
    BY <2>1, <2>2 DEF StepRecord, FreezeRecord
  <2>4. disk' \in [File -> Seq(Element)]
    <3>1. \A f \in FreezeFiles(c) : Written(c, f) \in Seq(Element)
      BY <2>1, WrittenTypes DEF FreezeFiles, FreezeRecord
    <3> QED
      BY <1>3, <1>state, <3>1 DEF WriteRecords
  <2>5. /\ maps' \in SUBSET [Key -> Value \cup {Absent}] /\ pending' \in SUBSET maps'
        /\ sound' \in BOOLEAN /\ manifest' = manifest
    BY <1>3, <2>1, BegunTypes DEF WriteRecords, Begun
  <2>6. TypeInv'
    BY <1>state, <1>call, <2>2, <2>4, <2>5, MoveKeepsTypes
  <2> QED
    BY <2>2, <2>3, <2>5, <2>6, MoveKeepsSteps
<1>4. ASSUME NEW c \in Client, WriteIndex(c) PROVE TypeInv' /\ StepInv'
  <2>1. op[c].step = "index" /\ FreezeRecord(op[c]) /\ op[c].backend # "log"
    BY <1>4, <1>call DEF WriteIndex, StepRecord
  <2>2. /\ op'[c].step = "manifest" /\ op'[c].backend = op[c].backend
        /\ op'[c].puts = op[c].puts /\ op'[c].m = op[c].m
        /\ \A d \in Client \ {c} : op'[d] = op[d]
    BY <1>4, GotoEffect DEF WriteIndex, StateInv
  <2>3. StepRecord(op'[c], manifest)
    BY <2>1, <2>2 DEF StepRecord, FreezeRecord
  <2>4. disk' \in [File -> Seq(Element)]
    <3>1. Written(c, "index") \in Seq(Element)
      BY <2>1, WrittenTypes DEF FreezeRecord
    <3> QED
      BY <1>4, <1>state, <3>1 DEF WriteIndex
  <2>5. /\ maps' = maps /\ pending' = pending /\ sound' = sound /\ manifest' = manifest
    BY <1>4 DEF WriteIndex, NoHistory
  <2>6. TypeInv'
    BY <1>state, <1>call, <2>2, <2>4, <2>5, MoveKeepsTypes
  <2> QED
    BY <2>2, <2>3, <2>5, <2>6, MoveKeepsSteps
<1>5. ASSUME NEW c \in Client, WriteManifest(c) \/ ChecksumUnread(c) PROVE TypeInv' /\ StepInv'
  <2>1. op[c].step = "manifest" /\ Goto(c, "release") /\ disk' = disk
    BY <1>5 DEF WriteManifest, ChecksumUnread
  <2>2. /\ op'[c].step = "release" /\ op'[c].backend = op[c].backend /\ op'[c].puts = op[c].puts
        /\ \A d \in Client \ {c} : op'[d] = op[d]
    BY <2>1, GotoEffect DEF StateInv
  <2>3. StepRecord(op'[c], manifest')
    BY <2>2 DEF StepRecord
  <2>4. manifest' \in Manifest
    <3>1. NewManifest(c) \in Manifest
      BY <2>1, NewManifestType
    <3>2. \A f \in File : [NewManifest(c) EXCEPT !.crc[f] = <<>>] \in Manifest
      BY <3>1, EmptySeq DEF Manifest
    <3> QED
      BY <1>5, <3>1, <3>2 DEF WriteManifest, ChecksumUnread
  <2>5. /\ maps' \in SUBSET [Key -> Value \cup {Absent}] /\ pending' \in SUBSET maps'
        /\ sound' \in BOOLEAN
    BY <1>5, <1>state DEF WriteManifest, ChecksumUnread, NoHistory
  <2>6. TypeInv'
    BY <1>state, <1>call, <2>1, <2>2, <2>4, <2>5, MoveKeepsTypes
  <2> QED
    BY <2>1, <2>2, <2>3, <2>6, MoveKeepsSteps
<1>6. ASSUME NEW c \in Client, NEW k \in Key, NEW v \in Value, AppendStart(c, k, v)
      PROVE  TypeInv' /\ StepInv'
  <2> DEFINE o == [step |-> "append", backend |-> "log", puts |-> <<<<k, v>>>>, dup |-> TRUE,
                   m |-> Missing]
  <2>1. op'[c] = o /\ \A d \in Client \ {c} : op'[d] = op[d]
    BY <1>6, RecordEffect DEF AppendStart, StateInv
  <2>2. StepRecord(o, manifest)
    BY DEF StepRecord, OneRecord
  <2>3. o.backend \in Backend \cup {"none", "log"} /\ o.puts \in Seq(Key \X Value)
    OBVIOUS
  <2> QED
    BY <1>6, <2>1, <2>2, <2>3, QuietStep DEF AppendStart
<1>7. ASSUME NEW c \in Client, AppendReadManifest(c) PROVE TypeInv' /\ StepInv'
  <2>1. /\ op'[c].step = "appendRecord" /\ op'[c].backend = op[c].backend
        /\ op'[c].puts = op[c].puts /\ op'[c].m = manifest
        /\ \A d \in Client \ {c} : op'[d] = op[d]
    BY <1>7, ReadEffect DEF AppendReadManifest, StateInv
  <2>2. OneRecord(op[c]) /\ manifest \in Manifest /\ manifest.backend = "log"
    BY <1>7, <1>call, <1>state DEF AppendReadManifest, StepRecord
  <2>3. StepRecord(op'[c], manifest)
    BY <2>1, <2>2 DEF StepRecord, OneRecord, ReadRecord
  <2> QED
    BY <1>7, <1>call, <2>1, <2>3, QuietStep DEF AppendReadManifest
<1>8. ASSUME NEW c \in Client, AppendRecord(c) PROVE TypeInv' /\ StepInv'
  <2>1. op[c].step = "appendRecord" /\ ReadRecord(op[c], manifest) /\ op[c].m.backend = "log"
    BY <1>8, <1>call DEF AppendRecord, StepRecord
  <2>2. /\ op'[c].step = "manifest" /\ op'[c].backend = op[c].backend
        /\ op'[c].puts = op[c].puts /\ op'[c].m = op[c].m
        /\ \A d \in Client \ {c} : op'[d] = op[d]
    BY <1>8, GotoEffect DEF AppendRecord, StateInv
  <2>3. StepRecord(op'[c], manifest)
    BY <2>1, <2>2 DEF StepRecord, ReadRecord
  <2>4. disk' \in [File -> Seq(Element)]
    <3>1. op[c].puts \in Seq(Element)
      <4>1. op[c].puts \in Seq(Key \X Value) /\ Key \X Value \subseteq Element
        BY <1>call DEF Element
      <4>2. Len(op[c].puts) \in Nat /\ op[c].puts \in [1 .. Len(op[c].puts) -> Element]
        BY <4>1, LenProperties
      <4> QED
        BY <4>2
    <3>2. disk["log"] \o op[c].puts \in Seq(Element)
      BY <1>state, <3>1, ConcatProperties DEF File
    <3> QED
      BY <1>8, <1>state, <3>2 DEF AppendRecord
  <2>5. /\ maps' \in SUBSET [Key -> Value \cup {Absent}] /\ pending' \in SUBSET maps'
        /\ sound' \in BOOLEAN /\ manifest' = manifest
    BY <1>8, <2>1, BegunTypes DEF AppendRecord, Begun
  <2>6. TypeInv'
    BY <1>state, <1>call, <2>2, <2>4, <2>5, MoveKeepsTypes
  <2> QED
    BY <2>2, <2>3, <2>5, <2>6, MoveKeepsSteps
<1>9. ASSUME NEW c \in Client, ReaderOpen(c) PROVE TypeInv' /\ StepInv'
  <2>1. /\ op'[c].step = "open" /\ op'[c].backend = op[c].backend /\ op'[c].puts = op[c].puts
        /\ \A d \in Client \ {c} : op'[d] = op[d]
    BY <1>9, GotoEffect DEF ReaderOpen, StateInv
  <2>2. StepRecord(op'[c], manifest)
    BY <2>1 DEF StepRecord
  <2> QED
    BY <1>9, <1>call, <2>1, <2>2, QuietStep DEF ReaderOpen
<1>10. ASSUME NEW c \in Client, ReadManifest(c) PROVE TypeInv' /\ StepInv'
  <2>1. CASE Goto(c, "release")
    BY <1>10, <2>1, QuietRelease DEF ReadManifest
  <2>2. CASE manifest \notin {Missing, Torn} /\ GotoWithManifest(c, "load")
    <3>1. /\ op'[c].step = "load" /\ op'[c].backend = op[c].backend
          /\ op'[c].puts = op[c].puts /\ op'[c].m = manifest
          /\ \A d \in Client \ {c} : op'[d] = op[d]
      <4>1. GotoWithManifest(c, "load") /\ StoreInv
        BY <2>2 DEF StateInv
      <4> QED
        BY <4>1, ReadEffect
    <3>2. StepRecord(op'[c], manifest)
      BY <1>state, <2>2, <3>1 DEF StepRecord, ReadRecord
    <3> QED
      BY <1>10, <1>call, <3>1, <3>2, QuietStep DEF ReadManifest
  <2> QED
    BY <1>10, <2>1, <2>2 DEF ReadManifest
<1>11. ASSUME NEW c \in Client, LoadFiles(c) PROVE TypeInv' /\ StepInv'
  <2>1. CASE Goto(c, "release")
    BY <1>11, <2>1, QuietRelease DEF LoadFiles
  <2>2. CASE Goto(c, "reading")
    <3>1. /\ op'[c].step = "reading" /\ op'[c].backend = op[c].backend
          /\ op'[c].puts = op[c].puts /\ op'[c].m = op[c].m
          /\ \A d \in Client \ {c} : op'[d] = op[d]
      BY <2>2, GotoEffect DEF StateInv
    <3>2. ReadRecord(op[c], manifest)
      BY <1>11, <1>call DEF LoadFiles, StepRecord
    <3>3. StepRecord(op'[c], manifest)
      BY <3>1, <3>2 DEF StepRecord, ReadRecord
    <3> QED
      BY <1>11, <1>call, <3>1, <3>3, QuietStep DEF LoadFiles
  <2> QED
    BY <1>11, <2>1, <2>2 DEF LoadFiles
<1>12. ASSUME NEW c \in Client, Writing(c),
              disk' \in PartialDisks(c), manifest' \in PartialManifests(c),
              op'[c].backend \in Backend \cup {"none", "log"}, op'[c].puts \in Seq(Key \X Value),
              op'[c].step \in {"idle", "release"}, \A d \in Client \ {c} : op'[d] = op[d],
              sound' \in BOOLEAN, maps' \in SUBSET [Key -> Value \cup {Absent}],
              pending' \in SUBSET maps'
       PROVE  TypeInv' /\ StepInv'
  <2>1. op[c].step \in WriterSteps
    BY <1>12 DEF Writing
  <2>2. disk' \in [File -> Seq(Element)]
    BY <1>12, <2>1, PartialDisksTypes
  <2>3. manifest' \in Manifest \cup {Missing, Torn}
    BY <1>12, <1>state, NewManifestType DEF PartialManifests
  <2>4. StepRecord(op'[c], manifest')
    BY <1>12 DEF StepRecord
  <2>5. TypeInv'
    BY <1>12, <2>2, <2>3, MoveKeepsTypes
  <2> QED
    BY <1>12, <2>1, <2>4, <2>5, MoveKeepsSteps
<1>13. ASSUME NEW c \in Client, WriteFails(c) PROVE TypeInv' /\ StepInv'
  <2>1. /\ op'[c].step = "release" /\ op'[c].backend = op[c].backend /\ op'[c].puts = op[c].puts
        /\ \A d \in Client \ {c} : op'[d] = op[d]
    BY <1>13, GotoEffect DEF WriteFails, StateInv
  <2>2. /\ sound' \in BOOLEAN /\ maps' \in SUBSET [Key -> Value \cup {Absent}]
        /\ pending' \in SUBSET maps'
    <3>1. CASE op[c].step \in {"freeze", "appendRecord"}
      BY <1>13, <3>1, BegunTypes DEF WriteFails, Begun
    <3>2. CASE op[c].step \notin {"freeze", "appendRecord"}
      BY <1>13, <3>2, <1>state DEF WriteFails, NoHistory
    <3> QED
      BY <3>1, <3>2
  <2> QED
    BY <1>13, <1>call, <2>1, <2>2, <1>12 DEF WriteFails
<1>14. Idle.step = "idle" /\ Idle.backend = "none" /\ Idle.puts \in Seq(Key \X Value)
  BY EmptySeq DEF Idle
<1>15. ASSUME NEW c \in Client, Release(c) PROVE TypeInv' /\ StepInv'
  <2>1. op'[c] = Idle /\ \A d \in Client \ {c} : op'[d] = op[d]
    BY <1>15, RecordEffect DEF Release, StateInv
  <2>2. StepRecord(Idle, manifest)
    BY <1>14 DEF StepRecord
  <2>3. /\ disk' = disk /\ manifest' = manifest /\ sound' = sound /\ maps' = maps
        /\ pending' \in SUBSET maps'
    BY <1>15, <1>state DEF Release
  <2>4. TypeInv'
    BY <1>state, <1>14, <2>1, <2>3, MoveKeepsTypes
  <2> QED
    BY <2>1, <2>2, <2>3, <2>4, MoveKeepsSteps
<1>16. ASSUME NEW c \in Client, Crash(c) PROVE TypeInv' /\ StepInv'
  <2>1. op'[c] = Idle /\ \A d \in Client \ {c} : op'[d] = op[d]
    BY <1>16, RecordEffect DEF Crash, StateInv
  <2>2. StepRecord(Idle, manifest)
    BY <1>14 DEF StepRecord
  <2>3. sound' \in BOOLEAN /\ maps' \in SUBSET [Key -> Value \cup {Absent}]
          /\ maps \subseteq maps'
    <3>1. CASE Writing(c) /\ op[c].step \in {"freeze", "appendRecord"}
      <4>1. maps' = maps \cup NewMaps(c) /\ sound' = FALSE
        BY <1>16, <3>1 DEF Crash
      <4> QED
        BY <3>1, <4>1, BegunTypes
    <3>2. CASE ~(Writing(c) /\ op[c].step \in {"freeze", "appendRecord"})
      BY <1>16, <3>2, <1>state DEF Crash
    <3> QED
      BY <3>1, <3>2
  <2>4. pending' \in SUBSET maps'
    BY <1>16, <1>state, <2>3 DEF Crash
  <2>5. CASE Writing(c)
    BY <1>16, <1>12, <1>14, <2>1, <2>3, <2>4, <2>5 DEF Crash
  <2>6. CASE ~Writing(c)
    <3>1. disk' = disk /\ manifest' = manifest
      BY <1>16, <2>6 DEF Crash
    <3>2. TypeInv'
      BY <1>state, <1>14, <2>1, <2>3, <2>4, <3>1, MoveKeepsTypes
    <3> QED
      BY <2>1, <2>2, <3>1, <3>2, MoveKeepsSteps
  <2> QED
    BY <2>5, <2>6
<1>17. CASE UNCHANGED storeVars
  BY <1>17 DEF storeVars, StateInv, TypeInv, StepInv
<1> QED
  BY <1>1, <1>2, <1>3, <1>4, <1>5, <1>6, <1>7, <1>8, <1>9, <1>10, <1>11, <1>13, <1>15, <1>16, <1>17
  DEF StoreNext, FreezeStep, AppendStep, ReaderStep

LEMMA StateInvariant == StoreSpec => []StateInv
BY StateInitInv, StateStepInv, PTL DEF StoreSpec

LEMMA StateTypes == StateInv => StoreTypeOK
<1> SUFFICES ASSUME StateInv PROVE StoreTypeOK
  OBVIOUS
<1>1. manifest \in {Missing, Torn} \/
        /\ manifest.backend \in Backend /\ manifest.count \in Nat
        /\ manifest.size \in [File -> Nat]
  BY DEF StateInv, TypeInv, Manifest
<1>2. \A c \in Client : op[c].step \in Step /\ op[c].backend \in Backend \cup {"none", "log"}
  BY DEF StateInv, StoreInv, OpShape, Call, TypeInv
<1> QED
  BY <1>1, <1>2 DEF StateInv, StoreInv, TypeInv, StoreTypeOK

\* The files, the manifest, the calls and the history keep their types: whatever
\* is written or left of a write, manifest.fce is missing, torn, or a manifest of
\* a backend in use.
THEOREM StoreTypeInvariant == StoreSpec => []StoreTypeOK
BY StateInvariant, StateTypes, PTL

-----------------------------------------------------------------------------
(* The mutation under way. *)

HistInv ==
  /\ \A c \in Client :
       /\ op[c].step \in {"freeze", "append", "appendRecord"} => pending = {}
       /\ op[c].step \in {"index", "manifest"} => pending # {} /\ sound = FALSE
  /\ pending # {} =>
       \E c \in Client : mode[c] = "exclusive" /\ op[c].step \in {"index", "manifest", "release"}
  /\ manifest \in Manifest => maps # {}

\* Whoever holds the lock, if not exclusively, or is about to get it, sees no
\* mutation under way.
LEMMA NothingPending ==
  ASSUME StateInv, HistInv, NEW c \in Client
  PROVE  /\ mode[c] = "shared" => pending = {}
         /\ \A m \in {"shared", "exclusive"} : Lock!Acquire(c, m) => pending = {}
<1>1. CASE pending = {}
  BY <1>1
<1>2. CASE pending # {}
  <2>1. PICK d \in Client : mode[d] = "exclusive"
    BY <1>2 DEF HistInv
  <2>2. mode[c] # "shared"
    BY <2>1 DEF StateInv, StoreInv, Exclusion
  <2>3. ASSUME NEW m \in {"shared", "exclusive"}, Lock!Acquire(c, m) PROVE FALSE
    <3>1. mode[c] = "none" /\ Lock!Compatible(c, m)
      BY <2>3 DEF Lock!Acquire
    <3> QED
      BY <2>1, <3>1 DEF Lock!Compatible
  <2> QED
    BY <2>2, <2>3
<1> QED
  BY <1>1, <1>2

\* A call goes on, or to its end, and has not begun or finished to write.
LEMMA HistMove ==
  ASSUME StateInv, HistInv, NEW c \in Client, \A d \in Client \ {c} : op'[d] = op[d],
         UNCHANGED mode, NoHistory, manifest' \in Manifest => maps # {},
         op'[c].step \in {"freeze", "append", "appendRecord"} =>
           op[c].step \in {"freeze", "append", "appendRecord"},
         op'[c].step \in {"index", "manifest"} => op[c].step \in {"index", "manifest"},
         op[c].step \in {"index", "manifest", "release"} =>
           op'[c].step \in {"index", "manifest", "release"}
  PROVE  HistInv'
<1>1. maps' = maps /\ pending' = pending /\ sound' = sound /\ mode' = mode
  BY DEF NoHistory
<1>2. pending' # {} =>
        \E d \in Client : mode'[d] = "exclusive" /\ op'[d].step \in {"index", "manifest", "release"}
  <2> SUFFICES ASSUME pending # {}
               PROVE  \E d \in Client : /\ mode'[d] = "exclusive"
                                        /\ op'[d].step \in {"index", "manifest", "release"}
    BY <1>1
  <2>1. PICK d \in Client : mode[d] = "exclusive" /\ op[d].step \in {"index", "manifest", "release"}
    BY DEF HistInv
  <2>2. op'[d].step \in {"index", "manifest", "release"}
    BY <2>1
  <2> QED
    BY <1>1, <2>1, <2>2
<1>3. \A d \in Client :
        /\ op'[d].step \in {"freeze", "append", "appendRecord"} => pending' = {}
        /\ op'[d].step \in {"index", "manifest"} => pending' # {} /\ sound' = FALSE
  BY <1>1 DEF HistInv
<1> QED
  BY <1>1, <1>2, <1>3 DEF HistInv

\* A call starts.
LEMMA HistStart ==
  ASSUME StateInv, HistInv, NEW c \in Client, \A d \in Client \ {c} : op'[d] = op[d],
         NEW m \in {"shared", "exclusive"}, Lock!Acquire(c, m), NoHistory, UNCHANGED manifest,
         op'[c].step \notin {"index", "manifest"}
  PROVE  HistInv'
<1>1. maps' = maps /\ pending' = pending /\ sound' = sound /\ pending = {}
  BY NothingPending DEF NoHistory
<1> QED
  BY <1>1 DEF HistInv

\* A mutation begins to write.
LEMMA HistBegin ==
  ASSUME StateInv, HistInv, NEW c \in Client, \A d \in Client \ {c} : op'[d] = op[d],
         op[c].step \in {"freeze", "appendRecord"}
  PROVE  /\ NewMaps(c) # {} /\ pending = {}
         /\ Begun(c) /\ UNCHANGED mode /\ op'[c].step \in {"index", "manifest", "release"} => HistInv'
<1>1. NewMaps(c) # {}
  <2>1. CASE op[c].step = "freeze"
    BY <2>1, NewMapsShape
  <2>2. CASE op[c].step = "appendRecord"
    <3>1. OneRecord(op[c]) /\ ReadRecord(op[c], manifest)
      BY <2>2 DEF StateInv, StepInv, StepRecord
    <3>2. maps # {}
      BY <3>1 DEF ReadRecord, HistInv
    <3>3. PICK k \in Key, v \in Value : op[c].puts = <<<<k, v>>>>
      BY <3>1 DEF OneRecord
    <3>4. NewMaps(c) = {[map EXCEPT ![k] = v] : map \in maps}
      BY <2>2, <3>3, NewMapsShape
    <3> QED
      BY <3>2, <3>4
  <2> QED
    BY <2>1, <2>2
<1>2. pending = {}
  BY DEF HistInv
<1>3. ASSUME Begun(c), UNCHANGED mode, op'[c].step \in {"index", "manifest", "release"}
      PROVE  HistInv'
  <2>1. pending' # {} /\ maps' # {} /\ sound' = FALSE
    BY <1>1, <1>3 DEF Begun
  <2>2. mode[c] = "exclusive" /\ \A d \in Client \ {c} : op[d].step \in {"idle", "release"}
    BY WriterAlone DEF StateInv, WriterSteps
  <2> QED
    BY <1>3, <2>1, <2>2 DEF HistInv
<1> QED
  BY <1>1, <1>2, <1>3

\* A call ends, or its process dies.
LEMMA HistEnd ==
  ASSUME StateInv, HistInv, NEW c \in Client, \A d \in Client \ {c} : op'[d] = op[d],
         op'[c] = Idle, Lock!Release({c}), maps \subseteq maps',
         pending' = IF mode[c] = "exclusive" THEN {} ELSE pending,
         mode[c] = "exclusive" \/ sound' = sound, manifest' \in Manifest => maps' # {}
  PROVE  HistInv'
<1>1. \A d \in Client \ {c} : mode'[d] = mode[d]
  BY DEF Lock!Release
<1>2. Idle.step = "idle"
  BY DEF Idle
<1>3. CASE mode[c] = "exclusive"
  <2>1. \A d \in Client \ {c} : op[d].step \notin {"index", "manifest"}
    BY <1>3 DEF StateInv, StoreInv, Exclusion, Discipline, WriterSteps
  <2> QED
    BY <1>2, <1>3, <2>1 DEF HistInv
<1>4. CASE mode[c] # "exclusive"
  <2>1. pending' # {} => \E d \in Client : /\ mode'[d] = "exclusive"
                                           /\ op'[d].step \in {"index", "manifest", "release"}
    BY <1>1, <1>4 DEF HistInv
  <2> QED
    BY <1>2, <1>4, <2>1 DEF HistInv
<1> QED
  BY <1>3, <1>4

LEMMA HistStepInv == StateInv /\ HistInv /\ [StoreNext]_storeVars => HistInv'
<1> SUFFICES ASSUME StateInv, HistInv, [StoreNext]_storeVars PROVE HistInv'
  OBVIOUS
<1>1. ASSUME NEW c \in Client, NEW s, Goto(c, s)
      PROVE  op'[c].step = s /\ \A d \in Client \ {c} : op'[d] = op[d]
  BY <1>1, GotoEffect DEF StateInv
<1>2. ASSUME NEW c \in Client, NEW s, GotoWithManifest(c, s)
      PROVE  op'[c].step = s /\ \A d \in Client \ {c} : op'[d] = op[d]
  BY <1>2, ReadEffect DEF StateInv
<1>3. ASSUME NEW c \in Client, NEW backend \in Backend, NEW puts \in Puts, NEW dup \in BOOLEAN,
             FreezeStart(c, backend, puts, dup)
      PROVE  HistInv'
  <2> DEFINE o == [step |-> "freeze", backend |-> backend, puts |-> puts, dup |-> dup,
                   m |-> Missing]
  <2>1. op'[c] = o /\ \A d \in Client \ {c} : op'[d] = op[d]
    BY <1>3, RecordEffect DEF FreezeStart, StateInv
  <2> QED
    BY <1>3, <2>1, HistStart DEF FreezeStart
<1>4. ASSUME NEW c \in Client, NEW k \in Key, NEW v \in Value, AppendStart(c, k, v) PROVE HistInv'
  <2> DEFINE o == [step |-> "append", backend |-> "log", puts |-> <<<<k, v>>>>, dup |-> TRUE,
                   m |-> Missing]
  <2>1. op'[c] = o /\ \A d \in Client \ {c} : op'[d] = op[d]
    BY <1>4, RecordEffect DEF AppendStart, StateInv
  <2> QED
    BY <1>4, <2>1, HistStart DEF AppendStart, LockModeOfAppend
<1>5. ASSUME NEW c \in Client, ReaderOpen(c) PROVE HistInv'
  BY <1>5, <1>1, HistStart DEF ReaderOpen
<1>6. ASSUME NEW c \in Client,
             \/ FreezeRefused(c) \/ WriteIndex(c) \/ IndexFails(c) \/ ManifestFails(c)
             \/ AppendRefused(c) \/ LoadFiles(c) \/ InspectReturns(c) \/ ReaderClose(c)
      PROVE  HistInv'
  <2>1. PICK s \in {"manifest", "reading", "release"} : Goto(c, s) /\ (s = "manifest" => op[c].step = "index")
    BY <1>6 DEF FreezeRefused, WriteIndex, IndexFails, ManifestFails, AppendRefused,
                LoadFiles, InspectReturns, ReaderClose
  <2>2. UNCHANGED <<mode, manifest>> /\ NoHistory /\ op[c].step # "release"
          /\ (op[c].step \in {"index", "manifest"} => s # "reading")
    BY <1>6, <1>1, <2>1 DEF FreezeRefused, WriteIndex, IndexFails, ManifestFails, AppendRefused,
                LoadFiles, InspectReturns, ReaderClose
  <2>3. op'[c].step = s /\ \A d \in Client \ {c} : op'[d] = op[d]
    BY <1>1, <2>1
  <2>4. manifest' \in Manifest => maps # {}
    BY <2>2 DEF HistInv
  <2> QED
    BY <2>1, <2>2, <2>3, <2>4, HistMove
<1>7. ASSUME NEW c \in Client, AppendReadManifest(c) \/ ReadManifest(c) PROVE HistInv'
  <2>1. UNCHANGED <<mode, manifest>> /\ NoHistory /\ op[c].step \in {"append", "open"}
    BY <1>7 DEF AppendReadManifest, ReadManifest
  <2>2. /\ op'[c].step \in {"appendRecord", "load", "release"}
        /\ op'[c].step = "appendRecord" => op[c].step = "append"
        /\ \A d \in Client \ {c} : op'[d] = op[d]
    BY <1>7, <1>1, <1>2 DEF AppendReadManifest, ReadManifest
  <2>3. manifest' \in Manifest => maps # {}
    BY <2>1 DEF HistInv
  <2> QED
    BY <2>1, <2>2, <2>3, HistMove
<1>8. ASSUME NEW c \in Client, WriteRecords(c) \/ AppendRecord(c) PROVE HistInv'
  <2>1. op[c].step \in {"freeze", "appendRecord"} /\ Begun(c) /\ UNCHANGED mode
    BY <1>8 DEF WriteRecords, AppendRecord
  <2>2. op'[c].step \in {"index", "manifest"} /\ \A d \in Client \ {c} : op'[d] = op[d]
    BY <1>8, <1>1 DEF WriteRecords, AppendRecord
  <2> QED
    BY <2>1, <2>2, HistBegin
<1>9. ASSUME NEW c \in Client, op[c].step \in {"index", "manifest"} PROVE maps # {}
  BY <1>9 DEF HistInv, StateInv, TypeInv
<1>10. ASSUME NEW c \in Client, WriteManifest(c) PROVE HistInv'
  <2>1. pending' = {} /\ maps' = pending /\ pending # {} /\ op[c].step = "manifest"
    BY <1>10 DEF WriteManifest, HistInv
  <2>2. op'[c].step = "release" /\ \A d \in Client \ {c} : op'[d] = op[d]
    BY <1>10, <1>1 DEF WriteManifest
  <2>3. \A d \in Client \ {c} : op[d].step \in {"idle", "release"}
    BY <2>1, WriterAlone DEF StateInv, WriterSteps
  <2> QED
    BY <2>1, <2>2, <2>3 DEF HistInv
<1>11. ASSUME NEW c \in Client, ChecksumUnread(c) PROVE HistInv'
  <2>1. op[c].step = "manifest" /\ UNCHANGED mode /\ NoHistory
    BY <1>11 DEF ChecksumUnread
  <2>2. op'[c].step = "release" /\ \A d \in Client \ {c} : op'[d] = op[d]
    BY <1>11, <1>1 DEF ChecksumUnread
  <2> QED
    BY <1>9, <2>1, <2>2, HistMove
<1>12. ASSUME NEW c \in Client, manifest' \in PartialManifests(c), manifest' \in Manifest
       PROVE  maps # {}
  <2>1. CASE op[c].step = "manifest"
    BY <2>1, <1>9
  <2>2. CASE op[c].step # "manifest"
    BY <1>12, <2>2 DEF PartialManifests, HistInv
  <2> QED
    BY <2>1, <2>2
<1>13. ASSUME NEW c \in Client, WriteFails(c) PROVE HistInv'
  <2>1. op'[c].step = "release" /\ (\A d \in Client \ {c} : op'[d] = op[d]) /\ UNCHANGED mode
    BY <1>13, <1>1 DEF WriteFails
  <2>2. CASE op[c].step \in {"freeze", "appendRecord"}
    BY <1>13, <2>1, <2>2, HistBegin DEF WriteFails
  <2>3. CASE op[c].step \notin {"freeze", "appendRecord"}
    <3>1. NoHistory /\ manifest' \in PartialManifests(c)
      BY <1>13, <2>3 DEF WriteFails
    <3>2. manifest' \in Manifest => maps # {}
      BY <1>12, <3>1
    <3> QED
      BY <2>1, <3>1, <3>2, HistMove
  <2> QED
    BY <2>2, <2>3
<1>14. ASSUME NEW c \in Client, Release(c) PROVE HistInv'
  <2>1. op'[c] = Idle /\ \A d \in Client \ {c} : op'[d] = op[d]
    BY <1>14, RecordEffect DEF Release, StateInv
  <2>2. manifest' \in Manifest => maps' # {}
    BY <1>14 DEF Release, HistInv
  <2> QED
    BY <1>14, <2>1, <2>2, HistEnd DEF Release
<1>15. ASSUME NEW c \in Client, Crash(c) PROVE HistInv'
  <2>1. op'[c] = Idle /\ \A d \in Client \ {c} : op'[d] = op[d]
    BY <1>15, RecordEffect DEF Crash, StateInv
  <2>2. Writing(c) => mode[c] = "exclusive"
    BY WriterAlone DEF Writing, WriterSteps, StateInv
  <2>3. maps \subseteq maps' /\ (mode[c] = "exclusive" \/ sound' = sound)
    BY <1>15, <2>2 DEF Crash
  <2>4. manifest' \in Manifest => maps # {}
    <3>1. CASE Writing(c)
      BY <1>12, <1>15, <3>1 DEF Crash
    <3>2. CASE ~Writing(c)
      BY <1>15, <3>2 DEF Crash, HistInv
    <3> QED
      BY <3>1, <3>2
  <2>5. manifest' \in Manifest => maps' # {}
    BY <2>3, <2>4
  <2>6. Lock!Release({c}) /\ pending' = IF mode[c] = "exclusive" THEN {} ELSE pending
    BY <1>15 DEF Crash
  <2> QED
    BY <2>1, <2>3, <2>5, <2>6, HistEnd
<1>16. CASE UNCHANGED storeVars
  BY <1>16 DEF storeVars, HistInv
<1> QED
  BY <1>3, <1>4, <1>5, <1>6, <1>7, <1>8, <1>10, <1>11, <1>13, <1>14, <1>15, <1>16
  DEF StoreNext, FreezeStep, AppendStep, ReaderStep

-----------------------------------------------------------------------------
(* What the files of a freeze hold, and what the manifest shows. *)

\* The files that a manifest describes, by their checksums.
Recorded(m) == [f \in File |-> IF m.size[f] = 0 THEN <<>> ELSE m.crc[f]]

\* Any files that pass for those of m show a map out of M.
Shows(m, M) == Valid(m, Recorded(m)) => Lookup(m, Recorded(m)) \in M

\* A freeze past its first write has put its records into the files it has closed.
FreezeWrote(c) ==
  op[c].step \in {"index", "manifest"} /\ FreezeRecord(op[c]) =>
    /\ pending = {LatestMap(op[c].puts)}
    /\ op[c].backend = "log" => disk["log"] = op[c].puts
    /\ op[c].backend # "log" => /\ disk["keys"] = Written(c, "keys")
                                /\ disk["values"] = Written(c, "values")
                                /\ op[c].step = "manifest" => disk["index"] = Written(c, "index")

\* An append that has come to its manifest has put its record at the end of the log.
AppendWrote(c) ==
  op[c].step = "manifest" /\ op[c].m # Missing =>
    OneRecord(op[c]) /\ \E log \in Seq(Element) : disk["log"] = log \o op[c].puts

CallWrote(c) == FreezeWrote(c) /\ AppendWrote(c)

ContentInv ==
  /\ \A c \in Client : CallWrote(c)
  /\ manifest \in Manifest /\ manifest.backend # "log" => Shows(manifest, maps)

LEMMA EmptyIsZero ==
  ASSUME NEW s \in Seq(Element)
  PROVE  Len(s) \in Nat /\ (Len(s) = 0 <=> s = <<>>)
BY LenProperties, EmptySeq

\* Files that pass validation are the recorded ones.
LEMMA ValidIsRecorded ==
  ASSUME NEW m \in Manifest, NEW files \in [File -> Seq(Element)], Valid(m, files)
  PROVE  files = Recorded(m)
<1>1. \A f \in File : files[f] = IF m.size[f] = 0 THEN <<>> ELSE m.crc[f]
  BY EmptyIsZero DEF Valid
<1> QED
  BY <1>1 DEF Recorded

\* The manifest of a freeze shows the latest puts.
LEMMA FrozenShows ==
  ASSUME StateInv, ContentInv, NEW c \in Client, op[c].step = "manifest", FreezeRecord(op[c]),
         op[c].backend # "log"
  PROVE  Shows(NewManifest(c), pending)
<1> DEFINE m == FrozenManifest(c)
           files == Recorded(m)
<1>1. NewManifest(c) = m
  BY DEF NewManifest, FreezeRecord
<1>2. m.backend = op[c].backend /\ op[c].backend \in Backend
  BY DEF FrozenManifest, FilesOf, FreezeRecord
<1>3. \A f \in {"index", "values"} : m.size[f] = Len(Written(c, f)) /\ m.crc[f] = disk[f]
  BY DEF FrozenManifest, FilesOf, File
<1>4. disk["values"] = Written(c, "values") /\ disk["index"] = Written(c, "index")
        /\ pending = {LatestMap(op[c].puts)}
  BY DEF ContentInv, CallWrote, FreezeWrote
<1>5. \A f \in {"index", "values"} : Written(c, f) \in Seq(Element)
  BY <1>2, WrittenTypes
<1> HIDE DEF m
<1>6. \A f \in {"index", "values"} : files[f] = Written(c, f)
  <2>1. \A f \in {"index", "values"} : Len(Written(c, f)) = 0 <=> Written(c, f) = <<>>
    BY <1>5, EmptyIsZero
  <2> QED
    BY <1>3, <1>4, <2>1 DEF Recorded, File
<1>7. files["index"] = IndexFile(m.backend, Deduped(op[c].puts))
        /\ files["values"] = [n \in DOMAIN Deduped(op[c].puts) |-> Deduped(op[c].puts)[n][2]]
  BY <1>2, <1>6 DEF Written
<1>8. op[c].puts \in Seq(Key \X Value)
  BY DEF StateInv, TypeInv
<1> HIDE DEF files
<1>9. Lookup(m, files) = LatestMap(op[c].puts)
  BY <1>2, <1>7, <1>8, LookupFrozen
<1> QED
  BY <1>1, <1>4, <1>9 DEF Shows, files

LEMMA NewManifestShows ==
  ASSUME StateInv, ContentInv, NEW c \in Client, op[c].step = "manifest",
         NewManifest(c).backend # "log"
  PROVE  Shows(NewManifest(c), pending)
<1>1. CASE FreezeRecord(op[c])
  <2>1. op[c].backend # "log"
    BY <1>1 DEF NewManifest, FrozenManifest, FilesOf, FreezeRecord
  <2> QED
    BY <1>1, <2>1, FrozenShows
<1>2. CASE ~FreezeRecord(op[c])
  <2>1. op[c].m \in Manifest /\ op[c].m.backend = "log"
    BY <1>2 DEF StateInv, StepInv, StepRecord, ReadRecord
  <2>2. op[c].m # Missing
    BY <2>1, ManifestConstants
  <2>3. NewManifest(c).backend = "log"
    BY <2>1, <2>2 DEF NewManifest, AppendedManifest, Manifest
  <2> QED
    BY <2>3
<1> QED
  BY <1>1, <1>2

\* A manifest whose checksum was not computed is never valid.
LEMMA UnreadShows ==
  ASSUME StateInv, NEW c \in Client, op[c].step = "manifest",
         NEW f \in File, NewManifest(c).size[f] # 0, NEW M
  PROVE  Shows([NewManifest(c) EXCEPT !.crc[f] = <<>>], M)
<1> DEFINE n == NewManifest(c)
           m == [n EXCEPT !.crc[f] = <<>>]
<1>1. n \in Manifest
  BY NewManifestType
<1> HIDE DEF n
<1>2. m.size = n.size /\ m.crc[f] = <<>>
  BY <1>1 DEF Manifest
<1> HIDE DEF m
<1>3. Recorded(m)[f] = <<>> /\ m.size[f] # 0
  BY <1>2 DEF Recorded, n
<1>4. Len(<<>>) = 0
  BY EmptySeq
<1>5. ~Valid(m, Recorded(m))
  BY <1>3, <1>4 DEF Valid
<1> QED
  BY <1>5 DEF Shows, m, n

LEMMA ContentMove ==
  ASSUME StateInv, ContentInv, NEW c \in Client, \A d \in Client \ {c} : op'[d] = op[d],
         op[c].step \in WriterSteps \/ UNCHANGED <<disk, pending>>,
         CallWrote(c)',
         manifest' \in Manifest /\ manifest'.backend # "log" => Shows(manifest', maps')
  PROVE  ContentInv'
<1>1. ASSUME NEW d \in Client \ {c} PROVE CallWrote(d)'
  <2>1. op'[d] = op[d]
    OBVIOUS
  <2>2. CASE op[c].step \in WriterSteps
    <3>1. op[d].step \in {"idle", "release"}
      BY <2>2, WriterAlone DEF StateInv
    <3> QED
      BY <2>1, <3>1 DEF CallWrote, FreezeWrote, AppendWrote
  <2>3. CASE UNCHANGED <<disk, pending>>
    <3>1. \A f \in File : Written(d, f)' = Written(d, f)
      BY <2>1 DEF Written
    <3>2. CallWrote(d)
      BY DEF ContentInv
    <3> QED
      BY <2>1, <2>3, <3>1, <3>2 DEF CallWrote, FreezeWrote, AppendWrote, FreezeRecord, OneRecord, File
  <2> QED
    BY <2>2, <2>3
<1> QED
  BY <1>1 DEF ContentInv

\* What a whole manifest shows, it goes on showing while maps grow.
LEMMA ShowsGrows ==
  ASSUME ContentInv, maps \subseteq maps', UNCHANGED manifest
  PROVE  manifest' \in Manifest /\ manifest'.backend # "log" => Shows(manifest', maps')
BY DEF ContentInv, Shows

LEMMA ContentQuiet ==
  ASSUME StateInv, ContentInv, NEW c \in Client, \A d \in Client \ {c} : op'[d] = op[d],
         UNCHANGED <<disk, manifest>>, maps \subseteq maps',
         op[c].step \in WriterSteps \/ UNCHANGED pending,
         op'[c].step \notin {"index", "manifest"}
  PROVE  ContentInv'
<1>1. CallWrote(c)'
  BY DEF CallWrote, FreezeWrote, AppendWrote
<1> QED
  BY <1>1, ShowsGrows, ContentMove

LEMMA ContentLeft ==
  ASSUME StateInv, ContentInv, NEW c \in Client, \A d \in Client \ {c} : op'[d] = op[d],
         Writing(c), manifest' \in PartialManifests(c), maps \subseteq maps',
         op'[c].step \notin {"index", "manifest"}
  PROVE  ContentInv'
<1>1. CallWrote(c)'
  BY DEF CallWrote, FreezeWrote, AppendWrote
<1>2. op[c].step \in WriterSteps
  BY DEF Writing, WriterSteps
<1>3. ASSUME manifest' \in Manifest, manifest'.backend # "log" PROVE Shows(manifest', maps')
  <2>1. CASE manifest' = manifest
    BY <1>3, <2>1, ShowsGrows
  <2>2. CASE manifest' # manifest
    <3>1. op[c].step = "manifest" /\ manifest' = NewManifest(c)
      BY <1>3, <2>2, ManifestConstants DEF PartialManifests
    <3>2. Shows(NewManifest(c), pending)
      BY <1>3, <3>1, NewManifestShows
    <3>3. pending \subseteq maps'
      BY DEF StateInv, TypeInv
    <3> QED
      BY <3>1, <3>2, <3>3 DEF Shows
  <2> QED
    BY <2>1, <2>2
<1> QED
  BY <1>1, <1>2, <1>3, ContentMove

LEMMA ContentStepInv ==
  StateInv /\ HistInv /\ ContentInv /\ [StoreNext]_storeVars => ContentInv'
<1> SUFFICES ASSUME StateInv, HistInv, ContentInv, [StoreNext]_storeVars PROVE ContentInv'
  OBVIOUS
<1> USE DEF WriterSteps
<1>1. ASSUME NEW c \in Client, NEW s, Goto(c, s)
      PROVE  /\ op'[c].step = s /\ op'[c].backend = op[c].backend /\ op'[c].puts = op[c].puts
             /\ op'[c].m = op[c].m /\ \A d \in Client \ {c} : op'[d] = op[d]
  BY <1>1, GotoEffect DEF StateInv
<1>2. ASSUME NEW c \in Client, op'[c].backend = op[c].backend, op'[c].puts = op[c].puts, NEW f \in File
      PROVE  Written(c, f)' = Written(c, f)
  BY <1>2 DEF Written
<1>3. ASSUME NEW c \in Client, NEW backend \in Backend, NEW puts \in Puts, NEW dup \in BOOLEAN,
             FreezeStart(c, backend, puts, dup)
      PROVE  ContentInv'
  <2> DEFINE o == [step |-> "freeze", backend |-> backend, puts |-> puts, dup |-> dup,
                   m |-> Missing]
  <2>1. op'[c] = o /\ \A d \in Client \ {c} : op'[d] = op[d]
    BY <1>3, RecordEffect DEF FreezeStart, StateInv
  <2> QED
    BY <1>3, <2>1, ContentQuiet DEF FreezeStart, NoHistory
<1>4. ASSUME NEW c \in Client, NEW k \in Key, NEW v \in Value, AppendStart(c, k, v)
      PROVE  ContentInv'
  <2> DEFINE o == [step |-> "append", backend |-> "log", puts |-> <<<<k, v>>>>, dup |-> TRUE,
                   m |-> Missing]
  <2>1. op'[c] = o /\ \A d \in Client \ {c} : op'[d] = op[d]
    BY <1>4, RecordEffect DEF AppendStart, StateInv
  <2> QED
    BY <1>4, <2>1, ContentQuiet DEF AppendStart, NoHistory
<1>5. ASSUME NEW c \in Client,
             \/ FreezeRefused(c) \/ IndexFails(c) \/ ManifestFails(c) \/ AppendRefused(c)
             \/ ReaderOpen(c) \/ LoadFiles(c) \/ InspectReturns(c) \/ ReaderClose(c)
      PROVE  ContentInv'
  <2>1. PICK s \in {"open", "reading", "release"} : Goto(c, s)
    BY <1>5 DEF FreezeRefused, IndexFails, ManifestFails, AppendRefused, ReaderOpen,
                LoadFiles, InspectReturns, ReaderClose
  <2>2. UNCHANGED <<disk, manifest>> /\ NoHistory
    BY <1>5 DEF FreezeRefused, IndexFails, ManifestFails, AppendRefused, ReaderOpen,
                LoadFiles, InspectReturns, ReaderClose
  <2> QED
    BY <1>1, <2>1, <2>2, ContentQuiet DEF NoHistory
<1>6. ASSUME NEW c \in Client, AppendReadManifest(c) \/ ReadManifest(c) PROVE ContentInv'
  <2>1. UNCHANGED <<disk, manifest>> /\ NoHistory
    BY <1>6 DEF AppendReadManifest, ReadManifest
  <2>2. \E s \in {"appendRecord", "load", "release"} : Goto(c, s) \/ GotoWithManifest(c, s)
    BY <1>6 DEF AppendReadManifest, ReadManifest
  <2>3. op'[c].step \in {"appendRecord", "load", "release"} /\ \A d \in Client \ {c} : op'[d] = op[d]
    BY <1>1, <2>2, ReadEffect DEF StateInv
  <2> QED
    BY <2>1, <2>3, ContentQuiet DEF NoHistory
<1>7. ASSUME NEW c \in Client, WriteRecords(c) PROVE ContentInv'
  <2>1. op[c].step = "freeze" /\ FreezeRecord(op[c])
    BY <1>7 DEF WriteRecords, StateInv, StepInv, StepRecord
  <2>2. /\ op'[c].step = IF op[c].backend = "log" THEN "manifest" ELSE "index"
        /\ op'[c].backend = op[c].backend /\ op'[c].puts = op[c].puts /\ op'[c].m = op[c].m
        /\ \A d \in Client \ {c} : op'[d] = op[d]
    BY <1>7, <1>1 DEF WriteRecords
  <2>3. pending' = {LatestMap(op[c].puts)} /\ maps \subseteq maps' /\ manifest' = manifest
    <3>1. pending = {} /\ NewMaps(c) = {LatestMap(op[c].puts)}
      BY <2>1, NewMapsShape DEF HistInv
    <3> QED
      BY <1>7, <3>1 DEF WriteRecords, Begun
  <2>4. /\ op[c].backend = "log" => disk'["log"] = op[c].puts
        /\ op[c].backend # "log" =>
             disk'["keys"] = Written(c, "keys") /\ disk'["values"] = Written(c, "values")
    BY <1>7 DEF WriteRecords, FreezeFiles, Written, File
  <2>5. LatestMap(op'[c].puts) = LatestMap(op[c].puts)
    BY <2>2
  <2>6. FreezeWrote(c)'
    BY <1>2, <2>2, <2>3, <2>4, <2>5 DEF FreezeWrote, File
  <2>7. CallWrote(c)'
    BY <2>1, <2>2, <2>6 DEF CallWrote, AppendWrote, FreezeRecord
  <2> QED
    BY <2>1, <2>2, <2>3, <2>7, ShowsGrows, ContentMove
<1>8. ASSUME NEW c \in Client, WriteIndex(c) PROVE ContentInv'
  <2>1. op[c].step = "index" /\ FreezeRecord(op[c]) /\ op[c].backend # "log"
    BY <1>8 DEF WriteIndex, StateInv, StepInv, StepRecord
  <2>2. /\ op'[c].step = "manifest" /\ op'[c].backend = op[c].backend
        /\ op'[c].puts = op[c].puts /\ op'[c].m = op[c].m
        /\ \A d \in Client \ {c} : op'[d] = op[d]
    BY <1>8, <1>1 DEF WriteIndex
  <2>3. disk'["index"] = Written(c, "index") /\ disk'["keys"] = disk["keys"]
          /\ disk'["values"] = disk["values"]
    BY <1>8 DEF WriteIndex, File, StateInv, TypeInv
  <2>4. manifest' = manifest /\ maps' = maps /\ pending' = pending
    BY <1>8 DEF WriteIndex, NoHistory
  <2>5. /\ pending = {LatestMap(op[c].puts)}
        /\ disk["keys"] = Written(c, "keys") /\ disk["values"] = Written(c, "values")
    BY <2>1 DEF ContentInv, CallWrote, FreezeWrote
  <2>6. FreezeWrote(c)'
    BY <1>2, <2>1, <2>2, <2>3, <2>4, <2>5 DEF FreezeWrote, File
  <2>7. CallWrote(c)'
    BY <2>1, <2>2, <2>6 DEF CallWrote, AppendWrote, FreezeRecord
  <2> QED
    BY <2>1, <2>2, <2>4, <2>7, ShowsGrows, ContentMove
<1>9. ASSUME NEW c \in Client, WriteManifest(c) PROVE ContentInv'
  <2>1. op[c].step = "manifest" /\ manifest' = NewManifest(c) /\ maps' = pending
    BY <1>9 DEF WriteManifest
  <2>2. op'[c].step = "release" /\ \A d \in Client \ {c} : op'[d] = op[d]
    BY <1>9, <1>1 DEF WriteManifest
  <2>3. CallWrote(c)'
    BY <2>2 DEF CallWrote, FreezeWrote, AppendWrote
  <2>4. manifest'.backend # "log" => Shows(manifest', maps')
    BY <2>1, NewManifestShows
  <2> QED
    BY <2>1, <2>2, <2>3, <2>4, ContentMove
<1>10. ASSUME NEW c \in Client, AppendRecord(c) PROVE ContentInv'
  <2>1. op[c].step = "appendRecord" /\ OneRecord(op[c]) /\ ReadRecord(op[c], manifest)
    BY <1>10 DEF AppendRecord, StateInv, StepInv, StepRecord
  <2>2. op'[c].m = op[c].m /\ op'[c].puts = op[c].puts /\ \A d \in Client \ {c} : op'[d] = op[d]
    BY <1>10, <1>1 DEF AppendRecord
  <2>3. CallWrote(c)'
    <3>1. FreezeWrote(c)'
      BY <2>1, <2>2, ManifestConstants DEF FreezeWrote, FreezeRecord, ReadRecord
    <3>2. disk["log"] \in Seq(Element) /\ disk'["log"] = disk["log"] \o op'[c].puts
      BY <1>10, <2>2 DEF AppendRecord, StateInv, TypeInv, File
    <3>3. OneRecord(op'[c])
      BY <2>1, <2>2 DEF OneRecord
    <3> QED
      BY <3>1, <3>2, <3>3 DEF CallWrote, AppendWrote
  <2>4. manifest' = manifest /\ maps \subseteq maps'
    BY <1>10 DEF AppendRecord, Begun
  <2> QED
    BY <2>1, <2>2, <2>3, <2>4, ShowsGrows, ContentMove
<1>11. ASSUME NEW c \in Client, ChecksumUnread(c) PROVE ContentInv'
  <2>1. op[c].step = "manifest"
    BY <1>11 DEF ChecksumUnread
  <2>2. PICK f \in File : /\ NewManifest(c).size[f] # 0
                          /\ manifest' = [NewManifest(c) EXCEPT !.crc[f] = <<>>]
    BY <1>11 DEF ChecksumUnread
  <2>3. op'[c].step = "release" /\ \A d \in Client \ {c} : op'[d] = op[d]
    BY <1>11, <1>1 DEF ChecksumUnread
  <2>4. CallWrote(c)'
    BY <2>3 DEF CallWrote, FreezeWrote, AppendWrote
  <2>5. Shows([NewManifest(c) EXCEPT !.crc[f] = <<>>], maps)
    BY <2>1, <2>2, UnreadShows
  <2>6. Shows(manifest', maps')
    BY <1>11, <2>2, <2>5 DEF ChecksumUnread, NoHistory
  <2> QED
    BY <2>1, <2>3, <2>4, <2>6, ContentMove
<1>12. ASSUME NEW c \in Client, WriteFails(c) PROVE ContentInv'
  <2>1. op'[c].step = "release" /\ \A d \in Client \ {c} : op'[d] = op[d]
    BY <1>12, <1>1 DEF WriteFails
  <2>2. Writing(c) /\ manifest' \in PartialManifests(c) /\ maps \subseteq maps'
    BY <1>12 DEF WriteFails, Begun, NoHistory
  <2> QED
    BY <2>1, <2>2, ContentLeft
<1>13. Idle.step = "idle"
  BY DEF Idle
<1>14. ASSUME NEW c \in Client, Release(c) PROVE ContentInv'
  <2>1. op'[c] = Idle /\ \A d \in Client \ {c} : op'[d] = op[d]
    BY <1>14, RecordEffect DEF Release, StateInv
  <2>2. CallWrote(c)'
    BY <1>13, <2>1 DEF CallWrote, FreezeWrote, AppendWrote
  <2>3. disk' = disk /\ manifest' = manifest /\ maps' = maps
    BY <1>14 DEF Release
  <2>4. CASE mode[c] # "exclusive"
    BY <1>13, <1>14, <2>1, <2>3, <2>4, ContentQuiet DEF Release
  <2>5. CASE mode[c] = "exclusive"
    <3>1. \A d \in Client \ {c} : op[d].step \notin {"index", "manifest"}
      BY <2>5 DEF StateInv, StoreInv, Exclusion, Discipline
    <3>2. \A d \in Client \ {c} : CallWrote(d)'
      BY <2>1, <3>1 DEF CallWrote, FreezeWrote, AppendWrote
    <3> QED
      BY <2>2, <2>3, <3>2, ShowsGrows DEF ContentInv
  <2> QED
    BY <2>4, <2>5
<1>15. ASSUME NEW c \in Client, Crash(c) PROVE ContentInv'
  <2>1. op'[c] = Idle /\ \A d \in Client \ {c} : op'[d] = op[d]
    BY <1>15, RecordEffect DEF Crash, StateInv
  <2>2. maps \subseteq maps'
    BY <1>15 DEF Crash
  <2>3. CASE Writing(c)
    BY <1>13, <1>15, <2>1, <2>2, <2>3, ContentLeft DEF Crash
  <2>4. CASE ~Writing(c)
    <3>1. disk' = disk /\ manifest' = manifest
      BY <1>15, <2>4 DEF Crash
    <3>2. CASE mode[c] # "exclusive"
      BY <1>13, <1>15, <2>1, <2>2, <3>1, <3>2, ContentQuiet DEF Crash
    <3>3. CASE mode[c] = "exclusive"
      <4>1. \A d \in Client \ {c} : op[d].step \notin {"index", "manifest"}
        BY <3>3 DEF StateInv, StoreInv, Exclusion, Discipline
      <4>2. \A d \in Client : CallWrote(d)'
        BY <1>13, <2>1, <4>1 DEF CallWrote, FreezeWrote, AppendWrote
      <4> QED
        BY <2>2, <3>1, <4>2, ShowsGrows DEF ContentInv
    <3> QED
      BY <3>2, <3>3
  <2> QED
    BY <2>3, <2>4
<1>16. CASE UNCHANGED storeVars
  <2>1. \A c \in Client : op'[c] = op[c]
    BY <1>16 DEF storeVars
  <2>2. \A c \in Client : CallWrote(c)'
    <3> SUFFICES ASSUME NEW c \in Client PROVE CallWrote(c)'
      OBVIOUS
    <3>1. \A f \in File : Written(c, f)' = Written(c, f)
      BY <1>2, <2>1
    <3> QED
      BY <1>16, <2>1, <3>1
      DEF storeVars, CallWrote, FreezeWrote, AppendWrote, FreezeRecord, OneRecord, ContentInv, File
  <2> QED
    BY <1>16, <2>2, ShowsGrows DEF storeVars, ContentInv
<1> QED
  BY <1>3, <1>4, <1>5, <1>6, <1>7, <1>8, <1>9, <1>10, <1>11, <1>12, <1>14, <1>15, <1>16
  DEF StoreNext, FreezeStep, AppendStep, ReaderStep

-----------------------------------------------------------------------------
(* The log, when no call dies or fails inside a write. *)

WholeWrites == Faults \cap {"write", "crash"} = {}

\* Does the manifest that the call is about to write say "log"?
LogCall(o) == o.step = "manifest" /\ (o.backend = "log" \/ o.m \in Manifest)

LogInv ==
  /\ disk["log"] \in Seq(Key \X Value)
  /\ manifest \in Manifest /\ manifest.backend = "log" => LatestMap(disk["log"]) \in maps
  /\ \A c \in Client : LogCall(op[c]) => LatestMap(disk["log"]) \in pending

\* A step that leaves the log alone.
LEMMA LogMove ==
  ASSUME StateInv, LogInv, NEW c \in Client, \A d \in Client \ {c} : op'[d] = op[d],
         disk'["log"] = disk["log"], maps \subseteq maps',
         op[c].step \in WriterSteps \/ pending \subseteq pending',
         ~LogCall(op'[c]),
         manifest' = manifest \/ (manifest'.backend = "log" => LogCall(op[c]))
  PROVE  LogInv'
<1>1. \A d \in Client : LogCall(op'[d]) => LogCall(op[d]) /\ pending \subseteq pending'
  <2> SUFFICES ASSUME NEW d \in Client, LogCall(op'[d])
               PROVE  LogCall(op[d]) /\ pending \subseteq pending'
    OBVIOUS
  <2>1. d # c /\ LogCall(op[d])
    OBVIOUS
  <2>2. op[c].step \notin WriterSteps
    BY <2>1, WriterAlone DEF StateInv, LogCall
  <2> QED
    BY <2>1, <2>2
<1>2. ASSUME manifest' \in Manifest, manifest'.backend = "log" PROVE LatestMap(disk["log"]) \in maps'
  <2>1. CASE manifest' = manifest
    BY <1>2, <2>1 DEF LogInv
  <2>2. CASE LogCall(op[c])
    BY <2>2 DEF LogInv, StateInv, TypeInv
  <2> QED
    BY <1>2, <2>1, <2>2
<1>3. LatestMap(disk'["log"]) = LatestMap(disk["log"])
  OBVIOUS
<1> QED
  BY <1>1, <1>2, <1>3 DEF LogInv

\* What a manifest about to be written says of the backend.
LEMMA LogManifest ==
  ASSUME StateInv, NEW c \in Client, op[c].step = "manifest"
  PROVE  NewManifest(c).backend = "log" <=> LogCall(op[c])
<1>1. StepRecord(op[c], manifest)
  BY DEF StateInv, StepInv
<1>2. CASE op[c].m = Missing
  BY <1>2, ManifestConstants DEF NewManifest, FrozenManifest, FilesOf, LogCall
<1>3. CASE op[c].m # Missing
  <2>1. op[c].m \in Manifest /\ op[c].m.backend = "log"
    BY <1>1, <1>3 DEF StepRecord, FreezeRecord, ReadRecord
  <2>2. NewManifest(c).backend = "log"
    BY <1>3, <2>1 DEF NewManifest, AppendedManifest, Manifest
  <2> QED
    BY <2>1, <2>2 DEF LogCall
<1> QED
  BY <1>2, <1>3

LEMMA LogStepInv ==
  WholeWrites /\ StateInv /\ HistInv /\ LogInv /\ [StoreNext]_storeVars => LogInv'
<1> SUFFICES ASSUME WholeWrites, StateInv, HistInv, LogInv, [StoreNext]_storeVars PROVE LogInv'
  OBVIOUS
<1> USE DEF WriterSteps
<1>1. ASSUME NEW c \in Client, NEW s, Goto(c, s)
      PROVE  /\ op'[c].step = s /\ op'[c].backend = op[c].backend /\ op'[c].puts = op[c].puts
             /\ op'[c].m = op[c].m /\ \A d \in Client \ {c} : op'[d] = op[d]
  BY <1>1, GotoEffect DEF StateInv
<1>2. disk \in [File -> Seq(Element)] /\ \A c \in Client : op[c].puts \in Seq(Key \X Value)
  BY DEF StateInv, TypeInv
<1>3. ASSUME NEW c \in Client, NEW backend \in Backend, NEW puts \in Puts, NEW dup \in BOOLEAN,
             FreezeStart(c, backend, puts, dup)
      PROVE  LogInv'
  <2> DEFINE o == [step |-> "freeze", backend |-> backend, puts |-> puts, dup |-> dup,
                   m |-> Missing]
  <2>1. op'[c] = o /\ \A d \in Client \ {c} : op'[d] = op[d]
    BY <1>3, RecordEffect DEF FreezeStart, StateInv
  <2>2. ~LogCall(o)
    BY DEF LogCall
  <2> QED
    BY <1>3, <2>1, <2>2, LogMove DEF FreezeStart, NoHistory
<1>4. ASSUME NEW c \in Client, NEW k \in Key, NEW v \in Value, AppendStart(c, k, v)
      PROVE  LogInv'
  <2> DEFINE o == [step |-> "append", backend |-> "log", puts |-> <<<<k, v>>>>, dup |-> TRUE,
                   m |-> Missing]
  <2>1. op'[c] = o /\ \A d \in Client \ {c} : op'[d] = op[d]
    BY <1>4, RecordEffect DEF AppendStart, StateInv
  <2>2. ~LogCall(o)
    BY DEF LogCall
  <2> QED
    BY <1>4, <2>1, <2>2, LogMove DEF AppendStart, NoHistory
<1>5. ASSUME NEW c \in Client,
             \/ FreezeRefused(c) \/ IndexFails(c) \/ ManifestFails(c) \/ AppendRefused(c)
             \/ ReaderOpen(c) \/ LoadFiles(c) \/ InspectReturns(c) \/ ReaderClose(c)
      PROVE  LogInv'
  <2>1. PICK s \in {"open", "reading", "release"} : Goto(c, s)
    BY <1>5 DEF FreezeRefused, IndexFails, ManifestFails, AppendRefused, ReaderOpen,
                LoadFiles, InspectReturns, ReaderClose
  <2>2. UNCHANGED <<disk, manifest>> /\ NoHistory
    BY <1>5 DEF FreezeRefused, IndexFails, ManifestFails, AppendRefused, ReaderOpen,
                LoadFiles, InspectReturns, ReaderClose
  <2>3. ~LogCall(op'[c]) /\ \A d \in Client \ {c} : op'[d] = op[d]
    BY <1>1, <2>1 DEF LogCall
  <2> QED
    BY <2>2, <2>3, LogMove DEF NoHistory
<1>6. ASSUME NEW c \in Client, AppendReadManifest(c) \/ ReadManifest(c) PROVE LogInv'
  <2>1. UNCHANGED <<disk, manifest>> /\ NoHistory
    BY <1>6 DEF AppendReadManifest, ReadManifest
  <2>2. \E s \in {"appendRecord", "load", "release"} : Goto(c, s) \/ GotoWithManifest(c, s)
    BY <1>6 DEF AppendReadManifest, ReadManifest
  <2>3. ~LogCall(op'[c]) /\ \A d \in Client \ {c} : op'[d] = op[d]
    BY <1>1, <2>2, ReadEffect DEF StateInv, LogCall
  <2> QED
    BY <2>1, <2>3, LogMove DEF NoHistory
<1>7. ASSUME NEW c \in Client, WriteRecords(c) PROVE LogInv'
  <2>1. op[c].step = "freeze" /\ FreezeRecord(op[c])
    BY <1>7 DEF WriteRecords, StateInv, StepInv, StepRecord
  <2>2. /\ op'[c].step = IF op[c].backend = "log" THEN "manifest" ELSE "index"
        /\ op'[c].backend = op[c].backend /\ op'[c].puts = op[c].puts /\ op'[c].m = op[c].m
        /\ \A d \in Client \ {c} : op'[d] = op[d]
    BY <1>7, <1>1 DEF WriteRecords
  <2>3. manifest' = manifest /\ maps' = maps \cup NewMaps(c) /\ pending' = pending \cup NewMaps(c)
    BY <1>7 DEF WriteRecords, Begun
  <2>4. CASE op[c].backend = "log"
    <3>1. disk'["log"] = op[c].puts
      BY <1>7, <2>4 DEF WriteRecords, FreezeFiles, Written, File
    <3>2. LatestMap(op[c].puts) \in NewMaps(c)
      BY <2>1, NewMapsShape
    <3>3. LatestMap(disk'["log"]) \in maps' /\ LatestMap(disk'["log"]) \in pending'
      BY <2>3, <3>1, <3>2
    <3> QED
      BY <1>2, <3>1, <3>3 DEF LogInv
  <2>5. CASE op[c].backend # "log"
    <3>1. disk'["log"] = disk["log"]
      BY <1>7, <2>5 DEF WriteRecords, FreezeFiles, File
    <3>2. ~LogCall(op'[c])
      BY <2>2, <2>5 DEF LogCall
    <3> QED
      BY <2>1, <2>2, <2>3, <3>1, <3>2, LogMove
  <2> QED
    BY <2>4, <2>5
<1>8. ASSUME NEW c \in Client, WriteIndex(c) PROVE LogInv'
  <2>1. op[c].step = "index" /\ FreezeRecord(op[c]) /\ op[c].backend # "log"
    BY <1>8 DEF WriteIndex, StateInv, StepInv, StepRecord
  <2>2. ~LogCall(op'[c]) /\ \A d \in Client \ {c} : op'[d] = op[d]
    BY <1>8, <1>1, <2>1, ManifestConstants DEF WriteIndex, LogCall, FreezeRecord
  <2>3. disk'["log"] = disk["log"] /\ manifest' = manifest /\ maps' = maps /\ pending' = pending
    BY <1>8, <1>2 DEF WriteIndex, NoHistory, File
  <2> QED
    BY <2>2, <2>3, LogMove
<1>9. ASSUME NEW c \in Client, AppendRecord(c) PROVE LogInv'
  <2>1. op[c].step = "appendRecord" /\ OneRecord(op[c]) /\ ReadRecord(op[c], manifest)
          /\ op[c].m.backend = "log"
    BY <1>9 DEF AppendRecord, StateInv, StepInv, StepRecord
  <2>2. PICK k \in Key, v \in Value : op[c].puts = <<<<k, v>>>>
    BY <2>1 DEF OneRecord
  <2>3. LatestMap(disk["log"]) \in maps /\ disk["log"] \in Seq(Key \X Value)
    BY <2>1 DEF ReadRecord, LogInv
  <2>4. disk'["log"] = disk["log"] \o <<<<k, v>>>>
    BY <1>9, <1>2, <2>2 DEF AppendRecord, File
  <2>5. disk'["log"] \in Seq(Key \X Value)
          /\ LatestMap(disk'["log"]) = [LatestMap(disk["log"]) EXCEPT ![k] = v]
    BY <2>3, <2>4, LatestMapAppend
  <2>6. NewMaps(c) = {[map EXCEPT ![k] = v] : map \in maps}
    BY <2>1, <2>2, NewMapsShape
  <2>7. LatestMap(disk'["log"]) \in NewMaps(c)
    BY <2>3, <2>5, <2>6
  <2>8. LatestMap(disk'["log"]) \in maps' /\ LatestMap(disk'["log"]) \in pending'
    BY <1>9, <2>7 DEF AppendRecord, Begun
  <2> QED
    BY <2>5, <2>8 DEF LogInv
<1>10. ASSUME NEW c \in Client, WriteManifest(c) PROVE LogInv'
  <2>1. op[c].step = "manifest" /\ manifest' = NewManifest(c) /\ maps' = pending /\ disk' = disk
    BY <1>10 DEF WriteManifest
  <2>2. op'[c].step = "release" /\ \A d \in Client \ {c} : op'[d] = op[d]
    BY <1>10, <1>1 DEF WriteManifest
  <2>3. manifest'.backend = "log" => LatestMap(disk["log"]) \in maps'
    BY <2>1, LogManifest DEF LogInv
  <2>4. \A d \in Client : ~LogCall(op'[d])
    BY <2>1, <2>2, WriterAlone DEF StateInv, LogCall
  <2> QED
    BY <2>1, <2>3, <2>4 DEF LogInv
<1>11. ASSUME NEW c \in Client, ChecksumUnread(c) PROVE LogInv'
  <2>1. op[c].step = "manifest" /\ disk' = disk /\ maps' = maps /\ pending' = pending
    BY <1>11 DEF ChecksumUnread, NoHistory
  <2>2. ~LogCall(op'[c]) /\ \A d \in Client \ {c} : op'[d] = op[d]
    BY <1>11, <1>1 DEF ChecksumUnread, LogCall
  <2>3. manifest'.backend = "log" => LogCall(op[c])
    <3>1. manifest'.backend = NewManifest(c).backend
      BY <1>11, <2>1, NewManifestType DEF ChecksumUnread, Manifest
    <3> QED
      BY <2>1, <3>1, LogManifest
  <2> QED
    BY <2>1, <2>2, <2>3, LogMove
<1>12. ASSUME NEW c \in Client, WriteFails(c) \/ Crash(c) PROVE FALSE
  BY <1>12 DEF WriteFails, Crash, WholeWrites
<1>13. ASSUME NEW c \in Client, Release(c) PROVE LogInv'
  <2>1. op'[c] = Idle /\ \A d \in Client \ {c} : op'[d] = op[d]
    BY <1>13, RecordEffect DEF Release, StateInv
  <2>2. ~LogCall(Idle)
    BY DEF LogCall, Idle
  <2>3. disk' = disk /\ manifest' = manifest /\ maps' = maps
    BY <1>13 DEF Release
  <2>4. CASE mode[c] # "exclusive"
    BY <1>13, <2>1, <2>2, <2>3, <2>4, LogMove DEF Release
  <2>5. CASE mode[c] = "exclusive"
    <3>1. \A d \in Client \ {c} : op[d].step # "manifest"
      BY <2>5 DEF StateInv, StoreInv, Exclusion, Discipline
    <3>2. \A d \in Client : ~LogCall(op'[d])
      BY <2>1, <2>2, <3>1 DEF LogCall
    <3> QED
      BY <2>3, <3>2 DEF LogInv
  <2> QED
    BY <2>4, <2>5
<1>14. CASE UNCHANGED storeVars
  <2>1. \A c \in Client : op'[c] = op[c]
    BY <1>14 DEF storeVars
  <2> QED
    BY <1>14, <2>1 DEF storeVars, LogInv
<1> QED
  BY <1>3, <1>4, <1>5, <1>6, <1>7, <1>8, <1>9, <1>10, <1>11, <1>12, <1>13, <1>14
  DEF StoreNext, FreezeStep, AppendStep, ReaderStep

-----------------------------------------------------------------------------
(* The invariant of the contents, and what a reader gets to see. *)

CacheInv ==
  /\ StateInv /\ HistInv /\ ContentInv
  /\ WholeWrites => LogInv

LEMMA CacheInvariant == StoreSpec => []CacheInv
<1>1. StoreInit => CacheInv
  <2> SUFFICES ASSUME StoreInit PROVE CacheInv
    OBVIOUS
  <2>1. StateInv
    BY StateInitInv
  <2>2. \A c \in Client : op[c].step = "idle"
    BY DEF StoreInit, Idle
  <2>3. manifest \notin Manifest /\ pending = {}
    BY ManifestConstants DEF StoreInit
  <2>4. HistInv
    BY <2>2, <2>3 DEF HistInv
  <2>5. ContentInv
    BY <2>2, <2>3 DEF ContentInv, CallWrote, FreezeWrote, AppendWrote
  <2>6. LogInv
    BY <2>2, <2>3, EmptySeq DEF LogInv, LogCall, StoreInit, File
  <2> QED
    BY <2>1, <2>4, <2>5, <2>6 DEF CacheInv
<1>2. CacheInv /\ [StoreNext]_storeVars => CacheInv'
  BY StateStepInv, HistStepInv, ContentStepInv, LogStepInv DEF CacheInv, WholeWrites
<1> QED
  BY <1>1, <1>2, PTL DEF StoreSpec

\* Either no log is in use, or no call dies or fails inside a write: an append
\* after a log record was cut counts it in (run store_append_after_failure).
CleanLogs == "log" \notin Backend \/ WholeWrites

\* A reader that gets past the validation shows one of the maps.
LEMMA ReaderShows ==
  ASSUME CleanLogs, CacheInv, manifest \in Manifest, Valid(manifest, disk)
  PROVE  Lookup(manifest, disk) \in maps
<1>1. disk \in [File -> Seq(Element)] /\ manifest.backend \in Backend
  BY DEF CacheInv, StateInv, TypeInv, Manifest
<1>2. CASE manifest.backend # "log"
  <2>1. disk = Recorded(manifest)
    BY <1>1, ValidIsRecorded
  <2> QED
    BY <1>2, <2>1 DEF CacheInv, ContentInv, Shows
<1>3. CASE manifest.backend = "log"
  <2>1. LogInv
    BY <1>1, <1>3 DEF CleanLogs, CacheInv
  <2>2. Lookup(manifest, disk) = LatestMap(disk["log"])
    BY <1>3, <2>1, LookupLog DEF LogInv
  <2> QED
    BY <1>3, <2>1, <2>2 DEF LogInv
<1> QED
  BY <1>2, <1>3

-----------------------------------------------------------------------------
(* Every step is one of AtomicCache, or nothing that its users can see. *)

\* While nobody starts or stops reading, and no file changes under a reader,
\* what the readers see does not change.
LEMMA ViewKept ==
  ASSUME NEW c \in Client, \A d \in Client \ {c} : op'[d] = op[d],
         UNCHANGED disk \/ \A d \in Client \ {c} : op[d].step # "reading",
         op[c].step # "reading", op'[c].step # "reading"
  PROVE  readerView' = readerView
<1>1. ASSUME NEW d \in Client
      PROVE  (IF op'[d].step = "reading" THEN Lookup(op[d].m, disk)' ELSE <<>>)
                = IF op[d].step = "reading" THEN Lookup(op[d].m, disk) ELSE <<>>
  <2>1. CASE d = c
    BY <2>1
  <2>2. CASE d # c
    <3>1. op'[d] = op[d]
      BY <2>2
    <3>2. CASE op[d].step = "reading"
      <4>1. disk' = disk
        BY <2>2, <3>2
      <4>2. Lookup(op[d].m, disk)' = Lookup(op[d].m, disk)
        BY <3>1, <4>1 DEF Lookup, Entries
      <4> QED
        BY <3>1, <3>2, <4>2
    <3>3. CASE op[d].step # "reading"
      BY <3>1, <3>3
    <3> QED
      BY <3>2, <3>3
  <2> QED
    BY <2>1, <2>2
<1> QED
  BY <1>1 DEF readerView

\* Beside a writer nobody reads.
LEMMA WriterUnseen ==
  ASSUME StateInv, NEW c \in Client, op[c].step \in WriterSteps
  PROVE  AC!NoReader /\ \A d \in Client : op[d].step # "reading"
<1>1. \A d \in Client : op[d].step # "reading"
  BY WriterAlone DEF StateInv, WriterSteps
<1> QED
  BY <1>1 DEF AC!NoReader, AC!NoMap, readerView

\* The first write of a freeze or an append, whether it succeeds, fails or dies.
LEMMA BeginMapsToAttempt ==
  ASSUME CacheInv, NEW c \in Client, op[c].step \in {"freeze", "appendRecord"},
         \A d \in Client \ {c} : op'[d] = op[d], readerView' = readerView,
         maps' = maps \cup NewMaps(c), sound' = FALSE,
         pending' \in {NewMaps(c), {}}
  PROVE  AC!ANext
<1>1. NewMaps(c) # {} /\ pending = {}
  BY HistBegin DEF CacheInv, HistInv
<1>2. AC!NoReader
  BY WriterUnseen DEF CacheInv, WriterSteps
<1>3. AC!Attempt(NewMaps(c))
  BY <1>1, <1>2 DEF AC!Attempt
<1>4. CASE op[c].step = "freeze"
  <2>1. op[c].puts \in Puts /\ op[c].puts \in Seq(Key \X Value)
    BY <1>4 DEF CacheInv, StateInv, TypeInv, StepInv, StepRecord
  <2>2. NewMaps(c) = {AC!Latest(op[c].puts)}
    BY <1>4, <2>1, NewMapsShape, LatestMapIsLatest DEF CacheInv
  <2>3. AC!BuilderFreeze(op[c].puts)
    BY <1>3, <2>2 DEF AC!BuilderFreeze
  <2> QED
    BY <2>1, <2>3 DEF AC!ANext
<1>5. CASE op[c].step = "appendRecord"
  <2>1. PICK k \in Key, v \in Value : op[c].puts = <<<<k, v>>>>
    BY <1>5 DEF CacheInv, StateInv, StepInv, StepRecord, OneRecord
  <2>2. NewMaps(c) = {[map EXCEPT ![k] = v] : map \in maps}
    BY <1>5, <2>1, NewMapsShape DEF CacheInv
  <2>3. AC!LogAppend(k, v)
    BY <1>3, <2>2 DEF AC!LogAppend
  <2> QED
    BY <2>3 DEF AC!ANext
<1> QED
  BY <1>4, <1>5

\* A reader opens.
LEMMA LoadMapsToOpen ==
  ASSUME CleanLogs, CacheInv, NEW c \in Client, LoadFiles(c)
  PROVE  AC!ANext \/ UNCHANGED AC!avars
<1>1. UNCHANGED disk /\ maps' = maps /\ sound' = sound /\ pending' = pending
  BY DEF LoadFiles, NoHistory
<1>2. CASE Goto(c, "release")
  <2>1. op'[c].step = "release" /\ \A d \in Client \ {c} : op'[d] = op[d]
    BY <1>2, GotoEffect DEF CacheInv, StateInv
  <2>2. readerView' = readerView
    BY <1>1, <2>1, ViewKept DEF LoadFiles
  <2> QED
    BY <1>1, <2>2 DEF AC!avars
<1>3. CASE Valid(op[c].m, disk) /\ Goto(c, "reading")
  <2>1. op'[c].step = "reading" /\ op'[c].m = op[c].m /\ \A d \in Client \ {c} : op'[d] = op[d]
    BY <1>3, GotoEffect DEF CacheInv, StateInv
  <2>2. op[c].step = "load" /\ op[c].m = manifest /\ manifest \in Manifest
    BY DEF LoadFiles, CacheInv, StateInv, StepInv, StepRecord, ReadRecord
  <2>3. Lookup(op[c].m, disk) \in maps
    BY <1>3, <2>2, ReaderShows
  <2>4. pending = {}
    <3>1. mode[c] = "shared"
      BY <2>2 DEF CacheInv, StateInv, StoreInv, Discipline, ReaderSteps
    <3> QED
      BY <3>1, NothingPending DEF CacheInv
  <2>5. readerView[c] = AC!NoMap
    BY <2>2 DEF readerView, AC!NoMap
  <2>6. \A d \in Client : Lookup(op'[d].m, disk') = Lookup(op[d].m, disk)
    BY <1>1, <2>1
  <2>7. readerView' = [readerView EXCEPT ![c] = Lookup(op[c].m, disk)]
    <3>1. readerView' = [d \in Client |-> IF op'[d].step = "reading" THEN Lookup(op'[d].m, disk') ELSE <<>>]
      BY DEF readerView
    <3>2. \A d \in Client : (IF op'[d].step = "reading" THEN Lookup(op'[d].m, disk') ELSE <<>>)
            = IF d = c THEN Lookup(op[c].m, disk) ELSE readerView[d]
      BY <2>1, <2>6 DEF readerView
    <3>3. readerView = [d \in Client |-> readerView[d]]
      BY DEF readerView
    <3> QED
      BY <3>1, <3>2, <3>3
  <2>8. AC!Open(c)
    BY <1>1, <2>3, <2>4, <2>5, <2>7 DEF AC!Open
  <2> QED
    BY <2>8 DEF AC!ANext
<1> QED
  BY <1>2, <1>3 DEF LoadFiles

\* A reader closes or its process dies.
LEMMA EndMapsToClose ==
  ASSUME NEW c \in Client, \A d \in Client \ {c} : op'[d] = op[d], UNCHANGED disk,
         op'[c].step # "reading", maps' = maps, sound' = sound, pending' = pending
  PROVE  AC!ANext
<1>1. \A d \in Client \ {c} : Lookup(op'[d].m, disk') = Lookup(op[d].m, disk)
  OBVIOUS
<1>2. readerView' = [d \in Client |-> IF op'[d].step = "reading" THEN Lookup(op'[d].m, disk') ELSE <<>>]
  BY DEF readerView
<1>3. \A d \in Client : (IF op'[d].step = "reading" THEN Lookup(op'[d].m, disk') ELSE <<>>)
        = IF d = c THEN AC!NoMap ELSE readerView[d]
  BY <1>1 DEF readerView, AC!NoMap
<1>4. readerView = [d \in Client |-> readerView[d]]
  BY DEF readerView
<1>5. readerView' = [readerView EXCEPT ![c] = AC!NoMap]
  BY <1>2, <1>3, <1>4
<1>6. AC!Close(c)
  BY <1>5 DEF AC!Close
<1> QED
  BY <1>6 DEF AC!ANext

LEMMA StepMapsToStep ==
  ASSUME CleanLogs, CacheInv, [StoreNext]_storeVars
  PROVE  [AC!ANext]_(AC!avars)
<1> USE DEF WriterSteps
<1>0. StateInv /\ StoreInv /\ HistInv
  BY DEF CacheInv, StateInv
<1>1. ASSUME NEW c \in Client, NEW s, Goto(c, s)
      PROVE  op'[c].step = s /\ \A d \in Client \ {c} : op'[d] = op[d]
  BY <1>0, <1>1, GotoEffect
<1>2. ASSUME NEW c \in Client, NEW s, GotoWithManifest(c, s)
      PROVE  op'[c].step = s /\ \A d \in Client \ {c} : op'[d] = op[d]
  BY <1>0, <1>2, ReadEffect
<1>3. ASSUME NEW c \in Client, \A d \in Client \ {c} : op'[d] = op[d],
             op[c].step # "reading", op'[c].step # "reading",
             UNCHANGED disk \/ op[c].step \in WriterSteps
      PROVE  readerView' = readerView
  BY <1>0, <1>3, ViewKept, WriterUnseen
<1>4. ASSUME NEW c \in Client, readerView' = readerView, NoHistory PROVE UNCHANGED AC!avars
  BY <1>4 DEF NoHistory, AC!avars
<1>5. ASSUME NEW c \in Client, NEW backend \in Backend, NEW puts \in Puts, NEW dup \in BOOLEAN,
             FreezeStart(c, backend, puts, dup)
      PROVE  UNCHANGED AC!avars
  <2> DEFINE o == [step |-> "freeze", backend |-> backend, puts |-> puts, dup |-> dup,
                   m |-> Missing]
  <2>1. op'[c] = o /\ \A d \in Client \ {c} : op'[d] = op[d]
    BY <1>0, <1>5, RecordEffect DEF FreezeStart
  <2>2. op[c].step = "idle" /\ o.step = "freeze"
    BY <1>5 DEF FreezeStart, Idle
  <2> HIDE DEF o
  <2> QED
    BY <1>3, <1>4, <1>5, <2>1, <2>2 DEF FreezeStart
<1>6. ASSUME NEW c \in Client, NEW k \in Key, NEW v \in Value, AppendStart(c, k, v)
      PROVE  UNCHANGED AC!avars
  <2> DEFINE o == [step |-> "append", backend |-> "log", puts |-> <<<<k, v>>>>, dup |-> TRUE,
                   m |-> Missing]
  <2>1. op'[c] = o /\ \A d \in Client \ {c} : op'[d] = op[d]
    BY <1>0, <1>6, RecordEffect DEF AppendStart
  <2>2. op[c].step = "idle" /\ o.step = "append"
    BY <1>6 DEF AppendStart, Idle
  <2> HIDE DEF o
  <2> QED
    BY <1>3, <1>4, <1>6, <2>1, <2>2 DEF AppendStart
<1>7. ASSUME NEW c \in Client,
             \/ FreezeRefused(c) \/ WriteIndex(c) \/ IndexFails(c) \/ ManifestFails(c)
             \/ AppendRefused(c) \/ ReaderOpen(c) \/ InspectReturns(c) \/ ChecksumUnread(c)
      PROVE  UNCHANGED AC!avars
  <2>1. PICK s \in {"manifest", "open", "release"} : Goto(c, s)
    BY <1>7 DEF FreezeRefused, WriteIndex, IndexFails, ManifestFails, AppendRefused,
                ReaderOpen, InspectReturns, ChecksumUnread
  <2>2. NoHistory /\ op[c].step # "reading" /\ (UNCHANGED disk \/ op[c].step \in WriterSteps)
    BY <1>7 DEF FreezeRefused, WriteIndex, IndexFails, ManifestFails, AppendRefused,
                ReaderOpen, InspectReturns, ChecksumUnread, Idle
  <2> QED
    BY <1>1, <1>3, <1>4, <2>1, <2>2
<1>8. ASSUME NEW c \in Client, AppendReadManifest(c) \/ ReadManifest(c) PROVE UNCHANGED AC!avars
  <2>1. UNCHANGED disk /\ NoHistory /\ op[c].step # "reading"
    BY <1>8 DEF AppendReadManifest, ReadManifest
  <2>2. \E s \in {"appendRecord", "load", "release"} : Goto(c, s) \/ GotoWithManifest(c, s)
    BY <1>8 DEF AppendReadManifest, ReadManifest
  <2> QED
    BY <1>1, <1>2, <1>3, <1>4, <2>1, <2>2
<1>9. ASSUME NEW c \in Client, WriteRecords(c) \/ AppendRecord(c) PROVE AC!ANext
  <2>1. op[c].step \in {"freeze", "appendRecord"} /\ Begun(c)
    BY <1>9 DEF WriteRecords, AppendRecord
  <2>2. op'[c].step # "reading" /\ \A d \in Client \ {c} : op'[d] = op[d]
    <3>1. \E s \in {"manifest", "index"} : Goto(c, s)
      BY <1>9 DEF WriteRecords, AppendRecord
    <3> QED
      BY <1>1, <3>1
  <2>3. readerView' = readerView
    BY <1>3, <2>1, <2>2
  <2>4. pending' = NewMaps(c)
    BY <2>1, <1>0 DEF Begun, HistInv
  <2> QED
    BY <2>1, <2>2, <2>3, <2>4, BeginMapsToAttempt DEF Begun
<1>10. ASSUME NEW c \in Client, WriteManifest(c) PROVE AC!ANext
  <2>1. op[c].step = "manifest" /\ op'[c].step = "release" /\ \A d \in Client \ {c} : op'[d] = op[d]
    BY <1>1, <1>10 DEF WriteManifest
  <2>2. readerView' = readerView
    BY <1>3, <2>1
  <2>3. AC!NoReader /\ pending # {}
    BY <1>0, <2>1, WriterUnseen DEF HistInv
  <2>4. AC!Commit
    BY <1>10, <2>2, <2>3 DEF WriteManifest, AC!Commit
  <2> QED
    BY <2>4 DEF AC!ANext
<1>11. ASSUME NEW c \in Client, LoadFiles(c) PROVE AC!ANext \/ UNCHANGED AC!avars
  BY <1>11, LoadMapsToOpen
<1>12. ASSUME NEW c \in Client, ReaderClose(c) PROVE AC!ANext
  <2>1. op'[c].step = "release" /\ \A d \in Client \ {c} : op'[d] = op[d]
    BY <1>1, <1>12 DEF ReaderClose
  <2> QED
    BY <1>12, <2>1, EndMapsToClose DEF ReaderClose, NoHistory
<1>13. ASSUME NEW c \in Client, WriteFails(c) PROVE AC!ANext \/ UNCHANGED AC!avars
  <2>1. op'[c].step = "release" /\ \A d \in Client \ {c} : op'[d] = op[d]
    BY <1>1, <1>13 DEF WriteFails
  <2>2. readerView' = readerView
    BY <1>3, <1>13, <2>1 DEF WriteFails, Writing
  <2>3. CASE op[c].step \in {"freeze", "appendRecord"}
    <3>1. Begun(c)
      BY <1>13, <2>3 DEF WriteFails
    <3>2. pending' = NewMaps(c)
      BY <1>0, <2>3, <3>1 DEF Begun, HistInv
    <3> QED
      BY <2>1, <2>2, <2>3, <3>1, <3>2, BeginMapsToAttempt DEF Begun
  <2>4. CASE op[c].step \notin {"freeze", "appendRecord"}
    BY <1>4, <1>13, <2>2, <2>4 DEF WriteFails
  <2> QED
    BY <2>3, <2>4
<1>14. ASSUME NEW c \in Client, readerView' = readerView, maps' = maps, sound' = sound,
              pending' = IF mode[c] = "exclusive" THEN {} ELSE pending
       PROVE  AC!ANext \/ UNCHANGED AC!avars
  BY <1>14 DEF AC!ANext, AC!Abandon, AC!avars
<1>15. ASSUME NEW c \in Client, Release(c) PROVE AC!ANext \/ UNCHANGED AC!avars
  <2>1. op'[c] = Idle /\ \A d \in Client \ {c} : op'[d] = op[d]
    BY <1>0, <1>15, RecordEffect DEF Release
  <2>2. readerView' = readerView
    BY <1>3, <1>15, <2>1 DEF Release, Idle
  <2> QED
    BY <1>14, <1>15, <2>2 DEF Release
<1>16. ASSUME NEW c \in Client, Crash(c) PROVE AC!ANext \/ UNCHANGED AC!avars
  <2>1. op'[c] = Idle /\ \A d \in Client \ {c} : op'[d] = op[d]
    BY <1>0, <1>16, RecordEffect DEF Crash
  <2>2. op'[c].step # "reading"
    BY <2>1 DEF Idle
  <2>3. CASE Writing(c)
    <3>1. op[c].step \in WriterSteps
      BY <2>3 DEF Writing
    <3>2. readerView' = readerView
      BY <1>3, <2>1, <2>2, <3>1
    <3>3. mode[c] = "exclusive" /\ pending' = {}
      BY <1>0, <1>16, <3>1, WriterAlone DEF Crash
    <3>4. CASE op[c].step \in {"freeze", "appendRecord"}
      <4>1. maps' = maps \cup NewMaps(c) /\ sound' = FALSE
        BY <1>16, <2>3, <3>4 DEF Crash
      <4> QED
        BY <2>1, <3>2, <3>3, <3>4, <4>1, BeginMapsToAttempt
    <3>5. CASE op[c].step \notin {"freeze", "appendRecord"}
      <4>1. maps' = maps /\ sound' = sound
        BY <1>16, <3>5 DEF Crash
      <4> QED
        BY <1>14, <3>2, <3>3, <4>1
    <3> QED
      BY <3>4, <3>5
  <2>4. CASE ~Writing(c)
    <3>1. disk' = disk /\ maps' = maps /\ sound' = sound
            /\ pending' = IF mode[c] = "exclusive" THEN {} ELSE pending
      BY <1>16, <2>4 DEF Crash
    <3>2. CASE op[c].step = "reading"
      <4>1. mode[c] = "shared"
        BY <1>0, <3>2 DEF StoreInv, Discipline, ReaderSteps
      <4> QED
        BY <2>1, <2>2, <3>1, <4>1, EndMapsToClose
    <3>3. CASE op[c].step # "reading"
      <4>1. readerView' = readerView
        BY <1>3, <2>1, <2>2, <3>1, <3>3
      <4> QED
        BY <1>14, <3>1, <4>1
    <3> QED
      BY <3>2, <3>3
  <2> QED
    BY <2>3, <2>4
<1>17. CASE UNCHANGED storeVars
  <2>1. readerView' = readerView
    BY <1>17 DEF storeVars, readerView
  <2> QED
    BY <1>17, <2>1 DEF storeVars, AC!avars
<1> QED
  BY <1>5, <1>6, <1>7, <1>8, <1>9, <1>10, <1>11, <1>12, <1>13, <1>15, <1>16, <1>17
  DEF StoreNext, FreezeStep, AppendStep, ReaderStep

\* Freeze, append and readers implement one atomic map, for any clients, keys,
\* values, puts and backends: with every fault as long as no log is in use, and
\* with logs, alone or beside tables, as long as no call dies or fails inside a
\* write.
THEOREM CacheIsAtomic == CleanLogs => (StoreSpec => ImplementsAtomicCache)
<1> SUFFICES ASSUME CleanLogs PROVE StoreSpec => ImplementsAtomicCache
  OBVIOUS
<1>1. StoreInit => AC!AInit
  <2> SUFFICES ASSUME StoreInit PROVE AC!AInit
    OBVIOUS
  <2>1. \A c \in Client : op[c].step = "idle"
    BY DEF StoreInit, Idle
  <2>2. readerView = [c \in Client |-> AC!NoMap]
    BY <2>1 DEF readerView, AC!NoMap
  <2> QED
    BY <2>2 DEF StoreInit, AC!AInit
<1>2. CacheInv /\ [StoreNext]_storeVars => [AC!ANext]_(AC!avars)
  BY StepMapsToStep
<1> QED
  BY <1>1, <1>2, CacheInvariant, PTL DEF StoreSpec, ImplementsAtomicCache, AC!ASpec

-----------------------------------------------------------------------------
(* A mutation that succeeds on a cache in order adds up. *)

\* The manifest of a freeze describes the files that the freeze has written, and
\* shows its latest puts, where there are no files of another backend.
LEMMA FrozenValid ==
  ASSUME StateInv, ContentInv, NEW c \in Client, op[c].step = "manifest", op[c].m = Missing,
         \A f \in File \ FilesOf(op[c].backend) : disk[f] = <<>>
  PROVE  /\ Valid(NewManifest(c), disk)
         /\ Lookup(NewManifest(c), disk) = LatestMap(op[c].puts)
<1> DEFINE m == NewManifest(c)
           puts == op[c].puts
           recs == Deduped(puts)
           used == FilesOf(op[c].backend)
<1>1. FreezeRecord(op[c]) /\ puts \in Seq(Key \X Value)
  BY ManifestConstants DEF StateInv, TypeInv, StepInv, StepRecord, FreezeRecord, ReadRecord
<1>2. /\ m.backend = op[c].backend /\ m.backend \in Backend
      /\ m.count = Len(IF op[c].backend = "log" THEN puts ELSE recs)
      /\ \A f \in used : m.size[f] = Len(Written(c, f)) /\ m.crc[f] = disk[f]
      /\ \A f \in File \ used : m.size[f] = 0
  BY <1>1 DEF NewManifest, FrozenManifest, FilesOf, FreezeRecord, File
<1>3. used \in SUBSET File /\ \A f \in used : disk[f] = Written(c, f)
  BY <1>1 DEF ContentInv, CallWrote, FreezeWrote, FilesOf, Written, File
<1>4. Len(<<>>) = 0
  BY EmptySeq
<1> HIDE DEF m, recs, used
<1>5. \A f \in File : m.size[f] = Len(disk[f]) /\ (m.size[f] # 0 => m.crc[f] = disk[f])
  BY <1>2, <1>3, <1>4 DEF used
<1>6. CASE m.backend = "log"
  <2>1. disk["log"] = puts
    BY <1>2, <1>3, <1>6 DEF Written, FilesOf, used
  <2>2. Torn \notin ToSet(disk["log"]) /\ Lookup(m, disk) = LatestMap(puts)
    BY <1>1, <1>6, <2>1, LookupLog
  <2> QED
    BY <1>2, <1>5, <1>6, <2>1, <2>2 DEF Valid, m
<1>7. CASE m.backend # "log"
  <2>1. disk["index"] = IndexFile(m.backend, Deduped(puts))
          /\ disk["values"] = [n \in DOMAIN Deduped(puts) |-> Deduped(puts)[n][2]]
    BY <1>2, <1>3, <1>7 DEF Written, FilesOf, used
  <2>2. Cardinality(Entries(disk)) = Len(recs) /\ Lookup(m, disk) = LatestMap(puts)
    BY <1>1, <1>2, <1>7, <2>1, LookupFrozen DEF recs
  <2> QED
    BY <1>2, <1>5, <1>7, <2>2 DEF Valid, m
<1> QED
  BY <1>6, <1>7

\* One element after the others.
LEMMA OneMore ==
  ASSUME NEW log \in Seq(Element), NEW e \in Element
  PROVE  LET new == log \o <<e>>
         IN  /\ Front(new) = log /\ Len(new) = Len(log) + 1
             /\ DOMAIN log = 1 .. Len(log) /\ DOMAIN new = 1 .. Len(log) + 1
             /\ new[Len(log) + 1] = e /\ \A i \in 1 .. Len(log) : new[i] = log[i]
<1> DEFINE new == log \o <<e>>
           n == Len(log)
           front == SubSeq(new, 1, n)
<1>1. <<e>> \in Seq(Element) /\ Len(<<e>>) = 1 /\ <<e>>[1] = e
  OBVIOUS
<1>2. n \in Nat /\ DOMAIN log = 1 .. n
  BY LenProperties
<1>3. /\ new \in Seq(Element) /\ Len(new) = n + 1
      /\ \A i \in 1 .. n + 1 : new[i] = IF i <= n THEN log[i] ELSE <<e>>[i - n]
  BY <1>1, <1>2, ConcatProperties
<1> HIDE DEF new
<1>4. DOMAIN new = 1 .. n + 1
  BY <1>3, LenProperties
<1> HIDE DEF n
<1>5. new[n + 1] = e /\ \A i \in 1 .. n : new[i] = log[i] /\ new[i] \in Element
  <2>1. \A i \in 1 .. n : i \in 1 .. n + 1 /\ i <= n
    BY <1>2
  <2>2. n + 1 \in 1 .. n + 1 /\ ~(n + 1 <= n) /\ (n + 1) - n = 1
    BY <1>2
  <2>3. \A i \in 1 .. n : log[i] \in Element
    BY ElementOfSeq DEF n
  <2> QED
    BY <1>1, <1>3, <2>1, <2>2, <2>3
<1>6. Front(new) = front
  BY <1>2, <1>3 DEF Front
<1>7. front = log
  <2>1. front \in Seq(Element) /\ Len(front) = n /\ \A i \in 1 .. n : front[i] = new[i]
    <3>1. /\ front \in Seq(Element)
          /\ Len(front) = IF 1 <= n THEN n - 1 + 1 ELSE 0
          /\ \A i \in 1 .. n - 1 + 1 : front[i] = new[1 + i - 1]
      BY <1>2, <1>5, SubSeqProperties
    <3> HIDE DEF front
    <3> QED
      BY <1>2, <3>1
  <2> HIDE DEF front
  <2>2. \A i \in 1 .. Len(front) : front[i] = log[i]
    BY <1>5, <2>1
  <2> QED
    BY <2>1, <2>2, SeqEqual DEF n
<1> QED
  BY <1>2, <1>3, <1>4, <1>5, <1>6, <1>7 DEF new, n

\* What a log shows, whatever it holds.
LogMap(log) ==
  [k \in Key |->
     LET in == {i \in DOMAIN log : log[i] # Torn /\ log[i][1] = k}
     IN  IF in = {} THEN Absent ELSE log[Max(in)][2]]

LEMMA LookupIsLogMap ==
  ASSUME NEW m, m.backend = "log", NEW files
  PROVE  Lookup(m, files) = LogMap(files["log"])
BY DEF Lookup, LogMap

\* A record at the end of a log, whatever is before it, changes what the log shows
\* for its key, to its value.
LEMMA LogMapOneMore ==
  ASSUME NEW log \in Seq(Element), NEW put \in Key \X Value
  PROVE  /\ LogMap(log \o <<put>>) = [LogMap(log) EXCEPT ![put[1]] = put[2]]
         /\ Torn \notin ToSet(log) => Torn \notin ToSet(log \o <<put>>)
<1> DEFINE more == log \o <<put>>
           N == Len(log)
           k == put[1]
           v == put[2]
           in(l) == {i \in DOMAIN log : log[i] # Torn /\ log[i][1] = l}
           inMore(l) == {i \in DOMAIN more : more[i] # Torn /\ more[i][1] = l}
<1>1. N \in Nat /\ put \in Element /\ put # Torn /\ k \in Key /\ v \in Value
  BY LenProperties, ManifestConstants DEF Element
<1>2. /\ DOMAIN log = 1 .. N /\ DOMAIN more = 1 .. N + 1
      /\ more[N + 1] = put /\ \A i \in 1 .. N : more[i] = log[i]
  BY <1>1, OneMore
<1>3. \A i \in 1 .. N + 1 : i \in 1 .. N \/ i = N + 1
  BY <1>1
<1>4. \A i \in 1 .. N : i \in 1 .. N + 1 /\ i <= N + 1
  BY <1>1
<1>5. N + 1 \in 1 .. N + 1
  BY <1>1
<1>6. Torn \notin ToSet(log) => Torn \notin ToSet(more)
  BY <1>1, <1>2, <1>3 DEF ToSet
<1>7. /\ LogMap(log) = [l \in Key |-> IF in(l) = {} THEN Absent ELSE log[Max(in(l))][2]]
      /\ LogMap(more) = [l \in Key |-> IF inMore(l) = {} THEN Absent ELSE more[Max(inMore(l))][2]]
  BY DEF LogMap
<1> HIDE DEF more, N
<1>8. Max(inMore(k)) = N + 1 /\ inMore(k) # {}
  <2>1. N + 1 \in inMore(k)
    BY <1>1, <1>2, <1>5
  <2>2. \A i \in inMore(k) : i <= N + 1
    BY <1>1, <1>2
  <2>3. inMore(k) \in SUBSET Int
    BY <1>2
  <2> HIDE DEF inMore
  <2> QED
    BY <2>1, <2>2, <2>3, MaxUnique
<1>9. ASSUME NEW l \in Key, l # k
      PROVE  inMore(l) = in(l) /\ (in(l) # {} => more[Max(in(l))] = log[Max(in(l))])
  <2>1. inMore(l) = in(l)
    <3>1. more[N + 1][1] # l
      BY <1>2, <1>9
    <3> QED
      BY <3>1, <1>2, <1>3, <1>4
  <2>2. in(l) \in SUBSET (1 .. N) /\ in(l) \in SUBSET Int
    BY <1>2
  <2> HIDE DEF in, inMore
  <2>3. IsFiniteSet(in(l))
    <3>1. IsFiniteSet(1 .. N)
      BY <1>1, FS_Interval
    <3> QED
      BY <2>2, <3>1, FS_Subset
  <2>4. in(l) # {} => Max(in(l)) \in 1 .. N
    BY <2>2, <2>3, MaxIsGreatest
  <2> QED
    BY <1>2, <2>1, <2>4
<1> HIDE DEF in, inMore
<1>10. ASSUME NEW l \in Key
       PROVE  (IF inMore(l) = {} THEN Absent ELSE more[Max(inMore(l))][2])
                 = [LogMap(log) EXCEPT ![k] = v][l]
  <2>1. CASE l = k
    <3>1. [LogMap(log) EXCEPT ![k] = v][k] = v
      BY <1>1, <1>7
    <3> QED
      BY <1>2, <1>8, <2>1, <3>1
  <2>2. CASE l # k
    <3>1. [LogMap(log) EXCEPT ![k] = v][l] = LogMap(log)[l]
      BY <1>7, <2>2
    <3> QED
      BY <1>7, <1>9, <2>2, <3>1
  <2> QED
    BY <2>1, <2>2
<1>11. LogMap(more) = [l \in Key |-> [LogMap(log) EXCEPT ![k] = v][l]]
  BY <1>7, <1>10
<1>12. [LogMap(log) EXCEPT ![k] = v] = [l \in Key |-> [LogMap(log) EXCEPT ![k] = v][l]]
  BY <1>7
<1> QED
  BY <1>6, <1>11, <1>12 DEF more

\* An append to a log that opens without its record leaves one that opens with it.
LEMMA AppendedValid ==
  ASSUME StateInv, ContentInv, NEW c \in Client, op[c].step = "manifest", op[c].m # Missing,
         Valid(manifest, [disk EXCEPT !["log"] = Front(@)])
  PROVE  LET before == [disk EXCEPT !["log"] = Front(@)]
             put == op[c].puts[1]
         IN  /\ Valid(NewManifest(c), disk)
             /\ Lookup(NewManifest(c), disk) = [Lookup(manifest, before) EXCEPT ![put[1]] = put[2]]
<1> DEFINE before == [disk EXCEPT !["log"] = Front(@)]
           m == NewManifest(c)
<1>1. disk \in [File -> Seq(Element)] /\ "log" \in File
  BY DEF StateInv, TypeInv, File
<1>2. manifest \in Manifest /\ op[c].m = manifest /\ manifest.backend = "log"
  BY DEF StateInv, StepInv, StepRecord, FreezeRecord, ReadRecord
<1>3. PICK log \in Seq(Element), put \in Key \X Value :
         op[c].puts = <<put>> /\ disk["log"] = log \o <<put>>
  BY DEF ContentInv, CallWrote, AppendWrote, OneRecord
<1>4. put \in Element
  BY DEF Element
<1>5. Front(disk["log"]) = log /\ Len(disk["log"]) = Len(log) + 1
  BY <1>3, <1>4, OneMore
<1>6. before["log"] = log /\ \A f \in File \ {"log"} : before[f] = disk[f]
  BY <1>1, <1>5
<1>7. m = [manifest EXCEPT !.count = @ + 1, !.size["log"] = @ + 1, !.crc["log"] = disk["log"]]
  BY <1>2, ManifestConstants DEF NewManifest, AppendedManifest
<1>8. /\ m.backend = "log" /\ m.count = manifest.count + 1
      /\ m.size["log"] = manifest.size["log"] + 1 /\ m.crc["log"] = disk["log"]
      /\ \A f \in File \ {"log"} : m.size[f] = manifest.size[f] /\ m.crc[f] = manifest.crc[f]
  BY <1>1, <1>2, <1>7 DEF Manifest
<1> HIDE DEF m, before
<1>9. /\ \A f \in File : manifest.size[f] = Len(before[f])
      /\ \A f \in File : manifest.size[f] # 0 => manifest.crc[f] = before[f]
      /\ manifest.count = Len(log) /\ Torn \notin ToSet(log)
  BY <1>2, <1>6 DEF Valid, before
<1>10. /\ \A f \in File : m.size[f] = Len(disk[f])
       /\ \A f \in File : m.size[f] # 0 => m.crc[f] = disk[f]
       /\ m.count = Len(disk["log"])
  <2>1. \A f \in File : f = "log" \/ f \in File \ {"log"}
    OBVIOUS
  <2> QED
    BY <1>1, <1>5, <1>6, <1>8, <1>9, <2>1
<1>11. /\ Lookup(m, disk) = [Lookup(manifest, before) EXCEPT ![put[1]] = put[2]]
       /\ Torn \notin ToSet(disk["log"])
  <2>1. /\ disk["log"] = log \o <<put>> /\ before["log"] = log /\ Torn \notin ToSet(log)
        /\ LogMap(log \o <<put>>) = [LogMap(log) EXCEPT ![put[1]] = put[2]]
        /\ Torn \notin ToSet(log \o <<put>>)
    BY <1>3, <1>6, <1>9, LogMapOneMore
  <2>2. Lookup(m, disk) = LogMap(disk["log"]) /\ Lookup(manifest, before) = LogMap(before["log"])
    BY <1>2, <1>8, LookupIsLogMap
  <2> QED
    BY <2>1, <2>2
<1>12. Valid(m, disk)
  BY <1>8, <1>10, <1>11 DEF Valid
<1>13. op[c].puts[1] = put
  BY <1>3
<1> QED
  BY <1>11, <1>12, <1>13 DEF m, before

\* A freeze that succeeds where no other backend's files are has left a cache that
\* opens and shows its latest puts; an append that succeeds on a log in order has
\* added its record: whatever failed or died before, and with any backends.
THEOREM SuccessesAddUp == StoreSpec => MutationsAddUp
<1>1. ASSUME CacheInv, NEW c \in Client, WriteManifest(c)
      PROVE  IF op[c].m = Missing THEN FreezeAddsUp(c) ELSE AppendAddsUp(c)
  <2>1. StateInv /\ ContentInv
    BY <1>1 DEF CacheInv
  <2>2. op[c].step = "manifest" /\ manifest' = NewManifest(c) /\ disk' = disk
    BY <1>1 DEF WriteManifest
  <2>3. CASE op[c].m = Missing
    <3> SUFFICES ASSUME \A f \in File \ FilesOf(op[c].backend) : disk[f] = <<>>
                 PROVE  /\ Valid(manifest', disk')
                        /\ Lookup(manifest', disk') = AC!Latest(op[c].puts)
      BY <2>3 DEF FreezeAddsUp
    <3>1. Valid(NewManifest(c), disk) /\ Lookup(NewManifest(c), disk) = LatestMap(op[c].puts)
      BY <2>1, <2>2, <2>3, FrozenValid
    <3>2. LatestMap(op[c].puts) = AC!Latest(op[c].puts)
      BY <2>1, LatestMapIsLatest DEF StateInv, TypeInv
    <3> QED
      BY <2>2, <3>1, <3>2
  <2>4. CASE op[c].m # Missing
    BY <2>1, <2>2, <2>4, AppendedValid DEF AppendAddsUp
  <2> QED
    BY <2>3, <2>4
<1>2. CacheInv /\ [StoreNext]_storeVars =>
        [\A c \in Client : WriteManifest(c) =>
           IF op[c].m = Missing THEN FreezeAddsUp(c) ELSE AppendAddsUp(c)]_storeVars
  BY <1>1
<1> QED
  BY <1>2, CacheInvariant, PTL DEF StoreSpec, MutationsAddUp

-----------------------------------------------------------------------------
(* A mutation that succeeded has left a cache that opens. *)

\* With tables alone: the log stays empty.
TablesInv ==
  /\ disk["log"] = <<>>
  /\ sound => manifest \in Manifest /\ Valid(manifest, disk)

\* With logs alone: the manifest describes the log, until a record is added to
\* it and after the manifest has been written again.
LogsInv ==
  /\ \A f \in File \ {"log"} : disk[f] = <<>>
  /\ manifest \in Manifest =>
       /\ \A f \in File \ {"log"} : manifest.size[f] = 0
       /\ manifest.count = manifest.size["log"]
       /\ (\A c \in Client : op[c].step # "manifest") => manifest.size["log"] = Len(disk["log"])
  /\ \A c \in Client : op[c].step = "manifest" =>
       IF op[c].m = Missing THEN disk["log"] = op[c].puts
       ELSE Len(disk["log"]) = op[c].m.size["log"] + 1
  /\ sound => /\ manifest \in Manifest
              /\ manifest.size["log"] # 0 => manifest.crc["log"] = disk["log"]

LEMMA TablesStepInv ==
  ASSUME "log" \notin Backend, CacheInv, TablesInv, [StoreNext]_storeVars
  PROVE  TablesInv'
<1> USE DEF WriterSteps
<1>0. StateInv /\ HistInv /\ ContentInv
  BY DEF CacheInv
<1>1. \A c \in Client : op[c].step # "appendRecord"
          /\ (op[c].step \in {"freeze", "index", "manifest"} => op[c].backend # "log")
  BY <1>0 DEF StateInv, StepInv, StepRecord, FreezeRecord, ReadRecord, Manifest
<1>2. disk \in [File -> Seq(Element)]
  BY <1>0 DEF StateInv, TypeInv
<1>3. CASE UNCHANGED <<disk, manifest, sound>>
  BY <1>3 DEF TablesInv, Valid, Entries
<1>4. ASSUME NEW c \in Client, Writing(c), disk' \in PartialDisks(c) PROVE disk'["log"] = <<>>
  <2>1. CASE op[c].step = "freeze"
    <3>1. PartialDisks(c) = {[disk EXCEPT !["keys"] = ks, !["values"] = vs] :
             ks \in Partly(disk["keys"], Written(c, "keys")),
             vs \in Partly(disk["values"], Written(c, "values"))}
      BY <1>1, <2>1 DEF PartialDisks
    <3>2. PICK ks, vs : disk' = [disk EXCEPT !["keys"] = ks, !["values"] = vs]
      BY <1>4, <3>1
    <3> QED
      BY <1>2, <3>2 DEF TablesInv, File
  <2>2. CASE op[c].step = "index"
    <3>1. PartialDisks(c) =
            {[disk EXCEPT !["index"] = part] : part \in Partly(disk["index"], Written(c, "index"))}
      BY <2>2 DEF PartialDisks
    <3>2. PICK part : disk' = [disk EXCEPT !["index"] = part]
      BY <1>4, <3>1
    <3> QED
      BY <1>2, <3>2 DEF TablesInv, File
  <2>3. CASE op[c].step = "manifest"
    BY <1>4, <2>3 DEF PartialDisks, TablesInv
  <2> QED
    BY <1>1, <1>4, <2>1, <2>2, <2>3 DEF Writing
<1>5. ASSUME NEW c \in Client, op[c].step \in {"index", "manifest"} PROVE sound = FALSE
  BY <1>0, <1>5 DEF HistInv
<1>6. ASSUME NEW c \in Client, WriteRecords(c) PROVE TablesInv'
  <2>1. op[c].step = "freeze" /\ op[c].backend # "log" /\ sound' = FALSE
    BY <1>1, <1>6 DEF WriteRecords, Begun
  <2>2. disk'["log"] = disk["log"]
    BY <1>6, <2>1 DEF WriteRecords, FreezeFiles, File
  <2> QED
    BY <2>1, <2>2 DEF TablesInv
<1>7. ASSUME NEW c \in Client, WriteIndex(c) PROVE TablesInv'
  BY <1>2, <1>5, <1>7 DEF WriteIndex, NoHistory, TablesInv, File
<1>8. ASSUME NEW c \in Client, WriteManifest(c) PROVE TablesInv'
  <2>1. op[c].step = "manifest" /\ manifest' = NewManifest(c) /\ disk' = disk
    BY <1>8 DEF WriteManifest
  <2>2. NewManifest(c) \in Manifest
    BY <1>0, <2>1, NewManifestType
  <2>3. Valid(NewManifest(c), disk)
    <3>1. op[c].m = Missing /\ op[c].backend # "log"
      BY <1>0, <1>1, <2>1 DEF StateInv, StepInv, StepRecord, FreezeRecord, ReadRecord, Manifest
    <3>2. \A f \in File \ FilesOf(op[c].backend) : disk[f] = <<>>
      BY <3>1 DEF TablesInv, FilesOf, File
    <3> QED
      BY <1>0, <2>1, <3>1, <3>2, FrozenValid
  <2>4. Valid(manifest', disk')
    BY <2>1, <2>3
  <2> QED
    BY <2>1, <2>2, <2>4 DEF TablesInv
<1>9. ASSUME NEW c \in Client, ChecksumUnread(c) PROVE TablesInv'
  BY <1>5, <1>9 DEF ChecksumUnread, NoHistory, TablesInv
<1>10. ASSUME NEW c \in Client, AppendRecord(c) PROVE TablesInv'
  BY <1>1, <1>10 DEF AppendRecord
<1>11. ASSUME NEW c \in Client, Writing(c), WriteFails(c) \/ Crash(c) PROVE TablesInv'
  <2>1. disk' \in PartialDisks(c)
    BY <1>11 DEF WriteFails, Crash
  <2>2. sound' = FALSE
    <3>1. CASE op[c].step = "freeze"
      BY <1>11, <3>1 DEF WriteFails, Crash, Begun
    <3>2. CASE op[c].step \in {"index", "manifest"}
      BY <1>5, <1>11, <3>2 DEF WriteFails, Crash, NoHistory
    <3> QED
      BY <1>1, <1>11, <3>1, <3>2 DEF Writing
  <2> QED
    BY <1>4, <1>11, <2>1, <2>2 DEF TablesInv
<1>12. ASSUME NEW c \in Client, Crash(c), ~Writing(c) PROVE TablesInv'
  BY <1>3, <1>12 DEF Crash
<1>13. ASSUME NEW c \in Client, WriteFails(c), ~Writing(c) PROVE FALSE
  BY <1>13 DEF WriteFails
<1>14. ASSUME NEW c \in Client,
              \/ \E backend \in Backend, puts \in Puts, dup \in BOOLEAN :
                    FreezeStart(c, backend, puts, dup)
              \/ FreezeRefused(c) \/ IndexFails(c) \/ ManifestFails(c)
              \/ \E k \in Key, v \in Value : AppendStart(c, k, v)
              \/ AppendRefused(c) \/ AppendReadManifest(c) \/ ReaderStep(c) \/ Release(c)
       PROVE  UNCHANGED <<disk, manifest, sound>>
  BY <1>14 DEF FreezeStart, FreezeRefused, IndexFails, ManifestFails, AppendStart, AppendRefused,
               AppendReadManifest, ReaderStep, ReaderOpen, ReadManifest, LoadFiles,
               InspectReturns, ReaderClose, Release, NoHistory
<1>15. CASE UNCHANGED storeVars
  BY <1>3, <1>15 DEF storeVars
<1> QED
  BY <1>3, <1>6, <1>7, <1>8, <1>9, <1>10, <1>11, <1>12, <1>13, <1>14, <1>15
  DEF StoreNext, FreezeStep, AppendStep

\* A call goes on, and neither gets to the manifest nor leaves it.
LEMMA LogsMove ==
  ASSUME LogsInv, NEW c \in Client, \A d \in Client \ {c} : op'[d] = op[d],
         UNCHANGED <<disk, manifest, sound>>,
         op[c].step # "manifest", op'[c].step # "manifest"
  PROVE  LogsInv'
<1>1. \A d \in Client : /\ op'[d].step = "manifest" <=> op[d].step = "manifest"
                        /\ op[d].step = "manifest" => op'[d] = op[d]
  OBVIOUS
<1> QED
  BY ONLY LogsInv, <1>1, UNCHANGED <<disk, manifest, sound>> DEF LogsInv

\* What a log's manifest is to say, before and after it is written.
LogManifestOf(m, files) ==
  /\ m \in Manifest
  /\ \A f \in File \ {"log"} : m.size[f] = 0
  /\ m.count = m.size["log"] /\ m.size["log"] = Len(files["log"])

LEMMA LogsManifest ==
  ASSUME Backend \subseteq {"log"}, StateInv, LogsInv, NEW c \in Client, op[c].step = "manifest"
  PROVE  LogManifestOf(NewManifest(c), disk) /\ NewManifest(c).crc["log"] = disk["log"]
<1>1. StepRecord(op[c], manifest) /\ NewManifest(c) \in Manifest
  BY NewManifestType DEF StateInv, StepInv
<1>2. CASE op[c].m = Missing
  <2>1. op[c].backend = "log" /\ disk["log"] = op[c].puts
    BY <1>1, <1>2, ManifestConstants DEF StepRecord, FreezeRecord, ReadRecord, LogsInv
  <2> DEFINE m == NewManifest(c)
  <2>2. m = FrozenManifest(c)
    BY <1>2 DEF NewManifest
  <2>3. /\ m.count = Len(op[c].puts) /\ m.size["log"] = Len(Written(c, "log"))
        /\ m.crc["log"] = disk["log"] /\ \A f \in File \ {"log"} : m.size[f] = 0
    BY <2>1, <2>2 DEF FrozenManifest, FilesOf, File
  <2>4. Written(c, "log") = op[c].puts
    BY DEF Written
  <2> HIDE DEF m
  <2>5. m.count = m.size["log"] /\ m.size["log"] = Len(disk["log"])
    BY <2>1, <2>3, <2>4
  <2> QED
    BY <1>1, <2>3, <2>5 DEF LogManifestOf, m
<1>3. CASE op[c].m # Missing
  <2>1. op[c].m = manifest /\ manifest \in Manifest
    BY <1>1, <1>3 DEF StepRecord, FreezeRecord, ReadRecord
  <2> DEFINE m == NewManifest(c)
  <2>2. m = [manifest EXCEPT !.count = @ + 1, !.size["log"] = @ + 1, !.crc["log"] = disk["log"]]
    BY <1>3, <2>1 DEF NewManifest, AppendedManifest
  <2>3. /\ m.count = manifest.count + 1 /\ m.size["log"] = manifest.size["log"] + 1
        /\ m.crc["log"] = disk["log"] /\ \A f \in File \ {"log"} : m.size[f] = manifest.size[f]
    BY <2>1, <2>2 DEF Manifest, File
  <2>4. /\ manifest.count = manifest.size["log"] /\ Len(disk["log"]) = manifest.size["log"] + 1
        /\ \A f \in File \ {"log"} : manifest.size[f] = 0
    BY <1>3, <2>1 DEF LogsInv
  <2> HIDE DEF m
  <2>5. /\ m.count = m.size["log"] /\ m.size["log"] = Len(disk["log"])
        /\ \A f \in File \ {"log"} : m.size[f] = 0
    BY <2>3, <2>4
  <2> QED
    BY <1>1, <2>3, <2>5 DEF LogManifestOf, m
<1> QED
  BY <1>2, <1>3

\* A call fails only by a checksum that it did not get.
OnlyUnread == Faults \subseteq {"checksum"}

LEMMA LogsStepInv ==
  ASSUME Backend \subseteq {"log"}, OnlyUnread, CacheInv, LogsInv, [StoreNext]_storeVars
  PROVE  LogsInv'
<1> USE DEF WriterSteps
<1>0. StoreInv /\ StateInv /\ HistInv /\ LogInv
  BY DEF CacheInv, StateInv, OnlyUnread, WholeWrites
<1>1. disk \in [File -> Seq(Element)] /\ disk["log"] \in Seq(Key \X Value)
        /\ \A c \in Client : op[c].puts \in Seq(Key \X Value)
  BY <1>0 DEF StateInv, TypeInv, LogInv
<1>2. ASSUME NEW c \in Client, NEW s, Goto(c, s)
      PROVE  /\ op'[c].step = s /\ op'[c].puts = op[c].puts /\ op'[c].m = op[c].m
             /\ \A d \in Client \ {c} : op'[d] = op[d]
  BY <1>0, <1>2, GotoEffect
<1>3. ASSUME NEW c \in Client PROVE op[c].step # "index"
  BY <1>0 DEF StateInv, StepInv, StepRecord, FreezeRecord
<1>4. ASSUME NEW c \in Client, op[c].step \in WriterSteps
      PROVE  \A d \in Client \ {c} : op[d].step # "manifest"
  BY <1>0, <1>4, WriterAlone
<1>5. ASSUME NEW c \in Client, NEW backend \in Backend, NEW puts \in Puts, NEW dup \in BOOLEAN,
             FreezeStart(c, backend, puts, dup)
      PROVE  LogsInv'
  <2> DEFINE o == [step |-> "freeze", backend |-> backend, puts |-> puts, dup |-> dup,
                   m |-> Missing]
  <2>1. op'[c] = o /\ \A d \in Client \ {c} : op'[d] = op[d]
    BY <1>0, <1>5, RecordEffect DEF FreezeStart
  <2>2. op[c].step = "idle" /\ o.step = "freeze"
    BY <1>5 DEF FreezeStart, Idle
  <2> HIDE DEF o
  <2> QED
    BY <1>5, <2>1, <2>2, LogsMove DEF FreezeStart, NoHistory
<1>6. ASSUME NEW c \in Client, NEW k \in Key, NEW v \in Value, AppendStart(c, k, v)
      PROVE  LogsInv'
  <2> DEFINE o == [step |-> "append", backend |-> "log", puts |-> <<<<k, v>>>>, dup |-> TRUE,
                   m |-> Missing]
  <2>1. op'[c] = o /\ \A d \in Client \ {c} : op'[d] = op[d]
    BY <1>0, <1>6, RecordEffect DEF AppendStart
  <2>2. op[c].step = "idle" /\ o.step = "append"
    BY <1>6 DEF AppendStart, Idle
  <2> HIDE DEF o
  <2> QED
    BY <1>6, <2>1, <2>2, LogsMove DEF AppendStart, NoHistory
<1>7. ASSUME NEW c \in Client, FreezeRefused(c) \/ AppendRefused(c) \/ ReaderStep(c)
                                 \/ AppendReadManifest(c)
      PROVE  LogsInv'
  <2>1. /\ UNCHANGED <<disk, manifest, sound>> /\ op[c].step # "manifest"
        /\ \E s \in {"appendRecord", "open", "load", "reading", "release"} :
             Goto(c, s) \/ GotoWithManifest(c, s)
    BY <1>7 DEF FreezeRefused, AppendRefused, AppendReadManifest, ReaderStep, ReaderOpen,
                ReadManifest, LoadFiles, InspectReturns, ReaderClose, NoHistory, Idle
  <2>2. op'[c].step # "manifest" /\ \A d \in Client \ {c} : op'[d] = op[d]
    BY <1>0, <2>1, GotoEffect, ReadEffect
  <2> QED
    BY <2>1, <2>2, LogsMove
<1>8. ASSUME NEW c \in Client, WriteRecords(c) PROVE LogsInv'
  <2>1. op[c].step = "freeze" /\ op[c].backend = "log" /\ op[c].m = Missing
    BY <1>0, <1>8 DEF WriteRecords, StateInv, StepInv, StepRecord, FreezeRecord
  <2>2. /\ op'[c].step = "manifest" /\ op'[c].m = Missing /\ op'[c].puts = op[c].puts
        /\ \A d \in Client \ {c} : op'[d] = op[d]
    BY <1>2, <1>8, <2>1 DEF WriteRecords
  <2>3. disk'["log"] = op'[c].puts /\ \A f \in File \ {"log"} : disk'[f] = disk[f]
    BY <1>8, <2>1, <2>2 DEF WriteRecords, FreezeFiles, Written, File
  <2>4. manifest' = manifest /\ sound' = FALSE
    BY <1>8 DEF WriteRecords, Begun
  <2>5. \A d \in Client : op'[d].step = "manifest" => d = c
    BY <1>4, <2>1, <2>2
  <2> QED
    BY <2>2, <2>3, <2>4, <2>5 DEF LogsInv
<1>9. ASSUME NEW c \in Client, AppendRecord(c) PROVE LogsInv'
  <2>1. op[c].step = "appendRecord" /\ OneRecord(op[c]) /\ op[c].m = manifest /\ manifest \in Manifest
    BY <1>0, <1>9 DEF AppendRecord, StateInv, StepInv, StepRecord, ReadRecord
  <2>2. /\ op'[c].step = "manifest" /\ op'[c].m = manifest
        /\ \A d \in Client \ {c} : op'[d] = op[d]
    BY <1>2, <1>9, <2>1 DEF AppendRecord
  <2>3. disk'["log"] = disk["log"] \o op[c].puts /\ \A f \in File \ {"log"} : disk'[f] = disk[f]
    BY <1>1, <1>9 DEF AppendRecord, File
  <2>4. manifest' = manifest /\ sound' = FALSE
    BY <1>9 DEF AppendRecord, Begun
  <2>5. \A d \in Client : op[d].step # "manifest"
    BY <1>4, <2>1
  <2>6. \A d \in Client : op'[d].step = "manifest" => d = c
    BY <2>2, <2>5
  <2>7. manifest.size["log"] = Len(disk["log"])
    BY <2>1, <2>5 DEF LogsInv
  <2>8. Len(disk'["log"]) = Len(disk["log"]) + 1
    <3>1. PICK k \in Key, v \in Value : op[c].puts = <<<<k, v>>>>
      BY <2>1 DEF OneRecord
    <3>2. disk["log"] \in Seq(Key \X Value)
      BY <1>1
    <3> QED
      BY <2>3, <3>1, <3>2, LatestMapAppend
  <2>9. manifest # Missing
    BY <2>1, ManifestConstants
  <2>10. \A f \in File \ {"log"} : disk'[f] = <<>> /\ manifest.size[f] = 0
    BY <2>1, <2>3 DEF LogsInv
  <2>11. manifest.count = manifest.size["log"]
    BY <2>1 DEF LogsInv
  <2>12. \A d \in Client : op'[d].step = "manifest" =>
           op'[d].m = manifest /\ Len(disk'["log"]) = manifest.size["log"] + 1
    BY <2>2, <2>6, <2>7, <2>8
  <2> QED
    BY ONLY <2>2, <2>4, <2>9, <2>10, <2>11, <2>12 DEF LogsInv
<1>10. ASSUME NEW c \in Client, WriteManifest(c) \/ ChecksumUnread(c) PROVE LogsInv'
  <2>1. op[c].step = "manifest" /\ Goto(c, "release") /\ disk' = disk
    BY <1>10 DEF WriteManifest, ChecksumUnread
  <2>2. \A d \in Client : op'[d].step # "manifest"
    BY <1>2, <1>4, <2>1
  <2>3. LogManifestOf(NewManifest(c), disk) /\ NewManifest(c).crc["log"] = disk["log"]
    BY <1>0, <2>1, LogsManifest
  <2>4. LogManifestOf(manifest', disk)
    <3>1. CASE WriteManifest(c)
      BY <2>3, <3>1 DEF WriteManifest
    <3>2. CASE ChecksumUnread(c)
      <4>1. PICK f \in File : manifest' = [NewManifest(c) EXCEPT !.crc[f] = <<>>]
        BY <3>2 DEF ChecksumUnread
      <4> DEFINE m == NewManifest(c)
                 n == [m EXCEPT !.crc[f] = <<>>]
      <4>2. LogManifestOf(m, disk)
        BY <2>3
      <4> HIDE DEF m
      <4>3. n \in Manifest
        BY <4>2, EmptySeq DEF LogManifestOf, Manifest
      <4>4. n.size = m.size /\ n.count = m.count
        BY <4>2 DEF LogManifestOf, Manifest
      <4>5. manifest' = n
        BY <4>1 DEF m
      <4> HIDE DEF n
      <4> QED
        BY <4>2, <4>3, <4>4, <4>5 DEF LogManifestOf
    <3> QED
      BY <1>10, <3>1, <3>2
  <2>5. sound' => manifest'.crc["log"] = disk["log"]
    <3>1. CASE WriteManifest(c)
      BY <2>3, <3>1 DEF WriteManifest
    <3>2. CASE ChecksumUnread(c)
      BY <1>0, <2>1, <3>2 DEF ChecksumUnread, NoHistory, HistInv
    <3> QED
      BY <1>10, <3>1, <3>2
  <2> QED
    BY <2>1, <2>2, <2>4, <2>5 DEF LogsInv, LogManifestOf
<1>11. ASSUME NEW c \in Client, Release(c) PROVE LogsInv'
  <2>1. op'[c] = Idle /\ \A d \in Client \ {c} : op'[d] = op[d]
    BY <1>0, <1>11, RecordEffect DEF Release
  <2> QED
    BY <1>11, <2>1, LogsMove DEF Release, Idle
<1>12. ASSUME NEW c \in Client,
              WriteIndex(c) \/ IndexFails(c) \/ ManifestFails(c) \/ WriteFails(c) \/ Crash(c)
       PROVE  FALSE
  BY <1>3, <1>12 DEF WriteIndex, IndexFails, ManifestFails, WriteFails, Crash, OnlyUnread
<1>13. CASE UNCHANGED storeVars
  BY <1>13 DEF storeVars, LogsInv
<1> QED
  BY <1>5, <1>6, <1>7, <1>8, <1>9, <1>10, <1>11, <1>12, <1>13
  DEF StoreNext, FreezeStep, AppendStep

\* The caches of one kind: tables, with every fault; or logs, where at most a
\* checksum fails.  What a mixture of the two leaves need not open (run
\* store_mixed_backends), nor what is appended to a log whose last append failed
\* with its record written (run store_append_after_failure): SuccessesAddUp is
\* what holds of those.
OneKind ==
  \/ "log" \notin Backend
  \/ Backend \subseteq {"log"} /\ OnlyUnread

SoundInv == IF "log" \notin Backend THEN TablesInv ELSE LogsInv

LEMMA SoundInitInv == ASSUME OneKind, StoreInit PROVE SoundInv
<1>1. \A f \in File : disk[f] = <<>>
  BY DEF StoreInit
<1>2. manifest \notin Manifest /\ sound = FALSE /\ \A c \in Client : op[c].step # "manifest"
  BY ManifestConstants DEF StoreInit, Idle
<1>3. TablesInv
  BY <1>1, <1>2 DEF TablesInv, File
<1>4. LogsInv
  BY <1>1, <1>2 DEF LogsInv
<1> QED
  BY <1>3, <1>4 DEF SoundInv

LEMMA SoundStepInv ==
  ASSUME OneKind, CacheInv, SoundInv, [StoreNext]_storeVars
  PROVE  SoundInv'
<1>1. CASE "log" \notin Backend
  BY <1>1, TablesStepInv DEF SoundInv
<1>2. CASE "log" \in Backend
  BY <1>2, LogsStepInv DEF SoundInv, OneKind
<1> QED
  BY <1>1, <1>2

\* The log of a cache of logs passes validation once a mutation has succeeded.
LEMMA LogsValid ==
  ASSUME Backend \subseteq {"log"}, OnlyUnread, CacheInv, LogsInv, sound
  PROVE  manifest \in Manifest /\ Valid(manifest, disk)
<1>1. \A c \in Client : op[c].step # "manifest"
  BY DEF CacheInv, HistInv
<1>2. /\ manifest \in Manifest /\ manifest.backend = "log"
      /\ \A f \in File \ {"log"} : disk[f] = <<>> /\ manifest.size[f] = 0
      /\ manifest.count = Len(disk["log"]) /\ manifest.size["log"] = Len(disk["log"])
      /\ manifest.size["log"] # 0 => manifest.crc["log"] = disk["log"]
  BY <1>1 DEF LogsInv, Manifest
<1>3. Torn \notin ToSet(disk["log"])
  BY <1>2, LookupLog DEF CacheInv, LogInv, OnlyUnread, WholeWrites
<1>4. Len(<<>>) = 0
  BY EmptySeq
<1> QED
  BY <1>2, <1>3, <1>4 DEF Valid

\* After a mutation that succeeded, and until the next one writes, the cache opens
\* and shows what the mutations so far add up to: a cache of tables after any
\* faults, a cache of logs when nothing but a checksum has failed.
THEOREM SuccessLeavesACacheThatOpens == OneKind => (StoreSpec => []SoundOpens)
<1> SUFFICES ASSUME OneKind PROVE StoreSpec => []SoundOpens
  OBVIOUS
<1>1. StoreInit => SoundInv
  BY SoundInitInv
<1>2. CacheInv /\ SoundInv /\ [StoreNext]_storeVars => SoundInv'
  BY SoundStepInv
<1>3. CacheInv /\ SoundInv => SoundOpens
  <2> SUFFICES ASSUME CacheInv, SoundInv PROVE SoundOpens
    OBVIOUS
  <2>1. StoreTypeOK
    BY StateTypes DEF CacheInv
  <2>2. ASSUME sound
        PROVE  /\ manifest \notin {Missing, Torn} /\ Valid(manifest, disk)
               /\ Lookup(manifest, disk) \in maps
    <3>1. manifest \in Manifest /\ Valid(manifest, disk)
      BY <2>2, LogsValid DEF SoundInv, OneKind, TablesInv
    <3>2. CleanLogs
      BY DEF OneKind, CleanLogs, OnlyUnread, WholeWrites
    <3>3. Lookup(manifest, disk) \in maps
      BY <3>1, <3>2, ReaderShows
    <3> QED
      BY <3>1, <3>3, ManifestConstants
  <2> QED
    BY <2>1, <2>2 DEF SoundOpens
<1> QED
  BY <1>1, <1>2, <1>3, CacheInvariant, PTL DEF StoreSpec

=============================================================================
