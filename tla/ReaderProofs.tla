---------------------------- MODULE ReaderProofs -----------------------------
(***************************************************************************)
(* That the iterators of a reader return what was asked for (ScansExact),  *)
(* and that fce_compact leaves in its output what its source showed        *)
(* (CompactionExact, OutputWhole), while the source stays as it is         *)
(* (SourcePinned): for any keys, tables, bounds, clients and directories.  *)
(*                                                                         *)
(* ScanInv says which entries the matches of an iterator are, and that     *)
(* what was given are those of the earlier pages and those the iterator    *)
(* has passed.  CompactInv says which lock a compaction holds at each      *)
(* step, and that the builder has the first records of the source.  What   *)
(* compactions do with the locks DirLock allows (CompactionsLock).         *)
(***************************************************************************)
EXTENDS Scans, Compact, FiniteOrder, SequenceTheorems, TLAPS

-----------------------------------------------------------------------------
(* The order of keys is a strict order in which two keys that differ are   *)
(* always comparable.                                                      *)

\* a and b are the same up to their n-th byte, where a ends or has the lower one.
DiffersAt(a, b, n) ==
  /\ n <= Len(a) + 1 /\ n <= Len(b)
  /\ \A i \in 1 .. n - 1 : a[i] = b[i]
  /\ n = Len(a) + 1 \/ (n <= Len(a) /\ a[n] < b[n])

LEMMA ShorterLength ==
  ASSUME NEW m \in Nat, NEW n \in Nat
  PROVE  Min({m, n}) = IF m <= n THEN m ELSE n
<1>1. \E x \in {m, n} : \A y \in {m, n} : x =< y
  OBVIOUS
<1>2. Min({m, n}) \in {m, n} /\ \A y \in {m, n} : Min({m, n}) =< y
  BY <1>1 DEF Min
<1> QED
  BY <1>2

LEMMA PrefixBytes ==
  ASSUME NEW a \in Seq(Int), NEW b \in Seq(Int)
  PROVE  IsPrefix(a, b) <=> Len(a) <= Len(b) /\ \A i \in 1 .. Len(a) : a[i] = b[i]
<1>1. Len(a) \in Nat /\ Len(b) \in Nat /\ \A i \in 1 .. Len(b) : b[i] \in Int
  BY LenProperties
<1>2. SubSeq(a, 1, Len(a)) = a
  BY SubSeqFull
<1>3. ASSUME Len(a) <= Len(b)
      PROVE  /\ SubSeq(b, 1, Len(a)) \in Seq(Int) /\ Len(SubSeq(b, 1, Len(a))) = Len(a)
             /\ \A i \in 1 .. Len(a) : SubSeq(b, 1, Len(a))[i] = b[i]
  <2>1. \A i \in 1 .. Len(a) : b[i] \in Int
    BY <1>1, <1>3
  <2> QED
    BY <1>1, <2>1, SubSeqProperties
<1>4. ASSUME Len(a) <= Len(b), \A i \in 1 .. Len(a) : a[i] = b[i]
      PROVE  a = SubSeq(b, 1, Len(a))
  BY <1>3, <1>4, SeqEqual
<1> QED
  BY <1>1, <1>2, <1>3, <1>4 DEF IsPrefix

LEMMA BelowDiffers ==
  ASSUME NEW a \in Seq(Int), NEW b \in Seq(Int)
  PROVE  Below(a, b) <=> \E n \in Nat \ {0} : DiffersAt(a, b, n)
<1>1. /\ Len(a) \in Nat /\ Len(b) \in Nat
      /\ \A i \in 1 .. Len(a) : a[i] \in Int
      /\ \A i \in 1 .. Len(b) : b[i] \in Int
  BY LenProperties
<1>2. Min({Len(a), Len(b)}) = IF Len(a) <= Len(b) THEN Len(a) ELSE Len(b)
  BY <1>1, ShorterLength
<1>3. IsStrictPrefix(a, b) <=> Len(a) < Len(b) /\ \A i \in 1 .. Len(a) : a[i] = b[i]
  <2>1. ASSUME Len(a) = Len(b), \A i \in 1 .. Len(a) : a[i] = b[i] PROVE a = b
    BY <2>1, SeqEqual
  <2> QED
    BY <1>1, <2>1, PrefixBytes DEF IsStrictPrefix
<1>4. ASSUME Below(a, b) PROVE \E n \in Nat \ {0} : DiffersAt(a, b, n)
  <2>1. CASE IsStrictPrefix(a, b)
    <3>1. DiffersAt(a, b, Len(a) + 1)
      BY <1>1, <1>3, <2>1 DEF DiffersAt
    <3> QED
      BY <1>1, <3>1
  <2>2. CASE ~IsStrictPrefix(a, b)
    <3>1. PICK i \in 1 .. Min({Len(a), Len(b)}) : a[i] < b[i] /\ \A j \in 1 .. i - 1 : a[j] = b[j]
      BY <1>4, <2>2 DEF Below
    <3>2. DiffersAt(a, b, i)
      BY <1>1, <1>2, <3>1 DEF DiffersAt
    <3> QED
      BY <1>1, <1>2, <3>2
  <2> QED
    BY <2>1, <2>2
<1>5. ASSUME NEW n \in Nat \ {0}, DiffersAt(a, b, n) PROVE Below(a, b)
  <2>1. CASE n = Len(a) + 1
    <3>1. IsStrictPrefix(a, b)
      BY <1>1, <1>3, <1>5, <2>1 DEF DiffersAt
    <3> QED
      BY <3>1 DEF Below
  <2>2. CASE n <= Len(a) /\ a[n] < b[n]
    <3>1. n \in 1 .. Min({Len(a), Len(b)})
      BY <1>1, <1>2, <1>5, <2>2 DEF DiffersAt
    <3> QED
      BY <1>5, <2>2, <3>1 DEF Below, DiffersAt
  <2> QED
    BY <1>5, <2>1, <2>2 DEF DiffersAt
<1> QED
  BY <1>4, <1>5

LEMMA DiffersGoesOn ==
  ASSUME NEW a \in Seq(Int), NEW b \in Seq(Int), NEW c \in Seq(Int),
         NEW m \in Nat \ {0}, NEW n \in Nat \ {0}, DiffersAt(a, b, m), DiffersAt(b, c, n)
  PROVE  \E i \in Nat \ {0} : DiffersAt(a, c, i)
<1>1. /\ Len(a) \in Nat /\ Len(b) \in Nat /\ Len(c) \in Nat
      /\ \A i \in 1 .. Len(a) : a[i] \in Int
      /\ \A i \in 1 .. Len(b) : b[i] \in Int
      /\ \A i \in 1 .. Len(c) : c[i] \in Int
  BY LenProperties
<1>2. CASE m < n
  <2>1. m <= Len(b) /\ b[m] = c[m] /\ m <= Len(c)
    BY <1>1, <1>2 DEF DiffersAt
  <2>2. \A i \in 1 .. m - 1 : a[i] = c[i]
    BY <1>1, <1>2 DEF DiffersAt
  <2>3. DiffersAt(a, c, m)
    BY <1>1, <2>1, <2>2 DEF DiffersAt
  <2> QED
    BY <2>3
<1>3. CASE n < m
  <2>1. n <= Len(a) /\ a[n] = b[n] /\ n <= Len(b) /\ n <= Len(c) /\ b[n] < c[n]
    BY <1>1, <1>3 DEF DiffersAt
  <2>2. \A i \in 1 .. n - 1 : a[i] = c[i]
    BY <1>1, <1>3 DEF DiffersAt
  <2>3. DiffersAt(a, c, n)
    BY <1>1, <2>1, <2>2 DEF DiffersAt
  <2> QED
    BY <2>3
<1>4. CASE m = n
  <2>1. n <= Len(b) /\ n <= Len(c) /\ b[n] < c[n]
    BY <1>1, <1>4 DEF DiffersAt
  <2>2. \A i \in 1 .. n - 1 : a[i] = c[i]
    BY <1>1, <1>4 DEF DiffersAt
  <2>3. n <= Len(a) + 1 /\ (n = Len(a) + 1 \/ (n <= Len(a) /\ a[n] < b[n]))
    BY <1>4 DEF DiffersAt
  <2>4. n <= Len(a) => a[n] \in Int /\ b[n] \in Int /\ c[n] \in Int
    BY <1>1, <2>1
  <2>5. ASSUME n # Len(a) + 1 PROVE n <= Len(a) /\ a[n] < c[n]
    <3>1. n <= Len(a) /\ a[n] < b[n]
      BY <2>3, <2>5
    <3>2. a[n] \in Int /\ b[n] \in Int /\ c[n] \in Int
      BY <2>4, <3>1
    <3> DEFINE x == a[n]
               y == b[n]
               z == c[n]
    <3>3. x \in Int /\ y \in Int /\ z \in Int /\ x < y /\ y < z
      BY <2>1, <3>1, <3>2
    <3> HIDE DEF x, y, z
    <3>4. x < z
      BY <3>3
    <3> QED
      BY <3>1, <3>4 DEF x, z
  <2>6. DiffersAt(a, c, n)
    BY <2>1, <2>2, <2>3, <2>5 DEF DiffersAt
  <2> QED
    BY <2>6
<1> QED
  BY <1>2, <1>3, <1>4

LEMMA KeysComparable ==
  ASSUME NEW a \in Seq(Int), NEW b \in Seq(Int), a # b
  PROVE  Below(a, b) \/ Below(b, a)
<1> DEFINE T == {i \in Nat \ {0} : i > Len(a) \/ i > Len(b) \/ a[i] # b[i]}
<1>1. /\ Len(a) \in Nat /\ Len(b) \in Nat
      /\ \A i \in 1 .. Len(a) : a[i] \in Int
      /\ \A i \in 1 .. Len(b) : b[i] \in Int
  BY LenProperties
<1>2. T # {}
  <2>1. Len(a) + 1 \in T
    BY <1>1
  <2> QED
    BY <2>1
<1>3. PICK n \in T : \A m \in T : n <= m
  <2> HIDE DEF T
  <2>1. T \in SUBSET Nat
    BY DEF T
  <2> QED
    BY <1>2, <2>1, LeastNatural
<1>4. n \in Nat \ {0} /\ \A i \in 1 .. n - 1 : i <= Len(a) /\ i <= Len(b) /\ a[i] = b[i]
  BY <1>1, <1>3
<1>5. n <= Len(a) + 1 /\ n <= Len(b) + 1
  BY <1>1, <1>4
<1>6. ~(n > Len(a) /\ n > Len(b))
  <2> SUFFICES ASSUME n > Len(a), n > Len(b) PROVE FALSE
    OBVIOUS
  <2>1. Len(a) = Len(b) /\ \A i \in 1 .. Len(a) : a[i] = b[i]
    BY <1>1, <1>4, <1>5
  <2> QED
    BY <2>1, SeqEqual
<1>7. DiffersAt(a, b, n) \/ DiffersAt(b, a, n)
  BY <1>1, <1>3, <1>4, <1>5, <1>6 DEF DiffersAt
<1> QED
  BY <1>4, <1>7, BelowDiffers

\* What is below a key is below every key that is not below that one.
LEMMA BelowGoesOn ==
  ASSUME NEW a \in Seq(Int), NEW b \in Seq(Int), NEW c \in Seq(Int),
         Below(a, b), ~Below(c, b)
  PROVE  Below(a, c)
<1>1. CASE b = c
  BY <1>1
<1>2. CASE b # c
  <2>1. Below(b, c)
    BY <1>2, KeysComparable
  <2>2. PICK m \in Nat \ {0} : DiffersAt(a, b, m)
    BY BelowDiffers
  <2>3. PICK n \in Nat \ {0} : DiffersAt(b, c, n)
    BY <2>1, BelowDiffers
  <2>4. \E i \in Nat \ {0} : DiffersAt(a, c, i)
    BY <2>2, <2>3, DiffersGoesOn
  <2> QED
    BY <2>4, BelowDiffers
<1> QED
  BY <1>1, <1>2

-----------------------------------------------------------------------------
(* A scan. *)

\* Entries of the pages before this one.
Earlier ==
  {p \in DOMAIN Entries : scan.what = "range" /\ ~Below(Entries[p], first)
                                              /\ Below(Entries[p], scan.from)}

\* What the iterator has passed.
Passed == {matches[i] : i \in 1 .. cursor - 1}

ScanFrame ==
  /\ reader \in Tables
  /\ scan.what \in {"all", "prefix", "range"}
  /\ scan.from \in Seq(Nat) /\ scan.to \in Seq(Nat) /\ first \in Seq(Nat)
  /\ scan.what = "range" =>
       ~Below(scan.from, first) /\ (first = scan.from \/ Below(scan.from, scan.to))
  /\ entry \in 1 .. Len(Entries) + 1
  /\ step # "scanning" => entry = Len(Entries) + 1

\* The iterator has the entries that the scan takes, up to the one it looks at.
MatchesInv ==
  /\ matches \in Seq(DOMAIN Entries) /\ IsInjective(matches)
  /\ ToSet(matches) = {p \in 1 .. entry - 1 : Takes(p)}
  /\ cursor \in 1 .. Len(matches) + 1
  /\ step = "scanning" => cursor = 1
  /\ step = "exhausted" => cursor = Len(matches) + 1

\* The application has those of the earlier pages and what the iterator passed.
GivenInv ==
  /\ given \in Seq(DOMAIN Entries) /\ IsInjective(given)
  /\ ToSet(given) \cap skipped = {}
  /\ ToSet(given) \cup skipped = Earlier \cup Passed

ScanInv ==
  /\ reader \in Tables \cup {NoReader}
  /\ step \in {"idle", "scanning", "iterating", "exhausted"}
  /\ IF step = "idle"
     THEN /\ scan = NoScan /\ entry = 1 /\ matches = <<>> /\ cursor = 1
          /\ given = <<>> /\ skipped = {}
     ELSE ScanFrame /\ MatchesInv /\ GivenInv

LEMMA EntriesAreKeys ==
  ASSUME reader \in Tables
  PROVE  /\ Entries \in Seq(Seq(Int)) /\ Len(Entries) \in Nat
         /\ DOMAIN Entries = 1 .. Len(Entries)
         /\ \A p \in DOMAIN Entries : Entries[p] \in Seq(Int)
<1>1. Seq(Nat) \subseteq Seq(Int)
  <2> SUFFICES ASSUME NEW s \in Seq(Nat) PROVE s \in Seq(Int)
    OBVIOUS
  <2>1. Nat \subseteq Int
    OBVIOUS
  <2> QED
    BY <2>1, SeqMonotonic
<1>2. Hole \in Seq(Int)
  BY DEF Hole
<1>3. Entries \in Seq(Seq(Nat) \cup {Hole}) /\ Seq(Nat) \cup {Hole} \subseteq Seq(Int)
  BY <1>1, <1>2, ScanConstants DEF Entries
<1>4. Entries \in Seq(Seq(Int))
  BY <1>3, SeqMonotonic
<1> QED
  BY <1>4, LenProperties

LEMMA KeysAreInt == \A s \in Seq(Nat) : s \in Seq(Int)
<1> SUFFICES ASSUME NEW s \in Seq(Nat) PROVE s \in Seq(Int)
  OBVIOUS
<1>1. Nat \subseteq Int
  OBVIOUS
<1> QED
  BY <1>1, SeqMonotonic

LEMMA AppendSet ==
  ASSUME NEW S, NEW s \in Seq(S), NEW x \in S
  PROVE  /\ Append(s, x) \in Seq(S) /\ Len(Append(s, x)) = Len(s) + 1
         /\ ToSet(Append(s, x)) = ToSet(s) \cup {x}
         /\ IsInjective(s) /\ x \notin ToSet(s) => IsInjective(Append(s, x))
<1>1. Len(s) \in Nat /\ DOMAIN s = 1 .. Len(s) /\ \A i \in 1 .. Len(s) : s[i] \in S
  BY LenProperties
<1>2. /\ Append(s, x) \in Seq(S) /\ Len(Append(s, x)) = Len(s) + 1
      /\ DOMAIN Append(s, x) = 1 .. Len(s) + 1
      /\ \A i \in 1 .. Len(s) : Append(s, x)[i] = s[i]
      /\ Append(s, x)[Len(s) + 1] = x
  BY <1>1
<1>3. 1 .. Len(s) + 1 = (1 .. Len(s)) \cup {Len(s) + 1}
  BY <1>1
<1>4. ToSet(Append(s, x)) = ToSet(s) \cup {x}
  BY <1>1, <1>2, <1>3 DEF ToSet
<1>5. ASSUME IsInjective(s), x \notin ToSet(s) PROVE IsInjective(Append(s, x))
  BY <1>1, <1>2, <1>3, <1>5 DEF ToSet, IsInjective
<1> QED
  BY <1>2, <1>4, <1>5

LEMMA NoElements == ToSet(<<>>) = {} /\ IsInjective(<<>>) /\ \A S : <<>> \in Seq(S)
BY DEF ToSet, IsInjective

LEMMA ScanInitInv == ScanInit => ScanInv
BY DEF ScanInit, ScanInv

\* A scan that begins, with what the pages before it returned.
LEMMA BegunInv ==
  ASSUME NEW what \in {"all", "prefix", "range"}, NEW from \in Seq(Nat), NEW to \in Seq(Nat),
         reader \in Tables, Begun(what, from, to), first' \in Seq(Nat),
         what = "range" => ~Below(from, first') /\ (first' = from \/ Below(from, to)),
         given' \in Seq(DOMAIN Entries), IsInjective(given'), ToSet(given') \cap skipped' = {},
         ToSet(given') \cup skipped' =
           {p \in DOMAIN Entries : what = "range" /\ ~Below(Entries[p], first')
                                                  /\ Below(Entries[p], from)}
  PROVE  ScanInv'
<1>1. /\ scan' = [what |-> what, from |-> from, to |-> to] /\ step' = "scanning"
      /\ entry' = 1 /\ matches' = <<>> /\ cursor' = 1 /\ reader' = reader
  BY DEF Begun
<1>2. Entries' = Entries
  BY <1>1 DEF Entries
<1>3. ScanFrame'
  BY <1>1, <1>2, EntriesAreKeys DEF ScanFrame
<1>4. MatchesInv'
  <2>1. Len(<<>>) = 0 /\ (1 .. 1 - 1) = {}
    OBVIOUS
  <2> QED
    BY <1>1, <2>1, NoElements DEF MatchesInv
<1>5. GivenInv'
  <2>1. Passed' = {}
    <3>1. (1 .. 1 - 1) = {}
      OBVIOUS
    <3> QED
      BY <1>1, <3>1 DEF Passed
  <2>2. Earlier' = {p \in DOMAIN Entries : what = "range" /\ ~Below(Entries[p], first')
                                                         /\ Below(Entries[p], from)}
    BY <1>1, <1>2 DEF Earlier
  <2> QED
    BY <1>2, <2>1, <2>2 DEF GivenInv
<1> QED
  BY <1>1, <1>3, <1>4, <1>5 DEF ScanInv

LEMMA StartScanInv ==
  ASSUME ScanInv, NEW what \in {"all", "prefix", "range"}, NEW from \in Seq(Nat),
         NEW to \in Seq(Nat), StartScan(what, from, to)
  PROVE  ScanInv'
<1>1. /\ reader \in Tables /\ Begun(what, from, to)
      /\ given' = <<>> /\ skipped' = {} /\ first' = from
  BY DEF ScanInv, StartScan
<1>2. ~Below(from, from)
  <2>1. Len(from) \in Nat /\ \A i \in 1 .. Len(from) : from[i] \in Nat
    BY LenProperties
  <2>2. Min({Len(from), Len(from)}) = Len(from)
    BY <2>1, ShorterLength
  <2> QED
    BY <2>1, <2>2 DEF Below, IsStrictPrefix
<1>3. {p \in DOMAIN Entries : what = "range" /\ ~Below(Entries[p], from)
                                              /\ Below(Entries[p], from)} = {}
  OBVIOUS
<1> QED
  BY <1>1, <1>2, <1>3, NoElements, BegunInv

\* The range so far and the next one are one range.
LEMMA RangesMeet ==
  ASSUME ScanFrame, scan.what = "range", ~Below(scan.to, scan.from)
  PROVE  /\ ~Below(scan.to, first)
         /\ {p \in DOMAIN Entries : ~Below(Entries[p], first) /\ Below(Entries[p], scan.to)} =
              Earlier \cup {p \in DOMAIN Entries : Takes(p)}
<1>1. /\ scan.from \in Seq(Int) /\ scan.to \in Seq(Int) /\ first \in Seq(Int)
      /\ ~Below(scan.from, first)
  BY KeysAreInt DEF ScanFrame
<1>2. ~Below(scan.to, first)
  <2> SUFFICES ASSUME Below(scan.to, first) PROVE FALSE
    OBVIOUS
  <2>1. Below(scan.to, scan.from)
    BY <1>1, BelowGoesOn
  <2> QED
    BY <2>1
<1>3. ASSUME NEW p \in DOMAIN Entries
      PROVE  /\ Below(Entries[p], first) => Below(Entries[p], scan.from)
             /\ Below(Entries[p], scan.from) => Below(Entries[p], scan.to)
  <2>1. Entries[p] \in Seq(Int)
    BY EntriesAreKeys DEF ScanFrame
  <2> QED
    BY <1>1, <2>1, BelowGoesOn
<1> QED
  BY <1>2, <1>3 DEF Earlier, Takes

\* A scan that has been read to its end has given what it takes.
LEMMA ReadToItsEnd ==
  ASSUME ScanInv, step = "exhausted"
  PROVE  ToSet(given) \cup skipped = Earlier \cup {p \in DOMAIN Entries : Takes(p)}
<1>1. ScanFrame /\ MatchesInv /\ GivenInv
  BY DEF ScanInv
<1>2. /\ cursor = Len(matches) + 1 /\ Len(matches) \in Nat
      /\ DOMAIN matches = 1 .. Len(matches)
  BY <1>1, LenProperties DEF MatchesInv
<1>3. Passed = ToSet(matches)
  <2>1. 1 .. cursor - 1 = DOMAIN matches
    BY <1>2
  <2> QED
    BY <2>1 DEF Passed, ToSet
<1>4. 1 .. entry - 1 = DOMAIN Entries
  BY <1>1, EntriesAreKeys DEF ScanFrame
<1> QED
  BY <1>1, <1>3, <1>4 DEF MatchesInv, GivenInv

LEMMA NextPageInv ==
  ASSUME ScanInv, NEW to \in Seq(Nat), NextPage(to)
  PROVE  ScanInv'
<1>1. /\ step = "exhausted" /\ scan.what = "range" /\ ~Below(scan.to, scan.from)
      /\ Begun("range", scan.to, to) /\ given' = given /\ skipped' = skipped /\ first' = first
  BY DEF NextPage
<1>2. ScanFrame /\ GivenInv
  BY <1>1 DEF ScanInv
<1>3. /\ ~Below(scan.to, first)
      /\ ToSet(given) \cup skipped =
           {p \in DOMAIN Entries : ~Below(Entries[p], first) /\ Below(Entries[p], scan.to)}
  BY <1>1, <1>2, RangesMeet, ReadToItsEnd
<1>4. /\ scan.to \in Seq(Nat) /\ reader \in Tables /\ first' \in Seq(Nat)
      /\ given' \in Seq(DOMAIN Entries) /\ IsInjective(given') /\ ToSet(given') \cap skipped' = {}
  BY <1>1, <1>2 DEF ScanFrame, GivenInv
<1>5. ~Below(scan.to, first') /\ Below(scan.to, to)
  BY <1>1, <1>3 DEF NextPage
<1>6. ToSet(given') \cup skipped' =
        {p \in DOMAIN Entries : "range" = "range" /\ ~Below(Entries[p], first')
                                                  /\ Below(Entries[p], scan.to)}
  BY <1>1, <1>3
<1> QED
  BY <1>1, <1>4, <1>5, <1>6, BegunInv

LEMMA ScanEntryInv == ASSUME ScanInv, ScanEntry PROVE ScanInv'
<1>1. /\ step = "scanning" /\ entry <= Len(Entries)
      /\ matches' = IF Takes(entry) THEN Append(matches, entry) ELSE matches
      /\ entry' = entry + 1
      /\ UNCHANGED <<reader, scan, step, cursor, given, skipped, first>>
  BY DEF ScanEntry
<1>2. ScanFrame /\ MatchesInv /\ GivenInv /\ reader \in Tables
  BY <1>1 DEF ScanInv, ScanFrame
<1>3. entry \in DOMAIN Entries /\ entry \in Nat /\ Len(Entries) \in Nat
      /\ entry \notin 1 .. entry - 1 /\ 1 .. (entry + 1) - 1 = (1 .. entry - 1) \cup {entry}
  BY <1>1, <1>2, EntriesAreKeys DEF ScanFrame
<1>4. Entries' = Entries /\ \A p : Takes(p)' <=> Takes(p)
  BY <1>1 DEF Entries, Takes, Present
<1>5. ScanFrame'
  BY <1>1, <1>2, <1>3, <1>4 DEF ScanFrame
<1>6. cursor = 1 /\ cursor \in 1 .. Len(matches) + 1 /\ Len(matches) \in Nat
  BY <1>1, <1>2, LenProperties DEF MatchesInv
<1>7. /\ matches' \in Seq(DOMAIN Entries) /\ IsInjective(matches')
      /\ ToSet(matches') = {p \in 1 .. entry' - 1 : Takes(p)}
      /\ Len(matches') \in Nat
  <2>1. /\ matches \in Seq(DOMAIN Entries) /\ IsInjective(matches)
        /\ ToSet(matches) = {p \in 1 .. entry - 1 : Takes(p)}
    BY <1>2 DEF MatchesInv
  <2>2. entry \notin ToSet(matches)
    BY <1>3, <2>1
  <2>3. /\ Append(matches, entry) \in Seq(DOMAIN Entries) /\ IsInjective(Append(matches, entry))
        /\ ToSet(Append(matches, entry)) = ToSet(matches) \cup {entry}
    BY <1>3, <2>1, <2>2, AppendSet
  <2>4. /\ matches' \in Seq(DOMAIN Entries) /\ IsInjective(matches')
        /\ ToSet(matches') = {p \in 1 .. entry' - 1 : Takes(p)}
    BY <1>1, <1>3, <2>1, <2>3
  <2> QED
    BY <2>4, LenProperties
<1>8. MatchesInv'
  BY <1>1, <1>4, <1>6, <1>7 DEF MatchesInv
<1>9. GivenInv'
  <2>1. Passed' = Passed /\ Earlier' = Earlier
    <3>1. 1 .. cursor - 1 = {} /\ cursor' = cursor
      BY <1>1, <1>6
    <3>2. Earlier' = Earlier
      BY <1>1, <1>4 DEF Earlier
    <3> QED
      BY <3>1, <3>2 DEF Passed
  <2> QED
    BY <1>1, <1>2, <1>4, <2>1 DEF GivenInv
<1> QED
  BY <1>1, <1>2, <1>5, <1>8, <1>9 DEF ScanInv

\* What stays when the iterator alone moves.
LEMMA IteratorMoves ==
  ASSUME ScanInv, step \in {"scanning", "iterating"},
         UNCHANGED <<reader, scan, entry, matches, first>>
  PROVE  /\ ScanFrame /\ MatchesInv /\ GivenInv
         /\ Entries' = Entries /\ Earlier' = Earlier
         /\ \A p : Takes(p)' <=> Takes(p)
<1>1. Entries' = Entries
  BY DEF Entries
<1> QED
  BY <1>1 DEF ScanInv, Takes, Present, Earlier

LEMMA ScanReturnsInv == ASSUME ScanInv, ScanReturns PROVE ScanInv'
<1>1. /\ step = "scanning" /\ entry > Len(Entries) /\ step' = "iterating"
      /\ UNCHANGED <<reader, scan, entry, matches, first>>
      /\ UNCHANGED <<cursor, given, skipped>>
  BY DEF ScanReturns
<1>2. /\ ScanFrame /\ MatchesInv /\ GivenInv /\ Entries' = Entries /\ Earlier' = Earlier
      /\ \A p : Takes(p)' <=> Takes(p)
  BY <1>1, IteratorMoves
<1>3. ScanFrame'
  <2>1. entry = Len(Entries) + 1
    BY <1>1, <1>2, EntriesAreKeys DEF ScanFrame
  <2> QED
    BY <1>1, <1>2, <2>1 DEF ScanFrame
<1>4. MatchesInv'
  BY <1>1, <1>2 DEF MatchesInv
<1>5. GivenInv'
  BY <1>1, <1>2 DEF GivenInv, Passed
<1> QED
  BY <1>1, <1>3, <1>4, <1>5 DEF ScanInv, ScanFrame

LEMMA NextNotFoundInv == ASSUME ScanInv, NextNotFound PROVE ScanInv'
<1>1. /\ step = "iterating" /\ cursor > Len(matches) /\ step' = "exhausted"
      /\ UNCHANGED <<reader, scan, entry, matches, first>>
      /\ UNCHANGED <<cursor, given, skipped>>
  BY DEF NextNotFound
<1>2. /\ ScanFrame /\ MatchesInv /\ GivenInv /\ Entries' = Entries /\ Earlier' = Earlier
      /\ \A p : Takes(p)' <=> Takes(p)
  BY <1>1, IteratorMoves
<1>3. ScanFrame'
  BY <1>1, <1>2 DEF ScanFrame
<1>4. MatchesInv'
  <2>1. Len(matches) \in Nat
    BY <1>2, LenProperties DEF MatchesInv
  <2> QED
    BY <1>1, <1>2, <2>1 DEF MatchesInv
<1>5. GivenInv'
  BY <1>1, <1>2 DEF GivenInv, Passed
<1> QED
  BY <1>1, <1>3, <1>4, <1>5 DEF ScanInv, ScanFrame

\* The next match is one that the application has not had yet.
LEMMA NextIsNew ==
  ASSUME ScanInv, HasNext
  PROVE  /\ cursor \in 1 .. Len(matches) /\ Len(matches) \in Nat
         /\ matches[cursor] \in DOMAIN Entries
         /\ matches[cursor] \notin ToSet(given) \cup skipped
         /\ Passed \cup {matches[cursor]} = {matches[i] : i \in 1 .. (cursor + 1) - 1}
<1>1. ScanFrame /\ MatchesInv /\ GivenInv
  BY DEF ScanInv, HasNext
<1>2. /\ Len(matches) \in Nat /\ DOMAIN matches = 1 .. Len(matches)
      /\ \A i \in 1 .. Len(matches) : matches[i] \in DOMAIN Entries
  BY <1>1, LenProperties DEF MatchesInv
<1>3. cursor \in 1 .. Len(matches)
  BY <1>1, <1>2 DEF MatchesInv, HasNext
<1>4. matches[cursor] \notin Earlier
  <2>1. Takes(matches[cursor])
    BY <1>1, <1>2, <1>3 DEF MatchesInv, ToSet
  <2> QED
    BY <2>1 DEF Takes, Earlier
<1>5. matches[cursor] \notin Passed
  BY <1>1, <1>2, <1>3 DEF MatchesInv, IsInjective, Passed
<1>6. 1 .. (cursor + 1) - 1 = (1 .. cursor - 1) \cup {cursor}
  BY <1>2, <1>3
<1> QED
  BY <1>1, <1>2, <1>3, <1>4, <1>5, <1>6 DEF GivenInv, Passed

LEMMA IteratorNextInv ==
  ASSUME ScanInv, HasNext, cursor' = cursor + 1,
         UNCHANGED <<reader, scan, entry, matches, first>>, step' = step,
         \/ given' = Append(given, matches[cursor]) /\ skipped' = skipped
         \/ given' = given /\ skipped' = skipped \cup {matches[cursor]}
  PROVE  ScanInv'
<1>1. /\ step = "iterating" /\ ScanFrame /\ MatchesInv /\ GivenInv
      /\ Entries' = Entries /\ Earlier' = Earlier /\ \A p : Takes(p)' <=> Takes(p)
  BY IteratorMoves DEF HasNext
<1>2. ScanFrame'
  BY <1>1 DEF ScanFrame
<1>3. MatchesInv'
  BY <1>1, NextIsNew DEF MatchesInv
<1>4. Passed' = Passed \cup {matches[cursor]}
  BY NextIsNew DEF Passed
<1>5. /\ given' \in Seq(DOMAIN Entries) /\ IsInjective(given')
      /\ ToSet(given') \cap skipped' = {}
      /\ ToSet(given') \cup skipped' = ToSet(given) \cup skipped \cup {matches[cursor]}
  <2>1. given \in Seq(DOMAIN Entries) /\ IsInjective(given) /\ ToSet(given) \cap skipped = {}
    BY <1>1 DEF GivenInv
  <2>2. /\ Append(given, matches[cursor]) \in Seq(DOMAIN Entries)
        /\ IsInjective(Append(given, matches[cursor]))
        /\ ToSet(Append(given, matches[cursor])) = ToSet(given) \cup {matches[cursor]}
    BY <2>1, NextIsNew, AppendSet
  <2> QED
    BY <2>1, <2>2, NextIsNew
<1>6. GivenInv'
  BY <1>1, <1>4, <1>5 DEF GivenInv
<1> QED
  BY <1>1, <1>2, <1>3, <1>6 DEF ScanInv, ScanFrame

LEMMA CloseIteratorInv == ASSUME ScanInv, CloseIterator PROVE ScanInv'
BY DEF ScanInv, CloseIterator

LEMMA ScanStepInv == ASSUME ScanInv, [ScanNext]_scanVars PROVE ScanInv'
<1>1. ASSUME NEW t \in Tables, OpenReader(t) PROVE ScanInv'
  BY <1>1 DEF OpenReader, ScanInv
<1>2. \A p \in ScanKey : p \in Seq(Nat)
  BY ScanConstants
<1>3. <<>> \in Seq(Nat)
  BY NoElements
<1>4. ASSUME NEW p \in ScanKey, StartScan("prefix", p, <<>>) \/ NextPage(p) PROVE ScanInv'
  BY <1>2, <1>3, <1>4, StartScanInv, NextPageInv
<1>5. ASSUME NEW a \in ScanKey, NEW b \in ScanKey, StartScan("range", a, b) PROVE ScanInv'
  BY <1>2, <1>5, StartScanInv
<1>6. ASSUME StartScan("all", <<>>, <<>>) PROVE ScanInv'
  BY <1>3, <1>6, StartScanInv
<1>7. ASSUME NextGives PROVE ScanInv'
  BY <1>7, IteratorNextInv DEF NextGives
<1>8. ASSUME NextFails PROVE ScanInv'
  BY <1>8, IteratorNextInv DEF NextFails
<1>9. ASSUME UNCHANGED scanVars PROVE ScanInv'
  <2>1. Entries' = Entries /\ \A p : Takes(p)' <=> Takes(p)
    BY <1>9 DEF scanVars, Entries, Takes, Present
  <2>2. Passed' = Passed /\ Earlier' = Earlier
    BY <1>9, <2>1 DEF scanVars, Passed, Earlier
  <2>3. ScanFrame' <=> ScanFrame
    BY <1>9, <2>1 DEF scanVars, ScanFrame
  <2>4. MatchesInv' <=> MatchesInv
    BY <1>9, <2>1 DEF scanVars, MatchesInv
  <2>5. GivenInv' <=> GivenInv
    BY <1>9, <2>1, <2>2 DEF scanVars, GivenInv
  <2> QED
    BY <1>9, <2>3, <2>4, <2>5 DEF scanVars, ScanInv
<1> QED
  BY <1>1, <1>4, <1>5, <1>6, <1>7, <1>8, <1>9, ScanEntryInv, ScanReturnsInv, NextNotFoundInv,
     CloseIteratorInv
  DEF ScanNext

LEMMA ScanInvariant == ScanSpec => []ScanInv
BY ScanInitInv, ScanStepInv, PTL DEF ScanSpec

LEMMA PrefixIsWanted ==
  ASSUME NEW a \in Seq(Int), NEW b \in Seq(Int)
  PROVE  IsPrefix(a, b) <=> \E n \in 0 .. Len(b) : SubSeq(b, 1, n) = a
<1>1. Len(a) \in Nat /\ Len(b) \in Nat /\ \A i \in 1 .. Len(b) : b[i] \in Int
  BY LenProperties
<1>2. SubSeq(a, 1, Len(a)) = a
  BY SubSeqFull
<1>3. ASSUME NEW n \in 0 .. Len(b), SubSeq(b, 1, n) = a PROVE n = Len(a)
  <2>1. n \in Int /\ \A i \in 1 .. n : b[i] \in Int
    BY <1>1
  <2>2. Len(SubSeq(b, 1, n)) = IF 1 <= n THEN n - 1 + 1 ELSE 0
    BY <2>1, SubSeqProperties
  <2> QED
    BY <1>1, <1>3, <2>2
<1>4. IsPrefix(a, b) <=> Len(a) <= Len(b) /\ a = SubSeq(b, 1, Len(a))
  BY <1>2 DEF IsPrefix
<1>5. ASSUME IsPrefix(a, b) PROVE \E n \in 0 .. Len(b) : SubSeq(b, 1, n) = a
  <2>1. Len(a) \in 0 .. Len(b)
    BY <1>1, <1>4, <1>5
  <2> QED
    BY <1>4, <1>5, <2>1
<1>6. ASSUME NEW n \in 0 .. Len(b), SubSeq(b, 1, n) = a PROVE IsPrefix(a, b)
  <2>1. n = Len(a)
    BY <1>3, <1>6
  <2>2. Len(a) <= Len(b)
    BY <1>1, <2>1
  <2> QED
    BY <1>4, <1>6, <2>1, <2>2
<1> QED
  BY <1>5, <1>6

\* The state of an iterator stays within the index of its reader.
THEOREM ScanTypes == ScanSpec => []ScanTypeOK
<1>1. ScanInv => ScanTypeOK
  <2> SUFFICES ASSUME ScanInv PROVE ScanTypeOK
    OBVIOUS
  <2>1. CASE step = "idle"
    BY <2>1, NoElements DEF ScanInv, ScanTypeOK, NoScan
  <2>2. CASE step # "idle"
    <3>1. ScanFrame /\ MatchesInv /\ GivenInv
      BY <2>2 DEF ScanInv
    <3>2. \A s \in Seq(DOMAIN Entries) : ToSet(s) \subseteq DOMAIN Entries
      BY LenProperties DEF ToSet
    <3>3. skipped \subseteq DOMAIN Entries
      <4>1. Passed \subseteq DOMAIN Entries
        <5>1. /\ Len(matches) \in Nat /\ \A i \in 1 .. Len(matches) : matches[i] \in DOMAIN Entries
              /\ cursor \in 1 .. Len(matches) + 1
          BY <3>1, LenProperties DEF MatchesInv
        <5> QED
          BY <5>1 DEF Passed
      <4> QED
        BY <3>1, <4>1 DEF GivenInv, Earlier
    <3> QED
      BY <3>1, <3>2, <3>3 DEF ScanInv, ScanFrame, MatchesInv, GivenInv, ScanTypeOK
  <2> QED
    BY <2>1, <2>2
<1> QED
  BY <1>1, ScanInvariant, PTL

\* An iterator that says that there is no more has given every entry that was
\* asked for, or reported it as a failure, once and no other: for any tables,
\* keys and bounds, over any number of adjacent pages (fce_iterator_next,
\* fce_reader_prefix_scan, fce_reader_range_scan, fce_reader_scan_all).
THEOREM IteratorsAreExact == ScanSpec => []ScansExact
<1>1. ScanInv /\ ScanTypeOK => ScansExact
  <2> SUFFICES ASSUME ScanInv, ScanTypeOK, step = "exhausted"
               PROVE  /\ IsInjective(given) /\ ToSet(given) \cap skipped = {}
                      /\ ToSet(given) \cup skipped = {p \in DOMAIN Entries : Wanted(p)}
    BY DEF ScansExact
  <2>1. ScanFrame /\ GivenInv
    BY DEF ScanInv
  <2>2. ToSet(given) \cup skipped = Earlier \cup {p \in DOMAIN Entries : Takes(p)}
    BY ReadToItsEnd
  <2>3. ASSUME NEW p \in DOMAIN Entries PROVE Wanted(p) <=> p \in Earlier \/ Takes(p)
    <3>1. /\ Entries[p] \in Seq(Int) /\ scan.from \in Seq(Int) /\ scan.to \in Seq(Int)
          /\ first \in Seq(Int)
      BY <2>1, EntriesAreKeys, KeysAreInt DEF ScanFrame
    <3>2. CASE scan.what = "all"
      BY <3>2 DEF Wanted, Takes, Earlier
    <3>3. CASE scan.what = "prefix"
      BY <3>1, <3>3, PrefixIsWanted DEF Wanted, Takes, Earlier
    <3>4. CASE scan.what = "range"
      <4>1. ~Below(scan.from, first) /\ (first = scan.from \/ Below(scan.from, scan.to))
        BY <2>1, <3>4 DEF ScanFrame
      <4>2. Below(Entries[p], first) => Below(Entries[p], scan.from)
        BY <3>1, <4>1, BelowGoesOn
      <4>3. ASSUME Below(Entries[p], scan.from), ~Below(Entries[p], first)
            PROVE  Below(Entries[p], scan.to)
        <5>1. Below(scan.from, scan.to)
          BY <4>1, <4>3
        <5>2. PICK m \in Nat \ {0} : DiffersAt(Entries[p], scan.from, m)
          BY <3>1, <4>3, BelowDiffers
        <5>3. PICK n \in Nat \ {0} : DiffersAt(scan.from, scan.to, n)
          BY <3>1, <5>1, BelowDiffers
        <5> QED
          BY <3>1, <5>2, <5>3, DiffersGoesOn, BelowDiffers
      <4> QED
        BY <3>4, <4>2, <4>3 DEF Wanted, Takes, Earlier
    <3> QED
      BY <2>1, <3>2, <3>3, <3>4 DEF ScanFrame
  <2>4. Earlier \subseteq DOMAIN Entries
    BY DEF Earlier
  <2> QED
    BY <2>1, <2>2, <2>3, <2>4 DEF GivenInv
<1> QED
  BY <1>1, ScanInvariant, ScanTypes, PTL

-----------------------------------------------------------------------------
(* Compactions. *)

Record == (Nat \X Key) \X Value

\* What fce_reader_get finds in records.
Shown(records) ==
  [k \in Key |->
     LET hits == {i \in DOMAIN records : records[i][1] = Encode(Plain(k))}
     IN IF hits = {} THEN Absent ELSE records[Max(hits)][2]]

Compaction ==
  [step : {"open", "read", "freeze", "write"}, source : Dir, output : Dir,
   backend : {"log", "table"}, allowDuplicates : BOOLEAN, puts : Seq(Record),
   snapshot : [Key -> Value \cup {Absent}]]

CompactShape ==
  /\ cache \in [Dir -> Cache \cup {NoCache}]
  /\ mode \in [Client \X Dir -> {"none", "shared", "exclusive"}]
  /\ op \in [Client -> Compaction \cup {Idle}]
  /\ calls \in 0 .. MaxCalls

\* A writer of a directory is alone there.
Alone ==
  \A c, e \in Client : c # e =>
    \A d \in Dir : mode[<<c, d>>] = "exclusive" => mode[<<e, d>>] = "none"

\* Until the source is closed the call has it shared, and it is there.
Reads(c) ==
  op[c].step \in {"open", "read"} =>
    /\ mode[<<c, op[c].source>>] = "shared"
    /\ cache[op[c].source] \in Cache
    /\ Len(op[c].puts) <= Len(Records(c))

Writes(c) == op[c].step = "write" => mode[<<c, op[c].output>>] = "exclusive"

\* Without a key codec, the builder has the first records of the source; when all
\* are read it shows what the source showed.
Copies(c) ==
  /\ op[c].step \in {"open", "read"} =>
       /\ op[c].snapshot = Shown(Records(c))
       /\ \A i \in 1 .. Len(op[c].puts) : op[c].puts[i] = Records(c)[i]
  /\ op[c].step \in {"freeze", "write"} => op[c].snapshot = Shown(op[c].puts)

CompactInv ==
  /\ CompactShape /\ Alone
  /\ \A c \in Client : Reads(c) /\ Writes(c)
  /\ ~Encodes => \A c \in Client : Copies(c)

LEMMA Calls ==
  ASSUME CompactShape, NEW c \in Client
  PROVE  /\ op[c] = Idle => op[c].step = "idle"
         /\ op[c].step # "idle" => op[c] \in Compaction
         /\ op[c].step \in {"idle", "open", "read", "freeze", "write"}
BY DEF CompactShape, Compaction, Idle

\* Every record set has a last element for a key, or none.
LEMMA ShownType ==
  ASSUME NEW records \in Seq(Record)
  PROVE  Shown(records) \in [Key -> Value \cup {Absent}]
<1>1. /\ Len(records) \in Nat /\ DOMAIN records = 1 .. Len(records)
      /\ \A i \in DOMAIN records : records[i] \in Record
  BY LenProperties
<1>2. IsFiniteSet(1 .. Len(records))
  BY <1>1, FS_Interval
<1> SUFFICES ASSUME NEW k \in Key,
                    NEW hits, hits = {i \in DOMAIN records : records[i][1] = Encode(Plain(k))},
                    hits # {}
             PROVE  records[Max(hits)][2] \in Value
  BY DEF Shown
<1>3. IsFiniteSet(hits) /\ hits \in SUBSET Int
  BY <1>1, <1>2, FS_Subset
<1>4. Max(hits) \in hits
  BY <1>3, MaxIsGreatest
<1> QED
  BY <1>1, <1>4 DEF Record

LEMMA LogsAndTables ==
  ASSUME NEW ca \in Cache
  PROVE  /\ ca # NoCache /\ ca.records \in Seq(Record) /\ ca.backend \in {"log", "table"}
         /\ ca.allowDuplicates \in BOOLEAN
         /\ View(ca) = Shown(ca.records)
<1>1. ca # NoCache
  BY CompactConstants
<1> QED
  BY <1>1 DEF Cache, Record, View, Shown

LEMMA Acquired ==
  ASSUME NEW c \in Client, NEW d \in Dir, NEW m, Lock!Acquire(<<c, d>>, m)
  PROVE  /\ mode' = [mode EXCEPT ![<<c, d>>] = m]
         /\ mode[<<c, d>>] = "none"
         /\ \A e \in Client \ {c} : mode[<<e, d>>] = "none"
                                    \/ (m = "shared" /\ mode[<<e, d>>] = "shared")
<1>1. /\ mode' = [mode EXCEPT ![<<c, d>>] = m] /\ mode[<<c, d>>] = "none"
      /\ Lock!Compatible(<<c, d>>, m)
  BY DEF Lock!Acquire
<1>2. ASSUME NEW e \in Client \ {c}
      PROVE  mode[<<e, d>>] = "none" \/ (m = "shared" /\ mode[<<e, d>>] = "shared")
  <2>1. <<e, d>> \in (Client \X Dir) \ {<<c, d>>}
    OBVIOUS
  <2>2. <<e, d>>[2] = <<c, d>>[2]
    OBVIOUS
  <2> QED
    BY <1>1, <2>1, <2>2 DEF Lock!Compatible
<1> QED
  BY <1>1, <1>2

\* A step of client c keeps what the others rely on, unless it changes the source
\* of one that reads.
LEMMA OthersGoOn ==
  ASSUME CompactInv, NEW c \in Client, NEW e \in Client, e # c,
         op'[e] = op[e], \A d \in Dir : mode'[<<e, d>>] = mode[<<e, d>>],
         op[e].step \in {"open", "read"} => cache'[op[e].source] = cache[op[e].source]
  PROVE  Reads(e)' /\ Writes(e)' /\ (~Encodes => Copies(e)')
<1>1. Reads(e) /\ Writes(e) /\ (~Encodes => Copies(e)) /\ CompactShape
  BY DEF CompactInv
<1>2. op[e].step # "idle" => op[e].source \in Dir /\ op[e].output \in Dir
  BY <1>1, Calls DEF Compaction
<1>3. op[e].step \in {"open", "read"} => Records(e)' = Records(e)
  BY DEF Records
<1> QED
  BY <1>1, <1>2, <1>3 DEF Reads, Writes, Copies

\* Nobody reads a directory that c has exclusive, or that is not locked at all.
LEMMA NobodyReads ==
  ASSUME CompactInv, NEW d \in Dir, NEW c \in Client, op[c].step \in {"open", "read"},
         \/ \E e \in Client \ {c} : mode[<<e, d>>] = "exclusive"
         \/ mode[<<c, d>>] = "none"
  PROVE  op[c].source # d
<1>1. mode[<<c, op[c].source>>] = "shared"
  BY DEF CompactInv, Reads
<1> QED
  BY <1>1 DEF CompactInv, Alone

\* The others are as they were and c has taken or released one lock of its own.
LEMMA LocksGoOn ==
  ASSUME CompactInv, NEW c \in Client, NEW d \in Dir, NEW m \in {"none", "shared", "exclusive"},
         mode' = [mode EXCEPT ![<<c, d>>] = m],
         m # "none" => \A e \in Client \ {c} :
                         mode[<<e, d>>] = "none" \/ (m = "shared" /\ mode[<<e, d>>] = "shared")
  PROVE  /\ mode' \in [Client \X Dir -> {"none", "shared", "exclusive"}]
         /\ Alone'
         /\ mode'[<<c, d>>] = m
         /\ \A e \in Client \ {c} : \A f \in Dir : mode'[<<e, f>>] = mode[<<e, f>>]
<1>1. CompactShape /\ Alone /\ mode \in [Client \X Dir -> {"none", "shared", "exclusive"}]
  BY DEF CompactInv, CompactShape
<1>2. ASSUME NEW e \in Client, NEW f \in Dir
      PROVE  mode'[<<e, f>>] = IF e = c /\ f = d THEN m ELSE mode[<<e, f>>]
  <2>1. <<e, f>> \in Client \X Dir
    OBVIOUS
  <2>2. <<e, f>> = <<c, d>> <=> e = c /\ f = d
    OBVIOUS
  <2> QED
    BY <1>1, <2>1, <2>2
<1>3. Alone'
  BY <1>1, <1>2 DEF Alone
<1> QED
  BY <1>1, <1>2, <1>3

LEMMA Released ==
  ASSUME CompactShape, NEW c \in Client, NEW d \in Dir, Lock!Release({<<c, d>>})
  PROVE  mode' = [mode EXCEPT ![<<c, d>>] = "none"]
BY DEF CompactShape, Lock!Release

LEMMA CompactStartInv ==
  ASSUME CompactInv, NEW c \in Client, NEW source \in Dir, NEW output \in Dir,
         NEW backend \in {"log", "table"}, CompactStart(c, source, output, backend)
  PROVE  CompactInv'
<1> DEFINE o == [step |-> "open", source |-> source, output |-> output, backend |-> backend,
                 allowDuplicates |-> FALSE, puts |-> <<>>, snapshot |-> View(cache[source])]
<1>1. /\ op[c] = Idle /\ calls < MaxCalls /\ cache[source] # NoCache
      /\ Lock!Acquire(<<c, source>>, "shared")
      /\ op' = [op EXCEPT ![c] = o] /\ calls' = calls + 1 /\ cache' = cache
  BY DEF CompactStart
<1>2. CompactShape /\ cache[source] \in Cache
  BY <1>1 DEF CompactInv, CompactShape
<1>3. /\ mode' = [mode EXCEPT ![<<c, source>>] = "shared"]
      /\ \A e \in Client \ {c} : mode[<<e, source>>] = "none" \/ mode[<<e, source>>] = "shared"
  BY <1>1, Acquired
<1>4. /\ mode' \in [Client \X Dir -> {"none", "shared", "exclusive"}] /\ Alone'
      /\ mode'[<<c, source>>] = "shared"
      /\ \A e \in Client \ {c} : \A f \in Dir : mode'[<<e, f>>] = mode[<<e, f>>]
  BY <1>3, LocksGoOn
<1>5. /\ View(cache[source]) = Shown(cache[source].records)
      /\ View(cache[source]) \in [Key -> Value \cup {Absent}]
  BY <1>2, LogsAndTables, ShownType
<1>6. o \in Compaction
  BY <1>5, NoElements DEF Compaction
<1>7. CompactShape'
  BY <1>1, <1>2, <1>4, <1>6, CompactConstants DEF CompactShape
<1>8. op'[c] = o /\ \A e \in Client \ {c} : op'[e] = op[e]
  BY <1>1, <1>2 DEF CompactShape
<1>9. ASSUME NEW e \in Client \ {c} PROVE Reads(e)' /\ Writes(e)' /\ (~Encodes => Copies(e)')
  BY <1>1, <1>4, <1>8, OthersGoOn
<1>10. Reads(c)' /\ Writes(c)' /\ Copies(c)'
  <2>1. Records(c)' = cache[source].records
    BY <1>1, <1>8 DEF Records
  <2>2. Len(<<>>) = 0 /\ Len(cache[source].records) \in Nat
    BY <1>2, LogsAndTables, LenProperties
  <2> QED
    BY <1>1, <1>2, <1>4, <1>5, <1>8, <2>1, <2>2 DEF Reads, Writes, Copies
<1> QED
  BY <1>4, <1>7, <1>9, <1>10 DEF CompactInv

\* A step that leaves the caches and the locks alone.
LEMMA OneGoesOn ==
  ASSUME CompactInv, NEW c \in Client, NEW o \in Compaction \cup {Idle},
         op' = [op EXCEPT ![c] = o], UNCHANGED <<cache, mode, calls>>,
         (Reads(c) /\ Writes(c))', ~Encodes => Copies(c)'
  PROVE  CompactInv'
<1>1. CompactShape /\ CompactShape' /\ Alone'
  BY DEF CompactInv, CompactShape, Alone
<1>2. \A e \in Client \ {c} : op'[e] = op[e]
  BY <1>1 DEF CompactShape
<1>3. ASSUME NEW e \in Client \ {c} PROVE Reads(e)' /\ Writes(e)' /\ (~Encodes => Copies(e)')
  BY <1>2, OthersGoOn
<1> QED
  BY <1>1, <1>3 DEF CompactInv

LEMMA OpenBuilderInv == ASSUME CompactInv, NEW c \in Client, OpenBuilder(c) PROVE CompactInv'
<1> DEFINE o == [op[c] EXCEPT !.step = "read",
                              !.allowDuplicates = cache[op[c].source].allowDuplicates]
<1>1. op[c].step = "open" /\ UNCHANGED <<cache, mode, calls>>
  BY DEF OpenBuilder
<1>2. op[c] \in Compaction /\ op \in [Client -> Compaction \cup {Idle}]
  BY <1>1, Calls DEF CompactInv, CompactShape
<1>3. op' = [op EXCEPT ![c] = o]
  BY <1>2 DEF OpenBuilder
<1>4. Reads(c) /\ Writes(c) /\ (~Encodes => Copies(c)) /\ cache[op[c].source] \in Cache
  BY <1>1 DEF CompactInv, Reads
<1>5. /\ o \in Compaction /\ o.step = "read" /\ o.source = op[c].source /\ o.puts = op[c].puts
      /\ o.snapshot = op[c].snapshot
  BY <1>2, <1>4, LogsAndTables DEF Compaction
<1>6. op'[c] = o
  BY <1>2, <1>3
<1> HIDE DEF o
<1>7. Records(c)' = Records(c)
  BY <1>1, <1>5, <1>6 DEF Records
<1>8. (Reads(c) /\ Writes(c))' /\ (~Encodes => Copies(c)')
  BY <1>1, <1>4, <1>5, <1>6, <1>7 DEF Reads, Writes, Copies
<1> QED
  BY <1>1, <1>3, <1>5, <1>8, OneGoesOn

LEMMA ReadRecordInv == ASSUME CompactInv, NEW c \in Client, ReadRecord(c) PROVE CompactInv'
<1>1. op[c].step = "read" /\ ~AllRead(c) /\ UNCHANGED <<cache, mode, calls>>
  BY DEF ReadRecord
<1>2. op[c] \in Compaction /\ op \in [Client -> Compaction \cup {Idle}]
  BY <1>1, Calls DEF CompactInv, CompactShape
<1>3. Reads(c) /\ Writes(c) /\ (~Encodes => Copies(c)) /\ cache[op[c].source] \in Cache
  BY <1>1 DEF CompactInv, Reads
<1>4. /\ op[c].puts \in Seq(Record) /\ Len(op[c].puts) \in Nat
      /\ Records(c) \in Seq(Record) /\ Len(Records(c)) \in Nat
      /\ \A i \in 1 .. Len(Records(c)) : Records(c)[i] \in Record
  BY <1>2, <1>3, LogsAndTables, LenProperties DEF Compaction, Records
<1> DEFINE record == Records(c)[Len(op[c].puts) + 1]
           put == <<Encode(ReadKey(c, record[1])), record[2]>>
           o == [op[c] EXCEPT !.puts = Append(op[c].puts, put)]
<1>5. op' = [op EXCEPT ![c] = o]
  BY <1>2 DEF ReadRecord
<1>6. Len(op[c].puts) + 1 \in 1 .. Len(Records(c))
  BY <1>1, <1>3, <1>4 DEF Reads, AllRead
<1>7. put \in Record /\ (~Encodes => put = record)
  <2>1. record \in Record
    BY <1>4, <1>6
  <2>2. PICK n \in Nat, k \in Key, v \in Value : record = <<<<n, k>>, v>>
    BY <2>1 DEF Record
  <2> HIDE DEF record
  <2>3. record[1] = <<n, k>> /\ record[2] = v
    BY <2>2
  <2>4. ReadKey(c, record[1]) \in {<<n, k>>, <<n - 1, k>>} /\ (~Encodes => ReadKey(c, record[1]) = <<n, k>>)
    BY <2>3 DEF ReadKey, Decode
  <2>5. Encode(ReadKey(c, record[1])) \in Nat \X Key
        /\ (~Encodes => Encode(ReadKey(c, record[1])) = <<n, k>>)
    <3>1. CASE Encodes
      <4>1. ReadKey(c, record[1]) = <<n, k>> \/ ReadKey(c, record[1]) = <<n - 1, k>>
        BY <2>4
      <4>2. Encode(<<n, k>>) = <<n + 1, k>> /\ Encode(<<n - 1, k>>) = <<n - 1 + 1, k>>
        BY <3>1 DEF Encode
      <4> QED
        BY <3>1, <4>1, <4>2
    <3>2. CASE ~Encodes
      BY <2>4, <3>2 DEF Encode
    <3> QED
      BY <3>1, <3>2
  <2> QED
    BY <2>2, <2>3, <2>5 DEF Record
<1> HIDE DEF record, put
<1>8. /\ Append(op[c].puts, put) \in Seq(Record)
      /\ Len(Append(op[c].puts, put)) = Len(op[c].puts) + 1
      /\ \A i \in 1 .. Len(op[c].puts) : Append(op[c].puts, put)[i] = op[c].puts[i]
      /\ Append(op[c].puts, put)[Len(op[c].puts) + 1] = put
  BY <1>4, <1>7
<1>9. /\ o \in Compaction /\ o.step = "read" /\ o.source = op[c].source
      /\ o.puts = Append(op[c].puts, put) /\ o.snapshot = op[c].snapshot
  BY <1>1, <1>2, <1>8 DEF Compaction
<1>10. op'[c] = o
  BY <1>2, <1>5
<1> HIDE DEF o
<1>11. Records(c)' = Records(c)
  BY <1>1, <1>9, <1>10 DEF Records
<1>12. Reads(c)' /\ Writes(c)'
  <2>1. Len(o.puts) <= Len(Records(c))
    BY <1>4, <1>6, <1>8, <1>9
  <2>2. mode[<<c, op[c].source>>] = "shared" /\ cache[op[c].source] \in Cache
    BY <1>1, <1>3 DEF Reads
  <2> QED
    BY <1>1, <1>9, <1>10, <1>11, <2>1, <2>2 DEF Reads, Writes
<1>13. ASSUME ~Encodes PROVE Copies(c)'
  <2>1. \A i \in 1 .. Len(op[c].puts) : op[c].puts[i] = Records(c)[i]
    BY <1>1, <1>3, <1>13 DEF Copies
  <2>2. \A i \in 1 .. Len(op[c].puts) + 1 :
          Append(op[c].puts, put)[i] = Records(c)[i]
    <3> SUFFICES ASSUME NEW i \in 1 .. Len(op[c].puts) + 1
                 PROVE  Append(op[c].puts, put)[i] = Records(c)[i]
      OBVIOUS
    <3>1. CASE i \in 1 .. Len(op[c].puts)
      BY <3>1, <1>8, <2>1
    <3>2. CASE i = Len(op[c].puts) + 1
      <4>1. put = Records(c)[Len(op[c].puts) + 1]
        BY <1>7, <1>13 DEF record
      <4> QED
        BY <3>2, <4>1, <1>8
    <3> QED
      BY <3>1, <3>2, <1>4
  <2>3. op[c].snapshot = Shown(Records(c))
    BY <1>1, <1>3, <1>13 DEF Copies
  <2> QED
    BY <1>8, <1>9, <1>10, <1>11, <2>2, <2>3 DEF Copies
<1> QED
  BY <1>1, <1>5, <1>9, <1>12, <1>13, OneGoesOn

\* The source is closed: everything is read, or an allocation has failed.
LEMMA SourceReleased ==
  ASSUME CompactInv, NEW c \in Client, op[c].step \in {"open", "read"},
         Lock!Release({<<c, op[c].source>>}), UNCHANGED <<cache, calls>>,
         NEW o \in Compaction \cup {Idle}, op' = [op EXCEPT ![c] = o],
         o.step \in {"idle", "freeze"},
         ~Encodes /\ o.step = "freeze" => o.snapshot = Shown(o.puts)
  PROVE  CompactInv'
<1>1. CompactShape /\ op[c].source \in Dir
  BY Calls DEF CompactInv, Compaction
<1>2. mode' = [mode EXCEPT ![<<c, op[c].source>>] = "none"]
  BY <1>1, Released
<1>3. /\ mode' \in [Client \X Dir -> {"none", "shared", "exclusive"}] /\ Alone'
      /\ \A e \in Client \ {c} : \A f \in Dir : mode'[<<e, f>>] = mode[<<e, f>>]
  BY <1>1, <1>2, LocksGoOn
<1>4. CompactShape' /\ op'[c] = o /\ \A e \in Client \ {c} : op'[e] = op[e]
  BY <1>1, <1>3 DEF CompactShape
<1>5. ASSUME NEW e \in Client \ {c} PROVE Reads(e)' /\ Writes(e)' /\ (~Encodes => Copies(e)')
  BY <1>3, <1>4, OthersGoOn
<1>6. Reads(c)' /\ Writes(c)' /\ (~Encodes => Copies(c)')
  BY <1>4 DEF Reads, Writes, Copies
<1> QED
  BY <1>3, <1>4, <1>5, <1>6 DEF CompactInv

LEMMA CloseReaderInv == ASSUME CompactInv, NEW c \in Client, CloseReader(c) PROVE CompactInv'
<1> DEFINE o == [op[c] EXCEPT !.step = "freeze"]
<1>1. /\ op[c].step = "read" /\ AllRead(c) /\ Lock!Release({<<c, op[c].source>>})
      /\ UNCHANGED <<cache, calls>>
  BY DEF CloseReader
<1>2. op[c] \in Compaction /\ op \in [Client -> Compaction \cup {Idle}]
  BY <1>1, Calls DEF CompactInv, CompactShape
<1>3. op' = [op EXCEPT ![c] = o]
  BY <1>2 DEF CloseReader, Goto
<1>4. /\ o \in Compaction /\ o.step = "freeze" /\ o.puts = op[c].puts
      /\ o.snapshot = op[c].snapshot
  BY <1>2 DEF Compaction
<1>5. ASSUME ~Encodes PROVE op[c].snapshot = Shown(op[c].puts)
  <2>1. Copies(c) /\ cache[op[c].source] \in Cache
    BY <1>1, <1>5 DEF CompactInv, Reads
  <2>2. op[c].puts \in Seq(Record) /\ Records(c) \in Seq(Record)
    BY <1>2, <2>1, LogsAndTables DEF Compaction, Records
  <2>3. Len(op[c].puts) = Len(Records(c)) /\ \A i \in 1 .. Len(op[c].puts) : op[c].puts[i] = Records(c)[i]
    BY <1>1, <2>1 DEF Copies, AllRead
  <2>4. op[c].puts = Records(c)
    BY <2>2, <2>3, SeqEqual
  <2> QED
    BY <1>1, <2>1, <2>4 DEF Copies
<1> HIDE DEF o
<1> QED
  BY <1>1, <1>3, <1>4, <1>5, SourceReleased

LEMMA ReadFailsInv == ASSUME CompactInv, NEW c \in Client, ReadFails(c) PROVE CompactInv'
<1>1. /\ op[c].step \in {"open", "read"} /\ Lock!Release({<<c, op[c].source>>})
      /\ op' = [op EXCEPT ![c] = Idle] /\ UNCHANGED <<cache, calls>>
  BY DEF ReadFails
<1>2. Idle.step = "idle"
  BY DEF Idle
<1> QED
  BY <1>1, <1>2, SourceReleased

LEMMA FreezeStartInv == ASSUME CompactInv, NEW c \in Client, FreezeStart(c) PROVE CompactInv'
<1> DEFINE o == [op[c] EXCEPT !.step = "write"]
<1>1. /\ op[c].step = "freeze" /\ Lock!Acquire(<<c, op[c].output>>, "exclusive")
      /\ UNCHANGED <<cache, calls>>
  BY DEF FreezeStart
<1>2. /\ CompactShape /\ op[c] \in Compaction /\ op[c].output \in Dir
      /\ op \in [Client -> Compaction \cup {Idle}]
  BY <1>1, Calls DEF CompactInv, CompactShape, Compaction
<1>3. op' = [op EXCEPT ![c] = o]
  BY <1>2 DEF FreezeStart, Goto
<1>4. /\ o \in Compaction /\ o.step = "write" /\ o.output = op[c].output
      /\ o.puts = op[c].puts /\ o.snapshot = op[c].snapshot
  BY <1>2 DEF Compaction
<1> HIDE DEF o
<1>5. /\ mode' = [mode EXCEPT ![<<c, op[c].output>>] = "exclusive"]
      /\ \A e \in Client \ {c} : mode[<<e, op[c].output>>] = "none"
  BY <1>1, <1>2, Acquired
<1>6. /\ mode' \in [Client \X Dir -> {"none", "shared", "exclusive"}] /\ Alone'
      /\ mode'[<<c, op[c].output>>] = "exclusive"
      /\ \A e \in Client \ {c} : \A f \in Dir : mode'[<<e, f>>] = mode[<<e, f>>]
  BY <1>2, <1>5, LocksGoOn
<1>7. CompactShape' /\ op'[c] = o /\ \A e \in Client \ {c} : op'[e] = op[e]
  BY <1>1, <1>2, <1>3, <1>4, <1>6 DEF CompactShape
<1>8. ASSUME NEW e \in Client \ {c} PROVE Reads(e)' /\ Writes(e)' /\ (~Encodes => Copies(e)')
  BY <1>1, <1>6, <1>7, OthersGoOn
<1>9. Reads(c)' /\ Writes(c)'
  BY <1>4, <1>6, <1>7 DEF Reads, Writes
<1>10. ~Encodes => Copies(c)'
  <2>1. ~Encodes => Copies(c)
    BY DEF CompactInv
  <2> QED
    BY <1>1, <1>4, <1>7, <2>1 DEF Copies
<1> QED
  BY <1>6, <1>7, <1>8, <1>9, <1>10 DEF CompactInv

\* The end of a freeze, whatever it has left in its output.
LEMMA EndFreezeInv ==
  ASSUME CompactInv, NEW c \in Client, op[c].step = "write", EndFreeze(c),
         NEW ca \in Cache \cup {NoCache},
         cache' = cache \/ cache' = [cache EXCEPT ![op[c].output] = ca]
  PROVE  CompactInv'
<1>1. CompactShape /\ op[c].output \in Dir /\ mode[<<c, op[c].output>>] = "exclusive"
  BY Calls DEF CompactInv, Compaction, Writes
<1>2. /\ Lock!Release({<<c, op[c].output>>}) /\ op' = [op EXCEPT ![c] = Idle] /\ calls' = calls
  BY DEF EndFreeze
<1>3. mode' = [mode EXCEPT ![<<c, op[c].output>>] = "none"]
  BY <1>1, <1>2, Released
<1>4. /\ mode' \in [Client \X Dir -> {"none", "shared", "exclusive"}] /\ Alone'
      /\ \A e \in Client \ {c} : \A f \in Dir : mode'[<<e, f>>] = mode[<<e, f>>]
  BY <1>1, <1>3, LocksGoOn
<1>5. CompactShape' /\ op'[c] = Idle /\ \A e \in Client \ {c} : op'[e] = op[e]
  BY <1>1, <1>2, <1>4 DEF CompactShape
<1>6. ASSUME NEW e \in Client \ {c} PROVE Reads(e)' /\ Writes(e)' /\ (~Encodes => Copies(e)')
  <2>1. op[e].step \in {"open", "read"} => op[e].source # op[c].output /\ op[e].source \in Dir
    <3>1. c \in Client \ {e}
      OBVIOUS
    <3>2. op[e].step \in {"open", "read"} => op[e].source # op[c].output
      BY <1>1, <3>1, NobodyReads
    <3> QED
      BY <1>1, <3>2, Calls DEF Compaction
  <2>2. op[e].step \in {"open", "read"} => cache'[op[e].source] = cache[op[e].source]
    BY <1>1, <2>1 DEF CompactShape
  <2> QED
    BY <1>4, <1>5, <2>2, OthersGoOn
<1>7. Reads(c)' /\ Writes(c)' /\ Copies(c)'
  BY <1>5 DEF Idle, Reads, Writes, Copies
<1> QED
  BY <1>4, <1>5, <1>6, <1>7 DEF CompactInv

\* A record that no later one supersedes is the last of its key.
Kept(puts) == {i \in DOMAIN puts : ~Superseded(puts, i)}

\* A table of the latest records shows what all of them show.
LEMMA LatestShown ==
  ASSUME NEW puts \in Seq(Record)
  PROVE  LET order == InOrder(Kept(puts))
             records == [n \in DOMAIN order |-> puts[order[n]]]
         IN  records \in Seq(Record) /\ Shown(records) = Shown(puts)
<1> DEFINE S == Kept(puts)
           order == InOrder(S)
           records == [n \in DOMAIN order |-> puts[order[n]]]
           N == Cardinality(S)
<1>1. /\ Len(puts) \in Nat /\ DOMAIN puts = 1 .. Len(puts)
      /\ \A i \in DOMAIN puts : puts[i] \in Record
  BY LenProperties
<1>2. IsFiniteSet(1 .. Len(puts))
  BY <1>1, FS_Interval
<1>3. S \in SUBSET Int /\ IsFiniteSet(S) /\ S \subseteq DOMAIN puts
  BY <1>1, <1>2, FS_Subset DEF Kept
<1>4. N \in Nat
  BY <1>3, FS_CardinalityType
<1>5. \E s : Enumerates(s, S)
  BY <1>3, EnumerationExists
<1>6. Enumerates(order, S)
  <2> HIDE DEF S
  <2> QED
    BY <1>5 DEF InOrder, Enumerates
<1>7. \A x \in S : \E i \in 1 .. N : order[i] = x
  BY <1>3, <1>6, EnumerationOnto
<1>8. order \in [1 .. N -> S] /\ DOMAIN order = 1 .. N
  BY <1>6 DEF Enumerates
<1> HIDE DEF S, order, N
<1>9. \A n \in 1 .. N : order[n] \in S /\ records[n] = puts[order[n]] /\ puts[order[n]] \in Record
  BY <1>1, <1>3, <1>8
<1>10. /\ records \in [1 .. N -> Record] /\ records \in Seq(Record)
       /\ DOMAIN records = 1 .. N
  BY <1>4, <1>8, <1>9
<1> HIDE DEF records
<1>11. ASSUME NEW k \in Key,
              NEW A, A = {i \in DOMAIN puts : puts[i][1] = Encode(Plain(k))},
              NEW B, B = {i \in DOMAIN records : records[i][1] = Encode(Plain(k))}
       PROVE  (A = {} <=> B = {}) /\ (A # {} => records[Max(B)][2] = puts[Max(A)][2])
  <2>1. ASSUME NEW i \in B PROVE order[i] \in A
    BY <1>1, <1>3, <1>9, <1>10, <1>11
  <2>2. CASE A = {}
    BY <2>1, <2>2
  <2>3. CASE A # {}
    <3>1. A \in SUBSET Int /\ IsFiniteSet(A)
      BY <1>1, <1>2, <1>11, FS_Subset
    <3>2. PICK a : a = Max(A)
      OBVIOUS
    <3>3. a \in A /\ \A y \in A : y <= a
      BY <2>3, <3>1, <3>2, MaxIsGreatest
    <3>4. a \in S
      BY <1>1, <1>11, <3>3 DEF S, Kept, Superseded
    <3>5. PICK b \in 1 .. N : order[b] = a
      BY <1>7, <3>4
    <3>6. b \in B
      BY <1>9, <1>10, <1>11, <3>3, <3>5
    <3>7. ASSUME NEW i \in B PROVE i <= b
      <4>1. i \in 1 .. N /\ order[i] <= a
        BY <1>10, <1>11, <2>1, <3>3, <3>7
      <4>2. b < i => order[b] < order[i]
        BY <1>6, <3>5, <4>1 DEF Enumerates, N
      <4>3. order[i] \in Int /\ a \in Int
        BY <1>3, <1>8, <3>1, <3>3, <4>1
      <4> QED
        BY <3>5, <4>1, <4>2, <4>3, <1>4
    <3>8. Max(B) = b
      <4>1. B \in SUBSET Int
        BY <1>10, <1>11
      <4> QED
        BY <3>6, <3>7, <4>1, MaxUnique
    <3>9. records[b] = puts[a]
      BY <1>9, <3>5
    <3> QED
      BY <2>3, <3>2, <3>6, <3>8, <3>9
  <2> QED
    BY <2>2, <2>3
<1>12. Shown(records) = Shown(puts)
  BY <1>11 DEF Shown
<1> QED
  BY <1>10, <1>12 DEF records, order, S

\* What a freeze leaves is a cache that shows what it was given.
LEMMA FrozenShows ==
  ASSUME NEW c \in Client, op[c] \in Compaction
  PROVE  Frozen(c) \in Cache /\ View(Frozen(c)) = Shown(op[c].puts)
<1>1. /\ op[c].puts \in Seq(Record) /\ op[c].backend \in {"log", "table"}
      /\ op[c].allowDuplicates \in BOOLEAN
  BY DEF Compaction
<1> DEFINE order == InOrder(Kept(op[c].puts))
           table == [n \in DOMAIN order |-> op[c].puts[order[n]]]
           records == IF op[c].backend = "log" THEN op[c].puts ELSE table
<1>2. Frozen(c) = [backend |-> op[c].backend, allowDuplicates |-> op[c].allowDuplicates,
                   records |-> records]
  BY DEF Frozen, Kept
<1>3. table \in Seq(Record) /\ Shown(table) = Shown(op[c].puts)
  BY <1>1, LatestShown
<1> HIDE DEF table
<1>4. records \in Seq(Record) /\ Shown(records) = Shown(op[c].puts)
  BY <1>1, <1>3
<1> HIDE DEF records
<1>5. Frozen(c) \in Cache /\ Frozen(c).records = records
  BY <1>1, <1>2, <1>4 DEF Cache, Record
<1> QED
  BY <1>4, <1>5, LogsAndTables

LEMMA FreezeWritesInv == ASSUME CompactInv, NEW c \in Client, FreezeWrites(c) PROVE CompactInv'
<1>1. /\ op[c].step = "write" /\ EndFreeze(c)
      /\ cache' = [cache EXCEPT ![op[c].output] = Frozen(c)]
  BY DEF FreezeWrites
<1>2. Frozen(c) \in Cache
  BY <1>1, FrozenShows, Calls DEF CompactInv
<1> QED
  BY <1>1, <1>2, EndFreezeInv

LEMMA FreezeEndsInv ==
  ASSUME CompactInv, NEW c \in Client, FreezeRefused(c) \/ FreezeFails(c)
  PROVE  CompactInv'
<1>1. /\ op[c].step = "write" /\ EndFreeze(c)
      /\ cache' = cache \/ cache' = [cache EXCEPT ![op[c].output] = NoCache]
  BY DEF FreezeRefused, FreezeFails
<1> QED
  BY <1>1, EndFreezeInv

LEMMA LogAppendInv ==
  ASSUME CompactInv, NEW d \in Dir, NEW k \in Key, NEW v \in Value, LogAppend(d, k, v)
  PROVE  CompactInv'
<1> DEFINE ca == cache[d]
           record == <<Encode(Plain(k)), v>>
<1>1. /\ ca # NoCache /\ \A c \in Client : mode[<<c, d>>] = "none"
      /\ cache' = [cache EXCEPT ![d].records = Append(@, record)]
      /\ UNCHANGED <<mode, op, calls>>
  BY DEF LogAppend
<1>2. CompactShape /\ ca \in Cache
  BY <1>1 DEF CompactInv, CompactShape
<1>3. record \in Record
  BY DEF Encode, Plain, Record
<1> HIDE DEF record
<1>4. [ca EXCEPT !.records = Append(ca.records, record)] \in Cache
  <2>1. Append(ca.records, record) \in Seq(Record)
    BY <1>2, <1>3, LogsAndTables
  <2> QED
    BY <1>2, <2>1 DEF Cache, Record
<1>5. cache' = [cache EXCEPT ![d] = [ca EXCEPT !.records = Append(ca.records, record)]]
  BY <1>1, <1>2 DEF CompactShape
<1>6. CompactShape' /\ Alone'
  BY <1>1, <1>2, <1>4, <1>5 DEF CompactShape, CompactInv, Alone
<1>7. ASSUME NEW c \in Client PROVE Reads(c)' /\ Writes(c)' /\ (~Encodes => Copies(c)')
  <2>1. op[c].step \in {"open", "read"} => op[c].source # d /\ op[c].source \in Dir
    <3>1. mode[<<c, d>>] = "none"
      BY <1>1
    <3>2. op[c].step \in {"open", "read"} => op[c].source # d
      BY <3>1, NobodyReads
    <3> QED
      BY <1>2, <3>2, Calls DEF Compaction
  <2>2. op[c].step \in {"open", "read"} => cache'[op[c].source] = cache[op[c].source]
    BY <1>2, <1>5, <2>1 DEF CompactShape
  <2>3. op[c].step \in {"open", "read"} => Records(c)' = Records(c)
    BY <1>1, <2>2 DEF Records
  <2>4. Reads(c) /\ Writes(c) /\ (~Encodes => Copies(c))
    BY DEF CompactInv
  <2> QED
    BY <1>1, <2>2, <2>3, <2>4 DEF Reads, Writes, Copies
<1> QED
  BY <1>6, <1>7 DEF CompactInv

LEMMA CompactInitInv == ASSUME CompactInit PROVE CompactInv
<1>1. CompactShape /\ Alone
  BY CompactConstants DEF CompactInit, CompactShape, Alone
<1>2. \A c \in Client : op[c].step = "idle"
  BY DEF CompactInit, Idle
<1> QED
  BY <1>1, <1>2 DEF CompactInv, Reads, Writes, Copies

LEMMA CompactStepInv == ASSUME CompactInv, [CompactNext]_compactVars PROVE CompactInv'
<1>1. ASSUME NEW d \in Dir, NEW k \in Key, NEW v \in Value, LogAppend(d, k, v) PROVE CompactInv'
  BY <1>1, LogAppendInv
<1>2. ASSUME NEW c \in Client, NEW source \in Dir, NEW output \in Dir,
             NEW backend \in {"log", "table"}, CompactStart(c, source, output, backend)
      PROVE  CompactInv'
  BY <1>2, CompactStartInv
<1>3. ASSUME NEW c \in Client, CompactStep(c) PROVE CompactInv'
  BY <1>3, OpenBuilderInv, ReadRecordInv, CloseReaderInv, ReadFailsInv, FreezeStartInv,
     FreezeWritesInv, FreezeEndsInv
  DEF CompactStep
<1>4. ASSUME UNCHANGED compactVars PROVE CompactInv'
  BY <1>4 DEF compactVars, CompactInv, CompactShape, Alone, Reads, Writes, Copies, Records
<1> QED
  BY <1>1, <1>2, <1>3, <1>4 DEF CompactNext

LEMMA CompactInvariant == CompactSpec => []CompactInv
BY CompactInitInv, CompactStepInv, PTL DEF CompactSpec

\* Type correctness: in particular every record of a cache is the encoding of a
\* key, however often caches are compacted.
THEOREM CompactTypes == CompactSpec => []CompactTypeOK
<1>1. CompactInv => CompactTypeOK
  BY Calls DEF CompactInv, CompactShape, CompactTypeOK
<1> QED
  BY <1>1, CompactInvariant, PTL

\* While fce_compact has its source open, nobody changes it: for any clients and
\* directories, with or without a key codec, whatever fails.
THEOREM SourcesPinned == CompactSpec => SourcePinned
<1>1. ASSUME CompactInv, [CompactNext]_compactVars, NEW c \in Client,
             op[c].step \in {"open", "read"}
      PROVE  cache'[op[c].source] = cache[op[c].source]
  <2>1. CompactShape /\ op[c].source \in Dir /\ mode[<<c, op[c].source>>] = "shared"
    BY <1>1, Calls DEF CompactInv, Compaction, Reads
  <2>2. CASE cache' = cache
    BY <2>2
  <2>3. ASSUME NEW d \in Dir, NEW k \in Key, NEW v \in Value, LogAppend(d, k, v)
        PROVE  cache'[op[c].source] = cache[op[c].source]
    <3>1. op[c].source # d
      <4>1. mode[<<c, d>>] = "none"
        BY <2>3 DEF LogAppend
      <4> QED
        BY <1>1, <4>1, NobodyReads
    <3> QED
      BY <2>1, <2>3, <3>1 DEF LogAppend, CompactShape
  <2>4. ASSUME NEW e \in Client, FreezeWrites(e) \/ FreezeFails(e)
        PROVE  cache'[op[c].source] = cache[op[c].source]
    <3>1. op[e].step = "write" /\ e # c
      BY <1>1, <2>4 DEF FreezeWrites, FreezeFails
    <3>2. op[e].output \in Dir /\ mode[<<e, op[e].output>>] = "exclusive"
      BY <1>1, <3>1, Calls DEF CompactInv, Compaction, Writes
    <3>3. e \in Client \ {c}
      BY <3>1
    <3>4. op[c].source # op[e].output
      BY <1>1, <3>2, <3>3, NobodyReads
    <3>5. \/ cache' = cache
          \/ cache' = [cache EXCEPT ![op[e].output] = Frozen(e)]
          \/ cache' = [cache EXCEPT ![op[e].output] = NoCache]
      BY <2>4 DEF FreezeWrites, FreezeFails
    <3> QED
      BY <2>1, <3>4, <3>5 DEF CompactShape
  <2> QED
    BY <1>1, <2>2, <2>3, <2>4
    DEF CompactNext, CompactStep, CompactStart, OpenBuilder, ReadRecord, CloseReader, ReadFails,
        FreezeStart, FreezeRefused, compactVars
<1>2. CompactInv /\ [CompactNext]_compactVars =>
        [\A c \in Client : op[c].step \in {"open", "read"} =>
           cache'[op[c].source] = cache[op[c].source]]_compactVars
  BY <1>1
<1> QED
  BY <1>2, CompactInvariant, PTL DEF CompactSpec, SourcePinned

\* A compaction that returned FCE_OK shows what its source showed when it was
\* opened: for any clients, directories and records, appended meanwhile or not, in
\* place or crosswise.  With a key codec it does not: the iterator hands out encoded
\* keys and the builder encodes them again.
THEOREM CompactionsAreExact == ~Encodes => (CompactSpec => CompactionExact)
<1> SUFFICES ASSUME ~Encodes PROVE CompactSpec => CompactionExact
  OBVIOUS
<1>1. ASSUME CompactInv, NEW c \in Client, FreezeWrites(c)
      PROVE  View(cache'[op[c].output]) = op[c].snapshot
  <2>1. /\ op[c].step = "write" /\ cache' = [cache EXCEPT ![op[c].output] = Frozen(c)]
    BY <1>1 DEF FreezeWrites
  <2>2. CompactShape /\ op[c] \in Compaction /\ op[c].output \in Dir
    BY <1>1, <2>1, Calls DEF CompactInv, Compaction
  <2>3. cache'[op[c].output] = Frozen(c)
    BY <2>1, <2>2 DEF CompactShape
  <2>4. op[c].snapshot = Shown(op[c].puts)
    BY <1>1, <2>1 DEF CompactInv, Copies
  <2> QED
    BY <2>2, <2>3, <2>4, FrozenShows
<1>2. CompactInv =>
        [\A c \in Client : FreezeWrites(c) => View(cache'[op[c].output]) = op[c].snapshot]_compactVars
  BY <1>1
<1> QED
  BY <1>2, CompactInvariant, PTL DEF CompactionExact

\* Whatever fails in a compaction, its output is what it was, or shows the whole
\* source, or does not open; no other directory is touched.
THEOREM OutputsAreWhole == ~Encodes => (CompactSpec => OutputWhole)
<1> SUFFICES ASSUME ~Encodes PROVE CompactSpec => OutputWhole
  OBVIOUS
<1>1. ASSUME CompactInv, CompactNext, NEW c \in Client, Ends(c)
      PROVE  /\ View(cache'[op[c].output]) \in
                  {View(cache[op[c].output]), op[c].snapshot, NoCache}
             /\ \A d \in Dir \ {op[c].output} : cache'[d] = cache[d]
  <2>1. op[c].step = "write" /\ op'[c].step = "idle"
    BY <1>1 DEF Ends
  <2>2. CompactShape /\ op[c] \in Compaction /\ op[c].output \in Dir
    BY <1>1, <2>1, Calls DEF CompactInv, Compaction
  <2>3. FreezeWrites(c) \/ FreezeRefused(c) \/ FreezeFails(c)
    <3>1. op'[c] # op[c] /\ op \in [Client -> Compaction \cup {Idle}]
      BY <2>1, <2>2 DEF CompactShape
    <3>2. ASSUME NEW e \in Client, NEW o, op' = [op EXCEPT ![e] = o] PROVE e = c
      BY <3>1, <3>2
    <3>3. ASSUME NEW d \in Dir, NEW k \in Key, NEW v \in Value, LogAppend(d, k, v) PROVE FALSE
      BY <3>1, <3>3 DEF LogAppend
    <3>4. ASSUME NEW e \in Client, NEW source \in Dir, NEW output \in Dir,
                 NEW backend \in {"log", "table"}, CompactStart(e, source, output, backend)
          PROVE  FALSE
      <4>1. e = c
        BY <3>2, <3>4 DEF CompactStart
      <4> QED
        BY <2>1, <3>4, <4>1 DEF CompactStart, Idle
    <3>5. ASSUME NEW e \in Client, CompactStep(e) PROVE e = c
      <4>1. \E o : op' = [op EXCEPT ![e] = o]
        BY <3>1, <3>5
        DEF CompactStep, OpenBuilder, ReadRecord, CloseReader, ReadFails, FreezeStart, FreezeWrites,
            FreezeRefused, FreezeFails, EndFreeze, Goto
      <4> QED
        BY <3>2, <4>1
    <3>6. CompactStep(c)
      BY <1>1, <3>3, <3>4, <3>5 DEF CompactNext
    <3> QED
      BY <2>1, <3>6
      DEF CompactStep, OpenBuilder, ReadRecord, CloseReader, ReadFails, FreezeStart
  <2>4. cache'[op[c].output] \in {cache[op[c].output], Frozen(c), NoCache}
        /\ \A d \in Dir \ {op[c].output} : cache'[d] = cache[d]
    BY <2>2, <2>3 DEF FreezeWrites, FreezeRefused, FreezeFails, CompactShape
  <2>5. View(Frozen(c)) = op[c].snapshot
    <3>1. op[c].snapshot = Shown(op[c].puts)
      BY <1>1, <2>1 DEF CompactInv, Copies
    <3> QED
      BY <2>2, <3>1, FrozenShows
  <2>6. View(NoCache) = NoCache
    BY DEF View
  <2> QED
    BY <2>4, <2>5, <2>6
<1>2. CompactInv /\ [CompactNext]_compactVars =>
        [\A c \in Client : Ends(c) =>
           /\ View(cache'[op[c].output]) \in
                {View(cache[op[c].output]), op[c].snapshot, NoCache}
           /\ \A d \in Dir \ {op[c].output} : cache'[d] = cache[d]]_compactVars
  BY <1>1
<1> QED
  BY <1>2, CompactInvariant, PTL DEF CompactSpec, OutputWhole

\* The compactions take and give up their locks as DirLock has it, which the cache
\* locks implement (LocksAreExclusive): they only ever take a free one, keep
\* it, and give it up, in any order and whatever fails.
THEOREM CompactionsLock == CompactSpec => Lock!Spec
<1>1. CompactInit => Lock!Init
  BY DEF CompactInit, Lock!Init
<1>2. ASSUME CompactInv, [CompactNext]_compactVars PROVE [Lock!Next]_mode
  <2>1. ASSUME NEW c \in Client, NEW d \in Dir, NEW m \in {"shared", "exclusive"},
               Lock!Acquire(<<c, d>>, m)
        PROVE  Lock!Next
    <3>1. <<c, d>> \in Client \X Dir
      OBVIOUS
    <3> QED
      BY <2>1, <3>1 DEF Lock!Next
  <2>2. ASSUME NEW c \in Client, NEW d \in Dir, Lock!Release({<<c, d>>}) PROVE Lock!Next
    <3>1. {<<c, d>>} \in SUBSET (Client \X Dir)
      OBVIOUS
    <3> QED
      BY <2>2, <3>1 DEF Lock!Next
  <2>3. ASSUME NEW c \in Client, NEW source \in Dir, NEW output \in Dir,
               NEW backend \in {"log", "table"}, CompactStart(c, source, output, backend)
        PROVE  Lock!Next
    BY <2>1, <2>3 DEF CompactStart
  <2>4. ASSUME NEW c \in Client, op[c].step # "idle"
        PROVE  op[c].source \in Dir /\ op[c].output \in Dir
    BY <1>2, <2>4, Calls DEF CompactInv, Compaction
  <2>5. ASSUME NEW c \in Client, CloseReader(c) \/ ReadFails(c) PROVE Lock!Next
    <3>1. op[c].step # "idle" /\ Lock!Release({<<c, op[c].source>>})
      BY <2>5 DEF CloseReader, ReadFails
    <3> QED
      BY <2>2, <2>4, <3>1
  <2>6. ASSUME NEW c \in Client, FreezeStart(c) PROVE Lock!Next
    <3>1. op[c].step # "idle" /\ Lock!Acquire(<<c, op[c].output>>, "exclusive")
      BY <2>6 DEF FreezeStart
    <3> QED
      BY <2>1, <2>4, <3>1
  <2>7. ASSUME NEW c \in Client, FreezeWrites(c) \/ FreezeRefused(c) \/ FreezeFails(c)
        PROVE  Lock!Next
    <3>1. op[c].step # "idle" /\ Lock!Release({<<c, op[c].output>>})
      BY <2>7 DEF FreezeWrites, FreezeRefused, FreezeFails, EndFreeze
    <3> QED
      BY <2>2, <2>4, <3>1
  <2> QED
    BY <1>2, <2>3, <2>5, <2>6, <2>7
    DEF CompactNext, CompactStep, LogAppend, OpenBuilder, ReadRecord, compactVars
<1>3. CompactInv /\ [CompactNext]_compactVars => [Lock!Next]_mode
  BY <1>2
<1> QED
  BY <1>1, <1>3, CompactInvariant, PTL DEF CompactSpec, Lock!Spec

=============================================================================
