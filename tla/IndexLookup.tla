----------------------------- MODULE IndexLookup -----------------------------
(***************************************************************************)
(* The searches over sorted arrays that lookups are made of: get_sorted    *)
(* (the sorted index), get_log (the index that opening a log builds in     *)
(* memory) and radix_find_child (the edges of a trie node).  Each is a     *)
(* binary search for the first entry that is not below the wanted one,     *)
(* followed by a look at the entries from there on.                        *)
(*                                                                         *)
(* The arrays are C arrays, from 0 to count - 1.  A 128-bit hash is a      *)
(* number; different keys may have the same hash.  Entries with the same   *)
(* hash may come in any order: the searches do not depend on the tie       *)
(* breaking of cmp_sorted_entry and cmp_log_index_entry.                   *)
(***************************************************************************)
EXTENDS Integers

CONSTANTS
  Key,        \* keys, or the labels of edges
  Hash,       \* the hash of each key (hash_key)
  MaxCount    \* bound: the length of the arrays

ASSUME LookupConstants ==
  /\ Hash \in [Key -> Nat]
  /\ MaxCount \in Nat

VARIABLES
  kind,    \* which of the three searches it is
  count, index,
  probe,   \* the key looked up
  pc, lo, hi, pos,
  best     \* the position of the entry found so far

lookupVars == <<kind, count, index, probe, pc, lo, hi, pos, best>>

Kind == {"sorted", "log", "edges"}
NotFound == -1

Entry == [key : Key, order : 0 .. MaxCount - 1]

H(i) == Hash[index[i].key]
Order(i) == index[i].order
\* An edge is its label; in the other arrays the keys themselves are compared.
Match(i) == IF kind = "edges" THEN H(i) = Hash[probe] ELSE index[i].key = probe
Position == 0 .. count - 1

LookupTypeOK ==
  /\ kind \in Kind
  /\ count \in 0 .. MaxCount
  /\ index \in [Position -> Entry]
  /\ probe \in Key
  /\ pc \in {"search", "scan", "done"}
  /\ lo \in 0 .. count /\ hi \in 0 .. count /\ pos \in 0 .. count
  /\ best \in Position \cup {NotFound}

-----------------------------------------------------------------------------
(* The arrays that the builders leave. *)

\* qsort by cmp_sorted_entry or cmp_log_index_entry; edges are inserted in place.
Sorted == \A i, j \in Position : i < j => H(i) <= H(j)

DistinctKeys == \A i, j \in Position : i # j => index[i].key # index[j].key
DistinctOrders == \A i, j \in Position : i # j => Order(i) # Order(j)
DistinctLabels == \A i, j \in Position : i < j => H(i) < H(j)

Built ==
  /\ Sorted
  /\ kind = "sorted" => DistinctKeys          \* dedupe_records
  /\ kind = "edges" => DistinctLabels         \* radix_find_or_add_edge
  /\ IF kind = "log" THEN DistinctOrders      \* the place in the log
     ELSE \A i \in Position : Order(i) = i    \* not used

Begin ==
  /\ pc = "search"
  /\ lo = 0 /\ hi = count
  /\ pos = 0 /\ best = NotFound

LookupInit ==
  /\ kind \in Kind
  /\ count \in 0 .. MaxCount
  /\ index \in [Position -> Entry]
  /\ probe \in Key
  /\ Built
  /\ Begin

-----------------------------------------------------------------------------
Mid == lo + (hi - lo) \div 2

\* One round of the binary search.
HalveKeepingMid ==    \* mutant: the middle stays in the interval
  /\ pc = "search" /\ lo < hi
  /\ IF H(Mid) < Hash[probe]
       THEN lo' = Mid /\ UNCHANGED hi
       ELSE hi' = Mid /\ UNCHANGED lo
  /\ UNCHANGED <<kind, count, index, probe, pc, pos, best>>

Halve ==
  /\ pc = "search" /\ lo < hi
  /\ IF H(Mid) < Hash[probe]
       THEN lo' = Mid + 1 /\ UNCHANGED hi
       ELSE hi' = Mid /\ UNCHANGED lo
  /\ UNCHANGED <<kind, count, index, probe, pc, pos, best>>

\* The search is over: radix_find_child looks at one edge, the others scan.
SearchEnds ==
  /\ pc = "search" /\ lo >= hi
  /\ pos' = lo
  /\ IF kind = "edges"
       THEN /\ pc' = "done"
            /\ best' = IF lo < count /\ H(lo) = Hash[probe] THEN lo ELSE NotFound
       ELSE pc' = "scan" /\ UNCHANGED best
  /\ UNCHANGED <<kind, count, index, probe, lo, hi>>

SameHash(i) == i < count /\ H(i) = Hash[probe]

\* get_log: best is the matching record with the greatest order.
Newer(i) == best = NotFound \/ Order(i) > Order(best)

ScanHitFirst ==   \* mutant: the log search too stops at the first match
  /\ pc = "scan" /\ SameHash(pos) /\ Match(pos)
  /\ best' = pos /\ pc' = "done" /\ UNCHANGED pos
  /\ UNCHANGED <<kind, count, index, probe, lo, hi>>

ScanHit ==
  /\ pc = "scan" /\ SameHash(pos) /\ Match(pos)
  /\ IF kind = "sorted"
       THEN best' = pos /\ pc' = "done" /\ UNCHANGED pos
       ELSE /\ best' = IF Newer(pos) THEN pos ELSE best
            /\ pos' = pos + 1 /\ UNCHANGED pc
  /\ UNCHANGED <<kind, count, index, probe, lo, hi>>

\* Another key with the same hash.
ScanMiss ==
  /\ pc = "scan" /\ SameHash(pos) /\ ~Match(pos)
  /\ pos' = pos + 1
  /\ UNCHANGED <<kind, count, index, probe, pc, lo, hi, best>>

ScanEnds ==
  /\ pc = "scan" /\ ~SameHash(pos)
  /\ pc' = "done"
  /\ UNCHANGED <<kind, count, index, probe, lo, hi, pos, best>>

LookupNext == Halve \/ SearchEnds \/ ScanHit \/ ScanMiss \/ ScanEnds

LookupSpec == LookupInit /\ [][LookupNext]_lookupVars

\* The reader's thread runs.
FairLookupSpec == LookupSpec /\ WF_lookupVars(LookupNext)

-----------------------------------------------------------------------------
Matches == {i \in Position : Match(i)}

\* A lookup that returns has found the newest entry of its key, if there is
\* one, however many other keys have the same hash (docs/API.md:164, "log
\* lookup also returns the latest appended value").
FindsNewest ==
  pc = "done" =>
     \/ best = NotFound /\ Matches = {}
     \/ best \in Matches /\ \A i \in Matches : Order(i) <= Order(best)

\* And no search leaves its array on the way.
LookupCorrect == LookupTypeOK /\ FindsNewest

\* "O(log N + collisions)" (docs/BACKENDS.md:9): each round at least halves the
\* interval, which is not empty, and each step of the scan but the last passes an
\* entry of the wanted hash.
Logarithmic ==
  [][ /\ pc = "search" /\ pc' = "search" => lo < hi /\ 2 * (hi' - lo') <= hi - lo
      /\ pc = "scan" /\ pc' # "done" => pos' = pos + 1 /\ SameHash(pos) ]_lookupVars

\* Every lookup returns.
LookupReturns == <>(pc = "done")

=============================================================================
