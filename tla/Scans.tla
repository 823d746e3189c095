-------------------------------- MODULE Scans ---------------------------------
(***************************************************************************)
(* Iterators over an open reader: fce_reader_scan_all, the sorted branch   *)
(* of fce_reader_prefix_scan (the radix branch: Radix), and                *)
(* fce_reader_range_scan, with an application that pages through a range.  *)
(*                                                                         *)
(* Keys are sequences of bytes.  A table is the sequence of the entries of *)
(* the index, in the order of the index: by hash in a sorted index, of     *)
(* insertion in a trie, by number, with holes, in a direct table.          *)
(***************************************************************************)
EXTENDS Integers, SequencesExt, FiniteSetsExt

CONSTANTS
  ScanKey,   \* the keys used as prefixes and bounds
  Tables     \* [backend, keyCodec, valueCodec, entries]: what a reader has opened

Hole == <<-1>>    \* a slot that is not present

ASSUME ScanConstants ==
  /\ ScanKey \subseteq Seq(Nat)
  /\ \A t \in Tables : t.entries \in Seq(Seq(Nat) \cup {Hole})

VARIABLES
  reader,     \* one of Tables, or NoReader
  scan,       \* the running scan: what, from, to
  step,       \* where the application is with it
  entry,      \* the entry the scan looks at
  matches, cursor,    \* the iterator: it->matches, it->pos
  given, skipped, first   \* since page `first': entries returned; entries that failed

scanVars == <<reader, scan, step, entry, matches, cursor, given, skipped, first>>

NoReader == [backend |-> "none"]
NoScan == [what |-> "none", from |-> <<>>, to |-> <<>>]

ScanInit ==
  /\ reader = NoReader /\ scan = NoScan /\ step = "idle"
  /\ entry = 1 /\ matches = <<>> /\ cursor = 1
  /\ given = <<>> /\ skipped = {} /\ first = <<>>

Entries == reader.entries
Present(p) == Entries[p] # Hole

\* key_bytes_cmp(a, b) < 0
Below(a, b) ==
  \/ \E i \in 1 .. Min({Len(a), Len(b)}) :
       a[i] < b[i] /\ \A j \in 1 .. i - 1 : a[j] = b[j]
  \/ IsStrictPrefix(a, b)

\* The scan takes the entry at p.
TakesEnd(p) ==    \* mutant: the end of a range belongs to it
  CASE scan.what = "all"    -> Present(p)
    [] scan.what = "prefix" -> IsPrefix(scan.from, Entries[p])
    [] scan.what = "range"  -> ~Below(Entries[p], scan.from) /\ ~Below(scan.to, Entries[p])

Takes(p) ==
  CASE scan.what = "all"    -> Present(p)
    [] scan.what = "prefix" -> IsPrefix(scan.from, Entries[p])
    [] scan.what = "range"  -> ~Below(Entries[p], scan.from) /\ Below(Entries[p], scan.to)

Supported(what) ==
  CASE what = "all"    -> reader.backend # "log"
    [] what = "prefix" -> reader.backend = "sorted"
    [] what = "range"  -> reader.backend \in {"sorted", "radix"} /\ reader.keyCodec = "none"

-----------------------------------------------------------------------------
(* The application opens a reader and scans it. *)

OpenReader(t) ==
  /\ step = "idle" /\ reader = NoReader
  /\ reader' = t
  /\ UNCHANGED <<scan, step, entry, matches, cursor, given, skipped, first>>

\* The iterator is created; or there is no memory for it, or no support.
Begun(what, from, to) ==
  /\ scan' = [what |-> what, from |-> from, to |-> to]
  /\ step' = "scanning" /\ entry' = 1 /\ matches' = <<>> /\ cursor' = 1
  /\ UNCHANGED reader

StartScan(what, from, to) ==
  /\ step = "idle" /\ reader # NoReader /\ Supported(what)
  /\ Begun(what, from, to)
  /\ given' = <<>> /\ skipped' = {} /\ first' = from

\* The next page starts at the end of a range that was read to its end.  (A
\* range whose end is below its start is empty.)
NextPage(to) ==
  /\ step = "exhausted" /\ scan.what = "range"
  /\ Below(scan.to, to) /\ ~Below(scan.to, scan.from)
  /\ Begun("range", scan.to, to)
  /\ UNCHANGED <<given, skipped, first>>

ScanEntry ==
  /\ step = "scanning" /\ entry <= Len(Entries)
  /\ matches' = IF Takes(entry) THEN Append(matches, entry) ELSE matches
  /\ entry' = entry + 1
  /\ UNCHANGED <<reader, scan, step, cursor, given, skipped, first>>

ScanReturns ==
  /\ step = "scanning" /\ entry > Len(Entries)
  /\ step' = "iterating"
  /\ UNCHANGED <<reader, scan, entry, matches, cursor, given, skipped, first>>

(* fce_iterator_next *)

HasNext == step = "iterating" /\ cursor <= Len(matches)

NextGives ==
  /\ HasNext
  /\ cursor' = cursor + 1 /\ given' = Append(given, matches[cursor])
  /\ UNCHANGED <<reader, scan, step, entry, matches, skipped, first>>

\* The value cannot be decoded, or there is no memory for it; the iterator is
\* already past it.
NextFails ==
  /\ HasNext /\ reader.valueCodec # "none"
  /\ cursor' = cursor + 1 /\ skipped' = skipped \cup {matches[cursor]}
  /\ UNCHANGED <<reader, scan, step, entry, matches, given, first>>

NextNotFound ==
  /\ step = "iterating" /\ cursor > Len(matches)
  /\ step' = "exhausted"
  /\ UNCHANGED <<reader, scan, entry, matches, cursor, given, skipped, first>>

\* fce_iterator_close, at any time.
CloseIterator ==
  /\ step \in {"iterating", "exhausted"}
  /\ scan' = NoScan /\ step' = "idle"
  /\ entry' = 1 /\ matches' = <<>> /\ cursor' = 1
  /\ given' = <<>> /\ skipped' = {} /\ first' = <<>>
  /\ UNCHANGED reader

ScanNext ==
  \/ \E t \in Tables : OpenReader(t)
  \/ \E p \in ScanKey : StartScan("prefix", p, <<>>) \/ NextPage(p)
  \/ \E a, b \in ScanKey : StartScan("range", a, b)
  \/ StartScan("all", <<>>, <<>>)
  \/ ScanEntry \/ ScanReturns
  \/ NextGives \/ NextFails \/ NextNotFound \/ CloseIterator

ScanSpec == ScanInit /\ [][ScanNext]_scanVars

-----------------------------------------------------------------------------
ScanTypeOK ==
  /\ reader \in Tables \cup {NoReader}
  /\ scan.what \in {"none", "all", "prefix", "range"}
  /\ step \in {"idle", "scanning", "iterating", "exhausted"}
  /\ reader # NoReader =>
       ToSet(matches) \cup ToSet(given) \cup skipped \subseteq DOMAIN Entries
  /\ cursor \in 1 .. Len(matches) + 1

\* What was asked for, over all the pages.
Wanted(p) ==
  CASE scan.what = "all"    -> Present(p)
    [] scan.what = "prefix" -> \E n \in 0 .. Len(Entries[p]) : SubSeq(Entries[p], 1, n) = scan.from
    [] scan.what = "range"  -> ~Below(Entries[p], first) /\ Below(Entries[p], scan.to)

\* Once the iterator says that there is no more, every entry that was asked for
\* has been returned, or reported as a failure, once, and no other: also over
\* adjacent ranges, with keys that are prefixes of a bound, and after failures
\* in the middle.
ScansExact ==
  /\ ScanTypeOK
  /\ step = "exhausted" =>
       /\ IsInjective(given) /\ ToSet(given) \cap skipped = {}
       /\ ToSet(given) \cup skipped = {p \in DOMAIN Entries : Wanted(p)}

===============================================================================
