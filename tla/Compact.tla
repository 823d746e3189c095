------------------------------ MODULE Compact -------------------------------
(***************************************************************************)
(* fce_compact: a reader of one directory and a builder of another, or of  *)
(* the same one, while others append to logs and compact.  Each directory  *)
(* is the atomic cache that CacheStore implements: opening a reader is one *)
(* step, and so is what a freeze or an append does under its lock.         *)
(*                                                                         *)
(* A key is <<n, k>>: key k after n encodings by the key codec.  Value     *)
(* codecs are undone by every reader and are left out.                     *)
(***************************************************************************)
EXTENDS Integers, SequencesExt

CONSTANTS
  Client, Dir, Key, Value,
  Encodes,           \* whether the schema has a key codec
  Faults,            \* {"memory"} if allocations may fail
  Absent,
  NoCache,           \* a directory that does not open
  Contents,          \* the caches there may be at the beginning
  MaxLog,            \* bound: records in a log
  MaxCalls           \* bound: compactions

\* A directory that opens: its backend, allow_duplicate_put of its schema, and
\* its canonical records in order.
Cache == [backend : {"log", "table"}, allowDuplicates : BOOLEAN,
          records : Seq((Nat \X Key) \X Value)]

ASSUME CompactConstants ==
  /\ Encodes \in BOOLEAN
  /\ Contents \subseteq Cache /\ NoCache \notin Cache
  /\ Faults \subseteq {"memory"}
  /\ Absent \notin Value
  /\ MaxLog \in Nat /\ MaxCalls \in Nat

VARIABLES
  cache,   \* what is in each directory
  mode,    \* the directory locks: see DirLock
  op,      \* the compaction each client is in
  calls

compactVars == <<cache, mode, op, calls>>

Lock == INSTANCE DirLock
          WITH Handle <- Client \X Dir,
               DirOf <- [h \in Client \X Dir |-> h[2]]

\* fce_codec_encode and fce_codec_decode of a key.
Encode(key) == IF Encodes THEN <<key[1] + 1, key[2]>> ELSE key
DecodeAlways(key) == <<key[1] - 1, key[2]>>   \* mutant: also without a codec
Decode(key) == IF Encodes THEN <<key[1] - 1, key[2]>> ELSE key
Plain(k) == <<0, k>>

Idle == [step |-> "idle"]

CompactInit ==
  /\ cache \in [Dir -> Contents \cup {NoCache}]
  /\ mode = [h \in Client \X Dir |-> "none"]
  /\ op = [c \in Client |-> Idle]
  /\ calls = 0

\* What fce_reader_get finds: it encodes the key it is asked for.
View(ca) ==
  IF ca = NoCache THEN NoCache
  ELSE [k \in Key |->
          LET hits == {i \in DOMAIN ca.records : ca.records[i][1] = Encode(Plain(k))}
          IN IF hits = {} THEN Absent ELSE ca.records[Max(hits)][2]]

-----------------------------------------------------------------------------
(* The log *)

\* fce_log_append.
LogAppend(d, k, v) ==
  /\ cache[d] # NoCache /\ cache[d].backend = "log"
  /\ Len(cache[d].records) < MaxLog
  /\ \A c \in Client : mode[<<c, d>>] = "none"
  /\ cache' = [cache EXCEPT ![d].records = Append(@, <<Encode(Plain(k)), v>>)]
  /\ UNCHANGED <<mode, op, calls>>

-----------------------------------------------------------------------------
(* fce_compact *)

Goto(c, step) == op' = [op EXCEPT ![c].step = step]

\* fce_reader_open of the source.
CompactStart(c, source, output, backend) ==
  /\ op[c] = Idle /\ calls < MaxCalls
  /\ cache[source] # NoCache
  /\ Lock!Acquire(<<c, source>>, "shared")
  /\ op' = [op EXCEPT ![c] =
       [step |-> "open", source |-> source, output |-> output, backend |-> backend,
        allowDuplicates |-> FALSE, puts |-> <<>>, snapshot |-> View(cache[source])]]
  /\ calls' = calls + 1
  /\ UNCHANGED cache

OpenBuilderUnlocked(c) ==   \* mutant: the source is locked only while it is opened
  /\ op[c].step = "open"
  /\ Lock!Release({<<c, op[c].source>>})
  /\ Goto(c, "read")
  /\ UNCHANGED <<cache, calls>>

\* fce_builder_open, with the schema of the source.
OpenBuilder(c) ==
  /\ op[c].step = "open"
  /\ op' = [op EXCEPT ![c].step = "read",
                      ![c].allowDuplicates = cache[op[c].source].allowDuplicates]
  /\ UNCHANGED <<cache, mode, calls>>

Records(c) == cache[op[c].source].records
AllRead(c) == Len(op[c].puts) = Len(Records(c))

\* The keys of a log are decoded; an iterator hands out the canonical key.
ReadKey(c, key) ==
  IF cache[op[c].source].backend = "log" THEN Decode(key) ELSE key

\* The next record goes to fce_builder_put, which encodes it.
ReadRecord(c) ==
  /\ op[c].step = "read" /\ ~AllRead(c)
  /\ LET record == Records(c)[Len(op[c].puts) + 1]
     IN op' = [op EXCEPT ![c].puts =
                 Append(@, <<Encode(ReadKey(c, record[1])), record[2]>>)]
  /\ UNCHANGED <<cache, mode, calls>>

\* fce_reader_close, before anything is written.
CloseReaderNever(c) ==  \* mutant: the reader stays open
  /\ op[c].step = "read" /\ AllRead(c)
  /\ Goto(c, "freeze")
  /\ UNCHANGED <<cache, mode, calls>>

CloseReader(c) ==
  /\ op[c].step = "read" /\ AllRead(c)
  /\ Lock!Release({<<c, op[c].source>>})
  /\ Goto(c, "freeze")
  /\ UNCHANGED <<cache, calls>>

ReadFailsFreezes(c) ==   \* mutant: what has been read is frozen all the same
  /\ op[c].step \in {"open", "read"} /\ "memory" \in Faults
  /\ Lock!Release({<<c, op[c].source>>})
  /\ Goto(c, "freeze")
  /\ UNCHANGED <<cache, calls>>

\* An allocation fails: no freeze.
ReadFails(c) ==
  /\ op[c].step \in {"open", "read"} /\ "memory" \in Faults
  /\ Lock!Release({<<c, op[c].source>>})
  /\ op' = [op EXCEPT ![c] = Idle]
  /\ UNCHANGED <<cache, calls>>

FreezeStart(c) ==
  /\ op[c].step = "freeze"
  /\ Lock!Acquire(<<c, op[c].output>>, "exclusive")
  /\ Goto(c, "write")
  /\ UNCHANGED <<cache, calls>>

Superseded(puts, i) == \E j \in DOMAIN puts : j > i /\ puts[j][1] = puts[i][1]

Refused(c) ==
  /\ op[c].backend = "table" /\ ~op[c].allowDuplicates
  /\ \E i \in DOMAIN op[c].puts : Superseded(op[c].puts, i)

\* The positions in kept, in ascending order.
InOrder(kept) ==
  CHOOSE s \in [1 .. Cardinality(kept) -> kept] :
    \A i, j \in 1 .. Cardinality(kept) : i < j => s[i] < s[j]

FrozenFirst(c) ==   \* mutant: a table keeps the first record of a key
  LET puts == op[c].puts
      kept == {i \in DOMAIN puts : \A j \in 1 .. i - 1 : puts[j][1] # puts[i][1]}
  IN [backend |-> op[c].backend, allowDuplicates |-> op[c].allowDuplicates,
      records |-> IF op[c].backend = "log" THEN puts
                  ELSE LET order == InOrder(kept) IN [n \in DOMAIN order |-> puts[order[n]]]]

\* A log keeps every record, a table the latest of each key.
Frozen(c) ==
  LET puts == op[c].puts
      kept == {i \in DOMAIN puts : ~Superseded(puts, i)}
  IN [backend |-> op[c].backend, allowDuplicates |-> op[c].allowDuplicates,
      records |-> IF op[c].backend = "log" THEN puts
                  ELSE LET order == InOrder(kept) IN [n \in DOMAIN order |-> puts[order[n]]]]

EndFreeze(c) ==
  /\ Lock!Release({<<c, op[c].output>>})
  /\ op' = [op EXCEPT ![c] = Idle]
  /\ UNCHANGED calls

FreezeWrites(c) ==
  /\ op[c].step = "write" /\ ~Refused(c)
  /\ cache' = [cache EXCEPT ![op[c].output] = Frozen(c)]
  /\ EndFreeze(c)

FreezeRefused(c) ==
  /\ op[c].step = "write" /\ Refused(c)
  /\ UNCHANGED cache
  /\ EndFreeze(c)

\* Nothing has been written yet, or the old cache is gone.
FreezeFails(c) ==
  /\ op[c].step = "write" /\ "memory" \in Faults
  /\ cache' \in {cache, [cache EXCEPT ![op[c].output] = NoCache]}
  /\ EndFreeze(c)

CompactStep(c) ==
  \/ OpenBuilder(c) \/ ReadRecord(c) \/ CloseReader(c) \/ ReadFails(c)
  \/ FreezeStart(c) \/ FreezeWrites(c) \/ FreezeRefused(c) \/ FreezeFails(c)

CompactNext ==
  \/ \E d \in Dir, k \in Key, v \in Value : LogAppend(d, k, v)
  \/ \E c \in Client, source, output \in Dir, backend \in {"log", "table"} :
        CompactStart(c, source, output, backend)
  \/ \E c \in Client : CompactStep(c)

CompactSpec == CompactInit /\ [][CompactNext]_compactVars

\* Whoever compacts runs, and gets a lock that stays free.
FairCompactSpec == CompactSpec /\ \A c \in Client : WF_compactVars(CompactStep(c))

-----------------------------------------------------------------------------
CompactTypeOK ==
  /\ cache \in [Dir -> Cache \cup {NoCache}]
  /\ mode \in [Client \X Dir -> {"none", "shared", "exclusive"}]
  /\ \A c \in Client : op[c].step \in {"idle", "open", "read", "freeze", "write"}
  /\ calls \in 0 .. MaxCalls

Ends(c) == op[c].step = "write" /\ op'[c].step = "idle"

\* "Log compaction preserves latest-value semantics for duplicate keys. Non-log
\* caches are exported through scan-all" (docs/API.md:439): after a compaction
\* that returned FCE_OK, the output shows what the source showed when it was
\* opened, whatever was appended since.
CompactionExact ==
  [][\A c \in Client :
       FreezeWrites(c) => View(cache'[op[c].output]) = op[c].snapshot]_compactVars

\* Whatever fails, the output is left as it was, or shows the whole source as it
\* was opened, or does not open; and nothing else is touched.
OutputWhole ==
  [][\A c \in Client : Ends(c) =>
       /\ View(cache'[op[c].output]) \in
            {View(cache[op[c].output]), op[c].snapshot, NoCache}
       /\ \A d \in Dir \ {op[c].output} : cache'[d] = cache[d]]_compactVars

\* The source does not change under the compaction that reads it.
SourcePinned ==
  [][\A c \in Client : op[c].step \in {"open", "read"} =>
       cache'[op[c].source] = cache[op[c].source]]_compactVars

\* A compaction returns, also in place, and when two directories are compacted
\* into each other.
CompactReturns == \A c \in Client : op[c].step # "idle" ~> op[c].step = "idle"

=============================================================================
