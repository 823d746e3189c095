------------------------------ MODULE CacheStore ------------------------------
(***************************************************************************)
(* One cache directory and the calls that read and write it: freeze        *)
(* (fce_builder_freeze and the freeze_* backends), fce_log_append, and     *)
(* fce_reader_open ... fce_reader_close.  Every call runs between an       *)
(* acquire and a release of the directory lock; each client has one call   *)
(* or one open reader at a time, and the lock is the abstract DirLock that  *)
(* CacheLock implements when a process has one handle per directory.       *)
(*                                                                         *)
(* A step of a writer is one file it writes.  The write completes, or it   *)
(* fails (the fault "write") or its process dies in it (the fault "crash"), *)
(* and then the file holds whatever part had reached it (Partly).          *)
(*                                                                         *)
(* Data: a file is the sequence of its elements; the CRC of a file is the  *)
(* file itself (CRC64 collisions are not modelled); keys are numbers, in   *)
(* the order of their canonical bytes.                                     *)
(***************************************************************************)
EXTENDS Naturals, Integers, FiniteSets, SequencesExt

CONSTANTS
  Client,
  Key, Value,
  Backend,   \* the backends in use, out of those of FceBackendKind
  Puts,      \* the record sequences that a builder may hold when frozen
  MaxLog,    \* bound: no append once the log, or the log its manifest
             \* speaks of, has this many records
  Faults,    \* which of "write", "memory", "checksum" and "crash" may happen
  Absent,    \* the answer FCE_ERR_NOT_FOUND
  Missing,   \* there is no manifest
  Torn       \* a manifest, or a log record, written in part

ASSUME StoreConstants ==
  /\ Key \subseteq Nat
  /\ Backend \subseteq {"sorted", "direct", "radix", "mph", "log"}
  /\ Puts \subseteq Seq(Key \X Value)
  /\ Faults \subseteq {"write", "memory", "checksum", "crash"}
  /\ Absent \notin Value

File == {"index", "keys", "values", "log"}

\* What a file is a sequence of: keys, values, index entries, log records.
Element == Nat \cup Value \cup (Backend \X Nat \X Nat) \cup (Key \X Value) \cup {Torn}

\* A whole manifest; no other value of manifest.fce is taken for one, nor a cut
\* record for a record.
Manifest ==
  [backend : Backend, count : Nat, size : [File -> Nat], crc : [File -> Seq(Element)]]

ASSUME ManifestConstants ==
  Missing \notin Manifest /\ Torn \notin Manifest /\ Torn \notin Key \X Value

VARIABLES
  mode,      \* the directory lock: see DirLock
  disk,      \* the contents of the four data files; a missing file is empty
  manifest,  \* the contents of manifest.fce
  op,        \* the call each client is in, or the reader it has open
  maps, sound, pending   \* history: the cache as module AtomicCache sees it

storeVars == <<mode, disk, manifest, op, maps, sound, pending>>

Lock == INSTANCE DirLock
          WITH Handle <- Client, Dir <- {"dir"}, DirOf <- [c \in Client |-> "dir"]

Idle ==
  [step |-> "idle", backend |-> "none", puts |-> <<>>, dup |-> FALSE, m |-> Missing]

Step == {"idle", "freeze", "index", "append", "appendRecord", "manifest",
         "open", "load", "reading", "release"}

StoreInit ==
  /\ mode = [c \in Client |-> "none"]
  /\ disk = [f \in File |-> <<>>]
  /\ manifest = Missing
  /\ op = [c \in Client |-> Idle]
  /\ maps = {} /\ sound = FALSE /\ pending = {}

-----------------------------------------------------------------------------
(* What the writers write. *)

PutKeys(puts) == {put[1] : put \in ToSet(puts)}

Duplicates(puts) == Cardinality(PutKeys(puts)) # Len(puts)

\* The keys in the order of their bytes.
Ascending(keys) ==
  CHOOSE s \in [1 .. Cardinality(keys) -> keys] :
    \A i, j \in 1 .. Cardinality(keys) : i < j => s[i] < s[j]

DedupedFirst(puts) ==   \* mutant: the earliest put of a key is kept
  LET keys == Ascending(PutKeys(puts))
      first(k) == Min({i \in DOMAIN puts : puts[i][1] = k})
  IN  [n \in DOMAIN keys |-> puts[first(keys[n])]]

\* dedupe_records: one record per key in key order, the latest put of it.
Deduped(puts) ==
  LET keys == Ascending(PutKeys(puts))
      latest(k) == Max({i \in DOMAIN puts : puts[i][1] = k})
  IN  [n \in DOMAIN keys |-> puts[latest(keys[n])]]

\* The index files hold the position of each key's record.  The sorted index is
\* an array of entries; direct has a slot for every key up to the greatest;
\* radix and mph begin with a header that gives the number of records.
IndexFile(backend, recs) ==
  LET position(k) == {n \in DOMAIN recs : recs[n][1] = k}
      entries == [n \in DOMAIN recs |-> <<backend, recs[n][1], n>>]
      greatest == IF recs = <<>> THEN 0 ELSE Last(recs)[1]
      slot(k) == IF position(k) = {} THEN <<backend, k, 0>>
                 ELSE <<backend, k, CHOOSE n \in position(k) : TRUE>>
  IN  CASE backend = "sorted" -> entries
        [] backend = "direct" -> [n \in 1 .. greatest + 1 |-> slot(n - 1)]
        [] OTHER -> <<<<backend, Len(recs), 0>>>> \o entries

\* The data files as this call is to leave them; the others it does not touch.
Written(c, f) ==
  LET recs == Deduped(op[c].puts)
  IN  CASE f = "keys"   -> [n \in DOMAIN recs |-> recs[n][1]]
        [] f = "values" -> [n \in DOMAIN recs |-> recs[n][2]]
        [] f = "index"  -> IndexFile(op[c].backend, recs)
        [] f = "log"    -> op[c].puts

FreezeFiles(c) ==
  IF op[c].backend = "log" THEN {"log"} ELSE {"keys", "values"}

\* The files a backend uses.
FilesOf(backend) ==
  IF backend = "log" THEN {"log"} ELSE {"index", "keys", "values"}

\* make_manifest with the sizes and checksums that a freeze fills in.
FrozenManifest(c) ==
  LET recs == IF op[c].backend = "log" THEN op[c].puts ELSE Deduped(op[c].puts)
      files == FilesOf(op[c].backend)
  IN  [backend |-> op[c].backend,
       count   |-> Len(recs),
       size    |-> [f \in File |-> IF f \in files THEN Len(Written(c, f)) ELSE 0],
       crc     |-> [f \in File |-> IF f \in files THEN disk[f] ELSE <<>>]]

\* An append counts one record and adds its length to the recorded log size;
\* the checksum is taken over the whole file.
AppendedManifest(c) ==
  LET m == op[c].m
  IN  [m EXCEPT !.count = @ + 1, !.size["log"] = @ + 1, !.crc["log"] = disk["log"]]

NewManifest(c) ==
  IF op[c].m = Missing THEN FrozenManifest(c) ELSE AppendedManifest(c)

\* dedupe_records refuses a duplicate key unless allow_duplicate_put; freeze_log
\* does not call it.
Refused(c) ==
  op[c].backend # "log" /\ Duplicates(op[c].puts) /\ ~op[c].dup

-----------------------------------------------------------------------------
(* What a reader makes of the files. *)

\* The index entries that lead to a record.
Entries(files) == {e \in ToSet(files["index"]) : e[3] # 0}

ValidSizes(m, files) ==   \* mutant: sizes and counts are compared, checksums not
  /\ \A f \in File : m.size[f] = Len(files[f])
  /\ IF m.backend = "log"
       THEN m.count = Len(files["log"]) /\ Torn \notin ToSet(files["log"])
       ELSE m.count = Cardinality(Entries(files))

\* validate_reader_files and build_log_index.
Valid(m, files) ==
  /\ \A f \in File : m.size[f] = Len(files[f])
  /\ \A f \in File : m.size[f] # 0 => m.crc[f] = files[f]
  /\ IF m.backend = "log"
       THEN m.count = Len(files["log"]) /\ Torn \notin ToSet(files["log"])
       ELSE m.count = Cardinality(Entries(files))

\* fce_reader_get for every key: the index leads to the record; in the log the
\* last record of the key counts.
Lookup(m, files) ==
  LET log == files["log"]
      inLog(k) == {i \in DOMAIN log : log[i] # Torn /\ log[i][1] = k}
      hits(k) == {e[3] : e \in {entry \in Entries(files) : entry[2] = k}}
      last(k) == IF m.backend = "log" THEN log[Max(inLog(k))][2]
                 ELSE files["values"][Max(hits(k))]
  IN  [k \in Key |->
         IF (IF m.backend = "log" THEN inLog(k) ELSE hits(k)) = {} THEN Absent
         ELSE last(k)]

-----------------------------------------------------------------------------
(* Steps common to the calls. *)

Goto(c, s) == op' = [op EXCEPT ![c].step = s]

\* The same, with the manifest that is there read into the call's own record.
GotoWithManifest(c, s) == op' = [op EXCEPT ![c] = [@ EXCEPT !.step = s, !.m = manifest]]

LockModeOfAppendShared == "shared"   \* mutant: appends overlap
LockModeOfAppend == "exclusive"

NoHistory == UNCHANGED <<maps, sound, pending>>

\* The maps that a freeze or an append that succeeds leaves.
NewMaps(c) ==
  LET puts == op[c].puts
      latest(k) == {i \in DOMAIN puts : puts[i][1] = k}
  IN  IF op[c].step = "freeze"
        THEN {[k \in Key |-> IF latest(k) = {} THEN Absent
                             ELSE puts[Max(latest(k))][2]]}
        ELSE {[map EXCEPT ![puts[1][1]] = puts[1][2]] : map \in maps}

\* The first write of a mutation.
Begun(c) ==
  /\ maps' = maps \cup NewMaps(c)
  /\ pending' = pending \cup NewMaps(c)
  /\ sound' = FALSE

\* fce_cache_lock_release at the end of every call.
Release(c) ==
  /\ op[c].step = "release"
  /\ Lock!Release({c})
  /\ op' = [op EXCEPT ![c] = Idle]
  /\ UNCHANGED <<disk, manifest>>
  /\ pending' = IF mode[c] = "exclusive" THEN {} ELSE pending
  /\ UNCHANGED <<maps, sound>>

-----------------------------------------------------------------------------
(* fce_builder_freeze *)

FreezeStart(c, backend, puts, dup) ==
  /\ op[c] = Idle
  /\ Lock!Acquire(c, "exclusive")
  /\ op' = [op EXCEPT ![c] = [step |-> "freeze", backend |-> backend,
                              puts |-> puts, dup |-> dup, m |-> Missing]]
  /\ UNCHANGED <<disk, manifest>> /\ NoHistory

FreezeRefused(c) ==
  /\ op[c].step = "freeze"
  /\ Refused(c) \/ "memory" \in Faults
  /\ Goto(c, "release")
  /\ UNCHANGED <<mode, disk, manifest>> /\ NoHistory

\* write_keys_values, or the record loop of freeze_log.
WriteRecords(c) ==
  /\ op[c].step = "freeze" /\ ~Refused(c)
  /\ disk' = [f \in File |-> IF f \in FreezeFiles(c) THEN Written(c, f) ELSE disk[f]]
  /\ Goto(c, IF op[c].backend = "log" THEN "manifest" ELSE "index")
  /\ Begun(c)
  /\ UNCHANGED <<mode, manifest>>

WriteIndex(c) ==
  /\ op[c].step = "index"
  /\ disk' = [disk EXCEPT !["index"] = Written(c, "index")]
  /\ Goto(c, "manifest")
  /\ UNCHANGED <<mode, manifest>> /\ NoHistory

\* No memory for the index, or mph finds no seed: the keys and values stay.
IndexFails(c) ==
  /\ "memory" \in Faults
  /\ op[c].step = "index"
  /\ Goto(c, "release")
  /\ UNCHANGED <<mode, disk, manifest>> /\ NoHistory

\* write_manifest, the last step of freeze and append.  It may have no memory for
\* the path of the manifest, when the files have all been written.
ManifestFails(c) ==
  /\ "memory" \in Faults
  /\ op[c].step = "manifest"
  /\ Goto(c, "release")
  /\ UNCHANGED <<mode, disk, manifest>> /\ NoHistory

WriteManifest(c) ==
  /\ op[c].step = "manifest"
  /\ manifest' = NewManifest(c)
  /\ maps' = pending /\ sound' = TRUE /\ pending' = {}
  /\ Goto(c, "release")
  /\ UNCHANGED <<mode, disk>>

-----------------------------------------------------------------------------
(* fce_log_append *)

AppendStart(c, k, v) ==
  /\ op[c] = Idle
  /\ Len(disk["log"]) < MaxLog
  /\ IF manifest \in {Missing, Torn} THEN TRUE ELSE manifest.size["log"] < MaxLog
  /\ Lock!Acquire(c, LockModeOfAppend)
  /\ op' = [op EXCEPT ![c] = [step |-> "append", backend |-> "log",
                              puts |-> <<<<k, v>>>>, dup |-> TRUE, m |-> Missing]]
  /\ UNCHANGED <<disk, manifest>> /\ NoHistory

AppendRefused(c) ==
  /\ op[c].step = "append"
  /\ IF manifest \in {Missing, Torn} THEN TRUE
     ELSE manifest.backend # "log" \/ "memory" \in Faults
  /\ Goto(c, "release")
  /\ UNCHANGED <<mode, disk, manifest>> /\ NoHistory

AppendReadManifest(c) ==
  /\ op[c].step = "append"
  /\ manifest \notin {Missing, Torn}
  /\ manifest.backend = "log"
  /\ GotoWithManifest(c, "appendRecord")
  /\ UNCHANGED <<mode, disk, manifest>> /\ NoHistory

AppendRecord(c) ==
  /\ op[c].step = "appendRecord"
  /\ disk' = [disk EXCEPT !["log"] = @ \o op[c].puts]
  /\ Goto(c, "manifest")
  /\ Begun(c)
  /\ UNCHANGED <<mode, manifest>>

-----------------------------------------------------------------------------
(* fce_reader_open, fce_reader_close, and fce_inspect, which shares its   *)
(* first steps.                                                            *)

ReaderOpen(c) ==
  /\ op[c] = Idle
  /\ Lock!Acquire(c, "shared")
  /\ Goto(c, "open")
  /\ UNCHANGED <<disk, manifest>> /\ NoHistory

ReadManifest(c) ==
  /\ op[c].step = "open"
  /\ \/ manifest \in {Missing, Torn} /\ Goto(c, "release")
     \/ manifest \notin {Missing, Torn} /\ GotoWithManifest(c, "load")
     \/ "memory" \in Faults /\ Goto(c, "release")
  /\ UNCHANGED <<mode, disk, manifest>> /\ NoHistory

LoadFilesUnlocked(c) ==   \* mutant: the lock is given up once the files are loaded
  /\ op[c].step = "load"
  /\ \/ Valid(op[c].m, disk) /\ Goto(c, "reading")
     \/ ~Valid(op[c].m, disk) /\ Goto(c, "release")
     \/ "memory" \in Faults /\ Goto(c, "release")
  /\ Lock!Release({c})
  /\ UNCHANGED <<disk, manifest>> /\ NoHistory

\* The files are mapped, not copied: a reader keeps only its manifest.
LoadFiles(c) ==
  /\ op[c].step = "load"
  /\ \/ Valid(op[c].m, disk) /\ Goto(c, "reading")
     \/ ~Valid(op[c].m, disk) /\ Goto(c, "release")
     \/ "memory" \in Faults /\ Goto(c, "release")
  /\ UNCHANGED <<mode, disk, manifest>> /\ NoHistory

\* fce_inspect returns the manifest.
InspectReturns(c) ==
  /\ op[c].step = "load"
  /\ Goto(c, "release")
  /\ UNCHANGED <<mode, disk, manifest>> /\ NoHistory

\* fce_arena_destroy unmaps the files before the lock is given up.
ReaderClose(c) ==
  /\ op[c].step = "reading"
  /\ Goto(c, "release")
  /\ UNCHANGED <<mode, disk, manifest>> /\ NoHistory

-----------------------------------------------------------------------------
(* Interruptions. *)

\* Is the next step of the call one that writes a file?
Writing(c) ==
  \/ op[c].step \in {"index", "appendRecord", "manifest"}
  \/ op[c].step = "freeze" /\ ~Refused(c)

\* What may be left of a file that fopen("wb") and fwrite did not get through:
\* the old contents, or some first part of the new ones.  A record cut in the
\* middle is told apart only in the log, where appends go on after it.
Partly(old, new) == {old} \cup Prefixes(new)

PartlyLog(old, new) ==
  Partly(old, new) \cup {Append(part, Torn) : part \in Prefixes(new) \ {new}}

PartialDisks(c) ==
  LET left(f) == Partly(disk[f], Written(c, f))
      leftLog == PartlyLog(disk["log"], Written(c, "log"))
  IN  CASE op[c].step = "freeze" /\ op[c].backend = "log" ->
             {[disk EXCEPT !["log"] = part] : part \in leftLog}
        [] op[c].step = "freeze" /\ op[c].backend # "log" ->
             {[disk EXCEPT !["keys"] = ks, !["values"] = vs] :
                ks \in left("keys"), vs \in left("values")}
        [] op[c].step = "index" ->
             {[disk EXCEPT !["index"] = part] : part \in left("index")}
        [] op[c].step = "appendRecord" ->
             {[disk EXCEPT !["log"] = @ \o part] : part \in PartlyLog(<<>>, op[c].puts)}
        [] OTHER -> {disk}

PartialManifests(c) ==
  IF op[c].step = "manifest" THEN {manifest, Torn, NewManifest(c)} ELSE {manifest}

\* fopen, fwrite or fclose fails: the call gives up and returns FCE_ERR_IO.
WriteFails(c) ==
  /\ "write" \in Faults
  /\ Writing(c)
  /\ disk' \in PartialDisks(c)
  /\ manifest' \in PartialManifests(c)
  /\ IF op[c].step \in {"freeze", "appendRecord"} THEN Begun(c) ELSE NoHistory
  /\ Goto(c, "release")
  /\ UNCHANGED mode

\* crc64_file cannot open a file that has been written.  It returns 0, as for an
\* empty file; the manifest gets it for a checksum, and the call returns FCE_OK.
ChecksumUnread(c) ==
  /\ "checksum" \in Faults
  /\ op[c].step = "manifest"
  /\ \E f \in File :
       /\ NewManifest(c).size[f] # 0
       /\ manifest' = [NewManifest(c) EXCEPT !.crc[f] = <<>>]
  /\ Goto(c, "release")
  /\ UNCHANGED <<mode, disk>> /\ NoHistory

\* The process dies, perhaps in a write; the kernel gives up its lock.
Crash(c) ==
  /\ "crash" \in Faults
  /\ op[c] # Idle
  /\ IF Writing(c)
       THEN disk' \in PartialDisks(c) /\ manifest' \in PartialManifests(c)
       ELSE UNCHANGED <<disk, manifest>>
  /\ IF Writing(c) /\ op[c].step \in {"freeze", "appendRecord"}
       THEN maps' = maps \cup NewMaps(c) /\ sound' = FALSE
       ELSE UNCHANGED <<maps, sound>>
  /\ pending' = IF mode[c] = "exclusive" THEN {} ELSE pending
  /\ Lock!Release({c})
  /\ op' = [op EXCEPT ![c] = Idle]

-----------------------------------------------------------------------------
FreezeStep(c) ==
  \/ \E backend \in Backend, puts \in Puts, dup \in BOOLEAN :
        FreezeStart(c, backend, puts, dup)
  \/ FreezeRefused(c)
  \/ WriteRecords(c)
  \/ WriteIndex(c)
  \/ IndexFails(c)

AppendStep(c) ==
  \/ \E k \in Key, v \in Value : AppendStart(c, k, v)
  \/ AppendRefused(c)
  \/ AppendReadManifest(c)
  \/ AppendRecord(c)

ReaderStep(c) ==
  \/ ReaderOpen(c)
  \/ ReadManifest(c)
  \/ LoadFiles(c)
  \/ InspectReturns(c)
  \/ ReaderClose(c)

StoreNext ==
  \E c \in Client :
     \/ FreezeStep(c)
     \/ AppendStep(c)
     \/ ReaderStep(c)
     \/ WriteManifest(c)
     \/ ManifestFails(c)
     \/ WriteFails(c)
     \/ ChecksumUnread(c)
     \/ Release(c)
     \/ Crash(c)

StoreSpec == StoreInit /\ [][StoreNext]_storeVars

-----------------------------------------------------------------------------
(* Correctness. *)

StoreTypeOK ==
  /\ mode \in [Client -> {"none", "shared", "exclusive"}]
  /\ DOMAIN disk = File
  /\ manifest \in {Missing, Torn} \/
        /\ manifest.backend \in Backend /\ manifest.count \in Nat
        /\ manifest.size \in [File -> Nat]
  /\ \A c \in Client : op[c].step \in Step /\ op[c].backend \in Backend \cup {"none", "log"}
  /\ sound \in BOOLEAN
  /\ maps \subseteq [Key -> Value \cup {Absent}] /\ pending \subseteq maps

\* The map that each open reader shows now, through its manifest and the files.
readerView ==
  [c \in Client |-> IF op[c].step = "reading" THEN Lookup(op[c].m, disk) ELSE <<>>]

AC == INSTANCE AtomicCache WITH view <- readerView

\* Freeze, append and readers implement one atomic map: whatever fails, dies or
\* overlaps, a reader that opens shows the map before or after a whole mutation,
\* and goes on showing it (docs/API.md:19-21, "snapshot view").
ImplementsAtomicCache == AC!ASpec

\* After a mutation that returned FCE_OK, and until the next one writes, the
\* cache opens and shows what the mutations so far add up to; a refused call
\* has not harmed it.  (The types are a part of it.)
SoundOpens ==
  /\ StoreTypeOK
  /\ sound => /\ manifest \notin {Missing, Torn}
              /\ Valid(manifest, disk)
              /\ Lookup(manifest, disk) \in maps

\* A freeze that returns FCE_OK where the files of no other backend are has left
\* a cache that opens and shows the latest puts, whatever was there before.
FreezeAddsUp(c) ==
  (\A f \in File \ FilesOf(op[c].backend) : disk[f] = <<>>) =>
     /\ Valid(manifest', disk')
     /\ Lookup(manifest', disk') = AC!Latest(op[c].puts)

\* An append that returns FCE_OK to a log that opens without the new record has
\* left one that opens, and shows the record on top of what it showed.
AppendAddsUp(c) ==
  LET before == [disk EXCEPT !["log"] = Front(@)]
      put == op[c].puts[1]
  IN  manifest \notin {Missing, Torn} /\ Valid(manifest, before) =>
        /\ Valid(manifest', disk')
        /\ Lookup(manifest', disk') = [Lookup(manifest, before) EXCEPT ![put[1]] = put[2]]

\* No success is lost on a cache in order, whatever has failed or died before:
\* "multiple processes may append to the same log cache without racing the
\* manifest update" (docs/API.md:430).
MutationsAddUp ==
  [][\A c \in Client : WriteManifest(c) =>
        IF op[c].m = Missing THEN FreezeAddsUp(c) ELSE AppendAddsUp(c)]_storeVars

\* "writers cannot replace files that the reader still maps" (docs/API.md:299):
\* from the first file mapped to the unmapping, no file changes.
MapsFiles(c) == op[c].step \in {"load", "reading"}

ReadersPinFiles ==
  [][(\E c \in Client : MapsFiles(c)) => UNCHANGED <<disk, manifest>>]_storeVars

\* A freeze that returns FCE_OK can be opened, as docs/QUICK_START.md:33-38 goes
\* on to do, and "Compaction rewrites an existing cache into another backend"
\* (docs/QUICK_START.md:87): the directory need not have been a new one.
FrozenCachesOpen == sound => Valid(manifest, disk)

\* An append "updates record count, log size, log checksum" (docs/API.md:430):
\* once it returned FCE_OK, the recorded size is the size of the log.
LogSizeRecorded ==
  sound => manifest.size["log"] = Len(disk["log"])

=============================================================================
