# Formal model of fast-cache-engine

TLA+ modules, TLC configurations and TLAPS proofs for the fast-cache-engine
library (`src/src`, C). Paths below are relative to `src/`. `PROJECT.json` lists
every run, the source lines behind every definition, the hazards, the findings
and the theorems.

## 1. The system

fast-cache-engine keeps a map from byte keys to byte values in a directory. A
builder collects records in memory and *freezes* them into files; readers map
the files and look keys up; one backend, the log, also accepts *appends*. There
is no server. All coordination goes through one lock file per directory, and
any number of processes and threads may use the same directory.

| Component | Code | State | Operations |
|---|---|---|---|
| Cache lock | `src/core/fce_file.c:34-160` | one read-write lock per process (`g_cache_lock_mutex`), one `fcntl` record lock per process and `cache.lock` file | acquire, acquire_shared, release |
| Cache directory | `src/api/*.c`, `src/backends/*.c`, `src/core/fce_manifest.c` | `manifest.fce`, `index.fce`, `keys.fce`, `values.fce`, `log.fce` | freeze (five backends), append, reader open and close, inspect, validate |
| Builder | `src/api/fce_builder_api.c`, `src/core/fce_build_records.c` | growing array of records, `frozen` | open, put, bulk_put, freeze, close |
| Index of each backend | `src/backends/*.c` | sorted array, slot array, trie, hash table, in-memory log index | build, get |
| Scans and iterators | `src/api/fce_reader_api.c:226-463` | list of matching positions | prefix, range and full scan, next, close |
| Compaction | `src/api/fce_reader_api.c:492-542` | a reader of one directory and a builder of another | compact |
| Memory | `src/core/fce_memory.c` | list of allocations with statistics, arenas | malloc, realloc, free, arena create, alloc, register cleanup, destroy |
| Codecs | `src/codecs/fce_codecs.c` | the buffer being filled | encode, decode |
| Schema, manifest, planner | `src/core/fce_schema.c`, `fce_manifest.c`, `fce_planner.c` | none | validate, convert, plan |
| Hash and CRC | `src/core/fce_hash.c`, `fce_crc.c` | none | hash128, crc64 |
| CLI, Python binding | `src/cli/fce_cli.c`, `python/` | none beyond the handles | wrappers |

How they interact. Freeze and append take the directory lock exclusively, write
the data files in place and the manifest last, and release the lock. Opening a
reader takes the lock shared, reads the manifest, maps the files, compares their
sizes and checksums with the manifest, and *keeps* the lock until
`fce_reader_close`. An append reads the manifest, appends a record to the log and
rewrites the manifest with larger numbers. Compaction is a reader of one
directory followed by a builder of another, with no lock held in between.

What is hard here:

- the lock has two stages with different scopes (a mutex of the whole process,
  a record lock of a process on a file), and POSIX record locks have the
  unusual rule that any close drops them all;
- files are rewritten in place, so that every failure or process death between
  two writes leaves a mixture that the next reader has to recognise by sizes and
  checksums alone;
- an append trusts the numbers an earlier manifest recorded;
- a reader validates once and afterwards relies on the files to stay put.

What makes each part correct:

- *lock*: writers of a directory exclude each other and exclude its readers,
  whatever threads and processes they run in; no return path keeps a lock; no
  call waits for ever on a lock that nobody needs to hold;
- *directory*: it behaves as one atomic map. A reader shows the map before or
  after a whole mutation, never a mixture, and goes on showing the same one; a
  mutation that returned `FCE_OK` on a cache in order adds what it put to what was there;
- *builder and index*: the last put of a key wins, a forbidden duplicate is
  refused before anything is overwritten, and a lookup finds exactly the keys
  that were put;
- *memory*: every allocation is freed once and the statistics say so, in any
  interleaving of threads;
- *codecs*: decoding gives back what was encoded, or encoding refuses;
- *schema*: what the application asked for survives manifests and compactions, and a cache that
  could be written can be opened;
- *iterators*: every entry that was asked for comes once, or is reported as a failure;
- *arena*: what a reader hands out stays valid until it is closed, and nothing stays behind then.

## 2. Modules

| Module | What it is |
|---|---|
| `DirLock` | abstract lock of a directory, as `docs/API.md` promises it |
| `CacheLock` | the two-stage lock of `fce_file.c` (POSIX build), with every failure path and process death |
| `CacheLockProofs` | TLAPS proofs about `CacheLock` |
| `MCCacheLock` | layouts of processes, threads and handles for TLC |
| `AtomicCache` | abstract cache directory: one atomic map, snapshots, mutations that may be abandoned |
| `CacheStore` | freeze, append and readers of one directory over `DirLock`, file by file, with failed writes, failed allocations and crashes |
| `CacheStoreProofs` | TLAPS proofs about `CacheStore`, with the refinement of `AtomicCache` |
| `MCCacheStore` | instances of `CacheStore` for TLC |
| `Compact` | `fce_compact` between two directories over `DirLock`, while others append and compact |
| `MCCompact` | caches to begin with, symmetry of the clients |
| `IndexLookup` | the three searches over sorted arrays: `get_sorted`, `get_log`, `radix_find_child` |
| `Codecs` | `fce_codec_encode` and the decoding of what it returned, in integers of a few bits |
| `Schema` | planner, validation, the manifest and back, expected schemas, chains of compactions |
| `Builder` | a builder from open to close, with the freezes into direct and MPH tables and their lookups |
| `Scans` | iterators: full scan, prefix and range scan of sorted indexes, paging through a range |
| `ReaderProofs` | TLAPS proofs about `Scans` and `Compact` |
| `MCSequential` | hosts `IndexLookup`, `Codecs`, `Schema`, `Builder` and `Scans` in one run, with their small sets |
| `SequentialProofs` | TLAPS proofs about `IndexLookup`, `Codecs`, `Schema` and `Builder` |
| `Radix` | the radix backend: trie construction with failing allocations, layout, validation, lookup, prefix scan |
| `MCRadix` | instances of `Radix` |
| `RadixProofs` | TLAPS proofs about `Radix` |
| `Allocator` | abstract allocator: each call hands out in one step a block that nobody has, or leaves its caller what it had |
| `Memory` | the tracked allocator under several threads |
| `MemoryProofs` | TLAPS proofs about `Memory`, with the refinement of `Allocator` |
| `Arena` | the arena of a reader: blocks and mapped files, gets by several threads, opening and closing |
| `ArenaProofs` | TLAPS proofs about `Arena` |
| `FiniteOrder` | lemmas the proofs share: induction over finite sets and naturals, least and greatest elements, increasing enumerations |
| `MCMemory` | hosts `Memory` and `Arena` in one run; symmetry of threads and addresses |

`CacheStore` uses `DirLock` for its locking, and `CacheLock` is shown to implement
`DirLock` when every process has at most one handle per directory (section 5).
The two therefore compose under that condition, and the run
`locks_two_readers_one_process` shows what happens without it. `Compact` uses `DirLock` in the same way and takes each directory for
the atomic cache that `CacheStore` is shown to implement. `IndexLookup`, `Radix` and `Builder` say
what a lookup in the files of one directory finds, and `Scans` what an iterator finds; `CacheStore` takes that
for granted (`View`). `Schema` is about the part of the manifest that `CacheStore` leaves out.
`Arena` is what opening and closing a reader of `CacheStore` does in memory; it takes an allocation
for one step, as `Allocator` does, which `Memory` is shown to implement.

```
CacheLock --implements--> DirLock <--uses-- CacheStore --implements--> AtomicCache
                             ^                  |                         ^
                             |                  |                         |  atomic directories
                             +---- Compact -----|-------------------------+
                                                |
            what a lookup or iterator finds     +--> IndexLookup, Radix, Builder, Scans
            what the manifest says              +--> Schema     (values: Codecs)
            what a reader has in memory         +--> Arena --> Allocator <--implements-- Memory
```

`MCSequential` and `MCMemory` are hosts: each puts modules that share no variable into one run, and a behaviour
is one of a single part while the others stay in their initial state. A property of a part
therefore holds in the run exactly if it holds of the part alone.

### CacheLock and the code

One handle (`FceFileLock`) runs through `pc`:

| Step | Code |
|---|---|
| `CacheLockAcquire` | a call of `fce_cache_lock_acquire` or `_shared` begins; `shared` is `out_lock->shared` |
| `ProcessLockEnter`, `ProcessLockRefused` | `process_lock_enter` (`fce_file.c:40-49`, `:70-71`) gets the process lock, or returns an error |
| `OpenLockFile`, `LockFileUnavailable` | path and `open()` (`:88-108`); the error path leaves the mutex |
| `SetLockWait`, `SetLockFails` | `fcntl(F_SETLKW)` (`:110-125`) |
| `CacheLockRelease` | `F_UNLCK` and `close` (`:148-156`) |
| `ProcessLockLeave` | `process_lock_leave` (`:158-159`) |
| `LockCrash` | the process dies; the kernel drops its record locks |

`rwlock[p]` is the set of handles of process `p` inside `g_cache_lock_mutex`, and
`flock[d][p]` the kernel's record lock of `p` on the lock file of `d`: one per
process and file, ignored between threads of one process, and dropped as a whole
by any unlock or close. Both are external (POSIX) and are modelled as `fce_file.c`
uses them. A thread runs one call at a time; it may keep readers open meanwhile.
Whether a waiting writer bars new readers from the rwlock is left open by POSIX and is the
constant `WritersFirst`.

### CacheStore and the code

A client runs one call, or has one reader open, at a time (`op[c].step`). Files
are sequences of elements (keys, values, index entries, log records) and a
checksum is the content it was taken of, so that CRC64 collisions do not exist. `Ascending` is the order
of the keys that `dedupe_records` sorts into; `Manifest` are the manifests a call may write, and `Missing` and `Torn` are none of them.
A writing step is one file, except that keys and values are opened and written
together, as `write_keys_values` does. When a write fails or the process dies in
it, the file is left as it was, or as some prefix of the new content;
in the log also with a record cut in the middle (`Torn`).

| Step | Code |
|---|---|
| `FreezeStart` | `fce_builder_freeze` takes the lock (`fce_builder_api.c:92-96`) |
| `FreezeRefused` | `dedupe_records` refuses a duplicate, or memory runs out before a file is touched |
| `WriteRecords` | `write_keys_values`, or the loop of `freeze_log` |
| `WriteIndex`, `IndexFails` | the index is written; or no memory, or no MPH seed, with keys and values already overwritten |
| `AppendStart`, `AppendRefused`, `AppendReadManifest`, `AppendRecord` | `fce_log_append` |
| `WriteManifest`, `ManifestFails` | `write_manifest`, the last step of freeze and append; or it has no memory for its path (`fce_manifest.c:75`), with all files written and the former manifest over them |
| `ReaderOpen`, `ReadManifest`, `LoadFiles`, `ReaderClose` | `fce_reader_open_expected` ... `fce_reader_close`; `fce_validate` is the two in a row |
| `InspectReturns` | `fce_inspect`: the manifest under the shared lock, and no files |
| `WriteFails`, `Crash` | a write fails, a process dies |
| `ChecksumUnread` | `crc64_file` cannot open what was just written and returns 0 (`fce_crc.c:18`), as it does for an empty file; the call returns `FCE_OK` |
| `Release` | the end of every call |

A reader keeps its manifest and *looks through it at the files as they are now*
(`readerView`); that it shows a constant map is therefore something the
lock has to bring about, not an assumption.

`maps`, `sound` and `pending` are history variables: what module `AtomicCache`
knows of the directory. They record the maps that the mutations begun so far
may leave, and are never read by a guard of the code's steps.

### Compact and the code

`cache[d]` is a directory: its backend and its records in order. A key is `<<n, k>>`, key
`k` after `n` encodings by the key codec, so that a key encoded twice is another key than one encoded
once. The steps of a client follow `fce_compact` (`src/api/fce_reader_api.c:492-542`):
`CompactStart` opens the reader, which keeps the shared lock; `OpenBuilder`;
`ReadRecord` once for every record, from the log or from the iterator;
`CloseReader`; `FreezeStart` takes the exclusive lock; `FreezeWrites`,
`FreezeRefused` (a duplicate) or `FreezeFails`. `ReadFails` is any error before that.
`LogAppend` is a whole `fce_log_append`. A table keeps the latest record of each key (`Frozen`) in the order in which they
were put (`InOrder`), where `dedupe_records` sorts by key: nothing here asks for the order of different keys. `snapshot` is a history variable: what
the source showed when it was opened.

### IndexLookup and the code

`kind` says which of the searches it is. `Built` is what their builders
leave: entries sorted by hash, distinct keys after `dedupe_records`, distinct places
in a log, distinct labels at a trie node. `Halve` is a round of the binary search,
`SearchEnds` the step from there, and `ScanHit`, `ScanMiss` and `ScanEnds` the loop over the
entries of the wanted hash.

### Radix and the code

`freeze_radix` goes over the bytes of each key: `FollowEdge` and `AddEdge` are the
two ways `radix_find_or_add_edge` succeeds, `GrowthFails` those in which an array
cannot grow, and `EndOfKey` and `Freeze` the rest of `freeze_radix`. `index` is the
content of `index.fce`, edges flattened as in the file (`Laid`). `FirstNotBelow` is where
an edge belongs among those of its node, which construction and lookup search for alike. `Open` runs the checks of
`validate_reader_files`. `Get` is `get_radix`; `ScanStart`, `Visit` and `ScanEnds` are
the radix branch of `fce_reader_prefix_scan` with its explicit stack. Numbers start
at 1 where the code starts at 0 (and at 0 for "none" where the code has a sentinel).

### Memory and the code

`heap` is the C library's heap, which hands out any free place, one
just freed included. `allocations` is the list `g_allocations`, `entry` what each
node says, `memLock` the mutex, `stats` `g_mem_stats`. A step is what happens
without the lock, or between two changes of it that other threads could see. The list is read
when the lock is taken (`seen`) and written when it is given up, so that
an update made without the lock would be lost, as in the code.

| Step | Code |
|---|---|
| `Malloc`, `MallocNode`, `MallocNodeFails`, `Push`, `Link` | `fce_xmalloc` (`fce_memory.c:117-134`), also `fce_xcalloc` |
| `Free`, `Find`, `Unlink`, `FreeNode`, `FreeBlock` | `fce_free` (`:176-194`) |
| `Realloc`, `Find`, `Move`, `MoveFails`, `Relabel` | `fce_xrealloc` (`:144-174`) |

`heldBlocks` and `asked` map this state to that of `Allocator`: what callers have, and what each call has been asked
for and was given. A call takes effect when its caller gets its answer; until then the block it was given is nobody else's. A moved
block has its new size in the heap and its old address only in its node, which is where `asked` reads it.

### Arena and the code

`blocks` are the blocks that are allocated, `cell` the list node in a block, `head` the lists `a->ptrs`
and `a->cleanups`, `handed` what callers were given. A list is changed in two
steps, the read of its head and the write of it, so that two threads without the lock lose a node, as in the code.

| Step | Code |
|---|---|
| `AllocateBlock`, `AllocateNode`, `TakeArena`, `LinkNode`, `PublishNode`, `CallFails` | `fce_arena_alloc` and `fce_arena_register_cleanup` (`fce_memory.c`) |
| `MapFile`, `LoadFile`, `FileLoaded` | `read_file_arena` (`fce_file.c`): a file that is missing, read into memory, or mapped |
| `OpenCalled`, `MakeArena`, `TakeCacheLock`, `OpenReturns`, `OpenFails` | `fce_reader_open_expected` |
| `GetDecoded`, `CloseCalled` | threads get values that must be decoded; the application closes the reader when none is in a call |
| `Detach`, `RunCleanup`, `FreePtr`, `FreeArena`, `FreeReader` | `fce_reader_close` with `fce_arena_destroy` |

### Codecs and the code

One array of `int32_t`, perhaps with bytes left over, is encoded and what comes out is decoded. Each element
or run is a step: `EncodeCopy`, `EncodeDelta`, `EncodeRun`, `EncodeBits` and their `Decode...` partners. Integers
have `WordBits` bits, so that differences, run lengths and the count in front of the runs reach the limits of their
fields with small arrays. `out` is the buffer and `room` its size, `buffers` what is allocated.
`fce_codec_decode` is modelled on what `fce_codec_encode` returned only.

### Schema and the code

A schema is a function on its fields. `Plan` is `fce_schema_plan`, `ValidSchema` is `validate_schema`,
`make_manifest` and `schema_from_manifest` are the functions of the same names: the booleans and the user flags share
`backend_meta1`, bit by bit. `ReopenCache` is `fce_reader_open_expected` with the application's
schema or none as the expected one, `CompactTo` what `fce_compact` does with the schema. `built` is a history variable:
the schema that was asked for.

### Builder and the code

`records` are `b->records` in the order of the puts; the value of a record is named by its position.
`Put`, `PutFails` are `fce_builder_put`, which `fce_builder_bulk_put` calls until one fails. `FreezeCalled` is the call up to the end of
`dedupe_records`; `DirectRefused`, `DirectAllocate`, `DirectFill` are `freeze_direct`; `MphStart`, `PlaceBucket`,
`SeedFails`, `SeedsExhausted`, `MphWritten` are `freeze_mph`, one step for each seed tried. `FreezeFails`
is an error in either; the builder goes on afterwards as it was. `dedup` is the set of the records that
`dedupe_records` keeps: which bucket comes next depends on their buckets alone (`Unplaced`, `Larger`). `GetDirect` and `GetMph` are `get_direct` and
`get_mph` over the table. `sparse` is the flag that allows a sparse direct table, `collide` says that all keys fall
into one bucket, which is what makes seeds run out.

### Scans and the code

`Tables` are readers, as the entries of their index in the order of the index. `StartScan` creates an iterator,
`ScanEntry` looks at an entry, `ScanReturns` ends the scan, `NextGives`, `NextFails` and `NextNotFound` are the results of
`fce_iterator_next`, `CloseIterator` closes it at any time. `NextPage` is an application that asks for the range from the end of the
last one on.

## 3. Runs

Passing:

| Run | Bounds | Shows |
|---|---|---|
| `locks_crowded` | 2 processes, 3 threads, 3 handles on A of which 2 in one process, 1 on B | writers exclude each other, every path leaves mutex and record lock as it must (`MutexHolders`), and a writer's record lock cannot be dropped under it (`WriterCovered`) |
| `locks_sole` | 2 processes, 4 threads, one handle per process and directory, 2 directories | `CacheLock` implements `DirLock`; readers keep their record lock; with fairness, no acquire or release hangs once nobody asks for further locks |
| `store_tables` | 2 clients, backends sorted and mph, 2 keys, 2 values, failed writes, failed allocations, unread checksums, crashes | refinement of `AtomicCache`; what was written as it should be opens and shows the latest puts (`SoundOpens`, of which the types are a part) |
| `store_log` | 3 clients, log backend, no append to a log of 2 records, in the file or by its manifest, failed allocations, unread checksums | a freeze or append that succeeds on a cache in order adds up (`MutationsAddUp`): its record is not lost, nor is one that was there; readers are snapshots, their files are pinned |
| `compact` | 2 clients, 2 directories, 2 compactions, logs of at most 3 records, failed allocations, with fairness | a compaction that returns `FCE_OK` shows what its source showed when it was opened, whatever is appended meanwhile, in place and crosswise; the output is never a part of the source; compactions return |
| `sequential` | one part at a time, with fairness. Searches: arrays of up to 4 entries, 4 keys of which 2 share a hash. Codecs: 3-bit integers, arrays of up to 9. Schemas: counts of 4 bits, 2 user flags, any number of compactions. Builder: words of 4 bits, 3 puts of 5 keys, 3 seeds. Scans: tables of up to 3 keys, 2 adjacent pages and more | each search finds the newest entry of a key or nothing, halves its interval (`Logarithmic`), and returns; decoding gives back every array, or refuses, inside its buffer; a schema survives manifests and compactions, and what was written opens; the planner's schemas are valid; tables hold exactly the latest puts after puts and freezes that failed; a freeze takes at most `(Count + 1) * MaxSeed + 1` steps and always has a bucket to go on with (`FreezeBounded`); iterators return what was asked for once |
| `radix` | sequences of up to 3 keys of up to 2 bytes out of 3; any growth may fail | the trie stays a tree with ascending edges, nothing is written past an array; without failures lookup finds exactly the keys, and a prefix scan exactly the records with the prefix |
| `memory` | one part at a time. Allocator: 3 threads, 5 addresses, at most 3 allocations, any of which may fail. Arena: an opener and 2 workers, 3 files, 2 gets while a reader is open, 14 blocks, any allocation, mapping or lock may fail | blocks are tracked, freed once, none lost, statistics exact, the mutex always given up; `Memory` implements `Allocator`; what a reader handed out stays valid until it is closed, files are mapped only under the lock on the cache, and a reader that was closed or could not be opened leaves nothing allocated, mapped or locked |

Violations, each a disagreement between the code and what its documentation says
(the quotations are in `PROJECT.json`, "findings"):

| Run | Shows |
|---|---|
| `locks_two_readers_one_process` | closing one of two readers of a directory in a process drops the record lock of both; a writer of another process gets in under the open reader |
| `store_mixed_backends` | a directory is frozen as a log and then as a table: both freezes return `FCE_OK`, and the cache cannot be opened because of the log that is left (the same in the other order) |
| `store_append_after_failure` | an append fails after its record reached the log; the next one returns `FCE_OK` and records a size that is one record short. The cache does not open until a log freeze truncates the log |
| `compact_key_codec` | a table with a key codec is compacted: its keys are encoded twice and not found again |

Met while modelling, follow from the modules and are not runs of their own:

- A thread with a reader open on A that freezes or appends to B waits for itself, because
  `g_cache_lock_mutex` is one for the process: in `CacheLock` take one thread with a handle on each of two
  directories. `CallsComplete` holds in `locks_sole` because each thread has one handle.
- What fails an append after its record is in the log need not be a write: `write_manifest` may have no memory for its path
  (`ManifestFails`). With that fault alone the next append returns `FCE_OK` with a wrong size, as in
  `store_append_after_failure`; no append then repairs the cache, as each adds its own record to both. `store_log` has these states:
  no reader is shown a wrong map there, and `MutationsAddUp` says what a success is worth, namely something if the log opened before.
- With the fault "write" (records may be cut), a failed log freeze, a failed append and a successful append can add up to the recorded size, so
  that a reader accepts a log that lacks committed records: in `CacheStore`, with the fault "write",
  a reader then shows a map that no mutations lead to.
- A growth that fails in the middle of a radix key and succeeds at the next byte is
  forgotten (`fce_backend_radix.c:86-90` does not look at the status until the key ends): freeze returns
  `FCE_OK` and the key is not found. `GetExact` is therefore stated for tries whose arrays could grow;
  without that condition `radix` refutes it in six steps.
- A freeze or append whose checksum could not be taken (`fce_crc.c:18`, or a path that had no memory and reaches `crc64_file`
  as `NULL`, `fce_backend_direct.c:55-60`) returns `FCE_OK`, and the cache does not open until the next
  mutation: in `CacheStore` the fault "checksum". No reader takes it for another map, which the refinement checks.
- An array of 2^31 elements or more is encoded by `rle`, which writes its length into 32 bits, and is refused by decoding:
  in `Codecs` the arrays that are not `Countable`. `docs/API.md:479` promises the refusal of overflows for `delta_i32` only.
- The planner takes a direct table for any number of records when the greatest key is `UINT64_MAX`, whose successor is 0
  (`fce_planner.c:18`); `freeze_direct` has the same wrap in its density check but refuses the table by its size
  (`Builder`: `TooSparse`, `TooLarge`). `PlannerSound` states this as its exception. The planner also hands out schemas for range lookups with
  log, direct and MPH, which have no range scan; validation accepts them.
- `validate_schema` does not look at the versions: a builder writes a cache of any version, and only 1 can be opened again
  (`FrozenOpens` has this exception).
- A prefix scan of a sorted index does not check the key codec as a range scan does (`fce_reader_api.c:246`, `:296`), although
  `docs/API.md:380` says that it requires one that passes keys through. Validation of the schema only asks for it when the schema's own lookup is prefix or range.
- A call of `fce_iterator_next` that fails has gone past its record (`fce_reader_api.c:447`): the next call goes on behind it. `ScansExact` counts the record among the failures.
- A builder without a fixed key size takes keys of any length; a direct freeze then refuses all of them
  (`Builder`: `WrongLength`).
- A log whose schema forbids duplicate puts accepts them as appends (`freeze_log` and `fce_log_append` do
  not look); compacting it into a table is refused. `CompactionExact` speaks of compactions that succeed.

Why the bounds are enough. The lock treats all directories and all handles
alike, and a conflict is between two handles; three on one directory give a
holder, a waiter and a third that overtakes or closes, and two directories
show what the mutex shared between them does. In the store, two clients
give a writer and a rival or reader, the third in `store_log` a reader that
outlives another; two keys and two values tell a lost record from an overwritten one and a
prefix from a whole. `TablePuts` holds the empty builder, one key, both keys out
of order, and a duplicate. `MaxLog` bounds the log and what its manifest records of it: in `store_log` no append begins at two records, so that there are logs
of two: both frozen, one frozen and one appended, both appended, or one that no manifest counts with one appended behind it. The manifest
needs the bound too: appends between freezes that rewrite the log and then fail would let it count on for ever. `store_append_after_failure` starts from an empty log
(`EmptyLog`), so that only appends fill it, and has one client because nothing it shows needs overlap. Clients are interchangeable, so that symmetry is used
in `store_tables` and `store_log`, and threads and addresses are in
`memory`; none of these checks liveness.

Two compactions (`MaxCalls`) are what it takes to compact in place twice, or crosswise;
the log may grow between any two steps. In `IndexLookup` keys 1 and 2 share a hash, so
that an array of four entries can have a run of colliding hashes with strangers on both sides.
`Codecs` has all arrays of up to three of the values -4, -1 and 3, whose differences do and do not fit 3 bits, and constant
arrays of up to nine elements, whose runs are longer than a count holds (`2^(WordBits-1) - 1`) and whose length wraps
in the header. `Schema` has schemas that are accepted and refused by each rule of the validation that relates two
fields, and planner inputs on both sides of four keys per record, at the greatest count (`Counts`) and where the product
wraps. `Builder` has keys next to the limit at which the slots of a direct table (`Words`, `SlotSize`) have no size,
the greatest key, and one of another length; the array grows from one place (`FirstCap`) at the first, second and third put; two buckets of an MPH
table compete for a slot, and with `collide` one bucket of three tries all seeds (`MaxSeed`). `Scans` has the empty
key, keys that are prefixes of each other, and every order of an index; adjacent ranges meet at a key and between keys.
In `Arena` two threads overlap in a list that already has nodes; three files can be one of each kind, and fourteen blocks are all that a reader, its
files and two gets need, while any allocation may fail at every step.
`Radix` starts its arrays with room for one edge and two nodes (`EdgeCap`, `NodeCap`) where the code has
room for 4 and 64: three short keys then make both arrays grow more than once. A growth that fails may
be one that a later byte of the same key does not need, which takes keys of two
bytes. In `Memory`, five addresses hold two blocks with their nodes and leave one to move to;
three threads are one in the lock, one waiting and one in the C library.

`CHECK_DEADLOCK FALSE` stands where the system may really stop: a lookup or scan that has
returned, or calls used up (`MaxCalls`, `MaxAllocs`).

The passing store runs keep to one family of backends per directory (tables, or
log), because the mixture is what `store_mixed_backends` refutes; and `store_log`
has no write faults, because a log with a cut record in it refutes `ImplementsAtomicCache` (above). `SoundOpens` is
checked of tables only: of logs it is false as soon as any append fails after its record was written.

## 4. Fairness

`locks_sole` uses `LockFairness`: weak fairness
of each handle's steps (a runnable thread runs; the kernel and the rwlock
wake a waiter that can proceed) and of releasing (an application
closes what it opened). Nothing obliges a process to fail, to die or to start a
call. Fairness is weak, so a waiter may be overtaken for ever while others keep
coming, as `fcntl` and `pthread_rwlock` allow; that is why `CallsComplete` assumes that
at some point no more locks are asked for.

`HostSpec` of `MCSequential` and `FairCompactSpec` (`compact`) say no more than that a thread inside a call
runs: a lookup goes on (`Looks`), so does a freeze of a builder (`Freezes`, which is the steps of `freeze_direct` and `freeze_mph` but not their failures). Who gets a lock that is free is not determined: in `compact` a
bounded number of calls means that nobody is overtaken for ever.

## 5. Proofs

The runs check small instances; the theorems below hold for every value of the constants. The
assumptions are those the modules declare (`LockConstants`, `LookupConstants`, `MemoryConstants`, ...), which
only type the constants, and, where a theorem needs more, a condition that the theorem names.

### CacheLock

`CacheLockProofs` proves for any processes, threads, handles and directories:

- `LockTypeInvariant`: `LockSpec => []LockTypeOK`;
- `MutexHoldersInvariant`, `WritersKeepRecordLock`: `LockSpec => []MutexHolders`, `[]WriterCovered`;
- `WritersExclude`: `LockSpec => []WriterExclusion`, however many handles a process
  has and whatever fails or dies.

and, under `SoleHandle` (a process has at most one handle per directory):

- `SoleReadersKeepRecordLock`: `LockSpec => []ReaderCovered`;
- `ReadersExcludeWriters`: `LockSpec => []ReaderWriterExclusion`;
- `CacheLockImplementsDirLock`: `LockSpec => DL!Spec`, the refinement.

`WriterExclusion` is not inductive: that a writer is alone rests on
two locks. The invariant `LockInv` adds the facts it rests on. `MutexHolders`
ties the contents of the mutex to where the handles are; `ProcessExclusion` then
says that a writer is alone among the handles of its process;
`KernelExclusion` that a write lock is the only record lock on its file; and
`WriterCovered` that a writer in its critical section really has the record lock.
The last is the delicate one, since any handle of the same process could drop
the lock by closing: it cannot, because the writer is alone in the mutex and
every release happens before the mutex is left. Two writers of one process contradict
`ProcessExclusion`, two of different processes `KernelExclusion`. For readers the
same argument needs `ReaderCovered`, which holds only under `SoleHandle`, since
readers of one process share the mutex; `locks_two_readers_one_process` is the
counterexample without it. The refinement follows from the two exclusions: a step of
`CacheLock` that enters the critical section is an `Acquire`, a release or a crash
is a `Release` of a set of handles, and all others stutter.

### IndexLookup

`SequentialProofs` proves, for any keys, any hash function and arrays of any length:

- `LookupFindsNewest`: `LookupSpec => []LookupCorrect`;
- `LookupTypes`: `LookupSpec => []LookupTypeOK`;
- `LookupIsLogarithmic`: `LookupSpec => Logarithmic`: a round of the search halves an interval that is not empty, and a
  step of the scan passes an entry of the wanted hash or is the last;
- `BackendsAgree`: over an array of a builder's records, sorted by hash (`Listed`), a lookup that returns has found the value put last.

The invariant is `LookupInv`: the array is sorted (`Built`); every entry below `lo` has a smaller hash
than the wanted one and none from `hi` on has (`Between`, the lower bound of a binary search); and in the
scan, `best` is the newest match among the entries passed so far, all matches being at or after
the lower bound (`BestSoFar`). When the scan leaves the run of the wanted hash, sortedness says that no
match is left further on.

`BackendsAgree` joins `IndexLookup` to `Builder`. `Listed` is what `freeze_sorted_like` and `build_log_index` put into their arrays: the
records that `dedupe_records` keeps, or all records of a log with their places. `ListedIsBuilt` says that such an
array, once sorted, is `Built`; so the answer of a sorted cache and of a log is the one that `FrozenExact` states of direct and hash
tables. `LookupsExact` is the corresponding theorem for tries.

### CacheStore

`CacheStoreProofs` proves, for any clients, keys and values,

- `StoreTypeInvariant`: `StoreSpec => []StoreTypeOK`,
- `ReadersKeepFiles`: `StoreSpec => ReadersPinFiles` and
- `SuccessesAddUp`: `StoreSpec => MutationsAddUp`, for any backends and faults;
- `CacheIsAtomic`: `CleanLogs => (StoreSpec => ImplementsAtomicCache)`, the refinement;
- `SuccessLeavesACacheThatOpens`: `OneKind => (StoreSpec => []SoundOpens)`.

`ReadersPinFiles` speaks of two steps of different clients, so it rests on what every
client holds at every point of its call. `Discipline` says that a client between the
first and the last step of a freeze or an append has the lock exclusive, and a reader from
opening to closing has it shared; `Exclusion` that a client with the exclusive lock is
alone. Both are kept through every failure: each error path of the code goes through the
release, and a process that dies loses the lock together with its call. A step that
changes a file is a step of a writer, so while a reader maps files there is none.
`Exclusion` is what `DirLock` promises; that the two-stage lock keeps it is the refinement
proved above, under `SoleHandle`.

The refinement needs to know what the files contain at every point of a mutation. `StepInv` says what each call
has in its own record: a freeze no manifest, an append and a reader the manifest that is still there.
`HistInv` says that a mutation is pending only while a writer holds the lock. `ContentInv` is the
heart: a freeze that has come to its manifest has written all its files (`FreezeWrote`), an append that has come to its own has put its
record behind what was there (`AppendWrote`), and whatever
files *could* pass the validation of the manifest that is there would show one of the maps of `AtomicCache`
(`Shows`, over `Recorded`, the files that the manifest describes). It speaks of files that need not be there:
after a failed freeze the old manifest stands over new files, and it is the validation that tells them apart.
For logs the files are a prefix of a history and `LogInv` says that the log shows a map that was
pending or committed. A step is then a step of `AtomicCache`: the first file written begins a mutation, the manifest
commits it, an error before the first file and everything a reader does but opening stutters.

`SuccessesAddUp` needs no condition, because `MutationsAddUp` asks for one in each state: a freeze in a directory without another backend's
files, an append to a log that would open without the new record. Then `FreezeWrote` and `AppendWrote` give the new
manifest and files together; that one more record overrides the map of a log at its key is `LogMapOneMore`.

`CleanLogs` says that no log is in use or that no call dies or fails inside a write (`WholeWrites`); without it the refinement is false: the
log holds a cut record, which the next append counts in (section 3). It allows logs whose appends fail for want of memory. `SoundOpens` is
about what a success leaves in *any* state, and takes more: `OneKind` says that a directory holds tables only, with every
fault, or logs in which nothing fails but the taking of checksums (`OnlyUnread`). Where the two kinds are in turn
`store_mixed_backends` refutes `SoundOpens`, and where an append may fail, for want of memory or in a write,
`store_append_after_failure` does. `TablesInv` and `LogsInv` then say that
the files of the other kind stay empty, and that a manifest describes the sizes that the next append will find.

### Builder

`SequentialProofs` proves, for any keys, number of puts, word size, size of slots, seeds and hash functions:

- `BuilderTypes`: `BuilderSpec => []BuilderTypeOK`;
- `FreezesStayWithin`: `BuilderSpec => []TableWithin`;
- `FrozenTablesAreExact`: `BuilderSpec => []FrozenExact`;
- `FreezesAreBounded`: `BuilderSpec => FreezeBounded`.

`BuildInv` adds what the table holds in the middle of a freeze. For a direct table, `DirectRoom`: the
checks of `freeze_direct` were enough for every key to have a slot and for their size not to have wrapped. For a hash table,
`MphTable`: a record whose bucket has a seed is in the slot that the seed gives it, and every slot that is taken
holds such a record. A bucket is placed only if its slots are free and differ from each other, so
no record is overwritten, and at the end the slots are as many as the records: `mph_slot_for` maps them one to one (`OneToOneCounts`),
which is why a lookup that finds another key in its slot may say that there is none.

`FreezesAreBounded` is the part of `CallsReturn` that can be proved. `StepsLeft` counts the seeds that are left to the bucket under way
and to those without a seed, and every step of a freeze lowers it; and while buckets are left, `Larger` has a greatest one
among them (`LargestIsNext`), so that `freeze_mph` never stops with neither a bucket to place nor an answer. With weak
fairness of these steps the freeze returns, which is what TLC checks.

### Codecs

`SequentialProofs` proves, for words of any width from two bits on and any arrays of such words:

- `CodecTypes`: `CodecSpec => []CodecTypeOK`;
- `CodecsRoundTrip`: `CodecSpec => []CodecCallsExact`;
- `CodecsWithin`: `CodecSpec => []WithinBuffer`.

`CodecInv` says what the buffer holds of the elements that have been read. `CopyOf` and `DeltaOf` do so element by
element, `BitsOf` bit by bit. For runs `RunsOf` says that there *are* ends of runs, ascending, up to which the
pairs in the buffer describe the array; a run is as long as its count, since `RunEnd` stops where the next count would not be an
`int32_t`. Decoding then keeps `Restored`: what has been written is the beginning of the array. That the bits of a
word add up to it again is `BitsAddUp` with `BitsAreElement`, an induction over the bits that uses
`u % 2P = u % P + ((u \div P) % 2) * P`. The count in front of the runs is the length of the array as an `int32_t`, which
may have wrapped: then some run does not fit the room or the room is not filled, and the call returns `corrupt`.

### Schema

`SequentialProofs` proves, for any schemas, planner inputs and number of values of the words:

- `SchemaTypes`: `SchemaSpec => []SchemaTypeOK`;
- `SchemasPersist`: `SchemaSpec => []SchemaPersists`;
- `PlansAreSound`: `SchemaSpec => []PlannerSound`.

`SchemaInv` says that the manifest of a frozen cache is the one made of the schema in the program's hands. The heart is
that `schema_from_manifest` undoes `make_manifest`: the four booleans and the user flags are digits of
`backend_meta1`, none of which reaches into another.

### Memory

`MemoryProofs` proves for any threads, addresses and sizes:

- `MemoryTypes`: `MemSpec => []MemTypeOK`;
- `BlocksTracked`: `MemSpec => []Tracked`;
- `BlocksFreedOnce`: `MemSpec => []FreedOnce`;
- `StatisticsExact`: `MemSpec => []StatsExact`;
- `NothingLeaks`: `MemSpec => []NoLeak`;
- `AllocatorImplemented`: `MemSpec => ImplementsAllocator`, the refinement.

None of the four before the refinement is inductive. `Tracked` speaks only of the moments when nobody is inside the mutex,
and between two of them the system allocator runs outside of it, where it may give a freed
address to another thread. The invariant says who owns each place of the heap (`OwnerInv`: a caller,
the list, or one call, as its block or its private node, and never two of them), and what
the list says of them (`ListInv`: every block that a caller has, or that a call has taken
over and not yet unlinked, is described by just one node). The delicate steps are those of
`fce_xrealloc`: between the `realloc` and the update of the node, the node describes an
address that may already be another's. It is the only such node (`Stale`), and it does no
harm because the whole of it happens under the mutex (`LockInv`). `StatsInv` says that the statistics change together with
the list: at every moment they count its nodes and the bytes the nodes name, also while the bytes really
allocated are others. The sum of the sizes is the number of pairs of a node and a byte of it
(`Bytes`), which needs no recursion. `HeapInv` is the converse of `OwnerInv`: whatever is allocated has an owner.

The refinement rests on the same invariant. A step of `Memory` that gives its caller an answer (`Link`, `Relabel`, the failures,
the last step of a free) is a step of `Allocator`, and so is a call; all others change neither what callers have nor what calls were
asked for. The block handed out is not `Owned` because nobody else is its owner; and what other threads
were asked for does not change with the heap (`OthersKeep`), although `asked` reads their blocks' sizes from it.

### Arena

`ArenaProofs` proves for any threads, blocks and number of files:

- `ArenaTypes`: `ArenaSpec => []ArenaTypeOK`;
- `ArenaIsSafe`: `ArenaSpec => []ArenaSafe`;
- `ReadersLeaveNothing`: `ArenaSpec => []NothingLeft`.

The lists are chains of cells, and what can be reached along a chain is a recursive notion. The invariant `ArenaInv` avoids it by
saying that there *is* a numbering of the nodes (`l`, of `n` nodes per list, each linked to the one before it, `ListsInv`), the
files that the cleanups unmap (`file`) and a division of the allocated blocks among their owners (`own`, `OwnersInv`): the reader, its arena,
the calls under way and the nodes. Each step of the code gives new witnesses: `PublishNode`
appends a node to the numbering, `RunCleanup` and `FreePtr` take the last away. Two threads may each have read the head of a list only if
one of them has the arena's lock (`NodesInv`), so no node is lost; and what an owner frees is nobody
else's. When the reader is closed, no owner is left, so neither is a block.

### Scans

`ReaderProofs` proves for any keys, tables, bounds and numbers of pages:

- `ScanTypes`: `ScanSpec => []ScanTypeOK`;
- `IteratorsAreExact`: `ScanSpec => []ScansExact`.

The invariant `ScanInv` says which entries the matches of the iterator are (`MatchesInv`), in the order of the index and each once, and
that what has been given or skipped is exactly what belongs to the earlier pages (`Earlier`) and what the
cursor has passed (`Passed`). That pages do not overlap and leave nothing out between them is a fact about
the order of keys, in which a key may be a prefix of another: `BelowDiffers` finds the first byte at which two keys differ, and
the order is then shown to be transitive and total.

### Compact

`ReaderProofs` proves for any clients, directories, keys, values and initial caches:

- `CompactTypes`: `CompactSpec => []CompactTypeOK`;
- `SourcesPinned`: `CompactSpec => SourcePinned`;
- `CompactionsAreExact`: `~Encodes => (CompactSpec => CompactionExact)`;
- `OutputsAreWhole`: `~Encodes => (CompactSpec => OutputWhole)`;
- `CompactionsLock`: `CompactSpec => Lock!Spec`: a compaction uses its locks as `DirLock` allows.

`CompactInv` says that a compaction has its source shared until it closes the reader (`Reads`), has its output exclusive
while it writes (`Writes`), and that a writer is alone (`Alone`); hence nobody changes a source under its reader, and `SourcesPinned` follows with and without codecs. `Copies` says that the builder has
the first records of the source, and that once all are read they show what the source showed. The last step is `LatestShown`: a table of the latest
records of a sequence shows the same as the sequence. `~Encodes` (no key codec) is needed:
with one, a table is compacted into keys encoded twice, which is what `compact_key_codec` shows.

### Radix

`RadixProofs` proves for any labels, keys and capacities of the arrays, whether or not allocations fail:

- `RadixTypes`: `RadixSpec => []RadixTypeOK`;
- `TriesAreTrees`: `RadixSpec => []TrieShape`;
- `ArraysHold`: `RadixSpec => []WithinArrays`;
- `LookupsExact`: `RadixSpec => []GetExact`;
- `PrefixScansExact`: `RadixSpec => []ScanExact`;
- `EdgesAreSearched`: the edges of a node in `index.fce` are an array that the searches of `IndexLookup` may begin in, and the edge which
  they find is the one that `FindChild` follows.

None of them is inductive: that a key is found at the end of a walk depends on what every earlier key left in the arrays. The
invariant `RInv` says that there *is* a labelling `w` of the nodes by words (`IsTree`): different nodes have
different words, an edge leads to a later node and appends its label to the word, and every node but the root is led to. It
holds also after a growth has failed. `AddEdge` extends `w` by one word (`TreeGrows`), all other steps keep it. On it rest:

- `Stored`: as long as no growth has failed, the bytes of the current key that have been read are the word of `node`, and the records
  already added are at the nodes of their keys. With `WalkEnds` (a walk along a path ends at the node whose
  word is the path, if there is one) this gives `GetExact`, and that validation accepts the file.
- `Frozen`: the edges of a node are the slice of the flattened array that `first` and `count` name (`LaidSlice`), so
  that the reader walks the tree which the builder made.
- `Pending` and `Collected`: the subtrees of the nodes on the stack are disjoint and lie under the prefix, and the matches
  are the records under the prefix that lie in none of them. A `Visit` replaces a subtree by those of its children, which cover what
  is left of it (`ChildrenCover`). Disjoint subtrees have different roots, so the stack is no longer than the array of nodes for which it
  was allocated (`PendingShort`).

### What cannot be proved here

Liveness under fairness (`CallsComplete`, `CallsReturn`, `CompactReturns`) needs ENABLED, is out of the prover's reach and is
checked by TLC. Of `CallsReturn`, the bounds on the number of steps are proved (`FreezesAreBounded`, `LookupIsLogarithmic`).
Induction with a predicate as parameter is out of reach too. Induction over
finite sets and over naturals stated with *sets* in the place of predicates is not, and `FiniteOrder` proves
what the other modules need from it: that a finite set has a least and a greatest element and an increasing enumeration.

Everything else that a passing run checks is a theorem: every invariant, the refinements and the action
properties. `CompactionExact` and `OutputWhole` are proved for caches without a key codec. The type
invariants of the hosted modules are conjuncts of `LookupCorrect`, `WithinBuffer`, `SchemaPersists`, `TableWithin`, `ScansExact`,
`StatsExact` and `ArenaSafe`, and those of `CacheStore` are one of `SoundOpens`.

## 6. Abstractions and what is left out

- A crash is the death of a process. Loss of power is not modelled: the code never
  calls `fsync`, so nothing would be guaranteed.
- `crc64_file` that cannot open its file is a fault of the writer (`ChecksumUnread`). In a reader it makes the
  validation refuse the files, which is one of the ways `LoadFiles` refuses.
- Byte layout, offsets and lengths inside the files are abstracted to elements, so
  that `range_ok` checks, which only a corrupted file can fail, never fail here.
- Key and value codecs are left out of `CacheStore`; `Compact` counts how often a key has been
  encoded, and `Codecs` says what a codec computes. zstd is an external library. Decoding is modelled on what encoding returned, so that the
  checks only foreign input can fail are left out.
- In `Compact` a reader's opening, a freeze and an append are each one step, which is what
  `CacheStore` shows of them. A log compacted into itself loses an append that commits between
  closing the reader and the freeze; no document speaks of it, so it is a hazard without a
  property.
- `Memory` models correct callers. `g_allocations` is a set: its order is never used.
  `fce_xcalloc` and `fce_xrealloc(NULL, n)` are `fce_xmalloc`, and `fce_xrealloc(p, 0)` is
  `fce_free`, as in the code.
- `Arena` takes an allocation for one step, as `AllocatorImplemented` shows it to be for its callers. Path strings of a reader after the first
  are blocks like the files that are read into memory.
- `Builder` leaves out the bytes of records and values; hash functions are constants (`BucketHash`, `SlotHash`), as in `IndexLookup`. Sorted, radix
  and log freezes are in `IndexLookup`, `Radix` and `CacheStore`.
- `Scans` takes the search of a direct or MPH index for granted, and what an iterator returns for the entry of the index. The
  radix branch of the prefix scan is in `Radix`.
- The hash of a schema is the schema itself: two schemas with the same hash do not exist.
- The Windows build (SRWLOCK, `LockFileEx`) is not modelled.
- CLI, Python binding, version, build and packaging have no state or
  concurrency of their own. Hash and CRC arithmetic are not modelled; the models
  need only that equal keys have equal hashes and that different contents have different checksums.

## 7. Plan

Every component with state of its own is modelled, and every safety property that a passing run checks is proved, as are the
seams between the modules: `CacheLockImplementsDirLock` and `CompactionsLock` meet in `DirLock`, `AllocatorImplemented` is what `Arena`
assumes, `EdgesAreSearched` and `BackendsAgree` join the searches to the arrays they run over. What would add most next is
`Compact` over two `CacheStore`s in place of two atomic directories.
