------------------------------- MODULE Builder --------------------------------
(***************************************************************************)
(* A builder from fce_builder_open to fce_builder_close, with the freezes  *)
(* into a direct table and into a minimal perfect hash table, and what a   *)
(* reader finds in the table.  (Sorted, radix and log: IndexLookup, Radix. *)
(* The files the tables go to: CacheStore.)                                *)
(*                                                                         *)
(* Keys of 8 bytes are their numbers; negative numbers are keys of another *)
(* length.  The value of a record is named by the record's `order'.        *)
(***************************************************************************)
EXTENDS Integers, SequencesExt

CONSTANTS
  BuilderKey,       \* the keys that are put and looked up
  Words,            \* 2^64 in the code: of integers and of sizes
  SlotSize,         \* sizeof(DirectSlot)
  FirstCap,         \* 64 in the code
  MaxSeed,          \* 1000000 in the code
  MaxPuts,          \* bound: records put
  BucketHash(_),    \* h.hi of a key
  SlotHash(_, _)    \* mph_mix64(fnv1a64(key, seed))

ASSUME BuilderConstants ==
  /\ {Words, SlotSize, FirstCap, MaxSeed} \subseteq Nat \ {0}
  /\ BuilderKey \subseteq Int
  /\ \A k \in BuilderKey : k < Words /\ BucketHash(k) \in Nat
  /\ \A k \in BuilderKey, s \in 1 .. MaxSeed : SlotHash(k, s) \in Nat

VARIABLES
  config,    \* the schema: backend, fixedKey, duplicates, sparse, collide
  phase,     \* where fce_builder_freeze is; "put" outside of it
  records, cap,   \* b->records: keys in the order of the puts
  dedup,     \* the deduplicated records, by their orders
  slotCount, \* the slots allocated for a direct table
  slots,     \* slot -> order, for slots with `present' set
  seeds,     \* bucket -> seed, 0 if it is empty
  seed       \* the seed tried

builderVars == <<config, phase, records, cap, dedup, slotCount, slots, seeds, seed>>
freezeVars == <<dedup, slotCount, slots, seeds, seed>>

Config ==
  [backend : {"direct", "mph"}, fixedKey : BOOLEAN, duplicates : BOOLEAN,
   sparse : BOOLEAN, collide : BOOLEAN]

NoTable == <<>>

BuilderInit ==
  /\ config = [backend |-> "direct", fixedKey |-> FALSE, duplicates |-> FALSE,
                sparse |-> FALSE, collide |-> FALSE]
  /\ phase = "closed"
  /\ records = <<>> /\ cap = 0
  /\ dedup = {} /\ slotCount = 0 /\ slots = NoTable /\ seeds = NoTable /\ seed = 1

Is8Bytes(k) == k >= 0

KeyOf(order) == records[order]

\* The arrays of a freeze are freed, whichever way it ends.
Reset ==
  /\ dedup' = {} /\ slotCount' = 0 /\ slots' = NoTable /\ seeds' = NoTable /\ seed' = 1

-----------------------------------------------------------------------------
(* fce_builder_open, fce_builder_put, fce_builder_close *)

OpenTableBuilder(c) ==
  /\ phase = "closed"
  /\ config' = c /\ phase' = "put"
  /\ UNCHANGED <<records, cap, freezeVars>>

\* builder_grow
Grown ==
  CASE Len(records) < cap -> cap
    [] cap = 0 -> FirstCap
    [] OTHER   -> 2 * cap

Accepted(k) == phase = "put" /\ (config.fixedKey => Is8Bytes(k))

\* A bulk put is a row of puts that ends with the first one that fails.
Put(k) ==
  /\ Accepted(k) /\ Len(records) < MaxPuts
  /\ cap' = Grown /\ records' = Append(records, k)
  /\ UNCHANGED <<config, phase, freezeVars>>

\* A codec or the arena fails after the array has grown.
PutFails(k) ==
  /\ Accepted(k) /\ Len(records) < MaxPuts
  /\ cap' = Grown
  /\ UNCHANGED <<config, phase, records, freezeVars>>

CloseBuilder ==
  /\ phase \in {"put", "frozen"}
  /\ phase' = "closed" /\ records' = <<>> /\ cap' = 0
  /\ Reset
  /\ UNCHANGED config

-----------------------------------------------------------------------------
(* fce_builder_freeze.  A freeze that fails leaves the builder as it was. *)

GiveUp ==
  /\ phase' = "put" /\ Reset
  /\ UNCHANGED <<config, records, cap>>

Same(i, j) == KeyOf(i) = KeyOf(j)

\* dedupe_records: the latest record of each key.  Neither table depends on the
\* order in which they are taken.
Deduped == {i \in DOMAIN records : ~ \E j \in i + 1 .. Len(records) : Same(i, j)}

Repeated == \E i, j \in DOMAIN records : i # j /\ Same(i, j)

FreezeCalled ==
  /\ phase = "put"
  /\ ~Repeated \/ config.duplicates
  /\ phase' = config.backend /\ dedup' = Deduped
  /\ UNCHANGED <<config, records, cap, slotCount, slots, seeds, seed>>

\* Memory or a write fails, or the lock before anything.
FreezeFails == phase \in {"direct", "fill", "mph", "place"} /\ GiveUp

Count == Cardinality(dedup)
MaxKey == Max({0} \cup {KeyOf(o) : o \in dedup})

(* freeze_direct *)

WrongLength == \E o \in dedup : ~Is8Bytes(KeyOf(o))

\* max_key + 1 wraps around.
TooSparse == Count > 0 /\ (MaxKey + 1) % Words > 4 * Count /\ ~config.sparse

TooLargeByOne == MaxKey > (Words - 1) \div SlotSize    \* mutant: one slot too many

TooLarge == MaxKey > ((Words - 1) \div SlotSize) - 1

DirectRefused == phase = "direct" /\ (WrongLength \/ TooSparse \/ TooLarge) /\ GiveUp

DirectAllocate ==
  /\ phase = "direct" /\ ~WrongLength /\ ~TooSparse /\ ~TooLarge
  /\ slotCount' = (MaxKey + 1) % Words
  /\ phase' = "fill"
  /\ UNCHANGED <<config, records, cap, dedup, slots, seeds, seed>>

DirectFill ==
  /\ phase = "fill"
  /\ slots' = [k \in {KeyOf(o) : o \in dedup} |-> CHOOSE o \in dedup : KeyOf(o) = k]
  /\ phase' = "frozen"
  /\ UNCHANGED <<config, records, cap, dedup, slotCount, seeds, seed>>

(* freeze_mph *)

BucketOf(k) == (IF config.collide THEN 0 ELSE BucketHash(k)) % Count
ItemsOf(b) == {o \in dedup : BucketOf(KeyOf(o)) = b}

Larger(b, c) ==
  LET m == Cardinality(ItemsOf(b))
      n == Cardinality(ItemsOf(c))
  IN m > n \/ (m = n /\ b < c)

MphStart ==
  /\ phase = "mph"
  /\ seeds' = [b \in 0 .. Count - 1 |-> 0]
  /\ phase' = "place"
  /\ UNCHANGED <<config, records, cap, dedup, slotCount, slots, seed>>

SlotFor(o, s) == SlotHash(KeyOf(o), s) % Count

FitsUnused(b, s) ==   \* mutant: the records of a bucket are not compared with each other
  \A o \in ItemsOf(b) : SlotFor(o, s) \notin DOMAIN slots

Fits(b, s) ==
  /\ \A o \in ItemsOf(b) : SlotFor(o, s) \notin DOMAIN slots
  /\ \A o, p \in ItemsOf(b) : o # p => SlotFor(o, s) # SlotFor(p, s)

\* The buckets with records that have no seed yet; the largest is next.
Unplaced == {b \in 0 .. Count - 1 : ItemsOf(b) # {} /\ seeds[b] = 0}
Placing(b) ==
  /\ phase = "place" /\ seed < MaxSeed
  /\ b \in Unplaced /\ \A c \in Unplaced \ {b} : Larger(b, c)

PlaceBucket(b) ==
  /\ Placing(b) /\ Fits(b, seed)
  /\ seeds' = [seeds EXCEPT ![b] = seed]
  /\ LET taken == {SlotFor(o, seed) : o \in ItemsOf(b)} IN
       slots' = [s \in DOMAIN slots \cup taken |->
                   IF s \in taken THEN CHOOSE o \in ItemsOf(b) : SlotFor(o, seed) = s
                   ELSE slots[s]]
  /\ seed' = 1
  /\ UNCHANGED <<config, phase, records, cap, dedup, slotCount>>

NextSeedWraps == seed' = (seed + 1) % MaxSeed    \* mutant: the counter of seeds is too narrow
NextSeed == seed' = seed + 1

SeedFails(b) ==
  /\ Placing(b) /\ ~Fits(b, seed)
  /\ NextSeed
  /\ UNCHANGED <<config, phase, records, cap, dedup, slotCount, slots, seeds>>

\* FCE_ERR_UNSUPPORTED
SeedsExhausted == phase = "place" /\ seed = MaxSeed /\ GiveUp

MphWritten ==
  /\ phase = "place" /\ Unplaced = {}
  /\ phase' = "frozen"
  /\ UNCHANGED <<config, records, cap, freezeVars>>

FreezeStep ==
  \/ DirectRefused \/ DirectAllocate \/ DirectFill
  \/ MphStart \/ SeedsExhausted \/ MphWritten
  \/ \E b \in 0 .. Count - 1 : PlaceBucket(b) \/ SeedFails(b)

BuilderNext ==
  \/ \E c \in Config : OpenTableBuilder(c)
  \/ \E k \in BuilderKey : Put(k) \/ PutFails(k)
  \/ CloseBuilder \/ FreezeCalled \/ FreezeFails \/ FreezeStep

\* A freeze that has been called goes on; nothing says that it will fail.
BuilderSpec ==
  BuilderInit /\ [][BuilderNext]_builderVars /\ WF_builderVars(FreezeStep)

-----------------------------------------------------------------------------
(* A reader of the table. *)

NoRecord == 0

GetDirect(k) == IF k \in DOMAIN slots /\ k < slotCount THEN slots[k] ELSE NoRecord

\* An empty bucket has no seed.  The slot may hold a record of another key.
GetMph(k) ==
  IF Count = 0 \/ seeds[BucketOf(k)] = 0 THEN NoRecord
  ELSE LET s == SlotHash(k, seeds[BucketOf(k)]) % Count IN
       IF s \in DOMAIN slots /\ KeyOf(slots[s]) = k THEN slots[s] ELSE NoRecord

GetTable(k) == IF config.backend = "direct" THEN GetDirect(k) ELSE GetMph(k)

\* validate_reader_files counts the slots that are present.
TableValid == Cardinality(DOMAIN slots) = Count

BuilderTypeOK ==
  /\ config \in Config
  /\ phase \in {"closed", "put", "direct", "fill", "mph", "place", "frozen"}
  /\ ToSet(records) \subseteq BuilderKey /\ cap \in Nat
  /\ dedup \subseteq DOMAIN records
  /\ slotCount \in 0 .. Words - 1 /\ seed \in 1 .. MaxSeed
  /\ \A s \in DOMAIN slots : slots[s] \in dedup

\* After a freeze that returned FCE_OK, whatever puts and freezes of the builder
\* failed before it, the table passes the reader's validation and each key is
\* found with the value put last; no other key is found.
FrozenExact ==
  phase = "frozen" =>
    /\ TableValid
    /\ \A k \in BuilderKey :
         GetTable(k) = Max({NoRecord} \cup {i \in DOMAIN records : records[i] = k})

\* The array of records and the direct table are not written past their ends,
\* though the number of slots and their size in bytes wrap around.
TableWithin ==
  /\ BuilderTypeOK
  /\ Len(records) <= cap
  /\ phase = "fill" =>
       /\ slotCount * SlotSize < Words
       /\ \A o \in dedup : KeyOf(o) \in 0 .. slotCount - 1

\* The steps that a freeze still has at most: each bucket gets a seed, or has used
\* up all of them.
StepsLeft ==
  CASE phase = "direct" -> 2
    [] phase = "fill"   -> 1
    [] phase = "mph"    -> (Count + 1) * MaxSeed + 1
    [] phase = "place"  -> Cardinality(Unplaced) * MaxSeed + MaxSeed - seed + 1
    [] OTHER            -> 0

\* A freeze holds the cache's lock no longer than for (Count + 1) * MaxSeed + 1 steps,
\* whatever the hashes of the keys are, and has a bucket to go on with until then:
\* while there are buckets without a seed, one of them is the largest.
FreezeBounded ==
  /\ [](phase = "place" =>
          Unplaced = {} \/ seed = MaxSeed \/ \E b \in Unplaced : Placing(b))
  /\ [][phase \notin {"closed", "put", "frozen"} => StepsLeft' \in 0 .. StepsLeft - 1]_builderVars

\* The search for seeds ends, and with it the freeze that holds the cache's lock.
FreezeReturns == phase \notin {"closed", "put", "frozen"} ~> phase \in {"put", "frozen"}

===============================================================================
