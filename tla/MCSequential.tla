---------------------------- MODULE MCSequential -----------------------------
(***************************************************************************)
(* The parts of a call that one thread runs on its own, in one run: a      *)
(* behaviour is one of a lookup, of the codecs, of a schema, of a builder  *)
(* or of iterators, while the other parts stay at rest.                    *)
(***************************************************************************)
EXTENDS IndexLookup, Codecs, Schema, Builder, Scans

VARIABLE part

-----------------------------------------------------------------------------
(* The small sets of each part. *)

\* Keys are numbers; 1 and 2 collide.
KeyHash == [k \in Key |-> IF k = 2 THEN 1 ELSE k]

\* The limits of 3-bit integers in all orders, and runs of up to 9, which their
\* run lengths and the header of their count do not hold.
SmallArrays ==
  BoundedSeq({-4, -1, 3}, 3)
    \cup {[i \in 1 .. n |-> v] : n \in 4 .. 9, v \in {-1, 0}}

\* Counts of 4 bits: 4 * 4 and 15 + 1 wrap around to 0.
SmallWishes ==
  [lookup : {"unset", "prefix", "range"}, key_kind : KeyKind \cup {"unset"},
   needs_online_append : BOOLEAN, prefers_prefix_scan : BOOLEAN,
   allow_mph : BOOLEAN, read_mostly : {TRUE},
   estimated_record_count : {1, 2, 4, 5}, dense_u64_max_key : {0, 4, 7, 8, 15}]

SmallSchemas ==
  {[fce_schema_default EXCEPT
      !.schema_version = v, !.backend = b, !.lookup = l, !.key_kind = k,
      !.key_codec = kc, !.value_codec = vc, !.fixed_key_size = size,
      !.user_flags = u, !.exact_key_check = x, !.allow_duplicate_put = ~x] :
    v \in {1, 2}, b \in {"sorted", "direct"}, l \in {"exact", "range"}, k \in {"bytes", "u64"},
    kc \in {"none", "rle"}, vc \in {"none", "delta_i32"}, size \in {0, 8},
    u \in {0, 3}, x \in BOOLEAN}

\* Words of 4 bits and slots of 2 bytes: 7 is the first key too large for a direct
\* table, the successor of 15 is 0; -1 has another length than 8 bytes.
SmallKeys == {-1, 0, 1, 7, 15}
SmallBucketHash(k) == (k + 1) \div 2
SmallSlotHash(k, s) == (k + 1) * s + (k + 1) \div 4

\* The empty key, a prefix of another key, and tables in any order.
ScanKeys == {<<>>, <<1>>, <<1, 1>>, <<2>>}

SmallTables ==
  {[backend |-> b, keyCodec |-> "none", valueCodec |-> vc, entries |-> e] :
     b \in {"sorted", "radix"}, vc \in {"none", "rle"},
     e \in {s \in BoundedSeq(ScanKeys \ {<<2>>}, 3) : IsInjective(s)}}
    \cup {[backend |-> b, keyCodec |-> "none", valueCodec |-> "rle",
            entries |-> <<<<2>>, <<1>>>>] : b \in {"mph", "log"}}
    \cup {[backend |-> "direct", keyCodec |-> "none", valueCodec |-> vc,
            entries |-> <<Hole, <<1>>, Hole, <<2>>>>] : vc \in {"none", "rle"}}
    \cup {[backend |-> "sorted", keyCodec |-> "rle", valueCodec |-> "rle",
            entries |-> <<<<2>>, <<1>>>>]}

-----------------------------------------------------------------------------
(* One part at a time. *)

hostVars == <<part, lookupVars, codecVars, schemaVars, builderVars, scanVars>>

\* A lookup in an empty array has returned.
LookupAtRest ==
  /\ kind = "sorted" /\ count = 0 /\ index = <<>> /\ probe = 0
  /\ pc = "done" /\ lo = 0 /\ hi = 0 /\ pos = 0 /\ best = NotFound

HostInit ==
  /\ part \in {"lookup", "codecs", "schema", "builder", "scans"}
  /\ IF part = "lookup" THEN LookupInit ELSE LookupAtRest
  /\ CodecInit /\ SchemaInit /\ BuilderInit /\ ScanInit

Looks ==
  /\ part = "lookup" /\ LookupNext
  /\ UNCHANGED <<part, codecVars, schemaVars, builderVars, scanVars>>

Codes ==
  /\ part = "codecs" /\ CodecNext
  /\ UNCHANGED <<part, lookupVars, schemaVars, builderVars, scanVars>>

Describes ==
  /\ part = "schema" /\ SchemaNext
  /\ UNCHANGED <<part, lookupVars, codecVars, builderVars, scanVars>>

Builds ==
  /\ part = "builder" /\ BuilderNext
  /\ UNCHANGED <<part, lookupVars, codecVars, schemaVars, scanVars>>

Freezes ==
  /\ part = "builder" /\ FreezeStep
  /\ UNCHANGED <<part, lookupVars, codecVars, schemaVars, scanVars>>

Iterates ==
  /\ part = "scans" /\ ScanNext
  /\ UNCHANGED <<part, lookupVars, codecVars, schemaVars, builderVars>>

HostNext == Looks \/ Codes \/ Describes \/ Builds \/ Iterates

\* The thread goes on with a lookup, and with a freeze.
HostSpec ==
  HostInit /\ [][HostNext]_hostVars /\ WF_hostVars(Looks) /\ WF_hostVars(Freezes)

\* Every lookup returns, and every freeze of a builder: both run under the lock of
\* a reader or of a writer.
CallsReturn == LookupReturns /\ FreezeReturns
=============================================================================
