-------------------------------- MODULE Schema --------------------------------
(***************************************************************************)
(* The way of a schema: planned or written by the application, validated   *)
(* by fce_builder_open, frozen into a manifest, read back, and handed on   *)
(* by fce_compact with another backend, any number of times.               *)
(*                                                                         *)
(* A schema is a function on its fields; its hash is the schema itself,    *)
(* as a struct without padding is hashed whole.                            *)
(***************************************************************************)
EXTENDS Integers

CONSTANTS
  Counts,      \* how many counts the planner's words hold, 2^64 in the code
  UserFlags,   \* how many values user_flags has, 2^32 in the code
  MphMinimum,  \* 1024 in the code
  Wishes,      \* planner inputs
  Schemas      \* schemas written by the application

VARIABLES
  stage,     \* what was done last
  wish,      \* the planner input that `schema' was planned from, or Unplanned
  schema,    \* the schema in the program's hands
  built,     \* the schema the application has asked for, with the latest backend
  manifest   \* the manifest of the cache

schemaVars == <<stage, wish, schema, built, manifest>>

BackendKind == {"sorted", "radix", "direct", "mph", "log"}
LookupKind == {"exact", "prefix", "range"}
KeyKind == {"bytes", "int_tuple", "u64", "u128", "sequence"}
ValueKind == {"bytes", "fixed", "var"}
PassThrough == {"none", "user_bytes"}
CodecKind == PassThrough \cup {"delta_i32", "rle", "bitpack", "zstd"}

Booleans == {"exact_key_check", "mmap_read", "read_only_after_freeze", "allow_duplicate_put"}

\* The fields that have a field of their own in the manifest.
Carried ==
  {"schema_version", "algorithm_version", "backend", "lookup", "key_kind", "value_kind",
   "key_codec", "value_codec", "fixed_key_size", "fixed_value_size", "direct_table_key_bits"}

SchemaField == Carried \cup Booleans \cup {"user_flags"}

\* The struct FceSchema: its flags are booleans, and user_flags an unsigned word.
FceSchema(s) ==
  /\ s = [f \in SchemaField |-> s[f]]
  /\ \A b \in Booleans : s[b] \in BOOLEAN
  /\ s.user_flags \in 0 .. UserFlags - 1

FcePlannerInput ==
  [lookup : LookupKind \cup {"unset"}, key_kind : KeyKind \cup {"unset"},
   needs_online_append : BOOLEAN, prefers_prefix_scan : BOOLEAN,
   allow_mph : BOOLEAN, read_mostly : BOOLEAN,
   estimated_record_count : 0 .. Counts - 1, dense_u64_max_key : 0 .. Counts - 1]

ASSUME SchemaConstants ==
  /\ {Counts, UserFlags, MphMinimum} \subseteq Nat \ {0}
  /\ Wishes \subseteq FcePlannerInput
  /\ \A s \in Schemas : FceSchema(s)

fce_schema_default ==
  [f \in SchemaField |->
     CASE f \in {"schema_version", "algorithm_version"} -> 1
       [] f = "backend" -> "sorted"
       [] f = "lookup" -> "exact"
       [] f = "key_kind" -> "bytes"
       [] f = "value_kind" -> "var"
       [] f \in {"key_codec", "value_codec"} -> "none"
       [] f \in Booleans -> f # "allow_duplicate_put"
       [] OTHER -> 0]

Unplanned == [lookup |-> "unset"]
NoManifest == [schema_hash |-> fce_schema_default]

SchemaInit ==
  /\ stage = "idle" /\ wish = Unplanned
  /\ schema = fce_schema_default /\ built = fce_schema_default
  /\ manifest = NoManifest

\* validate_schema accepts s.
ValidSchema(s) ==
  /\ s.backend \in BackendKind /\ s.lookup \in LookupKind
  /\ s.key_kind \in KeyKind /\ s.value_kind \in ValueKind
  /\ {s.key_codec, s.value_codec} \subseteq CodecKind
  /\ s.value_kind = "fixed" => s.fixed_value_size # 0
  /\ s.key_kind = "u64" => s.fixed_key_size \in {0, 8}
  /\ s.key_kind = "u128" => s.fixed_key_size \in {0, 16}
  /\ s.backend = "direct" => s.key_kind = "u64"
  /\ s.backend \in {"direct", "radix"} \/ s.lookup \in {"prefix", "range"} =>
       s.key_codec \in PassThrough

-----------------------------------------------------------------------------
(* fce_schema_plan *)

WrapCount(n) == n % Counts

DenseLoose(w) ==     \* mutant: one key more than four per record
  /\ w.key_kind = "u64" /\ w.dense_u64_max_key # 0 /\ w.estimated_record_count # 0
  /\ w.dense_u64_max_key <= WrapCount(4 * w.estimated_record_count)

Dense(w) ==
  /\ w.key_kind = "u64" /\ w.dense_u64_max_key # 0 /\ w.estimated_record_count # 0
  /\ WrapCount(w.dense_u64_max_key + 1) <= WrapCount(4 * w.estimated_record_count)

Scanned(w) ==
  w.prefers_prefix_scan \/ w.lookup = "prefix" \/ w.key_kind = "sequence"

ReadMostly(w) == w.allow_mph /\ w.read_mostly

PlannedBackend(w) ==
  CASE w.needs_online_append -> "log"
    [] ~w.needs_online_append /\ Scanned(w) -> "radix"
    [] ~w.needs_online_append /\ ~Scanned(w) /\ Dense(w) -> "direct"
    [] OTHER -> IF ReadMostly(w) /\ (w.key_kind = "u128" \/ w.estimated_record_count >= MphMinimum)
                  THEN "mph" ELSE "sorted"

\* The fields of the schema planned for w that are not the default ones.
Planned(w) ==
  LET backend == PlannedBackend(w) IN
  [fce_schema_default EXCEPT
     !.backend = backend,
     !.lookup = CASE backend = "radix" -> "prefix"
                  [] w.lookup = "unset" -> "exact"
                  [] OTHER -> w.lookup,
     !.key_kind = IF w.key_kind = "unset" THEN "bytes" ELSE w.key_kind,
     !.fixed_key_size = CASE backend = "direct" -> 8
                          [] backend \in {"mph", "sorted"} /\ w.key_kind = "u128" -> 16
                          [] OTHER -> 0,
     !.allow_duplicate_put = backend = "log"]

\* fce_schema_plan ends with validate_schema.
Plan(w) ==
  /\ stage = "idle"
  /\ wish' = w /\ schema' = Planned(w) /\ built' = schema'
  /\ stage' = IF ValidSchema(schema') THEN "described" ELSE "not planned"
  /\ UNCHANGED manifest

Describe(s) ==
  /\ stage = "idle"
  /\ schema' = s /\ built' = s /\ stage' = "described"
  /\ UNCHANGED <<wish, manifest>>

-----------------------------------------------------------------------------
(* Builder, manifest, reader and compaction. *)

\* fce_builder_open
OpenBuilder ==
  /\ stage = "described"
  /\ stage' = IF ValidSchema(schema) THEN "building" ELSE "refused"
  /\ wish' = Unplanned
  /\ UNCHANGED <<schema, built, manifest>>

\* The booleans are the bits above the user flags.
MetaBit(b) ==
  UserFlags * CASE b = "exact_key_check"        -> 1
                [] b = "mmap_read"              -> 2
                [] b = "read_only_after_freeze" -> 4
                [] b = "allow_duplicate_put"    -> 8

MetaFlag(s, b) == IF s[b] THEN MetaBit(b) ELSE 0

make_manifest(s) ==
  [fields |-> [f \in Carried |-> s[f]],
   backend_meta1 |-> s.user_flags + MetaFlag(s, "exact_key_check") + MetaFlag(s, "mmap_read")
                       + MetaFlag(s, "read_only_after_freeze") + MetaFlag(s, "allow_duplicate_put"),
   schema_hash |-> s]

FreezeManifest ==
  /\ stage = "building"
  /\ manifest' = make_manifest(schema) /\ stage' = "frozen"
  /\ UNCHANGED <<wish, schema, built>>

schema_from_manifest_raw(m) ==   \* mutant: the booleans stay among the user flags
  [f \in SchemaField |->
     CASE f \in Carried  -> m.fields[f]
       [] f \in Booleans -> (m.backend_meta1 \div MetaBit(f)) % 2 = 1
       [] f = "user_flags" -> m.backend_meta1]

schema_from_manifest(m) ==
  [f \in SchemaField |->
     CASE f \in Carried  -> m.fields[f]
       [] f \in Booleans -> (m.backend_meta1 \div MetaBit(f)) % 2 = 1
       [] f = "user_flags" -> m.backend_meta1 % UserFlags]

\* fce_reader_open_expected: read_manifest, then the hash of the expected schema,
\* which is the application's or none.
ReopenCache(expected) ==
  /\ stage = "frozen"
  /\ LET s == schema_from_manifest(manifest) IN
       IF /\ s.schema_version = 1 /\ s.algorithm_version = 1 /\ ValidSchema(s)
          /\ expected # {} => expected = {manifest.schema_hash}
       THEN stage' = "read" /\ schema' = s
       ELSE stage' = "not read" /\ UNCHANGED schema
  /\ UNCHANGED <<wish, built, manifest>>

\* fce_compact takes the schema of its reader, and opens a builder with it.
CompactTo(backend) ==
  /\ stage = "read"
  /\ schema' = [schema EXCEPT !.backend = backend]
  /\ built' = [built EXCEPT !.backend = backend]
  /\ stage' = "described"
  /\ UNCHANGED <<wish, manifest>>

SchemaNext ==
  \/ \E w \in Wishes : Plan(w)
  \/ \E s \in Schemas : Describe(s)
  \/ OpenBuilder \/ FreezeManifest
  \/ \E expected \in {{}, {built}} : ReopenCache(expected)
  \/ \E backend \in BackendKind \cup {"unknown"} : CompactTo(backend)

SchemaSpec == SchemaInit /\ [][SchemaNext]_schemaVars

-----------------------------------------------------------------------------
SchemaTypeOK ==
  /\ stage \in {"idle", "described", "not planned", "refused", "building", "frozen",
               "read", "not read"}
  /\ DOMAIN schema = SchemaField /\ DOMAIN built = SchemaField
  /\ stage \in {"building", "frozen"} => ValidSchema(schema)

\* What is read back from a manifest, over any chain of compactions, is what the
\* application asked for with the backend last chosen: no flag, size or codec
\* leaks into another field ("keep fixed-record constraints after reopening",
\* docs/API.md:525).
SchemaSurvives == stage \in {"read", "building", "frozen"} => schema = built

\* A cache that a builder could be opened for is also opened again, with and
\* without the application's schema as the expected one; only a version other than
\* 1, which validate_schema lets pass, is refused by read_manifest.
FrozenOpens ==
  stage = "not read" => built.schema_version # 1 \/ built.algorithm_version # 1

\* What is written can be read back, and is what was written; a builder is opened
\* only for what validate_schema accepts.
SchemaPersists == SchemaTypeOK /\ SchemaSurvives /\ FrozenOpens

\* The planner's own schema is accepted.  It chooses a direct table for no more
\* than four keys per record, unless the greatest key is the greatest there is,
\* whose successor wraps around to 0.
PlannerSound ==
  /\ stage # "not planned"
  /\ wish # Unplanned /\ schema.backend = "direct" =>
       \/ wish.dense_u64_max_key < 4 * wish.estimated_record_count
       \/ wish.dense_u64_max_key = Counts - 1

==============================================================================
