------------------------------- MODULE Radix --------------------------------
(***************************************************************************)
(* The radix backend: freeze_radix builds a trie of the keys in growing    *)
(* arrays, any growth of which may fail, and lays it out as the arrays of  *)
(* index.fce; opening validates them; get_radix and fce_reader_prefix_scan *)
(* walk them.                                                              *)
(*                                                                         *)
(* Nodes, edges and records are numbered from 1, so that 0 says "none".    *)
(* The files around the trie are those of CacheStore.                      *)
(***************************************************************************)
EXTENDS Integers, Sequences, FiniteSets, SequencesExt

CONSTANTS
  Label,        \* bytes
  MaxLen,       \* bound: length of a key or a prefix
  MaxKeys,      \* bound: number of keys
  EdgeCap,      \* the first capacity of an edge array (4 in the code)
  NodeCap,      \* the first capacity of the node array (64 in the code)
  AllocFails    \* whether fce_xrealloc may return NULL

ASSUME RadixConstants ==
  /\ Label \subseteq 0 .. 255
  /\ MaxLen \in Nat /\ MaxKeys \in Nat
  /\ EdgeCap \in Nat \ {0} /\ NodeCap \in Nat \ {0}
  /\ AllocFails \in BOOLEAN

VARIABLES
  keys,                 \* the records, in the order of dedupe_records
  nodes, nodeCap,       \* tmp_nodes, node_cap
  i, j, node,           \* freeze_radix: record, byte, node reached
  st,                   \* freeze_radix: the status
  index,                \* index.fce
  pc,
  prefix, stack, matches, \* fce_reader_prefix_scan
  grown                 \* history: no growth of an array has failed

buildVars == <<nodes, nodeCap, i, j, node, st>>
scanVars == <<prefix, stack, matches>>
radixVars == <<keys, index, pc, buildVars, scanVars, grown>>

None == 0
Root == 1
Keyspace == BoundedSeq(Label, MaxLen)

NewNode == [edges |-> <<>>, cap |-> 0, value |-> None]

RadixInit ==
  /\ keys \in {s \in BoundedSeq(Keyspace, MaxKeys) : IsInjective(s)}
  /\ nodes = <<NewNode>> /\ nodeCap = NodeCap
  /\ i = 1 /\ j = 1 /\ node = Root
  /\ st = "FCE_OK"
  /\ index = [nodes |-> <<>>, edges |-> <<>>]
  /\ pc = "build"
  /\ prefix = <<>> /\ stack = <<>> /\ matches = <<>>
  /\ grown = TRUE

-----------------------------------------------------------------------------
(* freeze_radix: one byte of one key at a time.                            *)

AtByte == pc = "build" /\ i <= Len(keys) /\ j <= Len(keys[i])
Byte == keys[i][j]
Edges == nodes[node].edges

Child(edges, label) == {e.child : e \in {x \in ToSet(edges) : x.label = label}}

EdgesFull == Len(Edges) >= nodes[node].cap
NodesFull == Len(nodes) >= nodeCap
Grown(cap, first) == IF cap = 0 THEN first ELSE 2 * cap
EdgeCapThen == IF EdgesFull THEN Grown(nodes[node].cap, EdgeCap) ELSE nodes[node].cap

\* radix_find_or_add_edge finds the edge.
FollowEdge ==
  /\ AtByte
  /\ node' \in Child(Edges, Byte)
  /\ st' = "FCE_OK" /\ j' = j + 1
  /\ UNCHANGED <<keys, nodes, nodeCap, i, index, pc, scanVars, grown>>

\* The place of the first edge whose label is not smaller, or the end.
FirstNotBelow(edges, label) ==
  Min({p \in 1 .. Len(edges) + 1 : p <= Len(edges) => edges[p].label >= label})

\* It adds the edge, before the first one with a greater label, and a node.
AddEdgeLast ==    \* mutant: the edge goes behind the others
  /\ AtByte /\ Child(Edges, Byte) = {}
  /\ nodes' = Append([nodes EXCEPT ![node].edges =
                         Append(Edges, [label |-> Byte, child |-> Len(nodes) + 1]),
                       ![node].cap = EdgeCapThen], NewNode)
  /\ nodeCap' = IF NodesFull THEN Grown(nodeCap, NodeCap) ELSE nodeCap
  /\ node' = Len(nodes) + 1
  /\ st' = "FCE_OK" /\ j' = j + 1
  /\ UNCHANGED <<keys, i, index, pc, scanVars, grown>>

AddEdgeToRoot ==  \* mutant: the edge keeps the child 0 it was declared with
  /\ AtByte /\ Child(Edges, Byte) = {}
  /\ nodes' = Append([nodes EXCEPT ![node].edges =
                         Append(Edges, [label |-> Byte, child |-> Root]),
                       ![node].cap = EdgeCapThen], NewNode)
  /\ nodeCap' = IF NodesFull THEN Grown(nodeCap, NodeCap) ELSE nodeCap
  /\ node' = Root
  /\ st' = "FCE_OK" /\ j' = j + 1
  /\ UNCHANGED <<keys, i, index, pc, scanVars, grown>>

AddEdge ==
  /\ AtByte /\ Child(Edges, Byte) = {}
  /\ LET pos == FirstNotBelow(Edges, Byte)
         child == Len(nodes) + 1
     IN /\ nodes' = Append([nodes EXCEPT
                       ![node].edges = InsertAt(Edges, pos, [label |-> Byte, child |-> child]),
                       ![node].cap = EdgeCapThen], NewNode)
        /\ node' = child
  /\ nodeCap' = IF NodesFull THEN Grown(nodeCap, NodeCap) ELSE nodeCap
  /\ st' = "FCE_OK" /\ j' = j + 1
  /\ UNCHANGED <<keys, i, index, pc, scanVars, grown>>

\* An array cannot grow.  The loop over the bytes goes on, from the same node:
\* only the loop over the records looks at st.
GrowthFails ==
  /\ AtByte /\ Child(Edges, Byte) = {} /\ AllocFails
  /\ \/ EdgesFull /\ UNCHANGED nodes
     \/ NodesFull /\ nodes' = [nodes EXCEPT ![node].cap = EdgeCapThen]
  /\ st' = "FCE_ERR_OUT_OF_MEMORY" /\ j' = j + 1
  /\ grown' = FALSE
  /\ UNCHANGED <<keys, nodeCap, i, node, index, pc, scanVars>>

\* The bytes of a key are used up.
EndOfKey ==
  /\ pc = "build" /\ i <= Len(keys) /\ j > Len(keys[i])
  /\ nodes' = IF st = "FCE_OK" THEN [nodes EXCEPT ![node].value = i] ELSE nodes
  /\ pc' = IF st = "FCE_OK" THEN pc ELSE "failed"
  /\ i' = i + 1 /\ j' = 1 /\ node' = Root
  /\ UNCHANGED <<keys, nodeCap, st, index, scanVars, grown>>

\* The arrays of index.fce: the edges of all nodes, one node after the other.
EdgeCount(n) == Len(nodes[n].edges)
Laid[n \in 0 .. Len(nodes)] == IF n = 0 THEN <<>> ELSE Laid[n - 1] \o nodes[n].edges

Freeze ==
  /\ pc = "build" /\ i > Len(keys)
  /\ index' = [nodes |-> [n \in DOMAIN nodes |->
                  [first |-> Len(Laid[n - 1]) + 1, count |-> EdgeCount(n), value |-> nodes[n].value]],
               edges |-> Laid[Len(nodes)]]
  /\ pc' = "frozen"
  /\ UNCHANGED <<keys, buildVars, scanVars, grown>>

-----------------------------------------------------------------------------
(* The reader. *)

EdgesOf(n) == SubSeq(index.edges, index.nodes[n].first,
                     index.nodes[n].first + index.nodes[n].count - 1)

\* validate_reader_files
Valid ==
  /\ \A n \in DOMAIN index.nodes :
       /\ index.nodes[n].first - 1 + index.nodes[n].count <= Len(index.edges)
       /\ index.nodes[n].value <= Len(keys)
       /\ \A e \in DOMAIN EdgesOf(n) :
            /\ EdgesOf(n)[e].child <= Len(index.nodes)
            /\ e > 1 => EdgesOf(n)[e].label > EdgesOf(n)[e - 1].label
  /\ Cardinality({n \in DOMAIN index.nodes : index.nodes[n].value # None}) = Len(keys)

Open ==
  /\ pc = "frozen"
  /\ pc' = IF Valid THEN "open" ELSE "refused"
  /\ UNCHANGED <<keys, index, buildVars, scanVars, grown>>

\* radix_find_child: the search finds the first edge not below the label.
FindChild(n, label) ==
  LET lo == FirstNotBelow(EdgesOf(n), label)
  IN IF lo <= Len(EdgesOf(n)) /\ EdgesOf(n)[lo].label = label
       THEN EdgesOf(n)[lo].child ELSE None

\* The node at the end of a path from the root.
Walk(path) ==
  LET at[k \in 0 .. Len(path)] ==
        IF k = 0 THEN Root
        ELSE IF at[k - 1] = None THEN None ELSE FindChild(at[k - 1], path[k])
  IN at[Len(path)]

\* get_radix: a record with another key at that node is no match.
Get(key) ==
  LET value == IF Walk(key) = None THEN None ELSE index.nodes[Walk(key)].value
  IN IF value # None /\ keys[value] = key THEN value ELSE None

StackSizeRecords == Len(keys)   \* mutant: as many entries as records
StackSize == Len(index.nodes)

\* fce_reader_prefix_scan: nothing to scan if the prefix leads nowhere.
ScanStartAnywhere ==    \* mutant: it scans from the root then
  /\ pc = "open"
  /\ prefix' \in Keyspace
  /\ pc' = "scan"
  /\ stack' = IF Walk(prefix') = None THEN <<Root>> ELSE <<Walk(prefix')>>
  /\ UNCHANGED <<keys, index, buildVars, matches, grown>>

ScanStart ==
  /\ pc = "open"
  /\ prefix' \in Keyspace
  /\ pc' = "scan"
  /\ stack' = IF Walk(prefix') = None THEN <<>> ELSE <<Walk(prefix')>>
  /\ UNCHANGED <<keys, index, buildVars, matches, grown>>

\* One node is popped and its children are pushed.
Visit ==
  /\ pc = "scan" /\ stack # <<>>
  /\ LET cur == Last(stack)
         value == index.nodes[cur].value
     IN /\ matches' = IF value = None THEN matches ELSE Append(matches, value)
        /\ stack' = Front(stack) \o [e \in DOMAIN EdgesOf(cur) |-> EdgesOf(cur)[e].child]
  /\ UNCHANGED <<keys, index, pc, buildVars, prefix, grown>>

ScanEnds ==
  /\ pc = "scan" /\ stack = <<>>
  /\ pc' = "scanned"
  /\ UNCHANGED <<keys, index, buildVars, scanVars, grown>>

RadixNext ==
  \/ FollowEdge \/ AddEdge \/ GrowthFails \/ EndOfKey \/ Freeze
  \/ Open \/ ScanStart \/ Visit \/ ScanEnds

RadixSpec == RadixInit /\ [][RadixNext]_radixVars

-----------------------------------------------------------------------------
Edge == [label : Label, child : 1 .. Len(nodes)]

RadixTypeOK ==
  /\ Len(keys) <= MaxKeys /\ ToSet(keys) \subseteq Keyspace
  /\ \A n \in DOMAIN nodes :
       /\ ToSet(nodes[n].edges) \subseteq Edge
       /\ nodes[n].cap \in Nat /\ nodes[n].value \in 0 .. Len(keys)
  /\ nodeCap \in Nat
  /\ i \in 1 .. Len(keys) + 1 /\ j \in 1 .. MaxLen + 1 /\ node \in DOMAIN nodes
  /\ st \in {"FCE_OK", "FCE_ERR_OUT_OF_MEMORY"}
  /\ pc \in {"build", "failed", "frozen", "refused", "open", "scan", "scanned"}
  /\ prefix \in Keyspace
  /\ ToSet(stack) \subseteq DOMAIN nodes
  /\ ToSet(matches) \subseteq DOMAIN keys

\* The edges of the tree: a node and a place in its array.
Arcs == UNION {{n} \X DOMAIN nodes[n].edges : n \in DOMAIN nodes}
LeadsTo(a) == nodes[a[1]].edges[a[2]].child

\* Even after failed growths the arrays are a tree: every node but the root has
\* one parent, which is older; the edges of a node ascend.  Walks end and no
\* node is visited twice.
TrieShape ==
  /\ RadixTypeOK
  /\ \A c \in DOMAIN nodes \ {Root} : \E a \in Arcs : {b \in Arcs : LeadsTo(b) = c} = {a}
  /\ \A n \in DOMAIN nodes : \A e \in 1 .. EdgeCount(n) :
       /\ nodes[n].edges[e].child > n
       /\ e > 1 => nodes[n].edges[e].label > nodes[n].edges[e - 1].label

\* No array is written past its end: edges and nodes while the trie grows, the
\* stack and the matches of a prefix scan.
WithinArrays ==
  /\ Len(nodes) <= nodeCap
  /\ \A n \in DOMAIN nodes : EdgeCount(n) <= nodes[n].cap
  /\ pc = "scan" => Len(stack) <= StackSize /\ Len(matches) <= Len(keys)

\* With memory enough, what freeze wrote opens, and each key that was put is
\* found and nothing else, whatever the order of the keys, with common prefixes
\* and the empty key.
GetExact ==
  grown => /\ pc # "refused"
           /\ pc = "open" =>
                \A key \in Keyspace : Get(key) = None <=> key \notin ToSet(keys)

\* A prefix scan yields each record with the prefix once, and no other.
ScanExact ==
  grown /\ pc = "scanned" =>
    /\ IsInjective(matches)
    /\ ToSet(matches) = {r \in DOMAIN keys : IsPrefix(prefix, keys[r])}

=============================================================================
