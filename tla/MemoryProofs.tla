---------------------------- MODULE MemoryProofs ----------------------------
(***************************************************************************)
(* That the allocator keeps its list exact (Tracked), frees nothing twice  *)
(* (FreedOnce) and loses nothing (NoLeak), for any threads, heap and       *)
(* sizes, from the typing assumptions of Memory alone.                     *)
(*                                                                         *)
(* None is inductive.  The invariant OwnerInv says of each place in the    *)
(* heap who has it: a caller (live), the list (allocations), or one call,  *)
(* as its block or as its private node; no place has two of these, and all *)
(* are allocated.  ListInv says what the nodes of the list describe, also  *)
(* while a thread is inside the lock: every block that a caller has, or    *)
(* that a call took over and has not yet unlinked, is described by just    *)
(* one node.  The only node that may be wrong is that of the thread        *)
(* between realloc and the update of its node (Stale).                     *)
(*                                                                         *)
(* StatsInv says that the statistics count the nodes of the list and the   *)
(* bytes they name at every moment, HeapInv that whatever is allocated has *)
(* an owner; from them StatsExact and NoLeak.                              *)
(***************************************************************************)
EXTENDS Memory, FiniteSetTheorems, TLAPS

\* The calls that are inside the lock, have a node of their own, or have a block
\* whose node is still in the list.
Critical == {"link", "unlink", "resize", "relabel"}
OwnsNode == {"push", "link", "freenode"}
Takes == {"find", "refind", "unlink", "resize"}

\* A call is inside the lock, or it is not; and the list does not change under it.
LockInv ==
  /\ \A t \in Thread : pc[t] \in Critical => memLock = t /\ seen[t] = allocations
  /\ \A t \in Thread : memLock = t => pc[t] \in Critical

\* The block of each call is allocated, and nobody else has it.
BlockInv ==
  \A t \in Thread : pc[t] # "idle" =>
    /\ ptr[t] \in Addr /\ heap[ptr[t]] > 0
    /\ ptr[t] \notin live /\ ptr[t] \notin allocations
    /\ \A u \in Thread : u # t /\ pc[u] # "idle" => ptr[u] # ptr[t]
    /\ \A u \in Thread : pc[u] \in OwnsNode => ptr[t] # node[u]

\* So is the node that it has to itself.
NodeInv ==
  \A t \in Thread : pc[t] \in OwnsNode =>
    /\ node[t] \in Addr /\ heap[node[t]] = NodeSize
    /\ node[t] \notin live /\ node[t] \notin allocations
    /\ \A u \in Thread : u # t /\ pc[u] \in OwnsNode => node[u] # node[t]

\* And what callers and the list have.
SetInv ==
  /\ live \cap allocations = {}
  /\ \A a \in live : heap[a] > 0
  /\ \A m \in allocations : heap[m] = NodeSize

OwnerInv == BlockInv /\ NodeInv /\ SetInv

\* What the local variables of a call say of its block.
CallInv ==
  \A t \in Thread :
    /\ pc[t] \in {"node", "push", "link"} => size[t] > 0 /\ heap[ptr[t]] = size[t]
    /\ pc[t] \in {"push", "link"} => entry[node[t]] = [ptr |-> ptr[t], size |-> size[t]]
    /\ pc[t] \in {"refind", "resize", "relabel"} => size[t] > 0
    /\ pc[t] \in {"unlink", "resize", "relabel"} => node[t] \in allocations
    /\ pc[t] \in {"unlink", "resize"} => entry[node[t]].ptr = ptr[t]
    /\ pc[t] = "relabel" => heap[ptr[t]] = size[t]

\* The node of a block that has just been moved.
Stale(m) == \E t \in Thread : pc[t] = "relabel" /\ node[t] = m

\* The blocks whose nodes are in the list.
Listed(a) == a \in live \/ \E t \in Thread : pc[t] \in Takes /\ ptr[t] = a

\* A node of the list describes a listed block, no two nodes the same one, and
\* every listed block has its node.
ListInv ==
  /\ \A m \in allocations : ~Stale(m) =>
       Listed(entry[m].ptr) /\ heap[entry[m].ptr] = entry[m].size
  /\ \A m, n \in allocations :
       m # n /\ ~Stale(m) /\ ~Stale(n) => entry[m].ptr # entry[n].ptr
  /\ \A a \in Addr : Listed(a) =>
       \E m \in allocations : ~Stale(m) /\ entry[m].ptr = a

MemInv == HeapTypeOK /\ LockInv /\ OwnerInv /\ CallInv /\ ListInv

-----------------------------------------------------------------------------
(* Two lemmas on blocks and nodes, and one on each step of a call. *)

\* The place of a listed block is not that of a node or of a block of a call
\* that has unlinked it, or has not linked it yet.
LEMMA ListedOwned ==
  ASSUME MemInv, NEW a, Listed(a)
  PROVE  /\ a \in Addr /\ heap[a] > 0 /\ a \notin allocations
         /\ \A t \in Thread : pc[t] \in OwnsNode => a # node[t]
         /\ \A t \in Thread : pc[t] \notin Takes \cup {"idle"} => a # ptr[t]
<1>1. CASE a \in live
  BY <1>1 DEF MemInv, HeapTypeOK, OwnerInv, BlockInv, NodeInv, SetInv
<1>2. CASE \E u \in Thread : pc[u] \in Takes /\ ptr[u] = a
  <2>1. PICK u \in Thread : pc[u] \in Takes /\ ptr[u] = a
    BY <1>2
  <2>2. pc[u] # "idle"
    BY <2>1 DEF Takes
  <2> QED
    BY <2>1, <2>2 DEF MemInv, OwnerInv, BlockInv
<1> QED
  BY <1>1, <1>2 DEF Listed

\* No node is stale while a thread is elsewhere inside the lock.
LEMMA NoneStale ==
  ASSUME MemInv, NEW t \in Thread, memLock = t, pc[t] # "relabel", NEW m
  PROVE  ~Stale(m)
BY DEF MemInv, LockInv, Stale, Critical

\* A new block is a place nobody has.
LEMMA MallocStep ==
  ASSUME NEW t \in Thread, NEW n \in Size, MemInv, Malloc(t, n)
  PROVE  MemInv'
<1>1. HeapTypeOK'
  BY MemoryConstants DEF Malloc, Unused, AtLeast1, MemInv, HeapTypeOK
<1>2. LockInv'
  BY DEF Malloc, MemInv, LockInv, Critical
<1>3. BlockInv'
  BY MemoryConstants DEF Malloc, Unused, AtLeast1, MemInv, HeapTypeOK, OwnerInv,
         BlockInv, NodeInv, SetInv, OwnsNode, NodeSize
<1>4. NodeInv'
  BY DEF Malloc, Unused, MemInv, OwnerInv, NodeInv, OwnsNode, NodeSize
<1>5. SetInv'
  BY DEF Malloc, Unused, MemInv, OwnerInv, SetInv, NodeSize
<1>6. CallInv'
  BY MemoryConstants DEF Malloc, Unused, AtLeast1, MemInv, HeapTypeOK, CallInv
<1>7. ListInv'
  BY MemoryConstants DEF Malloc, Unused, MemInv, OwnerInv, BlockInv, SetInv, ListInv,
         Takes, Stale, Listed, NodeSize
<1> QED
  BY <1>1, <1>2, <1>3, <1>4, <1>5, <1>6, <1>7 DEF MemInv, OwnerInv

\* A node is one too; what the list says of other places stays.
LEMMA MallocNodeStep ==
  ASSUME NEW t \in Thread, MemInv, MallocNode(t)
  PROVE  MemInv'
<1>1. HeapTypeOK'
  BY DEF MallocNode, Unused, MemInv, HeapTypeOK, NodeSize
<1>2. LockInv'
  BY DEF MallocNode, MemInv, LockInv, Critical
<1>3. BlockInv'
  BY DEF MallocNode, Unused, MemInv, HeapTypeOK, OwnerInv, BlockInv
<1>4. NodeInv'
  BY DEF MallocNode, Unused, MemInv, HeapTypeOK, OwnerInv, NodeInv, SetInv, NodeSize
<1>5. SetInv'
  BY DEF MallocNode, Unused, MemInv, OwnerInv, SetInv
<1>6. CallInv'
  BY DEF MallocNode, Unused, MemInv, HeapTypeOK, OwnerInv, NodeInv, SetInv, CallInv,
         OwnsNode, NodeSize
<1>7. ListInv'
  <2>1. PICK a \in Unused :
          /\ heap' = [heap EXCEPT ![a] = NodeSize]
          /\ entry' = [entry EXCEPT ![a] = [ptr |-> ptr[t], size |-> size[t]]]
          /\ node' = [node EXCEPT ![t] = a]
    BY DEF MallocNode
  <2>2. \A m \in allocations : entry'[m] = entry[m]
    BY <2>1 DEF MemInv, HeapTypeOK, OwnerInv, SetInv, Unused, NodeSize
  <2>3. \A b : Listed(b) => heap'[b] = heap[b]
    BY <2>1, ListedOwned DEF MemInv, HeapTypeOK, Unused
  <2>4. \A b : Listed(b)' <=> Listed(b)
    BY DEF MallocNode, MemInv, HeapTypeOK, Listed, Takes
  <2>5. \A m : Stale(m)' <=> Stale(m)
    BY <2>1 DEF MallocNode, MemInv, HeapTypeOK, Stale
  <2> QED
    BY <2>2, <2>3, <2>4, <2>5 DEF MallocNode, MemInv, ListInv
<1> QED
  BY <1>1, <1>2, <1>3, <1>4, <1>5, <1>6, <1>7 DEF MemInv, OwnerInv

\* The block that goes back to the heap was the call's alone.
LEMMA MallocNodeFailsStep ==
  ASSUME NEW t \in Thread, MemInv, MallocNodeFails(t)
  PROVE  MemInv'
<1>1. HeapTypeOK'
  BY DEF MallocNodeFails, Return, MemInv, HeapTypeOK, OwnerInv, BlockInv
<1>2. LockInv'
  BY DEF MallocNodeFails, Return, MemInv, LockInv, Critical
<1>3. BlockInv'
  BY DEF MallocNodeFails, Return, MemInv, HeapTypeOK, OwnerInv, BlockInv, OwnsNode
<1>4. NodeInv'
  BY DEF MallocNodeFails, Return, MemInv, OwnerInv, BlockInv, NodeInv, OwnsNode
<1>5. SetInv'
  BY DEF MallocNodeFails, MemInv, OwnerInv, BlockInv, SetInv
<1>6. CallInv'
  BY DEF MallocNodeFails, Return, MemInv, HeapTypeOK, OwnerInv, BlockInv, CallInv
<1>7. ListInv'
  BY DEF MallocNodeFails, Return, MemInv, OwnerInv, BlockInv, ListInv, Takes, Stale,
         Listed
<1> QED
  BY <1>1, <1>2, <1>3, <1>4, <1>5, <1>6, <1>7 DEF MemInv, OwnerInv

\* Only one thread gets the lock.
LEMMA PushStep ==
  ASSUME NEW t \in Thread, MemInv, Push(t)
  PROVE  MemInv'
<1>1. HeapTypeOK'
  BY DEF Push, MemInv, HeapTypeOK
<1>2. LockInv'
  BY MemoryConstants DEF Push, MemInv, HeapTypeOK, LockInv, Critical
<1>3. BlockInv'
  BY DEF Push, MemInv, OwnerInv, BlockInv, OwnsNode
<1>4. NodeInv'
  BY DEF Push, MemInv, OwnerInv, NodeInv, OwnsNode
<1>5. SetInv'
  BY DEF Push, MemInv, OwnerInv, SetInv
<1>6. CallInv'
  BY DEF Push, MemInv, CallInv
<1>7. ListInv'
  BY DEF Push, MemInv, ListInv, Takes, Stale, Listed
<1> QED
  BY <1>1, <1>2, <1>3, <1>4, <1>5, <1>6, <1>7 DEF MemInv, OwnerInv

\* The block goes to the caller and its node to the list, together.
LEMMA LinkStep ==
  ASSUME NEW t \in Thread, MemInv, Link(t)
  PROVE  MemInv'
<1>1. HeapTypeOK'
  BY DEF Link, Return, MemInv, HeapTypeOK, OwnerInv, BlockInv, NodeInv, OwnsNode
<1>2. LockInv'
  BY MemoryConstants DEF Link, Return, MemInv, HeapTypeOK, LockInv, Critical
<1>3. BlockInv'
  BY DEF Link, Return, MemInv, HeapTypeOK, LockInv, OwnerInv, BlockInv, Critical,
         OwnsNode
<1>4. NodeInv'
  BY DEF Link, Return, MemInv, HeapTypeOK, LockInv, OwnerInv, BlockInv, NodeInv,
         Critical, OwnsNode
<1>5. SetInv'
  BY DEF Link, MemInv, LockInv, OwnerInv, BlockInv, NodeInv, SetInv, Critical,
         OwnsNode
<1>6. CallInv'
  BY DEF Link, Return, MemInv, HeapTypeOK, LockInv, CallInv, Critical
<1>7. ListInv'
  <2>1. /\ pc[t] = "link" /\ memLock = t
        /\ allocations' = allocations \cup {node[t]}
        /\ node[t] \notin allocations
        /\ UNCHANGED <<heap, entry>>
    BY DEF Link, MemInv, LockInv, OwnerInv, NodeInv, Critical, OwnsNode
  <2>2. ptr[t] \in Addr /\ size[t] \in Nat
    BY <2>1 DEF MemInv, HeapTypeOK, OwnerInv, BlockInv
  <2>3. entry[node[t]] = [ptr |-> ptr[t], size |-> size[t]] /\ heap[ptr[t]] = size[t]
    BY <2>1 DEF MemInv, CallInv
  <2>4. \A m : ~Stale(m) /\ ~Stale(m)'
    BY <2>1, NoneStale DEF Link, Return, MemInv, HeapTypeOK, Stale
  <2>5. \A a : Listed(a)' <=> Listed(a) \/ a = ptr[t]
    BY <2>1 DEF Link, Return, MemInv, HeapTypeOK, Listed, Takes
  <2>6. ~Listed(ptr[t])
    BY <2>1, ListedOwned DEF Takes
  <2> QED
    BY <2>1, <2>2, <2>3, <2>4, <2>5, <2>6 DEF MemInv, ListInv
<1> QED
  BY <1>1, <1>2, <1>3, <1>4, <1>5, <1>6, <1>7 DEF MemInv, OwnerInv

\* A caller gives up its block; the node stays for the moment.
LEMMA FreeStep ==
  ASSUME NEW t \in Thread, NEW a \in Addr, MemInv, Free(t, a)
  PROVE  MemInv'
<1>1. HeapTypeOK'
  BY DEF Free, MemInv, HeapTypeOK
<1>2. LockInv'
  BY DEF Free, MemInv, LockInv, Critical
<1>3. BlockInv'
  BY DEF Free, MemInv, HeapTypeOK, OwnerInv, BlockInv, NodeInv, SetInv, OwnsNode
<1>4. NodeInv'
  BY DEF Free, MemInv, OwnerInv, NodeInv, OwnsNode
<1>5. SetInv'
  BY DEF Free, MemInv, OwnerInv, SetInv
<1>6. CallInv'
  BY DEF Free, MemInv, CallInv
<1>7. ListInv'
  BY DEF Free, MemInv, HeapTypeOK, ListInv, Takes, Stale, Listed
<1> QED
  BY <1>1, <1>2, <1>3, <1>4, <1>5, <1>6, <1>7 DEF MemInv, OwnerInv

\* Neither does realloc change anything but the owner of the block when it takes it over.
LEMMA ReallocStep ==
  ASSUME NEW t \in Thread, NEW a \in Addr, NEW n \in Size, MemInv, Realloc(t, a, n)
  PROVE  MemInv'
<1>1. HeapTypeOK'
  BY MemoryConstants DEF Realloc, MemInv, HeapTypeOK
<1>2. LockInv'
  BY DEF Realloc, MemInv, LockInv, Critical
<1>3. BlockInv'
  BY DEF Realloc, MemInv, HeapTypeOK, OwnerInv, BlockInv, NodeInv, SetInv, OwnsNode
<1>4. NodeInv'
  BY DEF Realloc, MemInv, OwnerInv, NodeInv, OwnsNode
<1>5. SetInv'
  BY DEF Realloc, MemInv, OwnerInv, SetInv
<1>6. CallInv'
  BY DEF Realloc, MemInv, HeapTypeOK, CallInv
<1>7. ListInv'
  BY DEF Realloc, MemInv, HeapTypeOK, ListInv, Takes, Stale, Listed
<1> QED
  BY <1>1, <1>2, <1>3, <1>4, <1>5, <1>6, <1>7 DEF MemInv, OwnerInv

\* The list has just the node of the block that is looked for.
LEMMA FindStep ==
  ASSUME NEW t \in Thread, MemInv, Find(t)
  PROVE  MemInv'
<1>1. HeapTypeOK'
  BY DEF Find, NodesOf, MemInv, HeapTypeOK
<1>2. LockInv'
  BY MemoryConstants DEF Find, MemInv, HeapTypeOK, LockInv, Critical
<1>3. BlockInv'
  BY DEF Find, NodesOf, MemInv, HeapTypeOK, OwnerInv, BlockInv
<1>4. NodeInv'
  BY DEF Find, MemInv, HeapTypeOK, OwnerInv, NodeInv, OwnsNode
<1>5. SetInv'
  BY DEF Find, MemInv, OwnerInv, SetInv
<1>6. CallInv'
  BY DEF Find, NodesOf, MemInv, HeapTypeOK, CallInv
<1>7. ListInv'
  BY MemoryConstants DEF Find, MemInv, LockInv, ListInv, Critical, Takes, Stale,
         Listed
<1> QED
  BY <1>1, <1>2, <1>3, <1>4, <1>5, <1>6, <1>7 DEF MemInv, OwnerInv

\* The node leaves the list and is the call's own: no other node describes
\* its block.
LEMMA UnlinkStep ==
  ASSUME NEW t \in Thread, MemInv, Unlink(t)
  PROVE  MemInv'
<1>1. /\ pc[t] = "unlink" /\ pc' = [pc EXCEPT ![t] = "freenode"]
      /\ node[t] \in allocations /\ allocations' = allocations \ {node[t]}
      /\ entry[node[t]].ptr = ptr[t] /\ memLock = t
      /\ UNCHANGED <<heap, entry, live, ptr, size, node, seen>>
  BY DEF MemInv, LockInv, CallInv, Critical, Unlink
<1>2. \A u \in Thread : u # t => pc'[u] = pc[u]
  BY <1>1 DEF MemInv, HeapTypeOK
<1>3. BlockInv'
  <2> SUFFICES ASSUME NEW x \in Thread, pc'[x] # "idle"
      PROVE  /\ ptr[x] \in Addr /\ heap[ptr[x]] > 0
             /\ ptr[x] \notin live /\ ptr[x] \notin allocations'
             /\ \A u \in Thread : u # x /\ pc'[u] # "idle" => ptr[u] # ptr[x]
             /\ \A u \in Thread : pc'[u] \in OwnsNode => ptr[x] # node[u]
    BY <1>1 DEF BlockInv
  <2>1. pc[x] # "idle"
    BY <1>1, <1>2
  <2>2. \A u \in Thread : pc'[u] # "idle" => pc[u] # "idle"
    BY <1>1, <1>2
  <2> QED
    BY <1>1, <1>2, <2>1, <2>2 DEF MemInv, OwnerInv, BlockInv
<1>4. NodeInv'
  <2>1. node[t] \in Addr /\ heap[node[t]] = NodeSize /\ node[t] \notin live
    BY <1>1 DEF MemInv, HeapTypeOK, OwnerInv, SetInv
  <2>2. \A u \in Thread : u # t /\ pc[u] \in OwnsNode => node[u] # node[t]
    BY <1>1 DEF MemInv, OwnerInv, NodeInv
  <2> QED
    BY <1>1, <1>2, <2>1, <2>2 DEF MemInv, OwnerInv, NodeInv
<1>5. \A m : ~Stale(m) /\ ~Stale(m)'
  BY <1>1 DEF MemInv, HeapTypeOK, LockInv, Stale, Critical
<1>6. \A a : Listed(a)' <=> Listed(a) /\ a # ptr[t]
  <2>1. \A u \in Thread : u # t => pc'[u] = pc[u] /\ (pc[u] \in Takes => ptr[u] # ptr[t])
    BY <1>1, <1>2 DEF MemInv, OwnerInv, BlockInv, Takes
  <2>2. ptr[t] \notin live /\ pc[t] \in Takes /\ pc'[t] \notin Takes
    BY <1>1 DEF MemInv, HeapTypeOK, OwnerInv, BlockInv, Takes
  <2> QED
    BY <1>1, <2>1, <2>2 DEF Listed
<1>7. ListInv'
  BY <1>1, <1>5, <1>6 DEF MemInv, HeapTypeOK, ListInv
<1>8. HeapTypeOK'
  BY DEF Unlink, MemInv, HeapTypeOK
<1>9. LockInv'
  BY MemoryConstants DEF Unlink, MemInv, HeapTypeOK, LockInv, Critical
<1>10. SetInv'
  BY DEF Unlink, MemInv, LockInv, OwnerInv, SetInv, Critical
<1>11. CallInv'
  BY DEF Unlink, MemInv, HeapTypeOK, LockInv, CallInv, Critical
<1> QED
  BY <1>3, <1>4, <1>7, <1>8, <1>9, <1>10, <1>11 DEF MemInv, OwnerInv

\* The node that is freed is in nobody else's hands,
LEMMA FreeNodeStep ==
  ASSUME NEW t \in Thread, MemInv, FreeNode(t)
  PROVE  MemInv'
<1>1. HeapTypeOK'
  BY DEF FreeNode, NoEntry, MemInv, HeapTypeOK, OwnerInv, NodeInv, OwnsNode
<1>2. LockInv'
  BY DEF FreeNode, MemInv, LockInv, Critical
<1>3. BlockInv'
  BY DEF FreeNode, MemInv, OwnerInv, BlockInv, OwnsNode
<1>4. NodeInv'
  BY DEF FreeNode, MemInv, HeapTypeOK, OwnerInv, NodeInv, OwnsNode
<1>5. SetInv'
  BY DEF FreeNode, MemInv, OwnerInv, NodeInv, SetInv, OwnsNode
<1>6. CallInv'
  BY DEF FreeNode, MemInv, OwnerInv, BlockInv, NodeInv, CallInv, OwnsNode
<1>7. ListInv'
  <2>1. /\ pc[t] = "freenode" /\ node[t] \in Addr /\ node[t] \notin allocations
        /\ heap' = [heap EXCEPT ![node[t]] = 0]
        /\ entry' = [entry EXCEPT ![node[t]] = NoEntry]
        /\ UNCHANGED <<allocations, live, ptr, node>>
    BY DEF FreeNode, MemInv, OwnerInv, NodeInv, OwnsNode
  <2>2. \A m \in allocations : entry'[m] = entry[m]
    BY <2>1 DEF MemInv, HeapTypeOK
  <2>3. \A b : Listed(b) => heap'[b] = heap[b]
    BY <2>1, ListedOwned DEF MemInv, HeapTypeOK, OwnsNode
  <2>4. \A b : Listed(b)' <=> Listed(b)
    BY <2>1 DEF FreeNode, MemInv, HeapTypeOK, Listed, Takes
  <2>5. \A m : Stale(m)' <=> Stale(m)
    BY <2>1 DEF FreeNode, MemInv, HeapTypeOK, Stale
  <2> QED
    BY <2>1, <2>2, <2>3, <2>4, <2>5 DEF MemInv, ListInv
<1> QED
  BY <1>1, <1>2, <1>3, <1>4, <1>5, <1>6, <1>7 DEF MemInv, OwnerInv

\* The block of a call that has unlinked it is in no list and with no caller.
LEMMA FreeBlockStep ==
  ASSUME NEW t \in Thread, MemInv, FreeBlock(t)
  PROVE  MemInv'
<1>1. HeapTypeOK'
  BY DEF FreeBlock, Return, MemInv, HeapTypeOK, OwnerInv, BlockInv
<1>2. LockInv'
  BY DEF FreeBlock, Return, MemInv, LockInv, Critical
<1>3. BlockInv'
  BY DEF FreeBlock, Return, MemInv, HeapTypeOK, OwnerInv, BlockInv, OwnsNode
<1>4. NodeInv'
  BY DEF FreeBlock, Return, MemInv, OwnerInv, BlockInv, NodeInv, OwnsNode
<1>5. SetInv'
  BY DEF FreeBlock, MemInv, OwnerInv, BlockInv, SetInv
<1>6. CallInv'
  BY DEF FreeBlock, Return, MemInv, OwnerInv, BlockInv, CallInv
<1>7. ListInv'
  BY MemoryConstants DEF FreeBlock, Return, MemInv, OwnerInv, BlockInv, ListInv,
         OwnsNode, Takes, Stale, Listed
<1> QED
  BY <1>1, <1>2, <1>3, <1>4, <1>5, <1>6, <1>7 DEF MemInv, OwnerInv

\* The new place is nobody's, the old one was the call's alone; the node is
\* stale until it is updated.
LEMMA MoveStep ==
  ASSUME NEW t \in Thread, MemInv, Move(t)
  PROVE  MemInv'
<1>1. PICK a \in Unused \cup {ptr[t]} :
        /\ heap' = [heap EXCEPT ![ptr[t]] = 0, ![a] = size[t]]
        /\ ptr' = [ptr EXCEPT ![t] = a]
  BY DEF Move
<1>2. /\ pc[t] = "resize" /\ memLock = t
      /\ pc' = [pc EXCEPT ![t] = "relabel"]
      /\ UNCHANGED <<entry, allocations, memLock, live, size, node, seen>>
  BY DEF Move, MemInv, LockInv, Critical
<1>3. /\ ptr[t] \in Addr /\ a \in Addr
      /\ node[t] \in allocations /\ entry[node[t]].ptr = ptr[t]
      /\ size[t] > 0 /\ size[t] \in Nat
  BY <1>2 DEF Unused, MemInv, HeapTypeOK, OwnerInv, BlockInv, CallInv
<1>4. \A b \in Addr : heap[b] > 0 /\ b # ptr[t] => heap'[b] = heap[b] /\ b # a
  BY <1>1, <1>2, <1>3 DEF MemInv, HeapTypeOK, Unused
<1>5. heap'[a] = size[t] /\ ptr'[t] = a
  BY <1>1, <1>2, <1>3 DEF MemInv, HeapTypeOK
<1>6. \A u \in Thread : u # t => pc'[u] = pc[u] /\ ptr'[u] = ptr[u]
  BY <1>1, <1>2, <1>3 DEF MemInv, HeapTypeOK
<1>7. pc'[t] = "relabel"
  BY <1>2, <1>3 DEF MemInv, HeapTypeOK
<1>8. a \notin live /\ a \notin allocations
  <2>1. CASE a = ptr[t]
    BY <1>2, <1>3, <2>1 DEF MemInv, OwnerInv, BlockInv
  <2>2. CASE a \in Unused
    BY <2>2 DEF Unused, MemInv, OwnerInv, SetInv, NodeSize
  <2> QED
    BY <2>1, <2>2
<1>9. \A u \in Thread : u # t /\ pc[u] # "idle" => ptr[u] # a /\ ptr[u] # ptr[t]
  BY <1>2, <1>3, <1>4 DEF MemInv, OwnerInv, BlockInv
<1>10. \A u \in Thread : pc[u] \in OwnsNode => node[u] # a /\ node[u] # ptr[t]
  BY <1>2, <1>3, <1>4 DEF MemInv, OwnerInv, BlockInv, NodeInv, NodeSize
<1>11. BlockInv'
  <2> SUFFICES ASSUME NEW x \in Thread, pc'[x] # "idle"
      PROVE  /\ ptr'[x] \in Addr /\ heap'[ptr'[x]] > 0
             /\ ptr'[x] \notin live /\ ptr'[x] \notin allocations
             /\ \A u \in Thread : u # x /\ pc'[u] # "idle" => ptr'[u] # ptr'[x]
             /\ \A u \in Thread : pc'[u] \in OwnsNode => ptr'[x] # node[u]
    BY <1>2, <1>3 DEF BlockInv
  <2>1. \A u \in Thread : pc'[u] \in OwnsNode => pc[u] \in OwnsNode
    BY <1>6, <1>7 DEF OwnsNode
  <2>2. CASE x = t
    BY <1>2, <1>3, <1>5, <1>6, <1>8, <1>9, <1>10, <2>1, <2>2
  <2>3. CASE x # t
    BY <1>2, <1>3, <1>4, <1>5, <1>6, <1>7, <1>9, <2>1, <2>3 DEF MemInv, OwnerInv, BlockInv
  <2> QED
    BY <2>2, <2>3
<1>12. ListInv'
  <2>1. \A m : Stale(m)' <=> m = node[t]
    BY <1>2, <1>3, <1>6, <1>7, NoneStale DEF Stale
  <2>2. \A b : Listed(b)' <=> Listed(b) /\ b # ptr[t]
    <3>1. ptr[t] \notin live /\ pc[t] \in Takes /\ pc'[t] \notin Takes
      BY <1>2, <1>3, <1>7 DEF MemInv, OwnerInv, BlockInv, Takes
    <3> QED
      BY <1>2, <1>3, <1>6, <1>9, <3>1 DEF Listed, Takes
  <2>3. \A b : Listed(b) /\ b # ptr[t] => heap'[b] = heap[b]
    BY <1>4, ListedOwned
  <2>4. \A m : ~Stale(m)
    BY <1>2, <1>3, NoneStale
  <2> QED
    BY <1>2, <1>3, <2>1, <2>2, <2>3, <2>4 DEF MemInv, ListInv
<1>13. HeapTypeOK'
  BY DEF Move, Unused, MemInv, HeapTypeOK, OwnerInv, BlockInv
<1>14. LockInv'
  BY DEF Move, MemInv, LockInv, Critical
<1>15. NodeInv'
  BY DEF Move, Unused, MemInv, HeapTypeOK, OwnerInv, BlockInv, NodeInv, OwnsNode,
         NodeSize
<1>16. SetInv'
  BY DEF Move, Unused, MemInv, HeapTypeOK, OwnerInv, BlockInv, SetInv, NodeSize
<1>17. CallInv'
  BY DEF Move, Unused, MemInv, HeapTypeOK, OwnerInv, BlockInv, CallInv
<1> QED
  BY <1>11, <1>12, <1>13, <1>14, <1>15, <1>16, <1>17 DEF MemInv, OwnerInv

\* The caller has its block again.
LEMMA MoveFailsStep ==
  ASSUME NEW t \in Thread, MemInv, MoveFails(t)
  PROVE  MemInv'
<1>1. HeapTypeOK'
  BY DEF MoveFails, Return, MemInv, HeapTypeOK, OwnerInv, BlockInv
<1>2. LockInv'
  BY MemoryConstants DEF MoveFails, Return, MemInv, HeapTypeOK, LockInv, Critical
<1>3. BlockInv'
  BY DEF MoveFails, Return, MemInv, HeapTypeOK, OwnerInv, BlockInv, OwnsNode
<1>4. NodeInv'
  BY DEF MoveFails, Return, MemInv, OwnerInv, BlockInv, NodeInv, OwnsNode
<1>5. SetInv'
  BY DEF MoveFails, MemInv, OwnerInv, BlockInv, SetInv
<1>6. CallInv'
  BY DEF MoveFails, Return, MemInv, HeapTypeOK, CallInv
<1>7. ListInv'
  <2>1. pc[t] = "resize" /\ memLock = t
    BY DEF MoveFails, MemInv, LockInv, Critical
  <2>2. \A m : ~Stale(m) /\ ~Stale(m)'
    BY <2>1, NoneStale DEF MoveFails, Return, MemInv, HeapTypeOK, Stale
  <2>3. \A a : Listed(a)' <=> Listed(a)
    BY <2>1 DEF MoveFails, Return, MemInv, HeapTypeOK, Listed, Takes
  <2> QED
    BY <2>2, <2>3 DEF MoveFails, MemInv, ListInv
<1> QED
  BY <1>1, <1>2, <1>3, <1>4, <1>5, <1>6, <1>7 DEF MemInv, OwnerInv

\* The node describes the block at its new place.
LEMMA RelabelStep ==
  ASSUME NEW t \in Thread, MemInv, Relabel(t)
  PROVE  MemInv'
<1>1. /\ pc[t] = "relabel" /\ memLock = t
      /\ node[t] \in allocations /\ node[t] \in Addr
      /\ ptr[t] \in Addr /\ size[t] \in Nat /\ heap[ptr[t]] = size[t]
      /\ entry' = [entry EXCEPT ![node[t]] = [ptr |-> ptr[t], size |-> size[t]]]
      /\ live' = live \cup {ptr[t]}
      /\ UNCHANGED <<heap, allocations>>
  BY DEF Relabel, MemInv, HeapTypeOK, LockInv, OwnerInv, BlockInv, CallInv, Critical
<1>2. HeapTypeOK'
  BY <1>1 DEF Relabel, Return, MemInv, HeapTypeOK
<1>3. ListInv'
  <2>1. \A m : (Stale(m) <=> m = node[t]) /\ ~Stale(m)'
    BY <1>1 DEF Relabel, Return, MemInv, HeapTypeOK, LockInv, Stale, Critical
  <2>2. \A b : Listed(b)' <=> Listed(b) \/ b = ptr[t]
    BY <1>1 DEF Relabel, Return, MemInv, HeapTypeOK, Listed, Takes
  <2>3. ~Listed(ptr[t])
    BY <1>1, ListedOwned DEF Takes
  <2>4. entry'[node[t]] = [ptr |-> ptr[t], size |-> size[t]]
    BY <1>1 DEF MemInv, HeapTypeOK
  <2>5. \A m \in allocations : m # node[t] => entry'[m] = entry[m]
    BY <1>1 DEF MemInv, HeapTypeOK
  <2> QED
    BY <1>1, <2>1, <2>2, <2>3, <2>4, <2>5 DEF MemInv, ListInv
<1>4. LockInv'
  BY MemoryConstants DEF Relabel, Return, MemInv, HeapTypeOK, LockInv, Critical
<1>5. BlockInv'
  BY DEF Relabel, Return, MemInv, HeapTypeOK, OwnerInv, BlockInv, OwnsNode
<1>6. NodeInv'
  BY DEF Relabel, Return, MemInv, OwnerInv, BlockInv, NodeInv, OwnsNode
<1>7. SetInv'
  BY DEF Relabel, MemInv, OwnerInv, BlockInv, SetInv
<1>8. CallInv'
  BY DEF Relabel, Return, MemInv, HeapTypeOK, LockInv, OwnerInv, NodeInv, CallInv,
         Critical, OwnsNode
<1> QED
  BY <1>2, <1>3, <1>4, <1>5, <1>6, <1>7, <1>8 DEF MemInv, OwnerInv

-----------------------------------------------------------------------------
LEMMA MemInitInv == MemInit => MemInv
  <1> SUFFICES ASSUME MemInit PROVE MemInv
    OBVIOUS
  <1>1. \A t \in Thread : pc[t] = "idle"
    BY DEF MemInit
  <1>2. HeapTypeOK
    BY DEF MemInit, HeapTypeOK, NoEntry
  <1>3. LockInv /\ OwnerInv /\ CallInv
    BY <1>1, MemoryConstants DEF MemInit, LockInv, OwnerInv, BlockInv, NodeInv, SetInv,
                                 CallInv, Critical, OwnsNode
  <1>4. ListInv
    BY <1>1 DEF MemInit, ListInv, Listed, Takes
  <1> QED
    BY <1>2, <1>3, <1>4 DEF MemInv

LEMMA MemStepInv == MemInv /\ [MemNext]_memVars => MemInv'
  <1> SUFFICES ASSUME MemInv, [MemNext]_memVars PROVE MemInv'
    OBVIOUS
  <1>1. ASSUME NEW t \in Thread, Call(t) PROVE MemInv'
    BY <1>1, MallocStep, FreeStep, ReallocStep DEF Call
  <1>2. ASSUME NEW t \in Thread, Step(t) PROVE MemInv'
    BY <1>2, MallocNodeStep, MallocNodeFailsStep, PushStep, LinkStep, FindStep, UnlinkStep,
       FreeNodeStep, FreeBlockStep, MoveStep, MoveFailsStep, RelabelStep DEF Step
  <1>3. CASE UNCHANGED memVars
    BY <1>3 DEF memVars, MemInv, HeapTypeOK, LockInv, OwnerInv, BlockInv, NodeInv, SetInv,
                CallInv, ListInv, Stale, Listed
  <1> QED
    BY <1>1, <1>2, <1>3 DEF MemNext

LEMMA MemInvHolds == MemSpec => []MemInv
  <1> QED
    BY MemInitInv, MemStepInv, PTL DEF MemSpec

\* Whenever nobody is inside the lock, every node of the list describes one
\* allocated block, no two the same, and every block that a caller has is found
\* by fce_free and fce_xrealloc.
THEOREM BlocksTracked == MemSpec => []Tracked
  <1>1. ASSUME MemInv, memLock = NoThread PROVE Tracked
    <2>1. \A m : ~Stale(m)
      BY <1>1, MemoryConstants DEF MemInv, LockInv, Critical, Stale
    <2>2. \A m \in allocations : heap[m] = NodeSize /\ heap[entry[m].ptr] = entry[m].size
      BY <1>1, <2>1 DEF MemInv, OwnerInv, SetInv, ListInv
    <2>3. \A m, n \in allocations : m # n => entry[m].ptr # entry[n].ptr
      BY <1>1, <2>1 DEF MemInv, ListInv
    <2>4. \A a \in live : NodesOf(a) # {}
      BY <1>1 DEF MemInv, HeapTypeOK, ListInv, Listed, NodesOf
    <2> QED
      BY <2>2, <2>3, <2>4 DEF Tracked
  <1>2. MemInv => Tracked
    BY <1>1 DEF Tracked
  <1> QED
    BY <1>2, MemInvHolds, PTL

\* In no interleaving is a block or node given to free() that is not allocated,
\* or that a caller, the list or another call still has.
THEOREM BlocksFreedOnce == MemSpec => []FreedOnce
  <1>1. ASSUME MemInv PROVE FreedOnce
    <2>1. \A t \in Thread : \A a \in Private(t) :
            \/ pc[t] # "idle" /\ a = ptr[t]
            \/ pc[t] \in OwnsNode /\ a = node[t]
      BY DEF Private, OwnsNode
    <2>2. \A t \in Thread : pc[t] \in OwnsNode => pc[t] # "idle"
      BY DEF OwnsNode
    <2> SUFFICES ASSUME NEW t \in Thread, NEW a \in Private(t)
                 PROVE  /\ heap[a] > 0 /\ a \notin live /\ a \notin allocations
                        /\ \A u \in Thread \ {t} : a \notin Private(u)
      BY DEF FreedOnce
    <2>3. CASE pc[t] # "idle" /\ a = ptr[t]
      BY <1>1, <2>1, <2>3 DEF MemInv, OwnerInv, BlockInv
    <2>4. CASE pc[t] \in OwnsNode /\ a = node[t]
      BY <1>1, <2>1, <2>2, <2>4 DEF MemInv, OwnerInv, BlockInv, NodeInv, NodeSize
    <2> QED
      BY <2>1, <2>3, <2>4
  <1> QED
    BY <1>1, MemInvHolds, PTL

-----------------------------------------------------------------------------
(* The statistics. *)

\* They change together with the list: at every moment, also inside the lock,
\* they count its nodes and the bytes that the nodes name.
StatsInv ==
  /\ stats \in [{"activeAllocations", "totalAllocations", "totalFrees",
                 "activeBytes", "peakBytes"} -> Nat]
  /\ IsFiniteSet(allocations) /\ IsFiniteSet(Bytes(allocations))
  /\ stats.activeAllocations = Cardinality(allocations)
  /\ stats.activeAllocations = stats.totalAllocations - stats.totalFrees
  /\ stats.activeBytes = Cardinality(Bytes(allocations))
  /\ stats.peakBytes >= stats.activeBytes

\* Bytes, of any record of sizes.
BytesIn(e, nodes) == UNION {{n} \X (1 .. e[n].size) : n \in nodes}

\* One node more adds as many bytes as it says.
LEMMA BytesOfOneMore ==
  ASSUME NEW nodes, NEW m, m \notin nodes, NEW e, NEW s \in Nat, e[m].size = s,
         IsFiniteSet(BytesIn(e, nodes))
  PROVE  /\ IsFiniteSet(BytesIn(e, nodes \cup {m}))
         /\ Cardinality(BytesIn(e, nodes \cup {m})) = Cardinality(BytesIn(e, nodes)) + s
<1> DEFINE B == BytesIn(e, nodes)
           C == BytesIn(e, nodes \cup {m})
           D == {m} \X (1 .. s)
<1>1. IsFiniteSet(1 .. s) /\ Cardinality(1 .. s) = s
  BY FS_Interval
<1>2. IsFiniteSet({m}) /\ Cardinality({m}) = 1
  BY FS_Singleton
<1>3. IsFiniteSet(D) /\ Cardinality(D) = s
  <2>1. IsFiniteSet(D) /\ Cardinality(D) = Cardinality({m}) * Cardinality(1 .. s)
    BY ONLY <1>1, <1>2, FS_Product
  <2>2. 1 * s = s
    OBVIOUS
  <2> QED
    BY <1>1, <1>2, <2>1, <2>2
<1>4. C = B \cup D /\ B \cap D = {} /\ IsFiniteSet(B)
  BY DEF BytesIn
<1> HIDE DEF B, C, D
<1>5. IsFiniteSet(C) /\ Cardinality(C) = Cardinality(B) + Cardinality(D) - Cardinality(B \cap D)
  BY ONLY <1>3, <1>4, FS_Union
<1>6. Cardinality(B \cap D) = 0 /\ Cardinality(B) \in Nat
  BY <1>4, FS_EmptySet, FS_CardinalityType
<1>7. Cardinality(C) = Cardinality(B) + s
  BY <1>3, <1>5, <1>6
<1> QED
  BY <1>5, <1>7 DEF B, C

\* And one less takes them away.
LEMMA BytesOfOneLess ==
  ASSUME NEW nodes, NEW m \in nodes, NEW e, NEW s \in Nat, e[m].size = s,
         IsFiniteSet(BytesIn(e, nodes))
  PROVE  /\ IsFiniteSet(BytesIn(e, nodes \ {m})) /\ Cardinality(BytesIn(e, nodes \ {m})) \in Nat
         /\ Cardinality(BytesIn(e, nodes)) = Cardinality(BytesIn(e, nodes \ {m})) + s
<1>1. BytesIn(e, nodes \ {m}) \subseteq BytesIn(e, nodes)
  BY DEF BytesIn
<1>2. IsFiniteSet(BytesIn(e, nodes \ {m})) /\ Cardinality(BytesIn(e, nodes \ {m})) \in Nat
  BY <1>1, FS_Subset, FS_CardinalityType
<1> DEFINE R == nodes \ {m}
<1>3. R \cup {m} = nodes /\ m \notin R /\ IsFiniteSet(BytesIn(e, R))
  BY <1>2
<1> HIDE DEF R
<1>4. Cardinality(BytesIn(e, nodes)) = Cardinality(BytesIn(e, R)) + s
  BY <1>3, BytesOfOneMore
<1> QED
  BY <1>2, <1>4 DEF R

\* A step that changes neither the list nor what its nodes say.
LEMMA StatsQuiet ==
  ASSUME StatsInv, UNCHANGED <<allocations, stats>>, \A m \in allocations : entry'[m] = entry[m]
  PROVE  StatsInv'
<1>1. Bytes(allocations)' = Bytes(allocations)
  BY DEF Bytes
<1> QED
  BY <1>1 DEF StatsInv

LEMMA LinkStats ==
  ASSUME MemInv, StatsInv, NEW t \in Thread, Link(t)
  PROVE  StatsInv'
<1>1. /\ allocations' = allocations \cup {node[t]} /\ entry' = entry
      /\ node[t] \notin allocations /\ entry[node[t]].size = size[t] /\ size[t] \in Nat
  <2>1. pc[t] = "link" /\ size[t] \in Nat
    BY DEF Link, MemInv, HeapTypeOK
  <2>2. node[t] \notin allocations /\ seen[t] = allocations
    BY <2>1 DEF MemInv, OwnerInv, NodeInv, LockInv, OwnsNode, Critical
  <2>3. entry[node[t]] = [ptr |-> ptr[t], size |-> size[t]]
    BY <2>1 DEF MemInv, CallInv
  <2> QED
    BY <2>1, <2>2, <2>3 DEF Link
<1>2. IsFiniteSet(allocations') /\ Cardinality(allocations') = Cardinality(allocations) + 1
  BY <1>1, FS_AddElement DEF StatsInv
<1>3. /\ IsFiniteSet(Bytes(allocations)')
      /\ Cardinality(Bytes(allocations)') = Cardinality(Bytes(allocations)) + size[t]
  <2> DEFINE C == BytesIn(entry, allocations \cup {node[t]})
  <2>1. Bytes(allocations)' = C /\ Bytes(allocations) = BytesIn(entry, allocations)
    BY <1>1 DEF Bytes, BytesIn
  <2>2. IsFiniteSet(C) /\ Cardinality(C) = Cardinality(Bytes(allocations)) + size[t]
    BY <1>1, <2>1, BytesOfOneMore DEF StatsInv
  <2> QED
    BY <2>1, <2>2
<1>4. /\ stats'.activeAllocations = stats.activeAllocations + 1
      /\ stats'.totalAllocations = stats.totalAllocations + 1
      /\ stats'.totalFrees = stats.totalFrees
      /\ stats'.activeBytes = stats.activeBytes + size[t]
      /\ stats'.peakBytes = Bigger(stats.peakBytes, stats.activeBytes + size[t])
  BY DEF Link, WithBytes, StatsInv
<1>5. stats' \in [{"activeAllocations", "totalAllocations", "totalFrees",
                   "activeBytes", "peakBytes"} -> Nat]
  <2> DEFINE n == stats.activeBytes + size[t]
             p == Bigger(stats.peakBytes, n)
             a == stats.activeAllocations + 1
             b == stats.totalAllocations + 1
  <2>1. n \in Nat /\ p \in Nat /\ a \in Nat /\ b \in Nat
    BY <1>1 DEF StatsInv, Bigger
  <2>2. stats' = [[stats EXCEPT !.activeAllocations = a, !.totalAllocations = b]
                    EXCEPT !.activeBytes = n, !.peakBytes = p]
    BY DEF Link, WithBytes, StatsInv
  <2> HIDE DEF n, p, a, b
  <2> QED
    BY <2>1, <2>2 DEF StatsInv
<1>6. stats.activeAllocations \in Nat /\ stats.totalAllocations \in Nat
        /\ stats.totalFrees \in Nat /\ stats.activeBytes \in Nat /\ stats.peakBytes \in Nat
  BY DEF StatsInv
<1>7. stats'.activeAllocations = stats'.totalAllocations - stats'.totalFrees
        /\ stats'.peakBytes >= stats'.activeBytes
  BY <1>1, <1>4, <1>6 DEF StatsInv, Bigger
<1> QED
  BY <1>2, <1>3, <1>4, <1>5, <1>7 DEF StatsInv

LEMMA UnlinkStats ==
  ASSUME MemInv, StatsInv, NEW t \in Thread, Unlink(t)
  PROVE  StatsInv'
<1> DEFINE m == node[t]
           s == entry[m].size
           rest == allocations \ {m}
<1>1. allocations' = rest /\ entry' = entry /\ m \in allocations /\ s \in Nat
  BY DEF Unlink, MemInv, HeapTypeOK, LockInv, CallInv, Critical
<1>2. /\ IsFiniteSet(allocations') /\ Cardinality(allocations') = Cardinality(allocations) - 1
      /\ Cardinality(allocations) \in Nat /\ Cardinality(allocations) > 0
  <2>1. IsFiniteSet(allocations) /\ Cardinality(allocations) \in Nat /\ allocations # {}
    BY <1>1, FS_CardinalityType DEF StatsInv
  <2>2. Cardinality(allocations) # 0
    BY <2>1, FS_EmptySet
  <2>3. IsFiniteSet(rest) /\ Cardinality(rest) = Cardinality(allocations) - 1
    BY <1>1, <2>1, FS_RemoveElement
  <2> QED
    BY <1>1, <2>1, <2>2, <2>3
<1>3. /\ IsFiniteSet(Bytes(allocations)') /\ Cardinality(Bytes(allocations)') \in Nat
      /\ Cardinality(Bytes(allocations)) = Cardinality(Bytes(allocations)') + s
  <2> DEFINE B == BytesIn(entry, rest)
  <2>1. Bytes(allocations)' = B /\ Bytes(allocations) = BytesIn(entry, allocations)
    BY <1>1 DEF Bytes, BytesIn
  <2>2. IsFiniteSet(BytesIn(entry, allocations)) /\ s = entry[m].size
    BY <2>1 DEF StatsInv
  <2> HIDE DEF m, s
  <2>3. m \in allocations /\ s \in Nat /\ entry[m].size = s
    BY <1>1, <2>2
  <2>4. /\ IsFiniteSet(B) /\ Cardinality(B) \in Nat
        /\ Cardinality(BytesIn(entry, allocations)) = Cardinality(B) + s
    BY ONLY <2>2, <2>3, BytesOfOneLess
  <2> QED
    BY <2>1, <2>4
<1>4. /\ stats'.activeAllocations = stats.activeAllocations - 1
      /\ stats'.totalAllocations = stats.totalAllocations
      /\ stats'.totalFrees = stats.totalFrees + 1
      /\ stats'.activeBytes = stats.activeBytes - s
      /\ stats'.peakBytes = stats.peakBytes
  <2>1. stats.activeAllocations > 0 /\ stats.activeBytes >= s
    BY <1>1, <1>2, <1>3 DEF StatsInv
  <2> QED
    BY <2>1 DEF Unlink, StatsInv
<1>5. stats' \in [{"activeAllocations", "totalAllocations", "totalFrees",
                   "activeBytes", "peakBytes"} -> Nat]
  <2> DEFINE n == IF stats.activeAllocations > 0 THEN stats.activeAllocations - 1
                  ELSE stats.activeAllocations
             b == IF stats.activeBytes >= s THEN stats.activeBytes - s ELSE stats.activeBytes
             f == stats.totalFrees + 1
  <2>1. n \in Nat /\ b \in Nat /\ f \in Nat
    BY <1>1 DEF StatsInv
  <2>2. stats' = [stats EXCEPT !.activeAllocations = n, !.activeBytes = b, !.totalFrees = f]
    BY DEF Unlink
  <2> HIDE DEF n, b, f
  <2> QED
    BY <2>1, <2>2 DEF StatsInv
<1> HIDE DEF s
<1>6. stats.activeAllocations \in Nat /\ stats.totalAllocations \in Nat
        /\ stats.totalFrees \in Nat /\ stats.activeBytes \in Nat /\ stats.peakBytes \in Nat
  BY DEF StatsInv
<1>7. stats'.activeAllocations = stats'.totalAllocations - stats'.totalFrees
        /\ stats'.peakBytes >= stats'.activeBytes
  BY <1>1, <1>4, <1>6 DEF StatsInv
<1>8. stats.activeAllocations = Cardinality(allocations)
        /\ stats.activeBytes = Cardinality(Bytes(allocations))
  BY DEF StatsInv
<1>9. stats'.activeAllocations = Cardinality(allocations') /\ stats'.activeBytes = Cardinality(Bytes(allocations)')
  BY <1>1, <1>2, <1>3, <1>4, <1>8
<1> QED
  BY <1>2, <1>3, <1>5, <1>7, <1>9 DEF StatsInv

LEMMA RelabelStats ==
  ASSUME MemInv, StatsInv, NEW t \in Thread, Relabel(t)
  PROVE  StatsInv'
<1> DEFINE m == node[t]
           s == entry[m].size
<1>1. /\ allocations' = allocations /\ m \in allocations /\ s \in Nat /\ size[t] \in Nat
      /\ entry' = [entry EXCEPT ![m] = [ptr |-> ptr[t], size |-> size[t]]] /\ m \in Addr
  <2>1. pc[t] = "relabel" /\ entry \in [Addr -> [ptr : Addr \cup {NoAddr}, size : Nat]]
          /\ allocations \subseteq Addr /\ size[t] \in Nat
    BY DEF Relabel, MemInv, HeapTypeOK
  <2>2. m \in allocations /\ m \in Addr
    BY <2>1 DEF MemInv, CallInv
  <2>3. s \in Nat
    BY <2>1, <2>2
  <2> QED
    BY <2>1, <2>2, <2>3 DEF Relabel
<1>2. entry'[m].size = size[t] /\ \A n \in allocations \ {m} : entry'[n] = entry[n]
  BY <1>1 DEF MemInv, HeapTypeOK
<1> DEFINE rest == allocations \ {m}
           B == BytesIn(entry, rest)
<1>3. /\ IsFiniteSet(B) /\ Cardinality(B) \in Nat
      /\ Cardinality(Bytes(allocations)) = Cardinality(B) + s
  <2>1. Bytes(allocations) = BytesIn(entry, allocations)
    BY DEF Bytes, BytesIn
  <2>2. IsFiniteSet(BytesIn(entry, allocations)) /\ entry[m].size = s /\ s \in Nat /\ m \in allocations
    BY <1>1, <2>1 DEF StatsInv
  <2> HIDE DEF m, s
  <2>3. /\ IsFiniteSet(B) /\ Cardinality(B) \in Nat
        /\ Cardinality(BytesIn(entry, allocations)) = Cardinality(B) + s
    BY ONLY <2>2, BytesOfOneLess DEF rest
  <2> QED
    BY <2>1, <2>3
<1>4. IsFiniteSet(Bytes(allocations)') /\ Cardinality(Bytes(allocations)') = Cardinality(B) + size[t]
  <2> DEFINE f == entry'
  <2>1. B = BytesIn(f, rest)
    BY <1>2 DEF BytesIn
  <2>2. Bytes(allocations)' = BytesIn(f, rest \cup {m})
    <3>1. rest \cup {m} = allocations'
      BY <1>1
    <3> QED
      BY <3>1 DEF Bytes, BytesIn
  <2>3. m \notin rest /\ f[m].size = size[t] /\ f[m].size \in Nat
    BY <1>1, <1>2
  <2> HIDE DEF f, m, rest
  <2>4. IsFiniteSet(BytesIn(f, rest))
    BY <1>3, <2>1
  <2> QED
    BY <2>1, <2>2, <2>3, <2>4, BytesOfOneMore
<1>5. /\ stats'.activeAllocations = stats.activeAllocations
      /\ stats'.totalAllocations = stats.totalAllocations
      /\ stats'.totalFrees = stats.totalFrees
      /\ stats'.activeBytes = stats.activeBytes + size[t] - s
      /\ stats'.peakBytes = Bigger(stats.peakBytes, stats.activeBytes + size[t] - s)
  BY DEF Relabel, WithBytes, StatsInv
<1>6. stats.activeBytes + size[t] - s \in Nat
  BY <1>1, <1>3 DEF StatsInv
<1>7. stats' \in [{"activeAllocations", "totalAllocations", "totalFrees",
                   "activeBytes", "peakBytes"} -> Nat]
  BY <1>6 DEF Relabel, WithBytes, StatsInv, Bigger
<1> HIDE DEF B, s
<1>8. stats.activeAllocations \in Nat /\ stats.totalAllocations \in Nat
        /\ stats.totalFrees \in Nat /\ stats.activeBytes \in Nat /\ stats.peakBytes \in Nat
        /\ stats.activeBytes = Cardinality(Bytes(allocations))
  BY DEF StatsInv
<1>9. stats'.peakBytes >= stats'.activeBytes
  BY <1>5, <1>6, <1>8 DEF Bigger
<1>10. stats'.activeBytes = Cardinality(Bytes(allocations)')
  BY <1>1, <1>3, <1>4, <1>5, <1>8
<1> QED
  BY <1>1, <1>4, <1>5, <1>7, <1>9, <1>10 DEF StatsInv

LEMMA StatsStepInv == MemInv /\ StatsInv /\ [MemNext]_memVars => StatsInv'
<1> SUFFICES ASSUME MemInv, StatsInv, [MemNext]_memVars PROVE StatsInv'
  OBVIOUS
<1>1. ASSUME NEW t \in Thread, MallocNode(t) PROVE StatsInv'
  <2>1. \A m \in allocations : entry'[m] = entry[m]
    BY <1>1 DEF MallocNode, Unused, MemInv, HeapTypeOK, OwnerInv, SetInv, NodeSize
  <2> QED
    BY <1>1, <2>1, StatsQuiet DEF MallocNode
<1>2. ASSUME NEW t \in Thread, FreeNode(t) PROVE StatsInv'
  <2>1. \A m \in allocations : entry'[m] = entry[m]
    BY <1>2 DEF FreeNode, MemInv, HeapTypeOK, OwnerInv, NodeInv, OwnsNode
  <2> QED
    BY <1>2, <2>1, StatsQuiet DEF FreeNode
<1>3. ASSUME NEW t \in Thread,
             \/ Call(t) \/ MallocNodeFails(t) \/ Push(t) \/ Find(t) \/ FreeBlock(t)
             \/ Move(t) \/ MoveFails(t)
      PROVE  StatsInv'
  <2>1. UNCHANGED <<allocations, stats, entry>>
    BY <1>3 DEF Call, Malloc, Free, Realloc, MallocNodeFails, Push, Find, FreeBlock, Move,
                MoveFails
  <2> QED
    BY <2>1, StatsQuiet
<1>4. CASE UNCHANGED memVars
  BY <1>4, StatsQuiet DEF memVars
<1> QED
  BY <1>1, <1>2, <1>3, <1>4, LinkStats, UnlinkStats, RelabelStats DEF MemNext, Step

LEMMA StatsInvariant == MemSpec => [](MemInv /\ StatsInv)
<1>1. MemInit => StatsInv
  <2> SUFFICES ASSUME MemInit PROVE StatsInv
    OBVIOUS
  <2>1. Bytes(allocations) = {}
    BY DEF MemInit, Bytes
  <2> QED
    BY <2>1, FS_EmptySet DEF MemInit, StatsInv
<1> QED
  BY <1>1, StatsStepInv, MemInvHolds, PTL DEF MemSpec

\* The variables keep their types; no counter of the statistics goes below zero.
THEOREM MemoryTypes == MemSpec => []MemTypeOK
<1>1. MemInv /\ StatsInv => MemTypeOK
  BY DEF MemInv, StatsInv, MemTypeOK
<1> QED
  BY <1>1, StatsInvariant, PTL

\* The statistics are those of the list whenever nobody is inside the lock,
\* whatever calls overlap.
THEOREM StatisticsExact == MemSpec => []StatsExact
<1>1. StatsInv /\ MemTypeOK => StatsExact
  BY DEF StatsInv, StatsExact
<1> QED
  BY <1>1, StatsInvariant, MemoryTypes, PTL

-----------------------------------------------------------------------------
(* No leak. *)

\* Whatever is allocated, somebody has.
HeapInv ==
  \A a \in Addr : heap[a] > 0 =>
    \/ a \in live \cup allocations
    \/ \E t \in Thread : pc[t] # "idle" /\ ptr[t] = a
    \/ \E t \in Thread : pc[t] \in OwnsNode /\ node[t] = a

LEMMA HeapStepInv == MemInv /\ HeapInv /\ [MemNext]_memVars => HeapInv'
<1> SUFFICES ASSUME MemInv, HeapInv, [MemNext]_memVars PROVE HeapInv'
  OBVIOUS
<1> USE DEF HeapTypeOK, HeapInv, OwnsNode
<1>0. HeapTypeOK
  BY DEF MemInv
<1>1. ASSUME NEW t \in Thread, NEW n \in Size, Malloc(t, n) PROVE HeapInv'
  BY <1>0, <1>1 DEF Malloc, Unused
<1>2. ASSUME NEW t \in Thread, MallocNode(t) PROVE HeapInv'
  BY <1>0, <1>2 DEF MallocNode, Unused
<1>3. ASSUME NEW t \in Thread, MallocNodeFails(t) PROVE HeapInv'
  BY <1>0, <1>3 DEF MallocNodeFails, Return, MemInv, OwnerInv, BlockInv
<1>4. ASSUME NEW t \in Thread, Push(t) PROVE HeapInv'
  BY <1>0, <1>4 DEF Push
<1>5. ASSUME NEW t \in Thread, Link(t) PROVE HeapInv'
  <2>1. allocations' = allocations \cup {node[t]} /\ live' = live \cup {ptr[t]}
    BY <1>5 DEF Link, MemInv, LockInv, Critical
  <2> QED
    BY <1>0, <1>5, <2>1 DEF Link, Return
<1>6. ASSUME NEW t \in Thread, NEW a \in Addr, Free(t, a) PROVE HeapInv'
  BY <1>0, <1>6 DEF Free
<1>7. ASSUME NEW t \in Thread, NEW a \in Addr, NEW n \in Size, Realloc(t, a, n) PROVE HeapInv'
  BY <1>0, <1>7 DEF Realloc
<1>8. ASSUME NEW t \in Thread, Find(t) PROVE HeapInv'
  BY <1>0, <1>8 DEF Find
<1>9. ASSUME NEW t \in Thread, Unlink(t) PROVE HeapInv'
  <2>1. allocations' = allocations \ {node[t]}
    BY <1>9 DEF Unlink, MemInv, LockInv, Critical
  <2> QED
    BY <1>0, <1>9, <2>1 DEF Unlink
<1>10. ASSUME NEW t \in Thread, FreeNode(t) PROVE HeapInv'
  BY <1>0, <1>10 DEF FreeNode, MemInv, OwnerInv, NodeInv
<1>11. ASSUME NEW t \in Thread, FreeBlock(t) PROVE HeapInv'
  BY <1>0, <1>11 DEF FreeBlock, Return, MemInv, OwnerInv, BlockInv
<1>12. ASSUME NEW t \in Thread, Move(t) PROVE HeapInv'
  <2>1. PICK a \in Unused \cup {ptr[t]} :
          /\ heap' = [heap EXCEPT ![ptr[t]] = 0, ![a] = size[t]]
          /\ ptr' = [ptr EXCEPT ![t] = a]
    BY <1>12 DEF Move
  <2>2. /\ pc[t] = "resize" /\ pc' = [pc EXCEPT ![t] = "relabel"]
        /\ UNCHANGED <<allocations, live, node>>
    BY <1>12 DEF Move
  <2> QED
    BY <1>0, <2>1, <2>2
<1>13. ASSUME NEW t \in Thread, MoveFails(t) \/ Relabel(t) PROVE HeapInv'
  <2>1. /\ pc[t] \in {"resize", "relabel"} /\ live' = live \cup {ptr[t]}
        /\ Return(t) /\ UNCHANGED <<heap, allocations>>
    BY <1>13 DEF MoveFails, Relabel
  <2> QED
    BY <1>0, <2>1 DEF Return
<1>14. CASE UNCHANGED memVars
  BY <1>14 DEF memVars
<1> QED
  BY <1>1, <1>2, <1>3, <1>4, <1>5, <1>6, <1>7, <1>8, <1>9, <1>10, <1>11, <1>12, <1>13, <1>14
  DEF MemNext, Call, Step

\* When all calls have returned, by whatever path, nothing is allocated but the
\* blocks that callers hold, and their nodes.
THEOREM NothingLeaks == MemSpec => []NoLeak
<1>1. MemInit => HeapInv
  BY DEF MemInit, HeapInv
<1>2. ASSUME MemInv, HeapInv, \A t \in Thread : pc[t] = "idle" PROVE NoLeak
  <2>1. memLock = NoThread
    BY <1>2 DEF MemInv, HeapTypeOK, LockInv, Critical
  <2>2. {a \in Addr : heap[a] > 0} = live \cup allocations
    BY <1>2 DEF MemInv, HeapTypeOK, OwnerInv, SetInv, HeapInv, OwnsNode, NodeSize
  <2>3. \A m : ~Stale(m)
    BY <1>2 DEF Stale
  <2>4. \A a : Listed(a) <=> a \in live
    BY <1>2 DEF Listed, Takes
  <2>5. {entry[m].ptr : m \in allocations} = live
    BY <1>2, <2>3, <2>4 DEF MemInv, HeapTypeOK, ListInv
  <2> QED
    BY <2>1, <2>2, <2>5 DEF NoLeak
<1>3. MemInv /\ HeapInv => NoLeak
  BY <1>2 DEF NoLeak
<1> QED
  BY <1>1, <1>3, HeapStepInv, MemInvHolds, PTL DEF MemSpec

-----------------------------------------------------------------------------
(* That the calls are those of an allocator. *)

\* A step of one call leaves to callers and to other calls what they have.
LEMMA OthersKeep ==
  ASSUME NEW t \in Thread, MemInv, Call(t) \/ Step(t)
  PROVE  /\ \A b \in live : heap'[b] = heap[b]
         /\ \A u \in Thread \ {t} :
              /\ pc'[u] = pc[u] /\ ptr'[u] = ptr[u]
              /\ size'[u] = size[u] /\ node'[u] = node[u]
              /\ pc[u] # "idle" => heap'[ptr[u]] = heap[ptr[u]]
              /\ pc[u] = "relabel" => entry'[node[u]] = entry[node[u]]
<1> DEFINE Kept ==
      /\ \A b \in live : heap'[b] = heap[b]
      /\ \A u \in Thread \ {t} :
           /\ pc'[u] = pc[u] /\ ptr'[u] = ptr[u]
           /\ size'[u] = size[u] /\ node'[u] = node[u]
           /\ pc[u] # "idle" => heap'[ptr[u]] = heap[ptr[u]]
           /\ pc[u] = "relabel" => entry'[node[u]] = entry[node[u]]
<1> USE DEF MemInv, HeapTypeOK
<1>1. ASSUME NEW n \in Size, Malloc(t, n) PROVE Kept
  BY <1>1 DEF Malloc, Unused, OwnerInv, BlockInv, SetInv
<1>2. CASE MallocNode(t)
  <2>1. \A u \in Thread : pc[u] = "relabel" => node[u] \in allocations
    BY DEF CallInv
  <2> QED
    BY <1>2, <2>1 DEF MallocNode, Unused, OwnerInv, BlockInv, SetInv, NodeSize
<1>3. CASE MallocNodeFails(t)
  BY <1>3 DEF MallocNodeFails, Return, OwnerInv, BlockInv
<1>4. CASE Push(t) \/ Find(t) \/ Unlink(t)
  BY <1>4 DEF Push, Find, Unlink
<1>5. CASE Link(t) \/ MoveFails(t)
  BY <1>5 DEF Link, MoveFails, Return
<1>6. ASSUME NEW a \in Addr, Free(t, a) PROVE Kept
  BY <1>6 DEF Free
<1>7. ASSUME NEW a \in Addr, NEW n \in Size, Realloc(t, a, n) PROVE Kept
  BY <1>7 DEF Realloc
<1>8. CASE FreeNode(t)
  <2>1. pc[t] \in OwnsNode /\ \A u \in Thread : pc[u] = "relabel" => node[u] \in allocations
    BY <1>8 DEF FreeNode, OwnsNode, CallInv
  <2> QED
    BY <1>8, <2>1 DEF FreeNode, OwnerInv, BlockInv, NodeInv
<1>9. CASE FreeBlock(t)
  BY <1>9 DEF FreeBlock, Return, OwnerInv, BlockInv
<1>10. CASE Move(t)
  <2>1. PICK a \in Unused \cup {ptr[t]} :
          /\ heap' = [heap EXCEPT ![ptr[t]] = 0, ![a] = size[t]]
          /\ ptr' = [ptr EXCEPT ![t] = a]
    BY <1>10 DEF Move
  <2>2. pc[t] = "resize" /\ pc' = [pc EXCEPT ![t] = "relabel"]
        /\ UNCHANGED <<entry, live, size, node>>
    BY <1>10 DEF Move
  <2> QED
    BY <2>1, <2>2 DEF Unused, OwnerInv, BlockInv, SetInv
<1>11. CASE Relabel(t)
  BY <1>11 DEF Relabel, Return, LockInv, Critical
<1> QED
  BY <1>1, <1>2, <1>3, <1>4, <1>5, <1>6, <1>7, <1>8, <1>9, <1>10, <1>11 DEF Call, Step

\* So only the call that makes the step changes, for Allocator.
LEMMA OneCallChanges ==
  ASSUME NEW t \in Thread, MemInv, Call(t) \/ Step(t)
  PROVE  [u \in Thread |-> asked(u)]' = [[u \in Thread |-> asked(u)] EXCEPT ![t] = asked(t)']
<1>1. ASSUME NEW u \in Thread \ {t} PROVE asked(u)' = asked(u)
  <2>1. /\ pc'[u] = pc[u] /\ ptr'[u] = ptr[u] /\ size'[u] = size[u] /\ node'[u] = node[u]
        /\ pc[u] # "idle" => heap'[ptr[u]] = heap[ptr[u]]
        /\ pc[u] = "relabel" => entry'[node[u]] = entry[node[u]]
    BY OthersKeep
  <2>2. CASE pc[u] = "relabel"
    BY <2>1, <2>2 DEF asked
  <2>3. CASE pc[u] \in {"find", "unlink", "freenode", "freeblock", "refind", "resize"}
    BY <2>1, <2>3 DEF asked
  <2>4. CASE pc[u] \in {"idle", "node", "push", "link"}
    BY <2>1, <2>4 DEF asked
  <2> QED
    BY <2>2, <2>3, <2>4 DEF MemInv, HeapTypeOK
<1> QED
  BY <1>1

\* A block that a call is about to hand out is nobody else's.
LEMMA HandedOut ==
  ASSUME NEW t \in Thread, MemInv, pc[t] \in {"link", "relabel"}
  PROVE  ptr[t] \in (Addr \ A!Owned) \cup {asked(t).block}
<1>1. ptr[t] \in Addr /\ ptr[t] \notin live
  BY DEF MemInv, OwnerInv, BlockInv
<1>2. ASSUME NEW u \in Thread \ {t} PROVE asked(u).block # ptr[t]
  <2>1. pc[u] # "relabel"
    BY DEF MemInv, LockInv, Critical
  <2>2. asked(u).block = NoAddr \/ (pc[u] # "idle" /\ asked(u).block = ptr[u])
    <3>1. CASE pc[u] \in {"idle", "node", "push", "link"}
      BY <3>1 DEF asked
    <3>2. CASE pc[u] \in {"find", "unlink", "freenode", "freeblock"}
      BY <3>2 DEF asked
    <3>3. CASE pc[u] \in {"refind", "resize"}
      BY <3>3 DEF asked
    <3> QED
      BY <2>1, <3>1, <3>2, <3>3 DEF MemInv, HeapTypeOK
  <2> QED
    BY <1>1, <2>2, MemoryConstants DEF MemInv, OwnerInv, BlockInv
<1>3. DOMAIN heldBlocks = live
  BY DEF heldBlocks
<1> QED
  BY <1>1, <1>2, <1>3 DEF A!Owned

\* Each step is one of Allocator, or changes nothing that callers can tell.
LEMMA AllocatorStep ==
  ASSUME NEW t \in Thread, MemInv, Call(t) \/ Step(t)
  PROVE  [A!Next]_(A!allocatorVars)
<1> DEFINE calls == [u \in Thread |-> asked(u)]
           Same == UNCHANGED <<heldBlocks, calls>>
<1> USE DEF MemInv, HeapTypeOK
<1>1. calls' = [calls EXCEPT ![t] = asked(t)'] /\ calls[t] = asked(t)
  BY OneCallChanges
<1>2. \A b \in live : heap'[b] = heap[b]
  BY OthersKeep
<1>3. live' = live => heldBlocks' = heldBlocks
  BY <1>2 DEF heldBlocks
<1>4. asked(t)' = asked(t) /\ live' = live => Same
  BY <1>1, <1>3
<1> HIDE DEF calls
<1>5. ASSUME NEW n \in Size, Malloc(t, n) PROVE A!Malloc(t, n)
  <2>1. asked(t) = A!NoCall
    BY <1>5 DEF Malloc, asked, A!NoCall
  <2>2. asked(t)' = [what |-> "malloc", block |-> NoAddr, size |-> 0,
                     wanted |-> IF n = 0 THEN 1 ELSE n]
    BY <1>5 DEF Malloc, asked, AtLeast1
  <2>3. heldBlocks' = heldBlocks
    BY <1>3, <1>5 DEF Malloc
  <2> QED
    BY <1>1, <2>1, <2>2, <2>3 DEF A!Malloc, A!Begins, calls
<1>6. ASSUME MallocNode(t) \/ Push(t) PROVE Same
  <2>1. asked(t)' = asked(t)
    BY <1>6 DEF MallocNode, Push, asked
  <2> QED
    BY <1>4, <1>6, <2>1 DEF MallocNode, Push
<1>7. ASSUME MallocNodeFails(t) PROVE A!MallocFails(t)
  <2>1. asked(t).what = "malloc" /\ asked(t)' = A!NoCall
    BY <1>7 DEF MallocNodeFails, Return, asked, A!NoCall
  <2> QED
    BY <1>1, <1>3, <1>7, <2>1 DEF MallocNodeFails, A!MallocFails, A!Ends, calls
<1>8. ASSUME Link(t) PROVE A!MallocReturns(t, ptr[t])
  <2>1. asked(t).what = "malloc" /\ asked(t).wanted = heap[ptr[t]] /\ asked(t).block = NoAddr
    BY <1>8 DEF Link, asked, CallInv
  <2>2. asked(t)' = A!NoCall
    BY <1>8 DEF Link, Return, asked, A!NoCall
  <2>3. live' = live \cup {ptr[t]} /\ heap' = heap /\ ptr[t] \in Addr
    BY <1>8 DEF Link, OwnerInv, BlockInv
  <2>4. heldBlocks' = [b \in DOMAIN heldBlocks \cup {ptr[t]} |->
                         IF b = ptr[t] THEN heap[ptr[t]] ELSE heldBlocks[b]]
    BY <2>3 DEF heldBlocks
  <2>5. ptr[t] \in Addr \ A!Owned
    BY <1>8, <2>1, <2>3, HandedOut, MemoryConstants DEF Link
  <2> QED
    BY <1>1, <2>1, <2>2, <2>4, <2>5 DEF A!MallocReturns, A!Gets, A!Ends, calls
<1>9. ASSUME NEW a \in Addr, Free(t, a) PROVE A!Free(t, a)
  <2>1. a \in live /\ live' = live \ {a} /\ heap' = heap
    BY <1>9 DEF Free
  <2>2. asked(t) = A!NoCall
    BY <1>9 DEF Free, asked, A!NoCall
  <2>3. asked(t)' = [what |-> "free", block |-> a, size |-> heap[a], wanted |-> 0]
    BY <1>9 DEF Free, asked
  <2>4. heldBlocks' = [b \in DOMAIN heldBlocks \ {a} |-> heldBlocks[b]]
        /\ a \in DOMAIN heldBlocks /\ heldBlocks[a] = heap[a]
    BY <2>1 DEF heldBlocks
  <2> QED
    BY <1>1, <2>2, <2>3, <2>4 DEF A!Free, A!Begins, A!PassesOn, calls
<1>10. ASSUME NEW a \in Addr, NEW n \in Size, Realloc(t, a, n) PROVE A!Realloc(t, a, n)
  <2>1. a \in live /\ live' = live \ {a} /\ heap' = heap /\ n > 0
    BY <1>10 DEF Realloc
  <2>2. asked(t) = A!NoCall
    BY <1>10 DEF Realloc, asked, A!NoCall
  <2>3. asked(t)' = [what |-> "realloc", block |-> a, size |-> heap[a], wanted |-> n]
    BY <1>10 DEF Realloc, asked
  <2>4. heldBlocks' = [b \in DOMAIN heldBlocks \ {a} |-> heldBlocks[b]]
        /\ a \in DOMAIN heldBlocks /\ heldBlocks[a] = heap[a]
    BY <2>1 DEF heldBlocks
  <2> QED
    BY <1>1, <2>1, <2>2, <2>3, <2>4 DEF A!Realloc, A!Begins, A!PassesOn, calls
<1>11. ASSUME Find(t) \/ Unlink(t) PROVE Same
  <2>1. asked(t)' = asked(t)
    BY <1>11 DEF Find, Unlink, asked
  <2> QED
    BY <1>4, <1>11, <2>1 DEF Find, Unlink
<1>12. ASSUME FreeNode(t) PROVE Same
  <2>1. pc[t] = "freenode" /\ heap'[ptr[t]] = heap[ptr[t]]
    BY <1>12 DEF FreeNode, OwnerInv, BlockInv, OwnsNode
  <2>2. asked(t)' = asked(t)
    BY <1>12, <2>1 DEF FreeNode, asked
  <2> QED
    BY <1>4, <1>12, <2>2 DEF FreeNode
<1>13. ASSUME FreeBlock(t) PROVE A!FreeReturns(t)
  <2>1. asked(t).what = "free" /\ asked(t)' = A!NoCall
    BY <1>13 DEF FreeBlock, Return, asked, A!NoCall
  <2> QED
    BY <1>1, <1>3, <1>13, <2>1 DEF FreeBlock, A!FreeReturns, A!Ends, calls
<1>14. ASSUME Move(t) PROVE Same
  <2>1. /\ pc[t] = "resize" /\ pc'[t] = "relabel" /\ memLock = t
        /\ UNCHANGED <<entry, live, size, node>>
    BY <1>14 DEF Move, LockInv, Critical
  <2>2. node[t] \in allocations /\ entry[node[t]].ptr = ptr[t]
    BY <2>1 DEF CallInv
  <2>3. heap[ptr[t]] = entry[node[t]].size
    BY <2>1, <2>2, NoneStale DEF ListInv
  <2>4. asked(t)' = asked(t)
    BY <2>1, <2>2, <2>3 DEF asked
  <2> QED
    BY <1>4, <2>1, <2>4
<1>15. ASSUME MoveFails(t) PROVE A!ReallocFails(t)
  <2>1. live' = live \cup {ptr[t]} /\ heap' = heap
    BY <1>15 DEF MoveFails
  <2>2. /\ asked(t).what = "realloc" /\ asked(t).block = ptr[t]
        /\ asked(t).size = heap[ptr[t]] /\ asked(t)' = A!NoCall
    BY <1>15 DEF MoveFails, Return, asked, A!NoCall
  <2>3. heldBlocks' = [b \in DOMAIN heldBlocks \cup {ptr[t]} |->
                         IF b = ptr[t] THEN heap[ptr[t]] ELSE heldBlocks[b]]
    BY <2>1 DEF heldBlocks
  <2> QED
    BY <1>1, <2>2, <2>3 DEF A!ReallocFails, A!Gets, A!Ends, calls
<1>16. ASSUME Relabel(t) PROVE A!ReallocReturns(t, ptr[t])
  <2>1. live' = live \cup {ptr[t]} /\ heap' = heap /\ heap[ptr[t]] = size[t]
        /\ pc[t] = "relabel" /\ ptr[t] \in Addr
    BY <1>16 DEF Relabel, CallInv, OwnerInv, BlockInv
  <2>2. asked(t).what = "realloc" /\ asked(t).wanted = heap[ptr[t]] /\ asked(t)' = A!NoCall
    BY <1>16, <2>1 DEF Relabel, Return, asked, A!NoCall
  <2>3. heldBlocks' = [b \in DOMAIN heldBlocks \cup {ptr[t]} |->
                         IF b = ptr[t] THEN heap[ptr[t]] ELSE heldBlocks[b]]
    BY <2>1 DEF heldBlocks
  <2> QED
    BY <1>1, <2>1, <2>2, <2>3, HandedOut DEF A!ReallocReturns, A!Gets, A!Ends, calls
<1>17. Same => UNCHANGED A!allocatorVars
  BY DEF calls, A!allocatorVars
<1>18. \A u \in Thread : pc[u] # "idle" => ptr[u] \in Addr
  BY DEF OwnerInv, BlockInv
<1>19. CASE Call(t)
  BY <1>5, <1>9, <1>10, <1>19 DEF Call, A!Next
<1>20. CASE Link(t) \/ Relabel(t)
  BY <1>8, <1>16, <1>18, <1>20 DEF Link, Relabel, A!Next
<1> QED
  BY <1>6, <1>7, <1>11, <1>12, <1>13, <1>14, <1>15, <1>17, <1>19, <1>20 DEF Step, A!Next

\* The allocator of fce_memory.c, with its list and its lock, is the one of module
\* Allocator: however calls overlap, each hands out in one step a block that nobody has,
\* with the size asked for, or leaves its caller what it had.
THEOREM AllocatorImplemented == MemSpec => ImplementsAllocator
<1>1. MemInit => A!Init
  <2> SUFFICES ASSUME MemInit PROVE A!Init
    OBVIOUS
  <2>1. heldBlocks = [a \in {} |-> 0]
    BY DEF MemInit, heldBlocks
  <2>2. \A t \in Thread : asked(t) = A!NoCall
    BY DEF MemInit, asked, A!NoCall
  <2> QED
    BY <2>1, <2>2 DEF A!Init
<1>2. MemInv /\ [MemNext]_memVars => [A!Next]_(A!allocatorVars)
  <2>1. ASSUME UNCHANGED memVars PROVE UNCHANGED A!allocatorVars
    BY <2>1 DEF memVars, A!allocatorVars, heldBlocks, asked
  <2> QED
    BY <2>1, AllocatorStep DEF MemNext
<1> QED
  BY <1>1, <1>2, MemInvHolds, PTL DEF MemSpec, ImplementsAllocator, A!Spec

=============================================================================
