------------------------------- MODULE Memory -------------------------------
(***************************************************************************)
(* The tracked allocator of fce_memory.c: fce_xmalloc, fce_xrealloc and    *)
(* fce_free of several threads.  Every block has a node in the list        *)
(* g_allocations.  The list and the statistics change under g_memory_lock; *)
(* malloc and free of the C library are called outside it, realloc inside. *)
(*                                                                         *)
(* The list is used as a set: nothing depends on its order.  Calls are     *)
(* those of correct callers, who pass on only blocks that they hold.       *)
(* fce_xcalloc is fce_xmalloc; fce_xrealloc of NULL is fce_xmalloc and     *)
(* with size 0 it is fce_free.                                             *)
(***************************************************************************)
EXTENDS Integers, FiniteSets

CONSTANTS
  Thread,
  Addr,       \* places in the heap of the C library
  Size,       \* sizes asked for
  NoThread, NoAddr,
  MaxAllocs   \* bound: no malloc once so many blocks have been tracked

ASSUME MemoryConstants ==
  /\ Size \subseteq Nat
  /\ NoThread \notin Thread /\ NoAddr \notin Addr
  /\ MaxAllocs \in Nat

VARIABLES
  heap,              \* the size of the block at an address, 0 if it is free
  entry,             \* what a node at an address says
  allocations,       \* g_allocations: the nodes of the list
  stats,             \* g_mem_stats
  memLock,           \* g_memory_lock
  live,              \* the blocks that callers hold
  pc, ptr, size,     \* of each thread: its call and the block it is about,
  node,              \* the node it made or found,
  seen               \* and the list as it was when it looked

memVars == <<heap, entry, allocations, stats, memLock, live, pc, ptr, size, node, seen>>

NodeSize == 1
NoEntry == [ptr |-> NoAddr, size |-> 0]
Unused == {a \in Addr : heap[a] = 0}
AtLeast1(n) == IF n = 0 THEN 1 ELSE n

MemInit ==
  /\ heap = [a \in Addr |-> 0]
  /\ entry = [a \in Addr |-> NoEntry]
  /\ allocations = {}
  /\ stats = [activeAllocations |-> 0, totalAllocations |-> 0, totalFrees |-> 0,
              activeBytes |-> 0, peakBytes |-> 0]
  /\ memLock = NoThread
  /\ live = {}
  /\ pc = [t \in Thread |-> "idle"]
  /\ ptr = [t \in Thread |-> NoAddr] /\ node = [t \in Thread |-> NoAddr]
  /\ size = [t \in Thread |-> 0]
  /\ seen = [t \in Thread |-> {}]

\* The call returns, and its local variables are gone.
Return(t) ==
  /\ pc' = [pc EXCEPT ![t] = "idle"]
  /\ ptr' = [ptr EXCEPT ![t] = NoAddr] /\ node' = [node EXCEPT ![t] = NoAddr]
  /\ size' = [size EXCEPT ![t] = 0]
  /\ seen' = [seen EXCEPT ![t] = {}]

Bigger(a, b) == IF a > b THEN a ELSE b

\* stats with active_bytes changed, and peak_bytes with it.
WithBytes(s, bytes) ==
  [s EXCEPT !.activeBytes = bytes, !.peakBytes = Bigger(@, bytes)]

-----------------------------------------------------------------------------
(* fce_xmalloc *)

\* The block; if there is none, NULL is returned and nothing has changed.
Malloc(t, n) ==
  /\ pc[t] = "idle" /\ stats.totalAllocations < MaxAllocs
  /\ \E a \in Unused :
       /\ heap' = [heap EXCEPT ![a] = AtLeast1(n)]
       /\ ptr' = [ptr EXCEPT ![t] = a]
  /\ size' = [size EXCEPT ![t] = AtLeast1(n)]
  /\ pc' = [pc EXCEPT ![t] = "node"]
  /\ UNCHANGED <<entry, allocations, stats, memLock, live, node, seen>>

MallocNode(t) ==
  /\ pc[t] = "node"
  /\ \E a \in Unused :
       /\ heap' = [heap EXCEPT ![a] = NodeSize]
       /\ entry' = [entry EXCEPT ![a] = [ptr |-> ptr[t], size |-> size[t]]]
       /\ node' = [node EXCEPT ![t] = a]
  /\ pc' = [pc EXCEPT ![t] = "push"]
  /\ UNCHANGED <<allocations, stats, memLock, live, ptr, size, seen>>

\* No memory for the node: the block is given back and NULL returned.
MallocNodeFailsLeak(t) ==   \* mutant: the block is not given back
  /\ pc[t] = "node"
  /\ Return(t)
  /\ UNCHANGED <<heap, entry, allocations, stats, memLock, live>>

MallocNodeFails(t) ==
  /\ pc[t] = "node"
  /\ heap' = [heap EXCEPT ![ptr[t]] = 0]
  /\ Return(t)
  /\ UNCHANGED <<entry, allocations, stats, memLock, live>>

PushUnlocked(t) ==    \* mutant: the head of the list is read before the lock is taken
  /\ pc[t] = "push"
  /\ seen' = [seen EXCEPT ![t] = allocations]
  /\ pc' = [pc EXCEPT ![t] = "link"]
  /\ UNCHANGED <<heap, entry, allocations, stats, memLock, live, ptr, size, node>>

Push(t) ==
  /\ pc[t] = "push" /\ memLock = NoThread
  /\ memLock' = t
  /\ seen' = [seen EXCEPT ![t] = allocations]
  /\ pc' = [pc EXCEPT ![t] = "link"]
  /\ UNCHANGED <<heap, entry, allocations, stats, live, ptr, size, node>>

Link(t) ==
  /\ pc[t] = "link"
  /\ allocations' = seen[t] \cup {node[t]}
  /\ stats' = WithBytes([stats EXCEPT !.activeAllocations = @ + 1,
                                      !.totalAllocations = @ + 1],
                        stats.activeBytes + size[t])
  /\ memLock' = NoThread
  /\ live' = live \cup {ptr[t]}
  /\ Return(t)
  /\ UNCHANGED <<heap, entry>>

-----------------------------------------------------------------------------
(* fce_free and fce_xrealloc *)

NodesOf(a) == {m \in allocations : entry[m].ptr = a}

FreeBlockFirst(t, a) ==   \* mutant: free(ptr) comes before its node is unlinked
  /\ pc[t] = "idle" /\ a \in live
  /\ live' = live \ {a}
  /\ heap' = [heap EXCEPT ![a] = 0]
  /\ ptr' = [ptr EXCEPT ![t] = a]
  /\ pc' = [pc EXCEPT ![t] = "find"]
  /\ UNCHANGED <<entry, allocations, stats, memLock, size, node, seen>>

Free(t, a) ==
  /\ pc[t] = "idle" /\ a \in live
  /\ live' = live \ {a}
  /\ ptr' = [ptr EXCEPT ![t] = a]
  /\ pc' = [pc EXCEPT ![t] = "find"]
  /\ UNCHANGED <<heap, entry, allocations, stats, memLock, size, node, seen>>

Realloc(t, a, n) ==
  /\ pc[t] = "idle" /\ a \in live /\ n > 0
  /\ live' = live \ {a}
  /\ ptr' = [ptr EXCEPT ![t] = a]
  /\ size' = [size EXCEPT ![t] = n]
  /\ pc' = [pc EXCEPT ![t] = "refind"]
  /\ UNCHANGED <<heap, entry, allocations, stats, memLock, node, seen>>

\* find_allocation, under the lock.  Tracked says that it finds a node; without
\* one fce_xrealloc would return NULL and fce_free only call free(ptr).
FindUnlocked(t) ==    \* mutant: the lock is not kept for what follows
  /\ pc[t] \in {"find", "refind"} /\ memLock = NoThread
  /\ node' \in {[node EXCEPT ![t] = m] : m \in NodesOf(ptr[t])}
  /\ seen' = [seen EXCEPT ![t] = allocations]
  /\ pc' = [pc EXCEPT ![t] = IF pc[t] = "find" THEN "unlink" ELSE "resize"]
  /\ UNCHANGED <<heap, entry, allocations, stats, memLock, live, ptr, size>>

Find(t) ==
  /\ pc[t] \in {"find", "refind"} /\ memLock = NoThread
  /\ memLock' = t
  /\ node' \in {[node EXCEPT ![t] = m] : m \in NodesOf(ptr[t])}
  /\ seen' = [seen EXCEPT ![t] = allocations]
  /\ pc' = [pc EXCEPT ![t] = IF pc[t] = "find" THEN "unlink" ELSE "resize"]
  /\ UNCHANGED <<heap, entry, allocations, stats, live, ptr, size>>

Unlink(t) ==
  /\ pc[t] = "unlink"
  /\ allocations' = seen[t] \ {node[t]}
  /\ stats' = LET s == entry[node[t]].size
              IN [stats EXCEPT
                    !.activeAllocations = IF @ > 0 THEN @ - 1 ELSE @,
                    !.activeBytes = IF @ >= s THEN @ - s ELSE @,
                    !.totalFrees = @ + 1]
  /\ memLock' = NoThread
  /\ pc' = [pc EXCEPT ![t] = "freenode"]
  /\ UNCHANGED <<heap, entry, live, ptr, size, node, seen>>

\* free(node), then free(ptr), without the lock.
FreeNode(t) ==
  /\ pc[t] = "freenode"
  /\ heap' = [heap EXCEPT ![node[t]] = 0]
  /\ entry' = [entry EXCEPT ![node[t]] = NoEntry]
  /\ pc' = [pc EXCEPT ![t] = "freeblock"]
  /\ UNCHANGED <<allocations, stats, memLock, live, ptr, size, node, seen>>

FreeBlock(t) ==
  /\ pc[t] = "freeblock"
  /\ heap' = [heap EXCEPT ![ptr[t]] = 0]
  /\ Return(t)
  /\ UNCHANGED <<entry, allocations, stats, memLock, live>>

\* realloc moves the block, or leaves it in its place.
Move(t) ==
  /\ pc[t] = "resize"
  /\ \E a \in Unused \cup {ptr[t]} :
       /\ heap' = [heap EXCEPT ![ptr[t]] = 0, ![a] = size[t]]
       /\ ptr' = [ptr EXCEPT ![t] = a]
  /\ pc' = [pc EXCEPT ![t] = "relabel"]
  /\ UNCHANGED <<entry, allocations, stats, memLock, live, size, node, seen>>

\* realloc has no memory: the caller gets NULL and keeps the block.
MoveFails(t) ==
  /\ pc[t] = "resize"
  /\ memLock' = NoThread
  /\ live' = live \cup {ptr[t]}
  /\ Return(t)
  /\ UNCHANGED <<heap, entry, allocations, stats>>

Relabel(t) ==
  /\ pc[t] = "relabel"
  /\ entry' = [entry EXCEPT ![node[t]] = [ptr |-> ptr[t], size |-> size[t]]]
  /\ stats' = WithBytes(stats, stats.activeBytes + size[t] - entry[node[t]].size)
  /\ memLock' = NoThread
  /\ live' = live \cup {ptr[t]}
  /\ Return(t)
  /\ UNCHANGED <<heap, allocations>>

Call(t) ==
  \/ \E n \in Size : Malloc(t, n)
  \/ \E a \in Addr : Free(t, a)
  \/ \E a \in Addr, n \in Size : Realloc(t, a, n)

Step(t) ==
  \/ MallocNode(t) \/ MallocNodeFails(t) \/ Push(t) \/ Link(t)
  \/ Find(t) \/ Unlink(t) \/ FreeNode(t) \/ FreeBlock(t)
  \/ Move(t) \/ MoveFails(t) \/ Relabel(t)

MemNext == \E t \in Thread : Call(t) \/ Step(t)

MemSpec == MemInit /\ [][MemNext]_memVars

-----------------------------------------------------------------------------
HeapTypeOK ==
  /\ heap \in [Addr -> Nat]
  /\ entry \in [Addr -> [ptr : Addr \cup {NoAddr}, size : Nat]]
  /\ allocations \subseteq Addr /\ live \subseteq Addr
  /\ memLock \in Thread \cup {NoThread}
  /\ pc \in [Thread -> {"idle", "node", "push", "link", "find", "refind", "unlink",
                        "freenode", "freeblock", "resize", "relabel"}]
  /\ ptr \in [Thread -> Addr \cup {NoAddr}] /\ node \in [Thread -> Addr \cup {NoAddr}]
  /\ size \in [Thread -> Nat] /\ seen \in [Thread -> SUBSET Addr]

\* The statistics are unsigned: none of them goes below zero.
MemTypeOK ==
  /\ HeapTypeOK
  /\ stats \in [{"activeAllocations", "totalAllocations", "totalFrees",
                 "activeBytes", "peakBytes"} -> Nat]

\* While nobody is inside the lock, each node of the list describes one
\* allocated block, no two the same, and every block in the hands of a caller
\* has one: its size is known and fce_free and fce_xrealloc will find it.
Tracked ==
  memLock = NoThread =>
    /\ \A m \in allocations : heap[m] = NodeSize /\ heap[entry[m].ptr] = entry[m].size
    /\ \A m, n \in allocations : m # n => entry[m].ptr # entry[n].ptr
    /\ \A a \in live : NodesOf(a) # {}

\* The blocks and nodes that a call has to itself: not yet in the list, or out of it.
Private(t) ==
  CASE pc[t] \in {"push", "link", "freenode"} -> {ptr[t], node[t]}
    [] pc[t] \in {"node", "freeblock", "relabel"} -> {ptr[t]}
    [] OTHER -> {}

\* What is given to free() is allocated, and nobody else has or knows it: no
\* double free, no use after free, in any interleaving.
FreedOnce ==
  \A t \in Thread : \A a \in Private(t) :
    /\ heap[a] > 0
    /\ a \notin live /\ a \notin allocations
    /\ \A u \in Thread \ {t} : a \notin Private(u)

\* The bytes of the blocks that nodes describe, each byte with its node.
Bytes(nodes) == UNION {{m} \X (1 .. entry[m].size) : m \in nodes}

\* While nobody is inside the lock the statistics are those of the list: "The
\* internal allocator, memory statistics, and arena bookkeeping are protected
\* for concurrent API calls" (docs/API.md:21).  None of them
\* ever goes below zero, where it would wrap.
StatsExact ==
  /\ MemTypeOK
  /\ memLock = NoThread =>
       /\ stats.activeAllocations = Cardinality(allocations)
       /\ stats.activeAllocations = stats.totalAllocations - stats.totalFrees
       /\ stats.activeBytes = Cardinality(Bytes(allocations))
       /\ stats.peakBytes >= stats.activeBytes

\* When all calls have returned, by whatever path, the mutex is free and nothing
\* is allocated but what callers hold, and its nodes.
NoLeak ==
  (\A t \in Thread : pc[t] = "idle") =>
    /\ memLock = NoThread
    /\ {a \in Addr : heap[a] > 0} = live \cup allocations
    /\ {entry[m].ptr : m \in allocations} = live

-----------------------------------------------------------------------------
(* The allocator of module Allocator, as the calls stand. *)

\* What a caller has is what the C library's heap has at its address.
heldBlocks == [a \in live |-> heap[a]]

\* Until its node is updated, a block that was moved is the one passed on.
asked(t) ==
  LET Asks(what, a, old, n) == [what |-> what, block |-> a, size |-> old, wanted |-> n] IN
  CASE pc[t] \in {"node", "push", "link"} -> Asks("malloc", NoAddr, 0, size[t])
    [] pc[t] \in {"find", "unlink", "freenode", "freeblock"} ->
         Asks("free", ptr[t], heap[ptr[t]], 0)
    [] pc[t] \in {"refind", "resize"} -> Asks("realloc", ptr[t], heap[ptr[t]], size[t])
    [] pc[t] = "relabel" -> Asks("realloc", entry[node[t]].ptr, entry[node[t]].size, size[t])
    [] OTHER -> Asks("none", NoAddr, 0, 0)

A == INSTANCE Allocator WITH held <- heldBlocks, call <- [t \in Thread |-> asked(t)]

\* However the calls overlap, and though only some of their steps are under the
\* lock, each call is one step in the end: its caller gets a block that was
\* nobody's or keeps what it had (Arena and CacheStore take it for that).
ImplementsAllocator == A!Spec

=============================================================================
