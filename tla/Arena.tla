-------------------------------- MODULE Arena ---------------------------------
(***************************************************************************)
(* The arena of a reader, from fce_reader_open to fce_reader_close: blocks *)
(* and mapped files enter its two lists while the reader is opened and     *)
(* while threads get values that must be decoded, and go with the arena.   *)
(* (Arenas of builders and iterators: the same calls without the files.)   *)
(*                                                                         *)
(* fce_xmalloc gives the lowest free block, or fails at any time: Memory.  *)
(* A file descriptor does not outlive the step that opens it.  The threads *)
(* are the application's: they use a reader that is open, and it is closed *)
(* when none of them is in a call.                                         *)
(***************************************************************************)
EXTENDS Integers, FiniteSetsExt

CONSTANTS
  Worker,    \* the threads that get values; the Opener opens and closes
  Block,     \* the blocks of fce_xmalloc
  Files,     \* 4 in the code: index, keys, values and log
  MaxGets    \* bound: gets while a reader is open

Opener == 0
Nil == 0
NoTask == -1
Tasks == Worker \cup {Opener}

ASSUME ArenaConstants ==
  /\ Worker \subseteq Nat \ {Opener} /\ Block \subseteq Nat \ {Nil}
  /\ Files \in Nat /\ MaxGets \in Nat

VARIABLES
  blocks,      \* the blocks that are allocated
  cell,        \* a list node in a block: what it is about, and the next one
  head,        \* a->ptrs and a->cleanups
  arenaLock,   \* the thread that holds a->lock, or NoTask
  owner, arena,   \* the blocks of the reader and of its arena, or Nil
  mapped,      \* the files that are mapped
  cacheHeld,   \* the cache's lock is held by the reader
  life,        \* where the opener is
  loading,     \* the file to be loaded next
  task,        \* of each thread: its call, the block or file it is about, its node
  handed,      \* what callers hold: blocks, and mapped files as negative numbers
  gets

arenaVars == <<blocks, cell, head, arenaLock, owner, arena, mapped, cacheHeld,
               life, loading, task, handed, gets>>

Garbage == [of |-> Nil, next |-> Nil]
Idle == [step |-> "idle", list |-> "ptrs", of |-> Nil, node |-> Nil]

ArenaInit ==
  /\ blocks = {} /\ cell = [b \in Block |-> Garbage]
  /\ head = [ptrs |-> Nil, cleanups |-> Nil] /\ arenaLock = NoTask
  /\ owner = Nil /\ arena = Nil /\ mapped = {} /\ cacheHeld = FALSE
  /\ life = "closed" /\ loading = 1
  /\ task = [t \in Tasks |-> Idle] /\ handed = {} /\ gets = 0

Fresh == Min(Block \ blocks)
CanAllocate == Block \ blocks # {}

FreeBlocks(freed) ==
  /\ blocks' = blocks \ freed
  /\ cell' = [b \in Block |-> IF b \in freed THEN Garbage ELSE cell[b]]

At(t, s) == task[t].step = s

\* Thread t: its next step, the start of a call for one of the lists, the end of a
\* call (the opener looks at its result, workers are done).
ProceedTo(t, s) == task' = [task EXCEPT ![t].step = s]
Calls(t, list, s) == task' = [task EXCEPT ![t] = [Idle EXCEPT !.step = s, !.list = list]]
Leaves(t, s) ==
  task' = [task EXCEPT ![t] = [Idle EXCEPT !.step = IF t = Opener THEN s ELSE "idle"]]

listsKept == <<head, arenaLock>>
ownerKept == <<owner, arena, cacheHeld, loading>>

-----------------------------------------------------------------------------
(* fce_arena_alloc (the list "ptrs") and fce_arena_register_cleanup of a   *)
(* mapped file (the list "cleanups").                                      *)

\* A file is mapped; what its cleanup is about is its block, MapCleanup, in which
\* `of' is the file.
MapFile ==
  /\ At(Opener, "map")
  /\ mapped' = mapped \cup {loading}
  /\ ProceedTo(Opener, "block")
  /\ UNCHANGED <<blocks, cell, listsKept, ownerKept, life, handed, gets>>

AllocateBlock(t) ==
  /\ At(t, "block") /\ CanAllocate
  /\ blocks' = blocks \cup {Fresh}
  /\ cell' = [cell EXCEPT ![Fresh].of = IF task[t].list = "cleanups" THEN loading ELSE Nil]
  /\ task' = [task EXCEPT ![t].step = "node", ![t].of = Fresh]
  /\ UNCHANGED <<listsKept, ownerKept, mapped, life, handed, gets>>

AllocateNode(t) ==
  /\ At(t, "node") /\ CanAllocate
  /\ blocks' = blocks \cup {Fresh}
  /\ cell' = [cell EXCEPT ![Fresh].of = task[t].of]
  /\ task' = [task EXCEPT ![t].step = "lock", ![t].node = Fresh]
  /\ UNCHANGED <<listsKept, ownerKept, mapped, life, handed, gets>>

TakeArenaUnlocked(t) ==   \* mutant: the list is changed without the lock
  /\ At(t, "lock")
  /\ ProceedTo(t, "link")
  /\ UNCHANGED <<blocks, cell, head, arenaLock, ownerKept, mapped, life, handed, gets>>

TakeArena(t) ==
  /\ At(t, "lock") /\ arenaLock = NoTask
  /\ arenaLock' = t
  /\ ProceedTo(t, "link")
  /\ UNCHANGED <<blocks, cell, head, ownerKept, mapped, life, handed, gets>>

LinkNode(t) ==
  /\ At(t, "link")
  /\ cell' = [cell EXCEPT ![task[t].node].next = head[task[t].list]]
  /\ ProceedTo(t, "publish")
  /\ UNCHANGED <<blocks, listsKept, ownerKept, mapped, life, handed, gets>>

\* What the caller gets: a block, or a mapped file.
Result(t) == IF task[t].list = "cleanups" THEN -loading ELSE task[t].of

PublishNode(t) ==
  /\ At(t, "publish")
  /\ head' = [head EXCEPT ![task[t].list] = task[t].node]
  /\ arenaLock' = NoTask
  /\ handed' = handed \cup {Result(t)}
  /\ Leaves(t, "ok")
  /\ UNCHANGED <<blocks, cell, ownerKept, mapped, life, gets>>

\* Memory, the mapping or the lock fails: what the call has is given back.
GivenBack(t) == {task[t].of, task[t].node} \cap blocks

CallFails(t) ==
  /\ task[t].step \in {"map", "block", "node", "lock"}
  /\ FreeBlocks(GivenBack(t))
  /\ mapped' = IF task[t].list = "cleanups" THEN mapped \ {loading} ELSE mapped
  /\ Leaves(t, "failed")
  /\ UNCHANGED <<listsKept, ownerKept, life, handed, gets>>

-----------------------------------------------------------------------------
(* fce_reader_open_expected *)

Enters(s) == life' = s

OpenCalled ==
  /\ life = "closed" /\ CanAllocate
  /\ owner' = Fresh /\ blocks' = blocks \cup {Fresh}
  /\ Enters("arena")
  /\ UNCHANGED <<cell, listsKept, arena, cacheHeld, loading, mapped, task, handed, gets>>

\* fce_arena_create
MakeArena ==
  /\ life = "arena" /\ CanAllocate
  /\ arena' = Fresh /\ blocks' = blocks \cup {Fresh}
  /\ Enters("cache_dir")
  /\ Calls(Opener, "ptrs", "block")
  /\ UNCHANGED <<cell, listsKept, owner, cacheHeld, loading, mapped, handed, gets>>

\* No arena, or no lock in it.
MakeArenaFails ==
  /\ life = "arena"
  /\ FreeBlocks({owner}) /\ owner' = Nil
  /\ Enters("closed")
  /\ UNCHANGED <<listsKept, arena, cacheHeld, loading, mapped, task, handed, gets>>

TakeCacheLock ==
  /\ life = "cache_dir" /\ At(Opener, "ok")
  /\ cacheHeld' = TRUE
  /\ Enters("load") /\ ProceedTo(Opener, "idle")
  /\ UNCHANGED <<blocks, cell, listsKept, owner, arena, loading, mapped, handed, gets>>

\* read_file_arena: a file that is missing, empty or read into memory, or mapped.
LoadFile(how) ==
  /\ life = "load" /\ At(Opener, "idle") /\ loading <= Files
  /\ CASE how = "missing" -> ProceedTo(Opener, "ok")
       [] how = "heap"    -> Calls(Opener, "ptrs", "block")
       [] how = "mapped"  -> Calls(Opener, "cleanups", "map")
  /\ UNCHANGED <<blocks, cell, listsKept, ownerKept, mapped, life, handed, gets>>

FileLoaded ==
  /\ life = "load" /\ At(Opener, "ok")
  /\ loading' = loading + 1 /\ ProceedTo(Opener, "idle")
  /\ UNCHANGED <<blocks, cell, listsKept, owner, arena, cacheHeld, mapped, life, handed, gets>>

OpenReturns ==
  /\ life = "load" /\ At(Opener, "idle") /\ loading > Files
  /\ Enters("open")
  /\ UNCHANGED <<blocks, cell, listsKept, ownerKept, mapped, task, handed, gets>>

\* Any step of the opening fails: the lock, a file, the validation.
OpenFails ==
  /\ \/ life = "cache_dir" /\ task[Opener].step \in {"ok", "failed"}
     \/ life = "load" /\ task[Opener].step \in {"idle", "failed"}
  /\ Enters("close") /\ ProceedTo(Opener, "idle")
  /\ UNCHANGED <<blocks, cell, listsKept, ownerKept, mapped, handed, gets>>

-----------------------------------------------------------------------------
(* The reader is open: fce_reader_get of a value with a codec copies the   *)
(* decoded value into the arena.                                           *)

GetDecoded(t) ==
  /\ life = "open" /\ At(t, "idle") /\ gets < MaxGets
  /\ gets' = gets + 1
  /\ Calls(t, "ptrs", "block")
  /\ UNCHANGED <<blocks, cell, listsKept, ownerKept, mapped, life, handed>>

CloseCalled ==
  /\ life = "open" /\ \A t \in Worker : At(t, "idle")
  /\ Enters("close")
  /\ UNCHANGED <<blocks, cell, listsKept, ownerKept, mapped, task, handed, gets>>

-----------------------------------------------------------------------------
(* fce_reader_close: fce_arena_destroy, then the cache's lock, then the    *)
(* reader.                                                                 *)

DetachUnlocked ==    \* mutant: the cache's lock is released first
  /\ life = "close" /\ arenaLock = NoTask
  /\ task' = [task EXCEPT ![Opener].of = head.cleanups, ![Opener].node = head.ptrs]
  /\ head' = [ptrs |-> Nil, cleanups |-> Nil]
  /\ handed' = {} /\ cacheHeld' = FALSE
  /\ Enters("destroy")
  /\ UNCHANGED <<blocks, cell, arenaLock, owner, arena, loading, mapped, gets>>

\* The lists are taken out of the arena; callers lose what they hold.
Detach ==
  /\ life = "close" /\ arenaLock = NoTask
  /\ task' = [task EXCEPT ![Opener].of = head.cleanups, ![Opener].node = head.ptrs]
  /\ head' = [ptrs |-> Nil, cleanups |-> Nil]
  /\ handed' = {}
  /\ Enters("destroy")
  /\ UNCHANGED <<blocks, cell, arenaLock, ownerKept, mapped, gets>>

\* map_cleanup of what the first cleanup is about.
RunCleanup ==
  LET c == task[Opener].of IN
  /\ life = "destroy" /\ c # Nil
  /\ mapped' = mapped \ {cell[cell[c].of].of}
  /\ FreeBlocks({c, cell[c].of})
  /\ task' = [task EXCEPT ![Opener].of = cell[c].next]
  /\ UNCHANGED <<listsKept, ownerKept, life, handed, gets>>

FreePtr ==
  LET p == task[Opener].node IN
  /\ life = "destroy" /\ task[Opener].of = Nil /\ p # Nil
  /\ FreeBlocks({p, cell[p].of})
  /\ task' = [task EXCEPT ![Opener].node = cell[p].next]
  /\ UNCHANGED <<listsKept, ownerKept, mapped, life, handed, gets>>

FreeArena ==
  /\ life = "destroy" /\ task[Opener].of = Nil /\ task[Opener].node = Nil
  /\ FreeBlocks({arena}) /\ arena' = Nil
  /\ Enters("unlock")
  /\ UNCHANGED <<listsKept, owner, cacheHeld, loading, mapped, task, handed, gets>>

\* The lock is released if it was taken.
FreeReader ==
  /\ life = "unlock"
  /\ cacheHeld' = FALSE
  /\ FreeBlocks({owner}) /\ owner' = Nil
  /\ loading' = 1 /\ gets' = 0
  /\ Enters("closed")
  /\ UNCHANGED <<listsKept, arena, mapped, task, handed>>

ArenaNext ==
  \/ MapFile
  \/ \E t \in Tasks :
       AllocateBlock(t) \/ AllocateNode(t) \/ TakeArena(t) \/ LinkNode(t) \/ PublishNode(t) \/ CallFails(t)
  \/ OpenCalled \/ MakeArena \/ MakeArenaFails \/ TakeCacheLock
  \/ \E how \in {"missing", "heap", "mapped"} : LoadFile(how)
  \/ FileLoaded \/ OpenReturns \/ OpenFails
  \/ \E t \in Worker : GetDecoded(t)
  \/ CloseCalled \/ Detach \/ RunCleanup \/ FreePtr \/ FreeArena \/ FreeReader

ArenaSpec == ArenaInit /\ [][ArenaNext]_arenaVars

-----------------------------------------------------------------------------
ArenaTypeOK ==
  /\ blocks \subseteq Block /\ mapped \subseteq 1 .. Files
  /\ \A b \in Block \ blocks : cell[b] = Garbage
  /\ arenaLock \in Tasks \cup {NoTask} /\ {owner, arena} \subseteq blocks \cup {Nil}
  /\ loading \in 1 .. Files + 1 /\ gets \in 0 .. MaxGets

\* Files are mapped only under the reader's lock on the cache, so that no writer
\* replaces them ("writers cannot replace files that the reader still maps",
\* docs/API.md:299).  What callers were given stays valid until the reader is
\* closed, and what the arena frees is allocated.
ArenaSafe ==
  /\ ArenaTypeOK
  /\ mapped # {} => cacheHeld
  /\ \A x \in handed : x \in blocks \/ -x \in mapped
  /\ life = "destroy" =>
       \A n \in {task[Opener].of, task[Opener].node} \ {Nil} : {n, cell[n].of} \subseteq blocks

\* When a reader has been closed, or could not be opened, whatever failed on the
\* way and however threads overlapped, nothing is left allocated, mapped or locked.
NothingLeft ==
  life = "closed" => blocks = {} /\ mapped = {} /\ ~cacheHeld /\ arenaLock = NoTask

===============================================================================
